\* Three operations of any kind on one key, or on two keys issued and revoked together; one edit at the gateway, one crash.
CONSTANTS
    a = a
    b1 = b1
    unlimited = unlimited
    Codes = {a}
    MaxRev = 1
    MaxOps = 3
    Budgets <- MCBudgets
    Bounds <- MCBounds
SPECIFICATION LiveSpec
CHECK_DEADLOCK FALSE
INVARIANTS
    KeysAccounted
    RevokedIsGone
PROPERTIES
    NeverUndoesDelivered
    InterruptedIssueEnds
