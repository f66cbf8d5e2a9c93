\* Two agents, two operations, one crash anywhere.
CONSTANTS
    a = a
    b = b
    s1 = s1
    s2 = s2
    Codes = {a, b}
    Secrets = {s1}
    SecretOf <- MCSecretOf
    MaxRev = 1
    MaxOps = 2
    Drainers = {"serve"}
    MaxEdits = 0
    MaxCrashes = 1
SPECIFICATION LiveSpec
CHECK_DEADLOCK FALSE
INVARIANTS
    TypeOK
    SnapshotCovers
    RecoveryNamesUnresolved
    AppliedIsTrue
PROPERTIES
    AppliesAreAtomic
    TerminalIsFinal
    ApplyResolves
