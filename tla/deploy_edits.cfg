\* One agent that moves to a second secret, one edit from outside, one crash (both only beside a single operation).
CONSTANTS
    a = a
    b = b
    s1 = s1
    s2 = s2
    Codes = {a}
    Secrets = {s1, s2}
    SecretOf <- MCSecretOf
    MaxRev = 2
    MaxOps = 2
    Drainers = {"serve"}
    MaxEdits = 1
    MaxCrashes = 1
SPECIFICATION Spec
CHECK_DEADLOCK FALSE
CONSTRAINT OneUpset
INVARIANTS
    RestIsInOrder
PROPERTIES
    RegistryAsReviewed
