\* Two tests or claims, one step that fails or one crash.
CONSTANTS
    a = a
    b = b
    Codes = {a}
    MaxRev = 1
    MaxOps = 2
    Drainers = {"serve"}
    Flaws = {"none", "other-route", "no-cost", "misfit"}
    Limit = 1
    MaxLosses = 1
SPECIFICATION LiveSpec
CHECK_DEADLOCK FALSE
INVARIANTS
    DoneOnce
    VerdictsAreTrue
PROPERTIES
    TestsEndForGood
