\* Two calls of an old and a new agent, logged within the overlap; one failing step.
CONSTANTS
    old = old
    new = new
    NCalls = 2
    MaxTime = 3
    Codes = {old, new}
    Legacy = {old}
    TagSets <- MCTags
    Outcomes = {"ok", "failed"}
    StartOf <- MCStartOf
    Overlap = 2
    MaxDelay = 1
    MaxFailures = 1
SPECIFICATION LiveSpec
CHECK_DEADLOCK FALSE
INVARIANTS
    NothingLostBelow
    TablesAgree
PROPERTIES
    EveryCallReported
