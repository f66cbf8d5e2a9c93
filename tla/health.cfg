\* Two days, a run-now and a run from a shell, a moved hour, one loss of each kind.
CONSTANTS
    Total = 2
    Hours = 2
    MaxManual = 1
    MaxDay = 2
    MaxShell = 1
    MaxEdits = 1
    MaxCrashes = 1
    MaxFaults = 1
    MaxLost = 1
SPECIFICATION LiveSpec
CHECK_DEADLOCK FALSE
INVARIANTS
    WorkIsDoneOnce
    StoriesAgree
PROPERTIES
    RunsEndForGood
