\* Two days, two stops at any step, one fault.
CONSTANTS
    FailsBefore = 2
    HasHttp = TRUE
    HasStatus = TRUE
    DayLen = 3
    BeatAt = 1
    MaxClock = 6
    CrashAt = {"probe", "mail", "record", "beat", "mark", "save", "sleep"}
    MaxCrashes = 2
    Faults = {"mail", "save", "disk", "garbled"}
    MaxFaults = 1
SPECIFICATION Spec
CHECK_DEADLOCK FALSE
INVARIANTS
    MailsAreTrue
    RepeatsAreRestarts
