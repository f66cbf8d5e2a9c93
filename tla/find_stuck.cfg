\* Two statements refused in a row.
CONSTANTS
    Total = 2
    Hours = 2
    MaxManual = 1
    MaxDay = 1
    MaxShell = 0
    MaxEdits = 0
    MaxCrashes = 0
    MaxFaults = 2
    MaxLost = 0
SPECIFICATION LiveSpec
CHECK_DEADLOCK FALSE
PROPERTIES
    NoRunStaysStuck
