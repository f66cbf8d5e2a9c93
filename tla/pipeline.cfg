\* A few short careers of the operator next to the refresh loop.
CONSTANTS
    Bounds <- MCBounds
    Overlap = 0
    NewUser = {2}
    Nobody = {1}
SPECIFICATION LiveSpec
CHECK_DEADLOCK FALSE
INVARIANTS
    DoneAgrees
    LoadsFitTogether
PROPERTIES
    DeletedRowsReturnOrAreTold
