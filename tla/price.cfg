\* A price that changes, an override, a link, a fetch or a worker lost.
CONSTANTS
    PriceOf <- MCOnce
    NamesMatch = FALSE
    Official = {}
    Lease = 1
    Retry = 1
    Interval = 1
    MaxDay = 2
    MaxSaves = 1
    MaxEdits = 1
    MaxLosses = 1
SPECIFICATION PriceLiveSpec
CHECK_DEADLOCK FALSE
INVARIANTS
    PricesFollowHistory
PROPERTIES
    OverridesHold
    RequestIsServed
