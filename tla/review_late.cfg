\* Nothing fails; an update merely takes a second to land.
SPECIFICATION Spec
CONSTANTS
    r1 = r1
    r2 = r2
    Clicks <- TwoClicks
    Windows = {1}
    Waits = {2}
    MaxTime = 2
    Faults = {}
INVARIANTS
    SettledStays
CHECK_DEADLOCK FALSE
