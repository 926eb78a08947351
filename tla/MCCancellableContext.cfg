SPECIFICATION Spec
CONSTANTS
    Cancellers <- TwoCancellers
    MaxOps = 3
    MaxCancels = 3
INVARIANTS NoLastingRace CancelledByOverlap NoStrayContext NeverPoisoned
PROPERTIES CancelReaches CancelStopsWait
CHECK_DEADLOCK FALSE
