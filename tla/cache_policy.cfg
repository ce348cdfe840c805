CONSTANTS
    Second = 2
    Half = 32
    DefaultTTL = 3
    Horizon = 14
    Absent = Absent
    Bad = Bad
    None = None
    Requests <- AllRequests
    Responses <- FittingResponses
SPECIFICATION Spec
INVARIANTS ServedInTime LifetimeUsed
PROPERTY NeverYounger
\* Horizon bounds the clock: the last instant has no step but the loads.
CHECK_DEADLOCK FALSE
