CONSTANTS
    Second = 2
    Half = 32
    DefaultTTL = 3
    Horizon = 14
    Absent = Absent
    Bad = Bad
    None = None
    Requests <- PlainRequest
    Responses <- TwoLineResponses
SPECIFICATION Spec
INVARIANT ForbiddenNotStored
\* Horizon bounds the clock: the last instant has no step but the loads.
CHECK_DEADLOCK FALSE
