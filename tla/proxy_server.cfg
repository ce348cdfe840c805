CONSTANTS
    Conns = {c1, c2}
    Limit = 2
    Idle = 2
    Header = 1
    Refresh = 1
SPECIFICATION FairSpec
INVARIANTS SlotsExact OwnerKeeps DeadlinesRight
PROPERTIES StopEnds SlotComesBack
\* A proxy that was stopped does nothing more.
CHECK_DEADLOCK FALSE
