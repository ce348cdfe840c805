CONSTANTS
    Hosts = {h1, h2}
    Calls = {c1, c2, c3}
    MaxEntries = 1
    Validity = 3
    Renewal = 1
    CAEnd = 4
    Horizon = 4
    None = None
SPECIFICATION FairSpec
INVARIANT TableConsistent
PROPERTIES LostOnlyToAnother SharedIsFresh CallReturns
\* All calls have returned.
CHECK_DEADLOCK FALSE
