SPECIFICATION FairSpec
CONSTANTS
    Keys = {k1, k2}
    Fetches = {f1, f2}
    Readers = {r1}
    MaxBytes = 3
    MaxObjectBytes = 3
    MetaSize = 1
    BodySizes = {1, 3}
    Scanner = Scanner
    None = None
PROPERTIES ImplementsCache RefreshEnds
