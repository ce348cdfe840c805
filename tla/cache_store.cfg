SPECIFICATION Spec
CONSTANTS
    Keys = {k1, k2}
    Fetches = {f1, f2, f3}
    Readers = {r1}
    MaxBytes = 3
    MaxObjectBytes = 2
    MetaSize = 1
    BodySizes = {2, 3}
    Scanner = Scanner
    None = None
SYMMETRY Symmetry
INVARIANTS TypeOK ServedWhole PairIntact IndexMatchesDisk PendingExact NoTemporaryLeft SingleRefresh
