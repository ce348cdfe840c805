CONSTANTS
    Starts = {p1, p2, p3, p4}
    Failing = {"create", "write", "close", "load"}
    None = None
SYMMETRY Symmetry
SPECIFICATION Spec
INVARIANTS KeyBeforeCert FailedLeavesNoHalf UsedKept
\* All starts are over.
CHECK_DEADLOCK FALSE
