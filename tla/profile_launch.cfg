CONSTANTS
    Launchers = {l1, l2}
    Strangers = {s1}
    Torn = Torn
    None = None
SPECIFICATION FairSpec
INVARIANTS PreparationExclusive ProfileUntouched LeaseOfRunning
PROPERTIES LaunchHonest PreparationReleased CloseEnds
CHECK_DEADLOCK FALSE
