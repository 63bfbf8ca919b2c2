CONSTANTS
    Tab = {t1, t2}
    Modes = {"locks", "lease"}
    Crossing = FALSE
    TakeOverFails = FALSE
    LateRenewal = FALSE
    MaxTimers = 1
    MaxOverlap = 2
    MaxReleases = 1
SPECIFICATION FairSpec
INVARIANTS OneWriter WriterIsCurrent
 
