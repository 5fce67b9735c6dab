CONSTANTS
    second = c2
    Conns = {c1, c2}
    Targets = {t1}
    ReqIds = {1}
    IdleTimeout = 1
    MaxGeneration = 2
SPECIFICATION CrowdSpec
INVARIANTS
    ClocksFollowTheBrowser
    AbandonedAreOrphans
PROPERTIES
    SweepSparesWhatIsUsed
    OrphansAreReclaimed
