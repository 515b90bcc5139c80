SPECIFICATION Spec
CONSTANTS
    Launch = {l1, l2}
    Consumer = {}
    NoConsumer = NoConsumer
    MaxSessions = 1
    PerConsumerMax = 1
    MaxWatched = 1
    ReconfirmTries = 1
    Group = {browser}
    MainGroup = browser
    DirOutcomes = {"owned"}
    KillOutcomes = {"yes"}
    SweepSupported = TRUE
    Stoppable = TRUE
SYMMETRY LaunchSymmetry
INVARIANTS NoBrowserForgotten DirNotRemovedUnderBrowser GlobalCap OneLedger
    ShutdownWaits
PROPERTIES KeepsContract
