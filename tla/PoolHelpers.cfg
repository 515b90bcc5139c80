SPECIFICATION StoppingSpec
CONSTANTS
    Launch = {l1}
    Consumer = {}
    NoConsumer = NoConsumer
    MaxSessions = 1
    PerConsumerMax = 1
    MaxWatched = 1
    ReconfirmTries = 1
    Group = {browser, helper}
    MainGroup = browser
    DirOutcomes = {"owned", "none"}
    KillOutcomes = {"yes", "no"}
    SweepSupported = TRUE
    Stoppable = TRUE
INVARIANTS NoPinnedOrphan
PROPERTIES ShutdownTerminates SlotsComeBack
