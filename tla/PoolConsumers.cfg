SPECIFICATION Spec
CONSTANTS
    Launch = {l1, l2}
    Consumer = {c1}
    NoConsumer = NoConsumer
    MaxSessions = 2
    PerConsumerMax = 1
    MaxWatched = 1
    ReconfirmTries = 1
    Group = {browser}
    MainGroup = browser
    DirOutcomes = {"owned", "none"}
    KillOutcomes = {"yes", "no"}
    SweepSupported = FALSE
    Stoppable = FALSE
INVARIANTS ConsumerCap
