CONSTANTS
    Slot = {s1, s2}
    Cmd = {a, b}
    Posture <- MCPosture
    OpenAttempts = 2
    Consumer = {c1, c2}
    Image = {"first", "broken"}
    Kind <- MCKind
    First = "first"
    MaxConsumers = 1
    MaxMint = 2
    MaxFails = 3
    Token = {"t1", "t2"}
SPECIFICATION OpsSpec
CHECK_DEADLOCK FALSE
INVARIANTS
    EntriesSurvive
    OldKeyGone
    WarmFromLoginExit
    SmokedConfigBoots
    StormBounded
    HealthyIsOurs
PROPERTIES
    RevokedStaysOut
