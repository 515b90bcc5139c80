CONSTANTS
    Nav <- MCNav
    Body <- MCBody
    Requested <- MCRequested
    MaxAttempts = 3
    CallBudget = 5
    MIN_ATTEMPT_BUDGET = 1
    NavTimeout = 2
    ClearanceTimeout = 1
    UnclearablePoll = 0
    OpenTime = 1
    Search = {s1, s2}
    Provider <- MCProvider
    Threshold = 2
    EmptyFallback = TRUE
    AllowRule <- MCAllowRule
    DenyHost = {}
    DenyWord = {"signup"}
    PrivateAddress = {"10.0.0.1"}
    ProbeHost <- MCProbeHost
    Site = {"bank", "join", "shop"}
    Address <- MCAddress
    OwnerHost <- MCOwnerHost
    WindowsHost <- MCWindowsHost
    Widget <- MCWidget
    Mode <- MCMode
    Solve = {c1, c2, c3, c4}
    MaxSolves = 2
    Window = 3
    SolveTimeout = 2
SPECIFICATION ToolSpec
CHECK_DEADLOCK FALSE
INVARIANTS
    VerdictHonest
    ProbeUnderWay
    GotoPresentsRightOs
    CredentialsStayHome
    SolvesWithinBudget
PROPERTIES
    ExitsWellSpent
