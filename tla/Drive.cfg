SPECIFICATION Spec
CONSTANTS
    Call = {c1, c2}
    Sid = {s1, s2}
    Host = {h1, h2}
    LoginHosts = {h1}
    Revocable = {h1}
    WarmupHosts = {h1}
    EscalateHosts = {h2}
    MaxAttempts = 2
    VerifyEgress = TRUE
    NoSid = NoSid
    NoHost = NoHost
SYMMETRY DriveSymmetry
INVARIANTS NoSessionLost OneSession SessionRemembered CaptureHost
PROPERTIES CommittedKept
