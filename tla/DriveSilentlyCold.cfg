SPECIFICATION Spec
CONSTANTS
    Call = {c1}
    Sid = {s1}
    Host = {h1}
    LoginHosts = {h1}
    Revocable = {}
    WarmupHosts = {}
    EscalateHosts = {}
    MaxAttempts = 1
    VerifyEgress = FALSE
    NoSid = NoSid
    NoHost = NoHost
INVARIANTS NeverSilentlyCold
