SPECIFICATION FairSpec
CONSTANTS
    Call = {c1, c2}
    Sid = {s1}
    Host = {h1}
    LoginHosts = {h1}
    Revocable = {h1}
    WarmupHosts = {h1}
    EscalateHosts = {h1}
    MaxAttempts = 1
    VerifyEgress = FALSE
    NoSid = NoSid
    NoHost = NoHost
PROPERTIES CallsReturn
