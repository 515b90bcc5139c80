SPECIFICATION Spec
CONSTANTS
    Request = {r1, r2}
    Graph = {g1, g2}
    Consumer = {c1}
    RpcId = {i1, i2}
    MaxBoots = 2
    NoGraph = NoGraph
    NoRequest = NoRequest
    NoConsumer = NoConsumer
    NoId = NoId
SYMMETRY HttpSymmetry
INVARIANTS NoGraphLeaked LiveNotFenced FencedBeforePermit PermitHasHolder LockReleased
CHECK_DEADLOCK FALSE
