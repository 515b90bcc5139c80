------------------------- MODULE HttpServiceProofs -------------------------
(***************************************************************************)
(* Proofs about HttpService, for any number of requests, sessions, ids and *)
(* boots.  The inductive invariant is HttpInv: how far a tool handler, the *)
(* response and the lease tracker of one request can be apart (Calls), who *)
(* refers to a graph and as what (References), that two requests never     *)
(* build one graph or share an id (Apart), and what a graph in each place  *)
(* is like (Graphs).                                                       *)
(***************************************************************************)
EXTENDS HttpService, FiniteSetTheorems, TLAPS

Building == {"opening", "disposing"}

\* One request: nothing runs before it is dispatched; a tool that has not come
\* to its lease has none; a lease belongs to a call that is still handled, and
\* the response is over exactly when the tracker is.
CallShape(q) ==
    /\ q.at \in {"body", "opening", "replying", "disposing"} => q.tool = "none"
    /\ q.at = "handling" => q.kind # "initialize" /\ q.tool # "none"
    /\ q.tool \in {"none", "running"} => q.tracker = "none"
    /\ q.tool \in {"none", "running", "asking", "waiting", "reading", "refusing"}
          => ~q.leased /\ q.tracker \in {"none", "idle", "settled"}
    /\ q.tracker = "none" => ~q.leased /\ q.res = "open"
    /\ q.tracker = "idle" => ~q.leased /\ q.res = "open"
    /\ q.tracker = "active" => q.leased /\ q.res = "open"
    /\ q.tracker = "terminal" => q.leased /\ q.res # "open"
    /\ q.tracker = "settled" => q.res # "open"
    /\ q.tracker \in {"idle", "active", "terminal"} => q.at = "handling"
    /\ q.at = "handling" => (q.kind = "artifact" <=> q.tracker # "none")
    /\ q.at = "none" => q.tool \notin {"done", "thrown"}

Calls == \A r \in Request : CallShape(req[r])

\* What a request in each place says of the graph it names.
Refers(r) ==
    LET q == req[r]
    IN  /\ q.at \in {"opening", "replying", "disposing", "handling"} => q.graph \in Graph
        /\ q.at = "body" /\ q.kind # "initialize" => q.graph \in Graph /\ q.id \in RpcId
        /\ q.at = "opening" => graph[q.graph].at = "opening"
        /\ q.at = "disposing" => graph[q.graph].at = "orphan"
        /\ q.at = "handling" => /\ q.id \in graph[q.graph].ids
                                /\ graph[q.graph].at \notin {"opening", "orphan"}

References == \A r \in Request : Refers(r)

\* A graph is built by one request, and an id of a session is in flight once.
Apart ==
    \A r, s \in Request :
        r # s /\ req[r].graph = req[s].graph =>
            /\ ~(req[r].at \in Building /\ req[s].at \in Building)
            /\ req[r].at = "handling" /\ req[s].at = "handling" => req[r].id # req[s].id

\* Only what left sessions is being disposed of, and inFlight counts the ids.
GraphShape(g) ==
    /\ graph[g].at \in {"none", "opening", "live"} => graph[g].disposal = "no"
    /\ IsFiniteSet(graph[g].ids) /\ graph[g].inFlight = Cardinality(graph[g].ids)

Graphs == \A g \in Graph : GraphShape(g)

HttpInv ==
    /\ TypeOK /\ LockReleased /\ Calls /\ References /\ Apart /\ Graphs
    /\ NoGraphLeaked /\ PermitHasHolder

-----------------------------------------------------------------------------
(* The request whose step it is moves, and no other. *)

LEMMA IdleTypes == Idle \in RequestState /\ Unbuilt \in GraphState
BY HttpAssumption DEF Idle, RequestState, Kind, Unbuilt, GraphState

\* An id that is in flight is counted.
LEMMA InFlightPositive ==
    ASSUME HttpInv, NEW r \in Request, req[r].at = "handling"
    PROVE  LET g == req[r].graph IN
           /\ g \in Graph /\ graph[g].inFlight \in Nat /\ graph[g].inFlight > 0
           /\ graph[g].ids \in SUBSET RpcId
           /\ IsFiniteSet(graph[g].ids \ {req[r].id})
           /\ graph[g].inFlight - 1 = Cardinality(graph[g].ids \ {req[r].id})
<1> DEFINE g == req[r].graph
<1>1. g \in Graph /\ req[r].id \in graph[g].ids
  BY DEF HttpInv, References, Refers
<1>2. graph[g] \in GraphState
  BY <1>1 DEF HttpInv, TypeOK
<1>3. IsFiniteSet(graph[g].ids) /\ graph[g].inFlight = Cardinality(graph[g].ids)
  BY <1>1 DEF HttpInv, Graphs, GraphShape
<1>4. /\ IsFiniteSet(graph[g].ids \ {req[r].id})
      /\ Cardinality(graph[g].ids \ {req[r].id}) = Cardinality(graph[g].ids) - 1
  BY <1>1, <1>3, FS_RemoveElement
<1>5. Cardinality(graph[g].ids) # 0
  BY <1>1, <1>3, FS_EmptySet
<1> QED BY <1>1, <1>2, <1>3, <1>4, <1>5 DEF GraphState

\* What becomes of a request is a request.
LEMMA RequestUpdates ==
    ASSUME NEW q \in RequestState
    PROVE  /\ \A a \in {"opening", "replying", "disposing", "none"} :
                 [q EXCEPT !.at = a] \in RequestState
           /\ [q EXCEPT !.at = "none", !.id = NoId] \in RequestState
           /\ \A g \in Graph : [q EXCEPT !.at = "opening", !.graph = g] \in RequestState
           /\ \A t \in {"running", "asking", "waiting", "reading", "refusing", "done",
                         "thrown"} : [q EXCEPT !.tool = t] \in RequestState
           /\ \A k \in {"terminal", "settled"}, e \in {"finished", "destroyed"} :
                 [q EXCEPT !.tracker = k, !.res = e] \in RequestState
           /\ \A t \in {"asking", "running"}, k \in {"idle", "none"} :
                 [q EXCEPT !.at = "handling", !.tool = t, !.tracker = k] \in RequestState
           /\ [q EXCEPT !.tracker = "active", !.leased = TRUE, !.tool = "done"]
                 \in RequestState
<1>1. ASSUME NEW a \in {"opening", "replying", "disposing", "none"}
      PROVE  [q EXCEPT !.at = a] \in RequestState
  BY DEF RequestState
<1>2. [q EXCEPT !.at = "none", !.id = NoId] \in RequestState
  BY DEF RequestState
<1>3. ASSUME NEW g \in Graph
      PROVE  [q EXCEPT !.at = "opening", !.graph = g] \in RequestState
  BY DEF RequestState
<1>4. ASSUME NEW t \in {"running", "asking", "waiting", "reading", "refusing",
                        "done", "thrown"}
      PROVE  [q EXCEPT !.tool = t] \in RequestState
  BY DEF RequestState
<1>5. ASSUME NEW k \in {"terminal", "settled"}, NEW e \in {"finished", "destroyed"}
      PROVE  [q EXCEPT !.tracker = k, !.res = e] \in RequestState
  BY DEF RequestState
<1>6. ASSUME NEW t \in {"asking", "running"}, NEW k \in {"idle", "none"}
      PROVE  [q EXCEPT !.at = "handling", !.tool = t, !.tracker = k] \in RequestState
  BY DEF RequestState
<1>7. [q EXCEPT !.tracker = "active", !.leased = TRUE, !.tool = "done"]
         \in RequestState
  BY DEF RequestState
<1> QED BY <1>1, <1>2, <1>3, <1>4, <1>5, <1>6, <1>7

\* So are the moves that several actions share.
LEMMA RequestMoves ==
    ASSUME NEW q \in RequestState
    PROVE  /\ \A sent \in BOOLEAN : Terminalize(q, sent) \in RequestState
           /\ Leave(q) \in RequestState /\ ToolDone(q) \in RequestState
           /\ Drop(q) \in RequestState
<1>1. ASSUME NEW sent \in BOOLEAN
      PROVE  Terminalize(q, sent) \in RequestState
  <2> DEFINE k == IF q.leased THEN "terminal" ELSE "settled"
             e == IF sent THEN "finished" ELSE "destroyed"
  <2>1. k \in {"terminal", "settled"} /\ e \in {"finished", "destroyed"}
    OBVIOUS
  <2> HIDE DEF k, e
  <2>2. [q EXCEPT !.tracker = k, !.res = e] \in RequestState
    BY <2>1, RequestUpdates
  <2> QED BY <2>2 DEF Terminalize, k, e
<1>4. Leave(q) \in RequestState /\ ToolDone(q) \in RequestState
  BY RequestUpdates, IdleTypes DEF Leave, ToolDone
<1>5. Drop(q) \in RequestState
  BY <1>1 DEF Drop
<1> QED BY <1>1, <1>4, <1>5

\* A cleanup keeps the types.
LEMMA CleanupTypes ==
    ASSUME graph \in [Graph -> GraphState], NEW G, Cleanup(G)
    PROVE  graph' \in [Graph -> GraphState]
<1>1. ASSUME NEW g \in Graph
      PROVE  [graph[g] EXCEPT !.at = "cleaning", !.disposal = "closing"] \in GraphState
  BY Zenon DEF GraphState
<1> QED BY <1>1 DEF Cleanup

\* What a finally block makes of the graph of a request.
LEMMA FinallyMoves ==
    ASSUME HttpInv, NEW r \in Request, req[r].at = "handling", Finally(r)
    PROVE  LET g == req[r].graph IN
           /\ graph' \in [Graph -> GraphState]
           /\ \A h \in Graph : h # g => graph'[h] = graph[h]
           /\ graph'[g].ids = graph[g].ids \ {req[r].id}
           /\ graph'[g].inFlight = graph[g].inFlight - 1
           /\ graph'[g].at = graph[g].at /\ graph'[g].disposal = graph[g].disposal
<1> DEFINE g == req[r].graph
           e == [graph[g] EXCEPT !.ids = @ \ {req[r].id}, !.inFlight = @ - 1,
                                 !.idle = FALSE]
<1>1. g \in Graph /\ graph \in [Graph -> GraphState]
  BY InFlightPositive DEF HttpInv, TypeOK
<1>2. graph[g] \in GraphState /\ graph[g].ids \in SUBSET RpcId
      /\ graph[g].inFlight \in Nat /\ graph[g].inFlight > 0
  BY <1>1, InFlightPositive
<1>3. graph' = [graph EXCEPT ![g] = e]
  BY DEF Finally
<1>4. e \in GraphState
  <2>1. graph[g].inFlight - 1 \in Nat /\ graph[g].ids \ {req[r].id} \in SUBSET RpcId
    BY <1>2
  <2> QED BY <1>2, <2>1, Zenon DEF GraphState
<1>5. /\ e.ids = graph[g].ids \ {req[r].id} /\ e.inFlight = graph[g].inFlight - 1
      /\ e.at = graph[g].at /\ e.disposal = graph[g].disposal
  BY <1>2 DEF GraphState
<1> HIDE DEF e
<1> QED BY <1>1, <1>3, <1>4, <1>5

\* The lock directory: its word is given back by every way out of the process.
LEMMA LockStep ==
    ASSUME HttpInv, [Next]_vars
    PROVE  LockReleased'
<1> USE DEF HttpInv, TypeOK, LockReleased, Up, Phase
<1>1. CASE ProcessStep
  <2>Boot. ASSUME NEW to \in {"down", "refusing", "binding"}, Boot(to)
        PROVE  LockReleased'
    BY <2>Boot DEF Boot, conn
  <2>Listens. CASE Listens
    BY <2>Listens DEF Listens, conn
  <2>ListenFails. CASE ListenFails
    BY <2>ListenFails DEF ListenFails, conn
  <2>Signal. CASE Signal
    BY <2>Signal DEF Signal, Exit, conn
  <2>CloseAll. CASE CloseAll
    BY <2>CloseAll DEF CloseAll, Cleanup
  <2>Settles. CASE Settles
    BY <2>Settles DEF Settles
  <2>CloseArtifacts. ASSUME NEW released \in BOOLEAN, CloseArtifacts(released)
        PROVE  LockReleased'
    BY <2>CloseArtifacts DEF CloseArtifacts, Exit
  <2>Killed. CASE Killed
    BY <2>Killed DEF Killed, Exit
  <2> QED BY <1>1, <2>Boot, <2>Listens, <2>ListenFails, <2>Signal,
       <2>CloseAll, <2>Settles, <2>CloseArtifacts, <2>Killed DEF ProcessStep
<1>2. CASE GraphStep
  <2>ReapTick. CASE ReapTick
    BY <2>ReapTick DEF ReapTick, Cleanup
  <2>DriveCloses. ASSUME NEW g \in Graph, DriveCloses(g)
        PROVE  LockReleased'
    BY <2>DriveCloses DEF DriveCloses
  <2>LineageDiscarded. ASSUME NEW g \in Graph, LineageDiscarded(g)
        PROVE  LockReleased'
    BY <2>LineageDiscarded DEF LineageDiscarded
  <2>TimePasses. ASSUME NEW g \in Graph, TimePasses(g)
        PROVE  LockReleased'
    BY <2>TimePasses DEF TimePasses
  <2>ReapNext. ASSUME NEW g \in Graph, ReapNext(g)
        PROVE  LockReleased'
    BY <2>ReapNext DEF ReapNext, Cleanup
  <2>Touch. ASSUME NEW g \in Graph, NEW delete \in BOOLEAN, Touch(g, delete)
        PROVE  LockReleased'
    BY <2>Touch DEF Touch, Cleanup
  <2> QED BY <1>2, <2>ReapTick, <2>DriveCloses, <2>LineageDiscarded,
       <2>TimePasses, <2>ReapNext, <2>Touch DEF GraphStep
<1>3. ASSUME NEW r \in Request, RequestStep(r)
      PROVE  LockReleased'
  <2>Arrives. ASSUME NEW kind \in Kind, NEW c \in Consumer, NEW g \in Graph \cup {NoGraph}, NEW i \in RpcId \cup {NoId},
                Arrives(r, kind, c, g, i)
        PROVE  LockReleased'
    BY <2>Arrives DEF Arrives
  <2>BodyRefused. CASE BodyRefused(r)
    BY <2>BodyRefused DEF BodyRefused, Answered
  <2>CallRefused. CASE CallRefused(r)
    BY <2>CallRefused DEF CallRefused, Answered
  <2>Dispatch. CASE Dispatch(r)
    BY <2>Dispatch DEF Dispatch, Owned
  <2>ToolReturns. CASE ToolReturns(r)
    BY <2>ToolReturns DEF ToolReturns, ToolDone
  <2>CallEnds. CASE CallEnds(r)
    BY <2>CallEnds DEF CallEnds, Leave, Finally
  <2>Registered. CASE Registered(r)
    BY <2>Registered DEF Registered
  <2>InitializeFails. CASE InitializeFails(r)
    BY <2>InitializeFails DEF InitializeFails, Cleanup, Answered
  <2>OrphanDisposed. CASE OrphanDisposed(r)
    BY <2>OrphanDisposed DEF OrphanDisposed, Answered
  <2>InitializeReplies. CASE InitializeReplies(r)
    BY <2>InitializeReplies DEF InitializeReplies, Answered
  <2>OpenSession. ASSUME NEW g \in Graph, OpenSession(r, g)
        PROVE  LockReleased'
    BY <2>OpenSession DEF OpenSession, Unused
  <2> QED BY <1>3, <2>Arrives, <2>BodyRefused, <2>CallRefused, <2>Dispatch,
       <2>ToolReturns, <2>CallEnds, <2>Registered, <2>InitializeFails,
       <2>OrphanDisposed, <2>InitializeReplies, <2>OpenSession DEF RequestStep
<1>4. ASSUME NEW r \in Request, ArtifactStep(r)
      PROVE  LockReleased'
  <2>HandleThrows. CASE HandleThrows(r)
    BY <2>HandleThrows DEF HandleThrows
  <2>ReadFails. CASE ReadFails(r)
    BY <2>ReadFails DEF ReadFails, ToolDone
  <2>Registers. CASE Registers(r)
    BY <2>Registers DEF Registers
  <2>RefusalCompletes. CASE RefusalCompletes(r)
    BY <2>RefusalCompletes DEF RefusalCompletes, ToolDone
  <2>ResponseFinishes. CASE ResponseFinishes(r)
    BY <2>ResponseFinishes DEF ResponseFinishes, Terminalize
  <2>ResponseLost. CASE ResponseLost(r)
    BY <2>ResponseLost DEF ResponseLost, Terminalize
  <2>Deadline. CASE Deadline(r)
    BY <2>Deadline DEF Deadline, Terminalize
  <2>LeaseCompletes. CASE LeaseCompletes(r)
    BY <2>LeaseCompletes DEF LeaseCompletes
  <2>ArtifactCallEnds. CASE ArtifactCallEnds(r)
    BY <2>ArtifactCallEnds DEF ArtifactCallEnds, Leave, Finally
  <2>ToolAsks. ASSUME NEW refused \in BOOLEAN, ToolAsks(r, refused)
        PROVE  LockReleased'
    BY <2>ToolAsks DEF ToolAsks, ToolDone
  <2>PermitGranted. ASSUME NEW refused \in BOOLEAN, PermitGranted(r, refused)
        PROVE  LockReleased'
    BY <2>PermitGranted DEF PermitGranted, ToolDone
  <2> QED BY <1>4, <2>HandleThrows, <2>ReadFails, <2>Registers,
       <2>RefusalCompletes, <2>ResponseFinishes, <2>ResponseLost, <2>Deadline,
       <2>LeaseCompletes, <2>ArtifactCallEnds, <2>ToolAsks, <2>PermitGranted
       DEF ArtifactStep
<1>5. CASE UNCHANGED vars
  BY <1>5 DEF vars, conn
<1> QED BY <1>1, <1>2, <1>3, <1>4, <1>5 DEF Next

\* Every step keeps the types: a call that ends was counted in flight.
LEMMA TypeStep ==
    ASSUME HttpInv, [Next]_vars
    PROVE  TypeOK'
<1> USE HttpAssumption, IdleTypes DEF TypeOK
<1>a. TypeOK
  BY DEF HttpInv
<1>b. References
  BY DEF HttpInv
<1>1. CASE ProcessStep
  <2>Boot. ASSUME NEW to \in {"down", "refusing", "binding"}, Boot(to)
        PROVE  TypeOK'
    <3>1. boots' \in 0..MaxBoots
      BY <2>Boot, <1>a DEF Boot
    <3>2. lock' \in BOOLEAN /\ excused' \in {"no", "killed", "close-overran", "signal-in-boot"}
      BY <2>Boot, <1>a DEF Boot
    <3> QED BY <2>Boot, <1>a, <3>1, <3>2 DEF Boot, conn, Phase
  <2>Listens. CASE Listens
    BY <2>Listens, <1>a DEF Listens, conn, Phase
  <2>ListenFails. CASE ListenFails
    BY <2>ListenFails, <1>a DEF ListenFails, conn, Phase
  <2>Signal. CASE Signal
    BY <2>Signal, <1>a DEF Signal, Exit, conn, Phase
  <2>CloseAll. CASE CloseAll
    BY <2>CloseAll, <1>a, CleanupTypes DEF CloseAll, Phase
  <2>Settles. CASE Settles
    <3>1. \A r \in Request : Drop(req[r]) \in RequestState
      BY <1>a, RequestMoves
    <3> QED BY <2>Settles, <1>a, <3>1 DEF Settles, Phase
  <2>CloseArtifacts. ASSUME NEW released \in BOOLEAN, CloseArtifacts(released)
        PROVE  TypeOK'
    BY <2>CloseArtifacts, <1>a DEF CloseArtifacts, Exit, Phase
  <2>Killed. CASE Killed
    BY <2>Killed, <1>a DEF Killed, Exit, Phase
  <2> QED BY <1>1, <2>Boot, <2>Listens, <2>ListenFails, <2>Signal,
       <2>CloseAll, <2>Settles, <2>CloseArtifacts, <2>Killed DEF ProcessStep
<1>2. CASE GraphStep
  <2>ReapTick. CASE ReapTick
    <3>1. PICK g \in Stale : Cleanup({g}) /\ reaping' = reaping \cup (Stale \ {g})
      BY <2>ReapTick DEF ReapTick
    <3>2. graph' \in [Graph -> GraphState]
      BY <1>a, <3>1, CleanupTypes
    <3> QED BY <2>ReapTick, <1>a, <3>1, <3>2 DEF ReapTick, Stale
  <2>DriveCloses. ASSUME NEW g \in Graph, DriveCloses(g)
        PROVE  TypeOK'
    BY <2>DriveCloses, <1>a DEF DriveCloses, GraphState
  <2>LineageDiscarded. ASSUME NEW g \in Graph, LineageDiscarded(g)
        PROVE  TypeOK'
    BY <2>LineageDiscarded, <1>a DEF LineageDiscarded, GraphState, Unbuilt
  <2>TimePasses. ASSUME NEW g \in Graph, TimePasses(g)
        PROVE  TypeOK'
    BY <2>TimePasses, <1>a DEF TimePasses, GraphState
  <2>ReapNext. ASSUME NEW g \in Graph, ReapNext(g)
        PROVE  TypeOK'
    BY <2>ReapNext, <1>a, CleanupTypes DEF ReapNext, Phase
  <2>Touch. ASSUME NEW g \in Graph, NEW delete \in BOOLEAN, Touch(g, delete)
        PROVE  TypeOK'
    <3>1. graph' \in [Graph -> GraphState]
      <4>1. CASE delete
        BY <2>Touch, <1>a, <4>1, CleanupTypes DEF Touch
      <4>2. CASE ~delete
        <5>1. [graph[g] EXCEPT !.idle = FALSE] \in GraphState
          BY <1>a, Zenon DEF GraphState
        <5> QED BY <2>Touch, <1>a, <4>2, <5>1 DEF Touch
      <4> QED BY <4>1, <4>2
    <3> QED BY <2>Touch, <1>a, <3>1 DEF Touch
  <2> QED BY <1>2, <2>ReapTick, <2>DriveCloses, <2>LineageDiscarded,
       <2>TimePasses, <2>ReapNext, <2>Touch DEF GraphStep
<1>3. ASSUME NEW r \in Request, RequestStep(r)
      PROVE  TypeOK'
  <2>Arrives. ASSUME NEW kind \in Kind, NEW c \in Consumer, NEW g \in Graph \cup {NoGraph}, NEW i \in RpcId \cup {NoId},
                Arrives(r, kind, c, g, i)
        PROVE  TypeOK'
    <3>1. [Idle EXCEPT !.at = "body", !.kind = kind, !.consumer = c,
                       !.graph = g, !.id = i] \in RequestState
      BY DEF RequestState, Idle
    <3> QED BY <2>Arrives, <1>a, <3>1 DEF Arrives
  <2>BodyRefused. CASE BodyRefused(r)
    BY <2>BodyRefused, <1>a DEF BodyRefused, Answered
  <2>CallRefused. CASE CallRefused(r)
    BY <2>CallRefused, <1>a DEF CallRefused, Answered
  <2>Dispatch. CASE Dispatch(r)
    <3> DEFINE g == req[r].graph
               n == graph[g].inFlight + 1
               s == graph[g].ids \cup {req[r].id}
               e == [graph[g] EXCEPT !.ids = s, !.inFlight = n, !.idle = FALSE]
               t == IF req[r].kind = "artifact" THEN "asking" ELSE "running"
               k == IF req[r].kind = "artifact" THEN "idle" ELSE "none"
               q == [req[r] EXCEPT !.at = "handling", !.tool = t, !.tracker = k]
    <3>0. graph' = [graph EXCEPT ![g] = e] /\ req' = [req EXCEPT ![r] = q]
      BY <2>Dispatch DEF Dispatch
    <3>1. req[r] \in RequestState /\ g \in Graph /\ req[r].id \in RpcId
      <4>1. req[r] \in RequestState
        BY <1>a
      <4>2. req[r].at = "body" /\ req[r].kind # "initialize"
        BY <2>Dispatch DEF Dispatch
      <4>3. Refers(r)
        BY <1>b DEF References
      <4> QED BY <4>1, <4>2, <4>3, Zenon DEF Refers, RequestState
    <3>2. graph[g] \in GraphState
      BY <1>a, <3>1
    <3>3. n \in Nat /\ s \in SUBSET RpcId
      BY <3>1, <3>2 DEF GraphState
    <3>4. t \in {"asking", "running"} /\ k \in {"idle", "none"}
      OBVIOUS
    <3> HIDE DEF n, s, t, k
    <3>5. e \in GraphState
      BY <3>2, <3>3, Zenon DEF GraphState
    <3>6. q \in RequestState
      BY <3>1, <3>4, RequestUpdates
    <3> HIDE DEF g, e, q
    <3>7. graph' \in [Graph -> GraphState] /\ req' \in [Request -> RequestState]
      BY <1>a, <3>0, <3>5, <3>6
    <3>8. UNCHANGED <<proc, boots, lock, excused, reaping, permit>>
      BY <2>Dispatch DEF Dispatch
    <3> QED BY <1>a, <3>7, <3>8
  <2>ToolReturns. CASE ToolReturns(r)
    BY <2>ToolReturns, <1>a DEF ToolReturns, ToolDone, RequestState
  <2>CallEnds. CASE CallEnds(r)
    <3>1. Leave(req[r]) \in RequestState
      BY <1>a, RequestMoves
    <3>2. graph' \in [Graph -> GraphState]
      BY <2>CallEnds, FinallyMoves DEF CallEnds
    <3> QED BY <2>CallEnds, <1>a, <3>1, <3>2 DEF CallEnds, Finally
  <2>Registered. CASE Registered(r)
    <3>1. req[r].graph \in Graph
      BY <2>Registered, <1>b DEF Registered, References, Refers
    <3>2. req[r].consumer \in Consumer \cup {NoConsumer}
      BY <1>a DEF RequestState
    <3>3. [graph[req[r].graph] EXCEPT !.at = "live", !.owner = req[r].consumer]
             \in GraphState
      BY <1>a, <3>1, <3>2, Zenon DEF GraphState
    <3>4. [req[r] EXCEPT !.at = "replying"] \in RequestState
      BY <1>a, RequestUpdates
    <3> QED BY <2>Registered, <1>a, <3>3, <3>4 DEF Registered
  <2>InitializeFails. CASE InitializeFails(r)
    <3>1. req[r].graph \in Graph
      BY <2>InitializeFails, <1>b DEF InitializeFails, References, Refers
    <3>2. CASE req[r].at = "opening"
      <4>1. [graph[req[r].graph] EXCEPT !.at = "orphan", !.disposal = "closing"]
                \in GraphState
        BY <1>a, <3>1, Zenon DEF GraphState
      <4>2. [req[r] EXCEPT !.at = "disposing"] \in RequestState
        BY <1>a, RequestUpdates
      <4> QED BY <2>InitializeFails, <1>a, <3>2, <4>1, <4>2 DEF InitializeFails
    <3>3. CASE req[r].at = "replying"
      BY <2>InitializeFails, <1>a, <3>3, CleanupTypes DEF InitializeFails, Answered
    <3> QED BY <2>InitializeFails, <3>2, <3>3 DEF InitializeFails
  <2>OrphanDisposed. CASE OrphanDisposed(r)
    BY <2>OrphanDisposed, <1>a DEF OrphanDisposed, Answered, GraphState
  <2>InitializeReplies. CASE InitializeReplies(r)
    BY <2>InitializeReplies, <1>a DEF InitializeReplies, Answered
  <2>OpenSession. ASSUME NEW g \in Graph, OpenSession(r, g)
        PROVE  TypeOK'
    <3>1. [Unbuilt EXCEPT !.at = "opening"] \in GraphState
      BY Zenon DEF GraphState
    <3>2. [req[r] EXCEPT !.at = "opening", !.graph = g] \in RequestState
      BY <1>a, RequestUpdates
    <3> QED BY <2>OpenSession, <1>a, <3>1, <3>2 DEF OpenSession
  <2> QED BY <1>3, <2>Arrives, <2>BodyRefused, <2>CallRefused, <2>Dispatch,
       <2>ToolReturns, <2>CallEnds, <2>Registered, <2>InitializeFails,
       <2>OrphanDisposed, <2>InitializeReplies, <2>OpenSession DEF RequestStep
<1>4. ASSUME NEW r \in Request, ArtifactStep(r)
      PROVE  TypeOK'
  <2>HandleThrows. CASE HandleThrows(r)
    BY <2>HandleThrows, <1>a DEF HandleThrows, RequestState
  <2>ReadFails. CASE ReadFails(r)
    BY <2>ReadFails, <1>a DEF ReadFails, ToolDone, RequestState
  <2>Registers. CASE Registers(r)
    <3>1. /\ [req[r] EXCEPT !.tracker = "active", !.leased = TRUE, !.tool = "done"]
                \in RequestState
          /\ [req[r] EXCEPT !.tool = "refusing"] \in RequestState
      BY <1>a, RequestUpdates
    <3>2. req' \in [Request -> RequestState]
      BY <2>Registers, <1>a, <3>1 DEF Registers
    <3> QED BY <2>Registers, <1>a, <3>2 DEF Registers
  <2>RefusalCompletes. CASE RefusalCompletes(r)
    BY <2>RefusalCompletes, <1>a DEF RefusalCompletes, ToolDone, RequestState
  <2>ResponseFinishes. CASE ResponseFinishes(r)
    BY <2>ResponseFinishes, <1>a, RequestMoves DEF ResponseFinishes
  <2>ResponseLost. CASE ResponseLost(r)
    BY <2>ResponseLost, <1>a, RequestMoves DEF ResponseLost
  <2>Deadline. CASE Deadline(r)
    BY <2>Deadline, <1>a, RequestMoves DEF Deadline
  <2>LeaseCompletes. CASE LeaseCompletes(r)
    BY <2>LeaseCompletes, <1>a DEF LeaseCompletes, RequestState
  <2>ArtifactCallEnds. CASE ArtifactCallEnds(r)
    <3>1. Leave(req[r]) \in RequestState
      BY <1>a, RequestMoves
    <3>2. graph' \in [Graph -> GraphState]
      BY <2>ArtifactCallEnds, FinallyMoves DEF ArtifactCallEnds
    <3> QED BY <2>ArtifactCallEnds, <1>a, <3>1, <3>2 DEF ArtifactCallEnds, Finally
  <2>ToolAsks. ASSUME NEW refused \in BOOLEAN, ToolAsks(r, refused)
        PROVE  TypeOK'
    BY <2>ToolAsks, <1>a DEF ToolAsks, ToolDone, RequestState
  <2>PermitGranted. ASSUME NEW refused \in BOOLEAN, PermitGranted(r, refused)
        PROVE  TypeOK'
    BY <2>PermitGranted, <1>a DEF PermitGranted, ToolDone, RequestState
  <2> QED BY <1>4, <2>HandleThrows, <2>ReadFails, <2>Registers,
       <2>RefusalCompletes, <2>ResponseFinishes, <2>ResponseLost, <2>Deadline,
       <2>LeaseCompletes, <2>ArtifactCallEnds, <2>ToolAsks, <2>PermitGranted
       DEF ArtifactStep
<1>5. CASE UNCHANGED vars
  BY <1>5, <1>a DEF vars, conn
<1> QED BY <1>1, <1>2, <1>3, <1>4, <1>5 DEF Next

-----------------------------------------------------------------------------
(* Requests: the handler, the response, the tracker and the permit. *)

\* The moves that several actions share keep the shape of a request.
LEMMA ShapeMoves ==
    ASSUME NEW q \in RequestState, CallShape(q)
    PROVE  /\ CallShape(Idle)
           /\ q.tracker \in {"idle", "active"} =>
                 \A sent \in BOOLEAN : CallShape(Terminalize(q, sent))
           /\ q.at = "handling" /\ q.tracker \in {"none", "settled"} => CallShape(Leave(q))
           /\ q.tool \in {"running", "asking", "waiting", "reading", "refusing"} =>
                 CallShape(ToolDone(q))
           /\ CallShape(Drop(q))
<1> USE DEF RequestState
<1>1. CallShape(Idle)
  BY DEF CallShape, Idle
<1>2. ASSUME q.tracker \in {"idle", "active"}, NEW sent \in BOOLEAN
      PROVE  CallShape(Terminalize(q, sent))
  <2>1. CASE q.leased
    BY <1>2, <2>1 DEF CallShape, Terminalize
  <2>2. CASE ~q.leased
    BY <1>2, <2>2 DEF CallShape, Terminalize
  <2> QED BY <2>1, <2>2
<1>3. ASSUME q.at = "handling", q.tracker \in {"none", "settled"}
      PROVE  CallShape(Leave(q))
  BY <1>1, <1>3 DEF CallShape, Leave
<1>4. ASSUME q.tool \in {"running", "asking", "waiting", "reading", "refusing"}
      PROVE  CallShape(ToolDone(q))
  BY <1>1, <1>4 DEF CallShape, ToolDone
<1>5. CallShape(Drop(q))
  BY <1>2 DEF Drop
<1> QED BY <1>1, <1>2, <1>3, <1>4, <1>5

\* Every step keeps the shape of every request.
LEMMA CallsStep ==
    ASSUME HttpInv, [Next]_vars
    PROVE  Calls'
<1> SUFFICES ASSUME NEW m \in Request
             PROVE  CallShape(req'[m])
  BY DEF Calls
<1>b. \A r \in Request : req[r] \in RequestState /\ CallShape(req[r])
  BY DEF HttpInv, TypeOK, Calls
<1>c. req \in [Request -> RequestState]
  BY DEF HttpInv, TypeOK
<1>1. CASE ProcessStep
  <2>Boot. ASSUME NEW to \in {"down", "refusing", "binding"}, Boot(to)
        PROVE  CallShape(req'[m])
    BY <2>Boot, <1>b, <1>c DEF Boot, conn
  <2>Listens. CASE Listens
    BY <2>Listens, <1>b, <1>c DEF Listens, conn
  <2>ListenFails. CASE ListenFails
    BY <2>ListenFails, <1>b, <1>c DEF ListenFails, conn
  <2>Signal. CASE Signal
    BY <2>Signal, <1>b, <1>c, ShapeMoves DEF Signal, Exit, conn
  <2>CloseAll. CASE CloseAll
    BY <2>CloseAll, <1>b, <1>c DEF CloseAll, Cleanup
  <2>Settles. CASE Settles
    BY <2>Settles, <1>b, <1>c, ShapeMoves DEF Settles
  <2>CloseArtifacts. ASSUME NEW released \in BOOLEAN, CloseArtifacts(released)
        PROVE  CallShape(req'[m])
    BY <2>CloseArtifacts, <1>b, <1>c, ShapeMoves DEF CloseArtifacts, Exit, conn
  <2>Killed. CASE Killed
    BY <2>Killed, <1>b, <1>c, ShapeMoves DEF Killed, Exit, conn
  <2> QED BY <1>1, <2>Boot, <2>Listens, <2>ListenFails, <2>Signal,
       <2>CloseAll, <2>Settles, <2>CloseArtifacts, <2>Killed DEF ProcessStep
<1>2. CASE GraphStep
  <2>ReapTick. CASE ReapTick
    BY <2>ReapTick, <1>b, <1>c DEF ReapTick, Cleanup
  <2>DriveCloses. ASSUME NEW g \in Graph, DriveCloses(g)
        PROVE  CallShape(req'[m])
    BY <2>DriveCloses, <1>b, <1>c DEF DriveCloses
  <2>LineageDiscarded. ASSUME NEW g \in Graph, LineageDiscarded(g)
        PROVE  CallShape(req'[m])
    BY <2>LineageDiscarded, <1>b, <1>c DEF LineageDiscarded
  <2>TimePasses. ASSUME NEW g \in Graph, TimePasses(g)
        PROVE  CallShape(req'[m])
    BY <2>TimePasses, <1>b, <1>c DEF TimePasses
  <2>ReapNext. ASSUME NEW g \in Graph, ReapNext(g)
        PROVE  CallShape(req'[m])
    BY <2>ReapNext, <1>b, <1>c DEF ReapNext, Cleanup
  <2>Touch. ASSUME NEW g \in Graph, NEW delete \in BOOLEAN, Touch(g, delete)
        PROVE  CallShape(req'[m])
    BY <2>Touch, <1>b, <1>c DEF Touch, Cleanup
  <2> QED BY <1>2, <2>ReapTick, <2>DriveCloses, <2>LineageDiscarded,
       <2>TimePasses, <2>ReapNext, <2>Touch DEF GraphStep
<1>3. ASSUME NEW r \in Request, RequestStep(r)
      PROVE  CallShape(req'[m])
  <2>Arrives. ASSUME NEW kind \in Kind, NEW c \in Consumer, NEW g \in Graph \cup {NoGraph}, NEW i \in RpcId \cup {NoId},
                Arrives(r, kind, c, g, i)
        PROVE  CallShape(req'[m])
    BY <2>Arrives, <1>b, <1>c DEF Arrives, CallShape, RequestState, Idle
  <2>BodyRefused. CASE BodyRefused(r)
    BY <2>BodyRefused, <1>b, <1>c, ShapeMoves DEF BodyRefused, Answered
  <2>CallRefused. CASE CallRefused(r)
    BY <2>CallRefused, <1>b, <1>c, ShapeMoves DEF CallRefused, Answered
  <2>Dispatch. CASE Dispatch(r)
    BY <2>Dispatch, <1>b, <1>c DEF Dispatch, Owned, CallShape, RequestState
  <2>ToolReturns. CASE ToolReturns(r)
    BY <2>ToolReturns, <1>b, <1>c, ShapeMoves DEF ToolReturns
  <2>CallEnds. CASE CallEnds(r)
    <3>1. req[r].at = "handling" /\ req[r].tracker \in {"none", "settled"}
      BY <2>CallEnds, <1>b, <1>c DEF CallEnds, CallShape, RequestState
    <3> QED BY <2>CallEnds, <3>1, <1>b, <1>c, ShapeMoves DEF CallEnds
  <2>Registered. CASE Registered(r)
    BY <2>Registered, <1>b, <1>c DEF Registered, CallShape, RequestState
  <2>InitializeFails. CASE InitializeFails(r)
    <3>1. CASE req[r].at = "opening"
      BY <2>InitializeFails, <3>1, <1>b, <1>c DEF InitializeFails, CallShape, RequestState
    <3>2. CASE req[r].at = "replying"
      BY <2>InitializeFails, <3>2, <1>b, <1>c, ShapeMoves DEF InitializeFails, Answered
    <3> QED BY <2>InitializeFails, <3>1, <3>2 DEF InitializeFails
  <2>OrphanDisposed. CASE OrphanDisposed(r)
    BY <2>OrphanDisposed, <1>b, <1>c, ShapeMoves DEF OrphanDisposed, Answered
  <2>InitializeReplies. CASE InitializeReplies(r)
    BY <2>InitializeReplies, <1>b, <1>c, ShapeMoves DEF InitializeReplies, Answered
  <2>OpenSession. ASSUME NEW g \in Graph, OpenSession(r, g)
        PROVE  CallShape(req'[m])
    BY <2>OpenSession, <1>b, <1>c DEF OpenSession, Unused, CallShape,
       RequestState
  <2> QED BY <1>3, <2>Arrives, <2>BodyRefused, <2>CallRefused, <2>Dispatch,
       <2>ToolReturns, <2>CallEnds, <2>Registered, <2>InitializeFails,
       <2>OrphanDisposed, <2>InitializeReplies, <2>OpenSession DEF RequestStep
<1>4. ASSUME NEW r \in Request, ArtifactStep(r)
      PROVE  CallShape(req'[m])
  <2>HandleThrows. CASE HandleThrows(r)
    BY <2>HandleThrows, <1>b, <1>c DEF HandleThrows, CallShape, RequestState
  <2>ReadFails. CASE ReadFails(r)
    BY <2>ReadFails, <1>b, <1>c, ShapeMoves DEF ReadFails
  <2>Registers. CASE Registers(r)
    BY <2>Registers, <1>b, <1>c DEF Registers, CallShape, RequestState
  <2>RefusalCompletes. CASE RefusalCompletes(r)
    BY <2>RefusalCompletes, <1>b, <1>c, ShapeMoves DEF RefusalCompletes
  <2>ResponseFinishes. CASE ResponseFinishes(r)
    <3>1. req[r].tracker \in {"idle", "active"}
      BY <2>ResponseFinishes, <1>b, <1>c DEF ResponseFinishes, CallShape, RequestState
    <3> QED BY <2>ResponseFinishes, <3>1, <1>b, <1>c, ShapeMoves DEF ResponseFinishes
  <2>ResponseLost. CASE ResponseLost(r)
    <3>1. req[r].tracker \in {"idle", "active"}
      BY <2>ResponseLost, <1>b, <1>c DEF ResponseLost, CallShape, RequestState
    <3> QED BY <2>ResponseLost, <3>1, <1>b, <1>c, ShapeMoves DEF ResponseLost
  <2>Deadline. CASE Deadline(r)
    BY <2>Deadline, <1>b, <1>c, ShapeMoves DEF Deadline
  <2>LeaseCompletes. CASE LeaseCompletes(r)
    BY <2>LeaseCompletes, <1>b, <1>c DEF LeaseCompletes, CallShape,
       RequestState
  <2>ArtifactCallEnds. CASE ArtifactCallEnds(r)
    <3>1. req[r].at = "handling" /\ req[r].tracker \in {"none", "settled"}
      BY <2>ArtifactCallEnds, <1>b, <1>c DEF ArtifactCallEnds, CallShape, RequestState
    <3> QED BY <2>ArtifactCallEnds, <3>1, <1>b, <1>c, ShapeMoves DEF ArtifactCallEnds
  <2>ToolAsks. ASSUME NEW refused \in BOOLEAN, ToolAsks(r, refused)
        PROVE  CallShape(req'[m])
    <3>1. CASE refused
      BY <2>ToolAsks, <3>1, <1>b, <1>c, ShapeMoves DEF ToolAsks
    <3>2. CASE ~refused
      BY <2>ToolAsks, <3>2, <1>b, <1>c DEF ToolAsks, CallShape, RequestState
    <3> QED BY <3>1, <3>2
  <2>PermitGranted. ASSUME NEW refused \in BOOLEAN, PermitGranted(r, refused)
        PROVE  CallShape(req'[m])
    <3>1. CASE refused
      BY <2>PermitGranted, <3>1, <1>b, <1>c, ShapeMoves DEF PermitGranted
    <3>2. CASE ~refused
      BY <2>PermitGranted, <3>2, <1>b, <1>c DEF PermitGranted, CallShape, RequestState
    <3> QED BY <3>1, <3>2
  <2> QED BY <1>4, <2>HandleThrows, <2>ReadFails, <2>Registers,
       <2>RefusalCompletes, <2>ResponseFinishes, <2>ResponseLost, <2>Deadline,
       <2>LeaseCompletes, <2>ArtifactCallEnds, <2>ToolAsks, <2>PermitGranted
       DEF ArtifactStep
<1>5. CASE UNCHANGED vars
  BY <1>5, <1>b, <1>c DEF vars, conn
<1> QED BY <1>1, <1>2, <1>3, <1>4, <1>5 DEF Next

\* The request has the response permit.
Holds(q) ==
    q.tool \in {"reading", "refusing"} \/ q.tracker \in {"active", "terminal"}

\* Only a handler that reads or refuses gives the permit up by returning.
LEMMA HoldMoves ==
    ASSUME NEW q \in RequestState, CallShape(q)
    PROVE  /\ ~Holds(Idle)
           /\ q.tracker \in {"idle", "active"} =>
                 \A sent \in BOOLEAN : Holds(Terminalize(q, sent)) <=> Holds(q)
           /\ q.at = "handling" /\ q.tracker \in {"none", "settled"} =>
                 (Holds(Leave(q)) <=> Holds(q))
           /\ q.tool \in {"running", "asking", "waiting", "reading", "refusing"} =>
                 ~Holds(ToolDone(q))
           /\ Holds(Drop(q)) <=> Holds(q)
           /\ q.tool \notin {"reading", "refusing", "done", "thrown"} => ~Holds(q)
<1> USE DEF RequestState, CallShape, Holds
<1>1. ~Holds(Idle)
  BY DEF Idle
<1>2. ASSUME q.tracker \in {"idle", "active"}, NEW sent \in BOOLEAN
      PROVE  Holds(Terminalize(q, sent)) <=> Holds(q)
  <2>1. CASE q.leased
    BY <1>2, <2>1 DEF Terminalize
  <2>2. CASE ~q.leased
    BY <1>2, <2>2 DEF Terminalize
  <2> QED BY <2>1, <2>2
<1>3. ASSUME q.at = "handling", q.tracker \in {"none", "settled"}
      PROVE  Holds(Leave(q)) <=> Holds(q)
  BY <1>1, <1>3 DEF Leave
<1>4. ASSUME q.tool \in {"running", "asking", "waiting", "reading", "refusing"}
      PROVE  ~Holds(ToolDone(q))
  BY <1>1, <1>4 DEF ToolDone
<1>5. Holds(Drop(q)) <=> Holds(q)
  BY <1>2 DEF Drop
<1>6. q.tool \notin {"reading", "refusing", "done", "thrown"} => ~Holds(q)
  OBVIOUS
<1> QED BY <1>1, <1>2, <1>3, <1>4, <1>5, <1>6

\* The permit has a holder exactly while a request holds it.
LEMMA PermitStep ==
    ASSUME HttpInv, [Next]_vars
    PROVE  PermitHasHolder'
<1> SUFFICES ASSUME NEW m \in Request
             PROVE  permit' = m <=> Holds(req'[m])
  BY DEF PermitHasHolder, Holds
<1>b. \A r \in Request : req[r] \in RequestState /\ CallShape(req[r])
  BY DEF HttpInv, TypeOK, Calls
<1>c. req \in [Request -> RequestState]
  BY DEF HttpInv, TypeOK
<1>d. \A r \in Request : permit = r <=> Holds(req[r])
  BY DEF HttpInv, PermitHasHolder, Holds
<1>1. CASE ProcessStep
  <2>Boot. ASSUME NEW to \in {"down", "refusing", "binding"}, Boot(to)
        PROVE  permit' = m <=> Holds(req'[m])
    BY <2>Boot, <1>b, <1>c, <1>d DEF Boot, conn
  <2>Listens. CASE Listens
    BY <2>Listens, <1>b, <1>c, <1>d DEF Listens, conn
  <2>ListenFails. CASE ListenFails
    BY <2>ListenFails, <1>b, <1>c, <1>d DEF ListenFails, conn
  <2>Signal. CASE Signal
    BY <2>Signal, <1>b, <1>c, <1>d, HoldMoves, HttpAssumption DEF Signal, Exit, conn
  <2>CloseAll. CASE CloseAll
    BY <2>CloseAll, <1>b, <1>c, <1>d DEF CloseAll, Cleanup
  <2>Settles. CASE Settles
    BY <2>Settles, <1>b, <1>c, <1>d, HoldMoves DEF Settles
  <2>CloseArtifacts. ASSUME NEW released \in BOOLEAN, CloseArtifacts(released)
        PROVE  permit' = m <=> Holds(req'[m])
    BY <2>CloseArtifacts, <1>b, <1>c, <1>d, HoldMoves, HttpAssumption DEF CloseArtifacts, Exit, conn
  <2>Killed. CASE Killed
    BY <2>Killed, <1>b, <1>c, <1>d, HoldMoves, HttpAssumption DEF Killed, Exit, conn
  <2> QED BY <1>1, <2>Boot, <2>Listens, <2>ListenFails, <2>Signal,
       <2>CloseAll, <2>Settles, <2>CloseArtifacts, <2>Killed DEF ProcessStep
<1>2. CASE GraphStep
  <2>ReapTick. CASE ReapTick
    BY <2>ReapTick, <1>b, <1>c, <1>d DEF ReapTick, Cleanup
  <2>DriveCloses. ASSUME NEW g \in Graph, DriveCloses(g)
        PROVE  permit' = m <=> Holds(req'[m])
    BY <2>DriveCloses, <1>b, <1>c, <1>d DEF DriveCloses
  <2>LineageDiscarded. ASSUME NEW g \in Graph, LineageDiscarded(g)
        PROVE  permit' = m <=> Holds(req'[m])
    BY <2>LineageDiscarded, <1>b, <1>c, <1>d DEF LineageDiscarded
  <2>TimePasses. ASSUME NEW g \in Graph, TimePasses(g)
        PROVE  permit' = m <=> Holds(req'[m])
    BY <2>TimePasses, <1>b, <1>c, <1>d DEF TimePasses
  <2>ReapNext. ASSUME NEW g \in Graph, ReapNext(g)
        PROVE  permit' = m <=> Holds(req'[m])
    BY <2>ReapNext, <1>b, <1>c, <1>d DEF ReapNext, Cleanup
  <2>Touch. ASSUME NEW g \in Graph, NEW delete \in BOOLEAN, Touch(g, delete)
        PROVE  permit' = m <=> Holds(req'[m])
    BY <2>Touch, <1>b, <1>c, <1>d DEF Touch, Cleanup
  <2> QED BY <1>2, <2>ReapTick, <2>DriveCloses, <2>LineageDiscarded,
       <2>TimePasses, <2>ReapNext, <2>Touch DEF GraphStep
<1>3. ASSUME NEW r \in Request, RequestStep(r)
      PROVE  permit' = m <=> Holds(req'[m])
  <2>Arrives. ASSUME NEW kind \in Kind, NEW c \in Consumer, NEW g \in Graph \cup {NoGraph}, NEW i \in RpcId \cup {NoId},
                Arrives(r, kind, c, g, i)
        PROVE  permit' = m <=> Holds(req'[m])
    <3>1. ~Holds(req[r]) /\ ~Holds(req'[r])
      BY <2>Arrives, <1>b, <1>c DEF Arrives, Holds, CallShape, RequestState, Idle
    <3> QED BY <2>Arrives, <1>c, <1>d, <3>1 DEF Arrives
  <2>BodyRefused. CASE BodyRefused(r)
    <3>1. ~Holds(req[r])
      BY <2>BodyRefused, <1>b, HoldMoves DEF BodyRefused, CallShape
    <3> QED BY <2>BodyRefused, <3>1, <1>b, <1>c, <1>d, HoldMoves DEF BodyRefused, Answered
  <2>CallRefused. CASE CallRefused(r)
    <3>1. ~Holds(req[r])
      BY <2>CallRefused, <1>b, HoldMoves DEF CallRefused, CallShape
    <3> QED BY <2>CallRefused, <3>1, <1>b, <1>c, <1>d, HoldMoves DEF CallRefused, Answered
  <2>Dispatch. CASE Dispatch(r)
    <3>1. ~Holds(req[r]) /\ ~Holds(req'[r])
      BY <2>Dispatch, <1>b, <1>c DEF Dispatch, Holds, CallShape, RequestState
    <3> QED BY <2>Dispatch, <1>c, <1>d, <3>1 DEF Dispatch
  <2>ToolReturns. CASE ToolReturns(r)
    BY <2>ToolReturns, <1>b, <1>c, <1>d, HoldMoves DEF ToolReturns
  <2>CallEnds. CASE CallEnds(r)
    <3>1. req[r].at = "handling" /\ req[r].tracker \in {"none", "settled"}
      BY <2>CallEnds, <1>b, <1>c DEF CallEnds, CallShape, RequestState
    <3> QED BY <2>CallEnds, <3>1, <1>b, <1>c, <1>d, HoldMoves DEF CallEnds, Finally
  <2>Registered. CASE Registered(r)
    <3>1. ~Holds(req[r]) /\ ~Holds(req'[r])
      BY <2>Registered, <1>b, <1>c DEF Registered, Holds, CallShape, RequestState
    <3> QED BY <2>Registered, <1>c, <1>d, <3>1 DEF Registered
  <2>InitializeFails. CASE InitializeFails(r)
    <3>1. ~Holds(req[r])
      BY <2>InitializeFails, <1>b, HoldMoves DEF InitializeFails, CallShape
    <3>2. ~Holds(req'[r])
      <4>1. CASE req[r].at = "opening"
        BY <2>InitializeFails, <3>1, <4>1, <1>b, <1>c DEF InitializeFails, Holds, RequestState
      <4>2. CASE req[r].at = "replying"
        BY <2>InitializeFails, <4>2, <1>b, <1>c, HoldMoves DEF InitializeFails, Answered
      <4> QED BY <2>InitializeFails, <4>1, <4>2 DEF InitializeFails
    <3> QED BY <2>InitializeFails, <1>c, <1>d, <3>1, <3>2 DEF InitializeFails, Answered
  <2>OrphanDisposed. CASE OrphanDisposed(r)
    <3>1. ~Holds(req[r])
      BY <2>OrphanDisposed, <1>b, HoldMoves DEF OrphanDisposed, CallShape
    <3> QED BY <2>OrphanDisposed, <3>1, <1>b, <1>c, <1>d, HoldMoves DEF OrphanDisposed, Answered
  <2>InitializeReplies. CASE InitializeReplies(r)
    <3>1. ~Holds(req[r])
      BY <2>InitializeReplies, <1>b, HoldMoves DEF InitializeReplies, CallShape
    <3> QED BY <2>InitializeReplies, <3>1, <1>b, <1>c, <1>d, HoldMoves DEF InitializeReplies, Answered
  <2>OpenSession. ASSUME NEW g \in Graph, OpenSession(r, g)
        PROVE  permit' = m <=> Holds(req'[m])
    <3>1. ~Holds(req[r]) /\ ~Holds(req'[r])
      BY <2>OpenSession, <1>b, <1>c DEF OpenSession, Holds, CallShape, RequestState
    <3> QED BY <2>OpenSession, <1>c, <1>d, <3>1 DEF OpenSession
  <2> QED BY <1>3, <2>Arrives, <2>BodyRefused, <2>CallRefused, <2>Dispatch,
       <2>ToolReturns, <2>CallEnds, <2>Registered, <2>InitializeFails,
       <2>OrphanDisposed, <2>InitializeReplies, <2>OpenSession DEF RequestStep
<1>4. ASSUME NEW r \in Request, ArtifactStep(r)
      PROVE  permit' = m <=> Holds(req'[m])
  <2>HandleThrows. CASE HandleThrows(r)
    <3>1. ~Holds(req[r]) /\ ~Holds(req'[r])
      BY <2>HandleThrows, <1>b, <1>c DEF HandleThrows, Holds, CallShape, RequestState
    <3> QED BY <2>HandleThrows, <1>c, <1>d, <3>1 DEF HandleThrows
  <2>ReadFails. CASE ReadFails(r)
    <3>1. Holds(req[r]) /\ ~Holds(req'[r])
      BY <2>ReadFails, <1>b, <1>c, HoldMoves DEF ReadFails, Holds
    <3>2. permit = r /\ permit' = NoRequest
      BY <2>ReadFails, <1>d, <3>1 DEF ReadFails
    <3> QED BY <2>ReadFails, <1>c, <1>d, <3>1, <3>2, HttpAssumption DEF ReadFails
  <2>Registers. CASE Registers(r)
    <3>1. Holds(req[r]) /\ Holds(req'[r])
      BY <2>Registers, <1>b, <1>c DEF Registers, Holds, RequestState
    <3> QED BY <2>Registers, <1>c, <1>d, <3>1 DEF Registers
  <2>RefusalCompletes. CASE RefusalCompletes(r)
    <3>1. Holds(req[r]) /\ ~Holds(req'[r])
      BY <2>RefusalCompletes, <1>b, <1>c, HoldMoves DEF RefusalCompletes, Holds
    <3>2. permit = r /\ permit' = NoRequest
      BY <2>RefusalCompletes, <1>d, <3>1 DEF RefusalCompletes
    <3> QED BY <2>RefusalCompletes, <1>c, <1>d, <3>1, <3>2, HttpAssumption DEF RefusalCompletes
  <2>ResponseFinishes. CASE ResponseFinishes(r)
    <3>1. req[r].tracker \in {"idle", "active"}
      BY <2>ResponseFinishes, <1>b, <1>c DEF ResponseFinishes, CallShape, RequestState
    <3> QED BY <2>ResponseFinishes, <3>1, <1>b, <1>c, <1>d, HoldMoves DEF ResponseFinishes
  <2>ResponseLost. CASE ResponseLost(r)
    <3>1. req[r].tracker \in {"idle", "active"}
      BY <2>ResponseLost, <1>b, <1>c DEF ResponseLost, CallShape, RequestState
    <3> QED BY <2>ResponseLost, <3>1, <1>b, <1>c, <1>d, HoldMoves DEF ResponseLost
  <2>Deadline. CASE Deadline(r)
    BY <2>Deadline, <1>b, <1>c, <1>d, HoldMoves DEF Deadline
  <2>LeaseCompletes. CASE LeaseCompletes(r)
    <3>1. Holds(req[r]) /\ ~Holds(req'[r])
      BY <2>LeaseCompletes, <1>b, <1>c DEF LeaseCompletes, Holds, CallShape, RequestState
    <3>2. permit = r /\ permit' = NoRequest
      BY <2>LeaseCompletes, <1>d, <3>1 DEF LeaseCompletes
    <3> QED BY <2>LeaseCompletes, <1>c, <1>d, <3>1, <3>2, HttpAssumption DEF LeaseCompletes
  <2>ArtifactCallEnds. CASE ArtifactCallEnds(r)
    <3>1. req[r].at = "handling" /\ req[r].tracker \in {"none", "settled"}
      BY <2>ArtifactCallEnds, <1>b, <1>c DEF ArtifactCallEnds, CallShape, RequestState
    <3> QED BY <2>ArtifactCallEnds, <3>1, <1>b, <1>c, <1>d, HoldMoves DEF ArtifactCallEnds, Finally
  <2>ToolAsks. ASSUME NEW refused \in BOOLEAN, ToolAsks(r, refused)
        PROVE  permit' = m <=> Holds(req'[m])
    <3>1. ~Holds(req[r]) /\ ~Holds(req'[r])
      <4>1. CASE refused
        BY <2>ToolAsks, <4>1, <1>b, <1>c, HoldMoves DEF ToolAsks
      <4>2. CASE ~refused
        BY <2>ToolAsks, <4>2, <1>b, <1>c DEF ToolAsks, Holds, CallShape, RequestState
      <4> QED BY <4>1, <4>2
    <3> QED BY <2>ToolAsks, <1>c, <1>d, <3>1 DEF ToolAsks
  <2>PermitGranted. ASSUME NEW refused \in BOOLEAN, PermitGranted(r, refused)
        PROVE  permit' = m <=> Holds(req'[m])
    <3>1. ~Holds(req[r]) /\ permit = NoRequest
      BY <2>PermitGranted, <1>b, HoldMoves DEF PermitGranted
    <3>2. CASE refused
      <4>1. ~Holds(req'[r])
        BY <2>PermitGranted, <3>2, <1>b, <1>c, HoldMoves DEF PermitGranted
      <4> QED BY <2>PermitGranted, <3>1, <3>2, <4>1, <1>c, <1>d, HttpAssumption DEF PermitGranted
    <3>3. CASE ~refused
      <4>1. Holds(req'[r])
        BY <2>PermitGranted, <3>3, <1>b, <1>c DEF PermitGranted, Holds, RequestState
      <4> QED BY <2>PermitGranted, <3>1, <3>3, <4>1, <1>c, <1>d, HttpAssumption DEF PermitGranted
    <3> QED BY <3>2, <3>3
  <2> QED BY <1>4, <2>HandleThrows, <2>ReadFails, <2>Registers,
       <2>RefusalCompletes, <2>ResponseFinishes, <2>ResponseLost, <2>Deadline,
       <2>LeaseCompletes, <2>ArtifactCallEnds, <2>ToolAsks, <2>PermitGranted
       DEF ArtifactStep
<1>5. CASE UNCHANGED vars
  BY <1>5, <1>b, <1>c, <1>d DEF vars, conn
<1> QED BY <1>1, <1>2, <1>3, <1>4, <1>5 DEF Next

-----------------------------------------------------------------------------
(* Graphs, and the requests that refer to them. *)

Linked == References /\ Apart /\ NoGraphLeaked

\* The request m is where it was, or has left a place that builds nothing.
Stays(p, q) ==
    \/ p.at = q.at /\ p.kind = q.kind /\ p.graph = q.graph /\ p.id = q.id
    \/ q.at \notin Building /\ p.at = "none"

LEMMA PlaceMoves ==
    ASSUME NEW q \in RequestState
    PROVE  /\ Stays(q, q)
           /\ q.at \notin Building => Stays(Idle, q)
           /\ \A sent \in BOOLEAN : Stays(Terminalize(q, sent), q)
           /\ q.at = "handling" => Stays(Leave(q), q)
           /\ Stays(ToolDone(q), q)
           /\ Stays(Drop(q), q)
           /\ \A t \in {"thrown", "waiting", "reading", "refusing"} :
                 Stays([q EXCEPT !.tool = t], q)
           /\ Stays([q EXCEPT !.tracker = "active", !.leased = TRUE, !.tool = "done"], q)
           /\ Stays([q EXCEPT !.tracker = "settled"], q)
<1> USE DEF RequestState, Stays, Building
<1>1. Stays(q, q) /\ (q.at \notin Building => Stays(Idle, q))
  BY DEF Idle
<1>2. ASSUME NEW sent \in BOOLEAN
      PROVE  Stays(Terminalize(q, sent), q)
  BY DEF Terminalize
<1>3. q.at = "handling" => Stays(Leave(q), q)
  BY <1>1 DEF Leave
<1>4. Stays(ToolDone(q), q)
  BY <1>1 DEF ToolDone
<1>5. Stays(Drop(q), q)
  BY <1>1, <1>2 DEF Drop
<1>6. ASSUME NEW t \in {"thrown", "waiting", "reading", "refusing"}
      PROVE  Stays([q EXCEPT !.tool = t], q)
  OBVIOUS
<1>7. /\ Stays([q EXCEPT !.tracker = "active", !.leased = TRUE, !.tool = "done"], q)
      /\ Stays([q EXCEPT !.tracker = "settled"], q)
  OBVIOUS
<1> HIDE DEF Stays
<1> QED BY <1>1, <1>2, <1>3, <1>4, <1>5, <1>6, <1>7

\* A graph that is not being built stays one, with the ids it has.
Settled(e, f) ==
    /\ e.ids = f.ids
    /\ e.at = f.at \/ {e.at, f.at} \subseteq {"live", "cleaning", "none"}

\* Where requests and graphs stay, nothing comes apart.
LEMMA SteadyStep ==
    ASSUME HttpInv,
           \A m \in Request : Stays(req'[m], req[m]),
           \A g \in Graph : Settled(graph'[g], graph[g])
    PROVE  Linked'
<1> USE DEF HttpInv, TypeOK, RequestState, GraphState, Stays, Settled, Building
<1>1. ASSUME NEW m \in Request
      PROVE  Refers(m)'
  BY DEF References, Refers
<1>2. ASSUME NEW m \in Request, NEW n \in Request, m # n, req'[m].graph = req'[n].graph
      PROVE  /\ ~(req'[m].at \in Building /\ req'[n].at \in Building)
             /\ req'[m].at = "handling" /\ req'[n].at = "handling" => req'[m].id # req'[n].id
  BY <1>2 DEF Apart
<1>3. ASSUME NEW g \in Graph, graph'[g].at \in {"opening", "orphan"}
      PROVE  \E m \in Request :
                /\ req'[m].graph = g
                /\ req'[m].at = IF graph'[g].at = "opening" THEN "opening"
                                ELSE "disposing"
  <2>1. graph[g].at = graph'[g].at
    BY <1>3
  <2>2. PICK m \in Request : /\ req[m].graph = g
                             /\ req[m].at = IF graph[g].at = "opening" THEN "opening"
                                            ELSE "disposing"
    BY <1>3, <2>1 DEF NoGraphLeaked
  <2>3. req'[m].graph = g /\ req'[m].at = req[m].at
    BY <2>2
  <2> QED BY <2>1, <2>2, <2>3
<1> QED BY <1>1, <1>2, <1>3 DEF Linked, References, Apart, NoGraphLeaked

\* A cleanup moves live graphs only.
LEMMA CleanupSettled ==
    ASSUME graph \in [Graph -> GraphState], NEW G, Cleanup(G)
    PROVE  \A g \in Graph : Settled(graph'[g], graph[g])
BY DEF Cleanup, Live, Settled, GraphState

\* When the process ends nobody refers to anything.
LEMMA ExitLinked == ASSUME NEW why, Exit(why) PROVE Linked' /\ Graphs'
<1> USE DEF Exit, Idle, Unbuilt
<1>1. References' /\ Apart'
  BY DEF References, Refers, Apart, Building
<1>2. NoGraphLeaked'
  BY DEF NoGraphLeaked
<1>3. Graphs'
  BY FS_EmptySet DEF Graphs, GraphShape
<1> QED BY <1>1, <1>2, <1>3 DEF Linked

\* A call that ends leaves its place and takes its id along.
LEMMA EndsLinked ==
    ASSUME HttpInv, NEW r \in Request, req[r].at = "handling", Finally(r),
           \A m \in Request : m # r => req'[m] = req[m],
           req'[r].at = "none"
    PROVE  Linked'
<1> DEFINE g == req[r].graph
<1>1. /\ g \in Graph /\ \A h \in Graph : h # g => graph'[h] = graph[h]
      /\ graph'[g].ids = graph[g].ids \ {req[r].id} /\ graph'[g].at = graph[g].at
  BY FinallyMoves, InFlightPositive
<1>l. References /\ Apart /\ NoGraphLeaked
  BY DEF HttpInv
<1>o. graph[g].at \notin {"opening", "orphan"}
  BY <1>l DEF References, Refers
<1> HIDE DEF g
<1>2. ASSUME NEW m \in Request
      PROVE  Refers(m)'
  <2>1. CASE m = r
    BY <2>1 DEF Refers
  <2>2. CASE m # r /\ req[m].at = "handling" /\ req[m].graph = g
    <3>1. req[m].id # req[r].id
      BY <1>l, <2>2 DEF Apart, g
    <3> QED BY <1>1, <1>l, <1>o, <2>2, <3>1 DEF References, Refers
  <2>3. CASE m # r /\ ~(req[m].at = "handling" /\ req[m].graph = g)
    BY <1>1, <1>l, <2>3 DEF References, Refers
  <2> QED BY <2>1, <2>2, <2>3
<1>3. Apart'
  BY <1>l DEF Apart, Building
<1>4. NoGraphLeaked'
  BY <1>1, <1>l, <1>o DEF NoGraphLeaked, g
<1> QED BY <1>2, <1>3, <1>4 DEF Linked, References

\* Every step keeps requests and graphs together.
LEMMA LinkedStep ==
    ASSUME HttpInv, [Next]_vars
    PROVE  Linked'
<1>a. graph \in [Graph -> GraphState] /\ req \in [Request -> RequestState]
  BY DEF HttpInv, TypeOK
<1>l. References /\ Apart /\ NoGraphLeaked
  BY DEF HttpInv
<1>s. \A m \in Request : Stays(req[m], req[m])
  BY DEF Stays
<1>g. \A g \in Graph : Settled(graph[g], graph[g])
  BY DEF Settled
<1>1. CASE ProcessStep
  <2>Boot. ASSUME NEW to \in {"down", "refusing", "binding"}, Boot(to)
        PROVE  Linked'
    BY <2>Boot, <1>s, <1>g, SteadyStep DEF Boot, conn
  <2>Listens. CASE Listens
    BY <2>Listens, <1>s, <1>g, SteadyStep DEF Listens, conn
  <2>ListenFails. CASE ListenFails
    BY <2>ListenFails, <1>s, <1>g, SteadyStep DEF ListenFails, conn
  <2>Signal. CASE Signal
    <3>1. CASE proc = "refusing"
      BY <2>Signal, <3>1, ExitLinked DEF Signal
    <3>2. CASE proc # "refusing"
      BY <2>Signal, <3>2, <1>s, <1>g, SteadyStep DEF Signal, conn
    <3> QED BY <3>1, <3>2
  <2>CloseAll. CASE CloseAll
    BY <2>CloseAll, <1>a, <1>s, CleanupSettled, SteadyStep DEF CloseAll
  <2>Settles. CASE Settles
    BY <2>Settles, <1>a, <1>g, PlaceMoves, SteadyStep DEF Settles
  <2>CloseArtifacts. ASSUME NEW released \in BOOLEAN, CloseArtifacts(released)
        PROVE  Linked'
    BY <2>CloseArtifacts, ExitLinked DEF CloseArtifacts
  <2>Killed. CASE Killed
    BY <2>Killed, ExitLinked DEF Killed
  <2> QED BY <1>1, <2>Boot, <2>Listens, <2>ListenFails, <2>Signal,
       <2>CloseAll, <2>Settles, <2>CloseArtifacts, <2>Killed DEF ProcessStep
<1>2. CASE GraphStep
  <2>ReapTick. CASE ReapTick
    BY <2>ReapTick, <1>a, <1>s, CleanupSettled, SteadyStep DEF ReapTick
  <2>DriveCloses. ASSUME NEW g \in Graph, DriveCloses(g)
        PROVE  Linked'
    <3>1. \A h \in Graph : Settled(graph'[h], graph[h])
      BY <2>DriveCloses, <1>a, <1>g DEF DriveCloses, Settled, GraphState
    <3> QED BY <2>DriveCloses, <1>s, <3>1, SteadyStep DEF DriveCloses
  <2>LineageDiscarded. ASSUME NEW g \in Graph, LineageDiscarded(g)
        PROVE  Linked'
    <3>1. \A h \in Graph : Settled(graph'[h], graph[h])
      BY <2>LineageDiscarded, <1>a, <1>g DEF LineageDiscarded, Settled, GraphState, Unbuilt
    <3> QED BY <2>LineageDiscarded, <1>s, <3>1, SteadyStep DEF LineageDiscarded
  <2>TimePasses. ASSUME NEW g \in Graph, TimePasses(g)
        PROVE  Linked'
    <3>1. \A h \in Graph : Settled(graph'[h], graph[h])
      BY <2>TimePasses, <1>a, <1>g DEF TimePasses, Settled, GraphState
    <3> QED BY <2>TimePasses, <1>s, <3>1, SteadyStep DEF TimePasses
  <2>ReapNext. ASSUME NEW g \in Graph, ReapNext(g)
        PROVE  Linked'
    BY <2>ReapNext, <1>a, <1>s, CleanupSettled, SteadyStep DEF ReapNext
  <2>Touch. ASSUME NEW g \in Graph, NEW delete \in BOOLEAN, Touch(g, delete)
        PROVE  Linked'
    <3>1. \A h \in Graph : Settled(graph'[h], graph[h])
      <4>1. CASE delete
        BY <2>Touch, <1>a, <4>1, CleanupSettled DEF Touch
      <4>2. CASE ~delete
        BY <2>Touch, <1>a, <1>g, <4>2 DEF Touch, Settled, GraphState
      <4> QED BY <4>1, <4>2
    <3> QED BY <2>Touch, <1>s, <3>1, SteadyStep DEF Touch
  <2> QED BY <1>2, <2>ReapTick, <2>DriveCloses, <2>LineageDiscarded,
       <2>TimePasses, <2>ReapNext, <2>Touch DEF GraphStep
<1>3. ASSUME NEW r \in Request, RequestStep(r)
      PROVE  Linked'
  <2>Arrives. ASSUME NEW kind \in Kind, NEW c \in Consumer, NEW g \in Graph \cup {NoGraph}, NEW i \in RpcId \cup {NoId},
                Arrives(r, kind, c, g, i)
        PROVE  Linked'
    <3> DEFINE q == [Idle EXCEPT !.at = "body", !.kind = kind, !.consumer = c,
                                 !.graph = g, !.id = i]
    <3>1. /\ q.at = "body" /\ q.kind = kind /\ q.graph = g /\ q.id = i
          /\ kind # "initialize" => g \in Graph /\ i \in RpcId
      BY <2>Arrives DEF Arrives, Idle
    <3>2. /\ \A m \in Request : m # r => req'[m] = req[m]
          /\ req'[r] = q /\ graph' = graph /\ req[r].at = "none"
      BY <2>Arrives, <1>a DEF Arrives, Idle
    <3> HIDE DEF q
    <3>3. References' /\ Apart'
      BY <1>l, <3>1, <3>2 DEF References, Refers, Apart, Building
    <3>4. NoGraphLeaked'
      BY <1>l, <3>1, <3>2 DEF NoGraphLeaked
    <3> QED BY <3>3, <3>4 DEF Linked
  <2>BodyRefused. CASE BodyRefused(r)
    <3>1. \A m \in Request : Stays(req'[m], req[m])
      BY <2>BodyRefused, <1>a, <1>s, PlaceMoves DEF BodyRefused, Answered, Building
    <3> QED BY <2>BodyRefused, <1>g, <3>1, SteadyStep DEF BodyRefused
  <2>CallRefused. CASE CallRefused(r)
    <3>1. \A m \in Request : Stays(req'[m], req[m])
      BY <2>CallRefused, <1>a, <1>s, PlaceMoves DEF CallRefused, Answered, Building
    <3> QED BY <2>CallRefused, <1>g, <3>1, SteadyStep DEF CallRefused
  <2>Dispatch. CASE Dispatch(r)
    <3> DEFINE g == req[r].graph
    <3>1. /\ \A m \in Request : m # r => req'[m] = req[m]
          /\ req'[r].at = "handling" /\ req'[r].graph = g /\ req'[r].id = req[r].id
          /\ req[r].at = "body" /\ req[r].id \notin graph[g].ids
      BY <2>Dispatch, <1>a DEF Dispatch, RequestState
    <3>2. /\ g \in Graph /\ \A h \in Graph : h # g => graph'[h] = graph[h]
          /\ graph'[g].ids = graph[g].ids \cup {req[r].id}
          /\ graph'[g].at = "live" /\ graph[g].at = "live"
      <4>1. g \in Graph
        BY <2>Dispatch, <1>l DEF Dispatch, References, Refers
      <4>2. graph[g].at = "live"
        BY <2>Dispatch DEF Dispatch, Owned
      <4> QED BY <2>Dispatch, <1>a, <4>1, <4>2 DEF Dispatch, GraphState
    <3> HIDE DEF g
    <3>3. References'
      BY <1>l, <3>1, <3>2 DEF References, Refers
    <3>4. Apart'
      BY <1>l, <3>1, <3>2 DEF Apart, References, Refers, Building
    <3>5. NoGraphLeaked'
      BY <1>l, <3>1, <3>2 DEF NoGraphLeaked
    <3> QED BY <3>3, <3>4, <3>5 DEF Linked
  <2>ToolReturns. CASE ToolReturns(r)
    <3>1. \A m \in Request : Stays(req'[m], req[m])
      BY <2>ToolReturns, <1>a, <1>s, PlaceMoves DEF ToolReturns
    <3> QED BY <2>ToolReturns, <1>g, <3>1, SteadyStep DEF ToolReturns
  <2>CallEnds. CASE CallEnds(r)
    <3>1. req[r].at = "handling" /\ Finally(r)
      BY <2>CallEnds DEF CallEnds
    <3>2. /\ \A m \in Request : m # r => req'[m] = req[m]
          /\ req'[r].at = "none"
      BY <2>CallEnds, <1>a DEF CallEnds, Leave, Idle, RequestState
    <3> QED BY <3>1, <3>2, EndsLinked
  <2>Registered. CASE Registered(r)
    <3> DEFINE g == req[r].graph
    <3>1. /\ \A m \in Request : m # r => req'[m] = req[m]
          /\ req'[r].at = "replying" /\ req'[r].graph = g
          /\ req[r].at = "opening"
      BY <2>Registered, <1>a DEF Registered, RequestState
    <3>2. /\ g \in Graph /\ graph[g].at = "opening"
      BY <1>l, <3>1 DEF References, Refers
    <3>3. /\ \A h \in Graph : h # g => graph'[h] = graph[h]
          /\ graph'[g].at = "live" /\ graph'[g].ids = graph[g].ids
      BY <2>Registered, <1>a, <3>2 DEF Registered, GraphState
    <3> HIDE DEF g
    <3>4. References'
      BY <1>l, <3>1, <3>2, <3>3 DEF References, Refers, Apart, Building, g
    <3>5. Apart'
      BY <1>l, <3>1 DEF Apart, Building, g
    <3>6. NoGraphLeaked'
      BY <1>l, <3>1, <3>3 DEF NoGraphLeaked, g
    <3> QED BY <3>4, <3>5, <3>6 DEF Linked
  <2>InitializeFails. CASE InitializeFails(r)
    <3>a. CASE req[r].at = "opening"
      <4> DEFINE g == req[r].graph
      <4>1. /\ \A m \in Request : m # r => req'[m] = req[m]
            /\ req'[r].at = "disposing" /\ req'[r].graph = g
        BY <2>InitializeFails, <1>a, <3>a DEF InitializeFails, RequestState
      <4>2. /\ g \in Graph /\ graph[g].at = "opening"
        BY <1>l, <3>a DEF References, Refers
      <4>3. /\ \A h \in Graph : h # g => graph'[h] = graph[h]
            /\ graph'[g].at = "orphan" /\ graph'[g].ids = graph[g].ids
        <5>1. graph' = [graph EXCEPT ![g] =
                           [graph[g] EXCEPT !.at = "orphan", !.disposal = "closing"]]
          BY <2>InitializeFails, <3>a DEF InitializeFails
        <5> QED BY <1>a, <4>2, <5>1 DEF GraphState
      <4> HIDE DEF g
      <4>4. References'
        BY <1>l, <3>a, <4>1, <4>2, <4>3 DEF References, Refers, Apart, Building, g
      <4>5. Apart'
        BY <1>l, <3>a, <4>1 DEF Apart, Building, g
      <4>6. NoGraphLeaked'
        BY <1>l, <3>a, <4>1, <4>3 DEF NoGraphLeaked, g
      <4> QED BY <4>4, <4>5, <4>6 DEF Linked
    <3>b. CASE req[r].at = "replying"
      <4>1. Cleanup({req[r].graph}) /\ Answered(r)
        BY <2>InitializeFails, <3>b DEF InitializeFails
      <4>2. \A m \in Request : Stays(req'[m], req[m])
        BY <1>a, <1>s, <3>b, <4>1, PlaceMoves DEF Answered, Building
      <4> QED BY <1>a, <4>1, <4>2, CleanupSettled, SteadyStep
    <3> QED BY <2>InitializeFails, <3>a, <3>b DEF InitializeFails
  <2>OrphanDisposed. CASE OrphanDisposed(r)
    <3> DEFINE g == req[r].graph
    <3>1. /\ \A m \in Request : m # r => req'[m] = req[m]
          /\ req'[r].at = "none" /\ req[r].at = "disposing"
      BY <2>OrphanDisposed, <1>a DEF OrphanDisposed, Answered, Idle
    <3>2. /\ g \in Graph /\ graph[g].at = "orphan"
      BY <1>l, <3>1 DEF References, Refers
    <3>3. /\ \A h \in Graph : h # g => graph'[h] = graph[h]
          /\ graph'[g].at = "none"
      BY <2>OrphanDisposed, <1>a, <3>2 DEF OrphanDisposed, Unbuilt
    <3> HIDE DEF g
    <3>4. References'
      BY <1>l, <3>1, <3>2, <3>3 DEF References, Refers, Apart, Building, g
    <3>5. Apart'
      BY <1>l, <3>1 DEF Apart, Building, g
    <3>6. NoGraphLeaked'
      BY <1>l, <3>1, <3>3 DEF NoGraphLeaked, g
    <3> QED BY <3>4, <3>5, <3>6 DEF Linked
  <2>InitializeReplies. CASE InitializeReplies(r)
    <3>1. \A m \in Request : Stays(req'[m], req[m])
      BY <2>InitializeReplies, <1>a, <1>s, PlaceMoves DEF InitializeReplies, Answered, Building
    <3> QED BY <2>InitializeReplies, <1>g, <3>1, SteadyStep DEF InitializeReplies
  <2>OpenSession. ASSUME NEW g \in Graph, OpenSession(r, g)
        PROVE  Linked'
    <3>1. /\ \A m \in Request : m # r => req'[m] = req[m]
          /\ req'[r].at = "opening" /\ req'[r].graph = g
          /\ req[r].at = "body"
      BY <2>OpenSession, <1>a DEF OpenSession, RequestState
    <3>2. /\ \A h \in Graph : h # g => graph'[h] = graph[h]
          /\ graph'[g].at = "opening"
          /\ \A m \in Request : req[m].graph # g
      BY <2>OpenSession, <1>a DEF OpenSession, Unbuilt, Unused
    <3>3. References'
      BY <1>l, <3>1, <3>2 DEF References, Refers
    <3>4. Apart'
      BY <1>l, <3>1, <3>2 DEF Apart, Building
    <3>5. NoGraphLeaked'
      BY <1>l, <3>1, <3>2 DEF NoGraphLeaked
    <3> QED BY <3>3, <3>4, <3>5 DEF Linked
  <2> QED BY <1>3, <2>Arrives, <2>BodyRefused, <2>CallRefused, <2>Dispatch,
       <2>ToolReturns, <2>CallEnds, <2>Registered, <2>InitializeFails,
       <2>OrphanDisposed, <2>InitializeReplies, <2>OpenSession DEF RequestStep
<1>4. ASSUME NEW r \in Request, ArtifactStep(r)
      PROVE  Linked'
  <2>HandleThrows. CASE HandleThrows(r)
    <3>1. \A m \in Request : Stays(req'[m], req[m])
      BY <2>HandleThrows, <1>a, <1>s, PlaceMoves DEF HandleThrows
    <3> QED BY <2>HandleThrows, <1>g, <3>1, SteadyStep DEF HandleThrows
  <2>ReadFails. CASE ReadFails(r)
    <3>1. \A m \in Request : Stays(req'[m], req[m])
      BY <2>ReadFails, <1>a, <1>s, PlaceMoves DEF ReadFails
    <3> QED BY <2>ReadFails, <1>g, <3>1, SteadyStep DEF ReadFails
  <2>Registers. CASE Registers(r)
    <3>1. \A m \in Request : Stays(req'[m], req[m])
      BY <2>Registers, <1>a, <1>s, PlaceMoves DEF Registers
    <3> QED BY <2>Registers, <1>g, <3>1, SteadyStep DEF Registers
  <2>RefusalCompletes. CASE RefusalCompletes(r)
    <3>1. \A m \in Request : Stays(req'[m], req[m])
      BY <2>RefusalCompletes, <1>a, <1>s, PlaceMoves DEF RefusalCompletes
    <3> QED BY <2>RefusalCompletes, <1>g, <3>1, SteadyStep DEF RefusalCompletes
  <2>ResponseFinishes. CASE ResponseFinishes(r)
    <3>1. \A m \in Request : Stays(req'[m], req[m])
      BY <2>ResponseFinishes, <1>a, <1>s, PlaceMoves DEF ResponseFinishes
    <3> QED BY <2>ResponseFinishes, <1>g, <3>1, SteadyStep DEF ResponseFinishes
  <2>ResponseLost. CASE ResponseLost(r)
    <3>1. \A m \in Request : Stays(req'[m], req[m])
      BY <2>ResponseLost, <1>a, <1>s, PlaceMoves DEF ResponseLost
    <3> QED BY <2>ResponseLost, <1>g, <3>1, SteadyStep DEF ResponseLost
  <2>Deadline. CASE Deadline(r)
    <3>1. \A m \in Request : Stays(req'[m], req[m])
      BY <2>Deadline, <1>a, <1>s, PlaceMoves DEF Deadline
    <3> QED BY <2>Deadline, <1>g, <3>1, SteadyStep DEF Deadline
  <2>LeaseCompletes. CASE LeaseCompletes(r)
    <3>1. \A m \in Request : Stays(req'[m], req[m])
      BY <2>LeaseCompletes, <1>a, <1>s, PlaceMoves DEF LeaseCompletes
    <3> QED BY <2>LeaseCompletes, <1>g, <3>1, SteadyStep DEF LeaseCompletes
  <2>ArtifactCallEnds. CASE ArtifactCallEnds(r)
    <3>1. req[r].at = "handling" /\ Finally(r)
      BY <2>ArtifactCallEnds DEF ArtifactCallEnds
    <3>2. /\ \A m \in Request : m # r => req'[m] = req[m]
          /\ req'[r].at = "none"
      BY <2>ArtifactCallEnds, <1>a DEF ArtifactCallEnds, Leave, Idle, RequestState
    <3> QED BY <3>1, <3>2, EndsLinked
  <2>ToolAsks. ASSUME NEW refused \in BOOLEAN, ToolAsks(r, refused)
        PROVE  Linked'
    <3>1. \A m \in Request : Stays(req'[m], req[m])
      BY <2>ToolAsks, <1>a, <1>s, PlaceMoves DEF ToolAsks
    <3> QED BY <2>ToolAsks, <1>g, <3>1, SteadyStep DEF ToolAsks
  <2>PermitGranted. ASSUME NEW refused \in BOOLEAN, PermitGranted(r, refused)
        PROVE  Linked'
    <3>1. \A m \in Request : Stays(req'[m], req[m])
      BY <2>PermitGranted, <1>a, <1>s, PlaceMoves DEF PermitGranted
    <3> QED BY <2>PermitGranted, <1>g, <3>1, SteadyStep DEF PermitGranted
  <2> QED BY <1>4, <2>HandleThrows, <2>ReadFails, <2>Registers,
       <2>RefusalCompletes, <2>ResponseFinishes, <2>ResponseLost, <2>Deadline,
       <2>LeaseCompletes, <2>ArtifactCallEnds, <2>ToolAsks, <2>PermitGranted
       DEF ArtifactStep
<1>5. CASE UNCHANGED vars
  BY <1>5, <1>s, <1>g, SteadyStep DEF vars, conn
<1> QED BY <1>1, <1>2, <1>3, <1>4, <1>5 DEF Next

\* A cleanup fences what it takes out of sessions.
LEMMA CleanupShape ==
    ASSUME graph \in [Graph -> GraphState], NEW G, Cleanup(G), NEW g \in Graph,
           GraphShape(g)
    PROVE  GraphShape(g)'
BY DEF Cleanup, Live, GraphShape, GraphState

\* Every step keeps the shape of every graph.
LEMMA GraphsStep ==
    ASSUME HttpInv, [Next]_vars
    PROVE  Graphs'
<1> SUFFICES ASSUME NEW k \in Graph
             PROVE  GraphShape(k)'
  BY DEF Graphs
<1>a. graph \in [Graph -> GraphState] /\ req \in [Request -> RequestState]
  BY DEF HttpInv, TypeOK
<1>b. \A g \in Graph : GraphShape(g)
  BY DEF HttpInv, Graphs
<1>r. References
  BY DEF HttpInv
<1>1. CASE ProcessStep
  <2>Boot. ASSUME NEW to \in {"down", "refusing", "binding"}, Boot(to)
        PROVE  GraphShape(k)'
    BY <2>Boot, <1>b DEF GraphShape, Boot, conn
  <2>Listens. CASE Listens
    BY <2>Listens, <1>b DEF GraphShape, Listens, conn
  <2>ListenFails. CASE ListenFails
    BY <2>ListenFails, <1>b DEF GraphShape, ListenFails, conn
  <2>Signal. CASE Signal
    <3>1. CASE proc = "refusing"
      BY <2>Signal, <3>1, ExitLinked DEF Signal, Graphs
    <3>2. CASE proc # "refusing"
      BY <2>Signal, <3>2, <1>b DEF Signal, conn, GraphShape
    <3> QED BY <3>1, <3>2
  <2>CloseAll. CASE CloseAll
    BY <2>CloseAll, <1>a, <1>b, CleanupShape DEF GraphShape, CloseAll
  <2>Settles. CASE Settles
    BY <2>Settles, <1>b DEF GraphShape, Settles
  <2>CloseArtifacts. ASSUME NEW released \in BOOLEAN, CloseArtifacts(released)
        PROVE  GraphShape(k)'
    BY <2>CloseArtifacts, ExitLinked DEF GraphShape, CloseArtifacts, Graphs
  <2>Killed. CASE Killed
    BY <2>Killed, ExitLinked DEF GraphShape, Killed, Graphs
  <2> QED BY <1>1, <2>Boot, <2>Listens, <2>ListenFails, <2>Signal,
       <2>CloseAll, <2>Settles, <2>CloseArtifacts, <2>Killed DEF ProcessStep
<1>2. CASE GraphStep
  <2>ReapTick. CASE ReapTick
    BY <2>ReapTick, <1>a, <1>b, CleanupShape DEF GraphShape, ReapTick
  <2>DriveCloses. ASSUME NEW g \in Graph, DriveCloses(g)
        PROVE  GraphShape(k)'
    BY <2>DriveCloses, <1>a, <1>b DEF DriveCloses, GraphShape, GraphState
  <2>LineageDiscarded. ASSUME NEW g \in Graph, LineageDiscarded(g)
        PROVE  GraphShape(k)'
    BY <2>LineageDiscarded, <1>a, <1>b DEF LineageDiscarded, GraphShape, GraphState, Unbuilt
  <2>TimePasses. ASSUME NEW g \in Graph, TimePasses(g)
        PROVE  GraphShape(k)'
    BY <2>TimePasses, <1>a, <1>b DEF TimePasses, GraphShape, GraphState
  <2>ReapNext. ASSUME NEW g \in Graph, ReapNext(g)
        PROVE  GraphShape(k)'
    BY <2>ReapNext, <1>a, <1>b, CleanupShape DEF GraphShape, ReapNext
  <2>Touch. ASSUME NEW g \in Graph, NEW delete \in BOOLEAN, Touch(g, delete)
        PROVE  GraphShape(k)'
    <3>1. CASE delete
      BY <2>Touch, <1>a, <1>b, <3>1, CleanupShape DEF Touch
    <3>2. CASE ~delete
      BY <2>Touch, <1>a, <1>b, <3>2 DEF Touch, GraphShape, GraphState
    <3> QED BY <3>1, <3>2
  <2> QED BY <1>2, <2>ReapTick, <2>DriveCloses, <2>LineageDiscarded,
       <2>TimePasses, <2>ReapNext, <2>Touch DEF GraphStep
<1>3. ASSUME NEW r \in Request, RequestStep(r)
      PROVE  GraphShape(k)'
  <2>Arrives. ASSUME NEW kind \in Kind, NEW c \in Consumer, NEW g \in Graph \cup {NoGraph}, NEW i \in RpcId \cup {NoId},
                Arrives(r, kind, c, g, i)
        PROVE  GraphShape(k)'
    BY <2>Arrives, <1>b DEF GraphShape, Arrives
  <2>BodyRefused. CASE BodyRefused(r)
    BY <2>BodyRefused, <1>b DEF GraphShape, BodyRefused
  <2>CallRefused. CASE CallRefused(r)
    BY <2>CallRefused, <1>b DEF GraphShape, CallRefused
  <2>Dispatch. CASE Dispatch(r)
    <3> DEFINE h == req[r].graph
    <3>1. /\ h \in Graph
          /\ graph[h].at = "live" /\ req[r].id \notin graph[h].ids
      BY <2>Dispatch, <1>r DEF Dispatch, Owned, References, Refers
    <3>2. /\ k # h => graph'[k] = graph[k]
          /\ graph'[h].ids = graph[h].ids \cup {req[r].id}
          /\ graph'[h].inFlight = graph[h].inFlight + 1
          /\ graph'[h].disposal = graph[h].disposal
      BY <2>Dispatch, <1>a, <3>1 DEF Dispatch, GraphState
    <3>3. /\ IsFiniteSet(graph[h].ids) /\ graph[h].inFlight = Cardinality(graph[h].ids)
          /\ graph[h].disposal = "no"
      BY <1>b, <3>1 DEF GraphShape
    <3>4. /\ IsFiniteSet(graph[h].ids \cup {req[r].id})
          /\ Cardinality(graph[h].ids \cup {req[r].id}) = Cardinality(graph[h].ids) + 1
      BY <3>1, <3>3, FS_AddElement
    <3> HIDE DEF h
    <3> QED BY <1>b, <3>2, <3>3, <3>4 DEF GraphShape
  <2>ToolReturns. CASE ToolReturns(r)
    BY <2>ToolReturns, <1>b DEF GraphShape, ToolReturns
  <2>CallEnds. CASE CallEnds(r)
    <3>1. req[r].at = "handling" /\ Finally(r)
      BY <2>CallEnds DEF CallEnds
    <3> DEFINE h == req[r].graph
    <3>2. /\ k # h => graph'[k] = graph[k]
          /\ graph'[h].ids = graph[h].ids \ {req[r].id}
          /\ graph'[h].inFlight = graph[h].inFlight - 1
          /\ graph'[h].at = graph[h].at /\ graph'[h].disposal = graph[h].disposal
      BY <3>1, FinallyMoves, InFlightPositive
    <3>3. /\ IsFiniteSet(graph[h].ids \ {req[r].id})
          /\ graph[h].inFlight - 1 = Cardinality(graph[h].ids \ {req[r].id})
      BY <3>1, InFlightPositive
    <3> HIDE DEF h
    <3>4. CASE k = h
      BY <1>b, <3>2, <3>3, <3>4 DEF GraphShape
    <3>5. CASE k # h
      BY <1>b, <3>2, <3>5 DEF GraphShape
    <3> QED BY <3>4, <3>5
  <2>Registered. CASE Registered(r)
    <3> DEFINE h == req[r].graph
    <3>1. h \in Graph /\ graph[h].at = "opening"
      BY <2>Registered, <1>r DEF Registered, References, Refers
    <3>2. /\ k # h => graph'[k] = graph[k]
          /\ graph'[h].ids = graph[h].ids /\ graph'[h].inFlight = graph[h].inFlight
          /\ graph'[h].disposal = graph[h].disposal
      BY <2>Registered, <1>a, <3>1 DEF Registered, GraphState
    <3> HIDE DEF h
    <3> QED BY <1>b, <3>1, <3>2 DEF GraphShape
  <2>InitializeFails. CASE InitializeFails(r)
    <3>a. CASE req[r].at = "opening"
      <4> DEFINE h == req[r].graph
      <4>1. h \in Graph
        BY <1>r, <3>a DEF References, Refers
      <4>2. graph' = [graph EXCEPT ![h] =
                         [graph[h] EXCEPT !.at = "orphan", !.disposal = "closing"]]
        BY <2>InitializeFails, <3>a DEF InitializeFails
      <4> HIDE DEF h
      <4> QED BY <1>a, <1>b, <4>1, <4>2 DEF GraphShape, GraphState
    <3>b. CASE req[r].at = "replying"
      BY <2>InitializeFails, <1>a, <1>b, <3>b, CleanupShape DEF InitializeFails
    <3> QED BY <2>InitializeFails, <3>a, <3>b DEF InitializeFails
  <2>OrphanDisposed. CASE OrphanDisposed(r)
    BY <2>OrphanDisposed, <1>a, <1>b, FS_EmptySet DEF OrphanDisposed, GraphShape, Unbuilt
  <2>InitializeReplies. CASE InitializeReplies(r)
    BY <2>InitializeReplies, <1>b DEF GraphShape, InitializeReplies
  <2>OpenSession. ASSUME NEW g \in Graph, OpenSession(r, g)
        PROVE  GraphShape(k)'
    BY <2>OpenSession, <1>a, <1>b, FS_EmptySet DEF OpenSession, GraphShape, Unbuilt
  <2> QED BY <1>3, <2>Arrives, <2>BodyRefused, <2>CallRefused, <2>Dispatch,
       <2>ToolReturns, <2>CallEnds, <2>Registered, <2>InitializeFails,
       <2>OrphanDisposed, <2>InitializeReplies, <2>OpenSession DEF RequestStep
<1>4. ASSUME NEW r \in Request, ArtifactStep(r)
      PROVE  GraphShape(k)'
  <2>HandleThrows. CASE HandleThrows(r)
    BY <2>HandleThrows, <1>b DEF GraphShape, HandleThrows
  <2>ReadFails. CASE ReadFails(r)
    BY <2>ReadFails, <1>b DEF GraphShape, ReadFails
  <2>Registers. CASE Registers(r)
    BY <2>Registers, <1>b DEF GraphShape, Registers
  <2>RefusalCompletes. CASE RefusalCompletes(r)
    BY <2>RefusalCompletes, <1>b DEF GraphShape, RefusalCompletes
  <2>ResponseFinishes. CASE ResponseFinishes(r)
    BY <2>ResponseFinishes, <1>b DEF GraphShape, ResponseFinishes
  <2>ResponseLost. CASE ResponseLost(r)
    BY <2>ResponseLost, <1>b DEF GraphShape, ResponseLost
  <2>Deadline. CASE Deadline(r)
    BY <2>Deadline, <1>b DEF GraphShape, Deadline
  <2>LeaseCompletes. CASE LeaseCompletes(r)
    BY <2>LeaseCompletes, <1>b DEF GraphShape, LeaseCompletes
  <2>ArtifactCallEnds. CASE ArtifactCallEnds(r)
    <3>1. req[r].at = "handling" /\ Finally(r)
      BY <2>ArtifactCallEnds DEF ArtifactCallEnds
    <3> DEFINE h == req[r].graph
    <3>2. /\ k # h => graph'[k] = graph[k]
          /\ graph'[h].ids = graph[h].ids \ {req[r].id}
          /\ graph'[h].inFlight = graph[h].inFlight - 1
          /\ graph'[h].at = graph[h].at /\ graph'[h].disposal = graph[h].disposal
      BY <3>1, FinallyMoves, InFlightPositive
    <3>3. /\ IsFiniteSet(graph[h].ids \ {req[r].id})
          /\ graph[h].inFlight - 1 = Cardinality(graph[h].ids \ {req[r].id})
      BY <3>1, InFlightPositive
    <3> HIDE DEF h
    <3>4. CASE k = h
      BY <1>b, <3>2, <3>3, <3>4 DEF GraphShape
    <3>5. CASE k # h
      BY <1>b, <3>2, <3>5 DEF GraphShape
    <3> QED BY <3>4, <3>5
  <2>ToolAsks. ASSUME NEW refused \in BOOLEAN, ToolAsks(r, refused)
        PROVE  GraphShape(k)'
    BY <2>ToolAsks, <1>b DEF GraphShape, ToolAsks
  <2>PermitGranted. ASSUME NEW refused \in BOOLEAN, PermitGranted(r, refused)
        PROVE  GraphShape(k)'
    BY <2>PermitGranted, <1>b DEF GraphShape, PermitGranted
  <2> QED BY <1>4, <2>HandleThrows, <2>ReadFails, <2>Registers,
       <2>RefusalCompletes, <2>ResponseFinishes, <2>ResponseLost, <2>Deadline,
       <2>LeaseCompletes, <2>ArtifactCallEnds, <2>ToolAsks, <2>PermitGranted
       DEF ArtifactStep
<1>5. CASE UNCHANGED vars
  BY <1>5, <1>b DEF vars, conn, GraphShape
<1> QED BY <1>1, <1>2, <1>3, <1>4, <1>5 DEF Next

-----------------------------------------------------------------------------
(* The theorems. *)

LEMMA HttpInvInit == Init => HttpInv
<1> SUFFICES ASSUME Init PROVE HttpInv
  OBVIOUS
<1> USE HttpAssumption, IdleTypes DEF Init, Fresh
<1>1. TypeOK
  <2>1. 0 \in 0..MaxBoots
    OBVIOUS
  <2> QED BY <2>1 DEF TypeOK, Phase, Up
<1>5. LockReleased
  BY DEF LockReleased, Up
<1>2. Calls /\ PermitHasHolder
  BY DEF Calls, CallShape, PermitHasHolder, Idle
<1>3. References /\ Apart
  BY DEF References, Refers, Apart, Building, Idle
<1>4. Graphs /\ NoGraphLeaked
  BY FS_EmptySet DEF Graphs, GraphShape, NoGraphLeaked, Unbuilt
<1> QED BY <1>1, <1>2, <1>3, <1>4, <1>5 DEF HttpInv

LEMMA HttpInvStep == HttpInv /\ [Next]_vars => HttpInv'
BY TypeStep, LockStep, CallsStep, PermitStep, LinkedStep, GraphsStep
   DEF HttpInv, Linked

\* The whole invariant, from the start and by every step.
THEOREM HttpInvHolds == Spec => []HttpInv
BY HttpInvInit, HttpInvStep, PTL DEF Spec

\* Every variable keeps its type; inFlight of a session (http-server.ts) never
\* goes below zero, whatever calls end after their session was cleaned up.
THEOREM HttpTypeCorrect == Spec => []TypeOK
<1>1. HttpInv => TypeOK
  BY DEF HttpInv
<1> QED BY <1>1, HttpInvHolds, PTL

\* openSession never loses a graph it built: one without a session id has a
\* request that will register or dispose it.
THEOREM GraphsOwned == Spec => []NoGraphLeaked
<1>1. HttpInv => NoGraphLeaked
  BY DEF HttpInv
<1> QED BY <1>1, HttpInvHolds, PTL

\* A session found in sessions has a lineage nobody fenced, whichever of the
\* reaper, DELETE, onclose and closeAll are under way.
THEOREM LiveSessionsUsable == Spec => []LiveNotFenced
<1>1. HttpInv => LiveNotFenced
  BY DEF HttpInv, Graphs, GraphShape, LiveNotFenced, Live
<1> QED BY <1>1, HttpInvHolds, PTL

\* terminalize fences a response before its lease gives the permit back.
THEOREM PermitFenced == Spec => []FencedBeforePermit
<1>1. HttpInv => FencedBeforePermit
  <2> SUFFICES ASSUME HttpInv, NEW r \in Request, req[r].leased, req[r].res = "open"
               PROVE  permit = r /\ req[r].tracker = "active"
    BY DEF FencedBeforePermit
  <2>1. req[r] \in RequestState /\ CallShape(req[r])
    BY DEF HttpInv, TypeOK, Calls
  <2>2. req[r].tracker = "active"
    BY <2>1 DEF CallShape, RequestState
  <2> QED BY <2>2 DEF HttpInv, PermitHasHolder
<1> QED BY <1>1, HttpInvHolds, PTL

\* The response permit is held by exactly the request that reads, refuses or
\* completes a lease: it is never stranded and never shared.
THEOREM PermitNeverStranded == Spec => []PermitHasHolder
<1>1. HttpInv => PermitHasHolder
  BY DEF HttpInv
<1> QED BY <1>1, HttpInvHolds, PTL

\* A process that ends by itself has released the artifact root's lock.
THEOREM LockGivenBack == Spec => []LockReleased
<1>1. HttpInv => LockReleased
  BY DEF HttpInv
<1> QED BY <1>1, HttpInvHolds, PTL
=============================================================================
