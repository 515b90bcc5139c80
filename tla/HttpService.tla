---------------------------- MODULE HttpService ----------------------------
(***************************************************************************)
(* The shared HTTP service: boot and shutdown of the process               *)
(* (src/mcp/http-main.ts, artifact-graph-lifecycle.ts), the MCP sessions   *)
(* with one consumer graph each (src/mcp/http-server.ts) and the tracker   *)
(* that ties an artifact's response lease to the real end of the HTTP      *)
(* response (http-response-lease.ts, http-request-context.ts and the       *)
(* browser_get_artifact tool of server.ts).                                *)
(*                                                                         *)
(* A step is one run of the event loop between two awaits.  A wait with a  *)
(* bound may end at any time; what a bound protects against (a tool that   *)
(* never returns, an artifact close that hangs) is a step nobody has to    *)
(* take.                                                                   *)
(***************************************************************************)
EXTENDS Naturals

CONSTANTS
    Request,   \* HTTP requests that may be underway at the same time
    Graph,     \* consumer graphs (an MCP session each) that may exist at once
    Consumer,  \* authenticated consumers
    RpcId,     \* JSON-RPC request ids
    MaxBoots,  \* bound: how often the process is started
    NoGraph, NoRequest, NoConsumer, NoId

ASSUME HttpAssumption ==
    /\ NoGraph \notin Graph /\ NoRequest \notin Request
    /\ NoConsumer \notin Consumer /\ NoId \notin RpcId
    /\ MaxBoots \in Nat

VARIABLES
    proc,     \* where the process stands, and whether shutdown has begun
    boots,    \* how often it was started
    lock,     \* the artifact root's lock directory is on disk
    excused,  \* why a lock may be on disk with no process: see LockReleased
    graph,    \* the consumer graphs: entries of sessions and cleanups
    reaping,  \* what running reapIdle calls have still to close
    req,      \* the requests underway
    permit    \* the store's one response permit

conn == <<graph, reaping, req, permit>>
vars == <<proc, boots, lock, excused, conn>>

Phase == {"down", "refusing", "binding", "failing", "serving", "draining",
          "settling", "artifacts"}
Up == Phase \ {"down"}

\* at: opening = built, without a session id; live = in sessions; cleaning = in
\* cleanups; orphan = disposed by openSession itself.
\* disposal: how far createConsumerGraphDisposer's promise is.
GraphState == [at : {"none", "opening", "live", "cleaning", "orphan"},
               owner : Consumer \cup {NoConsumer}, idle : BOOLEAN,
               ids : SUBSET RpcId, inFlight : Nat,
               disposal : {"no", "closing", "discarding", "done"}]
Unbuilt == [at |-> "none", owner |-> NoConsumer, idle |-> FALSE, ids |-> {},
            inFlight |-> 0, disposal |-> "no"]

\* tool: how far the tool handler of the request is, whoever still listens.
\* res: the Node response and tracker: its artifact lease tracker, for a call of
\* browser_get_artifact; leased: a lease was registered.
Kind == {"initialize", "call", "artifact"}
RequestState ==
    [at : {"none", "body", "opening", "replying", "disposing", "handling"},
     kind : Kind, consumer : Consumer \cup {NoConsumer},
     graph : Graph \cup {NoGraph}, id : RpcId \cup {NoId},
     tool : {"none", "running", "asking", "waiting", "reading", "refusing",
             "done", "thrown"},
     res : {"open", "finished", "destroyed"},
     tracker : {"none", "idle", "active", "terminal", "settled"},
     leased : BOOLEAN]
Idle == [at |-> "none", kind |-> "call", consumer |-> NoConsumer,
         graph |-> NoGraph, id |-> NoId, tool |-> "none",
         res |-> "open", tracker |-> "none", leased |-> FALSE]

Fresh ==
    /\ graph = [g \in Graph |-> Unbuilt]
    /\ reaping = {}
    /\ req = [r \in Request |-> Idle]
    /\ permit = NoRequest

Init ==
    /\ proc = "down" /\ boots = 0 /\ lock = FALSE /\ excused = "no"
    /\ Fresh

Live(g) == graph[g].at = "live"
Busy(g) == graph[g].inFlight > 0
\* A tool handler of g's server is still running: it has the controller's lock.
ToolRuns(g) == \E r \in Request : req[r].graph = g /\ req[r].tool = "running"
Unused(g) ==
    /\ graph[g].at = "none" /\ g \notin reaping
    /\ \A r \in Request : req[r].graph # g

-----------------------------------------------------------------------------
(* The process: main, armShutdown and runShutdownSequence. *)

\* main from its first line to an await: the configuration is refused before the
\* lock is tried, the lock is somebody's, a guard behind the lock fails, or the
\* socket is being bound.
Boot(to) ==
    /\ proc = "down" /\ boots < MaxBoots
    /\ boots' = boots + 1
    /\ \/ to = "down" /\ UNCHANGED <<lock, excused>>
       \/ /\ to \in {"refusing", "binding"} /\ ~lock
          /\ lock' = TRUE /\ excused' = "no"
    /\ proc' = to
    /\ UNCHANGED conn

\* The process is gone, and with it all it held in memory.
Exit(why) ==
    /\ proc' = "down"
    /\ excused' = IF lock' THEN why ELSE "no"
    /\ graph' = [g \in Graph |-> Unbuilt]
    /\ reaping' = {} /\ permit' = NoRequest
    /\ req' = [r \in Request |-> Idle]
    /\ UNCHANGED boots

Listens ==
    /\ proc = "binding" /\ proc' = "serving"
    /\ UNCHANGED <<boots, lock, excused, conn>>

\* Fault: nobody listens for the error and Node ends the process.
ListenFailsUnheard ==
    /\ proc = "binding"
    /\ UNCHANGED lock
    /\ Exit("no")

\* The server's error event: the lock is released before the process ends.
ListenFails ==
    /\ proc = "binding" /\ proc' = "failing"
    /\ UNCHANGED <<boots, lock, excused, conn>>

\* closeArtifactRuntimeBounded: the runtime's close has released the root, or it
\* reports a failure or its bound is over and the lock may stay.  What follows,
\* gateway.shutdown() and the exit, touches nothing of this module.
CloseArtifacts(released) ==
    /\ proc \in {"refusing", "failing", "artifacts"}
    /\ lock' = ~released
    /\ Exit("close-overran")

\* SIGINT or SIGTERM.  Before a target is attached the process exits at once;
\* later ones find shuttingDown set.  The server refuses new connections.
Signal ==
    \/ /\ proc = "refusing"
       /\ UNCHANGED lock
       /\ Exit("signal-in-boot")
    \/ /\ proc \in {"binding", "serving"} /\ proc' = "draining"
       /\ UNCHANGED <<boots, lock, excused, conn>>

\* SIGKILL, or a crash.
Killed ==
    /\ proc \in Up
    /\ UNCHANGED lock
    /\ Exit("killed")

-----------------------------------------------------------------------------
(* Sessions: cleanup, the disposer, the reaper and closeAll. *)

\* Fault: the entry stays until the browser is gone, and no cleanup is recorded.
CleanupUnshared(G) ==
    graph' = [g \in Graph |-> IF g \in G /\ Live(g)
                              THEN [graph[g] EXCEPT !.disposal = "closing"]
                              ELSE graph[g]]

\* transport.close() and the cleanup(sid) its onclose starts, for the graphs G:
\* whoever comes first takes the entry out of sessions and calls dispose, which
\* fences the lineage at once; whoever comes later shares that promise.
Cleanup(G) ==
    graph' = [g \in Graph |-> IF g \in G /\ Live(g)
                              THEN [graph[g] EXCEPT !.at = "cleaning",
                                                    !.disposal = "closing"]
                              ELSE graph[g]]

\* drive.close() is over: it waits for the controller's lock, behind a running
\* tool, and what it throws is swallowed.
DriveCloses(g) ==
    /\ graph[g].disposal = "closing" /\ ~ToolRuns(g)
    /\ graph' = [graph EXCEPT ![g].disposal = "discarding"]
    /\ UNCHANGED <<proc, boots, lock, excused, reaping, req, permit>>

\* discardController is over; a cleanup leaves cleanups.
LineageDiscarded(g) ==
    /\ graph[g].disposal = "discarding"
    /\ graph' = [graph EXCEPT ![g] =
                    IF @.at = "cleaning"
                    THEN [Unbuilt EXCEPT !.ids = graph[g].ids,
                                         !.inFlight = graph[g].inFlight]
                    ELSE [@ EXCEPT !.disposal = "done"]]
    /\ UNCHANGED <<proc, boots, lock, excused, reaping, req, permit>>

\* The idle time of g runs out without a stamp.
TimePasses(g) ==
    /\ Live(g) /\ graph' = [graph EXCEPT ![g].idle = TRUE]
    /\ UNCHANGED <<proc, boots, lock, excused, reaping, req, permit>>

Stale == {g \in Graph : Live(g) /\ ~Busy(g) /\ graph[g].idle}

\* reapIdle: the list is made once; its first session is closed in the same run.
ReapTick ==
    /\ proc \in {"serving", "draining"}
    /\ \E g \in Stale :
         /\ Cleanup({g})
         /\ reaping' = reaping \cup (Stale \ {g})
    /\ UNCHANGED <<proc, boots, lock, excused, req, permit>>

\* The next one of the list, after the bounded wait for the one before.
ReapNext(g) ==
    /\ g \in reaping
    /\ Cleanup({g})
    /\ reaping' = reaping \ {g}
    /\ UNCHANGED <<proc, boots, lock, excused, req, permit>>

\* handler.drain and the drain of closeAll are over, because nothing is in flight
\* or because the time is up: every session of the moment is closed at once.
CloseAll ==
    /\ proc = "draining" /\ proc' = "settling"
    /\ Cleanup(Graph)
    /\ UNCHANGED <<boots, lock, excused, reaping, req, permit>>

\* Fault: a response that was given up is left open for whoever still writes.
TerminalizeUnfenced(q, sent) ==
    [q EXCEPT !.tracker = IF q.leased THEN "terminal" ELSE "settled",
              !.res = IF sent THEN "finished" ELSE @]

\* terminalize, called once: the outcome is decided, a response that was not sent
\* is destroyed, and a lease is about to be completed.
Terminalize(q, sent) ==
    [q EXCEPT !.tracker = IF q.leased THEN "terminal" ELSE "settled",
              !.res = IF sent THEN "finished" ELSE "destroyed"]
Drop(q) ==
    IF q.tracker \in {"idle", "active"} THEN Terminalize(q, FALSE) ELSE q

\* The shared wait of closeAll is over, by the disposals or by its bound;
\* closeAllConnections drops the sockets that are left.
Settles ==
    /\ proc = "settling" /\ proc' = "artifacts"
    /\ req' = [r \in Request |-> Drop(req[r])]
    /\ UNCHANGED <<boots, lock, excused, graph, reaping, permit>>

-----------------------------------------------------------------------------
(* Requests: handle and openSession. *)

\* An authenticated POST on a connection of the server: its body is read first.
\* It names the session g, or asks for a new one.
Arrives(r, kind, c, g, i) ==
    /\ proc = "serving" /\ req[r] = Idle
    /\ (kind = "initialize") = (g = NoGraph)
    /\ (kind = "initialize") = (i = NoId)
    /\ req' = [req EXCEPT ![r] = [Idle EXCEPT !.at = "body", !.kind = kind,
                                  !.consumer = c, !.graph = g, !.id = i]]
    /\ UNCHANGED <<proc, boots, lock, excused, graph, reaping, permit>>

\* The request leaves: answered, or its client is gone.
Answered(r) == req' = [req EXCEPT ![r] = Idle]

\* readJsonBody rejects (413, 400, a client that left), or the body is a batch
\* with an artifact retrieval, or neither a session nor an initialize (400).
BodyRefused(r) ==
    /\ req[r].at = "body"
    /\ Answered(r)
    /\ UNCHANGED <<proc, boots, lock, excused, graph, reaping, permit>>

\* requireOwnedSession
Owned(r) ==
    LET e == graph[req[r].graph]
    IN  e.at = "live" /\ e.owner = req[r].consumer

\* 404, 403, or a JSON-RPC id that is in flight on the session already (400).
CallRefused(r) ==
    /\ req[r].at = "body" /\ req[r].kind # "initialize"
    /\ ~Owned(r) \/ req[r].id \in graph[req[r].graph].ids
    /\ Answered(r)
    /\ UNCHANGED <<proc, boots, lock, excused, graph, reaping, permit>>

\* A call whose id no other call of the session has is marked in flight and
\* dispatched; for an artifact's retrieval the tracker is armed first.
Dispatch(r) ==
    LET q == req[r]
        artifact == q.kind = "artifact"
        busier == [graph[q.graph] EXCEPT !.ids = @ \cup {q.id},
                                         !.inFlight = @ + 1, !.idle = FALSE]
    IN  /\ q.at = "body" /\ q.kind # "initialize" /\ Owned(r)
        /\ q.id \notin graph[q.graph].ids
        /\ graph' = [graph EXCEPT ![q.graph] = busier]
        /\ req' = [req EXCEPT ![r] =
                      [@ EXCEPT !.at = "handling",
                                !.tool = IF artifact THEN "asking" ELSE "running",
                                !.tracker = IF artifact THEN "idle" ELSE "none"]]
        /\ UNCHANGED <<proc, boots, lock, excused, reaping, permit>>

\* The finally block: ids and inFlight are taken back, the activity is stamped.
Finally(r) ==
    LET q == req[r]
        freer == [graph[q.graph] EXCEPT !.ids = @ \ {q.id},
                                        !.inFlight = @ - 1, !.idle = FALSE]
    IN  /\ graph' = [graph EXCEPT ![q.graph] = freer]
        /\ UNCHANGED <<proc, boots, lock, excused, reaping, permit>>

\* handle() returns, but a tool handler that is not done runs on by itself.
Leave(q) == IF q.tool \in {"done", "thrown"} THEN Idle
            ELSE [q EXCEPT !.at = "none", !.id = NoId]
\* The tool handler of r returns.
ToolDone(q) == IF q.at = "none" THEN Idle ELSE [q EXCEPT !.tool = "done"]

\* A tool that is not the artifact tool returns.
ToolReturns(r) ==
    /\ req[r].tool = "running"
    /\ req' = [req EXCEPT ![r] = ToolDone(@)]
    /\ UNCHANGED <<proc, boots, lock, excused, graph, reaping, permit>>

\* handleRequest is over: the reply is out, or the client or the transport went
\* away and nobody waits for the tool any more, which still runs to its end.
\* Or it throws: the 500 is the answer.
CallEnds(r) ==
    /\ req[r].at = "handling" /\ req[r].kind = "call"
    /\ req' = [req EXCEPT ![r] = Leave(@)]
    /\ Finally(r)

\* initialize: the graph is built and connected to a new transport.
OpenSession(r, g) ==
    /\ req[r].at = "body" /\ req[r].kind = "initialize" /\ Unused(g)
    /\ graph' = [graph EXCEPT ![g] = [Unbuilt EXCEPT !.at = "opening"]]
    /\ req' = [req EXCEPT ![r] = [@ EXCEPT !.at = "opening", !.graph = g]]
    /\ UNCHANGED <<proc, boots, lock, excused, reaping, permit>>

\* onsessioninitialized
Registered(r) ==
    /\ req[r].at = "opening"
    /\ graph' = [graph EXCEPT ![req[r].graph] =
                    [@ EXCEPT !.at = "live", !.owner = req[r].consumer]]
    /\ req' = [req EXCEPT ![r].at = "replying"]
    /\ UNCHANGED <<proc, boots, lock, excused, reaping, permit>>

\* Fault: a throw of connect or handleRequest closes the transport only.
InitializeFailsUndisposed(r) ==
    /\ req[r].at \in {"opening", "replying"}
    /\ Cleanup({req[r].graph})
    /\ Answered(r)
    /\ UNCHANGED <<proc, boots, lock, excused, reaping, permit>>

\* connect or handleRequest throws, or the initialize was rejected: without a
\* session id the graph is disposed here, with one by the transport's onclose.
InitializeFails(r) ==
    LET g == req[r].graph
    IN  /\ \/ /\ req[r].at = "opening"
              /\ graph' = [graph EXCEPT ![g] =
                              [@ EXCEPT !.at = "orphan", !.disposal = "closing"]]
              /\ req' = [req EXCEPT ![r].at = "disposing"]
           \/ /\ req[r].at = "replying"
              /\ Cleanup({g})
              /\ Answered(r)
        /\ UNCHANGED <<proc, boots, lock, excused, reaping, permit>>

OrphanDisposed(r) ==
    LET g == req[r].graph
    IN  /\ req[r].at = "disposing" /\ graph[g].disposal = "done"
        /\ graph' = [graph EXCEPT ![g] = Unbuilt]
        /\ Answered(r)
        /\ UNCHANGED <<proc, boots, lock, excused, reaping, permit>>

InitializeReplies(r) ==
    /\ req[r].at = "replying"
    /\ Answered(r)
    /\ UNCHANGED <<proc, boots, lock, excused, graph, reaping, permit>>

\* GET of the event stream, or DELETE, by the session's owner.
Touch(g, delete) ==
    /\ proc = "serving" /\ Live(g)
    /\ IF delete THEN Cleanup({g})
       ELSE graph[g].idle /\ graph' = [graph EXCEPT ![g].idle = FALSE]
    /\ UNCHANGED <<proc, boots, lock, excused, reaping, req, permit>>

-----------------------------------------------------------------------------
(* The artifact tool and the tracker of its response. *)

\* handleRequest throws before the tool is called: handle() has the tracker to
\* wait for, and writes its 500 only after that.
HandleThrows(r) ==
    /\ req[r].at = "handling" /\ req[r].tool = "asking"
    /\ req' = [req EXCEPT ![r].tool = "thrown"]
    /\ UNCHANGED <<proc, boots, lock, excused, graph, reaping, permit>>

\* consumeForServer up to the wait for the permit: refused for its id, its owner
\* or the consumer's budget, and always once the lineage is fenced.
ToolAsks(r, refused) ==
    /\ req[r].tool = "asking"
    /\ refused \/ graph[req[r].graph].disposal = "no"
    /\ req' = [req EXCEPT ![r] = IF refused THEN ToolDone(@)
                                 ELSE [@ EXCEPT !.tool = "waiting"]]
    /\ UNCHANGED <<proc, boots, lock, excused, graph, reaping, permit>>

\* The permit is r's turn; the artifact may have gone meanwhile.
PermitGranted(r, refused) ==
    /\ req[r].tool = "waiting" /\ permit = NoRequest
    /\ IF refused
       THEN req' = [req EXCEPT ![r] = ToolDone(@)] /\ UNCHANGED permit
       ELSE req' = [req EXCEPT ![r].tool = "reading"] /\ permit' = r
    /\ UNCHANGED <<proc, boots, lock, excused, graph, reaping>>

\* The artifact cannot be read: the permit goes back.
ReadFails(r) ==
    /\ req[r].tool = "reading"
    /\ req' = [req EXCEPT ![r] = ToolDone(@)] /\ permit' = NoRequest
    /\ UNCHANGED <<proc, boots, lock, excused, graph, reaping>>

\* Fault: a tracker that is terminal refuses the lease and leaves it.
RegistersForgetful(r) ==
    /\ req[r].tool = "reading"
    /\ IF req[r].tracker = "idle"
       THEN req' = [req EXCEPT ![r].tracker = "active", ![r].leased = TRUE,
                               ![r].tool = "done"]
       ELSE req' = [req EXCEPT ![r] = ToolDone(@)]
    /\ UNCHANGED <<proc, boots, lock, excused, graph, reaping, permit>>

\* The lease is there and register is called in the same run: a tracker that is
\* terminal already fails the lease, which has then to be completed.
Registers(r) ==
    /\ req[r].tool = "reading"
    /\ req' = [req EXCEPT ![r] =
                 IF @.tracker = "idle"
                 THEN [@ EXCEPT !.tracker = "active", !.leased = TRUE,
                                !.tool = "done"]
                 ELSE [@ EXCEPT !.tool = "refusing"]]
    /\ UNCHANGED <<proc, boots, lock, excused, graph, reaping, permit>>

RefusalCompletes(r) ==
    /\ req[r].tool = "refusing"
    /\ req' = [req EXCEPT ![r] = ToolDone(@)] /\ permit' = NoRequest
    /\ UNCHANGED <<proc, boots, lock, excused, graph, reaping>>

\* The response's finish event: the reply is out, or the transport was closed
\* and ended the stream.
ResponseFinishes(r) ==
    /\ req[r].at = "handling" /\ req[r].kind = "artifact" /\ req[r].res = "open"
    /\ req[r].tool = "done" \/ ~Live(req[r].graph)
    /\ req' = [req EXCEPT ![r] = Terminalize(@, TRUE)]
    /\ UNCHANGED <<proc, boots, lock, excused, graph, reaping, permit>>

\* The client resets the connection, or it errs.
ResponseLost(r) ==
    /\ req[r].at = "handling" /\ req[r].kind = "artifact" /\ req[r].res = "open"
    /\ req' = [req EXCEPT ![r] = Terminalize(@, FALSE)]
    /\ UNCHANGED <<proc, boots, lock, excused, graph, reaping, permit>>

\* The lease's deadline passes on a client that takes too long.
Deadline(r) ==
    /\ req[r].tracker = "active"
    /\ req' = [req EXCEPT ![r] = Terminalize(@, FALSE)]
    /\ UNCHANGED <<proc, boots, lock, excused, graph, reaping, permit>>

\* lease.complete() is over and has given the permit back.
LeaseCompletes(r) ==
    /\ req[r].tracker = "terminal"
    /\ req' = [req EXCEPT ![r].tracker = "settled"] /\ permit' = NoRequest
    /\ UNCHANGED <<proc, boots, lock, excused, graph, reaping>>

\* tracker.settled resolves, and the call is no longer in flight.
ArtifactCallEnds(r) ==
    /\ req[r].at = "handling" /\ req[r].tracker = "settled"
    /\ req' = [req EXCEPT ![r] = Leave(@)]
    /\ Finally(r)

-----------------------------------------------------------------------------
ProcessStep ==
    \/ \E to \in {"down", "refusing", "binding"} : Boot(to)
    \/ Listens \/ ListenFails \/ Signal \/ CloseAll \/ Settles
    \/ \E released \in BOOLEAN : CloseArtifacts(released)
    \/ Killed
GraphStep ==
    \/ ReapTick
    \/ \E g \in Graph : \/ DriveCloses(g) \/ LineageDiscarded(g)
                        \/ TimePasses(g) \/ ReapNext(g)
                        \/ \E delete \in BOOLEAN : Touch(g, delete)
RequestStep(r) ==
    \/ \E kind \in Kind, c \in Consumer, g \in Graph \cup {NoGraph}, 
            i \in RpcId \cup {NoId} :
         Arrives(r, kind, c, g, i)
    \/ BodyRefused(r) \/ CallRefused(r) \/ Dispatch(r) \/ ToolReturns(r)
    \/ CallEnds(r) \/ Registered(r) \/ InitializeFails(r) \/ OrphanDisposed(r)
    \/ InitializeReplies(r)
    \/ \E g \in Graph : OpenSession(r, g)
ArtifactStep(r) ==
    \/ HandleThrows(r) \/ ReadFails(r) \/ Registers(r) \/ RefusalCompletes(r)
    \/ ResponseFinishes(r) \/ ResponseLost(r) \/ Deadline(r)
    \/ LeaseCompletes(r) \/ ArtifactCallEnds(r)
    \/ \E refused \in BOOLEAN : ToolAsks(r, refused) \/ PermitGranted(r, refused)

Next ==
    \/ ProcessStep \/ GraphStep
    \/ \E r \in Request : RequestStep(r) \/ ArtifactStep(r)

Spec == Init /\ [][Next]_vars

-----------------------------------------------------------------------------
(* Properties. *)

\* Every variable has a value of its type.
TypeOK ==
    /\ proc \in Phase /\ boots \in 0..MaxBoots /\ lock \in BOOLEAN
    /\ excused \in {"no", "killed", "close-overran", "signal-in-boot"}
    /\ graph \in [Graph -> GraphState]
    /\ reaping \in SUBSET Graph
    /\ req \in [Request -> RequestState]
    /\ permit \in Request \cup {NoRequest}

\* A consumer graph is never lost between two owners: until its disposal it is a
\* registered session, or the request that built it is still in openSession and
\* will register or dispose it (the catch and the last lines of openSession).
NoGraphLeaked ==
    \A g \in Graph :
        graph[g].at \in {"opening", "orphan"} =>
            \E r \in Request :
                /\ req[r].graph = g
                /\ req[r].at = IF graph[g].at = "opening" THEN "opening"
                               ELSE "disposing"

\* A session that requests can still find has a lineage nobody has fenced: the
\* reaper, DELETE, onclose and closeAll take the entry out of sessions in the
\* run that calls dispose.
LiveNotFenced == \A g \in Graph : Live(g) => graph[g].disposal = "no"

\* The permit passes on only when the response that had it is over: no two
\* artifacts are on the wire, and bytes of a lease given up are fenced by the
\* destroyed response (the order of terminalize).
FencedBeforePermit ==
    \A r \in Request :
        req[r].leased /\ req[r].res = "open" =>
            permit = r /\ req[r].tracker = "active"

\* A process that ends by itself leaves no lock behind, whichever boot guard, bind
\* or signal ended it: a lock without a process was left by a kill, by an artifact
\* close that failed or overran its bound, or by a signal while a refused boot
\* was releasing it.
LockReleased ==
    /\ proc = "down" /\ lock => excused # "no"
    /\ proc \in Up => lock /\ excused = "no"

\* The one response permit is never stranded: its holder still reads the artifact,
\* has a deadline running on a registered lease, or is completing one, also when
\* the response was over before the lease came (register on a terminal tracker).
PermitHasHolder ==
    \A r \in Request :
        permit = r <=> \/ req[r].tool \in {"reading", "refusing"}
                       \/ req[r].tracker \in {"active", "terminal"}

\* What a comment of reapIdle says: "Never reap a session with an in-flight tool
\* call".
ReapSparesBusy ==
    [][ReapTick \/ (\E g \in Graph : ReapNext(g)) =>
         \A g \in Graph : Live(g) /\ Busy(g) => graph'[g].at = "live"]_vars

=============================================================================
