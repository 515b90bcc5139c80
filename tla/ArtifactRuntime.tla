-------------------------- MODULE ArtifactRuntime --------------------------
(***************************************************************************)
(* Capture of one download per operation, and its one-time retrieval:      *)
(* ArtifactOperation and ArtifactRuntime (src/artifacts/index.ts), the     *)
(* store they share (store.ts) and the capture generations of the browser  *)
(* core that drives them (src/browser/patchright-core.ts).                 *)
(*                                                                         *)
(* A step is one run of the event loop between two awaits.  The store's    *)
(* capture() awaits test hooks only, so it commits in one step and its     *)
(* caller resumes in the next.  What the filesystem or a download may do   *)
(* wrong is the choice of a parameter; that it never answers is a step     *)
(* nobody takes.                                                           *)
(***************************************************************************)
EXTENDS Naturals, FiniteSets, Sequences

CONSTANTS
    Id,        \* artifact ids in use at once, one operation each
    DriveId,   \* those of operations the drive controller owns; the others are
               \* owned by the consumer of a read
    Ask,       \* retrievals underway at once
    MaxCount,  \* maxCount: how many artifacts the store bills for
    MaxStray,  \* bound: unattributed downloads being disposed of at once
    NoId

ASSUME ArtifactAssumption ==
    /\ NoId \notin Id /\ DriveId \subseteq Id
    /\ MaxCount \in Nat \ {0} /\ MaxStray \in Nat \ {0}

VARIABLES
    op,        \* the operations
    rec, bill, \* the store: records, and ids with a capacity reservation
    healthy,   \* the store can prove what it deletes
    closing,   \* no / swept, unswept = close() ran, its result is not delivered / ok / failed
    lineage,   \* controllerState of the one drive controller
    poisoned,  \* cleanupPoisoned
    core,      \* the browser core's capture generation
    lease, queue \* retrievals, and who waits for the response permit

store == <<rec, bill, healthy>>
permits == <<lease, queue>>
vars == <<op, store, closing, lineage, poisoned, core, permits>>

\* verb: where the core's verb is that was given the operation.
\* job: how far the staging of its download is; download: the operation owns it.
\* listed: it is in artifactOwners; released: its id is free again.
OpState ==
    [at : {"none", "open", "sealing", "committed", "invalidated"},
     verb : {"new", "running", "draining", "sealing", "over"},
     job : {"none", "staging", "stored", "refused"},
     download : BOOLEAN, provisional : BOOLEAN,
     cleanup : {"idle", "running", "failed"},
     cleanupFailed : BOOLEAN, waiting : BOOLEAN, refusal : BOOLEAN,
     listed : BOOLEAN, released : BOOLEAN]
NoOp == [at |-> "none", verb |-> "over", job |-> "none",
         download |-> FALSE, provisional |-> FALSE, cleanup |-> "idle",
         cleanupFailed |-> FALSE, waiting |-> FALSE, refusal |-> FALSE,
         listed |-> FALSE, released |-> TRUE]
NoLease == [at |-> "none", id |-> NoId]
FreshCore == [gen |-> NoId, open |-> FALSE, claimed |-> FALSE, at |-> "up",
              dirty |-> FALSE, stray |-> 0]

Init ==
    /\ op = [i \in Id |-> NoOp]
    /\ rec = [i \in Id |-> "none"] /\ bill = {} /\ healthy = TRUE
    /\ closing = "no" /\ lineage = "active" /\ poisoned = FALSE
    /\ core = FreshCore
    /\ lease = [a \in Ask |-> NoLease] /\ queue = <<>>

Undecided(o) == o.at \in {"open", "sealing"}
Terminal(o) == o.at \in {"committed", "invalidated"}
Active(o) == o.job # "none"
\* Still in the runtime's operations: created, and neither released nor unconfirmed.
Tracked == {i \in Id : op[i].at # "none" /\ ~op[i].released
                       /\ op[i].cleanup # "failed"}

-----------------------------------------------------------------------------
(* What several handlers share. *)

\* Fault: the staging job is not waited for.
ReleasableEarly(o) ==
    /\ Terminal(o) /\ ~o.cleanupFailed /\ ~o.waiting /\ ~o.refusal
    /\ o.cleanup \notin {"running", "failed"}

\* tryRelease: what still refers to the id keeps it reserved.
Releasable(o) ==
    /\ Terminal(o) /\ ~Active(o)
    /\ ~o.cleanupFailed /\ ~o.waiting /\ ~o.refusal
    /\ o.cleanup \notin {"running", "failed"}

\* After tryRelease; an operation nobody holds any more is gone.
Settle(o) ==
    LET r == IF Releasable(o) THEN [o EXCEPT !.released = TRUE, !.listed = FALSE]
             ELSE o
    IN  IF r.released /\ r.verb = "over" THEN NoOp ELSE r

\* The record of what invalidate() changes in the operation itself.
Invalidated(o) ==
    [o EXCEPT !.at = "invalidated", !.provisional = FALSE,
              !.cleanup = IF o.download /\ @ = "idle" THEN "running" ELSE @,
              !.download = FALSE]

\* settleResponses: the holder's lease is void and every waiter is refused.  One
\* that was granted the permit and has not resumed finds out when it does.
VoidLeases ==
    /\ lease' = [a \in Ask |-> IF lease[a].at \in {"waiting", "held"}
                               THEN NoLease ELSE lease[a]]
    /\ queue' = <<>>

\* Fault: the reservation of a failed deletion is released with the others.
DiscardUnbills(S, K) ==
    /\ K \subseteq S /\ (~healthy => K = S)
    /\ rec' = [i \in Id |-> IF i \in S \ K THEN "none" ELSE rec[i]]
    /\ bill' = bill \ S
    /\ IF K = {} THEN UNCHANGED <<healthy, permits>>
       ELSE healthy' = FALSE /\ VoidLeases

\* discardArtifactDetailed for the ids of S; the deletion of those in K cannot be
\* proven, and after the first of them the store is unhealthy.
Discard(S, K) ==
    /\ K \subseteq S /\ (~healthy => K = S)
    /\ rec' = [i \in Id |-> IF i \in S \ K THEN "none" ELSE rec[i]]
    /\ bill' = bill \ (S \ K)
    /\ IF K = {} THEN UNCHANGED <<healthy, permits>>
       ELSE healthy' = FALSE /\ VoidLeases

\* Fault: the copy of a job that is underway is left to the job.
InvalidateLeavesJob(o, S, K) ==
    /\ Discard({i \in S : ~Active(o[i])}, K)
    /\ op' = [i \in Id |-> IF i \in S THEN Settle(Invalidated(o[i])) ELSE o[i]]

\* invalidate() of the operations in S, on top of the other changes o of the
\* step.  An operation whose bytes could not be deleted keeps its id.
Invalidate(o, S, K) ==
    /\ Discard(S, K)
    /\ op' = [i \in Id |->
                IF i \notin S THEN o[i]
                ELSE Settle([Invalidated(o[i]) EXCEPT
                               !.cleanupFailed = @ \/ i \in K])]

\* The same where the operation may be terminal already: the first reason wins.
InvalidateIfOpen(o, i, K) ==
    Invalidate(o, IF Undecided(op[i]) THEN {i} ELSE {}, K)

-----------------------------------------------------------------------------
(* Operations, and the verb of the core that runs with one. *)

\* createOperation, by a drive navigate or a read.  The id is random: no slot is
\* reused while anything still names the old one.  Verbs on a core are serialized;
\* one whose generation was taken away may still be underway.
CreateOperation(i) ==
    /\ op[i].at = "none" /\ \A a \in Ask : lease[a].id # i
    /\ core.gen = NoId /\ \A j \in Id : op[j].verb # "new"
    /\ closing = "no" /\ ~poisoned
    /\ i \in DriveId => lineage = "active"
    /\ op' = [op EXCEPT ![i] = [NoOp EXCEPT !.at = "open", !.verb = "new",
                                            !.released = FALSE]]
    /\ UNCHANGED <<store, closing, lineage, poisoned, core, permits>>

Usable == core.at = "up" /\ ~core.dirty /\ core.stray = 0

\* requireCaptureReady and beginGeneration.  A refused verb throws and leaves the
\* operation as it is.
BeginGeneration(i) ==
    /\ op[i].verb = "new"
    /\ IF Usable
       THEN /\ core' = [core EXCEPT !.gen = i, !.open = TRUE, !.claimed = FALSE]
            /\ op' = [op EXCEPT ![i].verb = "running"]
       ELSE /\ op' = [op EXCEPT ![i] = Settle([@ EXCEPT !.verb = "over"])]
            /\ UNCHANGED core
    /\ UNCHANGED <<store, closing, lineage, poisoned, permits>>

\* A dirty core runs no further capture, whatever else is being disposed of.
Dirty(c) == [c EXCEPT !.dirty = TRUE, !.stray = 0]

\* discardUnattributed begins: the download is cancelled and deleted.
Stray(c) == IF c.dirty THEN c ELSE [c EXCEPT !.stray = @ + 1]

\* routeDownload, registerDownload: nobody's download, a late one, a second one,
\* one the operation refuses, or the one download the operation takes.
RouteDownload(K) ==
    /\ core.stray < MaxStray
    /\ UNCHANGED <<closing, lineage, poisoned>>
    /\ LET g == core.gen IN
       \/ /\ g = NoId /\ K = {} /\ core' = Dirty(core)
          /\ UNCHANGED <<op, store, permits>>
       \/ /\ g # NoId /\ (~core.open \/ core.claimed \/ op[g].at # "open")
          /\ core' = Stray([core EXCEPT !.open = FALSE])
          /\ InvalidateIfOpen(op, g, K)
       \/ /\ g # NoId /\ core.open /\ ~core.claimed /\ op[g].at = "open" /\ K = {}
          /\ core' = [core EXCEPT !.claimed = TRUE]
          /\ op' = [op EXCEPT ![g] = [@ EXCEPT !.job = "staging", !.download = TRUE]]
          /\ UNCHANGED <<store, permits>>

\* The disposal is confirmed, refused or times out, whichever is first.
StraySettles(confirmed) ==
    /\ core.stray > 0
    /\ core' = IF confirmed THEN [core EXCEPT !.stray = @ - 1] ELSE Dirty(core)
    /\ UNCHANGED <<op, store, closing, lineage, poisoned, permits>>

\* settleGeneration: the window is closed before the turn that drains late events.
\* A generation that was taken away is sealed at once: its operation is decided.
BeginSettle(i) ==
    /\ op[i].verb = "running"
    /\ IF core.gen = i
       THEN /\ core' = [core EXCEPT !.open = FALSE]
            /\ op' = [op EXCEPT ![i].verb = "draining"]
       ELSE /\ op' = [op EXCEPT ![i] = Settle([@ EXCEPT !.verb = "over"])]
            /\ UNCHANGED core
    /\ UNCHANGED <<store, closing, lineage, poisoned, permits>>

\* The verb has its outcome and the core forgets the generation.
VerbOver(i) ==
    /\ core' = IF core.gen = i THEN [core EXCEPT !.gen = NoId, !.open = FALSE,
                                                 !.claimed = FALSE]
               ELSE core
    /\ UNCHANGED <<closing, lineage, poisoned, permits>>

\* seal(): an open operation waits for its job, any other answers at once.
Seal(i) ==
    /\ op[i].verb = "draining"
    /\ IF op[i].at = "open"
       THEN /\ op' = [op EXCEPT ![i] = [@ EXCEPT !.at = "sealing", !.verb = "sealing"]]
            /\ UNCHANGED <<core, closing, lineage, poisoned, permits>>
       ELSE /\ op' = [op EXCEPT ![i] = Settle([@ EXCEPT !.verb = "over"])]
            /\ VerbOver(i)
    /\ UNCHANGED store

\* seal() resumes once the job is over: it commits what the job staged, or none.
SealResumes(i) ==
    /\ op[i].verb = "sealing"
    /\ ~Active(op[i]) \/ Terminal(op[i])
    /\ LET over == [op[i] EXCEPT !.verb = "over"]
       IN  op' = [op EXCEPT ![i] =
                    IF Terminal(over) THEN Settle(over)
                    ELSE Settle([over EXCEPT !.at = "committed",
                                             !.listed = over.provisional,
                                             !.waiting = over.provisional])]
    /\ VerbOver(i)
    /\ UNCHANGED store

\* Fault: the deadline is armed when a download is staged, not by seal().
SettleTimeoutUnarmed(i, K) ==
    /\ op[i].at = "sealing" /\ op[i].job = "stored"
    /\ Invalidate(op, {i}, K)
    /\ UNCHANGED <<closing, lineage, poisoned, core>>

\* The settlement deadline, armed by seal() once a download is registered, or the
\* core's own budget around seal().
SettleTimeout(i, K) ==
    /\ op[i].at = "sealing" /\ Active(op[i])
    /\ Invalidate(op, {i}, K)
    /\ UNCHANGED <<closing, lineage, poisoned, core>>

-----------------------------------------------------------------------------
(* stage(): the job that follows the download. *)

JobOver(o) == [o EXCEPT !.job = "none", !.download = FALSE]

\* The operation was decided meanwhile: the accessor is abandoned.
StageStopped(i) ==
    /\ op[i].job = "staging" /\ Terminal(op[i])
    /\ op' = [op EXCEPT ![i] = Settle(JobOver(op[i]))]
    /\ UNCHANGED <<store, closing, lineage, poisoned, core, permits>>

\* The download reports a failure or has no path: its two accessors are awaited in
\* turn, each of them until the operation is decided.
StageFails(i, K) ==
    /\ op[i].job = "staging" /\ Undecided(op[i])
    /\ Invalidate([op EXCEPT ![i].job = "none"], {i}, K)
    /\ UNCHANGED <<closing, lineage, poisoned, core>>

\* The store's capture(): the record and its bill; a refusal that leaves nothing;
\* or a failure whose leftovers it cannot delete and goes on billing for.
Capture(i, result) ==
    /\ op[i].job = "staging" /\ Undecided(op[i])
    /\ op' = [op EXCEPT ![i].job = IF result = "stored" THEN "stored" ELSE "refused"]
    /\ \/ /\ result = "stored" /\ healthy /\ Cardinality(bill) < MaxCount
          /\ rec' = [rec EXCEPT ![i] = "available"] /\ bill' = bill \cup {i}
          /\ UNCHANGED <<healthy, permits>>
       \/ result = "refused" /\ UNCHANGED <<store, permits>>
       \/ /\ result = "leftover" /\ healthy /\ Cardinality(bill) < MaxCount
          /\ bill' = bill \cup {i} /\ healthy' = FALSE
          /\ VoidLeases
          /\ UNCHANGED rec
    /\ UNCHANGED <<closing, lineage, poisoned, core>>

\* Back in stage(), still undecided: the record is the operation's, or it fails.
CaptureResumes(i, K) ==
    /\ op[i].job \in {"stored", "refused"} /\ Undecided(op[i])
    /\ IF op[i].job = "stored"
       THEN /\ K = {}
            /\ op' = [op EXCEPT ![i] = [JobOver(@) EXCEPT !.provisional = TRUE]]
            /\ UNCHANGED <<store, permits>>
       ELSE Invalidate([op EXCEPT ![i].job = "none"], {i}, K)
    /\ UNCHANGED <<closing, lineage, poisoned, core>>

Sweeping == closing \in {"swept", "unswept"}

\* Back in stage(), decided meanwhile: a stored copy is discarded once more.  A
\* closing store refuses, and its own result decides.
CaptureTooLate(i, K) ==
    /\ op[i].job \in {"stored", "refused"} /\ Terminal(op[i])
    /\ LET done == JobOver(op[i])
           again == op[i].job = "stored"
           late == [done EXCEPT
             !.waiting = @ \/ (again /\ Sweeping),
             !.refusal = @ \/ (again /\ Sweeping),
             !.cleanupFailed = @ \/ i \in K \/ (again /\ closing = "failed")]
       IN  op' = [op EXCEPT ![i] = Settle(late)]
    /\ Discard(IF op[i].job = "stored" /\ closing = "no" THEN {i} ELSE {}, K)
    /\ UNCHANGED <<closing, lineage, poisoned, core>>

\* finishCleanup: without proof that the driver's copy is gone the runtime takes
\* no further operation, and this one is no longer tracked.
CleanupSettles(i, confirmed) ==
    /\ op[i].cleanup = "running"
    /\ op' = [op EXCEPT ![i] = Settle([@ EXCEPT !.cleanup =
                                  IF confirmed THEN "idle" ELSE "failed"])]
    /\ poisoned' = (poisoned \/ ~confirmed)
    /\ UNCHANGED <<store, closing, lineage, core, permits>>

-----------------------------------------------------------------------------
(* Discards that do not come from the operation. *)

\* artifactDiscarded for a committed operation; an unconfirmed one is not told.
Noted(o) ==
    IF o.waiting /\ o.cleanup # "failed"
    THEN Settle([o EXCEPT !.waiting = FALSE, !.refusal = FALSE]) ELSE o

\* reapExpired: a record past its time that is not being served.  A copy whose
\* operation is still undecided takes the operation with it.
Expire(i, K) ==
    /\ rec[i] = "available" /\ healthy /\ closing = "no"
    /\ IF K = {} /\ Undecided(op[i]) THEN Invalidate(op, {i}, {})
       ELSE /\ Discard({i}, K)
            /\ op' = IF K = {} THEN [op EXCEPT ![i] = Noted(@)] ELSE op
    /\ UNCHANGED <<closing, lineage, poisoned, core>>

DriveOps == Tracked \cap DriveId

\* Fault: only what is open is fenced, and a generation being sealed may publish.
InvalidateControllerOpenOnly(K) ==
    /\ lineage = "active" /\ lineage' = "invalidated"
    /\ Invalidate(op, {i \in DriveOps : op[i].at = "open"}, K)
    /\ UNCHANGED <<closing, poisoned, core>>

\* invalidateController: no later operation, nothing undecided, no retrieval.
InvalidateController(K) ==
    /\ lineage = "active" /\ lineage' = "invalidated"
    /\ Invalidate(op, {i \in DriveOps : Undecided(op[i])}, K)
    /\ UNCHANGED <<closing, poisoned, core>>

\* discardController: what the lineage published and nobody is being served.
DiscardController(K) ==
    /\ lineage = "invalidated" /\ closing = "no"
    /\ LET S == {i \in DriveId : op[i].listed /\ rec[i] # "consuming"}
       IN  /\ S # {}
           /\ Discard(S, K)
           /\ op' = [i \in Id |-> IF i \in S \ K THEN Noted(op[i]) ELSE op[i]]
    /\ poisoned' = (poisoned \/ K # {})
    /\ UNCHANGED <<closing, lineage, core>>

\* The next consumer graph has a controller of its own.
NewController ==
    /\ lineage = "invalidated" /\ closing = "no"
    /\ \A i \in DriveId : op[i].at = "none"
    /\ lineage' = "active"
    /\ UNCHANGED <<op, store, closing, poisoned, core, permits>>

\* close(): the fence, every tracked operation invalidated, then the store's own
\* sweep, which runs to its end also in a store that is unhealthy.  When it is
\* clean the records are gone with their bills, but not what is billed without a
\* record; when it is not, everything stays, and so does the lock.
Close(K, swept) ==
    /\ closing = "no" /\ closing' = IF swept THEN "swept" ELSE "unswept"
    /\ LET S == {i \in Tracked : Undecided(op[i])}
           ok == [i \in Id |-> Settle([Invalidated(op[i]) EXCEPT
                                         !.cleanupFailed = @ \/ i \in K])]
           gone == (S \ K) \cup {i \in Id : swept /\ rec[i] # "none"}
       IN  /\ K \subseteq S /\ (~healthy => K = S)
           /\ op' = [i \in Id |->
                 IF i \in S THEN ok[i]
                 ELSE IF i \in gone /\ i \in Tracked /\ op[i].waiting
                 THEN [op[i] EXCEPT !.waiting = FALSE, !.refusal = TRUE]
                 ELSE op[i]]
           /\ rec' = [i \in Id |-> IF i \in gone THEN "none" ELSE rec[i]]
           /\ bill' = bill \ gone
           /\ healthy' = (healthy /\ K = {} /\ swept)
    /\ VoidLeases
    /\ UNCHANGED <<lineage, poisoned, core>>

\* The store's result reaches the runtime and every tracked operation.
CloseSettles ==
    /\ Sweeping
    /\ closing' = IF closing = "swept" THEN "ok" ELSE "failed"
    /\ LET failed == closing = "unswept"
       IN  op' = [i \in Id |->
             IF i \in Tracked /\ op[i].refusal
             THEN Settle([op[i] EXCEPT !.refusal = FALSE,
                    !.cleanupFailed = @ \/ failed, !.waiting = @ /\ failed])
             ELSE op[i]]
    /\ UNCHANGED <<store, lineage, poisoned, core, permits>>

-----------------------------------------------------------------------------
(* Retrieval: one response at a time, in order of arrival. *)

Busy == \E a \in Ask : lease[a].at \in {"granted", "held"}
Leasable(i) == closing = "no" /\ healthy /\ rec[i] = "available"

\* releaseResponse, when a's turn is over.
PassOn(a) ==
    LET l == [lease EXCEPT ![a] = NoLease]
    IN  IF queue = <<>> THEN lease' = l /\ UNCHANGED queue
        ELSE /\ lease' = [l EXCEPT ![Head(queue)].at = "granted"]
             /\ queue' = Tail(queue)

\* discardOwned by the lease that owns the record, then the permit is passed on.
DiscardServed(a, i, K) ==
    /\ K \subseteq {i}
    /\ IF K = {}
       THEN /\ rec' = [rec EXCEPT ![i] = "none"] /\ bill' = bill \ {i}
            /\ op' = [op EXCEPT ![i] = Noted(@)]
            /\ PassOn(a)
            /\ UNCHANGED healthy
       ELSE healthy' = FALSE /\ VoidLeases /\ UNCHANGED <<op, rec, bill>>

\* With the permit: the bytes are read and proven, or the record is given up.
Read(a, i, proven, K) ==
    IF proven
    THEN /\ K = {}
         /\ rec' = [rec EXCEPT ![i] = "consuming"]
         /\ lease' = [lease EXCEPT ![a] = [at |-> "held", id |-> i]]
         /\ UNCHANGED <<op, bill, healthy, queue>>
    ELSE DiscardServed(a, i, K)

\* Fault: a retrieval queues up even when the permit is free, and nobody has it to
\* pass on.
AcquireAlwaysQueues(a, i, proven, K) ==
    /\ lease[a].at = "none"
    /\ op[i].listed /\ (i \in DriveId => lineage = "active")
    /\ Leasable(i) /\ proven /\ K = {}
    /\ lease' = [lease EXCEPT ![a] = [at |-> "waiting", id |-> i]]
    /\ queue' = Append(queue, a)
    /\ UNCHANGED <<op, store, closing, lineage, poisoned, core>>

\* acquireResponseLease up to the permit: authorized from artifactOwners first.
Acquire(a, i, proven, K) ==
    /\ lease[a].at = "none"
    /\ op[i].listed /\ (i \in DriveId => lineage = "active")
    /\ Leasable(i)
    /\ IF Busy
       THEN /\ proven /\ K = {}
            /\ lease' = [lease EXCEPT ![a] = [at |-> "waiting", id |-> i]]
            /\ queue' = Append(queue, a)
            /\ UNCHANGED <<op, store>>
       ELSE Read(a, i, proven, K)
    /\ UNCHANGED <<closing, lineage, poisoned, core>>

\* A waiter resumes with the permit and looks at the record again.
Resume(a, proven, K) ==
    /\ lease[a].at = "granted"
    /\ IF Leasable(lease[a].id) THEN Read(a, lease[a].id, proven, K)
       ELSE proven /\ K = {} /\ PassOn(a) /\ UNCHANGED <<op, store>>
    /\ UNCHANGED <<closing, lineage, poisoned, core>>

\* complete(): delivered, refused or timed out, the record is spent.
Complete(a, K) ==
    /\ lease[a].at = "held"
    /\ DiscardServed(a, lease[a].id, K)
    /\ UNCHANGED <<closing, lineage, poisoned, core>>

-----------------------------------------------------------------------------
(* The core's page and the core go away under a running verb. *)

\* invalidateGenerationSync.  closeActivePage: the page is gone before the core is
\* usable again.
ClosePage(K) ==
    /\ core.at = "up"
    /\ core' = [core EXCEPT !.at = "page", !.gen = NoId, !.open = FALSE,
                            !.claimed = FALSE]
    /\ IF core.gen = NoId THEN K = {} /\ UNCHANGED <<op, store, permits>>
       ELSE InvalidateIfOpen(op, core.gen, K)
    /\ UNCHANGED <<closing, lineage, poisoned>>

PageClosed(ok) ==
    /\ core.at = "page"
    /\ core' = [IF ok THEN core ELSE Dirty(core) EXCEPT !.at = "up"]
    /\ UNCHANGED <<op, store, closing, lineage, poisoned, permits>>

\* close() and kill(): a verb that was about to begin is refused, and the session
\* that replaces this one has a core of its own.
CloseCore(K) ==
    /\ core' = FreshCore
    /\ LET o == [i \in Id |-> IF op[i].verb = "new"
                              THEN Settle([op[i] EXCEPT !.verb = "over"])
                              ELSE op[i]]
       IN  IF core.gen = NoId
           THEN K = {} /\ op' = o /\ UNCHANGED <<store, permits>>
           ELSE InvalidateIfOpen(o, core.gen, K)
    /\ UNCHANGED <<closing, lineage, poisoned>>

OperationStep ==
    \E i \in Id :
       \/ CreateOperation(i) \/ BeginGeneration(i) \/ BeginSettle(i) \/ Seal(i) \/ SealResumes(i)
       \/ StageStopped(i)
       \/ \E r \in {"stored", "refused", "leftover"} : Capture(i, r)
       \/ \E ok \in BOOLEAN : CleanupSettles(i, ok)
       \/ \E K \in SUBSET {i} :
             \/ SettleTimeout(i, K) \/ StageFails(i, K) \/ CaptureResumes(i, K)
             \/ CaptureTooLate(i, K) \/ Expire(i, K)

CoreStep ==
    \/ \E K \in SUBSET Id : RouteDownload(K) \/ ClosePage(K) \/ CloseCore(K)
    \/ \E ok \in BOOLEAN : StraySettles(ok) \/ PageClosed(ok)

RuntimeStep ==
    \/ \E K \in SUBSET Id :
          \/ InvalidateController(K) \/ DiscardController(K)
          \/ \E swept \in BOOLEAN : Close(K, swept)
    \/ CloseSettles \/ NewController

LeaseStep ==
    \E a \in Ask :
       \/ \E i \in Id, proven \in BOOLEAN :
             \E K \in SUBSET {i} : Acquire(a, i, proven, K)
       \/ \E proven \in BOOLEAN, K \in SUBSET {lease[a].id} : Resume(a, proven, K)
       \/ \E K \in SUBSET {lease[a].id} : Complete(a, K)

Next == OperationStep \/ CoreStep \/ RuntimeStep \/ LeaseStep

\* Timers fire and resumed code runs.  Nothing makes a download answer, a page
\* close or a caller come back, so none of those steps is fair.
Fairness ==
    /\ \A i \in Id :
         /\ WF_vars(BeginSettle(i)) /\ WF_vars(Seal(i)) /\ WF_vars(SealResumes(i))
         /\ WF_vars(StageStopped(i))
         /\ WF_vars(\E K \in SUBSET {i} : SettleTimeout(i, K))
         /\ WF_vars(\E K \in SUBSET {i} : CaptureResumes(i, K) \/ CaptureTooLate(i, K))
         /\ WF_vars(\E ok \in BOOLEAN : CleanupSettles(i, ok))
    /\ WF_vars(CloseSettles)
    /\ \A a \in Ask :
         /\ WF_vars(\E p \in BOOLEAN, K \in SUBSET {lease[a].id} : Resume(a, p, K))
         /\ WF_vars(\E K \in SUBSET {lease[a].id} : Complete(a, K))

Spec == Init /\ [][Next]_vars
FairSpec == Spec /\ Fairness

-----------------------------------------------------------------------------
(* Properties. *)

\* Every variable has a value of its type.
TypeOK ==
    /\ op \in [Id -> OpState]
    /\ rec \in [Id -> {"none", "available", "consuming"}]
    /\ bill \subseteq Id /\ healthy \in BOOLEAN
    /\ closing \in {"no", "swept", "unswept", "ok", "failed"}
    /\ lineage \in {"active", "invalidated"} /\ poisoned \in BOOLEAN
    /\ core \in [gen : Id \cup {NoId}, open : BOOLEAN, claimed : BOOLEAN,
                 at : {"up", "page"}, dirty : BOOLEAN,
                 stray : 0..MaxStray]
    /\ lease \in [Ask -> [at : {"none", "waiting", "granted", "held"},
                          id : Id \cup {NoId}]]
    /\ queue \in Seq(Ask)

\* An id that may be handed out again (tryRelease has run) is nobody's: no bytes,
\* no bill, no job that could still store some, no driver copy being deleted, no
\* response being served from it.
ReleasedIsGone ==
    \A i \in Id : op[i].released =>
       /\ rec[i] = "none" /\ i \notin bill
       /\ ~Active(op[i]) /\ op[i].cleanup \notin {"running", "failed"}
       /\ \A a \in Ask : lease[a].at = "held" => lease[a].id # i

\* The store never bills for less than it holds, and a healthy store whose
\* operation is not inside capture() bills for exactly what it holds.
BillExact ==
    /\ \A i \in Id : rec[i] # "none" => i \in bill
    /\ healthy => bill = {i \in Id : rec[i] # "none"}

\* What was invalidated leaves nothing behind in a store that can still delete:
\* whichever of the job, the second download, the deadline and the fence came
\* first.
InvalidatedLeavesNothing ==
    \A i \in Id : healthy /\ op[i].at = "invalidated" => rec[i] = "none"

\* The response permit is never lost and never shared: at most one retrieval has
\* it, everyone waiting is in the queue once, and nobody waits while it is free.
PermitExact ==
    /\ Cardinality({a \in Ask : lease[a].at \in {"granted", "held"}}) <= 1
    /\ \A a \in Ask : (lease[a].at = "waiting")
                        <=> Cardinality({n \in DOMAIN queue : queue[n] = a}) = 1
    /\ queue # <<>> => Busy

\* Once the lineage is fenced nothing of it is published any more, neither by an
\* open generation nor by one that is being sealed while the fence comes down.
FencedNeverPublishes ==
    [][\A i \in DriveId :
         op'[i].listed /\ ~op[i].listed => lineage = "active"]_vars

\* A verb waiting for its capture gets an outcome, even when the download never
\* answers: the deadline decides the operation and wakes its job.
SealReturns == \A i \in Id : op[i].verb = "sealing" ~> op[i].verb # "sealing"

=============================================================================
