----------------------- MODULE ArtifactRuntimeProofs -----------------------
(***************************************************************************)
(* Proofs about ArtifactRuntime, for every number of operations and of     *)
(* retrievals: its invariants, and that a fenced lineage publishes         *)
(* nothing.                                                                *)
(***************************************************************************)
EXTENDS ArtifactRuntime, FiniteSetTheorems, TLAPS

-----------------------------------------------------------------------------
(***************************************************************************)
(* The inductive invariant.                                                *)
(***************************************************************************)

\* The store holds nothing for the id.
Nothing(i) == rec[i] = "none" /\ i \notin bill

\* An operation on its own.  One that was decided against, or whose bytes are
\* gone, has nothing left to run; one whose id is free has nothing left at all.
Good(o) ==
    /\ o \in OpState
    /\ o.at = "none" => o = NoOp
    /\ Undecided(o) => /\ ~o.released /\ o.cleanup = "idle" /\ ~o.cleanupFailed
                       /\ ~o.waiting /\ ~o.refusal
    /\ o.at = "committed" => o.job = "none"
    /\ o.listed => o.at = "committed"
    /\ o.released => o.job = "none" /\ o.cleanup = "idle"
    /\ o.verb = "new" => o.job = "none"

\* The operation still answers for what the store holds: its job or its seal
\* will, or its deletion has to be noted or has failed.
Keeps(o) ==
    /\ o.at # "none" /\ ~o.released
    /\ Undecided(o) => o.job \in {"stored", "refused"} \/ o.provisional
    /\ Terminal(o) => o.waiting \/ o.cleanupFailed

\* Billed for without a record: the operation knows, or is about to find out.
Leftover(i) == rec[i] = "none" /\ i \in bill
Lost(o) == o.cleanupFailed \/ (Undecided(o) /\ o.job = "refused")

Ops ==
    /\ op = [i \in Id |-> op[i]]
    /\ \A i \in Id : /\ Good(op[i])
                     /\ ~Nothing(i) => Keeps(op[i])
                     /\ Leftover(i) => Lost(op[i])

\* What an operation answers for, it goes on answering for.
Retains(o, p) == Keeps(o) => Keeps(p) /\ (Lost(o) => Lost(p))

\* The generation of the core belongs to a verb under way, and has no job
\* before it has claimed a download.
CoreType ==
    core \in [gen : Id \cup {NoId}, open : BOOLEAN, claimed : BOOLEAN,
              at : {"up", "page"}, dirty : BOOLEAN, stray : 0..MaxStray]
Generation ==
    core.gen # NoId => /\ op[core.gen].verb \in {"running", "draining", "sealing"}
                       /\ ~core.claimed => op[core.gen].job = "none"

StoreTypes ==
    /\ rec \in [Id -> {"none", "available", "consuming"}]
    /\ bill \subseteq Id /\ healthy \in BOOLEAN

\* Nothing is undecided behind a fence, and a clean sweep left no record.
FenceTypes ==
    /\ closing \in {"no", "swept", "unswept", "ok", "failed"}
    /\ lineage \in {"active", "invalidated"} /\ poisoned \in BOOLEAN
Fences ==
    /\ closing # "no" => \A i \in Id : ~Undecided(op[i])
    /\ closing = "swept" => \A i \in Id : rec[i] = "none"
    /\ lineage = "invalidated" => \A i \in DriveId : ~Undecided(op[i])

\* Only what was published is asked for, and what is served is being consumed.
Serving ==
    \A a \in Ask :
        /\ lease[a].at # "none" => lease[a].id \in Id
        /\ lease[a].id \in Id => op[lease[a].id].at \in {"committed", "none"}
        /\ lease[a].at = "held" => rec[lease[a].id] = "consuming"

\* The permit has one holder; the queue holds those who wait, each once.
LeaseTypes ==
    /\ lease \in [Ask -> [at : {"none", "waiting", "granted", "held"},
                          id : Id \cup {NoId}]]
    /\ queue \in Seq(Ask)
Holds(a) == lease[a].at \in {"granted", "held"}
Permit ==
    /\ \A a, b \in Ask : Holds(a) /\ Holds(b) => a = b
    /\ \A m, n \in 1..Len(queue) : queue[m] = queue[n] => m = n
    /\ \A a \in Ask : lease[a].at = "waiting" <=> \E n \in 1..Len(queue) : queue[n] = a
    /\ queue # <<>> => Busy
Permits == LeaseTypes /\ Permit

StoreInv ==
    /\ Ops /\ StoreTypes /\ FenceTypes /\ Fences
    /\ BillExact /\ InvalidatedLeavesNothing
    /\ Serving /\ Permits
CoreInv == CoreType /\ Generation
ArtifactInv == StoreInv /\ CoreInv

-----------------------------------------------------------------------------
(***************************************************************************)
(* One operation.                                                          *)
(***************************************************************************)

LEMMA NoOpGood == Good(NoOp) /\ NoOp.at = "none" /\ NoOp.verb = "over" /\ NoOp.job = "none"
BY DEF Good, NoOp, OpState, Undecided, Terminal

LEMMA NewGood ==
    LET p == [NoOp EXCEPT !.at = "open", !.verb = "new", !.released = FALSE]
    IN  Good(p) /\ p.at = "open" /\ p.verb = "new" /\ ~p.listed
BY DEF Good, NoOp, OpState, Undecided, Terminal

\* tryRelease takes nothing away that anyone still answers for.
LEMMA Settles ==
    ASSUME NEW o, Good(o)
    PROVE  /\ Good(Settle(o)) /\ (Keeps(o) => Settle(o) = o)
           /\ Settle(o).at \in {o.at, "none"} /\ (Settle(o).listed => o.listed)
           /\ Settle(o).verb = o.verb /\ Settle(o).job \in {o.job, "none"}
           /\ Undecided(o) => Settle(o) = o
<1> DEFINE r == [o EXCEPT !.released = TRUE, !.listed = FALSE]
<1>1. r \in OpState
  BY DEF Good, OpState
<1>2. /\ r.at = o.at /\ r.verb = o.verb /\ r.job = o.job /\ r.cleanup = o.cleanup
      /\ ~r.listed /\ r.released
  BY DEF Good, OpState
<1>3. Releasable(o) => Good(r)
  BY <1>1, <1>2 DEF Good, Releasable, Active, Terminal, Undecided, OpState
<1>4. Settle(o) \in {o, r, NoOp}
      /\ (Settle(o) = o \/ (Releasable(o) /\ Settle(o) = r)
            \/ (Settle(o) = NoOp /\ o.verb = "over" /\ (Releasable(o) \/ o.released)))
  BY <1>2 DEF Settle
<1>5. Keeps(o) => ~Releasable(o) /\ ~o.released
  BY DEF Keeps, Releasable
<1>6. Undecided(o) => ~Releasable(o) /\ ~o.released
  BY DEF Good, Undecided, Releasable, Terminal
<1>7. ~Releasable(o) /\ ~o.released => Settle(o) = o
  BY DEF Settle
<1> HIDE DEF r
<1>8. Good(Settle(o))
  BY <1>3, <1>4, NoOpGood
<1>9. /\ Settle(o).at \in {o.at, "none"} /\ (Settle(o).listed => o.listed)
      /\ Settle(o).verb = o.verb /\ Settle(o).job \in {o.job, "none"}
  BY <1>2, <1>4, NoOpGood DEF NoOp
<1> QED BY <1>5, <1>6, <1>7, <1>8, <1>9

LEMMA OverGood ==
    ASSUME NEW o, Good(o), o.at # "none", NEW x \in {"running", "draining", "over"}
    PROVE  LET p == [o EXCEPT !.verb = x]
           IN  /\ Good(p) /\ Retains(o, p) /\ p.at = o.at /\ p.job = o.job
               /\ p.verb = x /\ p.listed = o.listed
<1> DEFINE p == [o EXCEPT !.verb = x]
<1>1. p \in OpState
  BY DEF Good, OpState
<1>2. /\ p.at = o.at /\ p.verb = x /\ p.job = o.job /\ p.cleanup = o.cleanup
      /\ p.cleanupFailed = o.cleanupFailed /\ p.waiting = o.waiting
      /\ p.refusal = o.refusal /\ p.listed = o.listed /\ p.released = o.released
      /\ p.provisional = o.provisional
  BY DEF Good, OpState
<1> HIDE DEF p
<1>3. Good(p)
  BY <1>1, <1>2 DEF Good, Undecided, Terminal
<1>4. Retains(o, p)
  BY <1>2 DEF Retains, Lost, Keeps, Undecided, Terminal
<1> QED BY <1>2, <1>3, <1>4 DEF p

LEMMA SealGood ==
    ASSUME NEW o, Good(o), o.at = "open"
    PROVE  LET p == [o EXCEPT !.at = "sealing", !.verb = "sealing"]
           IN  /\ Good(p) /\ Retains(o, p) /\ p.at = "sealing"
               /\ p.job = o.job /\ p.verb = "sealing" /\ p.listed = o.listed
<1> DEFINE p == [o EXCEPT !.at = "sealing", !.verb = "sealing"]
<1>1. p \in OpState
  BY DEF Good, OpState
<1>2. /\ p.at = "sealing" /\ p.verb = "sealing" /\ p.job = o.job /\ p.cleanup = o.cleanup
      /\ p.cleanupFailed = o.cleanupFailed /\ p.waiting = o.waiting
      /\ p.refusal = o.refusal /\ p.listed = o.listed /\ p.released = o.released
      /\ p.provisional = o.provisional
  BY DEF Good, OpState
<1> HIDE DEF p
<1>3. Good(p)
  BY <1>1, <1>2 DEF Good, Undecided, Terminal
<1>4. Retains(o, p)
  BY <1>2 DEF Retains, Lost, Keeps, Undecided, Terminal
<1> QED BY <1>2, <1>3, <1>4 DEF p

LEMMA CommitGood ==
    ASSUME NEW o, Good(o), Undecided(o), o.job = "none"
    PROVE  LET over == [o EXCEPT !.verb = "over"]
               p == [over EXCEPT !.at = "committed", !.listed = over.provisional,
                                 !.waiting = over.provisional]
           IN  /\ Good(p) /\ Retains(o, p) /\ p.at = "committed"
               /\ p.job = "none" /\ p.verb = "over"
<1> DEFINE over == [o EXCEPT !.verb = "over"]
           p == [over EXCEPT !.at = "committed", !.listed = over.provisional,
                                 !.waiting = over.provisional]
<1>1. over \in OpState
  BY DEF Good, OpState
<1>2. /\ over.job = o.job /\ over.cleanup = o.cleanup /\ over.verb = "over"
      /\ over.cleanupFailed = o.cleanupFailed
      /\ over.refusal = o.refusal /\ over.released = o.released
      /\ over.provisional = o.provisional
  BY DEF Good, OpState
<1> HIDE DEF over
<1>3. p \in OpState
  BY <1>1 DEF OpState
<1>4. /\ p.at = "committed" /\ p.verb = over.verb /\ p.job = over.job
      /\ p.cleanup = over.cleanup
      /\ p.cleanupFailed = over.cleanupFailed /\ p.waiting = over.provisional
      /\ p.refusal = over.refusal /\ p.released = over.released
  BY <1>1 DEF OpState
<1> HIDE DEF p
<1>5. Good(p)
  BY <1>2, <1>3, <1>4 DEF Good, Undecided, Terminal
<1>6. Retains(o, p)
  BY <1>2, <1>4 DEF Retains, Lost, Keeps, Undecided, Terminal
<1> QED BY <1>2, <1>4, <1>5, <1>6 DEF p, over

\* The job of a decided operation ends.
LEMMA StopGood ==
    ASSUME NEW o, Good(o), Terminal(o)
    PROVE  LET p == [o EXCEPT !.job = "none", !.download = FALSE]
           IN  /\ Good(p) /\ Retains(o, p) /\ p.at = o.at
               /\ p.job = "none" /\ p.verb = o.verb /\ p.listed = o.listed
<1> DEFINE p == [o EXCEPT !.job = "none", !.download = FALSE]
<1>1. p \in OpState
  BY DEF Good, OpState
<1>2. /\ p.at = o.at /\ p.verb = o.verb /\ p.cleanup = o.cleanup
      /\ p.cleanupFailed = o.cleanupFailed /\ p.waiting = o.waiting
      /\ p.refusal = o.refusal /\ p.listed = o.listed
      /\ p.released = o.released /\ p.provisional = o.provisional
      /\ p.job = "none"
  BY DEF Good, OpState
<1> HIDE DEF p
<1>3. Good(p)
  BY <1>1, <1>2 DEF Good, Undecided, Terminal
<1>4. Retains(o, p)
  BY <1>2 DEF Retains, Lost, Keeps, Undecided, Terminal
<1> QED BY <1>2, <1>3, <1>4 DEF p

\* The job of an undecided one fails.
LEMMA JobEnds ==
    ASSUME NEW o, Good(o), Undecided(o)
    PROVE  LET p == [o EXCEPT !.job = "none"]
           IN  /\ Good(p) /\ p.at = o.at /\ p.job = "none"
               /\ p.verb = o.verb /\ p.listed = o.listed
<1> DEFINE p == [o EXCEPT !.job = "none"]
<1>1. p \in OpState
  BY DEF Good, OpState
<1>2. /\ p.at = o.at /\ p.verb = o.verb /\ p.cleanup = o.cleanup
      /\ p.cleanupFailed = o.cleanupFailed /\ p.waiting = o.waiting
      /\ p.refusal = o.refusal /\ p.listed = o.listed
      /\ p.released = o.released /\ p.provisional = o.provisional
      /\ p.job = "none"
  BY DEF Good, OpState
<1> HIDE DEF p
<1>3. Good(p)
  BY <1>1, <1>2 DEF Good, Undecided, Terminal
<1> QED BY <1>2, <1>3 DEF p

\* The store has answered the job.
LEMMA CaptureGood ==
    ASSUME NEW o, Good(o), Undecided(o), o.verb # "new",
           NEW x \in {"stored", "refused"}
    PROVE  LET p == [o EXCEPT !.job = x]
           IN  /\ Good(p) /\ Keeps(p) /\ (x = "refused" => Lost(p)) /\ p.at = o.at
               /\ p.job = x /\ p.verb = o.verb /\ p.listed = o.listed
<1> DEFINE p == [o EXCEPT !.job = x]
<1>1. p \in OpState
  BY DEF Good, OpState
<1>2. /\ p.at = o.at /\ p.verb = o.verb /\ p.cleanup = o.cleanup
      /\ p.cleanupFailed = o.cleanupFailed /\ p.waiting = o.waiting
      /\ p.refusal = o.refusal /\ p.listed = o.listed
      /\ p.released = o.released /\ p.provisional = o.provisional /\ p.job = x
  BY DEF Good, OpState
<1> HIDE DEF p
<1>3. Good(p)
  BY <1>1, <1>2 DEF Good, Undecided, Terminal
<1>4. Keeps(p) /\ (x = "refused" => Lost(p))
  BY <1>2 DEF Keeps, Lost, Undecided, Terminal, Good
<1> QED BY <1>2, <1>3, <1>4 DEF p

\* The operation takes its download.
LEMMA ClaimGood ==
    ASSUME NEW o, Good(o), o.at = "open", o.job = "none", o.verb # "new"
    PROVE  LET p == [o EXCEPT !.job = "staging", !.download = TRUE]
           IN  /\ Good(p) /\ Retains(o, p) /\ p.at = o.at
               /\ p.job = "staging" /\ p.verb = o.verb /\ p.listed = o.listed
<1> DEFINE p == [o EXCEPT !.job = "staging", !.download = TRUE]
<1>1. p \in OpState
  BY DEF Good, OpState
<1>2. /\ p.at = o.at /\ p.verb = o.verb /\ p.cleanup = o.cleanup
      /\ p.cleanupFailed = o.cleanupFailed /\ p.waiting = o.waiting
      /\ p.refusal = o.refusal /\ p.listed = o.listed
      /\ p.released = o.released /\ p.provisional = o.provisional
      /\ p.job = "staging"
  BY DEF Good, OpState
<1> HIDE DEF p
<1>3. Good(p)
  BY <1>1, <1>2 DEF Good, Undecided, Terminal
<1>4. Retains(o, p)
  BY <1>2 DEF Retains, Lost, Keeps, Undecided, Terminal
<1> QED BY <1>2, <1>3, <1>4 DEF p

\* The driver's copy is deleted, or cannot be.
LEMMA CleanGood ==
    ASSUME NEW o, Good(o), o.cleanup = "running", NEW x \in {"idle", "failed"}
    PROVE  LET p == [o EXCEPT !.cleanup = x]
           IN  /\ Good(p) /\ Retains(o, p) /\ p.at = o.at
               /\ p.job = o.job /\ p.verb = o.verb /\ p.listed = o.listed
<1> DEFINE p == [o EXCEPT !.cleanup = x]
<1>1. p \in OpState
  BY DEF Good, OpState
<1>2. /\ p.at = o.at /\ p.verb = o.verb /\ p.job = o.job
      /\ p.cleanupFailed = o.cleanupFailed /\ p.waiting = o.waiting
      /\ p.refusal = o.refusal /\ p.listed = o.listed
      /\ p.released = o.released /\ p.provisional = o.provisional
      /\ p.cleanup = x
  BY DEF Good, OpState
<1> HIDE DEF p
<1>3. Good(p)
  BY <1>1, <1>2 DEF Good, Undecided, Terminal, NoOp
<1>4. Retains(o, p)
  BY <1>2 DEF Retains, Lost, Keeps, Undecided, Terminal
<1> QED BY <1>2, <1>3, <1>4 DEF p

\* The deletion of what was published is noted.
LEMMA NoteGood ==
    ASSUME NEW o, Good(o), o.waiting
    PROVE  LET p == [o EXCEPT !.waiting = FALSE, !.refusal = FALSE]
           IN  /\ Good(p) /\ p.at = o.at /\ p.job = o.job
               /\ p.verb = o.verb /\ p.listed = o.listed
<1> DEFINE p == [o EXCEPT !.waiting = FALSE, !.refusal = FALSE]
<1>1. p \in OpState
  BY DEF Good, OpState
<1>2. /\ p.at = o.at /\ p.verb = o.verb /\ p.job = o.job
      /\ p.cleanup = o.cleanup /\ p.cleanupFailed = o.cleanupFailed
      /\ p.listed = o.listed /\ p.released = o.released
      /\ p.provisional = o.provisional /\ p.waiting = FALSE
      /\ p.refusal = FALSE
  BY DEF Good, OpState
<1> HIDE DEF p
<1>3. Good(p)
  BY <1>1, <1>2 DEF Good, Undecided, Terminal, NoOp
<1> QED BY <1>2, <1>3 DEF p

\* A sweep has the operation wait for its result.
LEMMA SweptGood ==
    ASSUME NEW o, Good(o), o.waiting
    PROVE  LET p == [o EXCEPT !.waiting = FALSE, !.refusal = TRUE]
           IN  /\ Good(p) /\ p.at = o.at /\ p.job = o.job
               /\ p.verb = o.verb /\ p.listed = o.listed
<1> DEFINE p == [o EXCEPT !.waiting = FALSE, !.refusal = TRUE]
<1>1. p \in OpState
  BY DEF Good, OpState
<1>2. /\ p.at = o.at /\ p.verb = o.verb /\ p.job = o.job
      /\ p.cleanup = o.cleanup /\ p.cleanupFailed = o.cleanupFailed
      /\ p.listed = o.listed /\ p.released = o.released
      /\ p.provisional = o.provisional /\ p.waiting = FALSE
      /\ p.refusal = TRUE
  BY DEF Good, OpState
<1> HIDE DEF p
<1>3. Good(p)
  BY <1>1, <1>2 DEF Good, Undecided, Terminal, NoOp
<1> QED BY <1>2, <1>3 DEF p

\* The result of the sweep, which was a success or not.
LEMMA ToldGood ==
    ASSUME NEW o, Good(o), o.refusal, NEW f \in BOOLEAN
    PROVE  LET p == [o EXCEPT !.refusal = FALSE,
                         !.cleanupFailed = @ \/ f, !.waiting = @ /\ f]
           IN  /\ Good(p) /\ (Keeps(o) /\ (o.cleanupFailed \/ f) => Keeps(p) /\ Lost(p))
               /\ p.at = o.at
               /\ p.job = o.job /\ p.verb = o.verb /\ p.listed = o.listed
<1> DEFINE p == [o EXCEPT !.refusal = FALSE,
                         !.cleanupFailed = @ \/ f, !.waiting = @ /\ f]
<1>1. p \in OpState
  BY DEF Good, OpState
<1>2. /\ p.at = o.at /\ p.verb = o.verb /\ p.job = o.job
      /\ p.cleanup = o.cleanup /\ p.listed = o.listed
      /\ p.released = o.released /\ p.provisional = o.provisional
      /\ p.refusal = FALSE /\ p.cleanupFailed = (o.cleanupFailed \/ f)
      /\ p.waiting = (o.waiting /\ f)
  BY DEF Good, OpState
<1> HIDE DEF p
<1>3. Good(p)
  BY <1>1, <1>2 DEF Good, Undecided, Terminal, NoOp
<1>4. Keeps(o) /\ (o.cleanupFailed \/ f) => Keeps(p) /\ Lost(p)
  BY <1>2 DEF Keeps, Lost, Undecided, Terminal
<1> QED BY <1>2, <1>3, <1>4 DEF p

\* A job that comes too late ends, and may have more to wait for.
Late(o, w, c) == [JobOver(o) EXCEPT !.waiting = @ \/ w, !.refusal = @ \/ w,
                                    !.cleanupFailed = @ \/ c]

LEMMA LateGood ==
    ASSUME NEW o, Good(o), Terminal(o), NEW w \in BOOLEAN, NEW c \in BOOLEAN
    PROVE  /\ Good(Late(o, w, c)) /\ Retains(o, Late(o, w, c))
           /\ Late(o, w, c).at = o.at /\ Late(o, w, c).job = "none"
           /\ Late(o, w, c).verb = o.verb /\ Late(o, w, c).listed = o.listed
<1> DEFINE q == JobOver(o)
           p == Late(o, w, c)
<1>1. q \in OpState
  BY DEF Good, OpState, JobOver
<1>2. /\ q.at = o.at /\ q.verb = o.verb /\ q.job = "none" /\ q.cleanup = o.cleanup
      /\ q.cleanupFailed = o.cleanupFailed /\ q.waiting = o.waiting
      /\ q.refusal = o.refusal /\ q.listed = o.listed /\ q.released = o.released
  BY DEF Good, OpState, JobOver
<1>a. p = [q EXCEPT !.waiting = @ \/ w, !.refusal = @ \/ w, !.cleanupFailed = @ \/ c]
  BY DEF Late
<1> HIDE DEF q, p
<1>b. [q EXCEPT !.waiting = @ \/ w, !.refusal = @ \/ w, !.cleanupFailed = @ \/ c]
         \in OpState
  BY <1>1 DEF OpState
<1>3. p \in OpState
  BY <1>a, <1>b
<1>4. /\ p.at = q.at /\ p.verb = q.verb /\ p.job = q.job /\ p.cleanup = q.cleanup
      /\ p.cleanupFailed = (q.cleanupFailed \/ c) /\ p.waiting = (q.waiting \/ w)
      /\ p.listed = q.listed /\ p.released = q.released
  BY <1>1, <1>a DEF OpState
<1>5. Good(p)
  BY <1>2, <1>3, <1>4 DEF Good, Undecided, Terminal
<1>6. Retains(o, p)
  BY <1>2, <1>4 DEF Good, Retains, Lost, Keeps, Undecided, Terminal
<1> QED BY <1>2, <1>4, <1>5, <1>6 DEF p

\* The job of an undecided operation has staged its copy.
LEMMA StagedGood ==
    ASSUME NEW o, Good(o), Undecided(o), o.verb # "new"
    PROVE  LET p == [JobOver(o) EXCEPT !.provisional = TRUE]
           IN  /\ Good(p) /\ Keeps(p) /\ (o.job = "stored" => Retains(o, p)) /\ p.at = o.at
               /\ p.job = "none" /\ p.verb = o.verb /\ p.listed = o.listed
<1> DEFINE q == JobOver(o)
           p == [q EXCEPT !.provisional = TRUE]
<1>1. q \in OpState
  BY DEF Good, OpState, JobOver
<1>2. /\ q.at = o.at /\ q.verb = o.verb /\ q.job = "none" /\ q.cleanup = o.cleanup
      /\ q.cleanupFailed = o.cleanupFailed /\ q.waiting = o.waiting
      /\ q.refusal = o.refusal /\ q.listed = o.listed /\ q.released = o.released
  BY DEF Good, OpState, JobOver
<1> HIDE DEF q
<1>3. p \in OpState
  BY <1>1 DEF OpState
<1>4. /\ p.at = q.at /\ p.verb = q.verb /\ p.job = q.job /\ p.cleanup = q.cleanup
      /\ p.cleanupFailed = q.cleanupFailed /\ p.waiting = q.waiting
      /\ p.refusal = q.refusal /\ p.listed = q.listed /\ p.released = q.released
      /\ p.provisional = TRUE
  BY <1>1 DEF OpState
<1> HIDE DEF p
<1>5. Good(p)
  BY <1>2, <1>3, <1>4 DEF Good, Undecided, Terminal
<1>6. Keeps(p)
  BY <1>2, <1>4 DEF Good, Keeps, Undecided, Terminal
<1>7. o.job = "stored" => ~Lost(o)
  BY DEF Lost, Good
<1> QED BY <1>2, <1>4, <1>5, <1>6, <1>7 DEF p, q, Retains

\* What invalidate() makes of an undecided operation, k: its bytes stayed.
LEMMA InvalidatedGood ==
    ASSUME NEW o, Good(o), Undecided(o), NEW k \in BOOLEAN
    PROVE  LET p == [Invalidated(o) EXCEPT !.cleanupFailed = @ \/ k]
           IN  /\ Good(p) /\ (k => Keeps(p) /\ Lost(p)) /\ p.at = "invalidated"
               /\ p.job = o.job /\ p.verb = o.verb /\ ~p.listed
<1> DEFINE q == Invalidated(o)
           p == [q EXCEPT !.cleanupFailed = @ \/ k]
           c == IF o.download /\ o.cleanup = "idle" THEN "running" ELSE o.cleanup
<1>0. c \in {"idle", "running", "failed"}
  BY DEF Good, OpState
<1>a. q = [o EXCEPT !.at = "invalidated", !.provisional = FALSE,
                    !.cleanup = c, !.download = FALSE]
  BY DEF Invalidated
<1> HIDE DEF c, q
<1>1. q \in OpState
  BY <1>0, <1>a DEF Good, OpState
<1>2. /\ q.at = "invalidated" /\ q.verb = o.verb /\ q.job = o.job
      /\ q.cleanupFailed = o.cleanupFailed /\ q.waiting = o.waiting
      /\ q.refusal = o.refusal /\ q.listed = o.listed /\ q.released = o.released
  BY <1>a DEF Good, OpState
<1>3. p \in OpState
  BY <1>1 DEF OpState
<1>4. /\ p.at = q.at /\ p.verb = q.verb /\ p.job = q.job
      /\ p.cleanupFailed = (q.cleanupFailed \/ k) /\ p.waiting = q.waiting
      /\ p.refusal = q.refusal /\ p.listed = q.listed /\ p.released = q.released
  BY <1>1 DEF OpState
<1> HIDE DEF p
<1>5. Good(p) /\ ~p.listed
  BY <1>2, <1>3, <1>4 DEF Good, Undecided, Terminal
<1>6. k => Keeps(p) /\ Lost(p)
  BY <1>2, <1>4 DEF Good, Keeps, Lost, Undecided, Terminal
<1> QED BY <1>2, <1>4, <1>5, <1>6 DEF p, q

\* What artifactDiscarded makes of an operation.
LEMMA NotedGood ==
    ASSUME NEW o, Good(o)
    PROVE  /\ Good(Noted(o)) /\ Noted(o).at \in {o.at, "none"}
           /\ Noted(o).verb = o.verb /\ Noted(o).job \in {o.job, "none"}
           /\ (Noted(o).listed => o.listed) /\ (Undecided(o) => Noted(o) = o)
<1> DEFINE p == [o EXCEPT !.waiting = FALSE, !.refusal = FALSE]
<1>1. CASE o.waiting /\ o.cleanup # "failed"
  <2>1. /\ Good(p) /\ p.at = o.at /\ p.job = o.job /\ p.verb = o.verb
        /\ p.listed = o.listed
    BY <1>1, NoteGood
  <2>2. Noted(o) = Settle(p) /\ ~Undecided(o)
    BY <1>1 DEF Noted, Good
  <2> HIDE DEF p
  <2> QED BY <2>1, <2>2, Settles
<1>2. CASE ~(o.waiting /\ o.cleanup # "failed")
  <2>1. Noted(o) = o
    BY <1>2 DEF Noted
  <2> QED BY <2>1
<1> QED BY <1>1, <1>2

-----------------------------------------------------------------------------
(***************************************************************************)
(* The response permit.                                                    *)
(***************************************************************************)
LEMMA PermitsKept ==
    ASSUME Permits, UNCHANGED permits
    PROVE  Permits'
BY DEF Permits, LeaseTypes, Permit, permits, Busy, Holds

LEMMA NoLeaseType == NoLease.at = "none" /\ NoLease.id = NoId
BY DEF NoLease

LEMMA NoLeaseIn ==
    NoLease \in [at : {"none", "waiting", "granted", "held"}, id : Id \cup {NoId}]
BY DEF NoLease

\* The holder's lease is void, the waiters are refused.
LEMMA PermitsVoid ==
    ASSUME Permits, VoidLeases
    PROVE  Permits'
<1> USE DEF Permits
<1>1. LeaseTypes'
  BY NoLeaseIn DEF LeaseTypes, VoidLeases
<1>2. \A a \in Ask : /\ lease'[a].at # "waiting"
                     /\ lease'[a].at \in {"granted", "held"} => lease'[a] = lease[a]
  BY NoLeaseType DEF LeaseTypes, VoidLeases
<1>3. queue' = <<>> /\ Len(queue') = 0
  BY DEF VoidLeases
<1>4. Permit'
  BY <1>2, <1>3 DEF Permit, Holds
<1> QED BY <1>1, <1>4

\* One more waits, behind a holder.
LEMMA PermitsWait ==
    ASSUME Permits, NEW a \in Ask, NEW i \in Id, lease[a].at = "none", Busy,
           lease' = [lease EXCEPT ![a] = [at |-> "waiting", id |-> i]],
           queue' = Append(queue, a)
    PROVE  Permits'
<1> USE DEF Permits
<1>1. LeaseTypes'
  BY DEF LeaseTypes
<1>2. /\ lease'[a].at = "waiting"
      /\ \A b \in Ask : b # a => lease'[b] = lease[b]
  BY DEF LeaseTypes
<1>3. /\ Len(queue') = Len(queue) + 1 /\ queue'[Len(queue) + 1] = a
      /\ \A n \in 1..Len(queue) : queue'[n] = queue[n]
      /\ Len(queue) \in Nat
  BY DEF LeaseTypes
<1>4. \A n \in 1..Len(queue) : queue[n] # a
  BY DEF Permit
<1>5. \A b, c \in Ask : (Holds(b) /\ Holds(c))' => b = c
  BY <1>2 DEF Permit, Holds
<1>6. \A m, n \in 1..Len(queue') : queue'[m] = queue'[n] => m = n
  BY <1>3, <1>4 DEF Permit
<1>7. ASSUME NEW b \in Ask
      PROVE  lease'[b].at = "waiting" <=> \E n \in 1..Len(queue') : queue'[n] = b
  <2>1. CASE b = a
    BY <1>2, <1>3, <2>1
  <2>2. CASE b # a
    <3>1. lease'[b].at = "waiting" <=> \E n \in 1..Len(queue) : queue[n] = b
      BY <1>2, <2>2 DEF Permit
    <3>2. (\E n \in 1..Len(queue) : queue[n] = b)
             <=> \E n \in 1..Len(queue') : queue'[n] = b
      BY <1>3, <2>2
    <3> QED BY <3>1, <3>2
  <2> QED BY <2>1, <2>2
<1>8. Busy'
  <2>1. PICK b \in Ask : lease[b].at \in {"granted", "held"}
    BY DEF Busy
  <2>2. lease'[b].at \in {"granted", "held"}
    BY <1>2, <2>1
  <2> QED BY <2>2 DEF Busy
<1>9. Permit'
  BY <1>5, <1>6, <1>7, <1>8 DEF Permit
<1> QED BY <1>1, <1>9

\* One that has the permit, or finds it free, holds a record.
LEMMA PermitsHold ==
    ASSUME Permits, NEW a \in Ask, NEW i \in Id,
           lease[a].at = "granted" \/ (lease[a].at = "none" /\ ~Busy),
           lease' = [lease EXCEPT ![a] = [at |-> "held", id |-> i]], queue' = queue
    PROVE  Permits'
<1> USE DEF Permits
<1>1. LeaseTypes'
  BY DEF LeaseTypes
<1>2. /\ lease'[a].at = "held"
      /\ \A b \in Ask : b # a => lease'[b] = lease[b]
  BY DEF LeaseTypes
<1>3. \A b \in Ask : Holds(b) => b = a
  BY DEF Permit, Holds, Busy
<1>4. \A b, c \in Ask : (Holds(b) /\ Holds(c))' => b = c
  BY <1>2, <1>3 DEF Holds
<1>5. \A b \in Ask : lease'[b].at = "waiting" <=> lease[b].at = "waiting"
  BY <1>2
<1>6. Busy'
  BY <1>2 DEF Busy
<1>7. Permit'
  BY <1>4, <1>5, <1>6 DEF Permit
<1> QED BY <1>1, <1>7

\* One that has the permit, or found it free, gives it to the first who waits.
LEMMA PermitsPass ==
    ASSUME Permits, NEW a \in Ask,
           Holds(a) \/ (lease[a].at = "none" /\ ~Busy), PassOn(a)
    PROVE  Permits'
<1> USE DEF Permits
<1> DEFINE l == [lease EXCEPT ![a] = NoLease]
<1>1. /\ l \in [Ask -> [at : {"none", "waiting", "granted", "held"},
                        id : Id \cup {NoId}]]
      /\ l[a].at = "none" /\ \A b \in Ask : b # a => l[b] = lease[b]
  BY NoLeaseIn, NoLeaseType DEF LeaseTypes
<1>2. \A b \in Ask : l[b].at \notin {"granted", "held"}
  BY <1>1 DEF Permit, Holds, Busy
<1>3. \A b \in Ask : l[b].at = "waiting" <=> lease[b].at = "waiting"
  BY <1>1 DEF Holds
<1>4. CASE queue = <<>>
  <2>1. lease' = l /\ queue' = queue
    BY <1>4 DEF PassOn
  <2> HIDE DEF l
  <2>2. LeaseTypes'
    BY <1>1, <2>1 DEF LeaseTypes
  <2> QED BY <1>2, <1>3, <1>4, <2>1, <2>2 DEF Permit, Holds
<1>5. CASE queue # <<>>
  <2> DEFINE h == Head(queue)
  <2>1. lease' = [l EXCEPT ![h].at = "granted"] /\ queue' = Tail(queue)
    BY <1>5 DEF PassOn
  <2>2. /\ h = queue[1] /\ h \in Ask /\ Len(queue) \in Nat /\ Len(queue) >= 1
        /\ queue' \in Seq(Ask) /\ Len(queue') = Len(queue) - 1
        /\ \A n \in 1..Len(queue') : queue'[n] = queue[n + 1]
    BY <1>5, <2>1 DEF LeaseTypes
  <2> HIDE DEF l, h
  <2>3. /\ lease'[h].at = "granted" /\ lease'[h].id = l[h].id
        /\ \A b \in Ask : b # h => lease'[b] = l[b]
        /\ lease' \in [Ask -> [at : {"none", "waiting", "granted", "held"},
                               id : Id \cup {NoId}]]
    BY <1>1, <2>1, <2>2
  <2>4. LeaseTypes'
    BY <2>2, <2>3 DEF LeaseTypes
  <2>5. \A b, c \in Ask : (Holds(b) /\ Holds(c))' => b = c
    BY <1>2, <2>3 DEF Holds
  <2>6. \A m, n \in 1..Len(queue') : queue'[m] = queue'[n] => m = n
    BY <2>2 DEF Permit
  <2>7. ASSUME NEW b \in Ask
        PROVE  lease'[b].at = "waiting" <=> \E n \in 1..Len(queue') : queue'[n] = b
    <3>1. CASE b = h
      <4>1. \A n \in 1..Len(queue') : queue'[n] # h
        BY <2>2 DEF Permit
      <4> QED BY <2>3, <3>1, <4>1
    <3>2. CASE b # h
      <4>1. lease'[b].at = "waiting" <=> \E n \in 1..Len(queue) : queue[n] = b
        BY <1>3, <2>3, <3>2 DEF Permit
      <4>2. ASSUME NEW n \in 1..Len(queue), queue[n] = b
            PROVE  \E m \in 1..Len(queue') : queue'[m] = b
        <5>1. n # 1
          BY <2>2, <3>2, <4>2
        <5>2. n - 1 \in 1..Len(queue') /\ queue'[n - 1] = b
          BY <2>2, <4>2, <5>1
        <5> QED BY <5>2
      <4>3. ASSUME NEW m \in 1..Len(queue'), queue'[m] = b
            PROVE  \E n \in 1..Len(queue) : queue[n] = b
        BY <2>2, <4>3
      <4> QED BY <4>1, <4>2, <4>3
    <3> QED BY <3>1, <3>2
  <2>8. Busy'
    BY <2>2, <2>3 DEF Busy
  <2>9. Permit'
    BY <2>5, <2>6, <2>7, <2>8 DEF Permit
  <2> QED BY <2>4, <2>9
<1> QED BY <1>4, <1>5

-----------------------------------------------------------------------------
(***************************************************************************)
(* Steps that discard from the store.  All but the ones that capture or    *)
(* serve a record are of this form, most of them with nothing to discard.  *)
(***************************************************************************)

\* How the operations may change meanwhile: nothing becomes undecided, only what
\* is discarded is invalidated, and what stays in the store is answered for.
Follows(S, K) ==
    /\ op' = [j \in Id |-> op'[j]]
    /\ \A i \in Id : /\ Good(op'[i])
                     /\ Undecided(op'[i]) => Undecided(op[i])
                     /\ op'[i].at = "invalidated" => op[i].at = "invalidated" \/ i \in S
                     /\ op[i].at \in {"committed", "none"} => op'[i].at \in {"committed", "none"}
    /\ \A i \in Id : i \notin S \/ i \in K => (~Nothing(i) => Keeps(op'[i]))
    /\ \A i \in Id : i \notin S \/ i \in K => (Leftover(i) => Lost(op'[i]))

\* The two fences as they are, or a later one that finds nothing undecided.
FencesFollow ==
    /\ FenceTypes'
    /\ closing' # "no" => closing # "no"
    /\ closing' = "swept" => closing = "swept"
    /\ lineage' = lineage \/ \A i \in DriveId : ~Undecided(op'[i])

LEMMA Unfenced ==
    ASSUME FenceTypes, UNCHANGED <<closing, lineage>>, poisoned' \in BOOLEAN
    PROVE  FencesFollow
BY DEF FenceTypes, FencesFollow

LEMMA DiscardStep ==
    ASSUME StoreInv, NEW S \in SUBSET Id, NEW K, Discard(S, K), Follows(S, K),
           FencesFollow,
           K = {} => \A a \in Ask : lease[a].at = "held" => lease[a].id \notin S
    PROVE  StoreInv'
<1> USE DEF StoreInv
<1>1. /\ DOMAIN rec' = Id
      /\ \A i \in Id : rec'[i] = IF i \in S /\ i \notin K THEN "none" ELSE rec[i]
  BY DEF Discard, StoreTypes
<1>2. \A i \in Id : i \in bill' <=> i \in bill /\ ~(i \in S /\ i \notin K)
  BY DEF Discard
<1>3. /\ rec' = [i \in Id |-> rec'[i]] /\ bill' \subseteq Id
      /\ healthy' \in BOOLEAN /\ (healthy' => healthy) /\ (K # {} => ~healthy')
  BY DEF Discard, StoreTypes
<1>4. StoreTypes'
  BY <1>1, <1>3 DEF StoreTypes
<1>5. ASSUME NEW i \in Id
      PROVE  /\ i \in S /\ i \notin K => Nothing(i)'
             /\ i \notin S \/ i \in K => (Nothing(i)' <=> Nothing(i))
             /\ Nothing(i) => Nothing(i)'
             /\ Leftover(i)' => Leftover(i) /\ (i \notin S \/ i \in K)
  BY <1>1, <1>2 DEF Nothing, Leftover
<1>6. Ops'
  BY <1>5 DEF Ops, Follows
<1>7. Fences'
  <2>1. closing' # "no" => \A i \in Id : ~Undecided(op'[i])
    BY DEF Fences, FencesFollow, Follows
  <2>2. closing' = "swept" => \A i \in Id : rec'[i] = "none"
    BY <1>1 DEF Fences, FencesFollow
  <2>3. lineage' = "invalidated" => \A i \in DriveId : ~Undecided(op'[i])
    BY ArtifactAssumption DEF Fences, FencesFollow, Follows
  <2> QED BY <2>1, <2>2, <2>3 DEF Fences
<1>8. BillExact'
  <2>1. \A i \in Id : rec'[i] # "none" => i \in bill'
    BY <1>1, <1>2 DEF BillExact
  <2>2. ASSUME healthy' PROVE bill' = {i \in Id : rec'[i] # "none"}
    <3>1. healthy /\ K = {} /\ bill = {i \in Id : rec[i] # "none"}
      BY <1>3, <2>2 DEF BillExact
    <3>2. \A i \in Id : i \in bill' <=> rec'[i] # "none"
      BY <1>1, <1>2, <3>1
    <3> QED BY <1>3, <3>2
  <2> QED BY <2>1, <2>2 DEF BillExact
<1>9. InvalidatedLeavesNothing'
  BY <1>1, <1>3 DEF InvalidatedLeavesNothing, Follows
<1>10. CASE K = {}
  <2>1. UNCHANGED permits
    BY <1>10 DEF Discard
  <2>2. Permits'
    BY <2>1, PermitsKept
  <2>3. lease' = lease
    BY <2>1 DEF permits
  <2>4. Serving'
    BY <1>1, <1>10, <2>3 DEF Serving, Follows
  <2> QED BY <1>4, <1>6, <1>7, <1>8, <1>9, <2>2, <2>4 DEF FencesFollow
<1>11. CASE K # {}
  <2>1. VoidLeases
    BY <1>11 DEF Discard
  <2>2. Permits'
    BY <2>1, PermitsVoid
  <2>3. \A a \in Ask : lease'[a] = NoLease
                         \/ (lease'[a] = lease[a] /\ lease[a].at # "held")
    BY <2>1 DEF VoidLeases
  <2>4. Serving'
    BY <2>3, NoLeaseType, ArtifactAssumption DEF Serving, Follows
  <2> QED BY <1>4, <1>6, <1>7, <1>8, <1>9, <2>2, <2>4 DEF FencesFollow
<1> QED BY <1>10, <1>11

\* Nothing is discarded.
LEMMA StoreKept ==
    ASSUME StoreInv, UNCHANGED <<store, permits>>, Follows({}, {}), FencesFollow
    PROVE  StoreInv'
<1>1. rec' = rec /\ bill' = bill /\ healthy' = healthy
  BY DEF store
<1>2. rec = [i \in Id |-> rec[i]]
  BY DEF StoreInv, StoreTypes
<1>3. rec' = [i \in Id |-> IF i \in {} \ {} THEN "none" ELSE rec[i]]
  BY <1>1, <1>2
<1>4. bill' = bill \ ({} \ {})
  BY <1>1
<1>5. Discard({}, {})
  BY <1>1, <1>3, <1>4 DEF Discard
<1> QED BY <1>5, DiscardStep

\* Only an operation that was undecided is published.
Published == \A i \in Id : op'[i].listed => op[i].listed \/ Undecided(op[i])

\* One operation moves, and leaves the store alone.
Moves(o, p) ==
    /\ Good(p) /\ Retains(o, p)
    /\ Undecided(p) => Undecided(o)
    /\ p.at = "invalidated" => o.at = "invalidated"
    /\ o.at \in {"committed", "none"} => p.at \in {"committed", "none"}
    /\ p.listed => o.listed \/ Undecided(o)

LEMMA OpMoves ==
    ASSUME StoreInv, NEW i \in Id, NEW p, Moves(op[i], p),
           op' = [op EXCEPT ![i] = p], UNCHANGED <<store, permits>>, FencesFollow
    PROVE  StoreInv' /\ Published
<1>1. op'[i] = p /\ op' = [j \in Id |-> op'[j]] /\ \A j \in Id : j # i => op'[j] = op[j]
  BY DEF StoreInv, Ops
<1>2. Follows({}, {})
  BY <1>1 DEF Follows, StoreInv, Ops, Moves, Retains, Leftover, Nothing
<1> QED BY <1>1, <1>2, StoreKept DEF Published, Moves, Retains

LEMMA StillMoves ==
    ASSUME NEW o, Good(o)
    PROVE  Moves(o, o)
BY DEF Moves, Retains

LEMMA SettledMoves ==
    ASSUME NEW o, NEW q, Moves(o, q)
    PROVE  /\ Moves(o, Settle(q))
           /\ Settle(q).verb = q.verb /\ Settle(q).job \in {q.job, "none"}
<1>1. Good(q)
  BY DEF Moves, Retains
<1>2. /\ Good(Settle(q)) /\ (Keeps(q) => Settle(q) = q)
      /\ Settle(q).at \in {q.at, "none"} /\ (Settle(q).listed => q.listed)
      /\ Settle(q).verb = q.verb /\ Settle(q).job \in {q.job, "none"}
  BY <1>1, Settles
<1> QED BY <1>2 DEF Moves, Retains, Undecided

\* The verb and the job of an operation, as far as the core's generation
\* depends on them.
Runs(o, p) == p.verb = o.verb /\ p.job \in {o.job, "none"}

LEMMA GenerationKept ==
    ASSUME CoreInv, UNCHANGED core, \A i \in Id : Runs(op[i], op'[i])
    PROVE  CoreInv'
<1>1. core.gen \in Id \cup {NoId}
  BY DEF CoreInv, CoreType
<1> QED BY <1>1 DEF CoreInv, CoreType, Generation, Runs

LEMMA GenerationGone ==
    ASSUME CoreType', core'.gen = NoId
    PROVE  CoreInv'
BY DEF CoreInv, Generation

\* One operation moves under an unchanged core.
LEMMA QuietOp ==
    ASSUME ArtifactInv, NEW i \in Id, NEW p, Moves(op[i], p), Runs(op[i], p),
           op' = [op EXCEPT ![i] = p], UNCHANGED <<store, permits, core>>, FencesFollow
    PROVE  ArtifactInv' /\ Published
<1>1. StoreInv' /\ Published
  BY OpMoves DEF ArtifactInv
<1>2. \A j \in Id : Runs(op[j], op'[j])
  BY DEF Runs, ArtifactInv, StoreInv, Ops
<1>3. CoreInv'
  BY <1>2, GenerationKept DEF ArtifactInv
<1> QED BY <1>1, <1>3 DEF ArtifactInv

\* What invalidate() does to the operations.
LEMMA InvalidateOps ==
    ASSUME NEW S \in SUBSET Id, NEW K, NEW o, Invalidate(o, S, K),
           \A i \in S : Good(o[i]) /\ Undecided(o[i])
    PROVE  /\ \A i \in Id \ S : op'[i] = o[i]
           /\ \A i \in S : /\ Good(op'[i]) /\ op'[i].at \in {"invalidated", "none"}
                           /\ Runs(o[i], op'[i]) /\ ~op'[i].listed
                           /\ i \in K => Keeps(op'[i]) /\ Lost(op'[i])
<1>1. \A i \in Id \ S : op'[i] = o[i]
  BY DEF Invalidate
<1>2. ASSUME NEW i \in S
      PROVE  /\ Good(op'[i]) /\ op'[i].at \in {"invalidated", "none"}
             /\ Runs(o[i], op'[i]) /\ ~op'[i].listed
             /\ i \in K => Keeps(op'[i]) /\ Lost(op'[i])
  <2> DEFINE k == i \in K
             p == [Invalidated(o[i]) EXCEPT !.cleanupFailed = @ \/ k]
  <2>1. op'[i] = Settle(p)
    BY <1>2 DEF Invalidate
  <2>2. k \in BOOLEAN
    OBVIOUS
  <2>3. /\ Good(p) /\ (k => Keeps(p) /\ Lost(p)) /\ p.at = "invalidated"
        /\ p.job = o[i].job /\ p.verb = o[i].verb /\ ~p.listed
    <3> HIDE DEF k
    <3> QED BY <1>2, <2>2, InvalidatedGood
  <2> HIDE DEF p
  <2>4. /\ Good(Settle(p)) /\ (Keeps(p) => Settle(p) = p)
        /\ Settle(p).at \in {p.at, "none"} /\ (Settle(p).listed => p.listed)
        /\ Settle(p).verb = p.verb /\ Settle(p).job \in {p.job, "none"}
    BY <2>3, Settles
  <2> QED BY <2>1, <2>3, <2>4 DEF Runs
<1> QED BY <1>1, <1>2

\* Undecided operations are invalidated, on top of moves of the others.
LEMMA InvalidateStep ==
    ASSUME StoreInv, NEW S \in SUBSET Id, NEW K, NEW o, Invalidate(o, S, K),
           \A i \in S : Good(o[i]) /\ Undecided(o[i]) /\ Undecided(op[i]),
           \A i \in Id \ S : Moves(op[i], o[i]), FencesFollow
    PROVE  StoreInv' /\ Published
<1>0. op' = [j \in Id |-> op'[j]]
  BY DEF Invalidate
<1>1. /\ \A i \in Id \ S : op'[i] = o[i]
      /\ \A i \in S : /\ Good(op'[i]) /\ op'[i].at \in {"invalidated", "none"}
                      /\ Runs(o[i], op'[i]) /\ ~op'[i].listed
                      /\ i \in K => Keeps(op'[i]) /\ Lost(op'[i])
  BY InvalidateOps
<1>2. \A i \in Id : /\ Good(op'[i])
                    /\ Undecided(op'[i]) => Undecided(op[i])
                    /\ op'[i].at = "invalidated" => op[i].at = "invalidated" \/ i \in S
                    /\ op[i].at \in {"committed", "none"}
                          => op'[i].at \in {"committed", "none"}
  BY <1>1 DEF Moves, Retains, Undecided
<1>3. /\ \A i \in Id : i \notin S \/ i \in K => (~Nothing(i) => Keeps(op'[i]))
      /\ \A i \in Id : i \notin S \/ i \in K => (Leftover(i) => Lost(op'[i]))
  BY <1>1 DEF Moves, Retains, StoreInv, Ops, Leftover, Nothing
<1>4. Follows(S, K)
  BY <1>0, <1>2, <1>3 DEF Follows
<1>5. \A a \in Ask : lease[a].at = "held" => lease[a].id \notin S
  BY DEF StoreInv, Serving, Undecided
<1>6. Discard(S, K)
  BY DEF Invalidate
<1>7. StoreInv'
  BY <1>4, <1>5, <1>6, DiscardStep
<1>8. Published
  BY <1>1 DEF Published, Moves, Retains
<1> QED BY <1>7, <1>8

\* One undecided operation is invalidated, or a decided one left alone.
LEMMA InvalidateOne ==
    ASSUME ArtifactInv, NEW i \in Id, NEW K, NEW o, InvalidateIfOpen(o, i, K),
           \A j \in Id : Moves(op[j], o[j]), o[i] = op[i], FencesFollow
    PROVE  /\ StoreInv' /\ Published
           /\ \A j \in Id : Runs(o[j], op'[j])
<1> DEFINE S == IF Undecided(op[i]) THEN {i} ELSE {}
<1>1. Invalidate(o, S, K) /\ S \in SUBSET Id
  BY DEF InvalidateIfOpen
<1>2. \A j \in S : Good(o[j]) /\ Undecided(o[j]) /\ Undecided(op[j])
  BY DEF ArtifactInv, StoreInv, Ops
<1> HIDE DEF S
<1>3. StoreInv' /\ Published
  BY <1>1, <1>2, InvalidateStep DEF ArtifactInv
<1>4. /\ \A j \in Id \ S : op'[j] = o[j]
      /\ \A j \in S : Runs(o[j], op'[j])
  BY <1>1, <1>2, InvalidateOps
<1>5. \A j \in Id : Runs(o[j], op'[j])
  BY <1>4 DEF Runs
<1> QED BY <1>3, <1>5

-----------------------------------------------------------------------------
(***************************************************************************)
(* The steps of an operation.                                              *)
(***************************************************************************)

LEMMA HasOp ==
    ASSUME ArtifactInv, NEW i \in Id
    PROVE  /\ Good(op[i]) /\ Moves(op[i], op[i])
           /\ op[i].at = "none" => /\ op[i].verb = "over" /\ op[i].job = "none"
                                   /\ op[i].cleanup = "idle" /\ Nothing(i)
           /\ op[i].at \in {"none", "open", "sealing", "committed", "invalidated"}
<1>1. Good(op[i]) /\ (~Nothing(i) => Keeps(op[i]))
  BY DEF ArtifactInv, StoreInv, Ops
<1>2. Moves(op[i], op[i])
  BY <1>1, StillMoves
<1>3. op[i].at = "none" => op[i] = NoOp /\ Nothing(i)
  BY <1>1 DEF Good, Keeps
<1>4. op[i].at \in {"none", "open", "sealing", "committed", "invalidated"}
  BY <1>1 DEF Good, OpState
<1> QED BY <1>1, <1>2, <1>3, <1>4 DEF NoOp

LEMMA SameFences ==
    ASSUME ArtifactInv, UNCHANGED <<closing, lineage>>, poisoned' \in BOOLEAN
    PROVE  FencesFollow
BY Unfenced DEF ArtifactInv, StoreInv

LEMMA PoisonedType == ArtifactInv => poisoned \in BOOLEAN
BY DEF ArtifactInv, StoreInv, FenceTypes

\* A verb ends with its operation settled.
LEMMA VerbEnds ==
    ASSUME NEW o, Good(o), o.at # "none"
    PROVE  LET p == Settle([o EXCEPT !.verb = "over"])
           IN  Moves(o, p) /\ p.verb = "over" /\ p.job \in {o.job, "none"}
<1> DEFINE q == [o EXCEPT !.verb = "over"]
<1>1. /\ Good(q) /\ Retains(o, q) /\ q.at = o.at /\ q.job = o.job
      /\ q.verb = "over" /\ q.listed = o.listed
  BY OverGood
<1> HIDE DEF q
<1>2. Moves(o, q)
  BY <1>1 DEF Moves, Retains, Undecided
<1> QED BY <1>1, <1>2, SettledMoves DEF q

LEMMA CreateOperationKept ==
    ASSUME ArtifactInv, NEW i \in Id, CreateOperation(i)
    PROVE  ArtifactInv' /\ Published
<1> DEFINE p == [NoOp EXCEPT !.at = "open", !.verb = "new", !.released = FALSE]
<1>1. Good(p) /\ p.at = "open" /\ p.verb = "new" /\ ~p.listed
  BY NewGood
<1>2. /\ op[i].at = "none" /\ Nothing(i) /\ core.gen = NoId /\ closing = "no"
      /\ i \in DriveId => lineage = "active"
      /\ \A a \in Ask : lease[a].id # i
  BY HasOp DEF CreateOperation
<1>3. op' = [op EXCEPT ![i] = p]
  BY DEF CreateOperation
<1> HIDE DEF p
<1>4. op'[i] = p /\ op' = [j \in Id |-> op'[j]] /\ \A j \in Id : j # i => op'[j] = op[j]
  BY <1>3 DEF ArtifactInv, StoreInv, Ops
<1>5. /\ rec' = rec /\ bill' = bill /\ healthy' = healthy /\ lease' = lease
      /\ queue' = queue /\ closing' = closing /\ lineage' = lineage
      /\ poisoned' = poisoned /\ core' = core
  BY DEF CreateOperation, store, permits
<1>6. \A j \in Id : (Nothing(j)' <=> Nothing(j)) /\ (Leftover(j)' <=> Leftover(j))
  BY <1>5 DEF Nothing, Leftover
<1>a. ~Leftover(i)
  BY <1>2 DEF Nothing, Leftover
<1>7. Ops'
  BY <1>1, <1>2, <1>4, <1>6, <1>a DEF ArtifactInv, StoreInv, Ops
<1>8. Fences'
  BY <1>2, <1>4, <1>5, <1>6, ArtifactAssumption
     DEF ArtifactInv, StoreInv, FenceTypes, Fences
<1>9. Serving'
  BY <1>2, <1>4, <1>5 DEF ArtifactInv, StoreInv, Serving
<1>10. InvalidatedLeavesNothing' /\ BillExact' /\ StoreTypes' /\ FenceTypes'
  BY <1>1, <1>4, <1>5
     DEF ArtifactInv, StoreInv, InvalidatedLeavesNothing, BillExact, StoreTypes, FenceTypes
<1>11. Permits'
  BY <1>5, PermitsKept DEF ArtifactInv, StoreInv, permits
<1>12. CoreInv'
  BY <1>2, <1>5, GenerationGone DEF ArtifactInv, CoreInv, CoreType
<1>13. Published
  BY <1>1, <1>4 DEF Published
<1> QED BY <1>7, <1>8, <1>9, <1>10, <1>11, <1>12, <1>13 DEF ArtifactInv, StoreInv

LEMMA BeginGenerationKept ==
    ASSUME ArtifactInv, NEW i \in Id, BeginGeneration(i)
    PROVE  ArtifactInv' /\ Published
<1>1. op[i].verb = "new" /\ Good(op[i]) /\ op[i].at # "none" /\ op[i].job = "none"
  BY HasOp DEF BeginGeneration, Good
<1>2. FencesFollow /\ UNCHANGED <<store, permits>>
  BY SameFences, PoisonedType DEF BeginGeneration
<1>3. CASE Usable
  <2> DEFINE p == [op[i] EXCEPT !.verb = "running"]
  <2>1. /\ Good(p) /\ Retains(op[i], p) /\ p.at = op[i].at /\ p.job = op[i].job
        /\ p.verb = "running" /\ p.listed = op[i].listed
    BY <1>1, OverGood
  <2>2. op' = [op EXCEPT ![i] = p]
    BY <1>3 DEF BeginGeneration
  <2>3. core' = [core EXCEPT !.gen = i, !.open = TRUE, !.claimed = FALSE]
    BY <1>3 DEF BeginGeneration
  <2> HIDE DEF p
  <2>4. StoreInv' /\ Published
    <3>1. Moves(op[i], p)
      BY <2>1 DEF Moves, Retains, Undecided
    <3> QED BY <1>2, <2>2, <3>1, OpMoves DEF ArtifactInv
  <2>5. op'[i] = p
    BY <2>2 DEF ArtifactInv, StoreInv, Ops
  <2>6. CoreType' /\ core'.gen = i
    BY <2>3 DEF ArtifactInv, CoreInv, CoreType
  <2>7. CoreInv'
    BY <1>1, <2>1, <2>5, <2>6 DEF CoreInv, Generation
  <2> QED BY <2>4, <2>7 DEF ArtifactInv
<1>4. CASE ~Usable
  <2> DEFINE p == Settle([op[i] EXCEPT !.verb = "over"])
  <2>1. Moves(op[i], p) /\ p.verb = "over" /\ p.job \in {op[i].job, "none"}
    BY <1>1, VerbEnds
  <2>2. op' = [op EXCEPT ![i] = p] /\ core' = core
    BY <1>4 DEF BeginGeneration
  <2> HIDE DEF p
  <2>3. StoreInv' /\ Published
    BY <1>2, <2>1, <2>2, OpMoves DEF ArtifactInv
  <2>4. core.gen # i
    BY <1>1, ArtifactAssumption DEF ArtifactInv, CoreInv, Generation
  <2>5. \A j \in Id : j # i => op'[j] = op[j]
    BY <2>2 DEF ArtifactInv, StoreInv, Ops
  <2>6. CoreInv'
    BY <2>2, <2>4, <2>5 DEF ArtifactInv, CoreInv, CoreType, Generation
  <2> QED BY <2>3, <2>6 DEF ArtifactInv
<1> QED BY <1>3, <1>4

LEMMA BeginSettleKept ==
    ASSUME ArtifactInv, NEW i \in Id, BeginSettle(i)
    PROVE  ArtifactInv' /\ Published
<1>1. op[i].verb = "running" /\ Good(op[i]) /\ op[i].at # "none"
  BY HasOp DEF BeginSettle
<1>2. FencesFollow /\ UNCHANGED <<store, permits>>
  BY SameFences, PoisonedType DEF BeginSettle
<1>3. CASE core.gen = i
  <2> DEFINE p == [op[i] EXCEPT !.verb = "draining"]
  <2>1. /\ Good(p) /\ Retains(op[i], p) /\ p.at = op[i].at /\ p.job = op[i].job
        /\ p.verb = "draining" /\ p.listed = op[i].listed
    BY <1>1, OverGood
  <2>2. op' = [op EXCEPT ![i] = p]
    BY <1>3 DEF BeginSettle
  <2>3. core' = [core EXCEPT !.open = FALSE]
    BY <1>3 DEF BeginSettle
  <2> HIDE DEF p
  <2>4. StoreInv' /\ Published
    <3>1. Moves(op[i], p)
      BY <2>1 DEF Moves, Retains, Undecided
    <3> QED BY <1>2, <2>2, <3>1, OpMoves DEF ArtifactInv
  <2>5. op'[i] = p
    BY <2>2 DEF ArtifactInv, StoreInv, Ops
  <2>6. CoreType' /\ core'.gen = i /\ core'.claimed = core.claimed
    BY <1>3, <2>3 DEF ArtifactInv, CoreInv, CoreType
  <2>7. CoreInv'
    BY <1>3, <2>1, <2>5, <2>6, ArtifactAssumption DEF ArtifactInv, CoreInv, Generation
  <2> QED BY <2>4, <2>7 DEF ArtifactInv
<1>4. CASE core.gen # i
  <2> DEFINE p == Settle([op[i] EXCEPT !.verb = "over"])
  <2>1. Moves(op[i], p) /\ p.verb = "over" /\ p.job \in {op[i].job, "none"}
    BY <1>1, VerbEnds
  <2>2. op' = [op EXCEPT ![i] = p] /\ core' = core
    BY <1>4 DEF BeginSettle
  <2> HIDE DEF p
  <2>3. StoreInv' /\ Published
    BY <1>2, <2>1, <2>2, OpMoves DEF ArtifactInv
  <2>4. \A j \in Id : j # i => op'[j] = op[j]
    BY <2>2 DEF ArtifactInv, StoreInv, Ops
  <2>5. CoreInv'
    BY <1>4, <2>2, <2>4 DEF ArtifactInv, CoreInv, CoreType, Generation
  <2> QED BY <2>3, <2>5 DEF ArtifactInv
<1> QED BY <1>3, <1>4

\* The core forgets the generation of a verb that is over.
LEMMA VerbOverKept ==
    ASSUME ArtifactInv, NEW i \in Id, VerbOver(i),
           \A j \in Id : j # i => op'[j] = op[j]
    PROVE  CoreInv'
<1>1. CASE core.gen = i
  <2>1. core' = [core EXCEPT !.gen = NoId, !.open = FALSE, !.claimed = FALSE]
    BY <1>1 DEF VerbOver
  <2>2. CoreType' /\ core'.gen = NoId
    BY <2>1 DEF ArtifactInv, CoreInv, CoreType
  <2> QED BY <2>2, GenerationGone
<1>2. CASE core.gen # i
  <2>1. core' = core
    BY <1>2 DEF VerbOver
  <2> QED BY <1>2, <2>1 DEF ArtifactInv, CoreInv, CoreType, Generation
<1> QED BY <1>1, <1>2

LEMMA SealKept ==
    ASSUME ArtifactInv, NEW i \in Id, Seal(i)
    PROVE  ArtifactInv' /\ Published
<1>1. op[i].verb = "draining" /\ Good(op[i]) /\ op[i].at # "none"
  BY HasOp DEF Seal
<1>2. FencesFollow /\ UNCHANGED <<store, permits>>
  BY SameFences, PoisonedType DEF Seal, VerbOver
<1>3. CASE op[i].at = "open"
  <2> DEFINE p == [op[i] EXCEPT !.at = "sealing", !.verb = "sealing"]
  <2>1. /\ Good(p) /\ Retains(op[i], p) /\ p.at = "sealing"
        /\ p.job = op[i].job /\ p.verb = "sealing" /\ p.listed = op[i].listed
    BY <1>1, <1>3, SealGood
  <2>2. op' = [op EXCEPT ![i] = p] /\ core' = core
    BY <1>3 DEF Seal
  <2> HIDE DEF p
  <2>3. Moves(op[i], p)
    BY <1>3, <2>1 DEF Moves, Retains, Undecided
  <2>4. StoreInv' /\ Published
    BY <1>2, <2>2, <2>3, OpMoves DEF ArtifactInv
  <2>5. op'[i] = p /\ \A j \in Id : j # i => op'[j] = op[j]
    BY <2>2 DEF ArtifactInv, StoreInv, Ops
  <2>6. CoreInv'
    BY <2>1, <2>2, <2>5 DEF ArtifactInv, CoreInv, CoreType, Generation
  <2> QED BY <2>4, <2>6 DEF ArtifactInv
<1>4. CASE op[i].at # "open"
  <2> DEFINE p == Settle([op[i] EXCEPT !.verb = "over"])
  <2>1. Moves(op[i], p)
    BY <1>1, VerbEnds
  <2>2. op' = [op EXCEPT ![i] = p] /\ VerbOver(i)
    BY <1>4 DEF Seal
  <2> HIDE DEF p
  <2>3. StoreInv' /\ Published
    BY <1>2, <2>1, <2>2, OpMoves DEF ArtifactInv
  <2>4. \A j \in Id : j # i => op'[j] = op[j]
    BY <2>2 DEF ArtifactInv, StoreInv, Ops
  <2>5. CoreInv'
    BY <2>2, <2>4, VerbOverKept
  <2> QED BY <2>3, <2>5 DEF ArtifactInv
<1> QED BY <1>3, <1>4

LEMMA SealResumesKept ==
    ASSUME ArtifactInv, NEW i \in Id, SealResumes(i)
    PROVE  ArtifactInv' /\ Published
<1>1. /\ op[i].verb = "sealing" /\ Good(op[i]) /\ op[i].at # "none"
      /\ ~Active(op[i]) \/ Terminal(op[i])
  BY HasOp DEF SealResumes
<1>2. FencesFollow /\ UNCHANGED <<store, permits>>
  BY SameFences, PoisonedType DEF SealResumes, VerbOver
<1> DEFINE over == [op[i] EXCEPT !.verb = "over"]
<1>3. over.at = op[i].at
  BY <1>1 DEF Good, OpState
<1>4. PICK p : Moves(op[i], p) /\ op' = [op EXCEPT ![i] = p]
  <2>1. CASE Terminal(op[i])
    <3> DEFINE p == Settle(over)
    <3>1. Moves(op[i], p)
      BY <1>1, VerbEnds
    <3>2. op' = [op EXCEPT ![i] = p]
      BY <1>3, <2>1 DEF SealResumes, Terminal
    <3> QED BY <3>1, <3>2
  <2>2. CASE ~Terminal(op[i])
    <3> DEFINE q == [over EXCEPT !.at = "committed", !.listed = over.provisional,
                                 !.waiting = over.provisional]
               p == Settle(q)
    <3>1. Undecided(op[i]) /\ op[i].job = "none"
      BY <1>1, <2>2, HasOp DEF Terminal, Undecided, Active
    <3>2. Good(q) /\ Retains(op[i], q) /\ q.at = "committed"
      BY <1>1, <3>1, CommitGood
    <3>3. op' = [op EXCEPT ![i] = p]
      BY <1>3, <2>2 DEF SealResumes, Terminal
    <3> HIDE DEF q
    <3>4. Moves(op[i], q)
      BY <3>1, <3>2 DEF Moves, Retains, Undecided
    <3>5. Moves(op[i], p)
      BY <3>4, SettledMoves
    <3> QED BY <3>3, <3>5
  <2> QED BY <2>1, <2>2
<1> HIDE DEF over
<1>5. StoreInv' /\ Published
  BY <1>2, <1>4, OpMoves DEF ArtifactInv
<1>6. \A j \in Id : j # i => op'[j] = op[j]
  BY <1>4 DEF ArtifactInv, StoreInv, Ops
<1>7. CoreInv'
  BY <1>6, VerbOverKept DEF SealResumes
<1> QED BY <1>5, <1>7 DEF ArtifactInv

LEMMA StageStoppedKept ==
    ASSUME ArtifactInv, NEW i \in Id, StageStopped(i)
    PROVE  ArtifactInv' /\ Published
<1>1. Good(op[i]) /\ Terminal(op[i])
  BY HasOp DEF StageStopped
<1>2. FencesFollow /\ UNCHANGED <<store, permits, core>>
  BY SameFences, PoisonedType DEF StageStopped
<1> DEFINE q == [op[i] EXCEPT !.job = "none", !.download = FALSE]
<1>3. /\ Good(q) /\ Retains(op[i], q) /\ q.at = op[i].at
      /\ q.job = "none" /\ q.verb = op[i].verb /\ q.listed = op[i].listed
  BY <1>1, StopGood
<1>4. op' = [op EXCEPT ![i] = Settle(q)]
  BY DEF StageStopped, JobOver
<1> HIDE DEF q
<1>5. Moves(op[i], q)
  BY <1>3 DEF Moves, Retains, Undecided
<1>6. Moves(op[i], Settle(q)) /\ Runs(op[i], Settle(q))
  BY <1>3, <1>5, SettledMoves DEF Runs
<1> QED BY <1>2, <1>4, <1>6, QuietOp

\* An undecided operation is invalidated by its own job or deadline.
LEMMA FailsAlone ==
    ASSUME ArtifactInv, NEW i \in Id, NEW K, NEW p, Undecided(op[i]),
           Good(p), p.at = op[i].at, Runs(op[i], p),
           Invalidate([op EXCEPT ![i] = p], {i}, K),
           UNCHANGED <<closing, lineage, core>>, poisoned' = poisoned
    PROVE  ArtifactInv' /\ Published
<1> DEFINE o == [op EXCEPT ![i] = p]
<1>1. o[i] = p /\ \A j \in Id : j # i => o[j] = op[j]
  BY DEF ArtifactInv, StoreInv, Ops
<1>2. {i} \in SUBSET Id /\ FencesFollow
  BY SameFences, PoisonedType
<1>3. \A j \in {i} : Good(o[j]) /\ Undecided(o[j]) /\ Undecided(op[j])
  BY <1>1 DEF Undecided
<1>4. \A j \in Id \ {i} : Moves(op[j], o[j])
  BY <1>1, HasOp
<1> HIDE DEF o
<1>5. Invalidate(o, {i}, K)
  BY DEF o
<1>6. StoreInv' /\ Published
  BY <1>2, <1>3, <1>4, <1>5, InvalidateStep DEF ArtifactInv
<1>7. /\ \A j \in Id \ {i} : op'[j] = o[j]
      /\ Runs(o[i], op'[i])
  BY <1>2, <1>3, <1>5, InvalidateOps
<1>8. \A j \in Id : Runs(op[j], op'[j])
  BY <1>1, <1>7 DEF Runs
<1>9. CoreInv'
  BY <1>8, GenerationKept DEF ArtifactInv
<1> QED BY <1>6, <1>9 DEF ArtifactInv

\* The deadline finds the operation as it is.
LEMMA FailsAsIs ==
    ASSUME ArtifactInv, NEW i \in Id, NEW K, Undecided(op[i]), Invalidate(op, {i}, K),
           UNCHANGED <<closing, lineage, core>>, poisoned' = poisoned
    PROVE  ArtifactInv' /\ Published
<1> DEFINE p == op[i]
<1>1. op = [op EXCEPT ![i] = p]
  BY DEF ArtifactInv, StoreInv, Ops, Good, OpState
<1>2. Good(p) /\ p.at = op[i].at /\ Runs(op[i], p)
  BY HasOp DEF Runs
<1> HIDE DEF p
<1>3. Invalidate([op EXCEPT ![i] = p], {i}, K)
  BY <1>1
<1> QED BY <1>2, <1>3, FailsAlone

LEMMA SettleTimeoutKept ==
    ASSUME ArtifactInv, NEW i \in Id, NEW K \in SUBSET {i}, SettleTimeout(i, K)
    PROVE  ArtifactInv' /\ Published
BY FailsAsIs DEF SettleTimeout, Undecided

\* The job that ends in failure is over.
LEMMA JobFails ==
    ASSUME ArtifactInv, NEW i \in Id, NEW K, Undecided(op[i]),
           Invalidate([op EXCEPT ![i].job = "none"], {i}, K),
           UNCHANGED <<closing, lineage, core>>, poisoned' = poisoned
    PROVE  ArtifactInv' /\ Published
<1> DEFINE p == [op[i] EXCEPT !.job = "none"]
<1>1. Good(p) /\ p.at = op[i].at /\ Runs(op[i], p)
  BY HasOp, JobEnds DEF Runs
<1>2. Invalidate([op EXCEPT ![i] = p], {i}, K)
  OBVIOUS
<1> HIDE DEF p
<1> QED BY <1>1, <1>2, FailsAlone

LEMMA StageFailsKept ==
    ASSUME ArtifactInv, NEW i \in Id, NEW K \in SUBSET {i}, StageFails(i, K)
    PROVE  ArtifactInv' /\ Published
BY JobFails DEF StageFails

LEMMA CaptureKept ==
    ASSUME ArtifactInv, NEW i \in Id, NEW r \in {"stored", "refused", "leftover"}, Capture(i, r)
    PROVE  ArtifactInv' /\ Published
<1> DEFINE x == IF r = "stored" THEN "stored" ELSE "refused"
           p == [op[i] EXCEPT !.job = x]
<1>1. /\ Good(op[i]) /\ Undecided(op[i]) /\ op[i].job = "staging"
      /\ op[i].verb # "new" /\ x \in {"stored", "refused"}
      /\ r # "stored" => x = "refused"
  BY HasOp DEF Capture, Good
<1>2. op' = [op EXCEPT ![i] = p]
  BY DEF Capture
<1> HIDE DEF x
<1>3. /\ Good(p) /\ Keeps(p) /\ (x = "refused" => Lost(p)) /\ p.at = op[i].at /\ p.job = x
      /\ p.verb = op[i].verb /\ p.listed = op[i].listed
  BY <1>1, CaptureGood
<1>4. UNCHANGED <<closing, lineage, poisoned, core>>
  BY DEF Capture
<1> HIDE DEF p
<1>5. op'[i] = p /\ op' = [j \in Id |-> op'[j]] /\ \A j \in Id : j # i => op'[j] = op[j]
  BY <1>2 DEF ArtifactInv, StoreInv, Ops
<1>6. CoreInv'
  BY <1>1, <1>3, <1>4, <1>5 DEF ArtifactInv, CoreInv, CoreType, Generation
<1>7. Published
  BY <1>1, <1>5 DEF Published
<1>8. Ops'
  <2>1. \A j \in Id : j # i => (Nothing(j)' <=> Nothing(j)) /\ (Leftover(j)' <=> Leftover(j))
    BY DEF Capture, store, Nothing, Leftover, ArtifactInv, StoreInv, StoreTypes
  <2>2. ~Leftover(i)
    BY <1>1 DEF Lost, Good, ArtifactInv, StoreInv, Ops
  <2>3. r = "stored" => rec'[i] # "none"
    BY DEF Capture, ArtifactInv, StoreInv, StoreTypes
  <2>4. Leftover(i)' => Lost(p)
    BY <1>1, <1>3, <2>3 DEF Leftover
  <2> QED BY <1>3, <1>5, <2>1, <2>4 DEF ArtifactInv, StoreInv, Ops
<1>9. closing = "no" /\ (i \in DriveId => lineage = "active")
  BY <1>1 DEF ArtifactInv, StoreInv, Fences, FenceTypes
<1>10. Fences' /\ FenceTypes'
  BY <1>1, <1>3, <1>4, <1>5, <1>9, ArtifactAssumption
     DEF ArtifactInv, StoreInv, Fences, FenceTypes, Undecided
<1>11. \A a \in Ask : lease[a].id # i
  BY <1>1 DEF ArtifactInv, StoreInv, Serving, Undecided
<1>12. op'[i].at # "invalidated" /\ op'[i].at \notin {"committed", "none"}
  BY <1>1, <1>3, <1>5 DEF Undecided
<1>13. CASE rec' = rec /\ bill' = bill /\ healthy' = healthy /\ UNCHANGED permits
  <2>1. StoreTypes' /\ BillExact' /\ InvalidatedLeavesNothing'
    BY <1>5, <1>12, <1>13
       DEF ArtifactInv, StoreInv, StoreTypes, BillExact, InvalidatedLeavesNothing
  <2>2. Permits'
    BY <1>13, PermitsKept DEF ArtifactInv, StoreInv
  <2>3. Serving'
    BY <1>5, <1>11, <1>13 DEF ArtifactInv, StoreInv, Serving, permits
  <2> QED BY <1>6, <1>7, <1>8, <1>10, <2>1, <2>2, <2>3 DEF ArtifactInv, StoreInv
<1>14. CASE /\ rec' = [rec EXCEPT ![i] = "available"] /\ bill' = bill \cup {i}
            /\ healthy /\ UNCHANGED <<healthy, permits>>
  <2>1. StoreTypes' /\ rec'[i] = "available" /\ \A j \in Id : j # i => rec'[j] = rec[j]
    BY <1>14 DEF ArtifactInv, StoreInv, StoreTypes
  <2>2. BillExact'
    <3>1. bill = {j \in Id : rec[j] # "none"}
      BY <1>14 DEF ArtifactInv, StoreInv, BillExact
    <3>2. bill' = {j \in Id : rec'[j] # "none"}
      BY <1>14, <2>1, <3>1
    <3> QED BY <3>2 DEF BillExact
  <2>3. InvalidatedLeavesNothing'
    BY <1>5, <1>12, <1>14, <2>1 DEF ArtifactInv, StoreInv, InvalidatedLeavesNothing
  <2>4. Permits'
    BY <1>14, PermitsKept DEF ArtifactInv, StoreInv
  <2>5. Serving'
    BY <1>5, <1>11, <1>14, <2>1 DEF ArtifactInv, StoreInv, Serving, permits
  <2> QED BY <1>6, <1>7, <1>8, <1>10, <2>1, <2>2, <2>3, <2>4, <2>5 DEF ArtifactInv, StoreInv
<1>15. CASE rec' = rec /\ bill' = bill \cup {i} /\ healthy' = FALSE /\ VoidLeases
  <2>1. StoreTypes' /\ BillExact' /\ InvalidatedLeavesNothing'
    BY <1>15
       DEF ArtifactInv, StoreInv, StoreTypes, BillExact, InvalidatedLeavesNothing
  <2>2. Permits'
    BY <1>15, PermitsVoid DEF ArtifactInv, StoreInv
  <2>3. \A a \in Ask : lease'[a] = NoLease
                         \/ (lease'[a] = lease[a] /\ lease[a].at # "held")
    BY <1>15 DEF VoidLeases
  <2>4. Serving'
    BY <1>5, <1>11, <2>3, NoLeaseType, ArtifactAssumption DEF ArtifactInv, StoreInv, Serving
  <2> QED BY <1>6, <1>7, <1>8, <1>10, <2>1, <2>2, <2>4 DEF ArtifactInv, StoreInv
<1> QED BY <1>13, <1>14, <1>15 DEF Capture, store

LEMMA CaptureResumesKept ==
    ASSUME ArtifactInv, NEW i \in Id, NEW K \in SUBSET {i}, CaptureResumes(i, K)
    PROVE  ArtifactInv' /\ Published
<1>1. /\ Good(op[i]) /\ Undecided(op[i]) /\ op[i].verb # "new"
      /\ op[i].job \in {"stored", "refused"}
  BY HasOp DEF CaptureResumes, Good
<1>2. CASE op[i].job = "stored"
  <2> DEFINE p == [JobOver(op[i]) EXCEPT !.provisional = TRUE]
  <2>1. /\ Good(p) /\ Keeps(p) /\ Retains(op[i], p) /\ p.at = op[i].at
        /\ p.job = "none" /\ p.verb = op[i].verb /\ p.listed = op[i].listed
    BY <1>1, <1>2, StagedGood
  <2>2. op' = [op EXCEPT ![i] = p] /\ UNCHANGED <<store, permits, core>>
    BY <1>2 DEF CaptureResumes
  <2>3. FencesFollow
    BY SameFences, PoisonedType DEF CaptureResumes
  <2> HIDE DEF p
  <2>4. Moves(op[i], p) /\ Runs(op[i], p)
    BY <1>1, <2>1 DEF Moves, Retains, Runs, Undecided
  <2> QED BY <2>2, <2>3, <2>4, QuietOp
<1>3. CASE op[i].job # "stored"
  BY <1>1, <1>3, JobFails DEF CaptureResumes
<1> QED BY <1>2, <1>3

LEMMA CaptureTooLateKept ==
    ASSUME ArtifactInv, NEW i \in Id, NEW K \in SUBSET {i}, CaptureTooLate(i, K)
    PROVE  ArtifactInv' /\ Published
<1> DEFINE S == IF op[i].job = "stored" /\ closing = "no" THEN {i} ELSE {}
           w == op[i].job = "stored" /\ Sweeping
           c == i \in K \/ (op[i].job = "stored" /\ closing = "failed")
           q == [JobOver(op[i]) EXCEPT !.waiting = @ \/ w, !.refusal = @ \/ w,
                                       !.cleanupFailed = @ \/ c]
<1>1. /\ Good(op[i]) /\ Terminal(op[i]) /\ op[i].job # "none"
      /\ op[i].at = "invalidated"
  BY HasOp DEF CaptureTooLate, Good, Terminal
<1>2. w \in BOOLEAN /\ c \in BOOLEAN /\ (i \in K => c)
  OBVIOUS
<1>3. op' = [op EXCEPT ![i] = Settle(q)]
  BY DEF CaptureTooLate
<1>4. Discard(S, K) /\ S \in SUBSET Id
  BY DEF CaptureTooLate
<1>5. FencesFollow /\ core' = core
  BY SameFences, PoisonedType DEF CaptureTooLate
<1>6. \A j \in S : j = i
  OBVIOUS
<1>a. q = Late(op[i], w, c)
  BY DEF Late
<1> HIDE DEF w, c, q
<1>7. /\ Good(q) /\ Retains(op[i], q) /\ q.at = op[i].at
      /\ q.job = "none" /\ q.verb = op[i].verb /\ q.listed = op[i].listed
  BY <1>1, <1>2, <1>a, LateGood
<1> HIDE DEF S
<1>8. Moves(op[i], q)
  BY <1>7 DEF Moves, Retains, Undecided
<1>9. Moves(op[i], Settle(q)) /\ Runs(op[i], Settle(q))
  BY <1>7, <1>8, SettledMoves DEF Runs
<1>10. op'[i] = Settle(q) /\ op' = [j \in Id |-> op'[j]] /\ \A j \in Id : j # i => op'[j] = op[j]
  BY <1>3 DEF ArtifactInv, StoreInv, Ops
<1>11. Follows(S, K)
  BY <1>9, <1>10 DEF Follows, Moves, Retains, ArtifactInv, StoreInv, Ops, Leftover, Nothing
<1>12. \A a \in Ask : lease[a].at = "held" => lease[a].id \notin S
  BY <1>1, <1>6 DEF ArtifactInv, StoreInv, Serving
<1>13. StoreInv'
  BY <1>4, <1>5, <1>11, <1>12, DiscardStep DEF ArtifactInv
<1>14. CoreInv'
  BY <1>5, <1>9, <1>10, GenerationKept DEF ArtifactInv, Runs
<1>15. Published
  BY <1>9, <1>10 DEF Published, Moves, Retains
<1> QED BY <1>13, <1>14, <1>15 DEF ArtifactInv

LEMMA CleanupSettlesKept ==
    ASSUME ArtifactInv, NEW i \in Id, NEW confirmed \in BOOLEAN, CleanupSettles(i, confirmed)
    PROVE  ArtifactInv' /\ Published
<1> DEFINE x == IF confirmed THEN "idle" ELSE "failed"
           q == [op[i] EXCEPT !.cleanup = x]
<1>1. Good(op[i]) /\ op[i].cleanup = "running" /\ x \in {"idle", "failed"}
  BY HasOp DEF CleanupSettles
<1>2. FencesFollow /\ UNCHANGED <<store, permits, core>>
  BY SameFences, PoisonedType DEF CleanupSettles
<1>3. op' = [op EXCEPT ![i] = Settle(q)]
  BY DEF CleanupSettles
<1> HIDE DEF x
<1>4. /\ Good(q) /\ Retains(op[i], q) /\ q.at = op[i].at
      /\ q.job = op[i].job /\ q.verb = op[i].verb /\ q.listed = op[i].listed
  BY <1>1, CleanGood
<1> HIDE DEF q
<1>5. Moves(op[i], q)
  BY <1>4 DEF Moves, Retains, Undecided
<1>6. Moves(op[i], Settle(q)) /\ Runs(op[i], Settle(q))
  BY <1>4, <1>5, SettledMoves DEF Runs
<1> QED BY <1>2, <1>3, <1>6, QuietOp

LEMMA ExpireKept ==
    ASSUME ArtifactInv, NEW i \in Id, NEW K \in SUBSET {i}, Expire(i, K)
    PROVE  ArtifactInv' /\ Published
<1>1. /\ rec[i] = "available" /\ Good(op[i])
      /\ UNCHANGED <<closing, lineage, core>> /\ poisoned' = poisoned
  BY HasOp DEF Expire
<1>2. CASE K = {} /\ Undecided(op[i])
  BY <1>1, <1>2, FailsAsIs DEF Expire
<1>3. CASE ~(K = {} /\ Undecided(op[i]))
  <2> DEFINE p == IF K = {} THEN Noted(op[i]) ELSE op[i]
  <2>1. Discard({i}, K) /\ {i} \in SUBSET Id
    BY <1>3 DEF Expire
  <2>2. op = [op EXCEPT ![i] = op[i]]
    BY DEF ArtifactInv, StoreInv, Ops
  <2>3. op' = [op EXCEPT ![i] = p]
    BY <1>3, <2>2 DEF Expire
  <2>4. /\ Good(p) /\ p.at \in {op[i].at, "none"} /\ Runs(op[i], p)
        /\ (p.listed => op[i].listed) /\ (i \in K => p = op[i])
    BY <1>1, NotedGood DEF Runs
  <2> HIDE DEF p
  <2>5. op'[i] = p /\ op' = [j \in Id |-> op'[j]] /\ \A j \in Id : j # i => op'[j] = op[j]
    BY <2>3 DEF ArtifactInv, StoreInv, Ops
  <2>6. Follows({i}, K)
    BY <2>4, <2>5 DEF Follows, ArtifactInv, StoreInv, Ops, Undecided
  <2>7. \A a \in Ask : lease[a].at = "held" => lease[a].id \notin {i}
    BY <1>1 DEF ArtifactInv, StoreInv, Serving
  <2>8. FencesFollow
    BY <1>1, SameFences, PoisonedType
  <2>9. StoreInv'
    BY <2>1, <2>6, <2>7, <2>8, DiscardStep DEF ArtifactInv
  <2>10. CoreInv'
    BY <1>1, <2>4, <2>5, GenerationKept DEF ArtifactInv, Runs
  <2>11. Published
    BY <2>4, <2>5 DEF Published
  <2> QED BY <2>9, <2>10, <2>11 DEF ArtifactInv
<1> QED BY <1>2, <1>3

-----------------------------------------------------------------------------
(***************************************************************************)
(* The steps of the core.                                                  *)
(***************************************************************************)

\* The operations and the store stay as they are.
LEMMA StoreStill ==
    ASSUME ArtifactInv, UNCHANGED <<op, store, permits>>, FencesFollow
    PROVE  StoreInv' /\ Published
<1>1. Follows({}, {})
  BY DEF Follows, ArtifactInv, StoreInv, Ops
<1>2. Published
  BY DEF Published
<1> QED BY <1>1, <1>2, StoreKept DEF ArtifactInv

LEMMA GenerationSame ==
    ASSUME CoreInv, CoreType', core'.gen = core.gen, core'.claimed = core.claimed,
           \A i \in Id : Runs(op[i], op'[i])
    PROVE  CoreInv'
<1>1. core.gen \in Id \cup {NoId}
  BY DEF CoreInv, CoreType
<1> QED BY <1>1 DEF CoreInv, Generation, Runs

LEMMA DirtyCore ==
    ASSUME CoreType
    PROVE  /\ Dirty(core) \in [gen : Id \cup {NoId}, open : BOOLEAN, claimed : BOOLEAN,
                               at : {"up", "page"}, dirty : BOOLEAN, stray : 0..MaxStray]
           /\ Dirty(core).gen = core.gen /\ Dirty(core).claimed = core.claimed
<1>1. 0 \in 0..MaxStray
  BY ArtifactAssumption
<1> QED BY <1>1 DEF CoreType, Dirty

LEMMA AllMove ==
    ASSUME ArtifactInv
    PROVE  \A j \in Id : Moves(op[j], op[j]) /\ Runs(op[j], op[j])
BY HasOp DEF Runs

LEMMA RouteDownloadKept ==
    ASSUME ArtifactInv, NEW K \in SUBSET Id, RouteDownload(K)
    PROVE  ArtifactInv' /\ Published
<1> DEFINE g == core.gen
<1>0. /\ CoreType /\ CoreInv /\ core.stray < MaxStray
      /\ UNCHANGED <<closing, lineage, poisoned>> /\ g \in Id \cup {NoId}
  BY DEF RouteDownload, ArtifactInv, CoreInv, CoreType
<1>1. FencesFollow
  BY <1>0, SameFences, PoisonedType
<1>2. CASE g = NoId /\ core' = Dirty(core) /\ UNCHANGED <<op, store, permits>>
  <2>1. StoreInv' /\ Published
    BY <1>1, <1>2, StoreStill
  <2>2. CoreType' /\ core'.gen = NoId
    BY <1>0, <1>2, DirtyCore DEF CoreType
  <2> QED BY <2>1, <2>2, GenerationGone DEF ArtifactInv
<1>3. CASE /\ g # NoId /\ core' = Stray([core EXCEPT !.open = FALSE])
           /\ InvalidateIfOpen(op, g, K)
  <2>1. g \in Id
    BY <1>0, <1>3
  <2>2. /\ StoreInv' /\ Published
        /\ \A j \in Id : Runs(op[j], op'[j])
    BY <1>1, <1>3, <2>1, AllMove, InvalidateOne
  <2> DEFINE c == [core EXCEPT !.open = FALSE]
  <2>3. /\ c \in [gen : Id \cup {NoId}, open : BOOLEAN, claimed : BOOLEAN,
                  at : {"up", "page"}, dirty : BOOLEAN, stray : 0..MaxStray]
        /\ c.gen = core.gen /\ c.claimed = core.claimed /\ c.stray = core.stray
    BY <1>0 DEF CoreType
  <2>4. core' = Stray(c)
    BY <1>3
  <2> HIDE DEF c
  <2>5. c.stray + 1 \in 0..MaxStray
    BY <1>0, <2>3, ArtifactAssumption DEF CoreType
  <2>6. CoreType' /\ core'.gen = core.gen /\ core'.claimed = core.claimed
    BY <2>3, <2>4, <2>5 DEF CoreType, Stray
  <2>7. CoreInv'
    BY <1>0, <2>2, <2>6, GenerationSame
  <2> QED BY <2>2, <2>7 DEF ArtifactInv
<1>4. CASE /\ g # NoId /\ ~core.claimed /\ op[g].at = "open"
           /\ core' = [core EXCEPT !.claimed = TRUE]
           /\ op' = [op EXCEPT ![g] = [@ EXCEPT !.job = "staging", !.download = TRUE]]
           /\ UNCHANGED <<store, permits>>
  <2> DEFINE p == [op[g] EXCEPT !.job = "staging", !.download = TRUE]
  <2>1. /\ g \in Id /\ op[g].verb \in {"running", "draining", "sealing"}
        /\ op[g].job = "none" /\ op[g].at = "open"
    BY <1>0, <1>4 DEF CoreInv, Generation
  <2>2. Good(op[g])
    BY <2>1, HasOp
  <2>3. /\ Good(p) /\ Retains(op[g], p) /\ p.at = op[g].at
        /\ p.verb = op[g].verb /\ p.listed = op[g].listed
    BY <2>1, <2>2, ClaimGood
  <2>4. op' = [op EXCEPT ![g] = p]
    BY <1>4
  <2> HIDE DEF p, g
  <2>5. Moves(op[g], p)
    BY <2>3 DEF Moves, Retains, Undecided
  <2>6. StoreInv' /\ Published
    BY <1>1, <1>4, <2>1, <2>4, <2>5, OpMoves DEF ArtifactInv
  <2>7. CoreType' /\ core'.gen = g /\ core'.claimed = TRUE
    BY <1>0, <1>4 DEF CoreType, g
  <2>8. op'[g] = p
    BY <2>1, <2>4 DEF ArtifactInv, StoreInv, Ops
  <2>9. CoreInv'
    BY <2>1, <2>3, <2>7, <2>8 DEF CoreInv, Generation
  <2> QED BY <2>6, <2>9 DEF ArtifactInv
<1> QED BY <1>2, <1>3, <1>4 DEF RouteDownload

LEMMA StraySettlesKept ==
    ASSUME ArtifactInv, NEW ok \in BOOLEAN, StraySettles(ok)
    PROVE  ArtifactInv' /\ Published
<1>1. CoreInv /\ CoreType /\ core.stray > 0 /\ FencesFollow
  BY SameFences, PoisonedType DEF StraySettles, ArtifactInv, CoreInv
<1>2. StoreInv' /\ Published /\ op' = op
  BY <1>1, StoreStill DEF StraySettles
<1>3. CoreType' /\ core'.gen = core.gen /\ core'.claimed = core.claimed
  <2>1. CASE ok
    <3>1. core' = [core EXCEPT !.stray = @ - 1]
      BY <2>1 DEF StraySettles
    <3>2. core.stray - 1 \in 0..MaxStray
      BY <1>1, ArtifactAssumption DEF CoreType
    <3> QED BY <1>1, <3>1, <3>2 DEF CoreType
  <2>2. CASE ~ok
    <3>1. core' = Dirty(core)
      BY <2>2 DEF StraySettles
    <3> QED BY <1>1, <3>1, DirtyCore DEF CoreType
  <2> QED BY <2>1, <2>2
<1>4. CoreInv'
  BY <1>1, <1>2, <1>3, AllMove, GenerationSame
<1> QED BY <1>2, <1>4 DEF ArtifactInv

LEMMA PageClosedKept ==
    ASSUME ArtifactInv, NEW ok \in BOOLEAN, PageClosed(ok)
    PROVE  ArtifactInv' /\ Published
<1>1. CoreInv /\ CoreType /\ FencesFollow
  BY SameFences, PoisonedType DEF PageClosed, ArtifactInv, CoreInv
<1>2. StoreInv' /\ Published /\ op' = op
  BY <1>1, StoreStill DEF PageClosed
<1> DEFINE c == IF ok THEN core ELSE Dirty(core)
<1>3. /\ c \in [gen : Id \cup {NoId}, open : BOOLEAN, claimed : BOOLEAN,
                at : {"up", "page"}, dirty : BOOLEAN, stray : 0..MaxStray]
      /\ c.gen = core.gen /\ c.claimed = core.claimed
  BY <1>1, DirtyCore DEF CoreType
<1>4. core' = [c EXCEPT !.at = "up"]
  BY DEF PageClosed
<1> HIDE DEF c
<1>5. CoreType' /\ core'.gen = core.gen /\ core'.claimed = core.claimed
  BY <1>3, <1>4 DEF CoreType
<1>6. CoreInv'
  BY <1>1, <1>2, <1>5, AllMove, GenerationSame
<1> QED BY <1>2, <1>6 DEF ArtifactInv

LEMMA ClosePageKept ==
    ASSUME ArtifactInv, NEW K \in SUBSET Id, ClosePage(K)
    PROVE  ArtifactInv' /\ Published
<1>1. CoreType /\ FencesFollow /\ core.gen \in Id \cup {NoId}
  BY SameFences, PoisonedType DEF ClosePage, ArtifactInv, CoreInv, CoreType
<1>2. CoreType' /\ core'.gen = NoId
  BY <1>1 DEF ClosePage, CoreType
<1>3. CoreInv'
  BY <1>2, GenerationGone
<1>4. CASE core.gen = NoId
  BY <1>1, <1>3, <1>4, StoreStill DEF ClosePage, ArtifactInv
<1>5. CASE core.gen # NoId
  <2> DEFINE g == core.gen
  <2>1. g \in Id /\ InvalidateIfOpen(op, g, K)
    BY <1>1, <1>5 DEF ClosePage
  <2> HIDE DEF g
  <2>2. StoreInv' /\ Published
    BY <1>1, <2>1, AllMove, InvalidateOne
  <2> QED BY <1>3, <2>2 DEF ArtifactInv
<1> QED BY <1>4, <1>5

LEMMA CloseCoreKept ==
    ASSUME ArtifactInv, NEW K \in SUBSET Id, CloseCore(K)
    PROVE  ArtifactInv' /\ Published
<1>1. CoreInv /\ FencesFollow /\ core.gen \in Id \cup {NoId}
  BY SameFences, PoisonedType DEF CloseCore, ArtifactInv, CoreInv, CoreType
<1>2. CoreType' /\ core'.gen = NoId
  <2>1. 0 \in 0..MaxStray
    BY ArtifactAssumption
  <2> QED BY <2>1 DEF CloseCore, CoreType, FreshCore
<1>3. CoreInv'
  BY <1>2, GenerationGone
<1> DEFINE o == [i \in Id |-> IF op[i].verb = "new"
                              THEN Settle([op[i] EXCEPT !.verb = "over"]) ELSE op[i]]
<1>4. ASSUME NEW i \in Id
      PROVE  Moves(op[i], o[i]) /\ (op[i].verb # "new" => o[i] = op[i])
  <2> DEFINE p == Settle([op[i] EXCEPT !.verb = "over"])
  <2>1. CASE op[i].verb = "new"
    <3>1. Good(op[i]) /\ op[i].at # "none"
      BY <2>1, HasOp
    <3>2. Moves(op[i], p)
      BY <3>1, VerbEnds
    <3>3. o[i] = p
      BY <2>1
    <3> QED BY <2>1, <3>2, <3>3
  <2>2. CASE op[i].verb # "new"
    <3>1. o[i] = op[i]
      BY <2>2
    <3> QED BY <3>1, HasOp
  <2> QED BY <2>1, <2>2
<1>5. o = [i \in Id |-> o[i]]
  OBVIOUS
<1>6. CASE core.gen = NoId
  <2>1. op' = o /\ UNCHANGED <<store, permits>>
    BY <1>6 DEF CloseCore
  <2> HIDE DEF o
  <2>2. Follows({}, {})
    BY <1>4, <1>5, <2>1 DEF Follows, Moves, Retains, ArtifactInv, StoreInv, Ops, Leftover, Nothing
  <2>3. StoreInv'
    BY <1>1, <2>1, <2>2, StoreKept DEF ArtifactInv
  <2>4. Published
    BY <1>4, <2>1 DEF Published, Moves, Retains
  <2> QED BY <1>3, <2>3, <2>4 DEF ArtifactInv
<1>7. CASE core.gen # NoId
  <2> DEFINE g == core.gen
  <2>1. g \in Id /\ InvalidateIfOpen(o, g, K)
    BY <1>1, <1>7 DEF CloseCore
  <2>2. op[g].verb # "new"
    BY <1>1, <1>7 DEF CoreInv, Generation
  <2> HIDE DEF g, o
  <2>3. StoreInv' /\ Published
    BY <1>1, <1>4, <2>1, <2>2, InvalidateOne
  <2> QED BY <1>3, <2>3 DEF ArtifactInv
<1> QED BY <1>6, <1>7


-----------------------------------------------------------------------------
(***************************************************************************)
(* The steps of the runtime.                                               *)
(***************************************************************************)

\* An undecided operation is still tracked.
LEMMA UndecidedTracked ==
    ASSUME ArtifactInv, NEW i \in Id, Undecided(op[i])
    PROVE  i \in Tracked
BY HasOp DEF Good, Tracked, Undecided

LEMMA InvalidateControllerKept ==
    ASSUME ArtifactInv, NEW K \in SUBSET Id, InvalidateController(K)
    PROVE  ArtifactInv' /\ Published
<1> DEFINE S == {i \in DriveOps : Undecided(op[i])}
<1>1. /\ Invalidate(op, S, K) /\ S \in SUBSET Id
      /\ \A i \in S : Undecided(op[i])
  BY DEF InvalidateController, DriveOps, Tracked
<1>2. \A i \in DriveId : i \in Id /\ (Undecided(op[i]) => i \in S)
  BY UndecidedTracked, ArtifactAssumption DEF DriveOps
<1>3. /\ lineage' = "invalidated" /\ closing' = closing /\ poisoned' = poisoned
      /\ core' = core
  BY DEF InvalidateController
<1> HIDE DEF S
<1>4. \A i \in S : Good(op[i]) /\ Undecided(op[i])
  BY <1>1, HasOp
<1>5. /\ \A i \in Id \ S : op'[i] = op[i]
      /\ \A i \in S : op'[i].at \in {"invalidated", "none"} /\ Runs(op[i], op'[i])
  BY <1>1, <1>4, InvalidateOps
<1>6. \A i \in DriveId : ~Undecided(op'[i])
  BY <1>2, <1>5 DEF Undecided
<1>7. FencesFollow
  BY <1>3, <1>6 DEF FencesFollow, FenceTypes, ArtifactInv, StoreInv
<1>8. StoreInv' /\ Published
  BY <1>1, <1>4, <1>7, AllMove, InvalidateStep DEF ArtifactInv
<1>9. \A i \in Id : Runs(op[i], op'[i])
  BY <1>5 DEF Runs
<1>10. CoreInv'
  BY <1>3, <1>9, GenerationKept DEF ArtifactInv
<1> QED BY <1>8, <1>10 DEF ArtifactInv

LEMMA DiscardControllerKept ==
    ASSUME ArtifactInv, NEW K \in SUBSET Id, DiscardController(K)
    PROVE  ArtifactInv' /\ Published
<1> DEFINE S == {i \in DriveId : op[i].listed /\ rec[i] # "consuming"}
<1>1. /\ Discard(S, K) /\ S \in SUBSET Id
      /\ \A i \in S : rec[i] # "consuming"
  BY ArtifactAssumption DEF DiscardController
<1>2. op' = [i \in Id |-> IF i \in S \ K THEN Noted(op[i]) ELSE op[i]]
  BY DEF DiscardController
<1>3. UNCHANGED <<closing, lineage>> /\ core' = core /\ poisoned' \in BOOLEAN
  BY PoisonedType DEF DiscardController
<1> HIDE DEF S
<1>4. \A i \in Id : op'[i] = IF i \in S \ K THEN Noted(op[i]) ELSE op[i]
  BY <1>2
<1>5. op' = [j \in Id |-> op'[j]]
  BY <1>2
<1>6. ASSUME NEW i \in Id
      PROVE  /\ Good(op'[i]) /\ op'[i].at \in {op[i].at, "none"} /\ Runs(op[i], op'[i])
             /\ (op'[i].listed => op[i].listed)
             /\ i \notin S \/ i \in K => op'[i] = op[i]
  <2>1. Good(op[i])
    BY HasOp
  <2>2. /\ Good(Noted(op[i])) /\ Noted(op[i]).at \in {op[i].at, "none"}
        /\ Noted(op[i]).verb = op[i].verb /\ Noted(op[i]).job \in {op[i].job, "none"}
        /\ (Noted(op[i]).listed => op[i].listed)
    BY <2>1, NotedGood
  <2> QED BY <1>4, <2>1, <2>2 DEF Runs
<1>7. Follows(S, K)
  BY <1>5, <1>6 DEF Follows, ArtifactInv, StoreInv, Ops, Undecided
<1>8. FencesFollow
  BY <1>3, SameFences
<1>9. \A a \in Ask : lease[a].at = "held" => lease[a].id \notin S
  BY <1>1 DEF ArtifactInv, StoreInv, Serving
<1>10. StoreInv'
  BY <1>1, <1>7, <1>8, <1>9, DiscardStep DEF ArtifactInv
<1>11. CoreInv'
  BY <1>3, <1>6, GenerationKept DEF ArtifactInv
<1>12. Published
  BY <1>6 DEF Published
<1> QED BY <1>10, <1>11, <1>12 DEF ArtifactInv

LEMMA NewControllerKept ==
    ASSUME ArtifactInv, NewController
    PROVE  ArtifactInv' /\ Published
<1>1. FencesFollow /\ UNCHANGED <<op, store, permits, core>>
  <2>1. \A i \in DriveId : ~Undecided(op'[i])
    BY DEF NewController, Undecided
  <2> QED BY <2>1 DEF NewController, FencesFollow, FenceTypes, ArtifactInv, StoreInv
<1>2. StoreInv' /\ Published
  BY <1>1, StoreStill
<1>3. CoreInv'
  BY <1>1, AllMove, GenerationKept DEF ArtifactInv
<1> QED BY <1>2, <1>3 DEF ArtifactInv

LEMMA CloseSettlesKept ==
    ASSUME ArtifactInv, CloseSettles
    PROVE  ArtifactInv' /\ Published
<1> DEFINE failed == closing = "unswept"
<1>1. /\ Sweeping /\ closing' \in {"ok", "failed"} /\ lineage' = lineage
      /\ poisoned' = poisoned /\ core' = core /\ UNCHANGED <<store, permits>>
  BY DEF CloseSettles
<1>2. FencesFollow
  BY <1>1 DEF FencesFollow, FenceTypes, Sweeping, ArtifactInv, StoreInv
<1>3. failed \in BOOLEAN
  OBVIOUS
<1>4. ~failed => \A i \in Id : ~Nothing(i) => op[i].cleanupFailed
  <2>1. \A i \in Id : /\ ~Undecided(op[i]) /\ (Leftover(i) => Lost(op[i]))
                      /\ ~failed => rec[i] = "none"
    BY <1>1 DEF ArtifactInv, StoreInv, Fences, Ops, Sweeping
  <2> QED BY <2>1 DEF Nothing, Leftover, Lost
<1>5. op' = [j \in Id |-> op'[j]]
  BY DEF CloseSettles
<1>6. ASSUME NEW i \in Id
      PROVE  /\ Good(op'[i]) /\ op'[i].at \in {op[i].at, "none"} /\ Runs(op[i], op'[i])
             /\ (op'[i].listed => op[i].listed) /\ (~Nothing(i) => Keeps(op'[i]))
             /\ (Leftover(i) => Lost(op'[i]))
  <2>1. /\ Good(op[i]) /\ (~Nothing(i) => Keeps(op[i])) /\ (Leftover(i) => Lost(op[i]))
        /\ Leftover(i) => ~Nothing(i)
    BY DEF ArtifactInv, StoreInv, Ops, Leftover, Nothing
  <2>2. CASE i \in Tracked /\ op[i].refusal
    <3> DEFINE p == [op[i] EXCEPT !.refusal = FALSE,
                       !.cleanupFailed = @ \/ failed, !.waiting = @ /\ failed]
    <3>1. op'[i] = Settle(p)
      BY <2>2 DEF CloseSettles
    <3> HIDE DEF failed
    <3>2. /\ Good(p) /\ (Keeps(op[i]) /\ (op[i].cleanupFailed \/ failed) => Keeps(p) /\ Lost(p))
          /\ p.at = op[i].at
          /\ p.job = op[i].job /\ p.verb = op[i].verb /\ p.listed = op[i].listed
      BY <1>3, <2>1, <2>2, ToldGood
    <3> HIDE DEF p
    <3>3. /\ Good(Settle(p)) /\ (Keeps(p) => Settle(p) = p)
          /\ Settle(p).at \in {p.at, "none"} /\ (Settle(p).listed => p.listed)
          /\ Settle(p).verb = p.verb /\ Settle(p).job \in {p.job, "none"}
      BY <3>2, Settles
    <3>4. ~Nothing(i) => op[i].cleanupFailed \/ failed
      BY <1>4
    <3> QED BY <2>1, <3>1, <3>2, <3>3, <3>4 DEF Runs
  <2>3. CASE ~(i \in Tracked /\ op[i].refusal)
    <3>1. op'[i] = op[i]
      BY <2>3 DEF CloseSettles
    <3> QED BY <2>1, <3>1 DEF Runs
  <2> QED BY <2>2, <2>3
<1>7. Follows({}, {})
  BY <1>5, <1>6 DEF Follows, Undecided
<1>8. StoreInv'
  BY <1>1, <1>2, <1>7, StoreKept DEF ArtifactInv
<1>9. CoreInv'
  BY <1>1, <1>6, GenerationKept DEF ArtifactInv
<1>10. Published
  BY <1>6 DEF Published
<1> QED BY <1>8, <1>9, <1>10 DEF ArtifactInv

LEMMA CloseKept ==
    ASSUME ArtifactInv, NEW K \in SUBSET Id, NEW swept \in BOOLEAN, Close(K, swept)
    PROVE  ArtifactInv' /\ Published
<1> DEFINE S == {i \in Tracked : Undecided(op[i])}
           gone == (S \ K) \cup {i \in Id : swept /\ rec[i] # "none"}
           swp(i) == i \in gone /\ i \in Tracked /\ op[i].waiting
           inv(i) == Settle([Invalidated(op[i]) EXCEPT !.cleanupFailed = @ \/ i \in K])
           sw(i) == [op[i] EXCEPT !.waiting = FALSE, !.refusal = TRUE]
<1>1. /\ closing' = (IF swept THEN "swept" ELSE "unswept")
      /\ healthy' = (healthy /\ K = {} /\ swept) /\ VoidLeases
      /\ lineage' = lineage /\ poisoned' = poisoned /\ core' = core
  BY DEF Close
<1>2. /\ K \subseteq S /\ bill' = bill \ gone
      /\ rec' = [i \in Id |-> IF i \in gone THEN "none" ELSE rec[i]]
  BY DEF Close
<1>3. \A i \in Id : op'[i] = IF i \in S THEN inv(i) ELSE IF swp(i) THEN sw(i) ELSE op[i]
  BY DEF Close
<1>4. op' = [j \in Id |-> op'[j]]
  BY DEF Close
<1>5. \A i \in Id : i \in S <=> Undecided(op[i])
  BY UndecidedTracked
<1>a. \A i \in Id : i \in gone <=> (i \in S /\ i \notin K) \/ (swept /\ rec[i] # "none")
  OBVIOUS
<1> HIDE DEF S, gone
<1>6. ASSUME NEW i \in Id
      PROVE  /\ Good(op'[i]) /\ op'[i].at \in {op[i].at, "invalidated", "none"}
             /\ ~Undecided(op'[i]) /\ Runs(op[i], op'[i])
             /\ (op'[i].listed => op[i].listed)
             /\ op[i].at \in {"committed", "none"} => op'[i].at \in {"committed", "none"}
             /\ i \in K => Keeps(op'[i]) /\ Lost(op'[i])
             /\ i \notin S /\ i \notin gone => op'[i] = op[i]
  <2>1. Good(op[i])
    BY HasOp
  <2>2. CASE i \in S
    <3> DEFINE k == i \in K
               p == [Invalidated(op[i]) EXCEPT !.cleanupFailed = @ \/ k]
    <3>1. op'[i] = Settle(p)
      BY <1>3, <2>2
    <3>2. k \in BOOLEAN
      OBVIOUS
    <3>3. Undecided(op[i])
      BY <1>5, <2>2
    <3>4. /\ Good(p) /\ (k => Keeps(p) /\ Lost(p)) /\ p.at = "invalidated"
          /\ p.job = op[i].job /\ p.verb = op[i].verb /\ ~p.listed
      <4> HIDE DEF k
      <4> QED BY <2>1, <3>2, <3>3, InvalidatedGood
    <3> HIDE DEF p
    <3>5. /\ Good(Settle(p)) /\ (Keeps(p) => Settle(p) = p)
          /\ Settle(p).at \in {p.at, "none"} /\ (Settle(p).listed => p.listed)
          /\ Settle(p).verb = p.verb /\ Settle(p).job \in {p.job, "none"}
      BY <3>4, Settles
    <3> QED BY <2>2, <3>1, <3>3, <3>4, <3>5 DEF Runs, Undecided
  <2>3. CASE i \notin S /\ swp(i)
    <3> DEFINE p == sw(i)
    <3>1. op'[i] = p
      BY <1>3, <2>3
    <3>2. op[i].waiting /\ ~Undecided(op[i]) /\ i \in gone
      BY <1>5, <2>3
    <3>3. /\ Good(p) /\ p.at = op[i].at /\ p.job = op[i].job
          /\ p.verb = op[i].verb /\ p.listed = op[i].listed
      BY <2>1, <3>2, SweptGood
    <3> HIDE DEF p
    <3> QED BY <1>2, <2>3, <3>1, <3>2, <3>3 DEF Runs, Undecided
  <2>4. CASE i \notin S /\ ~swp(i)
    <3>1. op'[i] = op[i] /\ ~Undecided(op[i]) /\ i \notin K
      BY <1>2, <1>3, <1>5, <2>4
    <3> QED BY <2>1, <3>1 DEF Runs
  <2> QED BY <2>2, <2>3, <2>4
<1> HIDE DEF sw, inv
<1>7. \A i \in Id : /\ rec'[i] = IF i \in gone THEN "none" ELSE rec[i]
                    /\ i \in bill' <=> i \in bill /\ i \notin gone
  BY <1>2
<1>8. rec' = [i \in Id |-> rec'[i]] /\ bill' \subseteq Id
  BY <1>2 DEF ArtifactInv, StoreInv, StoreTypes
<1>9. StoreTypes'
  BY <1>1, <1>7, <1>8 DEF ArtifactInv, StoreInv, StoreTypes
<1>10. ASSUME NEW i \in Id
       PROVE  /\ ~Nothing(i)' => i \notin gone /\ ~Nothing(i)
              /\ Leftover(i)' => i \notin gone /\ Leftover(i)
              /\ i \notin gone => i \notin S \/ i \in K
  BY <1>7, <1>a DEF Nothing, Leftover
<1>11. Ops'
  <2>1. ASSUME NEW i \in Id, ~Nothing(i)' PROVE Keeps(op'[i])
    <3>1. Keeps(op[i])
      BY <1>10, <2>1 DEF ArtifactInv, StoreInv, Ops
    <3> QED BY <1>6, <1>10, <2>1, <3>1
  <2>2. ASSUME NEW i \in Id, Leftover(i)' PROVE Lost(op'[i])
    <3>1. Lost(op[i])
      BY <1>10, <2>2 DEF ArtifactInv, StoreInv, Ops
    <3> QED BY <1>6, <1>10, <2>2, <3>1
  <2> QED BY <1>4, <1>6, <2>1, <2>2 DEF Ops
<1>12. Fences' /\ FenceTypes'
  <2>1. closing' = "swept" => \A i \in Id : rec'[i] = "none"
    BY <1>1, <1>7, <1>a
  <2> QED BY <1>1, <1>6, <2>1, ArtifactAssumption
       DEF Fences, FenceTypes, ArtifactInv, StoreInv
<1>13. BillExact'
  <2>1. \A i \in Id : rec'[i] # "none" => i \in bill'
    BY <1>7 DEF ArtifactInv, StoreInv, BillExact
  <2>2. healthy' => bill' = {i \in Id : rec'[i] # "none"}
    <3>1. ASSUME healthy' PROVE \A i \in Id : i \in bill' <=> rec'[i] # "none"
      <4>1. healthy /\ bill = {i \in Id : rec[i] # "none"}
        BY <1>1, <3>1 DEF ArtifactInv, StoreInv, BillExact
      <4> QED BY <1>7, <4>1
    <3> QED BY <1>8, <3>1
  <2> QED BY <2>1, <2>2 DEF BillExact
<1>14. InvalidatedLeavesNothing'
  BY <1>1, <1>7, <1>a DEF InvalidatedLeavesNothing
<1>15. Permits'
  BY <1>1, PermitsVoid DEF ArtifactInv, StoreInv
<1>16. \A a \in Ask : lease'[a] = NoLease
                        \/ (lease'[a] = lease[a] /\ lease[a].at # "held")
  BY <1>1 DEF VoidLeases
<1>17. Serving'
  BY <1>6, <1>16, NoLeaseType, ArtifactAssumption DEF ArtifactInv, StoreInv, Serving
<1>18. CoreInv'
  BY <1>1, <1>6, GenerationKept DEF ArtifactInv
<1>19. Published
  BY <1>6 DEF Published
<1> QED BY <1>9, <1>11, <1>12, <1>13, <1>14, <1>15, <1>17, <1>18, <1>19
     DEF ArtifactInv, StoreInv


-----------------------------------------------------------------------------
(***************************************************************************)
(* The steps of a retrieval.                                               *)
(***************************************************************************)

\* Whoever the permit is passed on to was waiting, and nobody is served yet.
LEMMA PassFacts ==
    ASSUME Permits, NEW a \in Ask,
           Holds(a) \/ (lease[a].at = "none" /\ ~Busy), PassOn(a)
    PROVE  \A b \in Ask :
              /\ lease'[b].at # "held"
              /\ lease'[b] = NoLease
                   \/ /\ lease'[b].id = lease[b].id
                      /\ lease'[b].at # "none" => lease[b].at # "none"
<1> USE DEF Permits
<1> DEFINE l == [lease EXCEPT ![a] = NoLease]
<1>1. l[a] = NoLease /\ l[a].at = "none" /\ \A b \in Ask : b # a => l[b] = lease[b]
  BY NoLeaseType DEF LeaseTypes
<1>2. \A b \in Ask : l[b].at # "held"
  BY <1>1 DEF Permit, Holds, Busy
<1>3. CASE queue = <<>>
  <2>1. lease' = l
    BY <1>3 DEF PassOn
  <2> HIDE DEF l
  <2> QED BY <1>1, <1>2, <2>1
<1>4. CASE queue # <<>>
  <2> DEFINE h == Head(queue)
  <2>1. h = queue[1] /\ h \in Ask /\ 1 \in 1..Len(queue)
    BY <1>4 DEF LeaseTypes
  <2>2. lease[h].at = "waiting"
    BY <2>1 DEF Permit
  <2>3. h # a
    BY <2>2 DEF Holds
  <2>4. lease' = [l EXCEPT ![h].at = "granted"]
    BY <1>4 DEF PassOn
  <2>5. /\ l \in [Ask -> [at : {"none", "waiting", "granted", "held"},
                          id : Id \cup {NoId}]]
    BY NoLeaseIn DEF LeaseTypes
  <2> HIDE DEF l, h
  <2>6. /\ lease'[h].at = "granted" /\ lease'[h].id = l[h].id
        /\ \A b \in Ask : b # h => lease'[b] = l[b]
    BY <2>1, <2>4, <2>5
  <2> QED BY <1>1, <1>2, <2>1, <2>2, <2>3, <2>6
<1> QED BY <1>3, <1>4

\* Only the permit moves.
LEMMA LeaseMoves ==
    ASSUME ArtifactInv, UNCHANGED <<op, store, closing, lineage, poisoned, core>>,
           Permits', Serving'
    PROVE  ArtifactInv' /\ Published
<1>1. UNCHANGED <<op, rec, bill, healthy, closing, lineage, poisoned, core>>
  BY DEF store
<1>2. Ops' /\ StoreTypes' /\ FenceTypes' /\ Fences' /\ BillExact'
      /\ InvalidatedLeavesNothing'
  BY <1>1 DEF ArtifactInv, StoreInv, Ops, Nothing, Leftover, StoreTypes, FenceTypes,
              Fences, BillExact, InvalidatedLeavesNothing
<1>3. CoreInv'
  BY <1>1, AllMove, GenerationKept DEF ArtifactInv
<1>4. Published
  BY <1>1 DEF Published
<1> QED BY <1>2, <1>3, <1>4 DEF ArtifactInv, StoreInv

\* The record that was served, or could not be read, is spent.
LEMMA DiscardServedKept ==
    ASSUME ArtifactInv, NEW a \in Ask, NEW i \in Id, NEW K \in SUBSET {i},
           Holds(a) \/ (lease[a].at = "none" /\ ~Busy), DiscardServed(a, i, K),
           UNCHANGED <<closing, lineage, poisoned, core>>
    PROVE  ArtifactInv' /\ Published
<1>0. FencesFollow
  BY SameFences, PoisonedType
<1>1. CASE K = {}
  <2> DEFINE p == Noted(op[i])
  <2>1. /\ rec' = [rec EXCEPT ![i] = "none"] /\ bill' = bill \ {i}
        /\ op' = [op EXCEPT ![i] = p] /\ PassOn(a) /\ healthy' = healthy
    BY <1>1 DEF DiscardServed
  <2>2. /\ Good(p) /\ p.at \in {op[i].at, "none"} /\ Runs(op[i], p)
        /\ (p.listed => op[i].listed)
    BY HasOp, NotedGood DEF Runs
  <2> HIDE DEF p
  <2>3. op'[i] = p /\ op' = [j \in Id |-> op'[j]] /\ \A j \in Id : j # i => op'[j] = op[j]
    BY <2>1 DEF ArtifactInv, StoreInv, Ops
  <2>4. StoreTypes' /\ rec'[i] = "none" /\ \A j \in Id : j # i => rec'[j] = rec[j]
    BY <2>1 DEF ArtifactInv, StoreInv, StoreTypes
  <2>5. /\ Nothing(i)' /\ ~Leftover(i)'
        /\ \A j \in Id : j # i => (Nothing(j)' <=> Nothing(j)) /\ (Leftover(j)' <=> Leftover(j))
    BY <2>1, <2>4 DEF Nothing, Leftover
  <2>6. Ops'
    BY <2>2, <2>3, <2>5 DEF ArtifactInv, StoreInv, Ops
  <2>7. Fences' /\ FenceTypes'
    BY <2>1, <2>2, <2>3, <2>5, ArtifactAssumption
       DEF ArtifactInv, StoreInv, Fences, FenceTypes, Undecided
  <2>8. BillExact'
    <3>1. \A j \in Id : rec'[j] # "none" => j \in bill'
      BY <2>1, <2>4 DEF ArtifactInv, StoreInv, BillExact
    <3>2. ASSUME healthy' PROVE bill' = {j \in Id : rec'[j] # "none"}
      <4>1. bill = {j \in Id : rec[j] # "none"}
        BY <2>1, <3>2 DEF ArtifactInv, StoreInv, BillExact
      <4> QED BY <2>1, <2>4, <4>1
    <3> QED BY <3>1, <3>2 DEF BillExact
  <2>9. InvalidatedLeavesNothing'
    BY <2>1, <2>3, <2>4 DEF ArtifactInv, StoreInv, InvalidatedLeavesNothing
  <2>10. Permits'
    BY <2>1, PermitsPass DEF ArtifactInv, StoreInv
  <2>11. \A b \in Ask :
            /\ lease'[b].at # "held"
            /\ lease'[b] = NoLease
                 \/ /\ lease'[b].id = lease[b].id
                    /\ lease'[b].at # "none" => lease[b].at # "none"
    BY <2>1, PassFacts DEF ArtifactInv, StoreInv
  <2>12. Serving'
    BY <2>2, <2>3, <2>11, NoLeaseType, ArtifactAssumption DEF ArtifactInv, StoreInv, Serving
  <2>13. CoreInv'
    BY <2>2, <2>3, GenerationKept DEF ArtifactInv, Runs
  <2>14. Published
    BY <2>2, <2>3 DEF Published
  <2> QED BY <2>4, <2>6, <2>7, <2>8, <2>9, <2>10, <2>12, <2>13, <2>14
       DEF ArtifactInv, StoreInv
<1>2. CASE K # {}
  <2>1. healthy' = FALSE /\ VoidLeases /\ UNCHANGED <<op, rec, bill>>
    BY <1>2 DEF DiscardServed
  <2>2. rec = [j \in Id |-> rec[j]] /\ {i} \in SUBSET Id
    BY DEF ArtifactInv, StoreInv, StoreTypes
  <2>3. Discard({i}, {i})
    BY <2>1, <2>2 DEF Discard
  <2>4. Follows({i}, {i})
    BY <2>1 DEF Follows, ArtifactInv, StoreInv, Ops
  <2>5. StoreInv'
    BY <1>0, <2>2, <2>3, <2>4, DiscardStep DEF ArtifactInv
  <2>6. CoreInv'
    BY <2>1, AllMove, GenerationKept DEF ArtifactInv
  <2>7. Published
    BY <2>1 DEF Published
  <2> QED BY <2>5, <2>6, <2>7 DEF ArtifactInv
<1> QED BY <1>1, <1>2

LEMMA ReadKept ==
    ASSUME ArtifactInv, NEW a \in Ask, NEW i \in Id, NEW proven \in BOOLEAN,
           NEW K \in SUBSET {i},
           lease[a].at = "granted" \/ (lease[a].at = "none" /\ ~Busy),
           Leasable(i), op[i].at \in {"committed", "none"}, Read(a, i, proven, K),
           UNCHANGED <<closing, lineage, poisoned, core>>
    PROVE  ArtifactInv' /\ Published
<1>1. CASE proven
  <2>1. /\ rec' = [rec EXCEPT ![i] = "consuming"] /\ rec[i] = "available"
        /\ lease' = [lease EXCEPT ![a] = [at |-> "held", id |-> i]]
        /\ UNCHANGED <<op, bill, healthy>> /\ queue' = queue
    BY <1>1 DEF Read, Leasable
  <2>2. StoreTypes' /\ rec'[i] = "consuming" /\ \A j \in Id : j # i => rec'[j] = rec[j]
    BY <2>1 DEF ArtifactInv, StoreInv, StoreTypes
  <2>3. \A j \in Id : rec'[j] = "none" <=> rec[j] = "none"
    BY <2>1, <2>2
  <2>4. \A j \in Id : (Nothing(j)' <=> Nothing(j)) /\ (Leftover(j)' <=> Leftover(j))
    BY <2>1, <2>3 DEF Nothing, Leftover
  <2>5. Ops' /\ Fences' /\ FenceTypes'
    BY <2>1, <2>3, <2>4 DEF ArtifactInv, StoreInv, Ops, Fences, FenceTypes
  <2>6. BillExact' /\ InvalidatedLeavesNothing'
    BY <2>1, <2>3 DEF ArtifactInv, StoreInv, BillExact, InvalidatedLeavesNothing
  <2>7. Permits'
    BY <2>1, PermitsHold DEF ArtifactInv, StoreInv
  <2>8. /\ lease'[a].at = "held" /\ lease'[a].id = i
        /\ \A b \in Ask : b # a => lease'[b] = lease[b]
    BY <2>1 DEF ArtifactInv, StoreInv, Permits, LeaseTypes
  <2>9. Serving'
    BY <2>1, <2>2, <2>8 DEF ArtifactInv, StoreInv, Serving
  <2>10. CoreInv'
    BY <2>1, AllMove, GenerationKept DEF ArtifactInv
  <2>11. Published
    BY <2>1 DEF Published
  <2> QED BY <2>2, <2>5, <2>6, <2>7, <2>9, <2>10, <2>11 DEF ArtifactInv, StoreInv
<1>2. CASE ~proven
  BY <1>2, DiscardServedKept DEF Read, Holds
<1> QED BY <1>1, <1>2

LEMMA AcquireKept ==
    ASSUME ArtifactInv, NEW a \in Ask, NEW i \in Id, NEW proven \in BOOLEAN,
           NEW K \in SUBSET {i}, Acquire(a, i, proven, K)
    PROVE  ArtifactInv' /\ Published
<1>1. /\ lease[a].at = "none" /\ Leasable(i) /\ op[i].at = "committed"
      /\ UNCHANGED <<closing, lineage, poisoned, core>>
  BY HasOp DEF Acquire, Good
<1>2. CASE Busy
  <2>1. /\ lease' = [lease EXCEPT ![a] = [at |-> "waiting", id |-> i]]
        /\ queue' = Append(queue, a) /\ UNCHANGED <<op, store>>
    BY <1>2 DEF Acquire
  <2>2. Permits'
    BY <1>1, <1>2, <2>1, PermitsWait DEF ArtifactInv, StoreInv
  <2>3. /\ lease'[a].at = "waiting" /\ lease'[a].id = i
        /\ \A b \in Ask : b # a => lease'[b] = lease[b]
    BY <2>1 DEF ArtifactInv, StoreInv, Permits, LeaseTypes
  <2>4. Serving'
    BY <1>1, <2>1, <2>3 DEF ArtifactInv, StoreInv, Serving, store
  <2> QED BY <1>1, <2>1, <2>2, <2>4, LeaseMoves
<1>3. CASE ~Busy
  BY <1>1, <1>3, ReadKept DEF Acquire
<1> QED BY <1>2, <1>3

LEMMA ResumeKept ==
    ASSUME ArtifactInv, NEW a \in Ask, NEW proven \in BOOLEAN,
           NEW K \in SUBSET {lease[a].id}, Resume(a, proven, K)
    PROVE  ArtifactInv' /\ Published
<1> DEFINE i == lease[a].id
<1>1. /\ lease[a].at = "granted" /\ i \in Id /\ op[i].at \in {"committed", "none"}
      /\ UNCHANGED <<closing, lineage, poisoned, core>>
  BY DEF Resume, ArtifactInv, StoreInv, Serving
<1>2. CASE Leasable(i)
  <2>1. Read(a, i, proven, K)
    BY <1>2 DEF Resume
  <2> QED BY <1>1, <1>2, <2>1, ReadKept
<1>3. CASE ~Leasable(i)
  <2>1. PassOn(a) /\ UNCHANGED <<op, store>>
    BY <1>3 DEF Resume
  <2>2. Holds(a)
    BY <1>1 DEF Holds
  <2>3. Permits'
    BY <2>1, <2>2, PermitsPass DEF ArtifactInv, StoreInv
  <2>4. \A b \in Ask :
           /\ lease'[b].at # "held"
           /\ lease'[b] = NoLease
                \/ /\ lease'[b].id = lease[b].id
                   /\ lease'[b].at # "none" => lease[b].at # "none"
    BY <2>1, <2>2, PassFacts DEF ArtifactInv, StoreInv
  <2>5. Serving'
    BY <2>1, <2>4, NoLeaseType, ArtifactAssumption DEF ArtifactInv, StoreInv, Serving
  <2> QED BY <1>1, <2>1, <2>3, <2>5, LeaseMoves
<1> QED BY <1>2, <1>3

LEMMA CompleteKept ==
    ASSUME ArtifactInv, NEW a \in Ask, NEW K \in SUBSET {lease[a].id}, Complete(a, K)
    PROVE  ArtifactInv' /\ Published
<1> DEFINE i == lease[a].id
<1>1. /\ lease[a].at = "held" /\ i \in Id /\ DiscardServed(a, i, K)
      /\ UNCHANGED <<closing, lineage, poisoned, core>>
  BY DEF Complete, ArtifactInv, StoreInv, Serving
<1>2. Holds(a)
  BY <1>1 DEF Holds
<1> HIDE DEF i
<1>3. K \in SUBSET {i}
  BY DEF i
<1> QED BY <1>1, <1>2, <1>3, DiscardServedKept

-----------------------------------------------------------------------------
(***************************************************************************)
(* Every step, and the results.                                            *)
(***************************************************************************)

LEMMA ArtifactInitial == Init => ArtifactInv
<1> SUFFICES ASSUME Init PROVE ArtifactInv
  OBVIOUS
<1>1. /\ op = [i \in Id |-> NoOp] /\ rec = [i \in Id |-> "none"] /\ bill = {}
      /\ healthy = TRUE /\ closing = "no" /\ lineage = "active" /\ poisoned = FALSE
      /\ core = FreshCore /\ lease = [a \in Ask |-> NoLease] /\ queue = <<>>
  BY DEF Init
<1>2. (\A i \in Id : op[i] = NoOp) /\ op = [i \in Id |-> op[i]]
  BY <1>1
<1>3. \A i \in Id : Nothing(i) /\ ~Leftover(i)
  BY <1>1 DEF Nothing, Leftover
<1>4. Ops
  BY <1>2, <1>3, NoOpGood DEF Ops
<1>5. StoreTypes /\ FenceTypes /\ Fences
  BY <1>1 DEF StoreTypes, FenceTypes, Fences
<1>6. BillExact /\ InvalidatedLeavesNothing
  BY <1>1 DEF BillExact, InvalidatedLeavesNothing
<1>7. \A a \in Ask : lease[a] = NoLease
  BY <1>1
<1>8. Serving
  BY <1>7, NoLeaseType, ArtifactAssumption DEF Serving
<1>9. LeaseTypes
  BY <1>1, NoLeaseIn DEF LeaseTypes
<1>10. Len(queue) = 0
  BY <1>1
<1>11. Permit
  BY <1>1, <1>7, <1>10, NoLeaseType DEF Permit, Holds
<1>12. CoreInv
  <2>1. 0 \in 0..MaxStray
    BY ArtifactAssumption
  <2> QED BY <1>1, <2>1 DEF CoreInv, CoreType, Generation, FreshCore
<1> QED BY <1>4, <1>5, <1>6, <1>8, <1>9, <1>11, <1>12 DEF ArtifactInv, StoreInv, Permits

LEMMA ArtifactStep ==
    ASSUME ArtifactInv, [Next]_vars
    PROVE  ArtifactInv' /\ Published
<1>1. CASE UNCHANGED vars
  <2>1. /\ UNCHANGED <<op, store, closing, lineage, poisoned, core>>
        /\ UNCHANGED permits
    BY <1>1 DEF vars
  <2>2. Permits'
    BY <2>1, PermitsKept DEF ArtifactInv, StoreInv
  <2>3. Serving'
    BY <2>1 DEF ArtifactInv, StoreInv, Serving, store, permits
  <2> QED BY <2>1, <2>2, <2>3, LeaseMoves
<1>2. CASE OperationStep
  <2>1. PICK i \in Id :
           \/ CreateOperation(i) \/ BeginGeneration(i) \/ BeginSettle(i) \/ Seal(i)
           \/ SealResumes(i) \/ StageStopped(i)
           \/ \E r \in {"stored", "refused", "leftover"} : Capture(i, r)
           \/ \E ok \in BOOLEAN : CleanupSettles(i, ok)
           \/ \E K \in SUBSET {i} :
                 \/ SettleTimeout(i, K) \/ StageFails(i, K) \/ CaptureResumes(i, K)
                 \/ CaptureTooLate(i, K) \/ Expire(i, K)
    BY <1>2 DEF OperationStep
  <2>2. CASE \/ CreateOperation(i) \/ BeginGeneration(i) \/ BeginSettle(i) \/ Seal(i)
             \/ SealResumes(i) \/ StageStopped(i)
    BY <2>2, CreateOperationKept, BeginGenerationKept, BeginSettleKept, SealKept,
       SealResumesKept, StageStoppedKept
  <2>3. CASE \E r \in {"stored", "refused", "leftover"} : Capture(i, r)
    BY <2>3, CaptureKept
  <2>4. CASE \E ok \in BOOLEAN : CleanupSettles(i, ok)
    BY <2>4, CleanupSettlesKept
  <2>5. CASE \E K \in SUBSET {i} :
                 \/ SettleTimeout(i, K) \/ StageFails(i, K) \/ CaptureResumes(i, K)
                 \/ CaptureTooLate(i, K) \/ Expire(i, K)
    BY <2>5, SettleTimeoutKept, StageFailsKept, CaptureResumesKept, CaptureTooLateKept,
       ExpireKept
  <2> QED BY <2>1, <2>2, <2>3, <2>4, <2>5
<1>3. CASE CoreStep
  BY <1>3, RouteDownloadKept, ClosePageKept, CloseCoreKept, StraySettlesKept,
     PageClosedKept DEF CoreStep
<1>4. CASE RuntimeStep
  BY <1>4, InvalidateControllerKept, DiscardControllerKept, CloseKept, CloseSettlesKept,
     NewControllerKept DEF RuntimeStep
<1>5. CASE LeaseStep
  <2>1. PICK a \in Ask :
           \/ \E i \in Id, proven \in BOOLEAN :
                 \E K \in SUBSET {i} : Acquire(a, i, proven, K)
           \/ \E proven \in BOOLEAN, K \in SUBSET {lease[a].id} : Resume(a, proven, K)
           \/ \E K \in SUBSET {lease[a].id} : Complete(a, K)
    BY <1>5 DEF LeaseStep
  <2>2. CASE \E i \in Id, proven \in BOOLEAN :
                \E K \in SUBSET {i} : Acquire(a, i, proven, K)
    BY <2>2, AcquireKept
  <2>3. CASE \E proven \in BOOLEAN, K \in SUBSET {lease[a].id} : Resume(a, proven, K)
    BY <2>3, ResumeKept
  <2>4. CASE \E K \in SUBSET {lease[a].id} : Complete(a, K)
    BY <2>4, CompleteKept
  <2> QED BY <2>1, <2>2, <2>3, <2>4
<1> QED BY <1>1, <1>2, <1>3, <1>4, <1>5 DEF Next

\* The invariant holds in every state: operations, store, fences, leases and the
\* core's generation agree with each other (src/artifacts/index.ts, store.ts,
\* src/browser/patchright-core.ts).
THEOREM ArtifactInvHolds == Spec => []ArtifactInv
<1>1. Init => ArtifactInv
  BY ArtifactInitial
<1>2. ArtifactInv /\ [Next]_vars => ArtifactInv'
  BY ArtifactStep
<1> QED BY <1>1, <1>2, PTL DEF Spec

\* Every variable of the artifact runtime keeps a value of its type, whatever the
\* filesystem, the download and the retrievals do.
THEOREM ArtifactTypeCorrect == Spec => []TypeOK
<1>1. ArtifactInv => TypeOK
  <2> SUFFICES ASSUME ArtifactInv PROVE TypeOK
    OBVIOUS
  <2>1. op = [i \in Id |-> op[i]] /\ \A i \in Id : op[i] \in OpState
    BY DEF ArtifactInv, StoreInv, Ops, Good
  <2>2. op \in [Id -> OpState]
    BY <2>1
  <2> QED BY <2>2 DEF ArtifactInv, StoreInv, StoreTypes, FenceTypes, CoreInv, CoreType,
                     Permits, LeaseTypes, TypeOK
<1> QED BY <1>1, ArtifactInvHolds, PTL

\* tryRelease frees an id only when nothing refers to it: no bytes, no capacity
\* reservation, no staging job, no driver copy and no response in the middle of
\* being served (src/artifacts/index.ts, tryRelease).
THEOREM ReleaseIsSafe == Spec => []ReleasedIsGone
<1>1. ArtifactInv => ReleasedIsGone
  <2> SUFFICES ASSUME ArtifactInv, NEW i \in Id, op[i].released
               PROVE  /\ rec[i] = "none" /\ i \notin bill
                      /\ ~Active(op[i]) /\ op[i].cleanup \notin {"running", "failed"}
                      /\ \A a \in Ask : lease[a].at = "held" => lease[a].id # i
    BY DEF ReleasedIsGone
  <2>1. Nothing(i)
    BY DEF ArtifactInv, StoreInv, Ops, Keeps
  <2>2. ~Active(op[i]) /\ op[i].cleanup \notin {"running", "failed"}
    BY HasOp DEF Good, Active
  <2>3. \A a \in Ask : lease[a].at = "held" => lease[a].id # i
    BY <2>1 DEF ArtifactInv, StoreInv, Serving, Nothing
  <2> QED BY <2>1, <2>2, <2>3 DEF Nothing
<1> QED BY <1>1, ArtifactInvHolds, PTL

\* The store's accounting: it never holds a record it has no reservation for, and
\* while it is healthy it reserves for exactly what it holds (src/artifacts/store.ts,
\* capture and discardArtifactDetailed).
THEOREM BillsAddUp == Spec => []BillExact
<1>1. ArtifactInv => BillExact
  BY DEF ArtifactInv, StoreInv
<1> QED BY <1>1, ArtifactInvHolds, PTL

\* Whatever invalidated an operation, a second download, the settlement deadline,
\* a failed staging, the controller's fence or close(), a store that can still
\* delete keeps no record of it (src/artifacts/index.ts, invalidate and stage).
THEOREM InvalidationCleans == Spec => []InvalidatedLeavesNothing
<1>1. ArtifactInv => InvalidatedLeavesNothing
  BY DEF ArtifactInv, StoreInv
<1> QED BY <1>1, ArtifactInvHolds, PTL

\* The response permit of acquireResponseLease and releaseResponse is never lost
\* and never shared (src/artifacts/store.ts).
THEOREM PermitIsExact == Spec => []PermitExact
<1>1. ArtifactInv => PermitExact
  <2> SUFFICES ASSUME Permits PROVE PermitExact
    BY DEF ArtifactInv, StoreInv
  <2> DEFINE H == {a \in Ask : lease[a].at \in {"granted", "held"}}
  <2>1. Cardinality(H) <= 1
    <3>1. \A a, b \in H : a = b
      BY DEF Permits, Permit, Holds
    <3>2. CASE H = {}
      <4>1. Cardinality({}) = 0
        BY FS_EmptySet
      <4> HIDE DEF H
      <4> QED BY <3>2, <4>1
    <3>3. CASE H # {}
      <4>1. PICK a : H = {a}
        BY <3>1, <3>3
      <4>2. Cardinality({a}) = 1
        BY FS_Singleton
      <4> HIDE DEF H
      <4> QED BY <4>1, <4>2
    <3> QED BY <3>2, <3>3
  <2>2. ASSUME NEW a \in Ask
        PROVE  (lease[a].at = "waiting")
                  <=> Cardinality({n \in DOMAIN queue : queue[n] = a}) = 1
    <3> DEFINE W == {n \in DOMAIN queue : queue[n] = a}
    <3>1. DOMAIN queue = 1..Len(queue)
      BY DEF Permits, LeaseTypes
    <3>2. \A m, n \in W : m = n
      BY <3>1 DEF Permits, Permit
    <3>3. (lease[a].at = "waiting") <=> W # {}
      BY <3>1 DEF Permits, Permit
    <3>4. W = {} => Cardinality(W) = 0
      BY FS_EmptySet
    <3>5. ASSUME W # {} PROVE Cardinality(W) = 1
      <4>1. PICK n : W = {n}
        BY <3>2, <3>5
      <4>2. Cardinality({n}) = 1
        BY FS_Singleton
      <4> HIDE DEF W
      <4> QED BY <4>1, <4>2
    <3> HIDE DEF W
    <3>6. (lease[a].at = "waiting") <=> Cardinality(W) = 1
      BY <3>3, <3>4, <3>5
    <3> QED BY <3>6 DEF W
  <2>3. queue # <<>> => Busy
    BY DEF Permits, Permit
  <2> HIDE DEF H
  <2> QED BY <2>1, <2>2, <2>3 DEF PermitExact, H
<1> QED BY <1>1, ArtifactInvHolds, PTL

\* invalidateController fences the lineage for good: no generation of it, open or
\* being sealed at that moment, is published by a later step
\* (src/artifacts/index.ts, invalidateController and seal).
THEOREM FenceHolds == Spec => FencedNeverPublishes
<1>1. ArtifactInv /\ [Next]_vars
        => [\A i \in DriveId : op'[i].listed /\ ~op[i].listed => lineage = "active"]_vars
  <2> SUFFICES ASSUME ArtifactInv, [Next]_vars, NEW i \in DriveId,
                      op'[i].listed, ~op[i].listed
               PROVE  lineage = "active"
    OBVIOUS
  <2>1. i \in Id
    BY ArtifactAssumption
  <2>2. Published
    BY ArtifactStep
  <2>3. Undecided(op[i])
    BY <2>1, <2>2 DEF Published
  <2> QED BY <2>3 DEF ArtifactInv, StoreInv, FenceTypes, Fences
<1> QED BY <1>1, ArtifactInvHolds, PTL DEF Spec, FencedNeverPublishes

=============================================================================
