------------------------- MODULE SessionPoolProofs -------------------------
(***************************************************************************)
(* Proofs about SessionPool, for every number of launches, consumers and   *)
(* process groups and every value of the caps: its variables keep their    *)
(* types, the reservations are exact, the caps hold, the ledgers are       *)
(* disjoint and nothing in them is stuck, and shutdown() is honest.        *)
(***************************************************************************)
EXTENDS SessionPool, FiniteSetTheorems, TLAPS

(* The inductive invariant. *)

Early(l) == acq[l] \in {"idle", "minting", "launching"}

\* Before its launch settles or times out, a launch has left no trace.
Fresh(l) ==
    Early(l) =>
        /\ l \notin sessions \cup closing \cup unconfirmed
        /\ l \notin orphans \cup watch \cup settled
        /\ teardown[l] = "none" /\ sweep[l] = "idle"

\* The factory promise follows acquire(), and whoever holds a core or a
\* settled record has a settled promise behind it.
Promise(l) ==
    /\ acq[l] \in {"idle", "minting"} <=> launchP[l] = "none"
    /\ acq[l] = "launching" => launchP[l] = "pending"
    /\ launchP[l] = "pending" => acq[l] \in {"launching", "returning", "done"}
    /\ l \in sessions \cup recSession \cup settled \cup unconfirmed
            => launchP[l] = "done"

\* A launch that is given up unsettled stays counted until it is parked.
GivenUp(l) ==
    launchP[l] = "pending" /\ ~Early(l) => l \in orphans \cup parked

\* Who is in charge of a core: its own teardown, a reconfirm or the sweep that
\* a settlement waits for, one at a time.
InCharge(l) ==
    /\ l \in closing => l \in sessions /\ teardown[l] # "none"
    /\ teardown[l] # "none" => /\ l \in closing \/ l \in recSession
                               /\ l \notin unconfirmed /\ l \notin deferred
    /\ l \in unconfirmed => (l \in sessions \/ l \in recSession) /\ l \notin deferred
    /\ reconfirm[l] # "none" => l \in unconfirmed
    /\ l \in deferred => l \in recSession /\ sweep[l] # "idle"
    /\ l \in recSession => teardown[l] # "none" \/ l \in unconfirmed \/ l \in deferred

\* Where a record is kept, and that a record without a core has a directory.
Kept(l) ==
    /\ l \in recSession => l \in orphans
    /\ l \in watch => l \in parked
    /\ sweep[l] # "idle" => l \in orphans \cup watch
    /\ l \in watch => l \notin orphans
    /\ l \in sessions => l \notin orphans \cup watch
    /\ l \in orphans \cup watch /\ l \notin recSession => dir[l] = "owned"

Books(l) == Fresh(l) /\ Promise(l) /\ GivenUp(l) /\ InCharge(l) /\ Kept(l)

PoolInv == \A l \in Launch : Books(l)


-----------------------------------------------------------------------------
(* Types. *)

\* The variables the settlement of a record writes.
LedgerTypes ==
    /\ stamps \in [Launch -> SUBSET Group]
    /\ sweep \in [Launch -> {"idle", "started", "polling"}]
    /\ older \in [Launch -> SUBSET Launch]
    /\ orphans \subseteq Launch /\ watch \subseteq Launch
    /\ recSession \subseteq Launch /\ deferred \subseteq Launch
    /\ dir \in [Launch -> {"none", "owned", "removing", "dropping", "removed"}]

\* #settleReapedOrphan writes values of the right types.
LEMMA SettleTypes ==
    ASSUME LedgerTypes, NEW l \in Launch, NEW sweeping,
           NEW owed \in SUBSET Group,
           NEW how \in {"removing", "dropping"},
           SettleReapedOrphan(l, sweeping, owed, how)
    PROVE  LedgerTypes'
<1> USE DEF LedgerTypes
<1>1. CASE sweeping # "idle"
  BY <1>1 DEF SettleReapedOrphan
<1>2. CASE sweeping = "idle" /\ dir[l] = "owned" /\ owed # {}
  BY <1>2 DEF SettleReapedOrphan
<1>3. CASE sweeping = "idle" /\ ~(dir[l] = "owned" /\ owed # {})
  <2>1. /\ FinalizeOrphan(l, how)
        /\ sweep' = [sweep EXCEPT ![l] = "idle"]
        /\ deferred' = deferred \ {l}
        /\ recSession' = recSession \ {l}
        /\ stamps' = [stamps EXCEPT ![l] = owed]
    BY <1>3 DEF SettleReapedOrphan
  <2>q. QED BY <2>1 DEF FinalizeOrphan, LeaveWatch, ForgetDir
<1>q. QED BY <1>1, <1>2, <1>3

\* What shutdown() goes on waiting for is a set of pairs of the right type.
LEMMA ContinueTypes ==
    ASSUME TypeOK, NEW l \in Launch, NEW k
    PROVE  Continue(l, k) \subseteq Launch \X WorkKind
BY DEF TypeOK, Continue, WorkKind

\* So does a sweep that fulfils, whatever its verdict.
LEMMA FulfilsTypes ==
    ASSUME LedgerTypes, parked \subseteq Launch, NEW l \in Launch, NEW result,
           NEW owed \in SUBSET Group, SweepFulfils(l, result, owed)
    PROVE  LedgerTypes' /\ parked' \subseteq Launch
<1> USE DEF LedgerTypes
<1>1. CASE l \in deferred
  <2>1. SettleReapedOrphan(l, "idle", owed, "removing") /\ parked' = parked
    BY <1>1 DEF SweepFulfils
  <2>q. QED BY <2>1, SettleTypes
<1>2. CASE l \notin deferred /\ l \in recSession
  <2>1. /\ sweep' = [sweep EXCEPT ![l] = "idle"]
        /\ stamps' = [stamps EXCEPT ![l] = owed]
        /\ UNCHANGED <<orphans, watch, older, parked, dir, recSession, deferred>>
    BY <1>2 DEF SweepFulfils, ledgerVars
  <2>q. QED BY <2>1
<1>3. CASE l \notin deferred /\ l \notin recSession
  <2>1. /\ sweep' = [sweep EXCEPT ![l] = "idle"]
        /\ stamps' = [stamps EXCEPT ![l] = owed]
        /\ UNCHANGED <<recSession, deferred>>
        /\ ApplyVerdict(l, result)
    BY <1>3 DEF SweepFulfils
  <2>2. /\ orphans' \subseteq Launch /\ parked' \subseteq Launch
        /\ dir' \in [Launch -> {"none", "owned", "removing", "dropping",
                                "removed"}]
    BY <2>1
    DEF ApplyVerdict, FinalizeOrphan, ForgetDir, WatchLaunch, ledgerVars
  <2>3. watch' \subseteq Launch /\ older' \in [Launch -> SUBSET Launch]
    <3>1. CASE LeaveWatch(l)
      BY <3>1 DEF LeaveWatch
    <3>2. CASE WatchLaunch(l)
      BY <3>2 DEF WatchLaunch, WatchAfterCap
    <3>3. CASE UNCHANGED <<watch, older>>
      BY <3>3
    <3>q. QED
      BY <2>1, <3>1, <3>2, <3>3 DEF ApplyVerdict, FinalizeOrphan, ledgerVars
  <2>q. QED BY <2>1, <2>2, <2>3
<1>q. QED BY <1>1, <1>2, <1>3

\* The end of a teardown keeps the types of everything but procs.
LEMMA TeardownConfirmsTypes ==
    ASSUME TypeOK, NEW l \in Launch, TeardownConfirms(l), LedgerTypes,
           procs' \in [Launch -> [Group -> {"none", "visible", "hidden", "dead"}]]
    PROVE  TypeOK'
<1>1. /\ teardown' = [teardown EXCEPT ![l] = "none"]
      /\ UNCHANGED <<owner, launchP, reserved, reservedByConsumer, unconfirmed,
                     reconfirm, forceKill, tick, sd, sdTries>>
  BY DEF TeardownConfirms
<1>2. CASE l \in closing
  <2>1. /\ sessions' = sessions \ {l} /\ closing' = closing \ {l}
        /\ dir' = ForgetDir(l, "removing")
        /\ sdAwait' \subseteq sdAwait
        /\ UNCHANGED <<acq, ledgerVars, recordVars>>
    BY <1>2 DEF TeardownConfirms
  <2>q. QED BY <1>1, <2>1 DEF TypeOK, ForgetDir, ledgerVars, recordVars
<1>3. CASE l \notin closing
  <2>1. /\ SettleReapedOrphan(l, sweep[l], stamps[l], "removing")
        /\ sdAwait' = Continue(l, "late")
        /\ acq' \in {acq, [acq EXCEPT ![l] = "returning"],
                          [acq EXCEPT ![l] = "settling"]}
        /\ UNCHANGED <<sessions, closing, parked, settled, seen>>
    BY <1>3 DEF TeardownConfirms
  <2>2. LedgerTypes'
    BY <2>1, SettleTypes DEF LedgerTypes
  <2>3. sdAwait' \subseteq Launch \X WorkKind
    BY <2>1, ContinueTypes
  <2>4. acq' \in [Launch -> {"idle", "minting", "launching", "reaping",
                            "settling", "returning", "done"}]
    BY <2>1 DEF TypeOK
  <2>5. UNCHANGED <<sessions, closing, parked, settled, seen>>
    BY <2>1
  <2>q. QED BY <1>1, <2>2, <2>3, <2>4, <2>5 DEF TypeOK, LedgerTypes
<1>q. QED BY <1>2, <1>3

\* A launch in flight holds a reservation, of its consumer too.
LEMMA ReservedPositive ==
    ASSUME TypeOK, ReservationsExact, NEW l \in InFlight
    PROVE  /\ reserved - 1 \in Nat
           /\ \A c \in Consumer : owner[l] = c => reservedByConsumer[c] - 1 \in Nat
<1>1. IsFiniteSet(InFlight)
  BY PoolAssumption, FS_Subset DEF InFlight
<1>2. ASSUME NEW T \in SUBSET InFlight, l \in T
      PROVE  Cardinality(T) \in Nat \ {0}
  <2>1. IsFiniteSet(T)
    BY <1>1, FS_Subset
  <2>q. QED BY <1>2, <2>1, FS_EmptySet, FS_CardinalityType
<1>3. reserved \in Nat \ {0}
  BY <1>2 DEF ReservationsExact
<1>4. ASSUME NEW c \in Consumer, owner[l] = c
      PROVE  reservedByConsumer[c] \in Nat \ {0}
  <2>1. l \in InFlight \cap OwnedBy(c)
    BY <1>4 DEF OwnedBy, InFlight
  <2>q. QED BY <1>2, <2>1 DEF ReservationsExact
<1>q. QED BY <1>3, <1>4

\* Every step keeps the types.
LEMMA TypeStep ==
    ASSUME TypeOK, ReservationsExact, [Next]_vars
    PROVE  TypeOK'
<1>0. LedgerTypes /\ parked \subseteq Launch
  BY DEF TypeOK, LedgerTypes
<1> USE PoolAssumption DEF TypeOK, WorkKind, Owner
<1>Acquire. ASSUME NEW l \in Launch, NEW c \in Owner, Acquire(l, c)
     PROVE  TypeOK'
  BY <1>Acquire DEF Acquire, launchVars, sessionVars, ledgerVars, recordVars,
     controlVars
<1>CallFactory. ASSUME NEW l \in Launch, NEW d \in DirOutcomes,
                       CallFactory(l, d)
     PROVE  TypeOK'
  BY <1>CallFactory DEF CallFactory, launchVars, sessionVars, ledgerVars,
     recordVars, controlVars
<1>FactoryThrows. ASSUME NEW l \in Launch, NEW d \in DirOutcomes,
                         FactoryThrows(l, d)
     PROVE  TypeOK'
  BY <1>FactoryThrows DEF FactoryThrows, EnqueueOrphan, launchVars,
     sessionVars, ledgerVars, recordVars, controlVars
<1>LaunchFails. ASSUME NEW l \in Launch, LaunchFails(l)
     PROVE  TypeOK'
  BY <1>LaunchFails DEF LaunchFails, EnqueueOrphan, launchVars, sessionVars,
     ledgerVars, recordVars, controlVars
<1>LaunchTimesOut. ASSUME NEW l \in Launch, LaunchTimesOut(l)
     PROVE  TypeOK'
  BY <1>LaunchTimesOut DEF LaunchTimesOut, EnqueueOrphan, launchVars,
     sessionVars, ledgerVars, recordVars, controlVars
<1>LaunchRegisters. ASSUME NEW l \in Launch, LaunchRegisters(l)
     PROVE  TypeOK'
  BY <1>LaunchRegisters DEF LaunchRegisters, launchVars, sessionVars,
     ledgerVars, recordVars, controlVars
<1>LaunchMeetsShutdown. ASSUME NEW l \in Launch, LaunchMeetsShutdown(l)
     PROVE  TypeOK'
  BY <1>LaunchMeetsShutdown DEF LaunchMeetsShutdown, launchVars, sessionVars,
     ledgerVars, recordVars, controlVars
<1>AcquireReturns. ASSUME NEW l \in Launch, AcquireReturns(l)
     PROVE  TypeOK'
  <2>1. l \in InFlight
    BY <1>AcquireReturns DEF AcquireReturns, InFlight
  <2>2. /\ reserved' \in Nat
        /\ reservedByConsumer' \in [Consumer -> Nat]
    BY <1>AcquireReturns, <2>1, ReservedPositive DEF AcquireReturns
  <2>q. QED
    BY <1>AcquireReturns, <2>2
    DEF AcquireReturns, launchVars, sessionVars, ledgerVars, recordVars,
        controlVars
<1>Spawn. ASSUME NEW l \in Launch, Spawn(l)
     PROVE  TypeOK'
  BY <1>Spawn DEF Spawn, launchVars, sessionVars, ledgerVars, recordVars,
     controlVars
<1>GroupDies. ASSUME NEW l \in Launch, NEW g \in Group, GroupDies(l, g)
     PROVE  TypeOK'
  BY <1>GroupDies DEF GroupDies, launchVars, sessionVars, ledgerVars,
     recordVars, controlVars
<1>CarrierDies. ASSUME NEW l \in Launch, NEW g \in Group, CarrierDies(l, g)
     PROVE  TypeOK'
  BY <1>CarrierDies DEF CarrierDies, launchVars, sessionVars, ledgerVars,
     recordVars, controlVars
<1>LateResolve. ASSUME NEW l \in Launch, LateResolve(l)
     PROVE  TypeOK'
  BY <1>LateResolve DEF LateResolve, LeaveWatch, launchVars, sessionVars,
     ledgerVars, recordVars, controlVars
<1>LateReject. ASSUME NEW l \in Launch, LateReject(l)
     PROVE  TypeOK'
  BY <1>LateReject DEF LateReject, launchVars, sessionVars, ledgerVars,
     recordVars, controlVars
<1>RemoveSettles. ASSUME NEW l \in Launch, RemoveSettles(l)
     PROVE  TypeOK'
  BY <1>RemoveSettles DEF RemoveSettles, launchVars, sessionVars, ledgerVars,
     recordVars, controlVars
<1>Release. ASSUME NEW l \in Launch, Release(l)
     PROVE  TypeOK'
  BY <1>Release DEF Release, BeginTeardown, launchVars, sessionVars,
     ledgerVars, recordVars, controlVars
<1>CloseResolves. ASSUME NEW l \in Launch, CloseResolves(l)
     PROVE  TypeOK'
  <2>1. procs' \in [Launch -> [Group -> {"none", "visible", "hidden", "dead"}]]
    BY <1>CloseResolves DEF CloseResolves
  <2>2. CASE TeardownConfirms(l)
    BY <2>1, <2>2, <1>0, TeardownConfirmsTypes
  <2>3. CASE ~TeardownConfirms(l)
    <3>1. /\ teardown' = [teardown EXCEPT ![l] = "kill"]
          /\ UNCHANGED <<launchVars, dir, sessions, closing, unconfirmed,
                         reconfirm, forceKill, ledgerVars, recordVars,
                         controlVars>>
      BY <1>CloseResolves, <2>3 DEF CloseResolves
    <3>q. QED
      BY <2>1, <3>1
      DEF launchVars, sessionVars, ledgerVars, recordVars, controlVars
  <2>q. QED BY <2>2, <2>3
<1>CloseFails. ASSUME NEW l \in Launch, CloseFails(l)
     PROVE  TypeOK'
  BY <1>CloseFails DEF CloseFails, launchVars, sessionVars, ledgerVars,
     recordVars, controlVars
<1>KillConfirms. ASSUME NEW l \in Launch, KillConfirms(l)
     PROVE  TypeOK'
  BY <1>KillConfirms, <1>0, TeardownConfirmsTypes DEF KillConfirms
<1>KillGivesUp. ASSUME NEW l \in Launch, KillGivesUp(l)
     PROVE  TypeOK'
  BY <1>KillGivesUp DEF KillGivesUp, TeardownUnconfirmed, launchVars,
     sessionVars, ledgerVars, recordVars, controlVars
<1>ReconfirmConfirms. ASSUME NEW l \in Launch, ReconfirmConfirms(l)
     PROVE  TypeOK'
  <2>1. CASE l \in recSession
    <3>1. PICK how \in {"removing", "dropping"} :
              SettleReapedOrphan(l, sweep[l], stamps[l], how)
      BY <1>ReconfirmConfirms, <2>1 DEF ReconfirmConfirms
    <3>2. LedgerTypes'
      BY <3>1, SettleTypes, <1>0
    <3>3. sdAwait' \subseteq Launch \X WorkKind
      BY <1>ReconfirmConfirms, <2>1, ContinueTypes DEF ReconfirmConfirms
    <3>4. /\ reconfirm' = [reconfirm EXCEPT ![l] = "none"]
          /\ sessions' = sessions \ {l} /\ unconfirmed' = unconfirmed \ {l}
          /\ UNCHANGED <<parked, settled, seen, launchVars, procs, closing,
                         teardown, forceKill, tick, sd, sdTries>>
      BY <1>ReconfirmConfirms, <2>1 DEF ReconfirmConfirms
    <3>q. QED
      BY <3>2, <3>3, <3>4 DEF LedgerTypes, launchVars
  <2>2. CASE l \notin recSession
    BY <1>ReconfirmConfirms, <2>2
    DEF ReconfirmConfirms, ForgetDir, launchVars, sessionVars, ledgerVars,
        recordVars, controlVars
  <2>q. QED BY <2>1, <2>2
<1>ReconfirmGivesUp. ASSUME NEW l \in Launch, ReconfirmGivesUp(l)
     PROVE  TypeOK'
  BY <1>ReconfirmGivesUp DEF ReconfirmGivesUp, launchVars, sessionVars,
     ledgerVars, recordVars, controlVars
<1>SweepPolls. ASSUME NEW l \in Launch, SweepPolls(l)
     PROVE  TypeOK'
  BY <1>SweepPolls DEF SweepPolls, Visible, launchVars, sessionVars,
     ledgerVars, recordVars, controlVars
<1>SweepConfirms. ASSUME NEW l \in Launch, SweepConfirms(l)
     PROVE  TypeOK'
  <2>1. LedgerTypes' /\ parked' \subseteq Launch
    BY <1>SweepConfirms, FulfilsTypes, <1>0 DEF SweepConfirms
  <2>2. Continue(l, "sweep") \subseteq Launch \X WorkKind
    BY ContinueTypes
  <2>q. QED
    BY <1>SweepConfirms, <2>1, <2>2
    DEF SweepConfirms, SweepFulfils, LedgerTypes, launchVars, sessionVars,
        ledgerVars, recordVars, controlVars
<1>SweepUnconfirmed. ASSUME NEW l \in Launch, SweepUnconfirmed(l)
     PROVE  TypeOK'
  <2>1. PICK found \in SUBSET Visible(l) :
            /\ SweepFulfils(l, "unconfirmed", stamps[l] \cup found)
            /\ seen' = [seen EXCEPT ![l] = @ \cup (found \ {MainGroup})]
    BY <1>SweepUnconfirmed DEF SweepUnconfirmed
  <2>2. found \in SUBSET Group
    BY DEF Visible
  <2>3. LedgerTypes' /\ parked' \subseteq Launch
    <3>1. stamps[l] \cup found \in SUBSET Group
      BY <2>2
    <3>q. QED BY <2>1, <3>1, FulfilsTypes, <1>0
  <2>4. Continue(l, "sweep") \subseteq Launch \X WorkKind
    BY ContinueTypes
  <2>q. QED
    BY <2>1, <2>2, <2>3, <2>4
    DEF SweepFulfils, LedgerTypes, launchVars, sessionVars, ledgerVars,
        recordVars, controlVars
<1>SweepUnsupported. ASSUME NEW l \in Launch, SweepUnsupported(l)
     PROVE  TypeOK'
  <2>1. LedgerTypes' /\ parked' \subseteq Launch
    BY <1>SweepUnsupported, FulfilsTypes, <1>0 DEF SweepUnsupported
  <2>2. Continue(l, "sweep") \subseteq Launch \X WorkKind
    BY ContinueTypes
  <2>q. QED
    BY <1>SweepUnsupported, <2>1, <2>2
    DEF SweepUnsupported, SweepFulfils, LedgerTypes, launchVars, sessionVars,
        ledgerVars, recordVars, controlVars
<1>SweepRejects. ASSUME NEW l \in Launch, SweepRejects(l)
     PROVE  TypeOK'
  <2>1. CASE l \in deferred
    <3>1. SettleReapedOrphan(l, "idle", stamps[l], "removing")
      BY <1>SweepRejects, <2>1 DEF SweepRejects
    <3>2. LedgerTypes'
      BY <3>1, SettleTypes, <1>0
    <3>q. QED
      BY <1>SweepRejects, <2>1, <3>2
      DEF SweepRejects, LedgerTypes, launchVars, sessionVars, ledgerVars,
          recordVars, controlVars
  <2>2. CASE l \notin deferred
    <3>1. /\ sweep' = [sweep EXCEPT ![l] = "idle"]
          /\ orphans' \subseteq Launch
          /\ sdAwait' \subseteq sdAwait
          /\ UNCHANGED <<dir, parked, recSession, deferred, stamps, launchVars,
                         procs, sessionVars, settled, seen, tick, sd, sdTries>>
      BY <1>SweepRejects, <2>2 DEF SweepRejects
    <3>2. watch' \subseteq Launch /\ older' \in [Launch -> SUBSET Launch]
      BY <1>SweepRejects, <2>2 DEF SweepRejects, LeaveWatch
    <3>q. QED BY <3>1, <3>2 DEF launchVars, sessionVars
  <2>q. QED BY <2>1, <2>2
<1>TickReleases. ASSUME NEW S \in SUBSET sessions, TickReleases(S)
     PROVE  TypeOK'
  BY <1>TickReleases DEF TickReleases, BeginTeardown, launchVars, sessionVars,
     ledgerVars, recordVars, controlVars
<1>TickDrains. ASSUME TickDrains
     PROVE  TypeOK'
  BY <1>TickDrains DEF TickDrains, DrainUnconfirmed, launchVars, sessionVars,
     ledgerVars, recordVars, controlVars
<1>TickSweeps. ASSUME TickSweeps
     PROVE  TypeOK'
  BY <1>TickSweeps DEF TickSweeps, SweepAll, WatchAfterCap, launchVars,
     sessionVars, ledgerVars, recordVars, controlVars
<1>ShutdownBegins. ASSUME ShutdownBegins
     PROVE  TypeOK'
  BY <1>ShutdownBegins
  DEF ShutdownBegins, InFlight, launchVars, sessionVars, ledgerVars,
     recordVars, controlVars
<1>ShutdownAwaitsWork. ASSUME NEW from, NEW to \in {"work", "work2", "work3"},
                              ShutdownAwaitsWork(from, to)
     PROVE  TypeOK'
  BY <1>ShutdownAwaitsWork DEF ShutdownAwaitsWork, OrphanWork, launchVars,
     sessionVars, ledgerVars, recordVars, controlVars
<1>ShutdownTearsDown. ASSUME ShutdownTearsDown
     PROVE  TypeOK'
  BY <1>ShutdownTearsDown DEF ShutdownTearsDown, BeginTeardown, launchVars,
     sessionVars, ledgerVars, recordVars, controlVars
<1>ShutdownDrains. ASSUME ShutdownDrains
     PROVE  TypeOK'
  BY <1>ShutdownDrains DEF ShutdownDrains, DrainUnconfirmed, DrainDue,
     launchVars, sessionVars, ledgerVars, recordVars, controlVars
<1>ShutdownSweeps. ASSUME ShutdownSweeps
     PROVE  TypeOK'
  BY <1>ShutdownSweeps DEF ShutdownSweeps, SweepAll, launchVars, sessionVars,
     ledgerVars, recordVars, controlVars
<1>ShutdownReturns. ASSUME ShutdownReturns
     PROVE  TypeOK'
  BY <1>ShutdownReturns DEF ShutdownReturns, launchVars, sessionVars,
     ledgerVars, recordVars, controlVars
<1>Exit. CASE Exit \/ UNCHANGED vars
  BY <1>Exit DEF Exit, vars, launchVars, sessionVars, ledgerVars, recordVars,
     controlVars
<1>q. QED BY <1>Acquire, <1>CallFactory, <1>FactoryThrows, <1>LaunchFails,
     <1>LaunchTimesOut, <1>LaunchRegisters, <1>LaunchMeetsShutdown,
     <1>AcquireReturns, <1>Spawn, <1>GroupDies, <1>CarrierDies, <1>LateResolve,
     <1>LateReject, <1>RemoveSettles, <1>Release, <1>CloseResolves,
     <1>CloseFails, <1>KillConfirms, <1>KillGivesUp, <1>ReconfirmConfirms,
     <1>ReconfirmGivesUp, <1>SweepPolls, <1>SweepConfirms, <1>SweepUnconfirmed,
     <1>SweepUnsupported, <1>SweepRejects, <1>TickReleases, <1>TickDrains,
     <1>TickSweeps, <1>ShutdownBegins, <1>ShutdownAwaitsWork,
     <1>ShutdownTearsDown, <1>ShutdownDrains, <1>ShutdownSweeps,
     <1>ShutdownReturns, <1>Exit
     DEF Next, AcquireStep, WorldStep, SessionStep, SweepStep, TickStep,
         ShutdownStep

-----------------------------------------------------------------------------
(* The books. *)

\* Every step keeps the books of every launch.
LEMMA BooksStep ==
    ASSUME TypeOK, PoolInv, [Next]_vars
    PROVE  PoolInv'
<1> SUFFICES ASSUME NEW m \in Launch
             PROVE  Books(m)'
  BY DEF PoolInv
<1> USE PoolAssumption
    DEF TypeOK, PoolInv, Books, Early, Fresh, Promise, GivenUp, InCharge, Kept
<1>Acquire. ASSUME NEW l \in Launch, NEW c \in Owner, Acquire(l, c)
     PROVE  Books(m)'
  BY <1>Acquire DEF Acquire, launchVars, sessionVars, ledgerVars, recordVars,
     controlVars
<1>CallFactory. ASSUME NEW l \in Launch, NEW d \in DirOutcomes,
                       CallFactory(l, d)
     PROVE  Books(m)'
  BY <1>CallFactory DEF CallFactory, launchVars, sessionVars, ledgerVars,
     recordVars, controlVars
<1>FactoryThrows. ASSUME NEW l \in Launch, NEW d \in DirOutcomes,
                         FactoryThrows(l, d)
     PROVE  Books(m)'
  BY <1>FactoryThrows DEF FactoryThrows, EnqueueOrphan, launchVars,
     sessionVars, ledgerVars, recordVars, controlVars
<1>LaunchFails. ASSUME NEW l \in Launch, LaunchFails(l)
     PROVE  Books(m)'
  BY <1>LaunchFails DEF LaunchFails, EnqueueOrphan, launchVars, sessionVars,
     ledgerVars, recordVars, controlVars
<1>LaunchTimesOut. ASSUME NEW l \in Launch, LaunchTimesOut(l)
     PROVE  Books(m)'
  BY <1>LaunchTimesOut DEF LaunchTimesOut, EnqueueOrphan, launchVars,
     sessionVars, ledgerVars, recordVars, controlVars
<1>LaunchRegisters. ASSUME NEW l \in Launch, LaunchRegisters(l)
     PROVE  Books(m)'
  BY <1>LaunchRegisters DEF LaunchRegisters, launchVars, sessionVars,
     ledgerVars, recordVars, controlVars
<1>LaunchMeetsShutdown. ASSUME NEW l \in Launch, LaunchMeetsShutdown(l)
     PROVE  Books(m)'
  BY <1>LaunchMeetsShutdown DEF LaunchMeetsShutdown, launchVars, sessionVars,
     ledgerVars, recordVars, controlVars
<1>AcquireReturns. ASSUME NEW l \in Launch, AcquireReturns(l)
     PROVE  Books(m)'
  BY <1>AcquireReturns DEF AcquireReturns, launchVars, sessionVars, ledgerVars,
     recordVars, controlVars
<1>Spawn. ASSUME NEW l \in Launch, Spawn(l)
     PROVE  Books(m)'
  BY <1>Spawn DEF Spawn, launchVars, sessionVars, ledgerVars, recordVars,
     controlVars
<1>GroupDies. ASSUME NEW l \in Launch, NEW g \in Group, GroupDies(l, g)
     PROVE  Books(m)'
  BY <1>GroupDies DEF GroupDies, launchVars, sessionVars, ledgerVars,
     recordVars, controlVars
<1>CarrierDies. ASSUME NEW l \in Launch, NEW g \in Group, CarrierDies(l, g)
     PROVE  Books(m)'
  BY <1>CarrierDies DEF CarrierDies, launchVars, sessionVars, ledgerVars,
     recordVars, controlVars
<1>LateResolve. ASSUME NEW l \in Launch, LateResolve(l)
     PROVE  Books(m)'
  BY <1>LateResolve DEF LateResolve, LeaveWatch, launchVars, sessionVars,
     ledgerVars, recordVars, controlVars
<1>LateReject. ASSUME NEW l \in Launch, LateReject(l)
     PROVE  Books(m)'
  BY <1>LateReject DEF LateReject, launchVars, sessionVars, ledgerVars,
     recordVars, controlVars
<1>RemoveSettles. ASSUME NEW l \in Launch, RemoveSettles(l)
     PROVE  Books(m)'
  BY <1>RemoveSettles DEF RemoveSettles, launchVars, sessionVars, ledgerVars,
     recordVars, controlVars
<1>Release. ASSUME NEW l \in Launch, Release(l)
     PROVE  Books(m)'
  BY <1>Release DEF Release, BeginTeardown, launchVars, sessionVars,
     ledgerVars, recordVars, controlVars
<1>CloseResolves. ASSUME NEW l \in Launch, CloseResolves(l)
     PROVE  Books(m)'
  BY <1>CloseResolves DEF CloseResolves, TeardownConfirms, SettleReapedOrphan,
     FinalizeOrphan, LeaveWatch, ForgetDir, launchVars, sessionVars,
     ledgerVars, recordVars, controlVars
<1>CloseFails. ASSUME NEW l \in Launch, CloseFails(l)
     PROVE  Books(m)'
  BY <1>CloseFails DEF CloseFails, launchVars, sessionVars, ledgerVars,
     recordVars, controlVars
<1>KillConfirms. ASSUME NEW l \in Launch, KillConfirms(l)
     PROVE  Books(m)'
  BY <1>KillConfirms DEF KillConfirms, TeardownConfirms, SettleReapedOrphan,
     FinalizeOrphan, LeaveWatch, ForgetDir, launchVars, sessionVars,
     ledgerVars, recordVars, controlVars
<1>KillGivesUp. ASSUME NEW l \in Launch, KillGivesUp(l)
     PROVE  Books(m)'
  BY <1>KillGivesUp DEF KillGivesUp, TeardownUnconfirmed, launchVars,
     sessionVars, ledgerVars, recordVars, controlVars
<1>ReconfirmConfirms. ASSUME NEW l \in Launch, ReconfirmConfirms(l)
     PROVE  Books(m)'
  BY <1>ReconfirmConfirms DEF ReconfirmConfirms, SettleReapedOrphan,
     FinalizeOrphan, LeaveWatch, ForgetDir, launchVars, sessionVars,
     ledgerVars, recordVars, controlVars
<1>ReconfirmGivesUp. ASSUME NEW l \in Launch, ReconfirmGivesUp(l)
     PROVE  Books(m)'
  BY <1>ReconfirmGivesUp DEF ReconfirmGivesUp, launchVars, sessionVars,
     ledgerVars, recordVars, controlVars
<1>SweepPolls. ASSUME NEW l \in Launch, SweepPolls(l)
     PROVE  Books(m)'
  BY <1>SweepPolls DEF SweepPolls, Visible, launchVars, sessionVars,
     ledgerVars, recordVars, controlVars
<1>SweepConfirms. ASSUME NEW l \in Launch, SweepConfirms(l)
     PROVE  Books(m)'
  <2>1. CASE l \in deferred \/ l \in recSession
    BY <1>SweepConfirms, <2>1
    DEF SweepConfirms, SweepFulfils, SettleReapedOrphan, FinalizeOrphan,
        LeaveWatch, ForgetDir, launchVars, sessionVars, ledgerVars, recordVars,
        controlVars
  <2>2. CASE l \notin deferred /\ l \notin recSession /\ ~WatchLaunch(l)
    BY <1>SweepConfirms, <2>2
    DEF SweepConfirms, SweepFulfils, ApplyVerdict, FinalizeOrphan, LeaveWatch,
        ForgetDir, launchVars, sessionVars, ledgerVars, recordVars, controlVars
  <2>3. CASE l \notin deferred /\ l \notin recSession /\ WatchLaunch(l)
    BY <1>SweepConfirms, <2>3
    DEF SweepConfirms, SweepFulfils, ApplyVerdict, WatchLaunch, WatchAfterCap,
        FinalizeOrphan, launchVars, sessionVars, ledgerVars, recordVars, controlVars
  <2>q. QED BY <2>1, <2>2, <2>3
<1>SweepUnconfirmed. ASSUME NEW l \in Launch, SweepUnconfirmed(l)
     PROVE  Books(m)'
  BY <1>SweepUnconfirmed DEF SweepUnconfirmed, Visible, SweepFulfils,
     ApplyVerdict, WatchLaunch, WatchAfterCap, SettleReapedOrphan,
     FinalizeOrphan, LeaveWatch, ForgetDir, launchVars, sessionVars,
     ledgerVars, recordVars, controlVars
<1>SweepUnsupported. ASSUME NEW l \in Launch, SweepUnsupported(l)
     PROVE  Books(m)'
  BY <1>SweepUnsupported DEF SweepUnsupported, SweepFulfils, ApplyVerdict,
     WatchLaunch, WatchAfterCap, SettleReapedOrphan, FinalizeOrphan,
     LeaveWatch, ForgetDir, launchVars, sessionVars, ledgerVars, recordVars,
     controlVars
<1>SweepRejects. ASSUME NEW l \in Launch, SweepRejects(l)
     PROVE  Books(m)'
  BY <1>SweepRejects DEF SweepRejects, SettleReapedOrphan, FinalizeOrphan,
     LeaveWatch, ForgetDir, launchVars, sessionVars, ledgerVars, recordVars,
     controlVars
<1>TickReleases. ASSUME NEW S \in SUBSET sessions, TickReleases(S)
     PROVE  Books(m)'
  BY <1>TickReleases DEF TickReleases, BeginTeardown, launchVars, sessionVars,
     ledgerVars, recordVars, controlVars
<1>TickDrains. ASSUME TickDrains
     PROVE  Books(m)'
  BY <1>TickDrains DEF TickDrains, DrainUnconfirmed, launchVars, sessionVars,
     ledgerVars, recordVars, controlVars
<1>TickSweeps. ASSUME TickSweeps
     PROVE  Books(m)'
  BY <1>TickSweeps DEF TickSweeps, SweepAll, WatchAfterCap, launchVars,
     sessionVars, ledgerVars, recordVars, controlVars
<1>ShutdownBegins. ASSUME ShutdownBegins
     PROVE  Books(m)'
  BY <1>ShutdownBegins DEF ShutdownBegins, launchVars, sessionVars, ledgerVars,
     recordVars, controlVars
<1>ShutdownAwaitsWork. ASSUME NEW from, NEW to \in {"work", "work2", "work3"},
                              ShutdownAwaitsWork(from, to)
     PROVE  Books(m)'
  BY <1>ShutdownAwaitsWork DEF ShutdownAwaitsWork, OrphanWork, launchVars,
     sessionVars, ledgerVars, recordVars, controlVars
<1>ShutdownTearsDown. ASSUME ShutdownTearsDown
     PROVE  Books(m)'
  BY <1>ShutdownTearsDown DEF ShutdownTearsDown, BeginTeardown, launchVars,
     sessionVars, ledgerVars, recordVars, controlVars
<1>ShutdownDrains. ASSUME ShutdownDrains
     PROVE  Books(m)'
  BY <1>ShutdownDrains DEF ShutdownDrains, DrainUnconfirmed, DrainDue,
     launchVars, sessionVars, ledgerVars, recordVars, controlVars
<1>ShutdownSweeps. ASSUME ShutdownSweeps
     PROVE  Books(m)'
  BY <1>ShutdownSweeps DEF ShutdownSweeps, SweepAll, launchVars, sessionVars,
     ledgerVars, recordVars, controlVars
<1>ShutdownReturns. ASSUME ShutdownReturns
     PROVE  Books(m)'
  BY <1>ShutdownReturns DEF ShutdownReturns, launchVars, sessionVars,
     ledgerVars, recordVars, controlVars
<1>Exit. CASE Exit \/ UNCHANGED vars
  BY <1>Exit DEF Exit, vars, launchVars, sessionVars, ledgerVars, recordVars,
     controlVars
<1>q. QED BY <1>Acquire, <1>CallFactory, <1>FactoryThrows, <1>LaunchFails,
     <1>LaunchTimesOut, <1>LaunchRegisters, <1>LaunchMeetsShutdown,
     <1>AcquireReturns, <1>Spawn, <1>GroupDies, <1>CarrierDies, <1>LateResolve,
     <1>LateReject, <1>RemoveSettles, <1>Release, <1>CloseResolves,
     <1>CloseFails, <1>KillConfirms, <1>KillGivesUp, <1>ReconfirmConfirms,
     <1>ReconfirmGivesUp, <1>SweepPolls, <1>SweepConfirms, <1>SweepUnconfirmed,
     <1>SweepUnsupported, <1>SweepRejects, <1>TickReleases, <1>TickDrains,
     <1>TickSweeps, <1>ShutdownBegins, <1>ShutdownAwaitsWork,
     <1>ShutdownTearsDown, <1>ShutdownDrains, <1>ShutdownSweeps,
     <1>ShutdownReturns, <1>Exit
     DEF Next, AcquireStep, WorldStep, SessionStep, SweepStep, TickStep,
         ShutdownStep

-----------------------------------------------------------------------------
(* The reservations and the caps. *)

\* A step that neither admits a launch nor ends an acquire(): the reservations
\* stay, and nothing enters the count that was not in it or parked before.
Quiet ==
    /\ UNCHANGED <<owner, reserved, reservedByConsumer>>
    /\ InFlight' = InFlight
    /\ Counted' \ parked' \subseteq Counted \ parked

\* Every step is quiet except an admission and the end of an acquire().
LEMMA QuietStep ==
    ASSUME TypeOK, PoolInv, [Next]_vars
    PROVE  \/ Quiet
           \/ \E l \in Launch : AcquireReturns(l)
           \/ \E l \in Launch, c \in Owner : Acquire(l, c)
<1> USE PoolAssumption
    DEF TypeOK, PoolInv, Books, Early, Fresh, GivenUp, InCharge, Kept, Quiet,
        InFlight, Counted
<1>CallFactory. ASSUME NEW l \in Launch, NEW d \in DirOutcomes,
                       CallFactory(l, d)
     PROVE  Quiet
  BY <1>CallFactory DEF CallFactory, launchVars, sessionVars, ledgerVars,
     recordVars, controlVars
<1>FactoryThrows. ASSUME NEW l \in Launch, NEW d \in DirOutcomes,
                         FactoryThrows(l, d)
     PROVE  Quiet
  BY <1>FactoryThrows DEF FactoryThrows, EnqueueOrphan, launchVars,
     sessionVars, ledgerVars, recordVars, controlVars
<1>LaunchFails. ASSUME NEW l \in Launch, LaunchFails(l)
     PROVE  Quiet
  BY <1>LaunchFails DEF LaunchFails, EnqueueOrphan, launchVars, sessionVars,
     ledgerVars, recordVars, controlVars
<1>LaunchTimesOut. ASSUME NEW l \in Launch, LaunchTimesOut(l)
     PROVE  Quiet
  BY <1>LaunchTimesOut DEF LaunchTimesOut, EnqueueOrphan, launchVars,
     sessionVars, ledgerVars, recordVars, controlVars
<1>LaunchRegisters. ASSUME NEW l \in Launch, LaunchRegisters(l)
     PROVE  Quiet
  BY <1>LaunchRegisters DEF LaunchRegisters, launchVars, sessionVars,
     ledgerVars, recordVars, controlVars
<1>LaunchMeetsShutdown. ASSUME NEW l \in Launch, LaunchMeetsShutdown(l)
     PROVE  Quiet
  BY <1>LaunchMeetsShutdown DEF LaunchMeetsShutdown, launchVars, sessionVars,
     ledgerVars, recordVars, controlVars
<1>Spawn. ASSUME NEW l \in Launch, Spawn(l)
     PROVE  Quiet
  BY <1>Spawn DEF Spawn, launchVars, sessionVars, ledgerVars, recordVars,
     controlVars
<1>GroupDies. ASSUME NEW l \in Launch, NEW g \in Group, GroupDies(l, g)
     PROVE  Quiet
  BY <1>GroupDies DEF GroupDies, launchVars, sessionVars, ledgerVars,
     recordVars, controlVars
<1>CarrierDies. ASSUME NEW l \in Launch, NEW g \in Group, CarrierDies(l, g)
     PROVE  Quiet
  BY <1>CarrierDies DEF CarrierDies, launchVars, sessionVars, ledgerVars,
     recordVars, controlVars
<1>LateResolve. ASSUME NEW l \in Launch, LateResolve(l)
     PROVE  Quiet
  <2>1. l \in orphans \cup parked
    BY <1>LateResolve DEF LateResolve
  <2>2. /\ orphans' = orphans \cup {l}
        /\ UNCHANGED <<owner, acq, reserved, reservedByConsumer, sessions, parked>>
    BY <1>LateResolve DEF LateResolve
  <2>q. QED BY <2>1, <2>2
<1>LateReject. ASSUME NEW l \in Launch, LateReject(l)
     PROVE  Quiet
  <2>1. l \in orphans \cup parked
    BY <1>LateReject DEF LateReject
  <2>2. /\ orphans' \subseteq orphans \cup {l}
        /\ UNCHANGED <<owner, acq, reserved, reservedByConsumer, sessions, parked>>
    BY <1>LateReject DEF LateReject, sessionVars
  <2>q. QED BY <2>1, <2>2
<1>RemoveSettles. ASSUME NEW l \in Launch, RemoveSettles(l)
     PROVE  Quiet
  BY <1>RemoveSettles DEF RemoveSettles, launchVars, sessionVars, ledgerVars,
     recordVars, controlVars
<1>Release. ASSUME NEW l \in Launch, Release(l)
     PROVE  Quiet
  BY <1>Release DEF Release, BeginTeardown, launchVars, sessionVars,
     ledgerVars, recordVars, controlVars
<1>CloseResolves. ASSUME NEW l \in Launch, CloseResolves(l)
     PROVE  Quiet
  BY <1>CloseResolves DEF CloseResolves, TeardownConfirms, SettleReapedOrphan,
     FinalizeOrphan, LeaveWatch, ForgetDir, launchVars, sessionVars,
     ledgerVars, recordVars, controlVars
<1>CloseFails. ASSUME NEW l \in Launch, CloseFails(l)
     PROVE  Quiet
  BY <1>CloseFails DEF CloseFails, launchVars, sessionVars, ledgerVars,
     recordVars, controlVars
<1>KillConfirms. ASSUME NEW l \in Launch, KillConfirms(l)
     PROVE  Quiet
  BY <1>KillConfirms DEF KillConfirms, TeardownConfirms, SettleReapedOrphan,
     FinalizeOrphan, LeaveWatch, ForgetDir, launchVars, sessionVars,
     ledgerVars, recordVars, controlVars
<1>KillGivesUp. ASSUME NEW l \in Launch, KillGivesUp(l)
     PROVE  Quiet
  BY <1>KillGivesUp DEF KillGivesUp, TeardownUnconfirmed, launchVars,
     sessionVars, ledgerVars, recordVars, controlVars
<1>ReconfirmConfirms. ASSUME NEW l \in Launch, ReconfirmConfirms(l)
     PROVE  Quiet
  BY <1>ReconfirmConfirms DEF ReconfirmConfirms, SettleReapedOrphan,
     FinalizeOrphan, LeaveWatch, ForgetDir, launchVars, sessionVars,
     ledgerVars, recordVars, controlVars
<1>ReconfirmGivesUp. ASSUME NEW l \in Launch, ReconfirmGivesUp(l)
     PROVE  Quiet
  BY <1>ReconfirmGivesUp DEF ReconfirmGivesUp, launchVars, sessionVars,
     ledgerVars, recordVars, controlVars
<1>SweepPolls. ASSUME NEW l \in Launch, SweepPolls(l)
     PROVE  Quiet
  BY <1>SweepPolls DEF SweepPolls, Visible, launchVars, sessionVars,
     ledgerVars, recordVars, controlVars
<1>SweepConfirms. ASSUME NEW l \in Launch, SweepConfirms(l)
     PROVE  Quiet
  <2>1. CASE l \in deferred \/ l \in recSession
    BY <1>SweepConfirms, <2>1
    DEF SweepConfirms, SweepFulfils, SettleReapedOrphan, FinalizeOrphan,
        LeaveWatch, ForgetDir, launchVars, sessionVars, ledgerVars, recordVars,
        controlVars
  <2>2. CASE l \notin deferred /\ l \notin recSession /\ ~WatchLaunch(l)
    BY <1>SweepConfirms, <2>2
    DEF SweepConfirms, SweepFulfils, ApplyVerdict, FinalizeOrphan, LeaveWatch,
        ForgetDir, launchVars, sessionVars, ledgerVars, recordVars, controlVars
  <2>3. CASE l \notin deferred /\ l \notin recSession /\ WatchLaunch(l)
    BY <1>SweepConfirms, <2>3
    DEF SweepConfirms, SweepFulfils, ApplyVerdict, WatchLaunch, WatchAfterCap,
        FinalizeOrphan, launchVars, sessionVars, ledgerVars, recordVars, controlVars
  <2>q. QED BY <2>1, <2>2, <2>3
<1>SweepUnconfirmed. ASSUME NEW l \in Launch, SweepUnconfirmed(l)
     PROVE  Quiet
  BY <1>SweepUnconfirmed DEF SweepUnconfirmed, Visible, SweepFulfils,
     ApplyVerdict, WatchLaunch, WatchAfterCap, SettleReapedOrphan,
     FinalizeOrphan, LeaveWatch, ForgetDir, launchVars, sessionVars,
     ledgerVars, recordVars, controlVars
<1>SweepUnsupported. ASSUME NEW l \in Launch, SweepUnsupported(l)
     PROVE  Quiet
  BY <1>SweepUnsupported DEF SweepUnsupported, SweepFulfils, ApplyVerdict,
     WatchLaunch, WatchAfterCap, SettleReapedOrphan, FinalizeOrphan,
     LeaveWatch, ForgetDir, launchVars, sessionVars, ledgerVars, recordVars,
     controlVars
<1>SweepRejects. ASSUME NEW l \in Launch, SweepRejects(l)
     PROVE  Quiet
  BY <1>SweepRejects DEF SweepRejects, SettleReapedOrphan, FinalizeOrphan,
     LeaveWatch, ForgetDir, launchVars, sessionVars, ledgerVars, recordVars,
     controlVars
<1>TickReleases. ASSUME NEW S \in SUBSET sessions, TickReleases(S)
     PROVE  Quiet
  BY <1>TickReleases DEF TickReleases, BeginTeardown, launchVars, sessionVars,
     ledgerVars, recordVars, controlVars
<1>TickDrains. ASSUME TickDrains
     PROVE  Quiet
  BY <1>TickDrains DEF TickDrains, DrainUnconfirmed, launchVars, sessionVars,
     ledgerVars, recordVars, controlVars
<1>TickSweeps. ASSUME TickSweeps
     PROVE  Quiet
  BY <1>TickSweeps DEF TickSweeps, SweepAll, WatchAfterCap, launchVars,
     sessionVars, ledgerVars, recordVars, controlVars
<1>ShutdownBegins. ASSUME ShutdownBegins
     PROVE  Quiet
  BY <1>ShutdownBegins DEF ShutdownBegins, launchVars, sessionVars, ledgerVars,
     recordVars, controlVars
<1>ShutdownAwaitsWork. ASSUME NEW from, NEW to \in {"work", "work2", "work3"},
                              ShutdownAwaitsWork(from, to)
     PROVE  Quiet
  BY <1>ShutdownAwaitsWork DEF ShutdownAwaitsWork, OrphanWork, launchVars,
     sessionVars, ledgerVars, recordVars, controlVars
<1>ShutdownTearsDown. ASSUME ShutdownTearsDown
     PROVE  Quiet
  BY <1>ShutdownTearsDown DEF ShutdownTearsDown, BeginTeardown, launchVars,
     sessionVars, ledgerVars, recordVars, controlVars
<1>ShutdownDrains. ASSUME ShutdownDrains
     PROVE  Quiet
  BY <1>ShutdownDrains DEF ShutdownDrains, DrainUnconfirmed, DrainDue,
     launchVars, sessionVars, ledgerVars, recordVars, controlVars
<1>ShutdownSweeps. ASSUME ShutdownSweeps
     PROVE  Quiet
  BY <1>ShutdownSweeps DEF ShutdownSweeps, SweepAll, launchVars, sessionVars,
     ledgerVars, recordVars, controlVars
<1>ShutdownReturns. ASSUME ShutdownReturns
     PROVE  Quiet
  BY <1>ShutdownReturns DEF ShutdownReturns, launchVars, sessionVars,
     ledgerVars, recordVars, controlVars
<1>Exit. CASE Exit \/ UNCHANGED vars
  BY <1>Exit DEF Exit, vars, launchVars, sessionVars, ledgerVars, recordVars,
     controlVars
<1>q. QED BY <1>CallFactory, <1>FactoryThrows, <1>LaunchFails,
     <1>LaunchTimesOut, <1>LaunchRegisters, <1>LaunchMeetsShutdown,
     <1>Spawn, <1>GroupDies, <1>CarrierDies, <1>LateResolve,
     <1>LateReject, <1>RemoveSettles, <1>Release, <1>CloseResolves,
     <1>CloseFails, <1>KillConfirms, <1>KillGivesUp, <1>ReconfirmConfirms,
     <1>ReconfirmGivesUp, <1>SweepPolls, <1>SweepConfirms, <1>SweepUnconfirmed,
     <1>SweepUnsupported, <1>SweepRejects, <1>TickReleases, <1>TickDrains,
     <1>TickSweeps, <1>ShutdownBegins, <1>ShutdownAwaitsWork,
     <1>ShutdownTearsDown, <1>ShutdownDrains, <1>ShutdownSweeps,
     <1>ShutdownReturns, <1>Exit
     DEF Next, AcquireStep, WorldStep, SessionStep, SweepStep, TickStep,
         ShutdownStep

\* A reservation lives exactly as long as its acquire() call.
LEMMA ReservationsStep ==
    ASSUME TypeOK, PoolInv, ReservationsExact, [Next]_vars
    PROVE  ReservationsExact'
<1>fin. IsFiniteSet(InFlight) /\ \A c : IsFiniteSet(InFlight \cap OwnedBy(c))
  BY PoolAssumption, FS_Subset DEF InFlight
<1>1. CASE Quiet
  BY <1>1 DEF Quiet, ReservationsExact, OwnedBy
<1>2. ASSUME NEW l \in Launch, AcquireReturns(l)
      PROVE  ReservationsExact'
  <2>1. /\ InFlight' = InFlight \ {l} /\ l \in InFlight
        /\ owner' = owner
    BY <1>2 DEF AcquireReturns, InFlight, TypeOK
  <2>2. reserved' = Cardinality(InFlight')
    BY <1>2, <1>fin, <2>1, FS_RemoveElement
    DEF AcquireReturns, ReservationsExact
  <2>3. ASSUME NEW c \in Consumer
        PROVE  reservedByConsumer'[c] = Cardinality((InFlight \cap OwnedBy(c))')
    <3>1. CASE owner[l] = c
      <4>1. (InFlight \cap OwnedBy(c))' = (InFlight \cap OwnedBy(c)) \ {l}
        BY <2>1 DEF OwnedBy
      <4>2. l \in InFlight \cap OwnedBy(c)
        BY <2>1, <3>1 DEF OwnedBy
      <4>3. reservedByConsumer'[c] = reservedByConsumer[c] - 1
        BY <1>2, <3>1 DEF AcquireReturns
      <4>4. IsFiniteSet(InFlight \cap OwnedBy(c))
        BY <1>fin
      <4>5. Cardinality((InFlight \cap OwnedBy(c)) \ {l})
                = Cardinality(InFlight \cap OwnedBy(c)) - 1
        BY <4>2, <4>4, FS_RemoveElement
      <4>6. reservedByConsumer[c] = Cardinality(InFlight \cap OwnedBy(c))
        BY DEF ReservationsExact
      <4>q. QED BY <4>1, <4>3, <4>5, <4>6
    <3>2. CASE owner[l] # c
      <4>1. (InFlight \cap OwnedBy(c))' = InFlight \cap OwnedBy(c)
        BY <2>1, <3>2 DEF OwnedBy
      <4>2. reservedByConsumer'[c] = reservedByConsumer[c]
        BY <1>2, <3>2 DEF AcquireReturns
      <4>q. QED BY <4>1, <4>2 DEF ReservationsExact
    <3>q. QED BY <3>1, <3>2
  <2>q. QED BY <2>2, <2>3 DEF ReservationsExact
<1>3. ASSUME NEW l \in Launch, NEW c \in Owner, Acquire(l, c)
      PROVE  ReservationsExact'
  <2>1. /\ InFlight' = InFlight \cup {l} /\ l \notin InFlight
        /\ \A m \in Launch : owner'[m] = IF m = l THEN c ELSE owner[m]
    BY <1>3 DEF Acquire, InFlight, TypeOK
  <2>2. reserved' = Cardinality(InFlight')
    BY <1>3, <1>fin, <2>1, FS_AddElement DEF Acquire, ReservationsExact
  <2>3. ASSUME NEW k \in Consumer
        PROVE  reservedByConsumer'[k] = Cardinality((InFlight \cap OwnedBy(k))')
    <3>1. CASE k = c
      <4>1. (InFlight \cap OwnedBy(k))' = (InFlight \cap OwnedBy(k)) \cup {l}
        BY <2>1, <3>1 DEF OwnedBy, InFlight
      <4>2. l \notin InFlight \cap OwnedBy(k)
        BY <2>1
      <4>3. reservedByConsumer'[k] = reservedByConsumer[k] + 1
        BY <1>3, <3>1 DEF Acquire
      <4>4. IsFiniteSet(InFlight \cap OwnedBy(k))
        BY <1>fin
      <4>5. Cardinality((InFlight \cap OwnedBy(k)) \cup {l})
                = Cardinality(InFlight \cap OwnedBy(k)) + 1
        BY <4>2, <4>4, FS_AddElement
      <4>6. reservedByConsumer[k] = Cardinality(InFlight \cap OwnedBy(k))
        BY DEF ReservationsExact
      <4>q. QED BY <4>1, <4>3, <4>5, <4>6
    <3>2. CASE k # c
      <4>1. (InFlight \cap OwnedBy(k))' = InFlight \cap OwnedBy(k)
        BY <2>1, <3>2 DEF OwnedBy, InFlight
      <4>2. reservedByConsumer'[k] = reservedByConsumer[k]
        BY <1>3, <3>2 DEF Acquire
      <4>q. QED BY <4>1, <4>2 DEF ReservationsExact
    <3>q. QED BY <3>1, <3>2
  <2>q. QED BY <2>2, <2>3 DEF ReservationsExact
<1>q. QED BY <1>1, <1>2, <1>3, QuietStep

\* Three finite sets together are no larger than their sizes added.
LEMMA UnionBound ==
    ASSUME NEW A, NEW B, NEW C, IsFiniteSet(A), IsFiniteSet(B), IsFiniteSet(C)
    PROVE  /\ IsFiniteSet(A \cup B \cup C)
           /\ Cardinality(A \cup B \cup C)
                  <= Cardinality(A) + Cardinality(B) + Cardinality(C)
<1>1. /\ IsFiniteSet(A \cup B)
      /\ Cardinality(A \cup B) = Cardinality(A) + Cardinality(B)
                                   - Cardinality(A \cap B)
  BY FS_Union
<1>2. /\ IsFiniteSet((A \cup B) \cup C)
      /\ Cardinality((A \cup B) \cup C)
            = Cardinality(A \cup B) + Cardinality(C)
                - Cardinality((A \cup B) \cap C)
  BY <1>1, FS_Union
<1>3. /\ IsFiniteSet(A \cap B) /\ IsFiniteSet((A \cup B) \cap C)
  BY <1>1, FS_Subset
<1>4. /\ Cardinality(A) \in Nat /\ Cardinality(B) \in Nat
      /\ Cardinality(C) \in Nat /\ Cardinality(A \cup B) \in Nat
      /\ Cardinality(A \cap B) \in Nat /\ Cardinality((A \cup B) \cap C) \in Nat
  BY <1>1, <1>3, FS_CardinalityType
<1>q. QED BY <1>1, <1>2, <1>4

\* No step breaks a cap: an admission is checked against everything counted,
\* and nothing else enters the count.
LEMMA CapsStep ==
    ASSUME TypeOK, PoolInv, ReservationsExact, GlobalCap, ConsumerCap,
           [Next]_vars
    PROVE  GlobalCap' /\ ConsumerCap'
<1>fin. \A T \in SUBSET Launch : IsFiniteSet(T) /\ Cardinality(T) \in Nat
  BY PoolAssumption, FS_Subset, FS_CardinalityType
<1>sub. Counted \subseteq Launch
  BY DEF TypeOK, Counted, InFlight
<1>shrink. ASSUME Counted' \ parked' \subseteq Counted \ parked, owner' = owner
           PROVE  GlobalCap' /\ ConsumerCap'
  <2>1. ASSUME NEW T \in SUBSET Launch, NEW U \in SUBSET T
        PROVE  Cardinality(U) <= Cardinality(T)
    BY <1>fin, FS_Subset
  <2>2. Cardinality(Counted' \ parked') <= Cardinality(Counted \ parked)
    BY <1>shrink, <1>sub, <2>1
  <2>3. GlobalCap'
    <3>1. Cardinality(Counted \ parked) \in Nat /\ Cardinality(Counted' \ parked') \in Nat
      BY <1>shrink, <1>fin, <1>sub
    <3>q. QED BY <2>2, <3>1, PoolAssumption DEF GlobalCap
  <2>4. ASSUME NEW c \in Consumer
        PROVE  Cardinality((Counted' \cap OwnedBy(c)') \ parked') <= PerConsumerMax
    <3>1. (Counted' \cap OwnedBy(c)') \ parked'
              \subseteq (Counted \cap OwnedBy(c)) \ parked
      BY <1>shrink DEF OwnedBy
    <3>2. Cardinality((Counted' \cap OwnedBy(c)') \ parked')
              <= Cardinality((Counted \cap OwnedBy(c)) \ parked)
      BY <1>sub, <2>1, <3>1
    <3>3. /\ Cardinality((Counted \cap OwnedBy(c)) \ parked) \in Nat
          /\ Cardinality((Counted' \cap OwnedBy(c)') \ parked') \in Nat
      BY <1>fin, <1>sub, <3>1
    <3>q. QED BY <3>2, <3>3, PoolAssumption DEF ConsumerCap
  <2>q. QED BY <2>3, <2>4 DEF ConsumerCap
<1>1. CASE Quiet
  BY <1>1, <1>shrink DEF Quiet
<1>2. ASSUME NEW l \in Launch, AcquireReturns(l)
      PROVE  GlobalCap' /\ ConsumerCap'
  <2>1. Counted' \ parked' \subseteq Counted \ parked /\ owner' = owner
    BY <1>2
    DEF AcquireReturns, Counted, InFlight, TypeOK, sessionVars, ledgerVars
  <2>q. QED BY <2>1, <1>shrink
<1>3. ASSUME NEW l \in Launch, NEW c \in Owner, Acquire(l, c)
      PROVE  GlobalCap' /\ ConsumerCap'
  <2>1. /\ InFlight' = InFlight \cup {l} /\ l \notin InFlight
        /\ \A m \in Launch : owner'[m] = IF m = l THEN c ELSE owner[m]
        /\ UNCHANGED <<sessions, orphans, parked>>
        /\ l \notin sessions \cup orphans
    BY <1>3 DEF Acquire, InFlight, TypeOK, PoolInv, Books, Fresh, Early,
       sessionVars, ledgerVars
  <2>2. ASSUME NEW A \in SUBSET InFlight, NEW B \in SUBSET sessions,
               NEW C \in SUBSET orphans, NEW D \in SUBSET (A \cup B \cup C \cup {l})
        PROVE  Cardinality(D)
                   <= Cardinality(A) + Cardinality(B) + Cardinality(C) + 1
    <3>1. A \in SUBSET Launch /\ B \in SUBSET Launch /\ C \in SUBSET Launch
      BY DEF TypeOK, InFlight
    <3>2. /\ IsFiniteSet(A \cup B \cup C)
          /\ Cardinality(A \cup B \cup C)
                <= Cardinality(A) + Cardinality(B) + Cardinality(C)
      BY <1>fin, <3>1, UnionBound
    <3>3. /\ IsFiniteSet((A \cup B \cup C) \cup {l})
          /\ Cardinality((A \cup B \cup C) \cup {l})
                <= Cardinality(A \cup B \cup C) + 1
      <4>1. \/ Cardinality((A \cup B \cup C) \cup {l}) = Cardinality(A \cup B \cup C)
            \/ Cardinality((A \cup B \cup C) \cup {l})
                  = Cardinality(A \cup B \cup C) + 1
        BY <3>2, FS_AddElement
      <4>2. Cardinality(A \cup B \cup C) \in Nat
        BY <3>2, FS_CardinalityType
      <4>q. QED BY <3>2, <4>1, <4>2, FS_AddElement
    <3>4. Cardinality(D) <= Cardinality((A \cup B \cup C) \cup {l})
      BY <3>3, FS_Subset
    <3>5. /\ Cardinality(A) \in Nat /\ Cardinality(B) \in Nat
          /\ Cardinality(C) \in Nat /\ Cardinality(A \cup B \cup C) \in Nat
          /\ Cardinality((A \cup B \cup C) \cup {l}) \in Nat
          /\ Cardinality(D) \in Nat
      BY <1>fin, <3>1, <3>2, <3>3, FS_CardinalityType, FS_Subset
    <3>q. QED BY <3>2, <3>3, <3>4, <3>5
  <2>3. GlobalCap'
    <3>1. Counted' \ parked' \in SUBSET (InFlight \cup sessions \cup orphans \cup {l})
      BY <2>1 DEF Counted
    <3>2. Cardinality(Counted' \ parked')
              <= Cardinality(InFlight) + Cardinality(sessions)
                     + Cardinality(orphans) + 1
      BY <2>2, <3>1
    <3>3. Cardinality(sessions) + Cardinality(orphans) + Cardinality(InFlight)
              < MaxSessions
      BY <1>3 DEF Acquire, ActiveCount, ReservationsExact
    <3>4. /\ Cardinality(InFlight) \in Nat /\ Cardinality(sessions) \in Nat
          /\ Cardinality(orphans) \in Nat
          /\ Cardinality(Counted' \ parked') \in Nat
      BY <1>fin, <3>1 DEF TypeOK, InFlight
    <3>q. QED BY <3>2, <3>3, <3>4, PoolAssumption DEF GlobalCap
  <2>4. ASSUME NEW k \in Consumer
        PROVE  Cardinality((Counted' \cap OwnedBy(k)') \ parked') <= PerConsumerMax
    <3> DEFINE D == (Counted' \cap OwnedBy(k)') \ parked'
    <3>1. CASE k # c
      <4>1. D \subseteq (Counted \cap OwnedBy(k)) \ parked
        BY <2>1, <3>1 DEF OwnedBy, Counted
      <4>2. Cardinality(D) <= Cardinality((Counted \cap OwnedBy(k)) \ parked)
        BY <1>fin, <1>sub, <4>1, FS_Subset
      <4>3. /\ Cardinality(D) \in Nat
            /\ Cardinality((Counted \cap OwnedBy(k)) \ parked) \in Nat
        BY <1>fin, <1>sub, <4>1
      <4>q. QED BY <4>2, <4>3, PoolAssumption DEF ConsumerCap
    <3>2. CASE k = c
      <4>1. D \in SUBSET ((InFlight \cap OwnedBy(k)) \cup (sessions \cap OwnedBy(k))
                             \cup (orphans \cap OwnedBy(k)) \cup {l})
        BY <2>1 DEF Counted, OwnedBy
      <4>2. Cardinality(D)
                <= Cardinality(InFlight \cap OwnedBy(k))
                     + Cardinality(sessions \cap OwnedBy(k))
                     + Cardinality(orphans \cap OwnedBy(k)) + 1
        BY <2>2, <4>1
      <4>3. Cardinality(InFlight \cap OwnedBy(k))
                + Cardinality(sessions \cap OwnedBy(k))
                + Cardinality(orphans \cap OwnedBy(k)) < PerConsumerMax
        BY <1>3, <3>2 DEF Acquire, CountForConsumer, ReservationsExact
      <4>4. /\ Cardinality(InFlight \cap OwnedBy(k)) \in Nat
            /\ Cardinality(sessions \cap OwnedBy(k)) \in Nat
            /\ Cardinality(orphans \cap OwnedBy(k)) \in Nat
            /\ Cardinality(D) \in Nat
        BY <1>fin, <4>1 DEF InFlight, TypeOK, OwnedBy
      <4>q. QED BY <4>2, <4>3, <4>4, PoolAssumption
    <3>q. QED BY <3>1, <3>2
  <2>q. QED BY <2>3, <2>4 DEF ConsumerCap
<1>q. QED BY <1>1, <1>2, <1>3, QuietStep

-----------------------------------------------------------------------------
(* shutdown(). *)

\* What each stage of shutdown() has behind it: the launches in flight are the
\* ones it awaits, then there are none; from the teardowns on every session is
\* being torn down or is unconfirmed, and the teardowns are awaited too.
StopInv ==
    /\ sd = "launches" => \A l \in InFlight : <<l, "launch">> \in sdAwait
    /\ sd \notin {"up", "launches"} => InFlight = {}
    /\ sd \notin {"up", "launches", "work"} => sessions \subseteq closing \cup unconfirmed
    /\ sd = "teardowns" => \A l \in closing : <<l, "teardown">> \in sdAwait
    /\ sd \in {"sweep", "work2", "work3", "done"} => closing = {}

\* shutdown() drops only the promise that settled from those it waits for.
LEMMA ContinueKeeps ==
    ASSUME NEW l, NEW k
    PROVE  sdAwait \ {<<l, k>>} \subseteq Continue(l, k)
BY DEF Continue

\* The end of a teardown keeps StopInv.
LEMMA StopTeardown ==
    ASSUME TypeOK, StopInv, NEW l \in Launch, TeardownConfirms(l)
    PROVE  StopInv'
<1>1. CASE l \in closing
  <2>1. /\ sessions' = sessions \ {l} /\ closing' = closing \ {l}
        /\ sdAwait' = sdAwait \ {<<l, "teardown">>}
        /\ UNCHANGED <<acq, unconfirmed, sd>>
    BY <1>1 DEF TeardownConfirms
  <2>q. QED BY <2>1 DEF StopInv, InFlight
<1>2. CASE l \notin closing
  <2>1. /\ sdAwait \ {<<l, "late">>} \subseteq sdAwait'
        /\ UNCHANGED <<sessions, closing, unconfirmed, sd>>
    BY <1>2, ContinueKeeps DEF TeardownConfirms
  <2>2. InFlight' = InFlight
    BY <1>2 DEF TeardownConfirms, InFlight, TypeOK
  <2>q. QED BY <2>1, <2>2 DEF StopInv, InFlight
<1>q. QED BY <1>1, <1>2

\* Every step keeps it.
LEMMA StopStep ==
    ASSUME TypeOK, PoolInv, StopInv, [Next]_vars
    PROVE  StopInv'
<1> USE PoolAssumption DEF TypeOK, StopInv, InFlight, ShuttingDown
<1>Acquire. ASSUME NEW l \in Launch, NEW c \in Owner, Acquire(l, c)
     PROVE  StopInv'
  BY <1>Acquire DEF Acquire, launchVars, sessionVars, ledgerVars, recordVars,
     controlVars
<1>CallFactory. ASSUME NEW l \in Launch, NEW d \in DirOutcomes,
                       CallFactory(l, d)
     PROVE  StopInv'
  BY <1>CallFactory DEF CallFactory, launchVars, sessionVars, ledgerVars,
     recordVars, controlVars
<1>FactoryThrows. ASSUME NEW l \in Launch, NEW d \in DirOutcomes,
                         FactoryThrows(l, d)
     PROVE  StopInv'
  BY <1>FactoryThrows DEF FactoryThrows, EnqueueOrphan, launchVars,
     sessionVars, ledgerVars, recordVars, controlVars
<1>LaunchFails. ASSUME NEW l \in Launch, LaunchFails(l)
     PROVE  StopInv'
  BY <1>LaunchFails DEF LaunchFails, EnqueueOrphan, launchVars, sessionVars,
     ledgerVars, recordVars, controlVars
<1>LaunchTimesOut. ASSUME NEW l \in Launch, LaunchTimesOut(l)
     PROVE  StopInv'
  BY <1>LaunchTimesOut DEF LaunchTimesOut, EnqueueOrphan, launchVars,
     sessionVars, ledgerVars, recordVars, controlVars
<1>LaunchRegisters. ASSUME NEW l \in Launch, LaunchRegisters(l)
     PROVE  StopInv'
  BY <1>LaunchRegisters DEF LaunchRegisters, launchVars, sessionVars,
     ledgerVars, recordVars, controlVars
<1>LaunchMeetsShutdown. ASSUME NEW l \in Launch, LaunchMeetsShutdown(l)
     PROVE  StopInv'
  BY <1>LaunchMeetsShutdown DEF LaunchMeetsShutdown, launchVars, sessionVars,
     ledgerVars, recordVars, controlVars
<1>AcquireReturns. ASSUME NEW l \in Launch, AcquireReturns(l)
     PROVE  StopInv'
  BY <1>AcquireReturns DEF AcquireReturns, launchVars, sessionVars, ledgerVars,
     recordVars, controlVars
<1>Spawn. ASSUME NEW l \in Launch, Spawn(l)
     PROVE  StopInv'
  BY <1>Spawn DEF Spawn, launchVars, sessionVars, ledgerVars, recordVars,
     controlVars
<1>GroupDies. ASSUME NEW l \in Launch, NEW g \in Group, GroupDies(l, g)
     PROVE  StopInv'
  BY <1>GroupDies DEF GroupDies, launchVars, sessionVars, ledgerVars,
     recordVars, controlVars
<1>CarrierDies. ASSUME NEW l \in Launch, NEW g \in Group, CarrierDies(l, g)
     PROVE  StopInv'
  BY <1>CarrierDies DEF CarrierDies, launchVars, sessionVars, ledgerVars,
     recordVars, controlVars
<1>LateResolve. ASSUME NEW l \in Launch, LateResolve(l)
     PROVE  StopInv'
  BY <1>LateResolve DEF LateResolve, LeaveWatch, launchVars, sessionVars,
     ledgerVars, recordVars, controlVars
<1>LateReject. ASSUME NEW l \in Launch, LateReject(l)
     PROVE  StopInv'
  BY <1>LateReject DEF LateReject, launchVars, sessionVars, ledgerVars,
     recordVars, controlVars
<1>RemoveSettles. ASSUME NEW l \in Launch, RemoveSettles(l)
     PROVE  StopInv'
  BY <1>RemoveSettles DEF RemoveSettles, launchVars, sessionVars, ledgerVars,
     recordVars, controlVars
<1>Release. ASSUME NEW l \in Launch, Release(l)
     PROVE  StopInv'
  BY <1>Release DEF Release, BeginTeardown, launchVars, sessionVars,
     ledgerVars, recordVars, controlVars
<1>CloseResolves. ASSUME NEW l \in Launch, CloseResolves(l)
     PROVE  StopInv'
  <2>1. CASE TeardownConfirms(l)
    BY <2>1, StopTeardown
  <2>2. CASE ~TeardownConfirms(l)
    <3>1. UNCHANGED <<acq, sessions, closing, unconfirmed, sd, sdAwait>>
      BY <1>CloseResolves, <2>2 DEF CloseResolves, launchVars, controlVars
    <3>q. QED BY <3>1
  <2>q. QED BY <2>1, <2>2
<1>CloseFails. ASSUME NEW l \in Launch, CloseFails(l)
     PROVE  StopInv'
  BY <1>CloseFails DEF CloseFails, launchVars, sessionVars, ledgerVars,
     recordVars, controlVars
<1>KillConfirms. ASSUME NEW l \in Launch, KillConfirms(l)
     PROVE  StopInv'
  BY <1>KillConfirms, StopTeardown DEF KillConfirms
<1>KillGivesUp. ASSUME NEW l \in Launch, KillGivesUp(l)
     PROVE  StopInv'
  BY <1>KillGivesUp DEF KillGivesUp, TeardownUnconfirmed, launchVars,
     sessionVars, ledgerVars, recordVars, controlVars
<1>ReconfirmConfirms. ASSUME NEW l \in Launch, ReconfirmConfirms(l)
     PROVE  StopInv'
  <2>1. /\ sdAwait \ {<<l, "reconfirm">>} \subseteq sdAwait'
        /\ sessions' = sessions \ {l} /\ unconfirmed' = unconfirmed \ {l}
        /\ UNCHANGED <<acq, closing, sd>>
    BY <1>ReconfirmConfirms, ContinueKeeps DEF ReconfirmConfirms, launchVars
  <2>q. QED BY <2>1
<1>ReconfirmGivesUp. ASSUME NEW l \in Launch, ReconfirmGivesUp(l)
     PROVE  StopInv'
  BY <1>ReconfirmGivesUp DEF ReconfirmGivesUp, launchVars, sessionVars,
     ledgerVars, recordVars, controlVars
<1>SweepPolls. ASSUME NEW l \in Launch, SweepPolls(l)
     PROVE  StopInv'
  BY <1>SweepPolls DEF SweepPolls, Visible, launchVars, sessionVars,
     ledgerVars, recordVars, controlVars
<1>SweepConfirms. ASSUME NEW l \in Launch, SweepConfirms(l)
     PROVE  StopInv'
  <2>1. /\ sdAwait \ {<<l, "sweep">>} \subseteq sdAwait'
        /\ UNCHANGED <<acq, sessions, closing, unconfirmed, sd>>
    BY <1>SweepConfirms, ContinueKeeps
    DEF SweepConfirms, SweepFulfils, launchVars, sessionVars
  <2>q. QED BY <2>1
<1>SweepUnconfirmed. ASSUME NEW l \in Launch, SweepUnconfirmed(l)
     PROVE  StopInv'
  <2>1. /\ sdAwait \ {<<l, "sweep">>} \subseteq sdAwait'
        /\ UNCHANGED <<acq, sessions, closing, unconfirmed, sd>>
    BY <1>SweepUnconfirmed, ContinueKeeps
    DEF SweepUnconfirmed, SweepFulfils, launchVars, sessionVars
  <2>q. QED BY <2>1
<1>SweepUnsupported. ASSUME NEW l \in Launch, SweepUnsupported(l)
     PROVE  StopInv'
  <2>1. /\ sdAwait \ {<<l, "sweep">>} \subseteq sdAwait'
        /\ UNCHANGED <<acq, sessions, closing, unconfirmed, sd>>
    BY <1>SweepUnsupported, ContinueKeeps
    DEF SweepUnsupported, SweepFulfils, launchVars, sessionVars
  <2>q. QED BY <2>1
<1>SweepRejects. ASSUME NEW l \in Launch, SweepRejects(l)
     PROVE  StopInv'
  BY <1>SweepRejects DEF SweepRejects, SettleReapedOrphan, FinalizeOrphan,
     LeaveWatch, ForgetDir, launchVars, sessionVars, ledgerVars, recordVars,
     controlVars
<1>TickReleases. ASSUME NEW S \in SUBSET sessions, TickReleases(S)
     PROVE  StopInv'
  BY <1>TickReleases DEF TickReleases, BeginTeardown, launchVars, sessionVars,
     ledgerVars, recordVars, controlVars
<1>TickDrains. ASSUME TickDrains
     PROVE  StopInv'
  BY <1>TickDrains DEF TickDrains, DrainUnconfirmed, launchVars, sessionVars,
     ledgerVars, recordVars, controlVars
<1>TickSweeps. ASSUME TickSweeps
     PROVE  StopInv'
  BY <1>TickSweeps DEF TickSweeps, SweepAll, WatchAfterCap, launchVars,
     sessionVars, ledgerVars, recordVars, controlVars
<1>ShutdownBegins. ASSUME ShutdownBegins
     PROVE  StopInv'
  BY <1>ShutdownBegins DEF ShutdownBegins, launchVars, sessionVars, ledgerVars,
     recordVars, controlVars
<1>ShutdownAwaitsWork. ASSUME NEW from, NEW to,
                              <<from, to>> \in {<<"launches", "work">>,
                                  <<"sweep", "work2">>, <<"work2", "work3">>},
                              ShutdownAwaitsWork(from, to)
     PROVE  StopInv'
  BY <1>ShutdownAwaitsWork DEF ShutdownAwaitsWork, launchVars, sessionVars
<1>ShutdownTearsDown. ASSUME ShutdownTearsDown
     PROVE  StopInv'
  BY <1>ShutdownTearsDown DEF ShutdownTearsDown, BeginTeardown, launchVars,
     sessionVars, ledgerVars, recordVars, controlVars
<1>ShutdownDrains. ASSUME ShutdownDrains
     PROVE  StopInv'
  BY <1>ShutdownDrains DEF ShutdownDrains, DrainUnconfirmed, DrainDue,
     launchVars, sessionVars, ledgerVars, recordVars, controlVars
<1>ShutdownSweeps. ASSUME ShutdownSweeps
     PROVE  StopInv'
  BY <1>ShutdownSweeps DEF ShutdownSweeps, SweepAll, launchVars, sessionVars,
     ledgerVars, recordVars, controlVars
<1>ShutdownReturns. ASSUME ShutdownReturns
     PROVE  StopInv'
  BY <1>ShutdownReturns DEF ShutdownReturns, launchVars, sessionVars,
     ledgerVars, recordVars, controlVars
<1>Exit. CASE Exit \/ UNCHANGED vars
  BY <1>Exit DEF Exit, vars, launchVars, sessionVars, ledgerVars, recordVars,
     controlVars
<1>q. QED BY <1>Acquire, <1>CallFactory, <1>FactoryThrows, <1>LaunchFails,
     <1>LaunchTimesOut, <1>LaunchRegisters, <1>LaunchMeetsShutdown,
     <1>AcquireReturns, <1>Spawn, <1>GroupDies, <1>CarrierDies, <1>LateResolve,
     <1>LateReject, <1>RemoveSettles, <1>Release, <1>CloseResolves,
     <1>CloseFails, <1>KillConfirms, <1>KillGivesUp, <1>ReconfirmConfirms,
     <1>ReconfirmGivesUp, <1>SweepPolls, <1>SweepConfirms, <1>SweepUnconfirmed,
     <1>SweepUnsupported, <1>SweepRejects, <1>TickReleases, <1>TickDrains,
     <1>TickSweeps, <1>ShutdownBegins, <1>ShutdownAwaitsWork,
     <1>ShutdownTearsDown, <1>ShutdownDrains, <1>ShutdownSweeps,
     <1>ShutdownReturns, <1>Exit
     DEF Next, AcquireStep, WorldStep, SessionStep, SweepStep, TickStep,
         ShutdownStep

-----------------------------------------------------------------------------
(* The theorems. *)

Inv == TypeOK /\ PoolInv /\ ReservationsExact /\ GlobalCap /\ ConsumerCap /\ StopInv

\* The invariant holds initially.
LEMMA InvInit == Init => Inv
<1> SUFFICES ASSUME Init PROVE Inv
  OBVIOUS
<1>1. TypeOK
  <2>1. procs \in [Launch -> [Group -> {"none", "visible", "hidden", "dead"}]]
    BY DEF Init
  <2>2. /\ reserved \in Nat /\ reservedByConsumer \in [Consumer -> Nat]
        /\ sdTries \in 0..ReconfirmTries
    BY PoolAssumption DEF Init
  <2>3. /\ older \in [Launch -> SUBSET Launch]
        /\ stamps \in [Launch -> SUBSET Group]
        /\ seen \in [Launch -> SUBSET Group]
    BY DEF Init
  <2>q. QED BY <2>1, <2>2, <2>3 DEF Init, TypeOK, Owner
<1>2. PoolInv
  BY DEF Init, PoolInv, Books, Early, Fresh, Promise, GivenUp, InCharge, Kept
<1>3. InFlight = {} /\ Counted = {}
  BY DEF Init, InFlight, Counted
<1>4. ReservationsExact
  BY <1>3, FS_EmptySet DEF Init, ReservationsExact
<1>5. GlobalCap /\ ConsumerCap
  <2>1. Counted \ parked = {} /\ \A c : (Counted \cap OwnedBy(c)) \ parked = {}
    BY <1>3
  <2>q. QED BY <2>1, FS_EmptySet, PoolAssumption DEF GlobalCap, ConsumerCap
<1>6. StopInv
  BY <1>3 DEF Init, StopInv
<1>q. QED BY <1>1, <1>2, <1>4, <1>5, <1>6 DEF Inv

\* Every step keeps it.
LEMMA InvStep == Inv /\ [Next]_vars => Inv'
BY TypeStep, BooksStep, ReservationsStep, CapsStep, StopStep DEF Inv

\* The inductive invariant is an invariant of the pool.
THEOREM InvHolds == Spec => []Inv
BY InvInit, InvStep, PTL DEF Spec

\* Every variable of the pool keeps to its range; in particular no reservation
\* count of acquire() is ever decremented below zero.
THEOREM TypeCorrect == Spec => []TypeOK
<1>1. Inv => TypeOK
  BY DEF Inv
<1>q. QED BY <1>1, InvHolds, PTL

\* The reservations of acquire() are exactly the calls in flight.
THEOREM ReservationsCorrect == Spec => []ReservationsExact
<1>1. Inv => ReservationsExact
  BY DEF Inv
<1>q. QED BY <1>1, InvHolds, PTL

\* maxSessions bounds what was never taken out of the count, whatever teardowns,
\* sweeps, late arrivals and reaper ticks are in flight.
THEOREM GlobalCapHolds == Spec => []GlobalCap
<1>1. Inv => GlobalCap
  BY DEF Inv
<1>q. QED BY <1>1, InvHolds, PTL

\* perConsumerMax bounds it for every consumer.
THEOREM ConsumerCapHolds == Spec => []ConsumerCap
<1>1. Inv => ConsumerCap
  BY DEF Inv
<1>q. QED BY <1>1, InvHolds, PTL

\* No launch is in two ledgers, and a sweep in flight always has a record to
\* deliver its verdict to.
THEOREM LedgersDisjoint == Spec => []OneLedger
<1>1. Inv => OneLedger
  BY DEF Inv, TypeOK, PoolInv, Books, Kept, OneLedger
<1>q. QED BY <1>1, InvHolds, PTL

\* Every counted record has something in flight, or a directory to sweep, that
\* will get it out of the count.
THEOREM NothingPinned == Spec => []NoPinnedOrphan
<1>1. Inv => NoPinnedOrphan
  BY DEF Inv, TypeOK, PoolInv, Books, Kept, InCharge, NoPinnedOrphan
<1>q. QED BY <1>1, InvHolds, PTL

\* When shutdown() returns no launch is in flight and every session left in the
\* pool is one whose death could not be confirmed.
THEOREM ShutdownIsHonest == Spec => []ShutdownHonest
<1>1. Inv => ShutdownHonest
  BY DEF Inv, StopInv, ShutdownHonest
<1>q. QED BY <1>1, InvHolds, PTL
=============================================================================
