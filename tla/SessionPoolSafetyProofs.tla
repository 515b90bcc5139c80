---------------------- MODULE SessionPoolSafetyProofs ----------------------
(***************************************************************************)
(* Proofs about SessionPool, continued: no browser the manager could       *)
(* confirm dead is ever forgotten, and no profile directory is removed     *)
(* under one.  The invariant relates the books of the manager to the       *)
(* process groups outside it, and rests on the invariant of                *)
(* SessionPoolProofs.  On both rests what shutdown() waits for: never a    *)
(* promise nobody is left to settle.                                       *)
(***************************************************************************)
EXTENDS SessionPoolProofs

\* What the sweeps have found: a group that was observed stays owed while it
\* lives, and nothing was observed of a launch that was never swept.
Found(l) ==
    /\ MainGroup \notin seen[l]
    /\ \A g \in seen[l] : /\ procs[l][g] # "none"
                          /\ Alive(l, g) => g \in stamps[l]
    /\ procs[l][MainGroup] = "hidden" /\ forceKill[l] = "unknown"
            => MainGroup \in stamps[l]
    /\ procs[l][MainGroup] = "none" => \A g \in Group : procs[l][g] = "none"
    /\ ~SweepSupported \/ Early(l) \/ l \in sessions \/ dir[l] = "none"
            => seen[l] = {} /\ stamps[l] = {}

\* What is known of the core behind a launch.
Core(l) ==
    /\ launchP[l] # "done" => forceKill[l] = "unknown"
    /\ launchP[l] = "none" => procs[l][MainGroup] = "none"
    /\ l \in sessions \cup recSession => forceKill[l] # "unknown"
    /\ forceKill[l] = "yes" /\ (l \notin sessions \cup recSession \/ l \in deferred)
            => ~Alive(l, MainGroup)
    /\ l \in orphans \cup watch /\ launchP[l] = "done" => l \in settled \cup recSession
    /\ l \in recSession /\ l \notin settled => sweep[l] = "idle" /\ stamps[l] = {}
    /\ l \in watch /\ sweep[l] = "idle" => launchP[l] = "pending"

\* When the profile directory goes.
Profile(l) ==
    /\ dir[l] \in {"removing", "dropping", "removed"}
            => launchP[l] = "done" /\ l \notin sessions \cup orphans \cup watch
    /\ sweep[l] # "idle" => dir[l] = "owned"
    /\ acq[l] \in {"idle", "minting"} => dir[l] = "none"

\* What is off the books is dead.
OffBooks(l) ==
    Confirmable(l) /\ KnownAlive(l) /\ launchP[l] = "done"
        => l \in sessions \cup orphans \cup watch

World(l) == Found(l) /\ Core(l) /\ Profile(l) /\ OffBooks(l)

WorldInv == \A l \in Launch : World(l)

-----------------------------------------------------------------------------

\* Every step keeps it.
LEMMA WorldInvStep ==
    ASSUME TypeOK, PoolInv, WorldInv, [Next]_vars
    PROVE  WorldInv'
<1> SUFFICES ASSUME NEW m \in Launch
             PROVE  World(m)'
  BY DEF WorldInv
<1> USE PoolAssumption
    DEF TypeOK, PoolInv, Books, Early, Fresh, Promise, GivenUp, InCharge, Kept,
        WorldInv, World, Found, Core, Profile, OffBooks, Confirmable, KnownAlive,
        Alive
<1>Acquire. ASSUME NEW l \in Launch, NEW c \in Owner, Acquire(l, c)
     PROVE  World(m)'
  BY <1>Acquire DEF Acquire, launchVars, sessionVars, ledgerVars, recordVars,
     controlVars
<1>CallFactory. ASSUME NEW l \in Launch, NEW d \in DirOutcomes,
                       CallFactory(l, d)
     PROVE  World(m)'
  BY <1>CallFactory DEF CallFactory, launchVars, sessionVars, ledgerVars,
     recordVars, controlVars
<1>FactoryThrows. ASSUME NEW l \in Launch, NEW d \in DirOutcomes,
                         FactoryThrows(l, d)
     PROVE  World(m)'
  BY <1>FactoryThrows DEF FactoryThrows, EnqueueOrphan, launchVars,
     sessionVars, ledgerVars, recordVars, controlVars
<1>LaunchFails. ASSUME NEW l \in Launch, LaunchFails(l)
     PROVE  World(m)'
  BY <1>LaunchFails DEF LaunchFails, EnqueueOrphan, launchVars, sessionVars,
     ledgerVars, recordVars, controlVars
<1>LaunchTimesOut. ASSUME NEW l \in Launch, LaunchTimesOut(l)
     PROVE  World(m)'
  <2>1. CASE m # l
    BY <1>LaunchTimesOut, <2>1
    DEF LaunchTimesOut, EnqueueOrphan, launchVars, sessionVars, ledgerVars,
        recordVars, controlVars
  <2>2. CASE m = l
    <3> USE <1>LaunchTimesOut, <2>2
    DEF LaunchTimesOut, EnqueueOrphan, launchVars, sessionVars, ledgerVars,
        recordVars, controlVars
    <3>1. Found(l)'
      OBVIOUS
    <3>2. Core(l)'
      OBVIOUS
    <3>3. Profile(l)'
      OBVIOUS
    <3>4. OffBooks(l)'
      OBVIOUS
    <3>q. QED BY <3>1, <3>2, <3>3, <3>4
  <2>q. QED BY <2>1, <2>2
<1>LaunchRegisters. ASSUME NEW l \in Launch, LaunchRegisters(l)
     PROVE  World(m)'
  <2>1. CASE m # l
    BY <1>LaunchRegisters, <2>1
    DEF LaunchRegisters, launchVars, sessionVars, ledgerVars, recordVars,
        controlVars
  <2>2. CASE m = l
    <3> USE <1>LaunchRegisters, <2>2
    DEF LaunchRegisters, launchVars, sessionVars, ledgerVars, recordVars,
        controlVars
    <3>1. Found(l)'
      OBVIOUS
    <3>2. Core(l)'
      OBVIOUS
    <3>3. Profile(l)'
      OBVIOUS
    <3>4. OffBooks(l)'
      OBVIOUS
    <3>q. QED BY <3>1, <3>2, <3>3, <3>4
  <2>q. QED BY <2>1, <2>2
<1>LaunchMeetsShutdown. ASSUME NEW l \in Launch, LaunchMeetsShutdown(l)
     PROVE  World(m)'
  <2>1. CASE m # l
    BY <1>LaunchMeetsShutdown, <2>1
    DEF LaunchMeetsShutdown, launchVars, sessionVars, ledgerVars, recordVars,
        controlVars
  <2>2. CASE m = l
    <3> USE <1>LaunchMeetsShutdown, <2>2
    DEF LaunchMeetsShutdown, launchVars, sessionVars, ledgerVars, recordVars,
        controlVars
    <3>1. Found(l)'
      OBVIOUS
    <3>2. Core(l)'
      OBVIOUS
    <3>3. Profile(l)'
      OBVIOUS
    <3>4. OffBooks(l)'
      OBVIOUS
    <3>q. QED BY <3>1, <3>2, <3>3, <3>4
  <2>q. QED BY <2>1, <2>2
<1>AcquireReturns. ASSUME NEW l \in Launch, AcquireReturns(l)
     PROVE  World(m)'
  BY <1>AcquireReturns DEF AcquireReturns, launchVars, sessionVars, ledgerVars,
     recordVars, controlVars
<1>Spawn. ASSUME NEW l \in Launch, Spawn(l)
     PROVE  World(m)'
  <2>1. PICK extra \in SUBSET (Group \ {MainGroup}) :
            procs' = [procs EXCEPT ![l] = [g \in Group |->
               IF g = MainGroup \/ g \in extra THEN "visible" ELSE "none"]]
    BY <1>Spawn DEF Spawn
  <2>2. /\ launchP[l] = "pending" /\ procs[l][MainGroup] = "none"
        /\ UNCHANGED <<launchVars, dir, sessionVars, ledgerVars, recordVars,
                       controlVars>>
    BY <1>Spawn DEF Spawn
  <2>3. seen[l] = {}
    BY <2>2
  <2>4. CASE m # l
    <3>1. procs'[m] = procs[m]
      BY <2>1, <2>4
    <3>q. QED
      BY <2>2, <3>1
      DEF launchVars, sessionVars, ledgerVars, recordVars, controlVars
  <2>5. CASE m = l
    <3>1. procs'[l] = [g \in Group |->
              IF g = MainGroup \/ g \in extra THEN "visible" ELSE "none"]
      BY <2>1
    <3>2. procs'[l][MainGroup] = "visible"
      BY <3>1
    <3>q. QED
      BY <2>2, <2>3, <2>5, <3>1, <3>2
      DEF launchVars, sessionVars, ledgerVars, recordVars, controlVars
  <2>q. QED BY <2>4, <2>5
<1>GroupDies. ASSUME NEW l \in Launch, NEW g \in Group, GroupDies(l, g)
     PROVE  World(m)'
  BY <1>GroupDies DEF GroupDies, launchVars, sessionVars, ledgerVars,
     recordVars, controlVars
<1>CarrierDies. ASSUME NEW l \in Launch, NEW g \in Group, CarrierDies(l, g)
     PROVE  World(m)'
  BY <1>CarrierDies DEF CarrierDies, launchVars, sessionVars, ledgerVars,
     recordVars, controlVars
<1>LateResolve. ASSUME NEW l \in Launch, LateResolve(l)
     PROVE  World(m)'
  BY <1>LateResolve DEF LateResolve, LeaveWatch, launchVars, sessionVars,
     ledgerVars, recordVars, controlVars
<1>LateReject. ASSUME NEW l \in Launch, LateReject(l)
     PROVE  World(m)'
  BY <1>LateReject DEF LateReject, launchVars, sessionVars, ledgerVars,
     recordVars, controlVars
<1>RemoveSettles. ASSUME NEW l \in Launch, RemoveSettles(l)
     PROVE  World(m)'
  BY <1>RemoveSettles DEF RemoveSettles, launchVars, sessionVars, ledgerVars,
     recordVars, controlVars
<1>Release. ASSUME NEW l \in Launch, Release(l)
     PROVE  World(m)'
  BY <1>Release DEF Release, BeginTeardown, launchVars, sessionVars,
     ledgerVars, recordVars, controlVars
<1>CloseResolves. ASSUME NEW l \in Launch, CloseResolves(l)
     PROVE  World(m)'
  BY <1>CloseResolves DEF CloseResolves, TeardownConfirms, SettleReapedOrphan,
     FinalizeOrphan, LeaveWatch, ForgetDir, launchVars, sessionVars,
     ledgerVars, recordVars, controlVars
<1>CloseFails. ASSUME NEW l \in Launch, CloseFails(l)
     PROVE  World(m)'
  BY <1>CloseFails DEF CloseFails, launchVars, sessionVars, ledgerVars,
     recordVars, controlVars
<1>KillConfirms. ASSUME NEW l \in Launch, KillConfirms(l)
     PROVE  World(m)'
  BY <1>KillConfirms DEF KillConfirms, TeardownConfirms, SettleReapedOrphan,
     FinalizeOrphan, LeaveWatch, ForgetDir, launchVars, sessionVars,
     ledgerVars, recordVars, controlVars
<1>KillGivesUp. ASSUME NEW l \in Launch, KillGivesUp(l)
     PROVE  World(m)'
  BY <1>KillGivesUp DEF KillGivesUp, TeardownUnconfirmed, launchVars,
     sessionVars, ledgerVars, recordVars, controlVars
<1>ReconfirmConfirms. ASSUME NEW l \in Launch, ReconfirmConfirms(l)
     PROVE  World(m)'
  BY <1>ReconfirmConfirms DEF ReconfirmConfirms, SettleReapedOrphan,
     FinalizeOrphan, LeaveWatch, ForgetDir, launchVars, sessionVars,
     ledgerVars, recordVars, controlVars
<1>ReconfirmGivesUp. ASSUME NEW l \in Launch, ReconfirmGivesUp(l)
     PROVE  World(m)'
  BY <1>ReconfirmGivesUp DEF ReconfirmGivesUp, launchVars, sessionVars,
     ledgerVars, recordVars, controlVars
<1>SweepPolls. ASSUME NEW l \in Launch, SweepPolls(l)
     PROVE  World(m)'
  BY <1>SweepPolls DEF SweepPolls, Visible, launchVars, sessionVars,
     ledgerVars, recordVars, controlVars
<1>SweepConfirms. ASSUME NEW l \in Launch, SweepConfirms(l)
     PROVE  World(m)'
  <2>1. /\ \A g \in seen[l] : ~Alive(l, g)
        /\ forceKill[l] = "unknown" => ~Alive(l, MainGroup)
    BY <1>SweepConfirms DEF SweepConfirms, Visible
  <2>2. /\ UNCHANGED <<launchVars, procs, sessionVars, settled, seen>>
        /\ SweepSupported /\ sweep[l] # "idle"
    BY <1>SweepConfirms DEF SweepConfirms, SweepFulfils
  <2>3. CASE l \in deferred
    <3>1. SettleReapedOrphan(l, "idle", {}, "removing") /\ UNCHANGED parked
      BY <1>SweepConfirms, <2>3 DEF SweepConfirms, SweepFulfils
    <3>q. QED
      BY <2>1, <2>2, <2>3, <3>1
      DEF SettleReapedOrphan, FinalizeOrphan, LeaveWatch, ForgetDir,
          launchVars, sessionVars
  <2>4. CASE l \notin deferred /\ l \in recSession
    <3>1. /\ sweep' = [sweep EXCEPT ![l] = "idle"]
          /\ stamps' = [stamps EXCEPT ![l] = {}]
          /\ UNCHANGED <<ledgerVars, dir, recSession, deferred>>
      BY <1>SweepConfirms, <2>4 DEF SweepConfirms, SweepFulfils
    <3>q. QED
      BY <2>1, <2>2, <2>4, <3>1 DEF launchVars, sessionVars, ledgerVars
  <2>5. CASE l \notin deferred /\ l \notin recSession
    <3>1. /\ sweep' = [sweep EXCEPT ![l] = "idle"]
          /\ stamps' = [stamps EXCEPT ![l] = {}]
          /\ ApplyVerdict(l, "confirmed")
          /\ UNCHANGED <<recSession, deferred>>
      BY <1>SweepConfirms, <2>5 DEF SweepConfirms, SweepFulfils
    <3>2. CASE l \in settled
      <4>1. FinalizeOrphan(l, "removing") /\ UNCHANGED parked
        BY <3>1, <3>2 DEF ApplyVerdict
      <4>q. QED
        BY <2>1, <2>2, <2>5, <3>1, <3>2, <4>1
        DEF FinalizeOrphan, LeaveWatch, ForgetDir, launchVars, sessionVars
    <3>3. CASE l \notin settled /\ l \in orphans
      <4>1. /\ orphans' = orphans \ {l} /\ dir' = dir
            /\ parked' = parked \cup {l}
            /\ watch' \subseteq watch \cup {l} /\ l \in watch'
            /\ \A r \in watch : sweep[r] # "idle" => r \in watch'
        BY <3>1, <3>3 DEF ApplyVerdict, WatchLaunch, WatchAfterCap
      <4>2. launchP[l] = "pending"
        BY <2>5, <3>3
      <4>q. QED
        BY <2>1, <2>2, <2>5, <3>1, <3>3, <4>1, <4>2 DEF launchVars, sessionVars
    <3>4. CASE l \notin settled /\ l \notin orphans
      <4>1. UNCHANGED <<ledgerVars, dir>>
        BY <3>1, <3>4 DEF ApplyVerdict
      <4>2. launchP[l] = "pending"
        BY <2>2, <2>5, <3>4
      <4>q. QED
        BY <2>1, <2>2, <2>5, <3>1, <3>4, <4>1, <4>2
        DEF launchVars, sessionVars, ledgerVars
    <3>q. QED BY <3>2, <3>3, <3>4
  <2>q. QED BY <2>3, <2>4, <2>5
<1>SweepUnconfirmed. ASSUME NEW l \in Launch, SweepUnconfirmed(l)
     PROVE  World(m)'
  BY <1>SweepUnconfirmed DEF SweepUnconfirmed, Visible, SweepFulfils,
     ApplyVerdict, WatchLaunch, WatchAfterCap, SettleReapedOrphan,
     FinalizeOrphan, LeaveWatch, ForgetDir, launchVars, sessionVars,
     ledgerVars, recordVars, controlVars
<1>SweepUnsupported. ASSUME NEW l \in Launch, SweepUnsupported(l)
     PROVE  World(m)'
  BY <1>SweepUnsupported DEF SweepUnsupported, SweepFulfils, ApplyVerdict,
     WatchLaunch, WatchAfterCap, SettleReapedOrphan, FinalizeOrphan,
     LeaveWatch, ForgetDir, launchVars, sessionVars, ledgerVars, recordVars,
     controlVars
<1>SweepRejects. ASSUME NEW l \in Launch, SweepRejects(l)
     PROVE  World(m)'
  BY <1>SweepRejects DEF SweepRejects, SettleReapedOrphan, FinalizeOrphan,
     LeaveWatch, ForgetDir, launchVars, sessionVars, ledgerVars, recordVars,
     controlVars
<1>TickReleases. ASSUME NEW S \in SUBSET sessions, TickReleases(S)
     PROVE  World(m)'
  BY <1>TickReleases DEF TickReleases, BeginTeardown, launchVars, sessionVars,
     ledgerVars, recordVars, controlVars
<1>TickDrains. ASSUME TickDrains
     PROVE  World(m)'
  BY <1>TickDrains DEF TickDrains, DrainUnconfirmed, launchVars, sessionVars,
     ledgerVars, recordVars, controlVars
<1>TickSweeps. ASSUME TickSweeps
     PROVE  World(m)'
  BY <1>TickSweeps DEF TickSweeps, SweepAll, WatchAfterCap, launchVars,
     sessionVars, ledgerVars, recordVars, controlVars
<1>ShutdownBegins. ASSUME ShutdownBegins
     PROVE  World(m)'
  BY <1>ShutdownBegins DEF ShutdownBegins, launchVars, sessionVars, ledgerVars,
     recordVars, controlVars
<1>ShutdownAwaitsWork. ASSUME NEW from, NEW to \in {"work", "work2", "work3"},
                              ShutdownAwaitsWork(from, to)
     PROVE  World(m)'
  BY <1>ShutdownAwaitsWork DEF ShutdownAwaitsWork, OrphanWork, launchVars,
     sessionVars, ledgerVars, recordVars, controlVars
<1>ShutdownTearsDown. ASSUME ShutdownTearsDown
     PROVE  World(m)'
  BY <1>ShutdownTearsDown DEF ShutdownTearsDown, BeginTeardown, launchVars,
     sessionVars, ledgerVars, recordVars, controlVars
<1>ShutdownDrains. ASSUME ShutdownDrains
     PROVE  World(m)'
  BY <1>ShutdownDrains DEF ShutdownDrains, DrainUnconfirmed, DrainDue,
     launchVars, sessionVars, ledgerVars, recordVars, controlVars
<1>ShutdownSweeps. ASSUME ShutdownSweeps
     PROVE  World(m)'
  BY <1>ShutdownSweeps DEF ShutdownSweeps, SweepAll, launchVars, sessionVars,
     ledgerVars, recordVars, controlVars
<1>ShutdownReturns. ASSUME ShutdownReturns
     PROVE  World(m)'
  BY <1>ShutdownReturns DEF ShutdownReturns, launchVars, sessionVars,
     ledgerVars, recordVars, controlVars
<1>Exit. CASE Exit \/ UNCHANGED vars
  BY <1>Exit DEF Exit, vars, launchVars, sessionVars, ledgerVars, recordVars,
     controlVars
<1>q. QED BY <1>Acquire, <1>CallFactory, <1>FactoryThrows, <1>LaunchFails,
     <1>LaunchTimesOut, <1>LaunchRegisters, <1>LaunchMeetsShutdown,
     <1>AcquireReturns, <1>Spawn, <1>GroupDies, <1>CarrierDies, <1>LateResolve,
     <1>LateReject, <1>RemoveSettles, <1>Release, <1>CloseResolves,
     <1>CloseFails, <1>KillConfirms, <1>KillGivesUp, <1>ReconfirmConfirms,
     <1>ReconfirmGivesUp, <1>SweepPolls, <1>SweepConfirms, <1>SweepUnconfirmed,
     <1>SweepUnsupported, <1>SweepRejects, <1>TickReleases, <1>TickDrains,
     <1>TickSweeps, <1>ShutdownBegins, <1>ShutdownAwaitsWork,
     <1>ShutdownTearsDown, <1>ShutdownDrains, <1>ShutdownSweeps,
     <1>ShutdownReturns, <1>Exit
     DEF Next, AcquireStep, WorldStep, SessionStep, SweepStep, TickStep,
         ShutdownStep

\* The invariant holds initially, every step keeps it, so it always holds.
THEOREM WorldInvHolds == Spec => []WorldInv
<1>1. Init => WorldInv
  BY PoolAssumption
  DEF Init, WorldInv, World, Found, Core, Profile, OffBooks, Confirmable,
      KnownAlive, Alive, Early
<1>2. Inv /\ WorldInv /\ [Next]_vars => WorldInv'
  BY WorldInvStep DEF Inv
<1>q. QED BY <1>1, <1>2, InvHolds, PTL DEF Spec

\* No browser the manager could confirm dead is dropped from its books while it
\* lives, on any path through acquire(), teardown, reconfirm, sweep, reaper and
\* shutdown().
THEOREM NoBrowserIsForgotten == Spec => []NoBrowserForgotten
<1>1. Inv /\ WorldInv => NoBrowserForgotten
  BY
  DEF Inv, TypeOK, WorldInv, World, Found, Core, OffBooks, NoBrowserForgotten,
     Counted, KnownAlive, Alive, Confirmable
<1>q. QED BY <1>1, InvHolds, WorldInvHolds, PTL

\* No profile directory is removed under a live browser or under a launch that
\* may still spawn one.
THEOREM DirectoriesRemovedSafely == Spec => []DirNotRemovedUnderBrowser
<1>1. WorldInv => DirNotRemovedUnderBrowser
  BY DEF WorldInv, World, Profile, OffBooks, DirNotRemovedUnderBrowser
<1>q. QED BY <1>1, WorldInvHolds, PTL

-----------------------------------------------------------------------------
(* What shutdown() waits for. *)

\* The operation behind a promise of launch l that shutdown() waits for, and the
\* teardown and the removal that an acquire() waits for itself.
Waiting(l) ==
    /\ <<l, "launch">> \in sdAwait => acq[l] \notin {"idle", "done"}
    /\ <<l, "teardown">> \in sdAwait => l \in closing
    /\ <<l, "late">> \in sdAwait => l \in recSession /\ teardown[l] # "none"
    /\ <<l, "reconfirm">> \in sdAwait => reconfirm[l] # "none"
    /\ <<l, "sweep">> \in sdAwait => sweep[l] # "idle"
    /\ <<l, "remove">> \in sdAwait => dir[l] = "removing"
    /\ acq[l] = "reaping" => l \in recSession /\ teardown[l] # "none"
    /\ acq[l] = "settling" => dir[l] = "removing"

WaitInv == \A l \in Launch : Waiting(l)

\* What the other invariants say of the launch.
Around(l) ==
    /\ Waiting(l)
    /\ acq \in [Launch -> {"idle", "minting", "launching", "returning", "reaping",
                           "settling", "done"}]
    /\ dir \in [Launch -> {"none", "owned", "removing", "dropping", "removed"}]
    /\ teardown \in [Launch -> {"none", "close", "kill"}]
    /\ reconfirm \in [Launch -> {"none", "tick", "shutdown"}]
    /\ sweep \in [Launch -> {"idle", "started", "polling"}]
    /\ acq[l] = "minting" => dir[l] = "none"
    /\ sweep[l] # "idle" => dir[l] = "owned"
    /\ l \in closing => l \notin recSession
    /\ teardown[l] # "none" => l \notin deferred /\ l \notin unconfirmed
    /\ reconfirm[l] # "none" => l \in unconfirmed

\* These facts hold of every launch.
LEMMA AroundHolds ==
    ASSUME TypeOK, PoolInv, WorldInv, WaitInv, NEW l \in Launch
    PROVE  Around(l)
<1>1. Waiting(l)
  BY DEF WaitInv
<1>2. Books(l) /\ World(l)
  BY DEF PoolInv, WorldInv
<1>q. QED BY <1>1, <1>2 DEF TypeOK, Books, InCharge, Kept, World, Profile, Around

\* A promise that settles hands shutdown()'s wait on to the sweep or the removal
\* which the settlement has started.
LEMMA WaitingContinues ==
    ASSUME NEW l \in Launch, NEW m \in Launch, NEW k \in {"late", "reconfirm", "sweep"},
           Around(m), sdAwait' = Continue(l, k),
           sweep' \in [Launch -> {"idle", "started", "polling"}],
           dir' \in {dir, [dir EXCEPT ![l] = "removing"]},
           \A r \in Launch \ {l} : sweep'[r] = sweep[r]
    PROVE  \A j \in WorkKind : <<m, j>> \in sdAwait' =>
               \/ <<m, j>> \in sdAwait /\ <<m, j>> # <<l, k>>
               \/ m = l /\ j = "sweep" /\ sweep'[m] = "started"
               \/ m = l /\ j = "remove" /\ dir'[m] = "removing"
BY DEF Around, Continue

\* A sweep delivers its verdict.
LEMMA WaitingFulfils ==
    ASSUME NEW l \in Launch, NEW m \in Launch, Around(l), Around(m),
           NEW result, NEW owed, SweepFulfils(l, result, owed), sweep[l] # "idle"
    PROVE  Waiting(m)'
<1>1. /\ sdAwait' = Continue(l, "sweep")
      /\ UNCHANGED <<acq, closing, teardown, reconfirm>>
  BY DEF SweepFulfils, launchVars, sessionVars
<1>2. /\ dir' \in {dir, [dir EXCEPT ![l] = "removing"]}
      /\ sweep' \in {[sweep EXCEPT ![l] = "idle"], [sweep EXCEPT ![l] = "started"]}
      /\ recSession' = recSession \/ (l \in deferred /\ recSession' = recSession \ {l})
  BY DEF SweepFulfils, SettleReapedOrphan, FinalizeOrphan, ForgetDir, ApplyVerdict,
         WatchLaunch, Around
<1>3. \A j \in WorkKind : <<m, j>> \in sdAwait' =>
          \/ <<m, j>> \in sdAwait /\ <<m, j>> # <<l, "sweep">>
          \/ m = l /\ j = "sweep" /\ sweep'[m] = "started"
          \/ m = l /\ j = "remove" /\ dir'[m] = "removing"
  <2>1. /\ sweep' \in [Launch -> {"idle", "started", "polling"}]
        /\ \A r \in Launch \ {l} : sweep'[r] = sweep[r]
    BY <1>2 DEF Around
  <2>q. QED BY <1>1, <1>2, <2>1, WaitingContinues
<1>4. /\ dir'[m] = dir[m] \/ dir'[m] = "removing"
      /\ m # l => sweep'[m] = sweep[m]
      /\ teardown[m] # "none" /\ m \in recSession => m \in recSession'
  BY <1>2 DEF Around
<1>q. QED BY <1>1, <1>3, <1>4 DEF Around, Waiting, WorkKind

\* A teardown is confirmed.
LEMMA WaitingConfirms ==
    ASSUME NEW l \in Launch, NEW m \in Launch, Around(l), Around(m),
           teardown[l] # "none", TeardownConfirms(l)
    PROVE  Waiting(m)'
<1>1. /\ teardown' = [teardown EXCEPT ![l] = "none"]
      /\ UNCHANGED reconfirm
  BY DEF TeardownConfirms
<1>2. CASE l \in closing
  <2>1. /\ closing' = closing \ {l}
        /\ dir' = ForgetDir(l, "removing")
        /\ sdAwait' = sdAwait \ {<<l, "teardown">>}
        /\ UNCHANGED <<acq, recSession, sweep>>
    BY <1>2 DEF TeardownConfirms, recordVars
  <2>q. QED BY <1>1, <1>2, <2>1 DEF Around, Waiting, ForgetDir
<1>3. CASE l \notin closing
  <2>1. /\ SettleReapedOrphan(l, sweep[l], stamps[l], "removing")
        /\ sdAwait' = Continue(l, "late")
        /\ UNCHANGED closing
        /\ acq' = IF acq[l] # "reaping" THEN acq
                  ELSE [acq EXCEPT ![l] = IF dir' = dir THEN "returning"
                                                        ELSE "settling"]
    BY <1>3 DEF TeardownConfirms
  <2>2. /\ dir' \in {dir, [dir EXCEPT ![l] = "removing"]}
        /\ sweep' \in {sweep, [sweep EXCEPT ![l] = "idle"],
                       [sweep EXCEPT ![l] = "started"]}
        /\ sweep[l] # "idle" => sweep' = sweep
        /\ recSession' \in {recSession, recSession \ {l}}
    BY <2>1 DEF SettleReapedOrphan, FinalizeOrphan, ForgetDir, Around
  <2>3. \A j \in WorkKind : <<m, j>> \in sdAwait' =>
            \/ <<m, j>> \in sdAwait /\ <<m, j>> # <<l, "late">>
            \/ m = l /\ j = "sweep" /\ sweep'[m] = "started"
            \/ m = l /\ j = "remove" /\ dir'[m] = "removing"
    <3>1. /\ sweep' \in [Launch -> {"idle", "started", "polling"}]
          /\ \A r \in Launch \ {l} : sweep'[r] = sweep[r]
      BY <2>2 DEF Around
    <3>q. QED BY <2>1, <2>2, <3>1, WaitingContinues
  <2>4. /\ dir'[m] = dir[m] \/ dir'[m] = "removing"
        /\ sweep[m] # "idle" => sweep'[m] = sweep[m]
        /\ m # l => (m \in recSession' <=> m \in recSession)
        /\ m # l => teardown'[m] = teardown[m] /\ acq'[m] = acq[m]
    BY <1>1, <2>1, <2>2 DEF Around
  <2>5. CASE m # l
    BY <1>1, <2>1, <2>3, <2>4, <2>5 DEF Around, Waiting, WorkKind
  <2>6. CASE m = l
    <3>1. /\ acq'[l] = "reaping" => FALSE
          /\ acq'[l] = "settling" => dir'[l] = "removing"
          /\ acq[l] \notin {"idle", "done"} => acq'[l] \notin {"idle", "done"}
      BY <2>1, <2>2, <2>6 DEF Around, Waiting
    <3>q. QED BY <1>1, <1>3, <2>1, <2>3, <2>4, <2>6, <3>1 DEF Around, Waiting, WorkKind
  <2>q. QED BY <2>5, <2>6
<1>q. QED BY <1>2, <1>3

\* A reconfirm is confirmed.
LEMMA WaitingReconfirms ==
    ASSUME NEW l \in Launch, NEW m \in Launch, Around(l), Around(m),
           ReconfirmConfirms(l)
    PROVE  Waiting(m)'
<1>1. /\ reconfirm[l] # "none"
      /\ reconfirm' = [reconfirm EXCEPT ![l] = "none"]
      /\ UNCHANGED <<acq, closing, teardown>>
  BY DEF ReconfirmConfirms, launchVars
<1>2. teardown[l] = "none"
  BY <1>1 DEF Around
<1>3. CASE l \notin recSession
  <2>1. /\ dir' = ForgetDir(l, "removing")
        /\ sdAwait' = sdAwait \ {<<l, "reconfirm">>}
        /\ UNCHANGED <<recSession, sweep>>
    BY <1>3 DEF ReconfirmConfirms, recordVars
  <2>q. QED BY <1>1, <2>1 DEF Around, Waiting, ForgetDir
<1>4. CASE l \in recSession
  <2> DEFINE how == IF reconfirm[l] = "shutdown" THEN "removing" ELSE "dropping"
  <2>1. /\ SettleReapedOrphan(l, sweep[l], stamps[l], how)
        /\ sdAwait' = IF reconfirm[l] = "shutdown" THEN Continue(l, "reconfirm")
                      ELSE sdAwait \ {<<l, "reconfirm">>}
    BY <1>4 DEF ReconfirmConfirms
  <2>2. /\ dir' = dir \/ (dir[l] = "owned" /\ dir' = [dir EXCEPT ![l] = how])
        /\ sweep' \in {sweep, [sweep EXCEPT ![l] = "idle"],
                       [sweep EXCEPT ![l] = "started"]}
        /\ sweep[l] # "idle" => sweep' = sweep
        /\ recSession' \in {recSession, recSession \ {l}}
    BY <2>1 DEF SettleReapedOrphan, FinalizeOrphan, ForgetDir, Around
  <2>3. \A j \in WorkKind : <<m, j>> \in sdAwait' =>
            \/ <<m, j>> \in sdAwait /\ <<m, j>> # <<l, "reconfirm">>
            \/ m = l /\ j = "sweep" /\ sweep'[m] = "started"
            \/ m = l /\ j = "remove" /\ dir'[m] = "removing"
    <3>1. /\ sweep' \in [Launch -> {"idle", "started", "polling"}]
          /\ \A r \in Launch \ {l} : sweep'[r] = sweep[r]
      BY <2>2 DEF Around
    <3>2. CASE reconfirm[l] = "shutdown"
      BY <2>1, <2>2, <3>1, <3>2, WaitingContinues
    <3>3. CASE reconfirm[l] # "shutdown"
      BY <2>1, <3>3
    <3>q. QED BY <3>2, <3>3
  <2>4. /\ dir[m] = "removing" => dir'[m] = "removing"
        /\ sweep[m] # "idle" => sweep'[m] = sweep[m]
        /\ teardown[m] # "none" /\ m \in recSession => m \in recSession'
        /\ m # l => reconfirm'[m] = reconfirm[m]
    BY <1>1, <1>2, <2>2 DEF Around
  <2>q. QED BY <1>1, <2>3, <2>4 DEF Around, Waiting, WorkKind
<1>q. QED BY <1>3, <1>4

\* Every step keeps it.
LEMMA WaitInvStep ==
    ASSUME TypeOK, PoolInv, WorldInv, WaitInv, [Next]_vars
    PROVE  WaitInv'
<1> SUFFICES ASSUME NEW m \in Launch
             PROVE  Waiting(m)'
  BY DEF WaitInv
<1>around. \A l \in Launch : Around(l)
  BY AroundHolds
<1>m. Around(m)
  BY <1>around
<1> USE <1>m DEF Around, Waiting
<1>Acquire. ASSUME NEW l \in Launch, NEW c \in Owner, Acquire(l, c)
     PROVE  Waiting(m)'
  BY <1>Acquire DEF Acquire, launchVars, sessionVars, ledgerVars, recordVars,
     controlVars
<1>CallFactory. ASSUME NEW l \in Launch, NEW d \in DirOutcomes,
                       CallFactory(l, d)
     PROVE  Waiting(m)'
  BY <1>CallFactory DEF CallFactory, launchVars, sessionVars, ledgerVars,
     recordVars, controlVars
<1>FactoryThrows. ASSUME NEW l \in Launch, NEW d \in DirOutcomes,
                         FactoryThrows(l, d)
     PROVE  Waiting(m)'
  BY <1>FactoryThrows DEF FactoryThrows, EnqueueOrphan, launchVars,
     sessionVars, ledgerVars, recordVars, controlVars
<1>LaunchFails. ASSUME NEW l \in Launch, LaunchFails(l)
     PROVE  Waiting(m)'
  BY <1>LaunchFails DEF LaunchFails, EnqueueOrphan, launchVars, sessionVars,
     ledgerVars, recordVars, controlVars
<1>LaunchTimesOut. ASSUME NEW l \in Launch, LaunchTimesOut(l)
     PROVE  Waiting(m)'
  BY <1>LaunchTimesOut DEF LaunchTimesOut, EnqueueOrphan, launchVars,
     sessionVars, ledgerVars, recordVars, controlVars
<1>LaunchRegisters. ASSUME NEW l \in Launch, LaunchRegisters(l)
     PROVE  Waiting(m)'
  BY <1>LaunchRegisters DEF LaunchRegisters, launchVars, sessionVars,
     ledgerVars, recordVars, controlVars
<1>LaunchMeetsShutdown. ASSUME NEW l \in Launch, LaunchMeetsShutdown(l)
     PROVE  Waiting(m)'
  BY <1>LaunchMeetsShutdown DEF LaunchMeetsShutdown, launchVars, sessionVars,
     ledgerVars, recordVars, controlVars
<1>AcquireReturns. ASSUME NEW l \in Launch, AcquireReturns(l)
     PROVE  Waiting(m)'
  BY <1>AcquireReturns DEF AcquireReturns, launchVars, sessionVars, ledgerVars,
     recordVars, controlVars
<1>Spawn. ASSUME NEW l \in Launch, Spawn(l)
     PROVE  Waiting(m)'
  BY <1>Spawn DEF Spawn, launchVars, sessionVars, ledgerVars, recordVars,
     controlVars
<1>GroupDies. ASSUME NEW l \in Launch, NEW g \in Group, GroupDies(l, g)
     PROVE  Waiting(m)'
  BY <1>GroupDies DEF GroupDies, launchVars, sessionVars, ledgerVars,
     recordVars, controlVars
<1>CarrierDies. ASSUME NEW l \in Launch, NEW g \in Group, CarrierDies(l, g)
     PROVE  Waiting(m)'
  BY <1>CarrierDies DEF CarrierDies, launchVars, sessionVars, ledgerVars,
     recordVars, controlVars
<1>LateResolve. ASSUME NEW l \in Launch, LateResolve(l)
     PROVE  Waiting(m)'
  BY <1>LateResolve DEF LateResolve, LeaveWatch, launchVars, sessionVars,
     ledgerVars, recordVars, controlVars
<1>LateReject. ASSUME NEW l \in Launch, LateReject(l)
     PROVE  Waiting(m)'
  BY <1>LateReject DEF LateReject, launchVars, sessionVars, ledgerVars,
     recordVars, controlVars
<1>RemoveSettles. ASSUME NEW l \in Launch, RemoveSettles(l)
     PROVE  Waiting(m)'
  BY <1>RemoveSettles DEF RemoveSettles, launchVars, sessionVars, ledgerVars,
     recordVars, controlVars
<1>Release. ASSUME NEW l \in Launch, Release(l)
     PROVE  Waiting(m)'
  BY <1>Release DEF Release, BeginTeardown, launchVars, sessionVars,
     ledgerVars, recordVars, controlVars
<1>CloseResolves. ASSUME NEW l \in Launch, CloseResolves(l)
     PROVE  Waiting(m)'
  <2>1. Around(l)
    BY <1>around
  <2>2. CASE TeardownConfirms(l)
    BY <1>CloseResolves, <2>1, <2>2, WaitingConfirms DEF CloseResolves
  <2>3. CASE ~TeardownConfirms(l)
    BY <1>CloseResolves, <2>3
    DEF CloseResolves, launchVars, recordVars, controlVars
  <2>q. QED BY <2>2, <2>3
<1>CloseFails. ASSUME NEW l \in Launch, CloseFails(l)
     PROVE  Waiting(m)'
  BY <1>CloseFails DEF CloseFails, launchVars, sessionVars, ledgerVars,
     recordVars, controlVars
<1>KillConfirms. ASSUME NEW l \in Launch, KillConfirms(l)
     PROVE  Waiting(m)'
  <2>1. Around(l)
    BY <1>around
  <2>q. QED BY <1>KillConfirms, <2>1, WaitingConfirms DEF KillConfirms
<1>KillGivesUp. ASSUME NEW l \in Launch, KillGivesUp(l)
     PROVE  Waiting(m)'
  BY <1>KillGivesUp DEF KillGivesUp, TeardownUnconfirmed, launchVars,
     sessionVars, ledgerVars, recordVars, controlVars
<1>ReconfirmConfirms. ASSUME NEW l \in Launch, ReconfirmConfirms(l)
     PROVE  Waiting(m)'
  <2>1. Around(l)
    BY <1>around
  <2>q. QED BY <1>ReconfirmConfirms, <2>1, WaitingReconfirms
<1>ReconfirmGivesUp. ASSUME NEW l \in Launch, ReconfirmGivesUp(l)
     PROVE  Waiting(m)'
  BY <1>ReconfirmGivesUp DEF ReconfirmGivesUp, launchVars, sessionVars,
     ledgerVars, recordVars, controlVars
<1>SweepPolls. ASSUME NEW l \in Launch, SweepPolls(l)
     PROVE  Waiting(m)'
  BY <1>SweepPolls DEF SweepPolls, Visible, launchVars, sessionVars,
     ledgerVars, recordVars, controlVars
<1>SweepConfirms. ASSUME NEW l \in Launch, SweepConfirms(l)
     PROVE  Waiting(m)'
  <2>1. Around(l)
    BY <1>around
  <2>q. QED BY <1>SweepConfirms, <2>1, WaitingFulfils DEF SweepConfirms
<1>SweepUnconfirmed. ASSUME NEW l \in Launch, SweepUnconfirmed(l)
     PROVE  Waiting(m)'
  <2>1. Around(l)
    BY <1>around
  <2>q. QED BY <1>SweepUnconfirmed, <2>1, WaitingFulfils DEF SweepUnconfirmed
<1>SweepUnsupported. ASSUME NEW l \in Launch, SweepUnsupported(l)
     PROVE  Waiting(m)'
  <2>1. Around(l)
    BY <1>around
  <2>q. QED BY <1>SweepUnsupported, <2>1, WaitingFulfils DEF SweepUnsupported
<1>SweepRejects. ASSUME NEW l \in Launch, SweepRejects(l)
     PROVE  Waiting(m)'
  BY <1>SweepRejects DEF SweepRejects, SettleReapedOrphan, FinalizeOrphan,
     LeaveWatch, ForgetDir, launchVars, sessionVars, ledgerVars, recordVars,
     controlVars
<1>TickReleases. ASSUME NEW S \in SUBSET sessions, TickReleases(S)
     PROVE  Waiting(m)'
  BY <1>TickReleases DEF TickReleases, BeginTeardown, launchVars, sessionVars,
     ledgerVars, recordVars, controlVars
<1>TickDrains. ASSUME TickDrains
     PROVE  Waiting(m)'
  BY <1>TickDrains DEF TickDrains, DrainUnconfirmed, launchVars, sessionVars,
     ledgerVars, recordVars, controlVars
<1>TickSweeps. ASSUME TickSweeps
     PROVE  Waiting(m)'
  BY <1>TickSweeps DEF TickSweeps, SweepAll, WatchAfterCap, launchVars,
     sessionVars, ledgerVars, recordVars, controlVars
<1>ShutdownBegins. ASSUME ShutdownBegins
     PROVE  Waiting(m)'
  BY <1>ShutdownBegins DEF ShutdownBegins, InFlight, launchVars, sessionVars, ledgerVars,
     recordVars, controlVars
<1>ShutdownAwaitsWork. ASSUME NEW from, NEW to,
                              <<from, to>> \in {<<"launches", "work">>,
                                  <<"sweep", "work2">>, <<"work2", "work3">>},
                              ShutdownAwaitsWork(from, to)
     PROVE  Waiting(m)'
  BY <1>ShutdownAwaitsWork DEF ShutdownAwaitsWork, OrphanWork, launchVars,
     sessionVars, recordVars
<1>ShutdownTearsDown. ASSUME ShutdownTearsDown
     PROVE  Waiting(m)'
  BY <1>ShutdownTearsDown DEF ShutdownTearsDown, BeginTeardown, launchVars,
     sessionVars, ledgerVars, recordVars, controlVars
<1>ShutdownDrains. ASSUME ShutdownDrains
     PROVE  Waiting(m)'
  BY <1>ShutdownDrains DEF ShutdownDrains, DrainUnconfirmed, DrainDue,
     launchVars, sessionVars, ledgerVars, recordVars, controlVars
<1>ShutdownSweeps. ASSUME ShutdownSweeps
     PROVE  Waiting(m)'
  BY <1>ShutdownSweeps DEF ShutdownSweeps, SweepAll, launchVars, sessionVars,
     ledgerVars, recordVars, controlVars
<1>ShutdownReturns. ASSUME ShutdownReturns
     PROVE  Waiting(m)'
  BY <1>ShutdownReturns DEF ShutdownReturns, launchVars, sessionVars,
     ledgerVars, recordVars, controlVars
<1>Exit. CASE Exit \/ UNCHANGED vars
  BY <1>Exit DEF Exit, vars, launchVars, sessionVars, ledgerVars, recordVars,
     controlVars
<1> HIDE <1>m DEF Around, Waiting
<1>q. QED BY <1>Acquire, <1>CallFactory, <1>FactoryThrows, <1>LaunchFails,
     <1>LaunchTimesOut, <1>LaunchRegisters, <1>LaunchMeetsShutdown,
     <1>AcquireReturns, <1>Spawn, <1>GroupDies, <1>CarrierDies, <1>LateResolve,
     <1>LateReject, <1>RemoveSettles, <1>Release, <1>CloseResolves,
     <1>CloseFails, <1>KillConfirms, <1>KillGivesUp, <1>ReconfirmConfirms,
     <1>ReconfirmGivesUp, <1>SweepPolls, <1>SweepConfirms, <1>SweepUnconfirmed,
     <1>SweepUnsupported, <1>SweepRejects, <1>TickReleases, <1>TickDrains,
     <1>TickSweeps, <1>ShutdownBegins, <1>ShutdownAwaitsWork,
     <1>ShutdownTearsDown, <1>ShutdownDrains, <1>ShutdownSweeps,
     <1>ShutdownReturns, <1>Exit
     DEF Next, AcquireStep, WorldStep, SessionStep, SweepStep, TickStep,
         ShutdownStep

\* The invariant holds initially, every step keeps it, so it always holds.
LEMMA WaitInvHolds == Spec => []WaitInv
<1>1. Init => WaitInv
  BY DEF Init, WaitInv, Waiting
<1>2. Inv /\ WorldInv /\ WaitInv /\ [Next]_vars => WaitInv'
  BY WaitInvStep DEF Inv
<1>q. QED BY <1>1, <1>2, InvHolds, WorldInvHolds, PTL DEF Spec

\* shutdown() never waits for a promise nobody is left to settle, whatever the
\* launches, teardowns, late arrivals, sweeps and removals it meets, and returns
\* only when no launch is in flight and every session left is unconfirmed.
THEOREM ShutdownWaitsRight == Spec => []ShutdownWaits
<1>1. Inv /\ WaitInv => AwaitedUnderWay
  BY DEF Inv, PoolInv, Books, InCharge, WaitInv, Waiting, InFlight, AwaitedUnderWay
<1>2. AwaitedUnderWay /\ ShutdownHonest => ShutdownWaits
  BY DEF ShutdownWaits
<1>q. QED BY <1>1, <1>2, InvHolds, WaitInvHolds, ShutdownIsHonest, PTL
=============================================================================
