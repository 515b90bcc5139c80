--------------------- MODULE SessionPoolContractProofs ---------------------
(***************************************************************************)
(* Proofs about SessionPool, concluded: the pool implements SlotContract.  *)
(* Every step of the pool, seen through the phase of each launch, the      *)
(* browsers that live and the gate, is a step of the contract or none.     *)
(***************************************************************************)
EXTENDS SessionPoolSafetyProofs

Gate == IF sd = "up" THEN "open" ELSE IF sd = "done" THEN "closed" ELSE "draining"
Living == {l \in Launch : Confirmable(l) /\ KnownAlive(l)}

\* A session is ended only once the acquire() that made it has returned.
Returned(l) == l \in sessions /\ l \in closing \cup unconfirmed => acq[l] = "done"

ReturnedInv == \A l \in Launch : Returned(l)

\* A launch that has not begun or is gone has no browser that lives.
Buried == \A l \in Launch : PhaseOf(l) \in {"new", "gone"} => l \notin Living

\* One launch goes on as the contract allows, or stays where it is.
Onward(l) ==
    LET from == PhaseOf(l)
        to == PhaseOf(l)'
    IN  /\ UNCHANGED <<owner, Gate>>
        /\ \/ from = to
           \/ from = "starting" /\ to \in {"lent", "owed", "parked", "gone"}
           \/ from = "lent" /\ to = "ending"
           \/ from = "ending" /\ to = "gone"
           \/ from = "owed" /\ to \in {"parked", "gone"}
           \/ from = "parked" /\ to \in {"owed", "gone"}
        /\ from # "lent" /\ to = "lent" => Gate = "open"

\* What one step does to one launch.
Goes(m) ==
    /\ Returned(m)'
    /\ \/ Onward(m)
       \/ \E l \in Launch, c \in Owner : Acquire(l, c)
       \/ ShutdownBegins \/ ShutdownReturns

\* Every step moves every launch along the arrows of the contract, but for an
\* admission and the two ends of shutdown().
LEMMA GoesStep ==
    ASSUME TypeOK, PoolInv, StopInv, WorldInv, ReturnedInv, [Next]_vars,
           NEW m \in Launch
    PROVE  Goes(m)
<1>0. Books(m) /\ World(m) /\ Returned(m)
  BY DEF PoolInv, WorldInv, ReturnedInv
<1> USE PoolAssumption, <1>0
    DEF TypeOK, PoolInv, Books, Early, Fresh, Promise, InCharge, Kept, Core,
        WorldInv, World, ReturnedInv, Returned, StopInv, InFlight, ShuttingDown,
        Goes, Onward, PhaseOf, Gate
<1>Acquire. ASSUME NEW l \in Launch, NEW c \in Owner, Acquire(l, c)
     PROVE  Goes(m)
  <2>1. Returned(m)'
    BY <1>Acquire DEF Acquire, sessionVars
  <2>q. QED BY <1>Acquire, <2>1 DEF Goes
<1>CallFactory. ASSUME NEW l \in Launch, NEW d \in DirOutcomes,
                       CallFactory(l, d)
     PROVE  Goes(m)
  BY <1>CallFactory DEF CallFactory, launchVars, sessionVars, ledgerVars,
     recordVars, controlVars
<1>FactoryThrows. ASSUME NEW l \in Launch, NEW d \in DirOutcomes,
                         FactoryThrows(l, d)
     PROVE  Goes(m)
  BY <1>FactoryThrows DEF FactoryThrows, EnqueueOrphan, launchVars,
     sessionVars, ledgerVars, recordVars, controlVars
<1>LaunchFails. ASSUME NEW l \in Launch, LaunchFails(l)
     PROVE  Goes(m)
  BY <1>LaunchFails DEF LaunchFails, EnqueueOrphan, launchVars, sessionVars,
     ledgerVars, recordVars, controlVars
<1>LaunchTimesOut. ASSUME NEW l \in Launch, LaunchTimesOut(l)
     PROVE  Goes(m)
  BY <1>LaunchTimesOut DEF LaunchTimesOut, EnqueueOrphan, launchVars,
     sessionVars, ledgerVars, recordVars, controlVars
<1>LaunchRegisters. ASSUME NEW l \in Launch, LaunchRegisters(l)
     PROVE  Goes(m)
  BY <1>LaunchRegisters DEF LaunchRegisters, launchVars, sessionVars,
     ledgerVars, recordVars, controlVars
<1>LaunchMeetsShutdown. ASSUME NEW l \in Launch, LaunchMeetsShutdown(l)
     PROVE  Goes(m)
  BY <1>LaunchMeetsShutdown DEF LaunchMeetsShutdown, launchVars, sessionVars,
     ledgerVars, recordVars, controlVars
<1>AcquireReturns. ASSUME NEW l \in Launch, AcquireReturns(l)
     PROVE  Goes(m)
  BY <1>AcquireReturns DEF AcquireReturns, launchVars, sessionVars, ledgerVars,
     recordVars, controlVars
<1>Spawn. ASSUME NEW l \in Launch, Spawn(l)
     PROVE  Goes(m)
  BY <1>Spawn DEF Spawn, launchVars, sessionVars, ledgerVars, recordVars,
     controlVars
<1>GroupDies. ASSUME NEW l \in Launch, NEW g \in Group, GroupDies(l, g)
     PROVE  Goes(m)
  BY <1>GroupDies DEF GroupDies, launchVars, sessionVars, ledgerVars,
     recordVars, controlVars
<1>CarrierDies. ASSUME NEW l \in Launch, NEW g \in Group, CarrierDies(l, g)
     PROVE  Goes(m)
  BY <1>CarrierDies DEF CarrierDies, launchVars, sessionVars, ledgerVars,
     recordVars, controlVars
<1>LateResolve. ASSUME NEW l \in Launch, LateResolve(l)
     PROVE  Goes(m)
  BY <1>LateResolve DEF LateResolve, LeaveWatch, launchVars, sessionVars,
     ledgerVars, recordVars, controlVars
<1>LateReject. ASSUME NEW l \in Launch, LateReject(l)
     PROVE  Goes(m)
  BY <1>LateReject DEF LateReject, launchVars, sessionVars, ledgerVars,
     recordVars, controlVars
<1>RemoveSettles. ASSUME NEW l \in Launch, RemoveSettles(l)
     PROVE  Goes(m)
  BY <1>RemoveSettles DEF RemoveSettles, launchVars, sessionVars, ledgerVars,
     recordVars, controlVars
<1>Release. ASSUME NEW l \in Launch, Release(l)
     PROVE  Goes(m)
  BY <1>Release DEF Release, BeginTeardown, launchVars, sessionVars,
     ledgerVars, recordVars, controlVars
<1>CloseResolves. ASSUME NEW l \in Launch, CloseResolves(l)
     PROVE  Goes(m)
  BY <1>CloseResolves DEF CloseResolves, TeardownConfirms, SettleReapedOrphan,
     FinalizeOrphan, LeaveWatch, ForgetDir, launchVars, sessionVars,
     ledgerVars, recordVars, controlVars
<1>CloseFails. ASSUME NEW l \in Launch, CloseFails(l)
     PROVE  Goes(m)
  BY <1>CloseFails DEF CloseFails, launchVars, sessionVars, ledgerVars,
     recordVars, controlVars
<1>KillConfirms. ASSUME NEW l \in Launch, KillConfirms(l)
     PROVE  Goes(m)
  BY <1>KillConfirms DEF KillConfirms, TeardownConfirms, SettleReapedOrphan,
     FinalizeOrphan, LeaveWatch, ForgetDir, launchVars, sessionVars,
     ledgerVars, recordVars, controlVars
<1>KillGivesUp. ASSUME NEW l \in Launch, KillGivesUp(l)
     PROVE  Goes(m)
  BY <1>KillGivesUp DEF KillGivesUp, TeardownUnconfirmed, launchVars,
     sessionVars, ledgerVars, recordVars, controlVars
<1>ReconfirmConfirms. ASSUME NEW l \in Launch, ReconfirmConfirms(l)
     PROVE  Goes(m)
  BY <1>ReconfirmConfirms DEF ReconfirmConfirms, SettleReapedOrphan,
     FinalizeOrphan, LeaveWatch, ForgetDir, launchVars, sessionVars,
     ledgerVars, recordVars, controlVars
<1>ReconfirmGivesUp. ASSUME NEW l \in Launch, ReconfirmGivesUp(l)
     PROVE  Goes(m)
  BY <1>ReconfirmGivesUp DEF ReconfirmGivesUp, launchVars, sessionVars,
     ledgerVars, recordVars, controlVars
<1>SweepPolls. ASSUME NEW l \in Launch, SweepPolls(l)
     PROVE  Goes(m)
  BY <1>SweepPolls DEF SweepPolls, Visible, launchVars, sessionVars,
     ledgerVars, recordVars, controlVars
<1>SweepConfirms. ASSUME NEW l \in Launch, SweepConfirms(l)
     PROVE  Goes(m)
  <2>1. CASE l \in deferred \/ l \in recSession
    BY <1>SweepConfirms, <2>1
    DEF SweepConfirms, SweepFulfils, SettleReapedOrphan, FinalizeOrphan,
        LeaveWatch, ForgetDir, launchVars, sessionVars, ledgerVars, recordVars,
        controlVars
  <2>2. CASE l \notin deferred /\ l \notin recSession /\ ~WatchLaunch(l)
    BY <1>SweepConfirms, <2>2
    DEF SweepConfirms, SweepFulfils, ApplyVerdict, FinalizeOrphan, LeaveWatch,
        ForgetDir, launchVars, sessionVars, ledgerVars, recordVars, controlVars
  <2>3. CASE l \notin deferred /\ l \notin recSession /\ WatchLaunch(l)
    BY <1>SweepConfirms, <2>3
    DEF SweepConfirms, SweepFulfils, ApplyVerdict, WatchLaunch, WatchAfterCap,
        FinalizeOrphan, launchVars, sessionVars, ledgerVars, recordVars, controlVars
  <2>q. QED BY <2>1, <2>2, <2>3
<1>SweepUnconfirmed. ASSUME NEW l \in Launch, SweepUnconfirmed(l)
     PROVE  Goes(m)
  BY <1>SweepUnconfirmed DEF SweepUnconfirmed, Visible, SweepFulfils,
     ApplyVerdict, WatchLaunch, WatchAfterCap, SettleReapedOrphan,
     FinalizeOrphan, LeaveWatch, ForgetDir, launchVars, sessionVars,
     ledgerVars, recordVars, controlVars
<1>SweepUnsupported. ASSUME NEW l \in Launch, SweepUnsupported(l)
     PROVE  Goes(m)
  BY <1>SweepUnsupported DEF SweepUnsupported, SweepFulfils, ApplyVerdict,
     WatchLaunch, WatchAfterCap, SettleReapedOrphan, FinalizeOrphan,
     LeaveWatch, ForgetDir, launchVars, sessionVars, ledgerVars, recordVars,
     controlVars
<1>SweepRejects. ASSUME NEW l \in Launch, SweepRejects(l)
     PROVE  Goes(m)
  BY <1>SweepRejects DEF SweepRejects, SettleReapedOrphan, FinalizeOrphan,
     LeaveWatch, ForgetDir, launchVars, sessionVars, ledgerVars, recordVars,
     controlVars
<1>TickReleases. ASSUME NEW S \in SUBSET sessions, TickReleases(S)
     PROVE  Goes(m)
  BY <1>TickReleases DEF TickReleases, BeginTeardown, launchVars, sessionVars,
     ledgerVars, recordVars, controlVars
<1>TickDrains. ASSUME TickDrains
     PROVE  Goes(m)
  BY <1>TickDrains DEF TickDrains, DrainUnconfirmed, launchVars, sessionVars,
     ledgerVars, recordVars, controlVars
<1>TickSweeps. ASSUME TickSweeps
     PROVE  Goes(m)
  BY <1>TickSweeps DEF TickSweeps, SweepAll, WatchAfterCap, launchVars,
     sessionVars, ledgerVars, recordVars, controlVars
<1>ShutdownBegins. ASSUME ShutdownBegins
     PROVE  Goes(m)
  BY <1>ShutdownBegins DEF ShutdownBegins, launchVars, sessionVars, ledgerVars,
     recordVars, controlVars
<1>ShutdownAwaitsWork. ASSUME NEW from, NEW to,
                              <<from, to>> \in {<<"launches", "work">>,
                                  <<"sweep", "work2">>, <<"work2", "work3">>},
                              ShutdownAwaitsWork(from, to)
     PROVE  Goes(m)
  BY <1>ShutdownAwaitsWork DEF ShutdownAwaitsWork, OrphanWork, launchVars,
     sessionVars, ledgerVars, recordVars, controlVars
<1>ShutdownTearsDown. ASSUME ShutdownTearsDown
     PROVE  Goes(m)
  BY <1>ShutdownTearsDown DEF ShutdownTearsDown, BeginTeardown, launchVars,
     sessionVars, ledgerVars, recordVars, controlVars
<1>ShutdownDrains. ASSUME ShutdownDrains
     PROVE  Goes(m)
  BY <1>ShutdownDrains DEF ShutdownDrains, DrainUnconfirmed, DrainDue,
     launchVars, sessionVars, ledgerVars, recordVars, controlVars
<1>ShutdownSweeps. ASSUME ShutdownSweeps
     PROVE  Goes(m)
  BY <1>ShutdownSweeps DEF ShutdownSweeps, SweepAll, launchVars, sessionVars,
     ledgerVars, recordVars, controlVars
<1>ShutdownReturns. ASSUME ShutdownReturns
     PROVE  Goes(m)
  BY <1>ShutdownReturns DEF ShutdownReturns, launchVars, sessionVars,
     ledgerVars, recordVars, controlVars
<1>Exit. CASE Exit \/ UNCHANGED vars
  BY <1>Exit DEF Exit, vars, launchVars, sessionVars, ledgerVars, recordVars,
     controlVars
<1> HIDE <1>0
    DEF TypeOK, PoolInv, Books, Early, Fresh, Promise, InCharge, Kept, Core,
        WorldInv, World, ReturnedInv, Returned, StopInv, InFlight, ShuttingDown,
        Goes, Onward, PhaseOf, Gate
<1>q. QED BY <1>Acquire, <1>CallFactory, <1>FactoryThrows, <1>LaunchFails,
     <1>LaunchTimesOut, <1>LaunchRegisters, <1>LaunchMeetsShutdown,
     <1>AcquireReturns, <1>Spawn, <1>GroupDies, <1>CarrierDies, <1>LateResolve,
     <1>LateReject, <1>RemoveSettles, <1>Release, <1>CloseResolves,
     <1>CloseFails, <1>KillConfirms, <1>KillGivesUp, <1>ReconfirmConfirms,
     <1>ReconfirmGivesUp, <1>SweepPolls, <1>SweepConfirms, <1>SweepUnconfirmed,
     <1>SweepUnsupported, <1>SweepRejects, <1>TickReleases, <1>TickDrains,
     <1>TickSweeps, <1>ShutdownBegins, <1>ShutdownAwaitsWork,
     <1>ShutdownTearsDown, <1>ShutdownDrains, <1>ShutdownSweeps,
     <1>ShutdownReturns, <1>Exit
     DEF Next, AcquireStep, WorldStep, SessionStep, SweepStep, TickStep,
         ShutdownStep

\* The ends come after the returns, always.
LEMMA ReturnedHolds == Spec => []ReturnedInv
<1>1. Init => ReturnedInv
  BY DEF Init, ReturnedInv, Returned
<1>2. Inv /\ WorldInv /\ ReturnedInv /\ [Next]_vars => ReturnedInv'
  <2> SUFFICES ASSUME Inv, WorldInv, ReturnedInv, [Next]_vars, NEW m \in Launch
               PROVE  Returned(m)'
    BY DEF ReturnedInv
  <2>q. QED BY GoesStep DEF Inv, Goes
<1>q. QED BY <1>1, <1>2, InvHolds, WorldInvHolds, PTL DEF Spec

\* No launch is given up for good while its browser lives.
LEMMA BuriedHolds == Spec => []Buried
<1>1. Inv /\ WorldInv => Buried
  <2> SUFFICES ASSUME Inv, WorldInv, NEW l \in Launch,
                      PhaseOf(l) \in {"new", "gone"}
               PROVE  ~(Confirmable(l) /\ KnownAlive(l))
    BY DEF Buried, Living
  <2>1. TypeOK /\ Books(l) /\ World(l)
    BY DEF Inv, PoolInv, WorldInv
  <2>2. CASE launchP[l] = "none"
    <3>1. procs[l][MainGroup] = "none" /\ \A g \in Group : procs[l][g] = "none"
      BY <2>1, <2>2 DEF World, Found, Core
    <3>2. seen[l] \subseteq Group
      BY <2>1 DEF TypeOK
    <3>q. QED BY <3>1, <3>2 DEF KnownAlive, Alive
  <2>3. CASE launchP[l] # "none"
    <3>1. /\ launchP[l] = "done"
          /\ l \notin sessions \cup orphans \cup watch
      BY <2>1, <2>3 DEF TypeOK, Books, Promise, PhaseOf
    <3>q. QED BY <2>1, <3>1 DEF World, OffBooks
  <2>q. QED BY <2>2, <2>3
<1>q. QED BY <1>1, InvHolds, WorldInvHolds, PTL

-----------------------------------------------------------------------------
(* The refinement. *)

\* What holds a slot of the contract is what the pool counts.
LEMMA HoldingIsCounted ==
    ASSUME TypeOK
    PROVE  Contract!Holding = Counted
BY DEF TypeOK, Contract!Holding, Contract!In, Counted, InFlight, PhaseOf

\* The contract counts as the pool does.
LEMMA SameCardinality ==
    ASSUME NEW S
    PROVE  Contract!Cardinality(S) = Cardinality(S)
BY DEF Cardinality, Contract!Cardinality

\* An admission of the pool is an admission of the contract.
LEMMA AcquireAdmits ==
    ASSUME Inv, NEW l \in Launch, NEW c \in Owner, Acquire(l, c)
    PROVE  Contract!Admit(l, c)
<1> USE DEF Inv
<1>fin. \A T \in SUBSET Launch : IsFiniteSet(T) /\ Cardinality(T) \in Nat
  BY PoolAssumption, FS_Subset, FS_CardinalityType
<1>sub. InFlight \subseteq Launch /\ sessions \subseteq Launch /\ orphans \subseteq Launch
  BY DEF TypeOK, InFlight
<1>1. Gate = "open" /\ UNCHANGED Gate
  BY DEF Acquire, Gate, ShuttingDown, controlVars
<1>2. PhaseOf(l) = "new"
  BY DEF Acquire, PhaseOf, PoolInv, Books, Fresh, Early
<1>3. Cardinality(Counted) < MaxSessions
  <2>1. Cardinality(Counted) <= Cardinality(InFlight) + Cardinality(sessions)
                                    + Cardinality(orphans)
    BY <1>fin, <1>sub, UnionBound DEF Counted
  <2>2. Cardinality(sessions) + Cardinality(orphans) + Cardinality(InFlight)
            < MaxSessions
    BY DEF Acquire, ActiveCount, ReservationsExact
  <2>3. /\ Cardinality(InFlight) \in Nat /\ Cardinality(sessions) \in Nat
        /\ Cardinality(orphans) \in Nat /\ Cardinality(Counted) \in Nat
    <3>1. Counted \in SUBSET Launch
      BY <1>sub DEF Counted
    <3>q. QED BY <1>fin, <1>sub, <3>1
  <2>q. QED BY <2>1, <2>2, <2>3, PoolAssumption
<1>4. ASSUME c \in Consumer
      PROVE  Cardinality({h \in Counted : owner[h] = c}) < PerConsumerMax
  <2> DEFINE A == InFlight \cap OwnedBy(c)
             B == sessions \cap OwnedBy(c)
             C == orphans \cap OwnedBy(c)
  <2>1. {h \in Counted : owner[h] = c} = A \cup B \cup C
    BY <1>sub DEF Counted, OwnedBy
  <2>2. A \in SUBSET Launch /\ B \in SUBSET Launch /\ C \in SUBSET Launch
    BY <1>sub
  <2>3. Cardinality(A) + Cardinality(B) + Cardinality(C) < PerConsumerMax
    BY <1>4 DEF Acquire, CountForConsumer, ReservationsExact
  <2> HIDE DEF A, B, C
  <2>4. Cardinality(A \cup B \cup C)
            <= Cardinality(A) + Cardinality(B) + Cardinality(C)
    BY <1>fin, <2>2, UnionBound
  <2>5. /\ Cardinality(A) \in Nat /\ Cardinality(B) \in Nat
        /\ Cardinality(C) \in Nat /\ Cardinality(A \cup B \cup C) \in Nat
    <3>1. A \cup B \cup C \in SUBSET Launch
      BY <2>2
    <3>q. QED BY <1>fin, <2>2, <3>1
  <2>6. Cardinality(A \cup B \cup C) < PerConsumerMax
    BY <2>3, <2>4, <2>5, PoolAssumption
  <2>q. QED BY <2>1, <2>6
<1>5. \A m \in Launch : PhaseOf(m)' = IF m = l THEN "starting" ELSE PhaseOf(m)
  <2>1. ASSUME NEW m \in Launch
        PROVE  PhaseOf(m)' = IF m = l THEN "starting" ELSE PhaseOf(m)
    BY DEF Acquire, PhaseOf, TypeOK, PoolInv, Books, Fresh, Early, sessionVars,
       ledgerVars
  <2>q. QED BY <2>1
<1>6. [m \in Launch |-> PhaseOf(m)]'
          = [[m \in Launch |-> PhaseOf(m)] EXCEPT ![l] = "starting"]
  BY <1>5
<1>7. owner' = [owner EXCEPT ![l] = c]
  BY DEF Acquire
<1>8. UNCHANGED Living
  BY DEF Acquire, Living, Confirmable, KnownAlive, Alive, sessionVars, recordVars
<1>9. Contract!Holding = Counted
  BY HoldingIsCounted
<1>10. /\ Contract!Cardinality(Contract!Holding) < MaxSessions
       /\ c \in Consumer =>
              Contract!Cardinality({h \in Contract!Holding : owner[h] = c})
                  < PerConsumerMax
  BY <1>3, <1>4, <1>9, SameCardinality
<1>11. [m \in Launch |-> PhaseOf(m)][l] = "new"
  BY <1>2
<1> HIDE DEF Inv
<1>q. QED
  BY <1>1, <1>6, <1>7, <1>8, <1>10, <1>11 DEF Contract!Admit, Gate, Living

\* Either end of shutdown() is one of the contract's.
LEMMA ShutdownShuts ==
    ASSUME Inv, ShutdownBegins \/ ShutdownReturns
    PROVE  Contract!Shut
<1>1. UNCHANGED <<launchVars, procs, dir, sessionVars, ledgerVars, recordVars>>
  BY DEF ShutdownBegins, ShutdownReturns
<1>2. UNCHANGED Living
  BY <1>1 DEF Living, Confirmable, KnownAlive, Alive, sessionVars, recordVars
<1>3. \A m \in Launch : PhaseOf(m)' = PhaseOf(m)
  BY <1>1 DEF PhaseOf, launchVars, sessionVars, ledgerVars
<1>4. [m \in Launch |-> PhaseOf(m)]' = [m \in Launch |-> PhaseOf(m)]
  BY <1>3
<1>5. CASE ShutdownBegins
  <2>1. Gate = "open" /\ Gate' = "draining"
    BY <1>5 DEF ShutdownBegins, Gate
  <2>q. QED BY <1>1, <1>2, <1>4, <2>1 DEF Contract!Shut, Gate, Living, launchVars
<1>6. CASE ShutdownReturns
  <2>1. Gate = "draining" /\ Gate' = "closed"
    BY <1>6 DEF ShutdownReturns, Gate
  <2>2. InFlight = {} /\ sessions \subseteq closing \cup unconfirmed
    BY <1>6 DEF ShutdownReturns, Inv, StopInv
  <2>3. \A m \in Launch : PhaseOf(m) \notin {"starting", "lent"}
    BY <2>2 DEF PhaseOf, InFlight
  <2>4. Contract!In({"starting", "lent"}) = {}
    BY <2>3 DEF Contract!In
  <2>q. QED
    BY <1>1, <1>2, <1>4, <2>1, <2>4 DEF Contract!Shut, Gate, Living, launchVars
<1>q. QED BY <1>5, <1>6

\* Every other step is progress.
LEMMA OnwardProgresses ==
    ASSUME UNCHANGED <<owner, Gate>>, \A m \in Launch : Onward(m), Buried'
    PROVE  Contract!Progress
<1>1. UNCHANGED <<owner, Gate>>
  OBVIOUS
<1>2. ASSUME NEW m \in Launch
      PROVE  /\ \/ PhaseOf(m) = PhaseOf(m)'
                \/ <<PhaseOf(m), PhaseOf(m)'>> \in Contract!Arrow
             /\ PhaseOf(m) # "lent" /\ PhaseOf(m)' = "lent" => Gate = "open"
             /\ PhaseOf(m)' \in {"new", "gone"} => m \notin Living'
  BY DEF Onward, Contract!Arrow, Buried
<1>3. DOMAIN [m \in Launch |-> PhaseOf(m)]' = Launch /\ Living' \subseteq Launch
  BY DEF Living
<1>q. QED BY <1>1, <1>2, <1>3 DEF Contract!Progress, Gate, Living

\* The pool implements the contract of its callers: a launch only goes forward,
\* a slot is given only when one is free, nothing is lent once shutdown() began,
\* no launch is given up for good while its browser lives, and shutdown() returns
\* only when nobody holds a session that is not being ended.
THEOREM PoolKeepsContract == Spec => KeepsContract
<1>1. Init => Contract!Init
  BY DEF Init, Contract!Init, PhaseOf, Confirmable, KnownAlive, Alive
<1>2. Inv /\ WorldInv /\ ReturnedInv /\ Buried' /\ [Next]_vars
          => [Contract!Next]_(Contract!contract)
  <2> SUFFICES ASSUME Inv, WorldInv, ReturnedInv, Buried', [Next]_vars
               PROVE  [Contract!Next]_(Contract!contract)
    OBVIOUS
  <2>1. CASE \E l \in Launch, c \in Owner : Acquire(l, c)
    BY <2>1, AcquireAdmits DEF Contract!Next, Owner
  <2>2. CASE ShutdownBegins \/ ShutdownReturns
    BY <2>2, ShutdownShuts DEF Contract!Next
  <2>3. CASE /\ ~\E l \in Launch, c \in Owner : Acquire(l, c)
             /\ ~(ShutdownBegins \/ ShutdownReturns)
    <3>1. \A m \in Launch : Onward(m)
      BY <2>3, GoesStep DEF Inv, Goes
    <3>2. UNCHANGED <<owner, Gate>>
      <4>1. CASE Launch # {}
        BY <3>1, <4>1 DEF Onward
      <4>2. CASE Launch = {}
        <5>1. TickStep \/ ShutdownStep \/ Exit \/ UNCHANGED vars
          BY <4>2 DEF Next
        <5>q. QED
          BY <2>3, <5>1
          DEF TickStep, TickReleases, TickDrains, TickSweeps, ShutdownStep,
              ShutdownAwaitsWork, ShutdownTearsDown, ShutdownDrains,
              ShutdownSweeps, Exit, vars, launchVars, controlVars, Gate
      <4>q. QED BY <4>1, <4>2
    <3>q. QED BY <3>1, <3>2, OnwardProgresses DEF Contract!Next
  <2>q. QED BY <2>1, <2>2, <2>3
<1>q. QED
  BY <1>1, <1>2, InvHolds, WorldInvHolds, ReturnedHolds, BuriedHolds, PTL
  DEF Spec, KeepsContract, Contract!Spec
=============================================================================
