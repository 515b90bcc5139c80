---------------------------- MODULE SessionPool ----------------------------
(***************************************************************************)
(* The browser pool of the gateway: SessionManager                         *)
(* (src/gateway/session-manager.ts) together with the Session it hands out *)
(* (src/gateway/session.ts) and the contracts it has with the browser core *)
(* and with the orphan sweep.                                              *)
(*                                                                         *)
(* Everything one acquire() creates is indexed by one launch: the factory  *)
(* promise, the operating-system process groups behind it, the profile     *)
(* directory minted for it, the Session object built on it and the         *)
(* OrphanRecord kept when it never becomes a session.                      *)
(*                                                                         *)
(* A step is one run of the event loop between two awaits: everything a    *)
(* handler does synchronously is one action.  Process groups live outside  *)
(* the event loop and change whenever the operating system likes.          *)
(***************************************************************************)
EXTENDS Naturals, FiniteSets

CONSTANTS
    Launch,          \* acquire() calls that pass the admission gate
    Consumer,        \* drive consumers
    NoConsumer,      \* the owner of a transient (retrieve) session
    MaxSessions,     \* SessionManagerOptions.maxSessions
    PerConsumerMax,  \* SessionManagerOptions.perConsumerMax
    MaxWatched,      \* MAX_WATCHED_LAUNCHES
    ReconfirmTries,  \* SHUTDOWN_RECONFIRM_TRIES
    Group,           \* process groups a launch may spawn
    MainGroup,       \* the one Chromium leads, the one core.kill() covers
    DirOutcomes,     \* subset of {"owned", "none"}: profile dir minted / not
    KillOutcomes,    \* subset of {"yes", "no"}: values forceKillAvailable may have
    SweepSupported,  \* FALSE on a platform without /proc
    Stoppable        \* FALSE in a run where shutdown() is never called

ASSUME PoolAssumption ==
    /\ IsFiniteSet(Launch)
    /\ NoConsumer \notin Consumer
    /\ MaxSessions \in Nat /\ PerConsumerMax \in Nat
    /\ MaxWatched \in Nat /\ ReconfirmTries \in Nat
    /\ MainGroup \in Group
    /\ DirOutcomes \subseteq {"owned", "none"}
    /\ KillOutcomes \subseteq {"yes", "no"}
    /\ SweepSupported \in BOOLEAN /\ Stoppable \in BOOLEAN

VARIABLES
    \* the acquire() call and the factory promise
    owner,        \* [Launch -> Consumer \cup {NoConsumer}]
    acq,          \* control point of acquire()/#launchAndRegister
    launchP,      \* the factory promise: none, pending, settled
    \* the world outside the process
    procs,        \* [Launch -> [Group -> none | visible | hidden | dead]]
    dir,          \* the minted profile directory and its removal
    \* SessionManager
    reserved, reservedByConsumer,
    sessions,     \* #sessions
    closing,      \* keys of #closing
    unconfirmed,  \* #unconfirmed
    teardown,     \* progress of Session.teardown: none, close, kill
    reconfirm,    \* who started the kill-only reconfirm in flight, if any
    forceKill,    \* core.forceKillAvailable: unknown until a core arrives
    orphans,      \* #orphans, the counted ledger
    watch,        \* #watch, the uncounted ledger
    older,        \* insertion order of #watch: older[r] was there before r
    \* OrphanRecord fields
    recSession,   \* records with `session` set
    settled,      \* records with `settled` set
    deferred,     \* records with `settleAfterSweep` set
    sweep,        \* sweep in flight: idle, started (no scan yet), polling
    stamps,       \* owed process groups
    \* reaper and shutdown
    tick,         \* a reaper tick was in flight when shutdown() stopped the timer
    sd,           \* control point of shutdown()
    sdAwait,      \* the promises the current await of shutdown() still needs
    sdTries,      \* passes of the current reconfirm loop
    \* observers
    parked,       \* launches ever taken out of the count while unsettled
    seen          \* helper groups (other than the main one) a sweep has observed

launchVars == <<owner, acq, launchP, reserved, reservedByConsumer>>
sessionVars == <<sessions, closing, unconfirmed, teardown, reconfirm, forceKill>>
ledgerVars == <<orphans, watch, older, parked>>
recordVars == <<recSession, settled, deferred, sweep, stamps, seen>>
controlVars == <<tick, sd, sdAwait, sdTries>>
vars == <<launchVars, procs, dir, sessionVars, ledgerVars, recordVars,
          controlVars>>

WorkKind == {"launch", "teardown", "reconfirm", "late", "sweep", "remove"}
Owner == Consumer \cup {NoConsumer}

-----------------------------------------------------------------------------
(* Observations. *)

InFlight == {l \in Launch : acq[l] \notin {"idle", "done"}}
Alive(l, g) == procs[l][g] \in {"visible", "hidden"}
Visible(l) == {g \in Group : procs[l][g] = "visible"}
ShuttingDown == sd # "up"
OwnedBy(c) == {l \in Launch : owner[l] = c}

\* activeCount: what occupies a capacity slot.
ActiveCount == Cardinality(sessions) + Cardinality(orphans)

\* Fault: launches still in flight are left out of the consumer's count.
CountWithoutReservations(c) ==
    Cardinality(sessions \cap OwnedBy(c)) + Cardinality(orphans \cap OwnedBy(c))

\* #countForConsumer: reservations, sessions and orphans of one consumer.  (The
\* record of a launch that resolves into a shutdown carries no consumer id in
\* the code; acquire() refuses from then on, so nobody reads that count again.)
CountForConsumer(c) ==
    reservedByConsumer[c] + Cardinality(sessions \cap OwnedBy(c))
                          + Cardinality(orphans \cap OwnedBy(c))

Init ==
    /\ owner = [l \in Launch |-> NoConsumer]
    /\ acq = [l \in Launch |-> "idle"]
    /\ launchP = [l \in Launch |-> "none"]
    /\ procs = [l \in Launch |-> [g \in Group |-> "none"]]
    /\ dir = [l \in Launch |-> "none"]
    /\ reserved = 0
    /\ reservedByConsumer = [c \in Consumer |-> 0]
    /\ sessions = {} /\ closing = {} /\ unconfirmed = {}
    /\ forceKill = [l \in Launch |-> "unknown"]
    /\ teardown = [l \in Launch |-> "none"]
    /\ reconfirm = [l \in Launch |-> "none"]
    /\ orphans = {} /\ watch = {} /\ parked = {}
    /\ older = [l \in Launch |-> {}]
    /\ recSession = {} /\ settled = {} /\ deferred = {}
    /\ sweep = [l \in Launch |-> "idle"]
    /\ stamps = [l \in Launch |-> {}]
    /\ seen = [l \in Launch |-> {}]
    /\ tick = FALSE
    /\ sd = "up" /\ sdAwait = {} /\ sdTries = 0

-----------------------------------------------------------------------------
(* acquire() and #launchAndRegister. *)

\* Fault: the admission gate forgets the launches still in flight.
AcquireIgnoringReserved(l, c) ==
    /\ acq[l] = "idle" /\ ~ShuttingDown
    /\ ActiveCount < MaxSessions
    /\ c \in Consumer => CountForConsumer(c) < PerConsumerMax
    /\ owner' = [owner EXCEPT ![l] = c]
    /\ acq' = [acq EXCEPT ![l] = "minting"]
    /\ reserved' = reserved + 1
    /\ reservedByConsumer' = [k \in Consumer |->
            IF k = c THEN reservedByConsumer[k] + 1 ELSE reservedByConsumer[k]]
    /\ UNCHANGED <<launchP, procs, dir, sessionVars, ledgerVars, recordVars,
                   controlVars>>

\* Past the three refusals a slot is reserved, globally and for the consumer.
Acquire(l, c) ==
    /\ acq[l] = "idle"
    /\ ~ShuttingDown
    /\ ActiveCount + reserved < MaxSessions
    /\ c \in Consumer => CountForConsumer(c) < PerConsumerMax
    /\ owner' = [owner EXCEPT ![l] = c]
    /\ acq' = [acq EXCEPT ![l] = "minting"]
    /\ reserved' = reserved + 1
    /\ reservedByConsumer' = [k \in Consumer |->
            IF k = c THEN reservedByConsumer[k] + 1 ELSE reservedByConsumer[k]]
    /\ UNCHANGED <<launchP, procs, dir, sessionVars, ledgerVars, recordVars,
                   controlVars>>

\* #enqueueOrphan on a record whose only anchor is directory d: it is counted
\* and a sweep starts at once.  Without a directory there is no sweep key, so
\* #sweepOrphan drops the record again.
EnqueueOrphan(l, d) ==
    /\ orphans' = IF d = "owned" THEN orphans \cup {l} ELSE orphans
    /\ sweep' = IF d = "owned" THEN [sweep EXCEPT ![l] = "started"] ELSE sweep
    /\ UNCHANGED <<watch, older, recSession, deferred, stamps, seen>>

\* dirOps.make() settles (d = "none": it failed, or the caller supplied a
\* directory of its own) and the factory is called in the same step.
CallFactory(l, d) ==
    /\ acq[l] = "minting"
    /\ dir' = [dir EXCEPT ![l] = d]
    /\ acq' = [acq EXCEPT ![l] = "launching"]
    /\ launchP' = [launchP EXCEPT ![l] = "pending"]
    /\ UNCHANGED <<owner, reserved, reservedByConsumer, procs, sessionVars,
                   ledgerVars, recordVars, controlVars>>

\* The factory throws before it returns a promise.  It may have spawned.
FactoryThrows(l, d) ==
    /\ acq[l] = "minting"
    /\ dir' = [dir EXCEPT ![l] = d]
    /\ acq' = [acq EXCEPT ![l] = "returning"]
    /\ launchP' = [launchP EXCEPT ![l] = "done"]
    /\ \E s \in {"none", "visible"} : procs' = [procs EXCEPT ![l][MainGroup] = s]
    /\ settled' = settled \cup {l}
    /\ EnqueueOrphan(l, d)
    /\ UNCHANGED <<owner, reserved, reservedByConsumer, sessionVars, parked,
                   controlVars>>

\* The launch promise rejects before the deadline.
LaunchFails(l) ==
    /\ acq[l] = "launching"
    /\ acq' = [acq EXCEPT ![l] = "returning"]
    /\ launchP' = [launchP EXCEPT ![l] = "done"]
    /\ settled' = settled \cup {l}
    /\ EnqueueOrphan(l, dir[l])
    /\ UNCHANGED <<owner, reserved, reservedByConsumer, procs, dir, sessionVars,
                   parked, controlVars>>

\* The launch deadline wins the race: the promise stays pending behind a record.
LaunchTimesOut(l) ==
    /\ acq[l] = "launching"
    /\ acq' = [acq EXCEPT ![l] = "returning"]
    /\ EnqueueOrphan(l, dir[l])
    /\ parked' = IF dir[l] = "owned" THEN parked ELSE parked \cup {l}
    /\ UNCHANGED <<owner, launchP, reserved, reservedByConsumer, procs, dir,
                   settled, sessionVars, controlVars>>

\* Fault: a core that arrives during shutdown is lent all the same.
LaunchRegistersAnyway(l) ==
    /\ acq[l] = "launching" /\ procs[l][MainGroup] # "none"
    /\ \E k \in KillOutcomes : forceKill' = [forceKill EXCEPT ![l] = k]
    /\ acq' = [acq EXCEPT ![l] = "returning"]
    /\ launchP' = [launchP EXCEPT ![l] = "done"]
    /\ sessions' = sessions \cup {l}
    /\ UNCHANGED <<owner, reserved, reservedByConsumer, procs, dir, closing,
                   unconfirmed, teardown, reconfirm, ledgerVars, recordVars,
                   controlVars>>

\* The core arrives in time: registered, unless shutdown began meanwhile.
LaunchRegisters(l) ==
    /\ acq[l] = "launching" /\ procs[l][MainGroup] # "none"
    /\ ~ShuttingDown
    /\ \E k \in KillOutcomes : forceKill' = [forceKill EXCEPT ![l] = k]
    /\ acq' = [acq EXCEPT ![l] = "returning"]
    /\ launchP' = [launchP EXCEPT ![l] = "done"]
    /\ sessions' = sessions \cup {l}
    /\ UNCHANGED <<owner, reserved, reservedByConsumer, procs, dir, closing,
                   unconfirmed, teardown, reconfirm, ledgerVars, recordVars,
                   controlVars>>

\* The core arrives during shutdown: counted as an orphan, never registered,
\* torn down inside acquire().
LaunchMeetsShutdown(l) ==
    /\ acq[l] = "launching" /\ procs[l][MainGroup] # "none"
    /\ ShuttingDown
    /\ \E k \in KillOutcomes : forceKill' = [forceKill EXCEPT ![l] = k]
    /\ acq' = [acq EXCEPT ![l] = "reaping"]
    /\ launchP' = [launchP EXCEPT ![l] = "done"]
    /\ orphans' = orphans \cup {l}
    /\ recSession' = recSession \cup {l}
    /\ teardown' = [teardown EXCEPT ![l] = "close"]
    /\ UNCHANGED <<owner, reserved, reservedByConsumer, procs, dir, sessions,
                   closing, unconfirmed, reconfirm, watch, older, parked, settled,
                   deferred, sweep, stamps, seen, controlVars>>

\* acquire()'s finally, a later microtask than the registration.
AcquireReturns(l) ==
    /\ acq[l] = "returning"
    /\ acq' = [acq EXCEPT ![l] = "done"]
    /\ reserved' = reserved - 1
    /\ reservedByConsumer' = [k \in Consumer |->
            IF k = owner[l] THEN reservedByConsumer[k] - 1
                            ELSE reservedByConsumer[k]]
    /\ sdAwait' = sdAwait \ {<<l, "launch">>}
    /\ UNCHANGED <<owner, launchP, procs, dir, sessionVars, ledgerVars,
                   recordVars, tick, sd, sdTries>>

-----------------------------------------------------------------------------
(* The operating system, and the late settlement of a timed-out launch. *)

\* A pending launch spawns Chromium, and possibly a detached helper group.
Spawn(l) ==
    /\ launchP[l] = "pending" /\ procs[l][MainGroup] = "none"
    /\ \E extra \in SUBSET (Group \ {MainGroup}) :
           procs' = [procs EXCEPT ![l] = [g \in Group |->
               IF g = MainGroup \/ g \in extra THEN "visible" ELSE "none"]]
    /\ UNCHANGED <<launchVars, dir, sessionVars, ledgerVars, recordVars,
                   controlVars>>

\* A group ends: killed, crashed or closed.
GroupDies(l, g) ==
    /\ Alive(l, g)
    /\ procs' = [procs EXCEPT ![l][g] = "dead"]
    /\ UNCHANGED <<launchVars, dir, sessionVars, ledgerVars, recordVars,
                   controlVars>>

\* A SIGKILL takes the members a scan can find and leaves an argless one.
CarrierDies(l, g) ==
    /\ procs[l][g] = "visible"
    /\ g \in stamps[l] \/ (g = MainGroup /\ teardown[l] = "kill")
    /\ procs' = [procs EXCEPT ![l][g] = "hidden"]
    /\ UNCHANGED <<launchVars, dir, sessionVars, ledgerVars, recordVars,
                   controlVars>>

\* #watch.delete(rec): a no-op for a record that is not watched.
LeaveWatch(l) ==
    /\ watch' = watch \ {l}
    /\ older' = [r \in Launch |-> IF r = l THEN {} ELSE older[r] \ {l}]

\* #reapLateLaunch: the core of a timed-out launch arrives after all.
LateResolve(l) ==
    /\ launchP[l] = "pending" /\ acq[l] \in {"returning", "done"}
    /\ procs[l][MainGroup] # "none"
    /\ launchP' = [launchP EXCEPT ![l] = "done"]
    /\ \E k \in KillOutcomes : forceKill' = [forceKill EXCEPT ![l] = k]
    /\ settled' = settled \cup {l}
    /\ recSession' = recSession \cup {l}
    /\ LeaveWatch(l)
    /\ orphans' = orphans \cup {l}
    /\ teardown' = [teardown EXCEPT ![l] = "close"]
    /\ UNCHANGED <<owner, acq, reserved, reservedByConsumer, procs, dir, sessions,
                   closing, unconfirmed, reconfirm, parked, deferred,
                   sweep, stamps, seen, controlVars>>

\* The timed-out launch rejects after all: re-enqueued for a final sweep, unless
\* it is watched or being swept already.
LateReject(l) ==
    /\ launchP[l] = "pending" /\ acq[l] \in {"returning", "done"}
    /\ launchP' = [launchP EXCEPT ![l] = "done"]
    /\ settled' = settled \cup {l}
    /\ orphans' = IF dir[l] = "owned" /\ l \notin watch THEN orphans \cup {l}
                                                        ELSE orphans
    /\ sweep' = IF dir[l] = "owned" /\ sweep[l] = "idle"
                    THEN [sweep EXCEPT ![l] = "started"] ELSE sweep
    /\ UNCHANGED <<owner, acq, reserved, reservedByConsumer, procs, dir,
                   sessionVars, watch, older, parked, recSession, deferred,
                   stamps, seen, controlVars>>

-----------------------------------------------------------------------------
(* Settlement of an orphan record. *)

\* What becomes of the directory when its last reference is dropped by an owner
\* whose promise shutdown() can see ("removing") or cannot ("dropping").
ForgetDir(l, how) == IF dir[l] = "owned" THEN [dir EXCEPT ![l] = how] ELSE dir

\* #finalizeOrphan: the record leaves both ledgers, its directory is removed.
FinalizeOrphan(l, how) ==
    /\ orphans' = orphans \ {l}
    /\ LeaveWatch(l)
    /\ dir' = ForgetDir(l, how)

\* #settleReapedOrphan, called when the core behind the record is known dead.
\* sweeping: the state of its sweep ("idle" when the sweep itself calls, with its
\* verdict).  owed: the stamps it holds once the caller has written its own.
SettleReapedOrphan(l, sweeping, owed, how) ==
    /\ stamps' = [stamps EXCEPT ![l] = owed]
    /\ \/ /\ sweeping # "idle"
          /\ deferred' = deferred \cup {l}
          /\ orphans' = orphans \cup {l}
          /\ UNCHANGED <<watch, older, recSession, sweep, dir>>
       \/ /\ sweeping = "idle" /\ dir[l] = "owned" /\ owed # {}
          /\ recSession' = recSession \ {l}
          /\ orphans' = orphans \cup {l}
          /\ sweep' = [sweep EXCEPT ![l] = "started"]
          /\ deferred' = deferred \ {l}
          /\ UNCHANGED <<watch, older, dir>>
       \/ /\ sweeping = "idle" /\ ~(dir[l] = "owned" /\ owed # {})
          /\ FinalizeOrphan(l, how)
          /\ sweep' = [sweep EXCEPT ![l] = "idle"]
          /\ deferred' = deferred \ {l}
          /\ recSession' = recSession \ {l}   \* the record is garbage

\* A promise of kind k that settles through SettleReapedOrphan goes on waiting
\* for the sweep or the removal the settlement started.
Continue(l, k) ==
    LET next == IF l \in deferred' THEN {}
                ELSE IF sweep'[l] = "started" THEN {<<l, "sweep">>}
                ELSE IF dir'[l] # dir[l] THEN {<<l, "remove">>}
                ELSE {}
    IN  IF <<l, k>> \in sdAwait THEN (sdAwait \ {<<l, k>>}) \cup next ELSE sdAwait

\* dirOps.remove() settles.  A failure is only logged: either way nobody refers
\* to the directory any more.
RemoveSettles(l) ==
    /\ dir[l] \in {"removing", "dropping"}
    /\ dir' = [dir EXCEPT ![l] = "removed"]
    /\ acq' = IF acq[l] = "settling" THEN [acq EXCEPT ![l] = "returning"] ELSE acq
    /\ sdAwait' = sdAwait \ {<<l, "remove">>}
    /\ UNCHANGED <<owner, launchP, reserved, reservedByConsumer, procs,
                   sessionVars, ledgerVars, recordVars, tick, sd, sdTries>>

-----------------------------------------------------------------------------
(* Session.teardown: close raced against the grace timer, then kill. *)

\* #beginTeardown, for the sessions in S that no teardown or reconfirm owns.
BeginTeardown(S) ==
    LET fresh == (S \cap sessions) \ (closing \cup unconfirmed)
    IN  /\ closing' = closing \cup fresh
        /\ teardown' = [l \in Launch |->
                IF l \in fresh THEN "close" ELSE teardown[l]]

\* release(id), by the caller that holds the session.
Release(l) ==
    /\ acq[l] = "done" /\ l \in sessions
    /\ BeginTeardown({l})
    /\ UNCHANGED <<launchVars, procs, dir, sessions, unconfirmed, reconfirm,
                   forceKill, ledgerVars, recordVars, controlVars>>

\* The promise Session.teardown returned resolves: death is confirmed.
TeardownConfirms(l) ==
    /\ teardown' = [teardown EXCEPT ![l] = "none"]
    /\ \/ /\ l \in closing
          /\ sessions' = sessions \ {l}
          /\ closing' = closing \ {l}
          /\ dir' = ForgetDir(l, "removing")
          /\ sdAwait' = sdAwait \ {<<l, "teardown">>}
          /\ UNCHANGED <<acq, ledgerVars, recordVars>>
       \/ /\ l \notin closing
          /\ SettleReapedOrphan(l, sweep[l], stamps[l], "removing")
          /\ acq' = IF acq[l] # "reaping" THEN acq
                    ELSE [acq EXCEPT ![l] = IF dir' = dir THEN "returning"
                                                          ELSE "settling"]
          /\ sdAwait' = Continue(l, "late")
          /\ UNCHANGED <<sessions, closing, parked, settled, seen>>
    /\ UNCHANGED <<owner, launchP, reserved, reservedByConsumer, unconfirmed,
                   reconfirm, forceKill, tick, sd, sdTries>>

\* Fault: a session leaves the pool even when its death is not confirmed.
TeardownDropsUnconfirmed(l) ==
    /\ teardown' = [teardown EXCEPT ![l] = "none"]
    /\ sessions' = sessions \ {l}
    /\ closing' = closing \ {l}
    /\ acq' = IF acq[l] = "reaping" THEN [acq EXCEPT ![l] = "returning"] ELSE acq
    /\ sdAwait' = sdAwait \ {<<l, "teardown">>, <<l, "late">>}
    /\ UNCHANGED <<owner, launchP, reserved, reservedByConsumer, dir, unconfirmed,
                   reconfirm, forceKill, ledgerVars, recordVars, tick, sd, sdTries>>

\* Fault: the promise of a teardown that could not confirm is never settled.
TeardownNeverSettles(l) ==
    /\ teardown' = [teardown EXCEPT ![l] = "none"]
    /\ unconfirmed' = unconfirmed \cup {l}
    /\ closing' = closing \ {l}
    /\ acq' = IF acq[l] = "reaping" THEN [acq EXCEPT ![l] = "returning"] ELSE acq
    /\ UNCHANGED <<owner, launchP, reserved, reservedByConsumer, dir, sessions,
                   reconfirm, forceKill, ledgerVars, recordVars, tick, sd, sdAwait,
                   sdTries>>

\* It rejects: the session stays counted and waits for a reconfirm.
TeardownUnconfirmed(l) ==
    /\ teardown' = [teardown EXCEPT ![l] = "none"]
    /\ unconfirmed' = unconfirmed \cup {l}
    /\ closing' = closing \ {l}
    /\ acq' = IF acq[l] = "reaping" THEN [acq EXCEPT ![l] = "returning"] ELSE acq
    /\ sdAwait' = sdAwait \ {<<l, "teardown">>, <<l, "late">>}
    /\ UNCHANGED <<owner, launchP, reserved, reservedByConsumer, dir, sessions,
                   reconfirm, forceKill, ledgerVars, recordVars, tick, sd, sdTries>>

\* core.close() resolves cleanly: the leader has exited.  With a captured pid
\* the group is confirmed through core.kill(); without one it is trusted.
CloseResolves(l) ==
    /\ teardown[l] = "close"
    /\ \E s \in {"hidden", "dead"} :
           procs' = IF Alive(l, MainGroup)
                    THEN [procs EXCEPT ![l][MainGroup] = s] ELSE procs
    /\ \/ /\ forceKill[l] = "yes"
          /\ teardown' = [teardown EXCEPT ![l] = "kill"]
          /\ UNCHANGED <<launchVars, dir, sessions, closing, unconfirmed,
                         reconfirm, forceKill, ledgerVars, recordVars,
                         controlVars>>
       \/ forceKill[l] # "yes" /\ TeardownConfirms(l)

\* core.close() rejects, or is still pending when the grace timer fires.
CloseFails(l) ==
    /\ teardown[l] = "close"
    /\ teardown' = [teardown EXCEPT ![l] = "kill"]
    /\ UNCHANGED <<launchVars, procs, dir, sessions, closing, unconfirmed,
                   reconfirm, forceKill, ledgerVars, recordVars, controlVars>>

\* core.kill() resolves only when the whole main group is gone ...
KillConfirms(l) ==
    /\ teardown[l] = "kill"
    /\ forceKill[l] = "yes" /\ ~Alive(l, MainGroup)
    /\ TeardownConfirms(l)
    /\ UNCHANGED procs

\* ... and rejects at its deadline, or at once without a captured pid.
KillGivesUp(l) ==
    /\ teardown[l] = "kill"
    /\ forceKill[l] # "yes" \/ Alive(l, MainGroup)
    /\ TeardownUnconfirmed(l)
    /\ UNCHANGED procs

-----------------------------------------------------------------------------
(* Reconfirm: #drainUnconfirmed and Session.reconfirm. *)

\* Fault: the pass looks at the registered sessions only, never at late cores.
DrainRegisteredOnly(who) ==
    reconfirm' = [l \in Launch |->
        IF l \in unconfirmed \cap sessions /\ reconfirm[l] = "none" THEN who
                                                               ELSE reconfirm[l]]

\* Starts a kill for every unconfirmed session that has none in flight; a
\* second caller shares the first one's promise.
DrainUnconfirmed(who) ==
    reconfirm' = [l \in Launch |->
        IF l \in unconfirmed /\ reconfirm[l] = "none" THEN who ELSE reconfirm[l]]

\* The kill confirms.  The continuation of whoever started it runs first: for
\* an orphan it settles the record, and its promise waits for the removal.
ReconfirmConfirms(l) ==
    /\ reconfirm[l] # "none"
    /\ forceKill[l] = "yes" /\ ~Alive(l, MainGroup)
    /\ reconfirm' = [reconfirm EXCEPT ![l] = "none"]
    /\ sessions' = sessions \ {l}
    /\ unconfirmed' = unconfirmed \ {l}
    /\ \/ /\ l \notin recSession
          /\ dir' = ForgetDir(l, "removing")
          /\ sdAwait' = sdAwait \ {<<l, "reconfirm">>}
          /\ UNCHANGED <<ledgerVars, recordVars>>
       \/ /\ l \in recSession
          /\ SettleReapedOrphan(l, sweep[l], stamps[l],
                 IF reconfirm[l] = "shutdown" THEN "removing" ELSE "dropping")
          /\ sdAwait' = IF reconfirm[l] = "shutdown" THEN Continue(l, "reconfirm")
                        ELSE sdAwait \ {<<l, "reconfirm">>}
          /\ UNCHANGED <<parked, settled, seen>>
    /\ UNCHANGED <<launchVars, procs, closing, teardown, forceKill, tick, sd,
                   sdTries>>

ReconfirmGivesUp(l) ==
    /\ reconfirm[l] # "none"
    /\ forceKill[l] # "yes" \/ Alive(l, MainGroup)
    /\ reconfirm' = [reconfirm EXCEPT ![l] = "none"]
    /\ sdAwait' = sdAwait \ {<<l, "reconfirm">>}
    /\ UNCHANGED <<launchVars, procs, dir, sessions, closing, unconfirmed,
                   teardown, forceKill, ledgerVars, recordVars, tick, sd, sdTries>>

-----------------------------------------------------------------------------
(* #sweepOrphan: the sweep and what its verdict does to the record. *)

\* Fault: the cap evicts the oldest entries, the ones being swept too.
WatchAfterCapAnyEntry(reserve) ==
    LET Evicted(r) == Cardinality(watch \cap older[r]) + MaxWatched
                            < Cardinality(watch) + reserve
    IN  {r \in watch : ~Evicted(r)}

\* #enforceWatchCap(reserve): what is left of the watch list once the oldest
\* entries that are not being swept have made room.
WatchAfterCap(reserve) ==
    LET evictable == {r \in watch : sweep[r] = "idle"}
        Evicted(r) == /\ r \in evictable
                      /\ Cardinality(evictable \cap older[r]) + MaxWatched
                            < Cardinality(watch) + reserve
    IN  {r \in watch : ~Evicted(r)}

\* #watchLaunch: an unsettled record stops being counted.
WatchLaunch(l) ==
    LET rest == WatchAfterCap(1)
    IN  /\ orphans' = orphans \ {l}
        /\ watch' = rest \cup {l}
        /\ older' = [r \in Launch |-> IF r = l THEN rest
                                      ELSE IF r \in rest THEN older[r] \cap rest
                                      ELSE {}]
        /\ parked' = parked \cup {l}
        /\ UNCHANGED dir

\* Fault: a clean sweep finalizes a record whose launch may still spawn.
ApplyVerdictUnsettled(l, result) ==
    \/ /\ result = "confirmed"
       /\ FinalizeOrphan(l, "removing")
       /\ UNCHANGED parked
    \/ /\ result = "unsupported"
       /\ orphans' = orphans \ {l}
       /\ LeaveWatch(l)
       /\ parked' = parked \cup {l}
       /\ UNCHANGED dir
    \/ /\ result = "unconfirmed"
       /\ orphans' = orphans \cup {l}
       /\ LeaveWatch(l)
       /\ UNCHANGED <<parked, dir>>

\* The fulfilled arm, for a record no late core owns.
ApplyVerdict(l, result) ==
    \/ /\ result = "confirmed" /\ l \in settled
       /\ FinalizeOrphan(l, "removing")
       /\ UNCHANGED parked
    \/ /\ result = "confirmed" /\ l \notin settled /\ l \in orphans
       /\ WatchLaunch(l)
    \/ /\ result = "confirmed" /\ l \notin settled /\ l \notin orphans
       /\ UNCHANGED <<ledgerVars, dir>>
    \/ /\ result = "unsupported"
       /\ orphans' = orphans \ {l}
       /\ LeaveWatch(l)
       /\ parked' = parked \cup {l}
       /\ UNCHANGED dir
    \/ /\ result = "unconfirmed"
       /\ orphans' = orphans \cup {l}
       /\ LeaveWatch(l)
       /\ UNCHANGED <<parked, dir>>

\* The fulfilled arm of the sweep promise.
SweepFulfils(l, result, owed) ==
    /\ \/ /\ l \in deferred
          /\ SettleReapedOrphan(l, "idle", owed, "removing")
          /\ UNCHANGED parked
       \/ /\ l \notin deferred /\ l \in recSession
          /\ sweep' = [sweep EXCEPT ![l] = "idle"]
          /\ stamps' = [stamps EXCEPT ![l] = owed]
          /\ UNCHANGED <<ledgerVars, dir, recSession, deferred>>
       \/ /\ l \notin deferred /\ l \notin recSession
          /\ sweep' = [sweep EXCEPT ![l] = "idle"]
          /\ stamps' = [stamps EXCEPT ![l] = owed]
          /\ ApplyVerdict(l, result)
          /\ UNCHANGED <<recSession, deferred>>
    /\ sdAwait' = Continue(l, "sweep")
    /\ UNCHANGED <<launchVars, procs, sessionVars, settled, tick, sd, sdTries>>

\* A scan stamps and signals what it finds, and the sweep goes on polling.
SweepPolls(l) ==
    /\ SweepSupported /\ sweep[l] # "idle"
    /\ stamps[l] \cup Visible(l) # {}
    /\ sweep' = [sweep EXCEPT ![l] = "polling"]
    /\ stamps' = [stamps EXCEPT ![l] = @ \cup Visible(l)]
    /\ seen' = [seen EXCEPT ![l] = @ \cup (Visible(l) \ {MainGroup})]
    /\ UNCHANGED <<launchVars, procs, dir, sessionVars, ledgerVars, recSession,
                   settled, deferred, controlVars>>

\* The last scan finds nothing and every owed group is gone.
SweepConfirms(l) ==
    /\ SweepSupported /\ sweep[l] # "idle"
    /\ Visible(l) = {} /\ \A g \in stamps[l] : ~Alive(l, g)
    /\ SweepFulfils(l, "confirmed", {})
    /\ UNCHANGED seen

\* The deadline passes, or a scan fails after it observed a part of the groups,
\* with something owed.
SweepUnconfirmed(l) ==
    /\ SweepSupported /\ sweep[l] # "idle"
    /\ \E found \in SUBSET Visible(l) :
          /\ stamps[l] \cup found # {}
          /\ SweepFulfils(l, "unconfirmed", stamps[l] \cup found)
          /\ seen' = [seen EXCEPT ![l] = @ \cup (found \ {MainGroup})]

SweepUnsupported(l) ==
    /\ ~SweepSupported /\ sweep[l] # "idle"
    /\ SweepFulfils(l, "unsupported", {})
    /\ UNCHANGED seen

\* Fault: the rejected arm forgets the settlement that waits for the sweep.
SweepRejectsAndForgets(l) ==
    /\ SweepSupported /\ sweep[l] = "started"
    /\ sweep' = [sweep EXCEPT ![l] = "idle"]
    /\ orphans' = IF l \in watch THEN orphans \cup {l} ELSE orphans
    /\ LeaveWatch(l)
    /\ sdAwait' = sdAwait \ {<<l, "sweep">>}
    /\ UNCHANGED <<launchVars, procs, dir, sessionVars, parked, recSession, settled,
                   deferred, stamps, seen, tick, sd, sdTries>>

\* The sweep rejects: /proc could not be listed, or the first scan failed.  A
\* deferred settlement resumes; a watched record is counted again, for a failed
\* scan proves nothing.
SweepRejects(l) ==
    /\ SweepSupported /\ sweep[l] = "started"
    /\ \/ /\ l \in deferred
          /\ SettleReapedOrphan(l, "idle", stamps[l], "removing")
          /\ UNCHANGED parked
       \/ /\ l \notin deferred
          /\ sweep' = [sweep EXCEPT ![l] = "idle"]
          /\ orphans' = IF l \in watch THEN orphans \cup {l} ELSE orphans
          /\ LeaveWatch(l)
          /\ UNCHANGED <<dir, parked, recSession, deferred, stamps>>
    /\ sdAwait' = sdAwait \ {<<l, "sweep">>}
    /\ UNCHANGED <<launchVars, procs, sessionVars, settled, seen, tick, sd,
                   sdTries>>

\* Fault: a pass sweeps the watched launches and leaves the counted ones out.
SweepWatchedOnly(w) ==
    LET ready == {l \in w : sweep[l] = "idle" /\ l \notin recSession}
        keyless == {l \in ready : dir[l] # "owned"}
    IN  /\ sweep' = [l \in Launch |->
                IF l \in ready \ keyless THEN "started" ELSE sweep[l]]
        /\ orphans' = orphans \ keyless
        /\ watch' = w \ keyless

\* #sweepOrphan over both ledgers, w being the watch list at that moment.
SweepAll(w) ==
    LET ready == {l \in orphans \cup w : sweep[l] = "idle" /\ l \notin recSession}
        keyless == {l \in ready : dir[l] # "owned"}
    IN  /\ sweep' = [l \in Launch |->
                IF l \in ready \ keyless THEN "started" ELSE sweep[l]]
        /\ orphans' = orphans \ keyless
        /\ watch' = w \ keyless

-----------------------------------------------------------------------------
(* The reaper.  Ticks are fired by an interval timer and not awaited, so they  *)
(* overlap: while the timer runs, each of the three stretches between the      *)
(* awaits of reapIdle() may run at any time.  When shutdown() stops the timer  *)
(* a tick may still be on its way (variable tick).                             *)

TickInFlight == sd = "up" \/ tick

\* The first stretch: release what is idle past its TTL or wedged in a verb.
TickReleases(stale) ==
    /\ sd = "up"
    /\ \A l \in stale : l \in sessions /\ acq[l] = "done"
    /\ BeginTeardown(stale)
    /\ UNCHANGED <<launchVars, procs, dir, sessions, unconfirmed, reconfirm,
                   forceKill, ledgerVars, recordVars, controlVars>>

TickDrains ==
    /\ TickInFlight
    /\ DrainUnconfirmed("tick")
    /\ UNCHANGED <<launchVars, procs, dir, sessions, closing, unconfirmed,
                   teardown, forceKill, ledgerVars, recordVars, controlVars>>

TickSweeps ==
    /\ TickInFlight
    /\ SweepAll(WatchAfterCap(0))
    /\ tick' \in {FALSE, tick}
    /\ UNCHANGED <<launchVars, procs, dir, sessionVars, older, parked, recSession,
                   settled, deferred, stamps, seen, sd, sdAwait, sdTries>>

-----------------------------------------------------------------------------
(* shutdown(). *)

\* #orphanWork: the sweeps, late teardowns and removals that are tracked.
OrphanWork ==
    {<<l, "sweep">> : l \in {m \in Launch : sweep[m] # "idle"}}
      \cup {<<l, "late">> : l \in {m \in recSession : teardown[m] # "none"}}
      \cup {<<l, "remove">> : l \in {m \in Launch : dir[m] = "removing"}}

\* shuttingDown is set, the reaper stopped, the launches in flight awaited.
ShutdownBegins ==
    /\ Stoppable /\ sd = "up"
    /\ sd' = "launches"
    /\ sdAwait' = {<<l, "launch">> : l \in InFlight}
    /\ tick' \in BOOLEAN
    /\ UNCHANGED <<launchVars, procs, dir, sessionVars, ledgerVars, recordVars,
                   sdTries>>

\* allSettled([...#orphanWork]), at its three places.
ShutdownAwaitsWork(from, to) ==
    /\ sd = from /\ sdAwait = {}
    /\ sd' = to
    /\ sdAwait' = OrphanWork
    /\ sdTries' = 0
    /\ UNCHANGED <<launchVars, procs, dir, sessionVars, ledgerVars, recordVars,
                   tick>>

\* The teardowns in flight and one for every session that has none.
ShutdownTearsDown ==
    /\ sd = "work" /\ sdAwait = {}
    /\ BeginTeardown(sessions)
    /\ sd' = "teardowns"
    /\ sdAwait' = {<<l, "teardown">> : l \in closing'}
    /\ UNCHANGED <<launchVars, procs, dir, sessions, unconfirmed, reconfirm,
                   forceKill, ledgerVars, recordVars, tick, sdTries>>

DrainDue == sdTries < ReconfirmTries /\ unconfirmed # {}

\* Fault: the loop does not count its passes.
ShutdownDrainsForever ==
    /\ sd \in {"teardowns", "work2"} /\ sdAwait = {}
    /\ DrainDue
    /\ DrainUnconfirmed("shutdown")
    /\ sdAwait' = {<<l, "reconfirm">> : l \in unconfirmed}
    /\ UNCHANGED <<launchVars, procs, dir, sessions, closing, unconfirmed,
                   teardown, forceKill, ledgerVars, recordVars, tick, sd, sdTries>>

\* One pass of either reconfirm loop.
ShutdownDrains ==
    /\ sd \in {"teardowns", "work2"} /\ sdAwait = {}
    /\ DrainDue
    /\ DrainUnconfirmed("shutdown")
    /\ sdAwait' = {<<l, "reconfirm">> : l \in unconfirmed}
    /\ sdTries' = sdTries + 1
    /\ UNCHANGED <<launchVars, procs, dir, sessions, closing, unconfirmed,
                   teardown, forceKill, ledgerVars, recordVars, tick, sd>>

\* The final sweep pass; a sweep already in flight is not awaited here.
ShutdownSweeps ==
    /\ sd = "teardowns" /\ sdAwait = {} /\ ~DrainDue
    /\ SweepAll(watch)
    /\ sd' = "sweep"
    /\ sdAwait' = {<<l, "sweep">> : l \in {m \in Launch : sweep'[m] # sweep[m]}}
    /\ UNCHANGED <<launchVars, procs, dir, sessionVars, older, parked, recSession,
                   settled, deferred, stamps, seen, tick, sdTries>>

ShutdownReturns ==
    /\ sd = "work3" /\ sdAwait = {}
    /\ sd' = "done"
    /\ UNCHANGED <<launchVars, procs, dir, sessionVars, ledgerVars, recordVars,
                   tick, sdAwait, sdTries>>

\* The caller of shutdown() exits the process.
Exit == sd = "done" /\ UNCHANGED vars

-----------------------------------------------------------------------------

AcquireStep(l) ==
    \/ \E c \in Owner : Acquire(l, c)
    \/ \E d \in DirOutcomes : CallFactory(l, d) \/ FactoryThrows(l, d)
    \/ LaunchFails(l) \/ LaunchTimesOut(l)
    \/ LaunchRegisters(l) \/ LaunchMeetsShutdown(l)
    \/ AcquireReturns(l)

WorldStep(l) ==
    \/ Spawn(l) \/ LateResolve(l) \/ LateReject(l)
    \/ \E g \in Group : GroupDies(l, g) \/ CarrierDies(l, g)

SessionStep(l) ==
    \/ Release(l)
    \/ CloseResolves(l) \/ CloseFails(l) \/ KillConfirms(l) \/ KillGivesUp(l)
    \/ ReconfirmConfirms(l) \/ ReconfirmGivesUp(l)
    \/ RemoveSettles(l)

SweepStep(l) ==
    \/ SweepPolls(l) \/ SweepConfirms(l) \/ SweepUnconfirmed(l)
    \/ SweepUnsupported(l) \/ SweepRejects(l)

TickStep ==
    \/ \E stale \in SUBSET sessions : TickReleases(stale)
    \/ TickDrains \/ TickSweeps

ShutdownStep ==
    \/ ShutdownBegins
    \/ ShutdownAwaitsWork("launches", "work")
    \/ ShutdownTearsDown \/ ShutdownDrains \/ ShutdownSweeps
    \/ ShutdownAwaitsWork("sweep", "work2")
    \/ (~DrainDue /\ ShutdownAwaitsWork("work2", "work3"))
    \/ ShutdownReturns

Next ==
    \/ \E l \in Launch :
          AcquireStep(l) \/ WorldStep(l) \/ SessionStep(l) \/ SweepStep(l)
    \/ TickStep \/ ShutdownStep \/ Exit

Spec == Init /\ [][Next]_vars

(* Fairness.  Every operation the manager awaits is bounded by a timer of its *)
(* own (launch deadline, close grace, kill and sweep confirmation deadlines),  *)
(* so each of them settles.                                                    *)
BoundedOperations(l) ==
    /\ WF_vars(\E d \in DirOutcomes : CallFactory(l, d) \/ FactoryThrows(l, d))
    /\ WF_vars(LaunchTimesOut(l))
    /\ WF_vars(AcquireReturns(l))
    /\ WF_vars(CloseFails(l))
    /\ WF_vars(KillConfirms(l) \/ KillGivesUp(l))
    /\ WF_vars(ReconfirmConfirms(l) \/ ReconfirmGivesUp(l))
    /\ WF_vars(SweepConfirms(l) \/ SweepUnconfirmed(l) \/ SweepUnsupported(l)
                  \/ SweepRejects(l))
    /\ WF_vars(RemoveSettles(l))

\* shutdown() goes on as soon as its await is over.
ShutdownGoesOn == WF_vars(ShutdownStep /\ ~ShutdownBegins)

\* The interval timer keeps firing; every group dies in the end, signalled or
\* not; the scans of a record whose groups are dead do not all fail or run out of
\* their deadline: a sweep that can confirm again and again does so once.
ReaperAndWorld ==
    /\ WF_vars(TickDrains) /\ WF_vars(TickSweeps)
    /\ \A l \in Launch : /\ \A g \in Group : WF_vars(GroupDies(l, g))
                         /\ SF_vars(SweepConfirms(l))

StoppingSpec == Spec /\ (\A l \in Launch : BoundedOperations(l)) /\ ShutdownGoesOn

-----------------------------------------------------------------------------
(* Properties. *)

Counted == InFlight \cup sessions \cup orphans

\* The manager is able to find out that everything behind l is dead: through
\* core.kill() once a core arrived, through the directory sweep before.
Confirmable(l) ==
    \/ forceKill[l] = "yes"
    \/ forceKill[l] = "unknown" /\ dir[l] # "none" /\ SweepSupported

\* The browser lives, or a group a sweep has observed does.
KnownAlive(l) == \E g \in seen[l] \cup {MainGroup} : Alive(l, g)

\* Every variable keeps to its range.
TypeOK ==
    /\ owner \in [Launch -> Owner]
    /\ acq \in [Launch -> {"idle", "minting", "launching", "reaping", "settling",
                           "returning", "done"}]
    /\ launchP \in [Launch -> {"none", "pending", "done"}]
    /\ procs \in [Launch -> [Group -> {"none", "visible", "hidden", "dead"}]]
    /\ dir \in [Launch -> {"none", "owned", "removing", "dropping", "removed"}]
    /\ reserved \in Nat
    /\ reservedByConsumer \in [Consumer -> Nat]
    /\ sessions \subseteq Launch /\ closing \subseteq Launch
    /\ unconfirmed \subseteq Launch
    /\ teardown \in [Launch -> {"none", "close", "kill"}]
    /\ reconfirm \in [Launch -> {"none", "tick", "shutdown"}]
    /\ forceKill \in [Launch -> {"unknown", "yes", "no"}]
    /\ orphans \subseteq Launch /\ watch \subseteq Launch
    /\ parked \subseteq Launch
    /\ older \in [Launch -> SUBSET Launch]
    /\ recSession \subseteq Launch /\ settled \subseteq Launch
    /\ deferred \subseteq Launch
    /\ sweep \in [Launch -> {"idle", "started", "polling"}]
    /\ stamps \in [Launch -> SUBSET Group]
    /\ seen \in [Launch -> SUBSET Group]
    /\ tick \in BOOLEAN
    /\ sd \in {"up", "launches", "work", "teardowns", "sweep", "work2", "work3",
               "done"}
    /\ sdAwait \subseteq Launch \X WorkKind
    /\ sdTries \in 0..ReconfirmTries

\* A browser the manager could confirm dead is never dropped from its books
\* while it lives: it is held by a reservation, a session, an orphan record or
\* a watch entry, or its launch is still pending and will come back to them.
NoBrowserForgotten ==
    \A l \in Launch :
        Confirmable(l) /\ KnownAlive(l) /\ launchP[l] # "pending"
            => l \in Counted \cup watch

\* The profile directory is never removed under a live browser, nor under a
\* launch that may still spawn one.
DirNotRemovedUnderBrowser ==
    \A l \in Launch :
        dir[l] \in {"removing", "dropping", "removed"} =>
            /\ launchP[l] # "pending"
            /\ Confirmable(l) => ~KnownAlive(l)

\* The cap: launches that were never taken out of the count early are at most
\* maxSessions, whatever teardowns, sweeps and late arrivals are in flight.
GlobalCap == Cardinality(Counted \ parked) <= MaxSessions

\* The same for every consumer and perConsumerMax.
ConsumerCap ==
    \A c \in Consumer :
        Cardinality((Counted \cap OwnedBy(c)) \ parked) <= PerConsumerMax

\* A reservation lives exactly as long as its acquire() call.
ReservationsExact ==
    /\ reserved = Cardinality(InFlight)
    /\ \A c \in Consumer :
          reservedByConsumer[c] = Cardinality(InFlight \cap OwnedBy(c))

\* No launch holds two slots once its acquire() has returned, a watched one
\* holds none, and a sweep's verdict always lands on a record some ledger holds.
OneLedger ==
    /\ orphans \cap watch = {} /\ sessions \cap (orphans \cup watch) = {}
    /\ \A l \in Launch : sweep[l] # "idle" => l \in orphans \cup watch

\* A counted record is never stuck: a late core's teardown, its reconfirm or a
\* deferred settlement will finish it, or the next sweep can.
NoPinnedOrphan ==
    \A l \in orphans :
        IF l \in recSession
        THEN \/ teardown[l] # "none" \/ l \in unconfirmed
             \/ l \in deferred /\ sweep[l] # "idle"
        ELSE dir[l] = "owned"

\* When shutdown() returns, every launch has come back and the only sessions
\* left are the ones whose death could not be confirmed.
ShutdownHonest == sd = "done" => InFlight = {} /\ sessions \subseteq unconfirmed

\* Behind every promise shutdown() waits for, something with a deadline of its
\* own is at work.
AwaitedUnderWay ==
    \A l \in Launch :
        /\ <<l, "launch">> \in sdAwait =>
               /\ l \in InFlight
               /\ acq[l] = "reaping" => teardown[l] # "none"
               /\ acq[l] = "settling" => dir[l] = "removing"
        /\ <<l, "teardown">> \in sdAwait => l \in closing /\ teardown[l] # "none"
        /\ <<l, "late">> \in sdAwait => l \in recSession /\ teardown[l] # "none"
        /\ <<l, "reconfirm">> \in sdAwait => reconfirm[l] # "none"
        /\ <<l, "sweep">> \in sdAwait => sweep[l] # "idle"
        /\ <<l, "remove">> \in sdAwait => dir[l] = "removing"

\* shutdown() waits for what it must and for nothing else.  "allSettled cannot
\* hang" (session-manager.ts:900): whatever has settled meanwhile, was handed on
\* to a sweep or a removal, or was met by the shutdown in its launch, no promise
\* it waits for is one nobody is left to settle.  And it does not return early:
\* then no launch is in flight, and what is left could not be confirmed dead.
ShutdownWaits == AwaitedUnderWay /\ ShutdownHonest

\* shutdown() returns even if nothing it kills ever dies.
ShutdownTerminates == sd = "launches" ~> sd = "done"

\* While the reaper runs, no launch holds its slot for ever after its browser
\* has been given up: a wedged, late or failed launch and a session under
\* teardown all leave the count (session-manager.ts:853, 865), through sweeps
\* that reject or cannot confirm, and from a watch entry that is counted again.
\* Only a core that cannot be killed by force may keep the slot of a failed close.
\* The fairness of the reaper and the world is a premise of this property alone:
\* shutdown() has to return without it.
SlotsComeBack ==
    ReaperAndWorld =>
        \A l \in Launch :
            l \in orphans \cup closing \cup unconfirmed
                ~> \/ l \notin Counted \/ sd # "up"
                   \/ l \in unconfirmed /\ forceKill[l] = "no"

-----------------------------------------------------------------------------
(* The contract the pool implements. *)

PhaseOf(l) ==
    IF l \in sessions
        THEN IF l \in closing \/ l \in unconfirmed THEN "ending" ELSE "lent"
    ELSE IF acq[l] \notin {"idle", "done"} THEN "starting"
    ELSE IF l \in orphans THEN "owed"
    ELSE IF acq[l] = "idle" THEN "new"
    ELSE IF l \in watch \/ launchP[l] = "pending" THEN "parked" ELSE "gone"

Contract == INSTANCE SlotContract WITH
    phase <- [l \in Launch |-> PhaseOf(l)],
    living <- {l \in Launch : Confirmable(l) /\ KnownAlive(l)},
    gate <- IF sd = "up" THEN "open" ELSE IF sd = "done" THEN "closed"
                                                     ELSE "draining"

\* The pool keeps its contract: seen from outside a launch only goes forward, a
\* slot is given only when one is free, nothing is lent once shutdown() began,
\* and no launch is given up for good while its browser lives.
KeepsContract == Contract!Spec
=============================================================================
