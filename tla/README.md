# browse-gateway: a TLA+ model of the gateway

browse-gateway runs a small pool of real Chromium browsers and lends them to
consumers over MCP. What makes it hard is not any single call. It is the calls
that overlap: launches that finish after their deadline, browsers that outlive
their kill, sessions taken back in the middle of a tool call, a shutdown that
begins while all of this is going on. This directory models those parts in
TLA+, checks them with TLC on small instances, and proves nearly all of the
invariants, and that the pool implements its contract, with TLAPS for instances
of any size.

Paths below are relative to the repository (`src/gateway/...`). `PROJECT.json`
maps every definition to its lines.

## 1. Inventory

| Part | State it keeps | Operations | Hard behaviour |
|---|---|---|---|
| Session pool, `src/gateway/session-manager.ts`, `session.ts` | sessions, reservations, `#closing`, `#unconfirmed`, two ledgers of wedged launches (`#orphans` counted, `#watch` not), orphan records | `acquire`, `release`, `reapIdle`, `shutdown`, late launches, reconfirm, sweep verdicts | launch racing its deadline, kill that cannot be confirmed, overlapping reaper ticks, shutdown in the middle |
| Orphan sweep, `src/gateway/orphan-sweep.ts` | stamps of process groups seen for a profile directory | scan `/proc`, signal, confirm until a deadline | a scan is stale when it is read; a group changes out of sight |
| Browser core, `src/browser/patchright-core.ts` | one Chromium, its active page, presented OS, capture generation, interceptor | launch, render, navigate, act, settle, solve, snapshot, capture, close, kill | page scripts act at every await; an override fails half-way |
| Gateway facade, `src/gateway/index.ts` | none of its own | open, use and close a consumer's session | ownership, per-session navigation guard |
| Drive controller, `src/mcp/drive-controller.ts` | `#handle`, `#pinned`, `#proxiedSession`, `#warmHost`, `#navigateHost`, `#lock` | open, navigate, act, close; escalation loop, warm open, warm-up, egress probe | concurrent tool calls, sessions reaped under a turn, logins revoked between two turns |
| HTTP session layer, `src/mcp/http-server.ts`, `http-main.ts` | session table, in-flight counts and ids, cleanups in flight, the artifact root lock | boot, initialize, tool call, DELETE, idle reap, drain, closeAll | four callers of one cleanup; a stale list of idle sessions; a boot refused with the lock taken |
| Response leases and graph lifecycle, `src/mcp/http-response-lease.ts`, `artifact-graph-lifecycle.ts` | lease, deadline, listeners | register, terminalize, dispose, ordered shutdown | response end, reset and deadline in any order |
| Artifact runtime and store, `src/artifacts/` | operations, records, bills, the response permit and its queue, the lineage fence | create, stage, settle, seal, invalidate, expire, discard, retrieve, close | one download racing its own settlement deadline; a deletion that cannot be proven |
| Retrieve verb, `src/verbs/retrieve.ts`, `escalation.ts`, detectors in `src/browser/` | one call: lane, attempts, last and last live render, budget | direct, proxied, clearance polling, solver, verdict | which render is surfaced, when another exit can help |
| Search router, `src/search/` | a breaker per provider | attempt, retry, fall over, probe half-open | breakers shared by concurrent searches |
| CAPTCHA solver, `src/verbs/captcha-solver.ts` | sliding window of charges | validate, charge, post, poll | calls overlap on one budget |
| Policy, `src/policy/`, `src/security/egress.ts`, `url.ts` | rules | decide on one request | the credential clamp must not be wider than the consumer's guard |
| Vault and login, `src/security/vault-*.ts`, `src/verbs/assisted-login.ts`, `src/cli/vault-host.ts` | sealed files, temporaries, the key | put, read, revoke, import, log in, rotate, warm open | write-rename, commands in several processes, a kill anywhere |
| Keys and deployment, `src/cli/keys.ts`, `scripts/deploy/` | manifest, env file, container, throwaway smoke container | new, rotate, revoke, apply; smoke, swap, verify, roll back | two files, two writers, a container that boots between them; two smokes under one name |
| Workstation, `src/cli/tunnel.ts`, `connect.ts`, `status.ts` | launch agent, failure count, port, registration | keep, connect, status | flapping tunnel, a foreign process on the port |
| CLI support, measuring and validation scripts | none of the product | - | - |

They interact like this. The HTTP layer builds one drive controller per MCP
session and calls it concurrently. The controller asks the gateway for a
session, which acquires one from the pool; it never hears that the pool took a
session back, it finds out when the next verb throws. The pool's reaper and its
shutdown act on sessions without taking the controller's lock. On SIGTERM the
process drains the HTTP layer, closes the artifact runtime and shuts the pool
down, in this order.

What makes each part correct:

* pool: no living browser is off the books; the caps hold with everything in
  flight; a profile directory is never removed under a browser; slots come back
  without a restart; `shutdown()` returns and is honest about what it left;
* controller: at most one session, never a lost one; the mode and the login it
  remembers are the session's; a committed page is not swapped; every call
  returns;
* HTTP layer: each consumer graph is disposed of by somebody; a session that can
  be found has not been fenced; an ended process leaves no lock behind;
* artifacts: an id is free only when nothing of it is left; the store bills for
  what it holds; the permit is passed on exactly; a fenced lineage publishes
  nothing; a verb that waits for its capture returns;
* tool calls: a failure is named as it happened, exits are not spent in vain, a
  provider is never shut out with no probe under way, credentials and identities
  stay with their host, the vendor is not asked for more than was budgeted;
* operations: no login lost or resurrected by a crash or a rotation, a warm
  session leaves from its login's exit, a revoked token stays out, a smoke and a
  healthy status mean what they say, a broken tunnel is not retried for ever.

`PROJECT.json` lists all components with their status, and the hazards of the
code line by line with the properties that would catch them.

## 2. Modules

| Module | What it is |
|---|---|
| `SessionPool` | the pool, the Session objects, the contracts with core and sweep |
| `SlotContract` | what the pool promises: the life of a launch, the caps, the gate |
| `SessionPoolProofs`, `SessionPoolSafetyProofs`, `SessionPoolContractProofs` | the books of a launch, caps, ledgers, shutdown; the books against process groups and directories, and what `shutdown()` waits for; the refinement of `SlotContract` |
| `DriveController`, `DriveControllerProofs` | the controller of one MCP session, and its safety proved |
| `HttpService`, `HttpServiceProofs` | process, HTTP sessions, response leases, and their safety proved |
| `ArtifactRuntime`, `ArtifactRuntimeProofs` | operations, store, retrievals, the core's capture generation, and their safety proved |
| `PageSignals` | the detectors and the naming of failures, as operators |
| `Retrieve` | one retrieve call (extends `PageSignals`) |
| `SearchRouter` | searches over shared breakers |
| `Policy` | allowlist, origination, egress and the three guards, as operators |
| `CoreDrive` | one core session behind its guard, and the drive verbs (extends `PageSignals`, `Policy`) |
| `CaptchaSolver` | overlapping solves on one budget |
| `ToolCalls`, `ToolCallsProofs` | retrieve, router, core and solver in one specification, and their safety proved |
| `CredentialVault` | entries, host commands, login, rotation, warm open |
| `Deployment` | manifest, env file, container, deploy, keys |
| `Workstation` | tunnel, connect, status |
| `Operations`, `OperationsProofs` | the three above in one specification, and their safety proved |
| `MC...` | symmetry and values of constants for TLC |

`ToolCalls` and `Operations` put several systems beside each other because they
share one instance and one run; a behaviour exercises one of them, chosen in the
initial state, since no property relates two.

Definitions whose comment begins with "Fault:" are deliberate bugs: a dropped
guard, a missing reset, a lost call. They are not part of any specification.
`PROJECT.json` pairs each with the property that must fail once the fault
replaces the real definition.

### SessionPool

Everything one `acquire()` creates is indexed by one *launch*: the factory
promise (`launchP`), the process groups (`procs`), the profile directory
(`dir`), the Session and the OrphanRecord. A step is one run of the event loop
between two awaits, so what a handler does synchronously is one action.

| Code | Actions |
|---|---|
| `acquire`, `#launchAndRegister` | `Acquire`, `CallFactory`, `FactoryThrows`, `LaunchFails`, `LaunchTimesOut`, `LaunchRegisters`, `LaunchMeetsShutdown`, `AcquireReturns` |
| late arrival of a timed-out launch | `LateResolve`, `LateReject` |
| `release`, `#teardown`, `Session.teardown` | `Release`, `CloseResolves`, `CloseFails`, `KillConfirms`, `KillGivesUp` |
| `#drainUnconfirmed`, `Session.reconfirm` | `ReconfirmConfirms`, `ReconfirmGivesUp` |
| orphan sweep and its verdict | `SweepPolls`, `SweepConfirms`, `SweepUnconfirmed`, `SweepUnsupported`, `SweepRejects` |
| profile directory | `RemoveSettles` |
| reaper tick | `TickReleases`, `TickDrains`, `TickSweeps` |
| `shutdown` | `ShutdownBegins`, `ShutdownAwaitsWork`, `ShutdownTearsDown`, `ShutdownDrains`, `ShutdownSweeps`, `ShutdownReturns` |
| operating system (external) | `Spawn`, `GroupDies`, `CarrierDies` |

Choices that matter:

* The `/proc` scan is synchronous, so the last scan of a sweep and its verdict
  are one step; between two scans anything may happen.
* The interval timer does not wait for a tick, so ticks overlap and their
  phases are separate actions. `tick` only remembers that one was in flight when
  `shutdown()` stopped the timer.
* Time is abstract: which sessions are stale is an arbitrary set, a deadline may
  win any race it is in.
* A process group is visible or hidden to a scan by directory: its carrier
  process may die first (`CarrierDies`), after which only a stamp finds it.
* `older` is the insertion order of the `#watch` map, which decides who is
  evicted at the cap. `parked` and `seen` are observers of the properties: the
  launches ever taken off the count while unsettled, and the helper groups a
  sweep has seen.

### DriveController

`queue` is the promise chain `#lock`; its head has the turn. `turn[c]` holds
the place of the call and the local variables that live across awaits. A
navigation ends in one of five outcomes, which is all that `navFailed` and
`shouldEscalateDrive` tell apart: it landed, the gateway's own guard refused it,
a block that another exit may clear, a status no exit changes, a dead page.

| Code | Actions |
|---|---|
| `#serialize` | `CallEnters`, the guard `HasTurn`, `EndTurn` |
| `open`, the page verbs, `close` | `OpenBegins`, `ActBegins`, `CloseBegins` |
| `#navigate` | `NavigateRefused`, `FirstNavigateBegins`, `PinnedNavigateBegins` |
| `#ensureOpen`, `#openSession`, `#openSessionWarm` | `EnsureOpen`, `OpenResolves`, `OpenRejects` |
| `#runWarmup`, `#warmUpForTarget` | `WarmupReturns`, `WarmupLosesSession` |
| `#run` and what follows a verb | `ActReturns`, `NavigateSettles`, `NavigateFails`, `RunThrows` |
| `#discardSession` and what follows it | `DiscardEndsTurn`, `DiscardEscalates`, `DiscardOpensWarm` |
| `#openHealthyAndNavigate` | `NextAttempt`, `LoopThrows` |
| `#verifyEgress` | `ProbeBegins`, `ProbeOpens`, `ProbeCloses` |
| pool, vault, proxy secrets, clock | `SessionReaped`, `SessionDies`, `VaultChanges`, `ProxyChanges`, `TimePasses` |

The pool appears as what the controller sees of it: a session is open, closing
(a verb still running on it may return or throw) or gone. All hops of a warm-up
are one stage. The call budget has three levels: enough for another attempt, not
enough, none. The texts of errors, the timing records and the refusal of URLs
that are not http are left out.

### SlotContract

The abstract specification of the pool. A launch is new, starting, lent, ending,
owed (given up, but it still holds a slot), parked (it may still turn into a
browser and holds none) or gone. The arrows between these, the two caps at
admission, "nothing is lent once the gate is not open" and "nobody is gone while
its browser lives" are all it says. `SessionPool` implements it under the
refinement mapping `Contract`: `PhaseOf` reads the phase off the ledgers,
`living` is the set of launches with a known live browser whose death the
manager can confirm, `gate` is the stage of `shutdown()`.

### HttpService

| Code | Actions |
|---|---|
| `http-main`: boot guards, bind, signals, shutdown | `Boot`, `Listens`, `ListenFails`, `Signal`, `CloseAll`, `Settles`, `CloseArtifacts`, `Killed` |
| `handle`: routing, ownership, dispatch | `Arrives`, `BodyRefused`, `CallRefused`, `Dispatch`, `ToolReturns`, `CallEnds`, `HandleThrows`, `Touch` |
| `openSession` | `OpenSession`, `Registered`, `InitializeFails`, `OrphanDisposed`, `InitializeReplies` |
| `cleanup`, dispose, `reapIdle` | `Cleanup`, `DriveCloses`, `LineageDiscarded`, `ReapTick`, `ReapNext`, `TimePasses` |
| the artifact tool and its lease | `ToolAsks`, `PermitGranted`, `ReadFails`, `Registers`, `RefusalCompletes`, `ResponseFinishes`, `ResponseLost`, `Deadline`, `LeaseCompletes`, `ArtifactCallEnds` |

A wait with a bound may end at any time. `excused` remembers why a lock may be
on disk without a process: a kill, an artifact close that failed or overran, or
a signal during a refused boot; everything else must have released it.

### ArtifactRuntime

One operation per id, with the place of the verb that owns it, the progress of
its staging job and of the deletion of the driver's copy. The store is a set of
records, a set of billed ids and its health; `lineage` is the fence of the drive
controller. What a file system call does is a parameter (`K`: the ids whose
deletion could not be proven), and a download that never answers is a step
nobody takes.

| Code | Actions |
|---|---|
| `createOperation`, generations of the core | `CreateOperation`, `BeginGeneration`, `RouteDownload`, `StraySettles`, `ClosePage`, `PageClosed`, `CloseCore` |
| `settle`, `seal`, the deadline | `BeginSettle`, `Seal`, `SealResumes`, `SettleTimeout`, `VerbOver` |
| staging and `store.capture` | `StageStopped`, `StageFails`, `Capture`, `CaptureResumes`, `CaptureTooLate`, `CleanupSettles` |
| expiry, fence, close | `Expire`, `InvalidateController`, `DiscardController`, `NewController`, `Close`, `CloseSettles` |
| retrieval | `Acquire`, `Resume`, `Complete` |

### The modules of ToolCalls

`PageSignals` abstracts a page to what the detectors tell apart (how the
navigation ended, kinds of phrase and marker, lengths, widget) and translates
each detector and each naming function. `Retrieve` counts time in ticks and
goes through the stages of `render()` for every attempt; `MCToolCalls` lists
nine ways a navigation ends and six pages, and every sequence of them is
explored. In `SearchRouter` time is the events it causes: a cooldown ends, a
budget runs low, an attempt hits its deadline. `CoreDrive` lets the page's
scripts navigate or swap the CAPTCHA at every await of a verb, and its guard is
`Policy`'s, hop by hop. `CaptchaSolver` keeps the list of charge
stamps as the set of the calls charged, with the age of each; posts to the
vendor are a history beside it.

### The modules of Operations

`CredentialVault` keeps each entry as the key that sealed it, the login and the
exit it came from; writes are a temporary and a rename, and a command, the
rotation or the container may be killed between any two steps. A temporary
belongs to the command that made it, as in the code, where its name is unique.

`Deployment` keeps the manifest, the env file and the container: a container sees
the env file of its creation and the manifest of each boot. A deploy and a keys
command run at the same time and either may be killed. Each runs
`preswap-smoke.sh` (`script`) step by step: `rm -f` of a stale container and the
env file read (`StartSmoke`), the launch (`LaunchSmoke`), the boot of the
container (`BootSmoke`), the poll (`JudgeSmoke`), the last `rm -f` and the exit
(`RunSmoke`, `ApplySmoke`). The throwaway container (`smoke`) has one name and one
port, so a script evicts, judges and removes whatever is there, the other
command's container included. A write to the operator's keychain changes nothing
here. Whether `keys` can read the pool sizing is a choice of each command.

`Workstation` has the keeper's count in a file that survives it, a port anyone may
bind, and a far side that comes and goes.

`kept`, `revoked`, `touched`, `crossed`, the keys command's `image`, `streak` and
`oursSince` are histories the properties read.

## 3. Runs

| Run | Instance | Shows | States, time (2 workers) |
|---|---|---|---|
| `PoolShutdown` | two launches, one slot, watch list of one, shutdown at any time | no living browser forgotten, no directory removed under one, the cap, disjoint ledgers and no verdict lost, a shutdown that never waits for nobody and is honest when it returns; the pool implements `SlotContract` | 943,571, 2 min |
| `PoolHelpers` | one launch with a helper group beside the browser, `/proc` swept, directories that may not be minted, cores without force-kill, watch list of one, shutdown at any time | nothing pinned; every slot held by a given-up launch comes back, by way of stamps, scans, clean and rejected sweeps, promotion from the watch list, orphan records; shutdown returns | 70,443, 40 s |
| `PoolConsumers` | two launches, two slots, one consumer with a cap of one, no `/proc`, no shutdown, kills that may not be confirmable | the consumer's cap | 400,257, 20 s |
| `Drive` | two calls, two sessions, two hosts, one with a login that comes and goes, two attempts and the probe | no session lost or doubled, mode and login remembered, captures filed right, committed sessions kept | 1,187,968, 65 s |
| `DriveReturns` | two calls, one session, one host | every call returns | 255,136, 100 s |
| `Http` | two requests, two sessions, two ids, two boots | no graph leaked, no fenced session found, the permit fenced and never stranded, the lock released | 1,237,599, 80 s |
| `Artifacts` | a drive operation, a read, two retrievals, room for two | an id free only when nothing is left, bills exact, nothing left of what was invalidated, the permit passed on, the fence kept | 1,917,608, 160 s |
| `ArtifactsReturn` | one operation, one retrieval | a waiting verb returns | 12,729, 6 s |
| `ToolCalls` | three proxied attempts in five ticks; two searches, two providers, threshold two; three sites; four solves on a budget of two | verdicts honest, exits well spent, probes under way, identity and credentials where they belong, solves within budget | 1,449,910, 110 s |
| `Operations` | two slots, two commands, four postures; two images of which one does not boot, two consumers, room for one, two tokens; three failures | no login lost, old key gone, warm from the login's exit; a smoke that passed means a container that boots, unless it was crossed; revoked tokens stay out; retries bounded, healthy is ours | 3,099,000, 130 s |

Two runs end in a counterexample. Each states what a comment in the code says,
and finds that the code does otherwise:

* `DriveSilentlyCold`: a logged-in session "must not silently become anonymous".
  `browser_open` after a reap opens a cold session and leaves `#pinned` and
  `#warmHost` in place, so the next navigate runs anonymous, without an error.
  The same stale `#warmHost` makes a cold session committed for another host be
  refused, where a comment promises "no false refusals".
* `HttpReapsBusy`: "never reap a session with an in-flight tool call". The
  reaper lists the idle sessions once and awaits the close of each; a call that
  arrives on a later one meanwhile loses its transport.

Why the bounds are enough. Two launches on one slot give every race of the pool
between a launch being given up and another taking its place; the watch list of
one is full as soon as there are two, so eviction happens. Eviction and
contention for the slot are `PoolShutdown`'s; how one record leaves its slot is a
matter of that record, its groups and its sweeps, so one launch with two groups
is what `SlotsComeBack` needs. On a platform without a sweep the return of slots
is not checked. One reconfirm pass is
the smallest number that separates "tried" from "gave up". A second process
group is what separates the browser from what it leaves behind. In the
controller only the head of the queue acts, so two calls show every
interference; two sessions let the probe and a reopened session exist while an
old one is still closing; two hosts separate owner from stranger; two attempts
separate first, next and last. Two requests and two graphs are what the reaper,
a duplicate id and the permit need; a second boot is what a lock left behind
meets. Two artifact ids separate the drive lineage from a read, two retrievals a
holder from a waiter. Three attempts in a budget of five ticks let the loop end
for each of its reasons. Two searches and two failures let one probe while the
other reports; four solves exceed a budget of two, with one refused and one
charged after the window has moved on. Two slots and two commands
give every overlap of the vault's writers during a rotation; two tokens and two
consumers every mixture of the two files; a good image that runs and one that
fails to boot are what a smoke has to tell apart. The theorems of section 4 remove the
bounds from every safety property.

Deadlock is checked in the runs of the pool and of the controller: the pool's
only end is `Exit`, an explicit stutter after `shutdown()`, and the controller
always has a next step of its surroundings. The other specifications may stop
where the program does (a process that is down for good, operations all
released, a call answered, an operator with nothing left to do), so their
configurations say `CHECK_DEADLOCK FALSE`.

### Fairness

* `BoundedOperations`: every operation the pool awaits has a timer of its own
  (launch deadline, close grace, kill and sweep deadlines), so it settles one way
  or the other. Nothing is assumed about the browser: it may never die.
* `ShutdownGoesOn`: a continuation whose promises have settled runs.
* `ReaperAndWorld`, a premise inside `SlotsComeBack` and not part of the
  specification, so that `ShutdownTerminates` is checked without it: the interval
  timer keeps firing, a signalled group dies in the end, and scans neither fail
  nor run out of their time for ever (strong fairness of `SweepConfirms`). Without
  that last part TLC answers with a sweep that is rejected, started by a tick and
  rejected again for ever, and it is so in the code as well, rightly: a slot whose
  browser may live must stay taken. For the same reason a failed close of a core
  that cannot be killed by force may keep its slot.
* `FairSpec` of the controller: weak fairness of each call's own steps. Opens
  and closes are bounded by the pool, verbs by their timeouts or by the reaper
  that kills a wedged browser. No fairness for the surroundings.
* `Fairness` of `ArtifactRuntime`: a verb comes to its settle stage (it is bounded
  by its own timeouts), the settlement deadline fires, the deletion of a copy
  settles one way or the other, a response ends, and a continuation whose promise
  has settled runs. Nothing is assumed of the download, which may never answer.

## 4. Proofs

All theorems hold for any number of launches, calls, sessions, requests,
operations, searches, commands, consumers and so on, and for any bounds. They
assume no more than the `ASSUME` of the module they are about: a placeholder is
not a member of the set it stands beside, bounds are naturals, enumerations hold
what the code's types allow, the pool's launches are finitely many, a navigation
with a status had a response (`NavAssumption`), no provider is configured twice
(`RouterAssumption`). TLC evaluates each of them in the runs. Every inductive
invariant below was also checked by TLC, on the instance of the component's run,
before it was proved.

**Pool.** `Inv` is `TypeOK`, `PoolInv`, `ReservationsExact`, both caps and
`StopInv`.

* None of the properties is inductive by itself. `PoolInv` says for every launch
  how its books hang together (`Books`): what an untouched launch looks like
  (`Fresh`), what the factory promise says about `acquire()` (`Promise`), what a
  given-up launch has left behind (`GivenUp`), who is in charge of its end
  (`InCharge`) and what keeps its record (`Kept`).
* An action touches the books of one launch, so each is proved with one lemma
  about the launch it names and one about the others.
* The caps need a counting argument. Most steps are *quiet*: they do not enlarge
  the set of counted launches that were never parked. Only `Acquire` does, and
  its guard compares the true numbers because reservations are exact.
* `StopInv` says what each stage of `shutdown()` may rely on: after the await on
  the launches none is in flight, after the teardowns every session left is
  unconfirmed.
* `WorldInv` relates the books to the world: what a sweep has found is stamped
  or dead (`Found`), what an arrived core says (`Core`), what the directory's
  state says (`Profile`), and that a launch off the books has nothing alive
  (`OffBooks`).
* `WaitInv` says which operation is behind each promise that `shutdown()` waits
  for, and which teardown or removal an `acquire()` caught by the shutdown waits
  for. Most of it passes through settlements: a confirmed death hands the wait on
  to a sweep or a removal (`WaitingContinues`). It needs the other two: that no
  sweep is running where a directory is being removed, and no late core where a
  session is being closed.

From these follow the types, exact reservations, both caps, disjoint ledgers, no
pinned record, no forgotten browser, no directory removed under one, an honest
shutdown, and `AwaitedUnderWay`: what a comment in `shutdown()` claims, that its
awaits cannot hang because each of them is bounded. It is the safety half of
`ShutdownTerminates`; that the bounded operations then end is fairness. The run's
`ShutdownWaits` is the last two together: `shutdown()` waits for what it must and
for nothing else.

**The pool's contract.** `PoolKeepsContract` is `Spec => KeepsContract`: every
behaviour of the pool is one of `SlotContract` under the mapping `Contract`.

* `GoesStep`: every step moves every launch along an arrow of the contract or
  leaves it in its phase, and keeps owner and gate, but for an admission and the
  two ends of `shutdown()`. It rests on `Inv` and `WorldInv`, for instance: a
  watch entry the cap evicts is still pending, so it stays parked, and a record
  without a directory is never in a ledger, so no sweep pass drops one.
* One more invariant is needed, `ReturnedInv`: a session is ended only after the
  `acquire()` that made it has returned. Without it an ended session would go back
  to starting. For the teardowns of `shutdown()` it follows from `StopInv`.
* `Buried`, from `WorldInv`: no launch is new or gone while its browser lives.
* `AcquireAdmits`: what holds a slot of the contract is exactly what the pool
  counts, so the guard of `acquire()` implies the contract's. `ShutdownShuts`:
  `shutdown()` begins at an open gate and returns with nobody starting or lent.

**Controller.** `DriveInv` is `TypeOK`, `Locked`, `Phases`, `NoSessionLost`,
`ModeRemembered` and `LoginRemembered` (together `SessionRemembered`).

* `Locked` says that a call past its queue place is the head. So a step of the
  head may change the controller's fields without disturbing another turn.
* `Phases` says what the place of a turn implies: no handle while reopening,
  opening or discarding; a handle while warming up or running, except in the
  probe; a probe session only while it runs; the target host set by the call
  itself; nothing committed before a first navigation lands.
* Every action is one of three kinds, each with a lemma: the turn ends
  (`EndsKeep`), goes on with the session as it was (`StaysKeep`), or gives the
  session up (`DiscardsKeep`). `OpenResolves`, `ProbeOpens`, `ProbeCloses` and
  `WarmupLosesSession` change the sessions and have lemmas of their own.

`OneSession` and `CaptureHost` follow from the invariant, `CommittedKept` from
the invariant and one step; that a navigation whose budget went by in the queue
leaves the committed session alone needs `TooLateIsRefused` besides: such a call
is refused before it reaches the session.

**HTTP layer.** `HttpInv` is `TypeOK`, `LockReleased`, `Calls`, `References`,
`Apart`, `Graphs`, `NoGraphLeaked` and `PermitHasHolder`.

* A request is handler, response and lease tracker at once, and they end in any
  order. `CallShape` says how far they can be apart: no lease before the tool
  asks for one, a response that is over exactly when the tracker is terminal or
  settled. `FencedBeforePermit` follows from it.
* Whether a graph is anybody's depends on the requests that name it. `Refers`
  says what each place of a request implies for its graph, `Apart` that two
  requests never build the same one and never share an id of a session. Without
  `Apart` a request that gives up could dispose of another one's graph.
* `Graphs` has the in-flight count equal the number of ids in flight. That is
  what keeps the count a natural when a call ends after its session is gone.

**Artifacts.** `ArtifactInv` is `StoreInv` (operations, store, fences, leases) and
`CoreInv` (the capture generation).

* `Ops` carries the argument: an id for which the store holds anything has an
  operation that still answers for it (`Keeps`). While undecided, its job or
  seal will; once decided, a deletion has to be noted or has failed, and an id
  billed without a record has an operation that knows or is about to find out. `tryRelease`
  waits for exactly these fields, so `Settle` changes nothing where `Keeps` holds,
  and `ReleasedIsGone` follows.
* `Fences` says that nothing is undecided behind `close()` or behind the fence of
  the lineage, and that a sweep that succeeded left nothing, whether or not a
  deletion had failed before it. Each step publishes
  only what was undecided (`Published`), hence `FencedNeverPublishes`.
* `Serving` ties a lease to its record, `Permit` is the queue: one holder, the
  waiting ones queued once, a queue only behind a holder. `PermitExact` counts
  them.
* Most steps are `Discard(S, K)` with changes of operations beside it, often with
  nothing to discard. One lemma (`DiscardStep`) covers them all; the steps that
  capture, serve or close have proofs of their own.

**Tool calls.** `ToolInv` is `Retrieves`, `Probes`, `Core` and `Budget`, one per system, each
over its own next-state relation.

* `Retrieves`: what a verdict says depends on the whole loop. `LiveSeen` says that
  an exit that reached the site is remembered before the next one is tried,
  `LoopWhy` why the call is at the head of the loop or out of it, `Rendered` that
  a page with a status had a response. `ExitsWellSpent` follows from one step.
* `Probes` is `ProbeUnderWay` with types: a half-open breaker has a search asking
  its provider, and only that search's report changes it.
* `Core`: the identity the core believes in is the one the page presents, except
  on a page in doubt or one about to be recreated (`Identity`); a warm page is at
  home while the interceptor is attached (`Home`), from the definition of the
  guard, for any set of sites.
* `Budget`: inside the window the calls charged are exactly the calls posted. A
  call is charged and posted in one step, a charge is filtered out only when it
  is too old to count, and it only gets older. So the number `#chargeBudget`
  compares with the limit is the number of posts, and a charge that passes leaves
  at most the limit (`ChargeFits`).

**Operations.** `OpsInv` is `Vault`, `Host`, `Storm` and `Ours`.

* `Vault`: a command at work has the key in use (`Cmds`); a rotation runs alone
  and what it has left to write is what the entries hold (`Alone`), so a kill
  between temporary and rename loses nothing; every entry is recorded with the
  exit it used or with one that pins nothing (`HonestEntries`).
* `Host`: a keys command's copies are what the files hold (`Copies`). A script
  belongs to the command that waits for it (`Scripts`), and unless it was crossed
  the container it polls is its own, on the files as they are (`SmokeHolds`). So a
  deploy past its smoke has an image that boots unless somebody wrote the files
  or crossed it (`Smoked`), and a keys command what it is about to launch
  (`Applied`). Who is revoked is not in the manifest (`Barred`).
* `Storm`: the failures in a row never outrun the count in the file. `Ours`: from
  the gateway's answer on, a port that is ours has been seen so.

**Only model-checked.**

* `ShutdownTerminates`, `SlotsComeBack`, `CallsReturn` and `SealReturns`: liveness
  under fairness is outside what the prover does here.
* The two counterexample runs are TLC's by nature.

## 5. What the code does that a reader should know

Met while modelling; no run is devoted to these.

* Pool: `activeCount` "never under-reports live browsers" (session-manager.ts:283)
  except for a watched launch that spawns late, as the comment on `#watch` admits.
  `shutdown()` waits for the removals its own reconfirm queued, not for one a
  reaper tick's reconfirm queued (lines 804-813, 937): that profile directory may
  be left to the exit.
* Artifacts: a retrieval already waiting for the response permit is served after
  its lineage was fenced (artifacts/index.ts:1189-1199). An operation created
  before a core refuses the verb stays reserved until its lineage or the runtime
  is closed.
* Core: after a second failed OS override, or a failed page close, the page is
  kept with an uncertain identity (`tab.doubt` in `CoreDrive`), and the property
  excepts it. `close()` detaches the interceptor before the context is closed;
  `CredentialsStayHome` ends at that detach and says nothing of the page's own
  traffic until the context is gone. A
  page script's navigation blocked between two verbs makes the next action answer
  "blocked by policy". The checks that the widget is still the same before a token
  is injected and the injection itself are two awaits; no property claims they are
  one.
* Retrieve: the direct fallback at retrieve.ts:1154 is unreachable with at least
  one proxied attempt. No production caller passes a solver to `retrieve`.
* Router: the branch of `admit` for half-open without a probe is unreachable.
* Vault: a rotation killed between a temporary and its rename is not "completed
  simply by re-running" (vault-store.ts:277) until the temporary is removed. The
  host commands write beside "the only writer" (line 262), so a login in flight
  re-creates an entry revoked meanwhile. A login captured through a proxy without
  a password is bound to a sticky id that pins nothing.
* Keys: there is no lock between two keys commands, so the later write wins
  (keys.ts:321, 417); one command at a time is modelled. A key staged without
  apply makes the next restart refuse to boot. A revocation staged without apply
  is undone when the id is minted anew and the command stops before the env file.
* Deployment: files edited between smoke and swap go live unsmoked, and the
  rollback reads the same files. The last step failing exits without a rollback.
* Smoke: "Exit 0 = safe to swap" (preswap-smoke.sh:5) holds for one smoke at a
  time. Two share one container name and port (lines 66-67) and nothing keeps them
  apart. A deploy smokes a broken image; the smoke of a `keys --apply` begins with
  `rm -f` of that name (line 76) and launches the running image before the
  deploy's poll (lines 95-134) has an answer. The deploy judges that container,
  passes, and swaps the broken image in, with no file written in between; its
  verify notices and rolls back. TLC shows this trace once `deploy.crossed` is
  taken out of `SmokedConfigBoots`.
* `SmokedConfigBoots` excepts exactly these two, `touched` and `crossed`. What is
  left is that a stale container, a refused launch, an eviction or a tear-down by
  the other smoke outside the poll never lets a broken image pass.
* connect: any answer but 401 to the authenticated probe counts as connected, the
  000 of a tunnel that just dropped included (connect.ts:153-164).

## 6. Not modelled, and why

* Within the pool and the sweep: recycled pids; helper groups that detach before
  any scan has seen them (the code documents that it cannot find those, which is
  why `KnownAlive` speaks of the main group and of groups once seen); renderers
  without parent and arguments that no scan stamps; a second `shutdown()` call; a
  core without force-kill is trusted when its close resolves, as in the code. A
  user data directory supplied by the caller behaves like one that could not be
  minted: nothing is swept, nothing removed.
* Within the core: launch arguments, input realism, accessibility snapshots and
  frame capture: sequences of browser calls without a state of their own. In the
  fingerprint module: constant tables and page scripts.
* Text: matching phrases and markup, redaction and wording of errors, tool
  schemas, HTML extraction.
* Cryptography, HTTP and JSON parsing, file system internals: outcomes.
* The audit trail: append-only output nobody reads back.
* `stop`, `rm` and `run` of the container are one step of `Deployment`, for the
  live one and for the throwaway one. A killed command takes its smoke script
  along; in the code one started over ssh may go on by itself. A throwaway
  container orphaned by a SIGKILL is gone at once when nobody else smokes, which
  changes nothing, since every script begins with `rm -f`.
* Workstation: the count after an operator's bootout or a reboot in the middle of
  a row of failures stays as it is in the file, as in the code; `StormBounded`
  does not speak of that.
* `scripts/measure-*` and `scripts/validate-*`: harnesses that drive the real
  program against real browsers and print reports. They are more than a third
  of the repository's lines and hold none of its logic.

## 7. Plan

1. All modules, with runs: done.
2. The safety of pool, controller, HTTP layer, artifacts, tool calls and
   operations proved, and the refinement of `SlotContract`: done.
3. Every safety property of the runs is now a theorem. Left to TLC are the four
   liveness properties, which the prover cannot do.
