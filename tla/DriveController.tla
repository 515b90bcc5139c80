-------------------------- MODULE DriveController --------------------------
(***************************************************************************)
(* The drive controller of one MCP session: GatewayDriveController         *)
(* (src/mcp/drive-controller.ts).  It holds at most one browser session of *)
(* the pool, commits it ("pins" it) once a page has landed, reopens it     *)
(* after a reap, escalates a blocked first navigation to proxied exits and *)
(* restores a stored login (a "warm" session) when the vault has one.      *)
(*                                                                         *)
(* The transport dispatches tool calls concurrently; #serialize runs their *)
(* turns one at a time.  A step is one run of the event loop between two   *)
(* awaits of a turn.  The pool, the vault, the proxy secrets and the clock *)
(* change between any two steps.                                           *)
(***************************************************************************)
EXTENDS Naturals, Sequences, FiniteSets

CONSTANTS
    Call,          \* tool calls that may be pending at the same time
    Sid,           \* browser sessions that may exist at the same time
    Host,          \* hosts a consumer may name
    LoginHosts,    \* hosts the vault may hold a login for
    Revocable,     \* those whose login comes and goes while the gateway runs
    WarmupHosts,   \* BGW_WARMUP_HOSTS
    EscalateHosts, \* BGW_ESCALATE_HOSTS
    MaxAttempts,   \* timeouts.proxyMaxAttempts
    VerifyEgress,  \* BGW_DIAG_VERIFY_EGRESS
    NoSid, NoHost  \* undefined

ASSUME DriveAssumption ==
    /\ NoSid \notin Sid /\ NoHost \notin Host
    /\ LoginHosts \subseteq Host /\ Revocable \subseteq LoginHosts
    /\ WarmupHosts \subseteq Host /\ EscalateHosts \subseteq Host
    /\ MaxAttempts \in Nat
    /\ VerifyEgress \in BOOLEAN

VARIABLES
    \* the controller's fields
    handle,    \* #handle
    pinned,    \* #pinned
    proxied,   \* #proxiedSession
    warmHost,  \* #warmHost
    navHost,   \* #navigateHost
    \* the calls
    queue,     \* #lock: the pending calls in order; the first one has the turn
    req,       \* what each pending call asks for
    budget,    \* what is left of its callBudgetMs: ample, low, spent
    turn,      \* where its turn stands, with its local variables
    \* the surroundings
    sess,      \* [Sid -> the pool's session: gone, open or closing]
    vault,     \* hosts with a stored login
    proxy      \* a residential proxy is configured

held == <<handle, pinned, proxied, warmHost>>
fields == <<held, navHost>>
world == <<sess, vault, proxy>>
vars == <<fields, queue, req, budget, turn, world>>

Verb == {"open", "navigate", "act", "close"}
Request == [verb : Verb, host : Host \cup {NoHost}, forced : BOOLEAN]
NoRequest == [verb |-> "close", host |-> NoHost, forced |-> FALSE]

\* What a session is opened with: an exit, and the owner of a restored login
\* (NoHost: a cold session).
Mode == [proxied : BOOLEAN, owner : Host \cup {NoHost}]
Direct == [proxied |-> FALSE, owner |-> NoHost]
Residential == [proxied |-> TRUE, owner |-> NoHost]

Gone == [at |-> "gone", mode |-> Direct]
Session == [at : {"gone", "open", "closing"}, mode : Mode]

\* How a navigation ends.  "block" is a block that a fresh exit may clear,
\* "terminal" a status no exit can change, "dead" every other failure and
\* "policy" a refusal by the gateway's own guard.
Outcome == {"ok", "policy", "block", "terminal", "dead"}

Turn == [pc : {"idle", "queued", "reopening", "opening", "warming", "running",
               "discarding"},
         way : {"none", "open", "act", "direct", "warm", "pinned", "proxied",
                "probe", "stop"},
         want : Mode, warmups : 0..2, attempts : 0..MaxAttempts,
         last : Outcome \cup {"none"}, probe : Sid \cup {NoSid}]
NavigateWay == {"direct", "warm", "pinned", "proxied"}
FirstWay == NavigateWay \ {"pinned"}
NoTurn == [pc |-> "idle", way |-> "none", want |-> Direct, warmups |-> 0,
           attempts |-> 0, last |-> "none", probe |-> NoSid]

Init ==
    /\ handle = NoSid /\ pinned = FALSE /\ proxied = FALSE
    /\ warmHost = NoHost /\ navHost = NoHost
    /\ queue = <<>>
    /\ req = [c \in Call |-> NoRequest]
    /\ budget = [c \in Call |-> "ample"]
    /\ turn = [c \in Call |-> NoTurn]
    /\ sess = [s \in Sid |-> Gone]
    /\ vault \in SUBSET LoginHosts
    /\ proxy \in BOOLEAN

-----------------------------------------------------------------------------
(* Steps a turn is made of. *)

\* The turn of c goes on as t.
Continue(c, t) ==
    /\ turn' = [turn EXCEPT ![c] = t]
    /\ UNCHANGED <<queue, req, budget>>

\* The turn of c is over, whether it returned or threw: the next one may begin.
EndTurn(c) ==
    /\ turn' = [turn EXCEPT ![c] = NoTurn]
    /\ queue' = Tail(queue)
    /\ req' = [req EXCEPT ![c] = NoRequest]
    /\ budget' = [budget EXCEPT ![c] = "ample"]
    /\ navHost' = NoHost

Opening(c, way, mode) ==
    [turn[c] EXCEPT !.pc = "opening", !.way = way, !.want = mode]
Reopening(c, way) == [turn[c] EXCEPT !.pc = "reopening", !.way = way]
Running(c, way) == [turn[c] EXCEPT !.pc = "running", !.way = way]
Discarding(c, way) == [turn[c] EXCEPT !.pc = "discarding", !.way = way]

\* buildWarmOverride for a host in the vault: a login captured through a proxied
\* exit is restored through one, and is refused while no proxy is configured.
WarmModes(h) == {[proxied |-> p, owner |-> h] : p \in {FALSE, proxy}}
WarmRefused(h) == h \in vault /\ ~proxy

\* Fault: the session is forgotten and the pool never told.
DiscardWithoutRelease ==
    /\ handle' = NoSid /\ pinned' = FALSE /\ proxied' = FALSE
    /\ warmHost' = NoHost
    /\ UNCHANGED sess

\* #discardSession up to its await: the fields are reset and the pool is asked
\* to release the session.
Discard ==
    /\ handle' = NoSid /\ pinned' = FALSE /\ proxied' = FALSE
    /\ warmHost' = NoHost
    /\ sess' = [s \in Sid |-> IF s = handle /\ sess[s].at = "open"
                              THEN [sess[s] EXCEPT !.at = "closing"]
                              ELSE sess[s]]

-----------------------------------------------------------------------------
(* The calls and their turns. *)

\* Fault: the target host is written before the turn, by whoever enters.
CallEntersNamingHost(c, r) ==
    /\ turn[c].pc = "idle"
    /\ r.verb # "navigate" => r.host = NoHost /\ ~r.forced
    /\ r.verb = "navigate" => r.host \in Host
    /\ queue' = Append(queue, c)
    /\ req' = [req EXCEPT ![c] = r]
    /\ turn' = [turn EXCEPT ![c].pc = "queued"]
    /\ navHost' = r.host
    /\ UNCHANGED <<held, budget, world>>

\* A tool call enters #serialize; the clock of its budget starts.
CallEnters(c, r) ==
    /\ turn[c].pc = "idle"
    /\ r.verb # "navigate" => r.host = NoHost /\ ~r.forced
    /\ r.verb = "navigate" => r.host \in Host
    /\ queue' = Append(queue, c)
    /\ req' = [req EXCEPT ![c] = r]
    /\ turn' = [turn EXCEPT ![c].pc = "queued"]
    /\ UNCHANGED <<fields, budget, world>>

\* Fault: verbs are not serialized.
HasTurnUnlocked(c, v) == turn[c].pc = "queued" /\ req[c].verb = v

\* The turn of a call begins when the one before it has settled.
HasTurn(c, v) ==
    turn[c].pc = "queued" /\ req[c].verb = v /\ queue # <<>> /\ Head(queue) = c

\* open(): a direct session, unless there is one.
OpenBegins(c) ==
    /\ HasTurn(c, "open")
    /\ IF handle = NoSid
       THEN Continue(c, Opening(c, "open", Direct)) /\ UNCHANGED <<fields, world>>
       ELSE EndTurn(c) /\ UNCHANGED <<held, world>>

\* snapshot, click, type, selectOption, pressKey, waitFor, screenshot: they
\* need a session and never open one.
ActBegins(c) ==
    /\ HasTurn(c, "act")
    /\ IF handle # NoSid
       THEN Continue(c, Running(c, "act")) /\ UNCHANGED <<fields, world>>
       ELSE EndTurn(c) /\ UNCHANGED <<held, world>>

\* close()
CloseBegins(c) ==
    /\ HasTurn(c, "close")
    /\ Discard
    /\ Continue(c, Discarding(c, "stop"))
    /\ UNCHANGED <<navHost, vault, proxy>>

\* A navigate refused before it touches the session: its budget went by in the
\* queue, or a pinned warm session belongs to another host.
NavigateRefused(c) ==
    /\ HasTurn(c, "navigate")
    /\ \/ budget[c] = "spent"
       \/ pinned /\ warmHost # NoHost /\ warmHost # req[c].host
    /\ EndTurn(c)
    /\ UNCHANGED <<held, world>>

\* #firstNavigate up to its first await: a stored login comes first, then a
\* forced exit, then the direct attempt on the session there is, if any.
FirstNavigate(c) ==
    \/ /\ req[c].host \in vault
       /\ Discard
       /\ \E m \in WarmModes(req[c].host) :
             Continue(c, [Discarding(c, "warm") EXCEPT !.want = m])
       /\ navHost' = req[c].host
    \/ /\ req[c].host \notin vault /\ req[c].forced /\ proxy
       /\ Discard
       /\ Continue(c, Discarding(c, "proxied"))
       /\ navHost' = req[c].host
    \/ /\ \/ WarmRefused(req[c].host)
          \/ req[c].host \notin vault /\ req[c].forced /\ ~proxy
       /\ EndTurn(c)
       /\ UNCHANGED <<held, sess>>
    \/ /\ req[c].host \notin vault /\ ~req[c].forced
       /\ Continue(c, IF handle = NoSid THEN Opening(c, "direct", Direct)
                                        ELSE Running(c, "direct"))
       /\ navHost' = req[c].host
       /\ UNCHANGED <<held, sess>>

\* Fault: a navigation starts over although the session is committed.
FirstNavigateAlways(c) ==
    /\ HasTurn(c, "navigate")
    /\ budget[c] # "spent"
    /\ FirstNavigate(c)
    /\ UNCHANGED <<vault, proxy>>

\* navigate() on a session that is not committed yet.
FirstNavigateBegins(c) ==
    /\ HasTurn(c, "navigate")
    /\ budget[c] # "spent" /\ ~pinned
    /\ FirstNavigate(c)
    /\ UNCHANGED <<vault, proxy>>

\* navigate() on a committed session: one shot, after a reopen if the session
\* was lost.
PinnedNavigateBegins(c) ==
    /\ HasTurn(c, "navigate")
    /\ budget[c] # "spent" /\ pinned
    /\ warmHost \in {NoHost, req[c].host}
    /\ navHost' = req[c].host
    /\ Continue(c, IF handle = NoSid THEN Reopening(c, "pinned")
                                     ELSE Running(c, "pinned"))
    /\ UNCHANGED <<held, world>>

-----------------------------------------------------------------------------
(* Opening. *)

\* #ensureOpen with no session open: the login is restored again, or the call
\* fails because it was revoked or lost its exit; a cold session is opened in the mode it had.
EnsureOpen(c) ==
    /\ turn[c].pc = "reopening"
    /\ \/ /\ warmHost # NoHost /\ warmHost \in vault
          /\ \E m \in WarmModes(warmHost) :
                Continue(c, Opening(c, turn[c].way, m)) /\ UNCHANGED navHost
          /\ UNCHANGED <<held, sess>>
       \/ /\ WarmRefused(warmHost)
          /\ EndTurn(c)
          /\ UNCHANGED <<held, sess>>
       \/ /\ warmHost # NoHost /\ warmHost \notin vault
          /\ Discard
          /\ Continue(c, Discarding(c, "stop")) /\ UNCHANGED navHost
       \/ /\ warmHost = NoHost
          /\ Continue(c, Opening(c, turn[c].way,
                        IF proxied /\ proxy THEN Residential ELSE Direct))
          /\ UNCHANGED <<fields, sess>>
    /\ UNCHANGED <<vault, proxy>>

\* Where a turn goes once its session is open: a restored login is warmed up
\* first, at most twice, if its host asks for that.
Opened(c) ==
    LET t == turn[c] IN
    IF /\ t.way \in {"warm", "pinned"} /\ t.want.owner \in WarmupHosts
       /\ t.warmups < 2
    THEN [t EXCEPT !.pc = "warming", !.warmups = t.warmups + 1]
    ELSE [t EXCEPT !.pc = "running"]

\* Fault: the owner of the restored login is not recorded.
OpenSessionWarmUnrecorded(c, s) ==
    /\ turn[c].want.owner # NoHost
    /\ handle' = s /\ proxied' = turn[c].want.proxied
    /\ UNCHANGED warmHost

\* #openSessionWarm
OpenSessionWarm(c, s) ==
    /\ turn[c].want.owner # NoHost
    /\ handle' = s /\ proxied' = turn[c].want.proxied
    /\ warmHost' = turn[c].want.owner

\* #openSession
OpenSession(c, s) ==
    /\ turn[c].want.owner = NoHost
    /\ handle' = s /\ proxied' = turn[c].want.proxied
    /\ UNCHANGED warmHost

\* gateway.openConsumerSession() resolves for the controller.
OpenResolves(c, s) ==
    /\ turn[c].pc = "opening" /\ turn[c].way # "probe"
    /\ sess[s] = Gone /\ s # handle
    /\ sess' = [sess EXCEPT ![s] = [at |-> "open", mode |-> turn[c].want]]
    /\ OpenSession(c, s) \/ OpenSessionWarm(c, s)
    /\ IF turn[c].way = "open"
       THEN EndTurn(c)
       ELSE Continue(c, Opened(c)) /\ UNCHANGED navHost
    /\ UNCHANGED <<pinned, vault, proxy>>

\* It rejects: no capacity, a failed launch, a guard that cannot be installed.
\* The probe swallows that, every other turn throws.
OpenRejects(c) ==
    /\ turn[c].pc = "opening"
    /\ EndTurn(c)
    /\ UNCHANGED <<held, world>>

-----------------------------------------------------------------------------
(* Running verbs on the session. *)

\* #runWarmup ends, whatever became of its hops, with the session in place.
WarmupReturns(c) ==
    /\ turn[c].pc = "warming"
    /\ Continue(c, Running(c, turn[c].way))
    /\ UNCHANGED <<fields, world>>

\* A hop throws because the session is gone: #run forgets the handle, and
\* #warmUpForTarget reopens.
WarmupLosesSession(c) ==
    /\ turn[c].pc = "warming"
    /\ sess[handle].at = "gone"
    /\ handle' = NoSid
    /\ Continue(c, Reopening(c, turn[c].way))
    /\ UNCHANGED <<pinned, proxied, warmHost, navHost, world>>

\* The guard of a warm session admits its owner host only.
Possible(c, out) ==
    LET owner == sess[handle].mode.owner IN
    owner \notin {NoHost, req[c].host} => out = "policy"

\* A verb other than navigate returns, or throws with the session in place.
ActReturns(c) ==
    /\ turn[c].pc = "running" /\ turn[c].way = "act"
    /\ EndTurn(c)
    /\ UNCHANGED <<held, world>>

\* The page landed: the session is committed.  A refusal by the guard commits
\* it as well, because the session is healthy; a proxied attempt is the
\* exception (NavigateFails).
NavigateSettles(c, out) ==
    /\ turn[c].pc = "running" /\ turn[c].way \in NavigateWay
    /\ sess[handle].at # "gone" /\ Possible(c, out)
    /\ out = "ok" \/ (out = "policy" /\ turn[c].way # "proxied")
    /\ pinned' = TRUE
    /\ EndTurn(c)
    /\ UNCHANGED <<handle, proxied, warmHost, world>>

\* The navigation failed: the session is discarded, and what follows depends on
\* the way the turn went.
NavigateFails(c, out) ==
    /\ turn[c].pc = "running" /\ turn[c].way \in NavigateWay
    /\ sess[handle].at # "gone" /\ Possible(c, out)
    /\ out # "ok" /\ (out = "policy" => turn[c].way = "proxied")
    /\ Discard
    /\ Continue(c, [Discarding(c, IF turn[c].way \in {"direct", "proxied"}
                                  THEN turn[c].way ELSE "stop")
                       EXCEPT !.last = out])
    /\ UNCHANGED <<navHost, vault, proxy>>

\* Fault: a verb that throws never frees the turn: its lock stays taken.
RunThrowsHoldingTurn(c) ==
    /\ turn[c].pc = "running" /\ turn[c].way # "probe"
    /\ handle' = IF sess[handle].at = "gone" THEN NoSid ELSE handle
    /\ Continue(c, Discarding(c, "none"))
    /\ UNCHANGED <<pinned, proxied, warmHost, navHost, world>>

\* #run rethrows.  Only a session the pool no longer knows is forgotten.
RunThrows(c) ==
    /\ turn[c].pc = "running" /\ turn[c].way # "probe"
    /\ handle' = IF sess[handle].at = "gone" THEN NoSid ELSE handle
    /\ EndTurn(c)
    /\ UNCHANGED <<pinned, proxied, warmHost, world>>

-----------------------------------------------------------------------------
(* After a discard; the loop over proxied exits; the egress probe. *)

\* The pool has closed the session, or has kept it for its own reconfirm loop:
\* either way the discard resolves.  A direct attempt that failed escalates if
\* it may, and then goes through the loop like a forced call.
Escalates(c) ==
    proxy /\ req[c].host \in EscalateHosts /\ turn[c].last = "block"

DiscardEndsTurn(c) ==
    /\ turn[c].pc = "discarding"
    /\ turn[c].way = "stop" \/ (turn[c].way = "direct" /\ ~Escalates(c))
    /\ EndTurn(c)
    /\ UNCHANGED <<held, world>>

DiscardEscalates(c) ==
    /\ turn[c].pc = "discarding" /\ turn[c].way = "direct" /\ Escalates(c)
    /\ Continue(c, [Discarding(c, "proxied") EXCEPT !.last = "none"])
    /\ UNCHANGED <<fields, world>>

DiscardOpensWarm(c) ==
    /\ turn[c].pc = "discarding" /\ turn[c].way = "warm"
    /\ Continue(c, Opening(c, "warm", turn[c].want))
    /\ UNCHANGED <<fields, world>>

\* The loop of #openHealthyAndNavigate is over: no answer can change, no
\* attempt is left, or too little of the budget.
LoopIsOver(c) ==
    \/ turn[c].last \in {"policy", "terminal"}
    \/ turn[c].attempts = MaxAttempts
    \/ budget[c] # "ample"

\* One more attempt on a fresh exit.
NextAttempt(c) ==
    /\ turn[c].pc = "discarding" /\ turn[c].way = "proxied"
    /\ ~LoopIsOver(c) /\ proxy
    /\ Continue(c, [Opening(c, "proxied", Residential)
                       EXCEPT !.attempts = turn[c].attempts + 1])
    /\ UNCHANGED <<fields, world>>

ProbeDue(c) ==
    VerifyEgress /\ proxy /\ budget[c] = "ample" /\ turn[c].last # "policy"

\* The call throws: the proxy was removed between two attempts, or every
\* attempt failed and no probe is due.
LoopThrows(c) ==
    /\ turn[c].pc = "discarding" /\ turn[c].way = "proxied"
    /\ IF LoopIsOver(c) THEN ~ProbeDue(c) ELSE ~proxy
    /\ EndTurn(c)
    /\ UNCHANGED <<held, world>>

\* #verifyEgress: a session of its own, not the controller's.
ProbeBegins(c) ==
    /\ turn[c].pc = "discarding" /\ turn[c].way = "proxied"
    /\ LoopIsOver(c) /\ ProbeDue(c)
    /\ Continue(c, Opening(c, "probe", Residential))
    /\ UNCHANGED <<fields, world>>

ProbeOpens(c, s) ==
    /\ turn[c].pc = "opening" /\ turn[c].way = "probe"
    /\ sess[s] = Gone /\ s # handle
    /\ sess' = [sess EXCEPT ![s] = [at |-> "open", mode |-> turn[c].want]]
    /\ Continue(c, [Running(c, "probe") EXCEPT !.probe = s])
    /\ UNCHANGED <<fields, vault, proxy>>

\* The probe's render returned or threw: its session is closed in any case.
ProbeCloses(c) ==
    /\ turn[c].pc = "running" /\ turn[c].way = "probe"
    /\ sess' = [sess EXCEPT ![turn[c].probe].at = IF @ = "open" THEN "closing" ELSE @]
    /\ Continue(c, [Discarding(c, "stop") EXCEPT !.probe = NoSid])
    /\ UNCHANGED <<fields, vault, proxy>>

-----------------------------------------------------------------------------
(* The surroundings. *)

\* The pool takes a session back: idle, wedged in a verb, or shutting down.
SessionReaped(s) ==
    /\ sess[s].at = "open"
    /\ sess' = [sess EXCEPT ![s].at = "closing"]
    /\ UNCHANGED <<fields, queue, req, budget, turn, vault, proxy>>

\* Its browser is confirmed dead: get() no longer finds it.
SessionDies(s) ==
    /\ sess[s].at = "closing"
    /\ sess' = [sess EXCEPT ![s] = Gone]
    /\ UNCHANGED <<fields, queue, req, budget, turn, vault, proxy>>

\* A login is captured or revoked.
VaultChanges(h) ==
    /\ vault' = IF h \in vault THEN vault \ {h} ELSE vault \cup {h}
    /\ UNCHANGED <<fields, queue, req, budget, turn, sess, proxy>>

\* The proxy's secrets are set or removed.
ProxyChanges ==
    /\ proxy' = ~proxy
    /\ UNCHANGED <<fields, queue, req, budget, turn, sess, vault>>

TimePasses(c) ==
    /\ turn[c].pc # "idle" /\ budget[c] # "spent"
    /\ budget' = [budget EXCEPT ![c] = IF @ = "ample" THEN "low" ELSE "spent"]
    /\ UNCHANGED <<fields, queue, req, turn, world>>

-----------------------------------------------------------------------------

BeginStep(c) ==
    \/ OpenBegins(c) \/ ActBegins(c) \/ CloseBegins(c)
    \/ NavigateRefused(c) \/ FirstNavigateBegins(c) \/ PinnedNavigateBegins(c)

OpenStep(c) ==
    \/ EnsureOpen(c) \/ OpenRejects(c)
    \/ \E s \in Sid : OpenResolves(c, s) \/ ProbeOpens(c, s)

RunStep(c) ==
    \/ WarmupReturns(c) \/ WarmupLosesSession(c)
    \/ ActReturns(c) \/ RunThrows(c) \/ ProbeCloses(c)
    \/ \E out \in Outcome : NavigateSettles(c, out) \/ NavigateFails(c, out)

DiscardStep(c) ==
    \/ DiscardEndsTurn(c) \/ DiscardEscalates(c) \/ DiscardOpensWarm(c)
    \/ NextAttempt(c) \/ LoopThrows(c) \/ ProbeBegins(c)

TurnStep(c) == BeginStep(c) \/ OpenStep(c) \/ RunStep(c) \/ DiscardStep(c)

WorldStep ==
    \/ \E s \in Sid : SessionReaped(s) \/ SessionDies(s)
    \/ \E h \in Revocable : VaultChanges(h)
    \/ ProxyChanges
    \/ \E c \in Call : TimePasses(c)

Next ==
    \/ \E c \in Call : TurnStep(c) \/ \E r \in Request : CallEnters(c, r)
    \/ WorldStep

Spec == Init /\ [][Next]_vars

\* Every await of a turn is bounded: launches and closes by the pool, a verb by
\* its own timeouts or by the reaper, which takes back a wedged session.
FairSpec == Spec /\ \A c \in Call : WF_vars(TurnStep(c))

-----------------------------------------------------------------------------
(* Properties. *)

Live(s) == s # NoSid /\ sess[s].at = "open"

\* Every variable keeps to its range.
TypeOK ==
    /\ handle \in Sid \cup {NoSid}
    /\ pinned \in BOOLEAN /\ proxied \in BOOLEAN
    /\ warmHost \in Host \cup {NoHost} /\ navHost \in Host \cup {NoHost}
    /\ queue \in Seq(Call)
    /\ req \in [Call -> Request]
    /\ budget \in [Call -> {"ample", "low", "spent"}]
    /\ turn \in [Call -> Turn]
    /\ sess \in [Sid -> Session]
    /\ vault \subseteq LoginHosts /\ proxy \in BOOLEAN

\* Every open browser session of the consumer is the one the controller holds
\* or the probe of the running turn: none is lost to an interleaving.
NoSessionLost ==
    \A s \in Sid : Live(s) => s = handle \/ \E c \in Call : turn[c].probe = s

\* The controller never asks the pool for a second session while it has one:
\* sessions open and sessions asked for are one at most.
OneSession ==
    Cardinality({s \in Sid : Live(s)})
      + Cardinality({c \in Call : turn[c].pc = "opening"}) <= 1

\* The mode the controller remembers for a reopen is the mode the session has.
ModeRemembered == Live(handle) => proxied = sess[handle].mode.proxied

\* A session with a restored login is known to be one, so that a navigation to
\* another host is refused before it can trip the guard.
LoginRemembered ==
    Live(handle) /\ sess[handle].mode.owner # NoHost
        => warmHost = sess[handle].mode.owner

\* What the controller remembers of its session is what the session is: its
\* exit for a reopen, and the owner of its restored login.
SessionRemembered == ModeRemembered /\ LoginRemembered

\* What a navigation downloads is recorded under the host of its own call.
CaptureHost ==
    \A c \in Call :
        turn[c].pc = "running" /\ turn[c].way \in NavigateWay
            => navHost = req[c].host

\* What the invariants above rest on.  A call that is past its place in the
\* queue is the first one; where its turn stands says whether the controller
\* holds a session; and before a first navigation lands nothing is committed.
Active(c) == turn[c].pc \notin {"idle", "queued"}

Locked == \A c \in Call : Active(c) => queue # <<>> /\ Head(queue) = c

Phases ==
    \A c \in Call :
        /\ turn[c].pc \in {"reopening", "opening", "discarding"} => handle = NoSid
        /\ turn[c].pc = "warming" => handle # NoSid /\ turn[c].way # "probe"
        /\ turn[c].pc = "running" => (turn[c].way = "probe" <=> handle = NoSid)
        /\ turn[c].probe # NoSid => turn[c].pc = "running" /\ turn[c].way = "probe"
        /\ Active(c) /\ turn[c].way \in NavigateWay => navHost = req[c].host
        /\ Active(c) /\ turn[c].way \in FirstWay => ~pinned

\* Every call comes back, however the calls before it ended.
CallsReturn == \A c \in Call : turn[c].pc = "queued" ~> turn[c].pc = "idle"

\* The step of call c gives the committed session up: by close(), or because
\* its navigation failed on it.
GivesUp(c) ==
    /\ turn'[c] # turn[c]
    /\ \/ req[c].verb = "close"
       \/ turn[c].way = "pinned" /\ turn'[c].last \in {"block", "terminal", "dead"}

\* The whole budget of a navigation went by in the queue.
TooLate(c) == turn[c].pc = "queued" /\ req[c].verb = "navigate" /\ budget[c] = "spent"

KeepsCommitted ==
    pinned /\ Live(handle) =>
        /\ handle' # handle => \E c \in Call : GivesUp(c)
        /\ \A c \in Call : TooLate(c) => turn'[c].pc \in {"queued", "idle"}

\* A committed session is never swapped under the page while it lives: only
\* close() gives it up, or a navigation that failed on it; a refusal by the
\* gateway's own guard is no such failure, and a navigation that is too late
\* never gets to the session, on which it could only fail.
CommittedKept == [][KeepsCommitted]_vars

\* "A session that was operating as logged-in must not silently become
\* anonymous" (comment on #ensureOpen): a committed navigation for the owner of
\* a restored login runs on a session with that login.
NeverSilentlyCold ==
    \A c \in Call :
        /\ turn[c].pc = "running" /\ turn[c].way = "pinned"
        /\ Live(handle) /\ warmHost = req[c].host
        => sess[handle].mode.owner = warmHost
=============================================================================
