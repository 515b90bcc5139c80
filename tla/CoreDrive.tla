----------------------------- MODULE CoreDrive -----------------------------
(***************************************************************************)
(* A consumer session of the browser core (browser/patchright-core.ts)     *)
(* behind the guard of the policy engine (policy/index.ts), and the drive  *)
(* verbs on its one persistent page.  The controller lets one verb in at a *)
(* time, but the page is not idle meanwhile: at every await its scripts    *)
(* may navigate or replace the CAPTCHA it shows.  A document request is    *)
(* decided by the guard hop by hop; what the page then shows is arbitrary. *)
(***************************************************************************)
EXTENDS PageSignals, Policy

CONSTANTS
    Site,      \* the places a document request may name
    Address,   \* the address of each: [http, host, path]
    OwnerHost, \* the host whose credentials a warm session carries
    WindowsHost,   \* suffixes of the hosts that must see a Windows browser
    Widget,    \* the CAPTCHA widgets a page may show: [kind, key, field]
    Mode       \* ways a session is opened: its guard, a solver, download capture

ASSUME SiteAssumption == DOMAIN Address = Site
ASSUME ModeAssumption ==
    Mode \subseteq [kind : {"cold", "warm", "probe"}, solver : BOOLEAN, capture : BOOLEAN]
ASSUME WidgetAssumption == \A w \in Widget : w.field \in {"absent", "empty", "filled"}

VARIABLES
    mode,      \* what the session was opened for, and its options
    phase,     \* the life of the session
    tab,       \* the active page as the browser has it, NoTab without one;
               \* history: doubt, a verb gave up on the identity it presents
    os,        \* #osMode and whether #liveUach was read
    dirty,     \* #captureDirty
    call,      \* the verb under way
    stash,     \* #pendingSolveOutcome, NoStash without one
    blocked,   \* #policyBlockedNav is set
    reply      \* what the last verb answered

coreVars == <<mode, phase, tab, os, dirty, call, stash, blocked, reply>>

NoWidget == [kind |-> None, key |-> "", field |-> "absent"]
NoTab == [site |-> None, widget |-> NoWidget, ua |-> "native", doubt |-> FALSE]
FreshTab == [NoTab EXCEPT !.site = "blank"]
Native == [mode |-> "native", baseline |-> FALSE]
NoStash == [reason |-> None, kind |-> None, key |-> "", site |-> None]
NoCall == [pc |-> "idle", op |-> None, site |-> None, again |-> FALSE, round |-> 1,
           kind |-> None, key |-> "", at |-> None]
NoReply == [said |-> None, policyBlocked |-> FALSE, solveReason |-> None]

\* Codes a failed solve leaves, the ones the core tells apart: a known one, or "error".
CoreSolveCodes == {"vendor-error", "error"}

CoreInit ==
    /\ mode \in Mode
    /\ phase = "launching" /\ tab = NoTab /\ os = Native /\ dirty = FALSE
    /\ call = NoCall /\ stash = NoStash /\ blocked = FALSE /\ reply = NoReply

(***************************************************************************)
(* Opening (Gateway.openConsumerSession).  Stored credentials are put into *)
(* the launched browser, or it is torn down; then the guard is installed,  *)
(* or the session is released.                                             *)
(***************************************************************************)
Launch ==
    /\ phase = "launching"
    /\ \/ phase' = "guarding"
       \/ mode.kind = "warm" /\ phase' = "closed"
    /\ UNCHANGED <<mode, tab, os, dirty, call, stash, blocked, reply>>

setNavigationGuard ==
    /\ phase = "guarding" /\ phase' \in {"ready", "closed"}
    /\ UNCHANGED <<mode, tab, os, dirty, call, stash, blocked, reply>>

(***************************************************************************)
(* A document request: the guard the session was opened with decides.      *)
(***************************************************************************)
guardBlocks(s) ==
    LET verdict == CASE mode.kind = "probe" -> guardForDiagnostics(Address[s])
                     [] mode.kind = "warm" -> guardForCredentialHost(Address[s], TRUE, OwnerHost)
                     [] mode.kind = "cold" -> guardFor(Address[s], TRUE)
    IN  verdict # "allow"

\* The interceptor blocks all once the core is closing, and is gone once it
\* has been detached.
requestBlocked(s) ==
    \/ phase = "closing"
    \/ phase = "ready" /\ guardBlocks(s)

\* A blocked document leaves the page where it was or on an error page.
RequestFails == \E s \in {tab.site, "error"} : tab' = [tab EXCEPT !.site = s]
Shows(s) == \E w \in Widget \cup {NoWidget} : tab' = [tab EXCEPT !.site = s, !.widget = w]

\* One document request of the main frame and the redirects it meets.
Request(s) ==
    \/ requestBlocked(s) /\ RequestFails /\ blocked' = TRUE
    \/ ~requestBlocked(s) /\ Shows(s) /\ blocked' = FALSE

Redirected(s) ==
    \/ Request(s)
    \/ ~requestBlocked(s) /\ \E r \in Site \ {s} : Request(r)

\* What the page does on its own while the core awaits.
PageActs ==
    /\ tab # NoTab /\ phase \in {"ready", "closing", "detached"}
    /\ \/ \E s \in Site : Request(s)
       \/ \E w \in Widget \cup {NoWidget} : tab' = [tab EXCEPT !.widget = w] /\ UNCHANGED blocked
    /\ UNCHANGED <<mode, phase, os, dirty, call, stash, reply>>

(***************************************************************************)
(* Verbs.  #requireCaptureReady refuses a core that captures downloads and *)
(* was left dirty; all but navigate need an open page.                     *)
(***************************************************************************)
At(pc) == call.pc = pc /\ phase \in {"ready", "closing", "detached"}
GoTo(pc) == call' = [call EXCEPT !.pc = pc]

EndVerb(said) ==
    /\ reply' = [NoReply EXCEPT !.said = said]
    /\ call' = NoCall

Unusable(op) == (dirty /\ mode.capture) \/ (op # "navigate" /\ tab = NoTab)

Enter(op, s) ==
    /\ call = NoCall /\ phase = "ready"
    /\ IF Unusable(op)
       THEN EndVerb("refused")
       ELSE /\ call' = [NoCall EXCEPT !.op = op, !.site = s,
                  !.pc = CASE op = "navigate" -> "page" [] op = "act" -> "act" [] OTHER -> "snap"]
            /\ reply' = NoReply
    /\ UNCHANGED <<mode, phase, tab, os, dirty, stash, blocked>>

\* #ensureActivePage: a new page is native; its clean identity is read only
\* when some site must see another one, and the read may fail.  A browser that
\* opens no page ends the verb.
ensureActivePage ==
    /\ At("page")
    /\ \/ tab # NoTab /\ GoTo("os") /\ UNCHANGED <<tab, os, blocked, reply>>
       \/ /\ tab = NoTab /\ tab' = FreshTab /\ blocked' = FALSE
          /\ \E read \in BOOLEAN :
                /\ read => WindowsHost # {}
                /\ os' = [Native EXCEPT !.baseline = read]
          /\ GoTo("os") /\ UNCHANGED reply
       \/ tab = NoTab /\ EndVerb("error") /\ UNCHANGED <<tab, os, blocked>>
    /\ UNCHANGED <<mode, phase, dirty, stash>>

wanted == IF hostMatchesAnySuffix(Address[call.site].host, WindowsHost) THEN "windows" ELSE "native"

\* The override is built from the identity the fresh page had.
Presents(ua) == [tab EXCEPT !.ua = ua]

\* Fault: a change of identity that failed is ignored.
SwallowsFailure ==
    /\ At("os")
    /\ \/ wanted = os.mode /\ GoTo("goto") /\ UNCHANGED <<tab, os, reply>>
       \/ /\ wanted # os.mode /\ os.baseline
          /\ tab' = Presents(wanted) /\ os' = [os EXCEPT !.mode = wanted]
          /\ GoTo("goto") /\ UNCHANGED reply
       \/ /\ wanted # os.mode /\ GoTo("goto") /\ UNCHANGED <<tab, os, reply>>
    /\ UNCHANGED <<mode, phase, dirty, stash, blocked>>

\* A change of identity that fails may still have reached the browser; the
\* first failure sends the verb to recreate the page, the second ends it.
applyOsMode ==
    /\ At("os")
    /\ \/ wanted = os.mode /\ GoTo("goto") /\ UNCHANGED <<tab, os, reply>>
       \/ /\ wanted # os.mode /\ os.baseline
          /\ tab' = Presents(wanted) /\ os' = [os EXCEPT !.mode = wanted]
          /\ GoTo("goto") /\ UNCHANGED reply
       \/ /\ wanted # os.mode
          /\ \E ua \in IF os.baseline THEN {tab.ua, wanted} ELSE {tab.ua} :
                tab' = [Presents(ua) EXCEPT !.doubt = call.again]
          /\ IF call.again THEN EndVerb("error") ELSE GoTo("recreate") /\ UNCHANGED reply
          /\ UNCHANGED os
    /\ UNCHANGED <<mode, phase, dirty, stash, blocked>>

closeActivePage ==
    /\ At("recreate")
    /\ \/ /\ tab' = NoTab /\ os' = Native
          /\ call' = [call EXCEPT !.pc = "page", !.again = TRUE]
          /\ UNCHANGED <<dirty, reply>>
       \/ /\ tab' = [tab EXCEPT !.doubt = TRUE] /\ dirty' = TRUE
          /\ EndVerb("error") /\ UNCHANGED os
    /\ UNCHANGED <<mode, phase, stash, blocked>>

\* page.goto, or an exit or a site that does not answer.
Navigates ==
    /\ At("goto") /\ call' = [NoCall EXCEPT !.pc = "settle", !.op = call.op]
    /\ \/ Redirected(call.site)
       \/ blocked' = FALSE /\ RequestFails
    /\ UNCHANGED <<mode, phase, os, dirty, stash, reply>>

\* The action itself: it does nothing to the main frame, it navigates, or it
\* fails.  A failed replay is ignored.
Acts ==
    /\ \/ At("act") /\ GoTo("settle")
       \/ At("act") /\ GoTo("snap")
       \/ At("replay") /\ call' = [call EXCEPT !.pc = "settle", !.round = 2]
    /\ \/ UNCHANGED <<tab, blocked>>
       \/ call'.pc = "settle" /\ \E s \in Site : Redirected(s)
    /\ UNCHANGED <<mode, phase, os, dirty, stash, reply>>

\* #settle: the page clears or the wait ends; past a navigate's deadline no
\* solve is tried.
settle ==
    /\ At("settle")
    /\ \/ GoTo("snap") /\ (call.op = "navigate" \/ ~mode.solver)
       \/ GoTo("detect") /\ mode.solver
    /\ UNCHANGED <<mode, phase, tab, os, dirty, stash, blocked, reply>>

(***************************************************************************)
(* #trySolveCaptcha: a widget that has rendered and whose answer is empty  *)
(* is solved; another one is not waited for beyond its render timeout.     *)
(***************************************************************************)
liveCaptchaToChallenge(w) == w.field = "empty" /\ w.key # ""
preAttemptSolveReason(w) ==
    CASE w.kind = None -> None
      [] w.kind # None /\ w.key = "" -> "missing-sitekey"
      [] OTHER -> IF w.field = "absent" THEN "timeout" ELSE None

awaitSolvableCaptcha ==
    /\ At("detect")
    /\ IF liveCaptchaToChallenge(tab.widget)
       THEN call' = [call EXCEPT !.pc = "solving", !.kind = tab.widget.kind,
                                 !.key = tab.widget.key, !.at = tab.site]
       ELSE GoTo("giveUp")
    /\ UNCHANGED <<mode, phase, tab, os, dirty, stash, blocked, reply>>

GivesUp ==
    /\ At("giveUp") /\ GoTo("snap")
    /\ LET reason == preAttemptSolveReason(tab.widget)
       IN  stash' = IF reason = None THEN stash
                    ELSE [NoStash EXCEPT !.reason = reason, !.kind = tab.widget.kind]
    /\ UNCHANGED <<mode, phase, tab, os, dirty, blocked, reply>>

SameWidget == tab.widget.key = call.key /\ tab.site = call.at

\* The solver fails: the page keeps the reason only while it still shows the
\* widget that was attempted.
SolveFails(code) ==
    /\ At("solving") /\ call' = [NoCall EXCEPT !.pc = "snap", !.op = call.op]
    /\ stash' = IF SameWidget /\ tab.widget.kind = call.kind
                THEN [reason |-> code, kind |-> call.kind, key |-> call.key, site |-> call.at]
                ELSE stash
    /\ UNCHANGED <<mode, phase, tab, os, dirty, blocked, reply>>

SolveSucceeds ==
    /\ At("solving")
    /\ GoTo(IF SameWidget THEN "inject" ELSE "snap")
    /\ UNCHANGED <<mode, phase, tab, os, dirty, stash, blocked, reply>>

Inject ==
    /\ At("inject") /\ GoTo("injected")
    /\ tab' = IF tab.widget.kind = call.kind
              THEN [tab EXCEPT !.widget.field = "filled"] ELSE tab
    /\ UNCHANGED <<mode, phase, os, dirty, stash, blocked, reply>>

\* A page that stalled gets its action once more; one that moved on does not.
AfterInject ==
    /\ At("injected")
    /\ \/ GoTo("snap")
       \/ GoTo("replay") /\ tab.site = call.at /\ call.op = "act" /\ call.round = 1
    /\ UNCHANGED <<mode, phase, tab, os, dirty, stash, blocked, reply>>

(***************************************************************************)
(* #snapshotOf: reads the page, and consumes what the verb left behind.    *)
(***************************************************************************)
identityMatches ==
    /\ stash # NoStash /\ stash.kind = tab.widget.kind
    /\ stash.site \in {None, tab.site} /\ stash.key \in {"", tab.widget.key}

resolveCaptchaSolveReason ==
    IF tab.widget.kind = None THEN None
    ELSE IF identityMatches THEN stash.reason
    ELSE IF ~mode.solver THEN "not-configured"
    ELSE IF isSolvableCaptchaKind(tab.widget.kind) THEN None ELSE "unsupported-kind"

Snapshot ==
    /\ At("snap") /\ call' = NoCall
    /\ reply' = [said |-> "page", policyBlocked |-> blocked, solveReason |-> resolveCaptchaSolveReason]
    /\ stash' = NoStash /\ blocked' = FALSE
    /\ UNCHANGED <<mode, phase, tab, os, dirty>>

(***************************************************************************)
(* close(), in the order of its awaits: block everything, detach the       *)
(* interceptor, close the context (and with it the verb under way).        *)
(***************************************************************************)
CloseCore ==
    /\ \/ phase = "ready" /\ phase' = "closing"
       \/ phase = "closing" /\ phase' = "detached"
    /\ UNCHANGED <<mode, tab, os, dirty, call, stash, blocked, reply>>

ContextCloses ==
    /\ phase = "detached" /\ phase' = "closed"
    /\ tab' = NoTab /\ stash' = NoStash
    /\ IF call = NoCall THEN UNCHANGED <<call, reply>> ELSE EndVerb("error")
    /\ UNCHANGED <<mode, os, dirty, blocked>>

CoreNext ==
    \/ Launch \/ setNavigationGuard \/ PageActs
    \/ \E s \in Site : Enter("navigate", s)
    \/ \E op \in {"act", "wait"} : Enter(op, None)
    \/ ensureActivePage \/ applyOsMode \/ closeActivePage \/ Navigates \/ Acts \/ settle
    \/ awaitSolvableCaptcha \/ GivesUp \/ SolveSucceeds \/ Inject \/ AfterInject \/ Snapshot
    \/ \E code \in CoreSolveCodes : SolveFails(code)
    \/ CloseCore \/ ContextCloses

-----------------------------------------------------------------------------
(***************************************************************************)
(* Properties.                                                             *)
(***************************************************************************)

(* The identity the browser really presents when a navigation starts is    *)
(* the one its target must see (patchright-core.ts:1311-1329), whatever    *)
(* identities earlier navigations of the page needed and whichever change  *)
(* failed half-way; the exception is a page kept after the verb gave up on *)
(* it (tab.doubt): it could not be closed, or its replacement failed too.  *)
GotoPresentsRightOs == At("goto") /\ ~tab.doubt => tab.ua = wanted

(* While credentials are in the browser and its interceptor attached, the  *)
(* page never shows another host than the owner's (policy/index.ts:        *)
(* 211-248): not by navigate, a redirect, an action, the page's own        *)
(* scripts, or a close that has begun.                                     *)
CredentialsStayHome ==
    mode.kind = "warm" /\ phase \in {"ready", "closing"} =>
        tab.site \in {None, "blank", "error"} \/ Address[tab.site].host = OwnerHost

=============================================================================
