------------------------------ MODULE Retrieve ------------------------------
(***************************************************************************)
(* One call of the retrieve tool: the handler of mcp/server.ts, retrieve() *)
(* of verbs/retrieve.ts, and the stages of render() in                     *)
(* browser/patchright-core.ts it awaits for each attempt.  The call        *)
(* renders the page directly (unless the proxy is forced), may hand a      *)
(* CAPTCHA to a solver, and re-renders through up to MaxAttempts fresh     *)
(* residential exits while the call's budget lasts; then it names the      *)
(* failure.  Time is counted in ticks from the start of the call.          *)
(***************************************************************************)
EXTENDS PageSignals

CONSTANTS
    Nav,            \* ways a navigation ends: [status, responded, policy, url]
    Body,           \* what the page then shows (the other fields of a page)
    Requested,      \* URLs the caller asks for
    MaxAttempts, CallBudget, MIN_ATTEMPT_BUDGET,   \* the call's limits
    NavTimeout, ClearanceTimeout, UnclearablePoll, \* the stages' limits
    OpenTime        \* bound: ticks the launch of a session takes, outside the deadline

ASSUME LimitsAssumption ==
    /\ MaxAttempts \in Nat \ {0} /\ CallBudget \in Nat \ {0} /\ OpenTime \in Nat
    /\ {MIN_ATTEMPT_BUDGET, NavTimeout, ClearanceTimeout, UnclearablePoll} \subseteq Nat
ASSUME NavAssumption == \A n \in Nav : n.status # NoStatus => n.responded

VARIABLES
    opts,      \* the caller's options and the process's configuration
    pc,        \* where the call stands
    now,       \* ticks since t0
    lane,      \* "direct" or "proxied": the exit of the render under way or last done
    nav,       \* the navigation the open page made
    held,      \* a pool session is held by this call
    render,    \* the last render, NoPage before the first
    lastLive,  \* lastLiveRender
    flags,     \* budgetExceeded, sawLive, captchaSolved, proxyUsed
    attempts,  \* proxyAttempts
    solve,     \* kind and reason of the solver's attempt
    result,    \* what the tool answered, NoResult before
    everLive   \* history: some proxied navigation reached the site

retrieveVars == <<opts, pc, now, lane, nav, held, render, lastLive, flags, attempts, solve, result, everLive>>

NoPage == [none |-> TRUE]
NoResult == [none |-> TRUE]
Page(n, b) ==
    [status |-> n.status, responded |-> n.responded, policy |-> n.policy, url |-> n.url,
     len |-> b.len, pad |-> b.pad, shown |-> b.shown, html |-> b.html, widget |-> b.widget,
     mention |-> b.mention, key |-> b.key, md |-> b.md, netFailed |-> b.netFailed]
\* The render a forced call surfaces when its budget ran out before any attempt.
placeholder ==
    Page([status |-> NoStatus, responded |-> FALSE, policy |-> FALSE, url |-> opts.url],
         [len |-> 0, pad |-> 0, shown |-> {}, html |-> {}, widget |-> None, mention |-> None,
          key |-> FALSE, md |-> 0, netFailed |-> FALSE])

Options == [url : Requested, forceProxy : BOOLEAN, proxy : BOOLEAN, onDatacenterIp : BOOLEAN,
            hostMayEscalate : BOOLEAN, solver : BOOLEAN]
SolveCodes == {"not-configured", "unsupported-kind", "missing-sitekey", "budget-exhausted",
               "vendor-error", "timeout"}
ArtifactOutcomes == {"none", "available", "inline-pdf-unsupported", "capture-failed"}

forced == opts.forceProxy /\ opts.proxy /\ opts.onDatacenterIp
escalation == [onDatacenterIp |-> opts.onDatacenterIp, proxyAvailable |-> opts.proxy,
               hostMayEscalate |-> opts.hostMayEscalate]
budgetLeft == CallBudget - now
Smaller(a, b) == IF a < b THEN a ELSE b
Larger(a, b) == IF a > b THEN a ELSE b

RetrieveInit ==
    /\ opts \in Options
    /\ pc = "idle" /\ now = 0 /\ lane = "direct" /\ held = FALSE
    /\ nav = (CHOOSE n \in Nav : TRUE)
    /\ render = NoPage /\ lastLive = NoPage /\ attempts = 0
    /\ flags = [budgetExceeded |-> FALSE, sawLive |-> FALSE, captchaSolved |-> FALSE,
                proxyUsed |-> FALSE]
    /\ solve = [kind |-> None, reason |-> None]
    /\ result = NoResult /\ everLive = FALSE

(***************************************************************************)
(* The tool's error path: the call rejects and the handler answers with    *)
(* an internal error.                                                      *)
(***************************************************************************)
Reject ==
    /\ pc' = "done" /\ held' = FALSE
    /\ result' = [error |-> "internal"]

Begin ==
    /\ pc = "idle"
    /\ \/ /\ opts.url.scheme # "http"
          /\ Reject
       \/ /\ opts.url.scheme = "http"
          /\ pc' = IF forced THEN "loop" ELSE "open"
          /\ UNCHANGED <<held, result>>
    /\ UNCHANGED <<opts, now, lane, nav, render, lastLive, flags, attempts, solve, everLive>>

(***************************************************************************)
(* renderInSession: the pool and the policy may refuse the session, and    *)
(* the launch is not bounded by the call's deadline.                       *)
(***************************************************************************)
OpenSession ==
    /\ pc = "open"
    /\ \/ /\ Reject
          /\ UNCHANGED now
       \/ /\ \E d \in 0..OpenTime : now' = now + d
          /\ held' = TRUE /\ pc' = "goto"
          /\ UNCHANGED result
    /\ UNCHANGED <<opts, lane, nav, render, lastLive, flags, attempts, solve, everLive>>

\* The goto is clamped to what is left of the budget, one tick at the least.
deadlineBoundedTimeout(raw, floor) == Larger(floor, Smaller(raw, budgetLeft))

Goto(n, d) ==
    /\ pc = "goto" /\ d \in 0..deadlineBoundedTimeout(NavTimeout, 1)
    /\ nav' = n /\ now' = now + d /\ pc' = "poll"
    /\ everLive' = (everLive \/ (lane = "proxied" /\ n.responded /\ n.url.scheme # "chrome-error"))
    /\ UNCHANGED <<opts, lane, held, render, lastLive, flags, attempts, solve, result>>

clearancePollLimit(p) ==
    IF p.policy THEN 0
    ELSE IF isTerminalUnclearableRender(p) THEN Smaller(ClearanceTimeout, UnclearablePoll)
    ELSE ClearanceTimeout

\* The clearance poll ends when the page clears, at its limit or at the
\* deadline; then the page is read.  (The page keeps its kind while it is
\* polled, and any wait up to the limit stands for an early clearance.)
PollAndSnapshot(b, d) ==
    /\ pc = "poll"
    /\ d \in 0..Smaller(clearancePollLimit(Page(nav, b)), Larger(0, budgetLeft))
    /\ now' = now + d /\ pc' = "close"
    /\ render' = Page(nav, b)
    /\ UNCHANGED <<opts, lane, nav, held, lastLive, flags, attempts, solve, result, everLive>>

\* A page that cannot be closed fails the render, and with it the call.
ClosePage ==
    /\ pc = "close"
    /\ \/ Reject
       \/ /\ held' = FALSE
          /\ pc' = IF lane = "direct" THEN "solve" ELSE "judge"
          /\ UNCHANGED result
    /\ UNCHANGED <<opts, now, lane, nav, render, lastLive, flags, attempts, solve, everLive>>

(***************************************************************************)
(* The solver hook of the direct render, and the escalation decision.      *)
(***************************************************************************)
Escalates == opts.proxy /\ shouldEscalateToProxy(render, escalation)

\* Entering the loop forgets the reason of an attempt on the direct page.
LeaveSolve(s) ==
    /\ pc' = IF Escalates THEN "loop" ELSE "surface"
    /\ solve' = IF Escalates THEN [s EXCEPT !.reason = None] ELSE s

SolveHook ==
    /\ pc = "solve"
    /\ LET captcha == detectCaptcha(render)
       IN  \/ /\ ~opts.solver \/ captcha.kind = None
              /\ LeaveSolve(solve) /\ UNCHANGED flags
           \/ /\ opts.solver /\ captcha.kind # None
              /\ LeaveSolve([kind |-> captcha.kind, reason |-> None])
              /\ flags' = [flags EXCEPT !.captchaSolved = TRUE]
           \/ /\ opts.solver /\ captcha.kind # None
              /\ \E code \in SolveCodes \cup {"error"} :
                     LeaveSolve([kind |-> captcha.kind, reason |-> code])
              /\ UNCHANGED flags
    /\ UNCHANGED <<opts, now, lane, nav, held, render, lastLive, attempts, result, everLive>>

\* Head of the loop: attempts and budget, then a session on a fresh exit.
LoopHead ==
    /\ pc = "loop"
    /\ \/ /\ attempts = MaxAttempts
          /\ pc' = "surface"
          /\ UNCHANGED <<flags, attempts, lane>>
       \/ /\ attempts < MaxAttempts /\ budgetLeft <= MIN_ATTEMPT_BUDGET
          /\ flags' = [flags EXCEPT !.budgetExceeded = TRUE]
          /\ pc' = "surface"
          /\ UNCHANGED <<attempts, lane>>
       \/ /\ attempts < MaxAttempts /\ budgetLeft > MIN_ATTEMPT_BUDGET
          /\ flags' = [flags EXCEPT !.proxyUsed = TRUE]
          /\ attempts' = attempts + 1 /\ lane' = "proxied" /\ pc' = "open"
    /\ UNCHANGED <<opts, now, nav, held, render, lastLive, solve, result, everLive>>

reachedSite(p) == ~isDeadExit(p)
\* Fault: the stop does not ask whether this exit reached the site at all.
StopsOnStale(p) ==
    isTerminalUnclearableRender(p) \/ (~opts.solver /\ resolveBlockReason(p) = "captcha")

noExitClears(p) ==
    reachedSite(p) /\ (isTerminalUnclearableRender(p) \/ (~opts.solver /\ resolveBlockReason(p) = "captcha"))

\* Fault: only an exit that got a status counts as one that reached the site.
JudgeByStatus ==
    /\ pc = "judge"
    /\ \/ /\ render.policy \/ ~blockedRender(render)
          /\ pc' = "surface" /\ UNCHANGED <<flags, lastLive>>
       \/ /\ ~render.policy /\ blockedRender(render)
          /\ IF render.status # NoStatus /\ ~isChromeErrorUrl(render)
             THEN flags' = [flags EXCEPT !.sawLive = TRUE] /\ lastLive' = render
             ELSE UNCHANGED <<flags, lastLive>>
          /\ pc' = IF noExitClears(render) THEN "surface" ELSE "loop"
    /\ UNCHANGED <<opts, now, lane, nav, held, render, attempts, solve, result, everLive>>

Judge ==
    /\ pc = "judge"
    /\ \/ /\ render.policy \/ ~blockedRender(render)
          /\ pc' = "surface" /\ UNCHANGED <<flags, lastLive>>
       \/ /\ ~render.policy /\ blockedRender(render)
          /\ IF reachedSite(render)
             THEN flags' = [flags EXCEPT !.sawLive = TRUE] /\ lastLive' = render
             ELSE UNCHANGED <<flags, lastLive>>
          /\ pc' = IF noExitClears(render) THEN "surface" ELSE "loop"
    /\ UNCHANGED <<opts, now, lane, nav, held, render, attempts, solve, result, everLive>>

(***************************************************************************)
(* The verdict on the surfaced render, and the tool's answer.              *)
(***************************************************************************)
surfaced ==
    IF render = NoPage THEN placeholder
    ELSE IF /\ ~flags.budgetExceeded /\ ~render.policy /\ lastLive # NoPage
            /\ render.status = NoStatus \/ isChromeErrorUrl(render)
         THEN lastLive ELSE render

overBudget == flags.budgetExceeded \/ now >= CallBudget
burnedExit(p) ==
    flags.proxyUsed /\ ~forced /\ ~overBudget /\ isDeadExit(p) /\ ~flags.sawLive

failureClass(p) ==
    IF isRetrieveFailure(p)
    THEN finalFailureClass(IF burnedExit(p) THEN "burned-exit" ELSE classifyFailure(p), overBudget)
    ELSE None

blockReason(p) ==
    IF (overBudget \/ burnedExit(p)) /\ failureClass(p) \notin DECISIVE_FAILURE_CLASSES THEN None
    ELSE IF blockedRender(p) THEN resolveFailureReason(p) ELSE None

captchaSolveReason(p) ==
    IF ~isRetrieveFailure(p) \/ activeCaptchaKind(p) = None THEN None
    ELSE IF solve.reason # None /\ solve.kind = activeCaptchaKind(p) THEN solve.reason
    ELSE IF opts.solver THEN None ELSE "not-configured"

retrieveResult(p) ==
    [page |-> p, blocked |-> blockedRender(p), failed |-> isRetrieveFailure(p),
     reason |-> blockReason(p), failureClass |-> failureClass(p),
     wafVendor |-> wafVendorFromFailure(failureClass(p), p),
     captchaSolveReason |-> captchaSolveReason(p), budgetExhausted |-> overBudget,
     homeFallback |-> isHomeFallback(opts.url, p.url)]

\* The handler: a captured artifact answers for the page, a failed capture
\* or an unusable page is an in-band error that says why.
toolReply(r, artifact) ==
    IF artifact = "available" THEN [ok |-> TRUE, artifact |-> artifact]
    ELSE IF artifact # "none" THEN [ok |-> FALSE, why |-> artifact]
    ELSE IF r.failed
         THEN [ok |-> FALSE, why |-> IF r.reason # None THEN r.reason
                                     ELSE IF r.failureClass # None THEN r.failureClass
                                     ELSE "empty-content"]
         ELSE [ok |-> TRUE, artifact |-> "none"]

Surface(artifact) ==
    /\ pc = "surface"
    /\ LET r == retrieveResult(surfaced)
       IN  result' = [verdict |-> r, reply |-> toolReply(r, artifact)]
    /\ render' = surfaced /\ pc' = "done"
    /\ UNCHANGED <<opts, now, lane, nav, held, lastLive, flags, attempts, solve, everLive>>

RetrieveNext ==
    \/ Begin \/ OpenSession \/ ClosePage \/ SolveHook \/ LoopHead \/ Judge
    \/ \E n \in Nav, d \in 0..Larger(1, NavTimeout) : Goto(n, d)
    \/ \E b \in Body, d \in 0..ClearanceTimeout : PollAndSnapshot(b, d)
    \/ \E a \in ArtifactOutcomes : Surface(a)

-----------------------------------------------------------------------------
(***************************************************************************)
(* Properties.                                                             *)
(***************************************************************************)
Answered == "verdict" \in DOMAIN result

(* The failure a caller is told is the failure that happened               *)
(* (retrieve.ts:1144-1305).  burned-exit is said only when every exit was  *)
(* spent and none reached the site; a site's answer on one exit is not     *)
(* erased by a later dead exit while budget remains; the gateway's own     *)
(* refusal to navigate is never blamed on the site, the exit or the clock; *)
(* every failure is named; and a solver's error code is quoted only for    *)
(* the page the solver was asked about.                                    *)
VerdictHonest ==
    Answered =>
        LET r == result.verdict
        IN  /\ r.failureClass = "burned-exit" => attempts = MaxAttempts /\ ~everLive
            /\ everLive /\ ~r.budgetExhausted => ~isDeadExit(r.page)
            /\ r.failed /\ r.page.policy => r.failureClass = "policy-blocked"
            /\ r.failed => r.reason # None \/ r.failureClass # None
            /\ r.captchaSolveReason \in SolveCodes \ {"not-configured"} => lane = "direct"

(* A residential exit is never spent in vain (retrieve.ts:1044-1141): no   *)
(* attempt starts after the budget ran down, or after a proxied render     *)
(* that was usable, that the gateway itself refused, or that reached the   *)
(* site and no other exit could have changed; and an exit that never       *)
(* reached the site is no reason to stop while attempts and budget last.   *)
ExitsWellSpent ==
    [][/\ attempts' > attempts =>
              /\ budgetLeft > MIN_ATTEMPT_BUDGET
              /\ lane = "proxied" =>
                     /\ blockedRender(render) /\ ~render.policy
                     /\ ~(render.responded /\ ~isChromeErrorUrl(render)
                            /\ (isTerminalUnclearableRender(render)
                                  \/ (resolveBlockReason(render) = "captcha" /\ ~opts.solver)))
       /\ pc = "judge" /\ pc' = "surface" => ~isDeadExit(render)]_retrieveVars
=============================================================================
