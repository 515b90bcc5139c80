---------------------------- MODULE PageSignals ----------------------------
(***************************************************************************)
(* The pure decisions taken on a rendered page: what the detectors of      *)
(* browser/detect.ts and browser/captcha.ts see, what                      *)
(* verbs/escalation.ts makes of it, and how verbs/retrieve.ts and          *)
(* observability/failure-diagnostics.ts name a failure.  A page is         *)
(* abstracted to what these functions can tell apart:                      *)
(*   status, responded, policy, url   how the navigation ended; a URL is   *)
(*              its scheme, host, path (root, index or deep) and whether it  *)
(*              carries a query key other than tracking, or a fragment       *)
(*   len, pad   length of the trimmed text and of the blanks around it     *)
(*   shown      kinds of phrase in the visible title and text              *)
(*   html       kinds of marker in the markup (the child frames' included) *)
(*   widget     the live CAPTCHA widget in the markup                      *)
(*   mention    the CAPTCHA vendor the markup merely mentions              *)
(*   key        the markup carries a data-sitekey                          *)
(*   md, netFailed   length of the markdown; a genuine failed load         *)
(***************************************************************************)
EXTENDS Integers, FiniteSets

NoStatus == 0
None == "none"

MIN_CONTENT_LENGTH == 200
STRONG_CONTENT_LENGTH == 800
UNCLEARABLE_STATUSES == {404, 410, 429}
CaptchaKinds == {"recaptcha", "hcaptcha", "turnstile"}
DECISIVE_FAILURE_CLASSES == {"rate-limited", "captcha", "policy-blocked"}

(***************************************************************************)
(* browser/detect.ts.  BLOCK_PHRASES is the Cloudflare phrases and the     *)
(* generic ones; the PerimeterX phrases are not among them.                *)
(***************************************************************************)
isVisiblyBlocked(p) == p.shown \cap {"cf", "generic"} # {}
isCloudflareVisible(p) == "cf" \in p.shown
isPerimeterXVisible(p) == "px" \in p.shown
hasHint(p, vendor) == vendor \in p.html
hasFrameworkRoot(p) == "root" \in p.html
hasPxChallengeCopy(p) == "pxCopy" \in p.html
isPerimeterXChallenge(p) == hasHint(p, "px") /\ p.len < MIN_CONTENT_LENGTH
isHardBlock(p) == p.status # NoStatus /\ p.status >= 400 /\ p.len < MIN_CONTENT_LENGTH
isUnclearableStatus(p) == p.status \in UNCLEARABLE_STATUSES
isExitClearableHardBlock(p) == isHardBlock(p) /\ ~isUnclearableStatus(p)
isTerminalUnclearableRender(p) == isUnclearableStatus(p) /\ ~isCloudflareVisible(p)
\* assess() measures the text as it is, the other detectors trim it first.
assessBlocked(p) == isVisiblyBlocked(p) \/ p.len + p.pad < MIN_CONTENT_LENGTH
isCleared(p, minTextLength) == ~isVisiblyBlocked(p) /\ p.len > minTextLength

\* browser/captcha.ts: a live widget is evidence, a mention only a reason to try.
activeCaptchaKind(p) == p.widget
isSolvableCaptchaKind(kind) == kind \in CaptchaKinds
detectCaptcha(p) == IF p.mention # None THEN [kind |-> p.mention, key |-> p.key]
                                        ELSE [kind |-> None, key |-> FALSE]

(***************************************************************************)
(* verbs/escalation.ts: may this block be retried on a residential exit?   *)
(***************************************************************************)
isCloudflareBlock(p) ==
    assessBlocked(p) /\ (isCloudflareVisible(p) \/ hasHint(p, "cf"))

shouldEscalateToProxy(p, ctx) ==
    /\ ctx.onDatacenterIp /\ ctx.proxyAvailable /\ ctx.hostMayEscalate
    /\ \/ isCloudflareBlock(p) /\ ~isTerminalUnclearableRender(p)
       \/ isExitClearableHardBlock(p)

(***************************************************************************)
(* verbs/retrieve.ts: the typed reason of a block.                         *)
(***************************************************************************)
isChromeErrorUrl(p) == p.url.scheme = "chrome-error"

\* The site answered a deep request with its bare home page.
isHomeFallback(req, fin) ==
    /\ req.scheme = "http" /\ fin.scheme = "http" /\ req.host = fin.host
    /\ fin.path = "root" /\ ~fin.hash /\ ~fin.intent
    /\ req.path = "deep" \/ req.intent

pxChallenge(p) ==
    isPerimeterXChallenge(p) \/ (hasHint(p, "px") /\ hasPxChallengeCopy(p))

classifyBlock(p) ==
    IF ~(p.status = NoStatus \/ isVisiblyBlocked(p) \/ pxChallenge(p) \/ isHardBlock(p)) THEN None
    ELSE IF p.status = NoStatus THEN "nav-failed"
    ELSE IF isCloudflareVisible(p) \/ hasHint(p, "cf") THEN "cf-challenge"
    ELSE IF isPerimeterXVisible(p) \/ hasHint(p, "px") THEN "perimeterx-challenge"
    ELSE IF hasHint(p, "dd") THEN "datadome-challenge"
    ELSE IF p.status = 429 /\ isHardBlock(p) THEN "rate-limited"
    ELSE IF isHardBlock(p) THEN "hard-block"
    ELSE "blocked"

resolveBlockReason(p) ==
    IF activeCaptchaKind(p) # None /\ classifyBlock(p) \in {"hard-block", "blocked"}
    THEN "captcha" ELSE classifyBlock(p)

resolveFailureReason(p) ==
    IF p.policy THEN "policy-blocked"
    ELSE IF isChromeErrorUrl(p) THEN "nav-failed" ELSE resolveBlockReason(p)

\* The exit never reached the site: no main-document response at all, or
\* Chromium's own error page; a navigation the guard refused says nothing of it.
isDeadExit(p) == ~p.policy /\ (~p.responded \/ isChromeErrorUrl(p))

classifyFailure(p) ==
    LET reason == resolveFailureReason(p)
    IN  CASE reason \in {"policy-blocked", "nav-failed", "captcha", "rate-limited", "hard-block"}
               -> reason
          [] reason \in {"cf-challenge", "perimeterx-challenge", "datadome-challenge", "blocked"}
               -> "anti-bot-block"
          [] reason = None ->
               IF "oldBrowser" \in p.shown THEN "unsupported-browser"
               ELSE IF p.len >= MIN_CONTENT_LENGTH THEN "empty-shell"
               ELSE IF "emptyState" \in p.shown THEN "real-zero-results"
               ELSE IF hasFrameworkRoot(p) /\ p.netFailed THEN "hydration-failed"
               ELSE "empty-shell"

wafVendorFromReason(reason, kind) ==
    CASE reason = "cf-challenge" -> "cloudflare"
      [] reason = "perimeterx-challenge" -> "perimeterx"
      [] reason = "datadome-challenge" -> "datadome"
      [] reason = "captcha" -> kind
      [] OTHER -> None

wafVendorFromFailure(fc, p) ==
    CASE fc = "captcha" -> activeCaptchaKind(p)
      [] fc = "anti-bot-block" -> wafVendorFromReason(resolveBlockReason(p), activeCaptchaKind(p))
      [] OTHER -> None

\* observability/failure-diagnostics.ts: what the budget may rename.
finalFailureClass(root, budgetExceeded) ==
    IF budgetExceeded /\ root \notin DECISIVE_FAILURE_CLASSES THEN "timeout" ELSE root

\* The predicate by which the loop stops and the result is marked blocked.
blockedRender(p) ==
    \/ p.status = NoStatus \/ isChromeErrorUrl(p)
    \/ isVisiblyBlocked(p) \/ pxChallenge(p) \/ isHardBlock(p)

isRetrieveFailure(p) ==
    blockedRender(p) \/ p.md = 0 \/ (p.status = NoStatus /\ p.md < MIN_CONTENT_LENGTH)
=============================================================================
