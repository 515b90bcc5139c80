---------------------------- MODULE MCToolCalls ----------------------------
(* Values of the constants of ToolCalls for TLC. *)
EXTENDS ToolCalls

(***************************************************************************)
(* Retrieve: navigations and pages, one of each sort the detectors know.   *)
(***************************************************************************)
Url(scheme, path) == [scheme |-> scheme, host |-> "h", path |-> path, intent |-> FALSE, hash |-> FALSE]
MCRequested == {Url("http", "deep"), Url("other", "root")}

Ends(status, responded, policy, url) ==
    [status |-> status, responded |-> responded, policy |-> policy, url |-> url]
MCNav ==
    {Ends(s, TRUE, FALSE, Url("http", "deep")) : s \in {200, 403, 429, NoStatus}} \cup
    {Ends(200, TRUE, FALSE, Url("http", "root")),            \* the bare home page
     Ends(404, TRUE, FALSE, Url("chrome-error", "root")),    \* an error page after a response
     Ends(NoStatus, FALSE, FALSE, Url("chrome-error", "root")),  \* a dead exit
     Ends(NoStatus, FALSE, TRUE, Url("http", "deep")),       \* refused by our own guard
     Ends(200, TRUE, TRUE, Url("http", "deep"))}             \* refused after a response

Shown(len, shown, html, widget, md) ==
    [len |-> len, pad |-> 0, shown |-> shown, html |-> html, widget |-> widget,
     mention |-> widget, key |-> widget # None, md |-> md, netFailed |-> FALSE]
MCBody ==
    {Shown(900, {}, {}, None, 900),                           \* an article
     [Shown(50, {"cf"}, {"cf"}, None, 50) EXCEPT !.pad = 200],  \* a Cloudflare interstitial
     Shown(50, {"px"}, {"px", "pxCopy"}, None, 0),            \* a PerimeterX challenge
     Shown(50, {}, {}, "recaptcha", 50),                      \* a CAPTCHA
     [Shown(900, {}, {"cf"}, None, 900) EXCEPT !.mention = "hcaptcha"],  \* an article naming both
     [Shown(0, {}, {"root"}, None, 0) EXCEPT !.netFailed = TRUE]}        \* an app that did not load

MCProvider == <<"brave", "brave2">>

(***************************************************************************)
(* Drive: the owner's host is on the Windows list, the shop is not, and    *)
(* the owner's sign-up page is beyond the origination boundary.            *)
(***************************************************************************)
MCAddress ==
    [s \in Site |->
        [http |-> TRUE, host |-> IF s = "shop" THEN <<"shop", "com">> ELSE <<"www", "bank", "com">>,
         path |-> [word |-> IF s = "join" THEN "signup" ELSE "home", depth |-> 1, params |-> TRUE]]]
MCAllowRule == {[kind |-> "exact", host |-> <<"bank", "com">>], [kind |-> "suffix", host |-> <<"com">>]}
MCOwnerHost == <<"www", "bank", "com">>
MCProbeHost == {<<"shop", "com">>}
MCWindowsHost == {<<"bank", "com">>}
MCWidget ==
    {[kind |-> "recaptcha", key |-> "k1", field |-> "empty"],
     [kind |-> "recaptcha", key |-> "k2", field |-> "absent"],
     [kind |-> "hcaptcha", key |-> "", field |-> "empty"]}
MCMode ==
    {[kind |-> "cold", solver |-> TRUE, capture |-> FALSE],
     [kind |-> "warm", solver |-> TRUE, capture |-> TRUE],
     [kind |-> "probe", solver |-> FALSE, capture |-> FALSE]}
=============================================================================
