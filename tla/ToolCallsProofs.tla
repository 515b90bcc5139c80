-------------------------- MODULE ToolCallsProofs --------------------------
(***************************************************************************)
(* Proofs about ToolCalls: the search router, the drive verbs of the       *)
(* browser core, the retrieve call and the CAPTCHA solver.  Each has an    *)
(* inductive invariant over its own next-state relation; a step of         *)
(* ToolCalls is a step of one of them and leaves the others as they are.   *)
(***************************************************************************)
EXTENDS ToolCalls, FiniteSetTheorems, TLAPS

-----------------------------------------------------------------------------
(* The search router. *)

BreakerState ==
    [state : {"closed", "open", "half-open"}, failures : Nat, cooled : BOOLEAN]

\* The fields of a search its breakers depend on; the other ones are free.
SearchShape(q) ==
    /\ DOMAIN q = DOMAIN Idle
    /\ q.pc \in {"idle", "choose", "asking", "done"} /\ q.at \in 1..Len(Provider)

Probes ==
    /\ breaker \in [Names -> BreakerState]
    /\ DOMAIN search = Search /\ \A s \in Search : SearchShape(search[s])
    /\ ProbeUnderWay

LEMMA Recorded ==
    ASSUME NEW b \in BreakerState, NEW code
    PROVE  recordFailure(b, code) \in BreakerState
           /\ recordFailure(b, code).state # "half-open"
<1>1. Closed \in BreakerState /\ Closed.state = "closed"
  BY DEF Closed, BreakerState
<1>2. Open \in BreakerState /\ Open.state = "open"
  BY DEF Open, BreakerState
<1> DEFINE c == [b EXCEPT !.failures = @ + 1]
<1>3. c \in BreakerState /\ c.state = b.state
  BY DEF BreakerState
<1>4. recordFailure(b, code) \in {b, Closed, Open, c}
      /\ (recordFailure(b, code) \in {b, c} => b.state # "half-open" \/ recordFailure(b, code) \in {Closed, Open})
  BY <1>1, <1>2, <1>3 DEF recordFailure
<1> HIDE DEF c
<1> QED BY <1>1, <1>2, <1>3, <1>4

LEMMA IdleShape ==
    /\ SearchShape(Idle) /\ Idle.pc = "idle"
    /\ LET q == [Idle EXCEPT !.pc = "choose"] IN SearchShape(q) /\ q.pc = "choose"
<1>1. 1 \in 1..Len(Provider)
  BY RouterAssumption
<1> QED BY <1>1 DEF Idle, SearchShape

LEMMA DoneShape ==
    ASSUME NEW f, NEW a
    PROVE  LET q == [Idle EXCEPT !.pc = "done", !.first = f, !.answer = a]
           IN  SearchShape(q) /\ q.pc = "done"
<1>1. 1 \in 1..Len(Provider)
  BY RouterAssumption
<1> QED BY <1>1 DEF Idle, SearchShape

LEMMA Finished == \A q : SearchShape(Finish(q)) /\ Finish(q).pc = "done"
<1> SUFFICES ASSUME NEW q PROVE SearchShape(Finish(q)) /\ Finish(q).pc = "done"
  OBVIOUS
<1> DEFINE a == IF q.emptyFrom # "" THEN <<"empty", q.emptyFrom>>
                ELSE <<"failed", finalClass(q)>>
           f == q.first
<1>1. Finish(q) = [Idle EXCEPT !.pc = "done", !.first = f, !.answer = a]
  BY DEF Finish
<1>2. 1 \in 1..Len(Provider)
  BY RouterAssumption
<1> HIDE DEF a, f
<1> QED BY <1>1, <1>2 DEF Idle, SearchShape

LEMMA Advanced ==
    ASSUME NEW q, SearchShape(q)
    PROVE  SearchShape(Advance(q)) /\ Advance(q).pc # "asking"
<1>1. SearchShape(Finish(q)) /\ Finish(q).pc = "done"
  BY Finished
<1> DEFINE r == [q EXCEPT !.at = @ + 1, !.pc = "choose", !.retried = FALSE]
<1>2. ASSUME q.at # Len(Provider) PROVE SearchShape(r) /\ r.pc = "choose"
  <2>1. q.at + 1 \in 1..Len(Provider)
    BY <1>2, RouterAssumption DEF SearchShape
  <2>2. DOMAIN r = DOMAIN q /\ r.pc = "choose" /\ r.at = q.at + 1
    BY DEF SearchShape, Idle
  <2> QED BY <2>1, <2>2 DEF SearchShape
<1> HIDE DEF r
<1> QED BY <1>1, <1>2 DEF Advance, r

\* A search that was not asking moves to another place where it is not.
LEMMA QuietMove ==
    ASSUME Probes, NEW s \in Search, search[s].pc # "asking", NEW q, SearchShape(q),
           search' = [search EXCEPT ![s] = q], breaker' = breaker
    PROVE  Probes'
BY DEF Probes, ProbeUnderWay

\* A search that was asking reports on the provider, whose breaker is not
\* half-open any more.
LEMMA Reports ==
    ASSUME Probes, NEW s \in Search, NEW p \in Names, Provider[search[s].at] = p,
           NEW q, SearchShape(q), NEW b \in BreakerState, b.state # "half-open",
           search' = [search EXCEPT ![s] = q], breaker' = [breaker EXCEPT ![p] = b]
    PROVE  Probes'
<1> USE DEF Probes
<1>1. /\ search'[s] = q /\ DOMAIN search' = Search
      /\ \A t \in Search : t # s => search'[t] = search[t]
  OBVIOUS
<1>2. /\ breaker' \in [Names -> BreakerState] /\ breaker'[p] = b
      /\ \A k \in Names : k # p => breaker'[k] = breaker[k]
  OBVIOUS
<1>3. ASSUME NEW k \in Names, breaker'[k].state = "half-open"
      PROVE  \E t \in Search : search'[t].pc = "asking" /\ Provider[search'[t].at] = k
  <2>1. k # p /\ breaker[k].state = "half-open"
    BY <1>2, <1>3
  <2>2. PICK t \in Search : search[t].pc = "asking" /\ Provider[search[t].at] = k
    BY <2>1 DEF ProbeUnderWay
  <2>3. t # s
    BY <2>1, <2>2
  <2> QED BY <1>1, <2>2, <2>3
<1> QED BY <1>1, <1>2, <1>3 DEF ProbeUnderWay

\* One search moves, and one breaker at most: the one of a provider it asks
\* or stops asking.
LEMMA ProbesStep ==
    ASSUME Probes, [SearchNext]_searchVars
    PROVE  Probes'
<1> USE DEF Probes
<1>0. \A s \in Search : Provider[search[s].at] \in Names
  BY DEF SearchShape, Names
<1>CoolDown. ASSUME NEW p \in Names, CoolDown(p)
             PROVE  Probes'
  <2> DEFINE b == [breaker[p] EXCEPT !.cooled = TRUE]
  <2>1. b \in BreakerState /\ b.state = "open"
    BY <1>CoolDown DEF CoolDown, BreakerState
  <2>2. breaker' = [breaker EXCEPT ![p] = b] /\ search' = search
    BY <1>CoolDown DEF CoolDown
  <2> HIDE DEF b
  <2> QED BY <2>1, <2>2 DEF ProbeUnderWay
<1>StartSearch. ASSUME NEW s \in Search, StartSearch(s)
                PROVE  Probes'
  <2> DEFINE q == [Idle EXCEPT !.pc = "choose"]
  <2>1. SearchShape(q) /\ q.pc = "choose"
    BY IdleShape
  <2>2. /\ search[s].pc # "asking" /\ breaker' = breaker
        /\ search' = [search EXCEPT ![s] = q]
    BY <1>StartSearch DEF StartSearch
  <2> HIDE DEF q
  <2> QED BY <2>1, <2>2, QuietMove
<1>Choose. ASSUME NEW s \in Search, Choose(s)
           PROVE  Probes'
  <2> DEFINE q == search[s]
             p == Provider[q.at]
             b == breaker[p]
             skip == ~admit(b) /\ (q.at < Len(Provider) \/ q.first # ""
                                     \/ b.state = "half-open")
             f == IF q.first = "" THEN p ELSE q.first
             r == [q EXCEPT !.pc = "asking", !.first = f]
  <2>1. search[s].pc = "choose" /\ SearchShape(q) /\ p \in Names
    BY <1>Choose, <1>0 DEF Choose
  <2>2. CASE /\ search' = [search EXCEPT ![s] = Finish([q EXCEPT !.cut = TRUE])]
             /\ UNCHANGED breaker
    <3> DEFINE t == Finish([q EXCEPT !.cut = TRUE])
    <3>1. SearchShape(t) /\ t.pc = "done"
      BY Finished
    <3> HIDE DEF t
    <3> QED BY <2>1, <2>2, <3>1, QuietMove DEF t
  <2>3. CASE search' = [search EXCEPT ![s] = Advance(q)] /\ UNCHANGED breaker
    BY <2>1, <2>3, Advanced, QuietMove
  <2>4. CASE /\ search' = [search EXCEPT ![s] = r]
             /\ breaker' = IF b.state = "open" /\ b.cooled
                           THEN [breaker EXCEPT ![p] = HalfOpen] ELSE breaker
    <3>1. SearchShape(r) /\ r.pc = "asking" /\ r.at = q.at
      BY <2>1 DEF SearchShape, Idle
    <3>2. HalfOpen \in BreakerState
      BY DEF HalfOpen, BreakerState
    <3>3. /\ search'[s] = r /\ DOMAIN search' = Search
          /\ \A t \in Search : t # s => search'[t] = search[t]
      BY <2>4
    <3>4. breaker' \in [Names -> BreakerState]
      BY <2>1, <2>4, <3>2
    <3>5. \A k \in Names : k # p => breaker'[k] = breaker[k]
      BY <2>1, <2>4
    <3>6. \A t \in Search : SearchShape(search'[t])
      BY <3>1, <3>3
    <3>7. ProbeUnderWay'
      <4> SUFFICES ASSUME NEW k \in Names, breaker'[k].state = "half-open"
                   PROVE  \E t \in Search : search'[t].pc = "asking"
                                              /\ Provider[search'[t].at] = k
        BY DEF ProbeUnderWay
      <4>1. CASE k = p
        BY <3>1, <3>3, <4>1
      <4>2. CASE k # p
        <5>1. PICK t \in Search : search[t].pc = "asking" /\ Provider[search[t].at] = k
          BY <3>5, <4>2 DEF ProbeUnderWay
        <5>2. t # s
          BY <2>1, <5>1
        <5> QED BY <3>3, <5>1, <5>2
      <4> QED BY <4>1, <4>2
    <3> QED BY <3>3, <3>4, <3>6, <3>7
  <2> QED BY <1>Choose, <2>2, <2>3, <2>4 DEF Choose
<1>Attempt. ASSUME NEW s \in Search, NEW answer \in Answer, Attempt(s, answer)
            PROVE  Probes'
  <2> DEFINE q == search[s]
             p == Provider[q.at]
             code == braveSearch(answer)
             failed == [q EXCEPT !.codes = Append(@, code)]
             empty == [q EXCEPT !.emptyFrom = IF @ = "" THEN p ELSE @]
  <2>1. q.pc = "asking" /\ SearchShape(q) /\ p \in Names
    BY <1>Attempt, <1>0 DEF Attempt
  <2>2. Closed \in BreakerState /\ Closed.state = "closed"
    BY DEF Closed, BreakerState
  <2>3. /\ SearchShape(failed) /\ failed.pc = "asking" /\ failed.at = q.at
        /\ SearchShape(empty)
    BY <2>1 DEF SearchShape, Idle
  <2>4. /\ recordFailure(breaker[p], code) \in BreakerState
        /\ recordFailure(breaker[p], code).state # "half-open"
    BY <2>1, Recorded
  <2>5. CASE /\ breaker' = [breaker EXCEPT ![p] = Closed]
             /\ search' = [search EXCEPT ![s] = [Idle EXCEPT !.pc = "done",
                                  !.first = q.first, !.answer = <<"ok", p>>]]
    <3> DEFINE a == <<"ok", p>>
               t == [Idle EXCEPT !.pc = "done", !.first = q.first, !.answer = a]
    <3>1. SearchShape(t)
      BY DoneShape
    <3>2. search' = [search EXCEPT ![s] = t]
      BY <2>5
    <3> HIDE DEF t, q
    <3> QED BY <2>1, <2>2, <2>5, <3>1, <3>2, Reports DEF q
  <2>6. CASE /\ breaker' = [breaker EXCEPT ![p] = recordFailure(@, code)]
             /\ search' = [search EXCEPT ![s] = Advance(empty)]
    <3> DEFINE t == Advance(empty)
               b == recordFailure(breaker[p], code)
    <3>1. SearchShape(t)
      BY <2>3, Advanced
    <3>2. search' = [search EXCEPT ![s] = t] /\ breaker' = [breaker EXCEPT ![p] = b]
      BY <2>6
    <3> HIDE DEF t, b, q
    <3> QED BY <2>1, <2>4, <3>1, <3>2, Reports DEF q, b
  <2>7. CASE /\ search' = [search EXCEPT ![s] = [failed EXCEPT !.retried = TRUE]]
             /\ UNCHANGED breaker
    <3> DEFINE t == [failed EXCEPT !.retried = TRUE]
    <3>1. SearchShape(t) /\ t.pc = "asking" /\ t.at = q.at
      BY <2>3 DEF SearchShape, Idle
    <3> HIDE DEF t
    <3>2. /\ DOMAIN search' = Search /\ \A x \in Search : SearchShape(search'[x])
          /\ \A x \in Search : /\ search'[x].at = search[x].at
                               /\ search'[x].pc = search[x].pc
      BY <2>1, <2>7, <3>1 DEF t
    <3> QED BY <2>7, <3>2 DEF ProbeUnderWay
  <2>8. CASE /\ breaker' = [breaker EXCEPT ![p] = recordFailure(@, code)]
             /\ \E byTotal \in BOOLEAN : search' = [search EXCEPT ![s] =
                           Advance([failed EXCEPT !.cut = q.cut \/ byTotal])]
    <3>1. PICK byTotal \in BOOLEAN : search' = [search EXCEPT ![s] =
                           Advance([failed EXCEPT !.cut = q.cut \/ byTotal])]
      BY <2>8
    <3> DEFINE x == q.cut \/ byTotal
               u == [failed EXCEPT !.cut = x]
               t == Advance(u)
               b == recordFailure(breaker[p], code)
    <3>2. SearchShape(u)
      <4> HIDE DEF x, failed
      <4> QED BY <2>3 DEF SearchShape, Idle
    <3>3. search' = [search EXCEPT ![s] = t] /\ breaker' = [breaker EXCEPT ![p] = b]
      BY <2>8, <3>1
    <3>4. SearchShape(t)
      BY <3>2, Advanced
    <3> HIDE DEF t, b, q
    <3> QED BY <2>1, <2>4, <3>3, <3>4, Reports DEF q, b
  <2> QED BY <1>Attempt, <2>5, <2>6, <2>7, <2>8 DEF Attempt
<1>stutter. CASE UNCHANGED searchVars
  BY <1>stutter DEF searchVars, ProbeUnderWay
<1> QED BY <1>CoolDown, <1>StartSearch, <1>Choose, <1>Attempt, <1>stutter
     DEF SearchNext

-----------------------------------------------------------------------------
(* The drive verbs on a browser core. *)

\* Types, of the fields the identity and the credentials depend on.
TabTypes ==
    /\ DOMAIN tab = DOMAIN NoTab
    /\ tab.ua \in {"native", "windows"} /\ tab.doubt \in BOOLEAN
    /\ tab.site \in Site \cup {None, "blank", "error"}
OsTypes == DOMAIN os = DOMAIN Native /\ os.mode \in {"native", "windows"}
CallTypes ==
    /\ DOMAIN call = DOMAIN NoCall
    /\ call.again \in BOOLEAN
    /\ call.pc \in {"page", "os", "goto", "recreate"} => call.site \in Site

\* The identity the core believes in is the one the page presents, but for a
\* page in doubt and for one that is about to be recreated.
Identity ==
    /\ phase # "closed" /\ ~tab.doubt /\ call.pc # "recreate" => tab.ua = os.mode
    /\ call.pc = "goto" => os.mode = wanted

\* Before the interceptor is detached a warm page is at home.
Home ==
    mode.kind = "warm" /\ phase \in {"launching", "guarding", "ready", "closing"} =>
        tab.site \in {None, "blank", "error"} \/ Address[tab.site].host = OwnerHost

Core == TabTypes /\ OsTypes /\ CallTypes /\ Identity /\ Home

LEMMA NoTabType ==
    /\ DOMAIN NoTab = {"site", "widget", "ua", "doubt"}
    /\ NoTab.ua = "native" /\ NoTab.site = None /\ NoTab.doubt = FALSE
    /\ DOMAIN FreshTab = DOMAIN NoTab /\ FreshTab.ua = "native"
    /\ FreshTab.site = "blank" /\ FreshTab.doubt = FALSE
    /\ DOMAIN Native = {"mode", "baseline"} /\ Native.mode = "native"
<1> HIDE DEF NoWidget
<1>1. /\ DOMAIN NoTab = {"site", "widget", "ua", "doubt"}
      /\ NoTab.ua = "native" /\ NoTab.site = None /\ NoTab.doubt = FALSE
  BY DEF NoTab
<1>2. /\ DOMAIN FreshTab = DOMAIN NoTab /\ FreshTab.ua = "native"
      /\ FreshTab.site = "blank" /\ FreshTab.doubt = FALSE
  BY <1>1 DEF FreshTab
<1> QED BY <1>1, <1>2 DEF Native

LEMMA NoCallType ==
    /\ DOMAIN NoCall =
          {"pc", "op", "site", "again", "round", "kind", "key", "at"}
    /\ NoCall.pc = "idle" /\ NoCall.again = FALSE
BY DEF NoCall

LEMMA CallMoves ==
    ASSUME CallTypes, NEW x, GoTo(x)
    PROVE  /\ DOMAIN call' = DOMAIN NoCall /\ call'.pc = x
           /\ call'.site = call.site /\ call'.again = call.again
BY NoCallType DEF CallTypes, GoTo

\* What a document request of the page may do to it.
LEMMA Requested1 ==
    ASSUME TabTypes, NEW s \in Site, Request(s)
    PROVE  /\ TabTypes' /\ tab'.ua = tab.ua /\ tab'.doubt = tab.doubt
           /\ tab'.site \in {tab.site, "error"} \/ (~requestBlocked(s) /\ tab'.site = s)
<1>1. CASE RequestFails
  <2>1. PICK x \in {tab.site, "error"} : tab' = [tab EXCEPT !.site = x]
    BY <1>1 DEF RequestFails
  <2> QED BY <2>1, NoTabType DEF TabTypes
<1>2. CASE ~requestBlocked(s) /\ Shows(s)
  <2>1. PICK w \in Widget \cup {NoWidget} : tab' = [tab EXCEPT !.site = s, !.widget = w]
    BY <1>2 DEF Shows
  <2> QED BY <1>2, <2>1, NoTabType DEF TabTypes
<1> QED BY <1>1, <1>2 DEF Request

LEMMA Fails1 ==
    ASSUME TabTypes, RequestFails
    PROVE  /\ TabTypes' /\ tab'.ua = tab.ua /\ tab'.doubt = tab.doubt
           /\ tab'.site \in {tab.site, "error"}
<1>1. PICK x \in {tab.site, "error"} : tab' = [tab EXCEPT !.site = x]
  BY DEF RequestFails
<1> QED BY <1>1, NoTabType DEF TabTypes

\* A request the guard of a warm session lets through is for the owner's host.
LEMMA GuardKeepsHome ==
    ASSUME NEW s \in Site, ~requestBlocked(s), mode.kind = "warm",
           phase \in {"ready", "closing"}
    PROVE  Address[s].host = OwnerHost
<1>1. phase = "ready" /\ ~guardBlocks(s)
  BY DEF requestBlocked
<1>2. guardForCredentialHost(Address[s], TRUE, OwnerHost) = "allow"
  BY <1>1 DEF guardBlocks
<1> QED BY <1>2 DEF guardForCredentialHost

\* Every place a page gets to by a request keeps it at home.
LEMMA RequestHome ==
    ASSUME TabTypes, Home, NEW s \in Site, Request(s), UNCHANGED <<mode, phase>>,
           phase \in {"ready", "closing", "detached"}
    PROVE  /\ TabTypes' /\ Home'
           /\ tab'.ua = tab.ua /\ tab'.doubt = tab.doubt
<1>1. /\ TabTypes' /\ tab'.ua = tab.ua /\ tab'.doubt = tab.doubt
      /\ tab'.site \in {tab.site, "error"} \/ (~requestBlocked(s) /\ tab'.site = s)
  BY Requested1
<1> QED BY <1>1, GuardKeepsHome DEF Home

LEMMA RedirectHome ==
    ASSUME TabTypes, Home, NEW s \in Site, Redirected(s), UNCHANGED <<mode, phase>>,
           phase \in {"ready", "closing", "detached"}
    PROVE  /\ TabTypes' /\ Home'
           /\ tab'.ua = tab.ua /\ tab'.doubt = tab.doubt
<1>1. PICK r \in Site : Request(r)
  BY DEF Redirected
<1> QED BY <1>1, RequestHome

\* A step that leaves the page and its identity alone, and the verb away from
\* the steps that depend on them.
LEMMA CoreQuiet ==
    ASSUME Core, UNCHANGED <<tab, os, mode, phase>>, call' = call
               \/ (CallTypes' /\ call'.pc \notin {"page", "os", "goto", "recreate"}
                      /\ call.pc # "recreate")
    PROVE  Core'
<1>1. CASE call' = call
  BY <1>1 DEF Core, TabTypes, OsTypes, CallTypes, Identity, Home, wanted
<1>2. CASE call' # call
  BY <1>2 DEF Core, TabTypes, OsTypes, Identity, Home
<1> QED BY <1>1, <1>2

\* The same with the page moved by a request.
LEMMA CoreRequests ==
    ASSUME Core, UNCHANGED <<os, mode, phase>>, TabTypes', Home',
           tab'.ua = tab.ua, tab'.doubt = tab.doubt, call' = call
               \/ (CallTypes' /\ call'.pc \notin {"page", "os", "goto", "recreate"}
                      /\ call.pc # "recreate")
    PROVE  Core'
<1>1. CASE call' = call
  BY <1>1 DEF Core, OsTypes, CallTypes, Identity, wanted
<1>2. CASE call' # call
  BY <1>2 DEF Core, OsTypes, Identity
<1> QED BY <1>1, <1>2

\* Ways a verb ends or moves on away from the steps of a navigation.
LEMMA CallEnds ==
    ASSUME \/ call' = NoCall
           \/ \E x \in {"settle", "snap"} : \E o :
                 call' = [NoCall EXCEPT !.pc = x, !.op = o]
    PROVE  CallTypes' /\ call'.pc \notin {"page", "os", "goto", "recreate"}
<1>1. CASE call' = NoCall
  BY <1>1, NoCallType DEF CallTypes
<1>2. ASSUME NEW x \in {"settle", "snap"}, NEW o,
             call' = [NoCall EXCEPT !.pc = x, !.op = o]
      PROVE  CallTypes' /\ call'.pc \notin {"page", "os", "goto", "recreate"}
  BY <1>2, NoCallType DEF CallTypes
<1> QED BY <1>1, <1>2

LEMMA CallLeaves ==
    ASSUME CallTypes, NEW x, GoTo(x), x \notin {"page", "os", "goto", "recreate"}
    PROVE  CallTypes' /\ call'.pc \notin {"page", "os", "goto", "recreate"}
BY CallMoves DEF CallTypes

LEMMA CallReplays ==
    ASSUME CallTypes, call' = [call EXCEPT !.pc = "settle", !.round = 2]
    PROVE  CallTypes' /\ call'.pc \notin {"page", "os", "goto", "recreate"}
BY NoCallType DEF CallTypes

LEMMA CallSolves ==
    ASSUME CallTypes, NEW k, NEW y, NEW s,
           call' = [call EXCEPT !.pc = "solving", !.kind = k, !.key = y, !.at = s]
    PROVE  CallTypes' /\ call'.pc \notin {"page", "os", "goto", "recreate"}
BY NoCallType DEF CallTypes

\* Every step of a verb, of its page and of the session keeps the invariant.
LEMMA CoreStep ==
    ASSUME Core, [CoreNext]_coreVars
    PROVE  Core'
<1> USE DEF Core
<1>Launch. CASE Launch
  BY <1>Launch DEF Launch, Core, TabTypes, OsTypes, CallTypes, Identity, Home, wanted
<1>setNavigationGuard. CASE setNavigationGuard
  BY <1>setNavigationGuard DEF setNavigationGuard, Core, TabTypes, OsTypes, CallTypes, Identity, Home, wanted
<1>PageActs. CASE PageActs
  <2>1. CASE \E s \in Site : Request(s)
    BY <1>PageActs, <2>1, RequestHome, CoreRequests DEF PageActs
  <2>2. ASSUME NEW w, tab' = [tab EXCEPT !.widget = w] PROVE Core'
    <3>1. TabTypes' /\ tab'.ua = tab.ua /\ tab'.doubt = tab.doubt /\ tab'.site = tab.site
      BY <2>2, NoTabType DEF TabTypes
    <3>2. Home'
      BY <1>PageActs, <3>1 DEF PageActs, Home
    <3> QED BY <1>PageActs, <3>1, <3>2, CoreRequests DEF PageActs
  <2> QED BY <1>PageActs, <2>1, <2>2 DEF PageActs
<1>Enter. ASSUME NEW op, NEW s, op = "navigate" => s \in Site, Enter(op, s)
          PROVE  Core'
  <2>1. CASE Unusable(op)
    BY <1>Enter, <2>1, NoCallType, CallEnds, CoreQuiet DEF Enter, EndVerb
  <2>2. CASE ~Unusable(op)
    <3> DEFINE x == CASE op = "navigate" -> "page" [] op = "act" -> "act" [] OTHER -> "snap"
    <3>1. x \notin {"os", "goto", "recreate"} /\ (x = "page" => op = "navigate")
      OBVIOUS
    <3>2. call' = [NoCall EXCEPT !.op = op, !.site = s, !.pc = x]
      BY <1>Enter, <2>2 DEF Enter
    <3> HIDE DEF x
    <3>3. DOMAIN call' = DOMAIN NoCall /\ call'.pc = x /\ call'.site = s /\ call'.again = FALSE
      BY <3>2, NoCallType
    <3>4. CallTypes'
      BY <1>Enter, <3>1, <3>3 DEF CallTypes
    <3> QED BY <1>Enter, <3>1, <3>3, <3>4, NoCallType
         DEF Enter, TabTypes, OsTypes, Identity, Home
  <2> QED BY <2>1, <2>2
<1>ensureActivePage. CASE ensureActivePage
  <2>1. ASSUME GoTo("os")
        PROVE  /\ DOMAIN call' = DOMAIN NoCall /\ call'.pc = "os"
               /\ call'.site = call.site /\ call'.again = call.again /\ call.pc = "page"
    BY <1>ensureActivePage, <2>1, CallMoves DEF ensureActivePage, At
  <2>2. CASE GoTo("os") /\ UNCHANGED <<tab, os>>
    BY <1>ensureActivePage, <2>1, <2>2 DEF ensureActivePage, TabTypes, OsTypes, CallTypes, Identity, Home
  <2>3. CASE GoTo("os") /\ tab' = FreshTab
               /\ \E read \in BOOLEAN : os' = [Native EXCEPT !.baseline = read]
    <3>1. TabTypes' /\ tab'.ua = "native" /\ Home'
      BY <2>3, NoTabType DEF TabTypes, Home
    <3>2. OsTypes' /\ os'.mode = "native"
      BY <2>3, NoTabType DEF OsTypes
    <3> QED BY <1>ensureActivePage, <2>1, <2>3, <3>1, <3>2 DEF CallTypes, Identity
  <2>4. CASE EndVerb("error") /\ UNCHANGED <<tab, os>>
    <3>1. UNCHANGED <<mode, phase>> /\ call.pc # "recreate"
      BY <1>ensureActivePage DEF ensureActivePage, At
    <3> QED BY <2>4, <3>1, CallEnds, CoreQuiet DEF EndVerb
  <2> QED BY <1>ensureActivePage, <2>2, <2>3, <2>4 DEF ensureActivePage
<1>applyOsMode. CASE applyOsMode
  <2>1. wanted \in {"native", "windows"} /\ call.pc = "os"
        /\ phase \in {"ready", "closing", "detached"}
    BY <1>applyOsMode DEF wanted, applyOsMode, At
  <2>2. CASE wanted = os.mode /\ GoTo("goto") /\ UNCHANGED <<tab, os>>
    <3>1. CallTypes' /\ call'.pc = "goto" /\ wanted' = wanted
      BY <2>1, <2>2, CallMoves DEF CallTypes, wanted
    <3> QED BY <1>applyOsMode, <2>1, <2>2, <3>1
         DEF applyOsMode, TabTypes, OsTypes, Identity, Home
  <2>3. CASE /\ tab' = Presents(wanted) /\ os' = [os EXCEPT !.mode = wanted]
             /\ GoTo("goto")
    <3>1. CallTypes' /\ call'.pc = "goto" /\ wanted' = wanted
      BY <2>1, <2>3, CallMoves DEF CallTypes, wanted
    <3>2. OsTypes' /\ os'.mode = wanted
      BY <2>1, <2>3, NoTabType DEF OsTypes
    <3>3. TabTypes' /\ tab'.ua = wanted /\ tab'.site = tab.site
      BY <2>1, <2>3, NoTabType DEF TabTypes, Presents
    <3>4. Home'
      BY <1>applyOsMode, <3>3 DEF applyOsMode, Home
    <3> QED BY <3>1, <3>2, <3>3, <3>4 DEF Identity
  <2>4. CASE /\ \E ua \in IF os.baseline THEN {tab.ua, wanted} ELSE {tab.ua} :
                     tab' = [Presents(ua) EXCEPT !.doubt = call.again]
             /\ IF call.again THEN EndVerb("error") ELSE GoTo("recreate") /\ UNCHANGED reply
             /\ UNCHANGED os
    <3>1. PICK ua \in {tab.ua, wanted} : tab' = [Presents(ua) EXCEPT !.doubt = call.again]
      BY <2>4
    <3>2. TabTypes' /\ tab'.doubt = call.again /\ tab'.site = tab.site
      BY <2>1, <3>1, NoTabType DEF TabTypes, Presents, CallTypes
    <3>3. Home' /\ OsTypes'
      BY <1>applyOsMode, <2>4, <3>2 DEF applyOsMode, Home, OsTypes
    <3>4. CASE call.again
      <4>1. call' = NoCall
        BY <2>4, <3>4 DEF EndVerb
      <4> QED BY <3>2, <3>3, <3>4, <4>1, NoCallType DEF CallTypes, Identity
    <3>5. CASE ~call.again
      <4>1. CallTypes' /\ call'.pc = "recreate"
        BY <2>1, <2>4, <3>5, CallMoves DEF CallTypes
      <4> QED BY <3>2, <3>3, <4>1 DEF Identity
    <3> QED BY <3>4, <3>5
  <2> QED BY <1>applyOsMode, <2>2, <2>3, <2>4 DEF applyOsMode
<1>closeActivePage. CASE closeActivePage
  <2>1. CASE /\ tab' = NoTab /\ os' = Native
             /\ call' = [call EXCEPT !.pc = "page", !.again = TRUE]
    <3>1. CallTypes' /\ call'.pc = "page"
      BY <1>closeActivePage, <2>1, NoCallType DEF closeActivePage, At, CallTypes
    <3>2. TabTypes' /\ OsTypes' /\ tab'.ua = os'.mode /\ Home'
      BY <2>1, NoTabType DEF TabTypes, OsTypes, Home
    <3> QED BY <3>1, <3>2 DEF Identity
  <2>2. CASE tab' = [tab EXCEPT !.doubt = TRUE] /\ EndVerb("error") /\ UNCHANGED os
    <3>1. CallTypes' /\ call'.pc = "idle"
      BY <2>2, NoCallType DEF EndVerb, CallTypes
    <3>2. TabTypes' /\ tab'.doubt /\ tab'.site = tab.site
      BY <2>2, NoTabType DEF TabTypes
    <3>3. Home' /\ OsTypes'
      BY <1>closeActivePage, <2>2, <3>2 DEF closeActivePage, Home, OsTypes
    <3> QED BY <3>1, <3>2, <3>3 DEF Identity
  <2> QED BY <1>closeActivePage, <2>1, <2>2 DEF closeActivePage
<1>Navigates. CASE Navigates
  <2>1. CallTypes' /\ call'.pc \notin {"page", "os", "goto", "recreate"}
    BY <1>Navigates, CallEnds DEF Navigates
  <2>2. /\ call.site \in Site /\ call.pc = "goto"
        /\ phase \in {"ready", "closing", "detached"}
    BY <1>Navigates DEF Navigates, At, CallTypes
  <2>3. /\ TabTypes' /\ Home'
        /\ tab'.ua = tab.ua /\ tab'.doubt = tab.doubt
    <3>1. CASE Redirected(call.site)
      BY <1>Navigates, <2>2, <3>1, RedirectHome DEF Navigates
    <3>2. CASE RequestFails
      BY <1>Navigates, <3>2, Fails1 DEF Navigates, Home
    <3> QED BY <1>Navigates, <3>1, <3>2 DEF Navigates
  <2> QED BY <1>Navigates, <2>1, <2>2, <2>3, CoreRequests DEF Navigates
<1>Acts. CASE Acts
  <2>1. /\ CallTypes' /\ call'.pc \notin {"page", "os", "goto", "recreate"}
        /\ call.pc # "recreate" /\ phase \in {"ready", "closing", "detached"}
    <3>1. CASE GoTo("settle") \/ GoTo("snap")
      BY <1>Acts, <3>1, CallLeaves DEF Acts, At
    <3>2. CASE At("replay") /\ call' = [call EXCEPT !.pc = "settle", !.round = 2]
      BY <1>Acts, <3>2, CallReplays DEF Acts, At
    <3> QED BY <1>Acts, <3>1, <3>2 DEF Acts
  <2>2. CASE tab' = tab
    BY <1>Acts, <2>1, <2>2, CoreQuiet DEF Acts
  <2>3. CASE \E s \in Site : Redirected(s)
    BY <1>Acts, <2>1, <2>3, RedirectHome, CoreRequests DEF Acts
  <2> QED BY <1>Acts, <2>2, <2>3 DEF Acts
<1>settle. CASE settle
  <2>1. PICK x : GoTo(x) /\ x \notin {"page", "os", "goto", "recreate"}
    BY <1>settle DEF settle
  <2> QED BY <1>settle, <2>1, CallLeaves, CoreQuiet DEF settle, At
<1>awaitSolvableCaptcha. CASE awaitSolvableCaptcha
  <2>1. CallTypes' /\ call'.pc \notin {"page", "os", "goto", "recreate"}
    <3>1. CASE liveCaptchaToChallenge(tab.widget)
      <4> DEFINE k == tab.widget.kind
                 y == tab.widget.key
                 s == tab.site
      <4>1. call' = [call EXCEPT !.pc = "solving", !.kind = k, !.key = y, !.at = s]
        BY <1>awaitSolvableCaptcha, <3>1 DEF awaitSolvableCaptcha
      <4> HIDE DEF k, y, s
      <4> QED BY <4>1, CallSolves
    <3>2. CASE ~liveCaptchaToChallenge(tab.widget)
      BY <1>awaitSolvableCaptcha, <3>2, CallLeaves DEF awaitSolvableCaptcha
    <3> QED BY <3>1, <3>2
  <2> QED BY <1>awaitSolvableCaptcha, <2>1, CoreQuiet DEF awaitSolvableCaptcha, At
<1>GivesUp. CASE GivesUp
  <2>1. GoTo("snap")
    BY <1>GivesUp DEF GivesUp
  <2> QED BY <1>GivesUp, <2>1, CallLeaves, CoreQuiet DEF GivesUp, At
<1>SolveSucceeds. CASE SolveSucceeds
  <2>1. PICK x : GoTo(x) /\ x \notin {"page", "os", "goto", "recreate"}
    BY <1>SolveSucceeds DEF SolveSucceeds
  <2> QED BY <1>SolveSucceeds, <2>1, CallLeaves, CoreQuiet DEF SolveSucceeds, At
<1>Inject. CASE Inject
  <2>1. GoTo("injected") /\ call.pc = "inject"
    BY <1>Inject DEF Inject, At
  <2>2. TabTypes' /\ tab'.ua = tab.ua /\ tab'.doubt = tab.doubt /\ tab'.site = tab.site
    <3>1. CASE tab.widget.kind = call.kind
      <4> DEFINE w == [tab.widget EXCEPT !.field = "filled"]
      <4>1. tab' = [tab EXCEPT !.widget = w]
        BY <1>Inject, <3>1 DEF Inject
      <4> HIDE DEF w
      <4> QED BY <4>1, NoTabType DEF TabTypes
    <3>2. CASE tab.widget.kind # call.kind
      BY <1>Inject, <3>2 DEF Inject, TabTypes
    <3> QED BY <3>1, <3>2
  <2>3. Home'
    BY <1>Inject, <2>2 DEF Inject, Home
  <2> QED BY <1>Inject, <2>1, <2>2, <2>3, CallLeaves, CoreRequests DEF Inject
<1>AfterInject. CASE AfterInject
  <2>1. PICK x : GoTo(x) /\ x \notin {"page", "os", "goto", "recreate"}
    BY <1>AfterInject DEF AfterInject
  <2> QED BY <1>AfterInject, <2>1, CallLeaves, CoreQuiet DEF AfterInject, At
<1>Snapshot. CASE Snapshot
  BY <1>Snapshot, CallEnds, CoreQuiet DEF Snapshot, At
<1>SolveFails. ASSUME NEW code \in CoreSolveCodes, SolveFails(code)
      PROVE  Core'
  BY <1>SolveFails, CallEnds, CoreQuiet DEF SolveFails, At
<1>CloseCore. CASE CloseCore
  BY <1>CloseCore DEF CloseCore, Core, TabTypes, OsTypes, CallTypes, Identity, Home, wanted
<1>ContextCloses. CASE ContextCloses
  <2>1. phase' = "closed" /\ tab' = NoTab /\ os' = os
    BY <1>ContextCloses DEF ContextCloses
  <2>2. CallTypes' /\ (call'.pc = "idle" \/ call' = call)
    BY <1>ContextCloses, NoCallType DEF ContextCloses, EndVerb, CallTypes
  <2>3. TabTypes' /\ OsTypes' /\ Home'
    BY <2>1, NoTabType DEF TabTypes, OsTypes, Home
  <2>4. call' = call => wanted' = wanted
    BY DEF wanted
  <2> QED BY <2>1, <2>2, <2>3, <2>4 DEF Identity
<1>stutter. CASE UNCHANGED coreVars
  BY <1>stutter, CoreQuiet DEF coreVars
<1> QED BY <1>Enter, <1>Launch, <1>setNavigationGuard, <1>PageActs, <1>ensureActivePage,
     <1>applyOsMode, <1>closeActivePage, <1>Navigates, <1>Acts, <1>settle,
     <1>awaitSolvableCaptcha, <1>GivesUp, <1>SolveSucceeds, <1>Inject,
     <1>AfterInject, <1>Snapshot, <1>SolveFails, <1>CloseCore,
     <1>ContextCloses, <1>stutter DEF CoreNext

LEMMA CoreStarts == CoreInit => Core
BY NoTabType, NoCallType
   DEF CoreInit, Core, TabTypes, OsTypes, CallTypes, Identity, Home

LEMMA CorePromises == Core => GotoPresentsRightOs /\ CredentialsStayHome
BY DEF Core, Identity, Home, GotoPresentsRightOs, CredentialsStayHome, At

-----------------------------------------------------------------------------
(* The retrieve call. *)

FlagTypes ==
    flags \in [budgetExceeded : BOOLEAN, sawLive : BOOLEAN, captchaSolved : BOOLEAN,
               proxyUsed : BOOLEAN]
CallShape ==
    /\ DOMAIN solve = {"kind", "reason"} /\ attempts \in Nat /\ everLive \in BOOLEAN
    /\ pc \in {"idle", "open", "goto", "poll", "close", "solve", "loop", "judge",
               "surface", "done"}
    /\ lane \in {"direct", "proxied"} /\ (lane = "direct" <=> attempts = 0)
    /\ pc \in {"idle", "solve"} => lane = "direct"
    /\ pc = "judge" => lane = "proxied"

\* Only a proxied exit can be a live one, and the last live render is kept.
LiveKept ==
    /\ lane = "direct" => ~flags.proxyUsed /\ ~everLive
    /\ flags.sawLive <=> lastLive # NoPage
    /\ lastLive # NoPage => ~isDeadExit(lastLive)

\* A status comes from a response.
Sound(p) == p # NoPage /\ (p.status # NoStatus => p.responded)
Rendered ==
    /\ pc = "poll" => (nav.status # NoStatus => nav.responded)
    /\ pc \in {"close", "solve", "judge"} => Sound(render)
    /\ pc \in {"loop", "surface"} /\ lane = "proxied" => Sound(render)

\* An exit that reached the site is remembered before the next one is tried.
LiveSeen ==
    /\ pc \in {"loop", "open", "goto"} /\ everLive => flags.sawLive
    /\ pc = "poll" /\ everLive =>
          flags.sawLive \/ (nav.responded /\ nav.url.scheme # "chrome-error")
    /\ pc \in {"close", "judge", "surface"} /\ everLive =>
          flags.sawLive \/ ~isDeadExit(render)

\* What brought a proxied call to the head of the loop, or out of it.
LoopWhy ==
    /\ pc = "loop" /\ lane = "proxied" =>
          blockedRender(render) /\ ~render.policy /\ ~noExitClears(render)
    /\ pc = "surface" /\ lane = "proxied" =>
          flags.budgetExceeded \/ attempts = MaxAttempts \/ ~isDeadExit(render)
    /\ lane = "proxied" \/ pc \in {"idle", "loop"} => solve.reason = None

Told == (pc # "done" => result = NoResult) /\ VerdictHonest

Retrieves ==
    FlagTypes /\ CallShape /\ LiveKept /\ Rendered /\ LiveSeen /\ LoopWhy /\ Told

\* Every failure has a class, and only the call itself says burned-exit.
LEMMA FailureNamed ==
    ASSUME NEW p
    PROVE  classifyFailure(p) \notin {None, "burned-exit"}
<1>1. classifyBlock(p) \in {None, "nav-failed", "cf-challenge", "perimeterx-challenge",
             "datadome-challenge", "rate-limited", "hard-block", "blocked"}
  BY Zenon DEF classifyBlock
<1>2. resolveBlockReason(p) \in {"captcha", classifyBlock(p)}
  BY DEF resolveBlockReason
<1>3. resolveFailureReason(p) \in {"policy-blocked", "nav-failed", resolveBlockReason(p)}
  BY DEF resolveFailureReason
<1>4. resolveFailureReason(p) \in {None, "policy-blocked", "nav-failed", "captcha",
             "rate-limited", "hard-block", "cf-challenge", "perimeterx-challenge",
             "datadome-challenge", "blocked"}
  BY <1>1, <1>2, <1>3
<1>5. CASE resolveFailureReason(p) = None
  BY <1>5 DEF classifyFailure, None
<1>6. CASE resolveFailureReason(p) # None
  BY <1>4, <1>6 DEF classifyFailure, None
<1> QED BY <1>5, <1>6

\* A navigation the gateway refused is named so.
LEMMA RefusalNamed ==
    ASSUME NEW p, p.policy
    PROVE  classifyFailure(p) = "policy-blocked"
<1>1. resolveFailureReason(p) = "policy-blocked"
  BY DEF resolveFailureReason
<1> QED BY <1>1 DEF classifyFailure, None

\* A page that was usable, or that has a status and is none of Chromium's
\* error pages, came through a live exit.
LEMMA SoundLive ==
    ASSUME NEW p, Sound(p), p.policy \/ ~(p.status = NoStatus \/ isChromeErrorUrl(p))
    PROVE  ~isDeadExit(p)
BY DEF Sound, isDeadExit

LEMMA UnblockedLive ==
    ASSUME NEW p, Sound(p), p.policy \/ ~blockedRender(p)
    PROVE  ~isDeadExit(p)
BY SoundLive DEF blockedRender

LEMMA PageIsPage ==
    ASSUME NEW n, NEW b
    PROVE  /\ Page(n, b) # NoPage
           /\ Page(n, b).status = n.status /\ Page(n, b).responded = n.responded
           /\ Page(n, b).policy = n.policy /\ Page(n, b).url = n.url
<1>1. "none" \in DOMAIN NoPage
  BY DEF NoPage
<1>2. "none" \notin DOMAIN Page(n, b)
  BY DEF Page
<1>3. Page(n, b) # NoPage
  BY <1>1, <1>2
<1> QED BY <1>3 DEF Page

\* What is surfaced when no exit of the call ever reached the site, and what
\* when one did.
LEMMA SurfacedLive ==
    ASSUME Retrieves, pc = "surface"
    PROVE  /\ flags.sawLive /\ lane = "proxied" /\ ~flags.budgetExceeded
                => ~isDeadExit(surfaced)
           /\ ~flags.sawLive /\ lane = "proxied" => surfaced = render
<1> USE DEF Retrieves
<1>1. ASSUME flags.sawLive, lane = "proxied", ~flags.budgetExceeded
      PROVE  ~isDeadExit(surfaced)
  <2>1. lastLive # NoPage /\ ~isDeadExit(lastLive) /\ Sound(render)
    BY <1>1 DEF LiveKept, Rendered
  <2>2. CASE surfaced = lastLive
    BY <2>1, <2>2
  <2>3. CASE surfaced # lastLive
    <3>1. surfaced = render
      BY <1>1, <2>1, <2>3 DEF surfaced, Sound
    <3>2. render.policy \/ ~(render.status = NoStatus \/ isChromeErrorUrl(render))
      BY <1>1, <2>1, <2>3 DEF surfaced, Sound
    <3> QED BY <2>1, <3>1, <3>2, SoundLive
  <2> QED BY <2>2, <2>3
<1>2. ASSUME ~flags.sawLive, lane = "proxied"
      PROVE  surfaced = render
  BY <1>2 DEF surfaced, LiveKept, Rendered, Sound
<1> QED BY <1>1, <1>2

\* The answer: the class, the page and the solver's code are the call's own.
LEMMA SurfaceHonest ==
    ASSUME Retrieves, NEW a \in ArtifactOutcomes, Surface(a)
    PROVE  VerdictHonest'
<1> DEFINE p == surfaced
           fc == failureClass(p)
           fl == isRetrieveFailure(p)
           cr == captchaSolveReason(p)
           ob == overBudget
           br == blockReason(p)
           r == retrieveResult(p)
<1>0. /\ pc = "surface" /\ UNCHANGED <<attempts, everLive, lane>>
  BY DEF Surface
<1>1. r.failureClass = fc /\ r.failed = fl /\ r.captchaSolveReason = cr
      /\ r.budgetExhausted = ob /\ r.page = p
  BY DEF retrieveResult
<1>2. result'.verdict = r
  BY DEF Surface
<1>3. fc = "burned-exit" => burnedExit(p)
  BY FailureNamed DEF failureClass, finalFailureClass, None
<1>4. burnedExit(p) => attempts = MaxAttempts /\ ~everLive
  <2> HAVE burnedExit(p)
  <2>1. /\ flags.proxyUsed /\ ~flags.budgetExceeded /\ isDeadExit(p) /\ ~flags.sawLive
    BY DEF burnedExit, overBudget
  <2>2. lane = "proxied"
    BY <2>1 DEF Retrieves, LiveKept, CallShape
  <2>3. isDeadExit(render)
    BY <1>0, <2>1, <2>2, SurfacedLive
  <2> QED BY <1>0, <2>1, <2>2, <2>3 DEF Retrieves, LoopWhy, LiveSeen
<1>5. everLive /\ ~ob => ~isDeadExit(p)
  <2> HAVE everLive /\ ~ob
  <2>1. lane = "proxied" /\ ~flags.budgetExceeded
    BY DEF Retrieves, LiveKept, CallShape, overBudget
  <2>2. CASE flags.sawLive
    BY <1>0, <2>1, <2>2, SurfacedLive
  <2>3. CASE ~flags.sawLive
    <3>1. p = render
      BY <1>0, <2>1, <2>3, SurfacedLive
    <3>2. ~isDeadExit(render)
      BY <1>0, <2>3 DEF Retrieves, LiveSeen
    <3> QED BY <3>1, <3>2
  <2> QED BY <2>2, <2>3
<1>6. fl /\ p.policy => fc = "policy-blocked"
  <2> HAVE fl /\ p.policy
  <2>1. ~burnedExit(p)
    BY DEF burnedExit, isDeadExit
  <2>2. classifyFailure(p) = "policy-blocked"
    BY RefusalNamed
  <2> QED BY <2>1, <2>2 DEF failureClass, finalFailureClass, DECISIVE_FAILURE_CLASSES
<1>7. fl => fc # None
  BY FailureNamed DEF failureClass, finalFailureClass, None
<1>8. cr \in SolveCodes \ {"not-configured"} => lane = "direct"
  <2>1. SUFFICES ASSUME lane # "direct" PROVE cr \notin SolveCodes \ {"not-configured"}
    OBVIOUS
  <2>2. solve.reason = None
    BY <2>1 DEF Retrieves, LoopWhy, CallShape
  <2>3. cr \in {None, "not-configured"}
    BY <2>2 DEF captchaSolveReason
  <2> QED BY <2>3 DEF SolveCodes, None
<1> HIDE DEF p, fc, fl, cr, ob, br, r
<1>9. isDeadExit(result'.verdict.page) = isDeadExit(p)
  BY <1>1, <1>2
<1> QED BY <1>0, <1>1, <1>2, <1>3, <1>4, <1>5, <1>6, <1>7, <1>8, <1>9
     DEF VerdictHonest

\* A step that answers nothing, or with an error only, is no verdict.
LEMMA Quiet ==
    ASSUME result' = NoResult \/ result' = [error |-> "internal"]
    PROVE  VerdictHonest'
BY DEF VerdictHonest, Answered, NoResult

\* Every step of the call keeps the invariant.
LEMMA RetrievesStep ==
    ASSUME Retrieves, [RetrieveNext]_retrieveVars
    PROVE  Retrieves'
<1> USE DEF Retrieves
<1>Begin. CASE Begin
  <2>1. VerdictHonest'
    BY <1>Begin, Quiet DEF Begin, Reject, Told
  <2> QED BY <1>Begin, <2>1 DEF Begin, Reject, FlagTypes, CallShape, LiveKept,
         Rendered, LiveSeen, LoopWhy, Told, noExitClears
<1>OpenSession. CASE OpenSession
  <2>1. VerdictHonest'
    BY <1>OpenSession, Quiet DEF OpenSession, Reject, Told
  <2> QED BY <1>OpenSession, <2>1 DEF OpenSession, Reject, FlagTypes, CallShape, LiveKept,
         Rendered, LiveSeen, LoopWhy, Told, noExitClears
<1>ClosePage. CASE ClosePage
  <2>1. VerdictHonest'
    BY <1>ClosePage, Quiet DEF ClosePage, Reject, Told
  <2> QED BY <1>ClosePage, <2>1 DEF ClosePage, Reject, FlagTypes, CallShape, LiveKept,
         Rendered, LiveSeen, LoopWhy, Told, noExitClears
<1>SolveHook. CASE SolveHook
  <2>1. VerdictHonest'
    BY <1>SolveHook, Quiet DEF SolveHook, LeaveSolve, Told
  <2>2. /\ pc' \in {"loop", "surface"} /\ (pc' = "loop" => solve'.reason = None)
        /\ DOMAIN solve' = {"kind", "reason"}
    BY <1>SolveHook DEF SolveHook, LeaveSolve, CallShape
  <2>3. /\ FlagTypes' /\ flags'.sawLive = flags.sawLive
        /\ flags'.proxyUsed = flags.proxyUsed
        /\ flags'.budgetExceeded = flags.budgetExceeded
    BY <1>SolveHook DEF SolveHook, FlagTypes
  <2>4. lane = "direct" /\ lane' = lane
    BY <1>SolveHook DEF SolveHook, CallShape
  <2> QED BY <1>SolveHook, <2>1, <2>2, <2>3, <2>4
       DEF SolveHook, CallShape, LiveKept, Rendered, LiveSeen, LoopWhy, Told
<1>LoopHead. CASE LoopHead
  <2>1. VerdictHonest'
    BY <1>LoopHead, Quiet DEF LoopHead, Told
  <2>2. CASE pc' = "surface" /\ attempts = MaxAttempts /\ UNCHANGED <<flags, attempts, lane>>
    BY <1>LoopHead, <2>1, <2>2 DEF LoopHead, FlagTypes, CallShape, LiveKept, Rendered,
        LiveSeen, LoopWhy, Told
  <2>3. CASE /\ pc' = "surface" /\ flags' = [flags EXCEPT !.budgetExceeded = TRUE]
             /\ UNCHANGED <<attempts, lane>>
    BY <1>LoopHead, <2>1, <2>3 DEF LoopHead, FlagTypes, CallShape, LiveKept, Rendered,
        LiveSeen, LoopWhy, Told
  <2>4. CASE /\ pc' = "open" /\ flags' = [flags EXCEPT !.proxyUsed = TRUE]
             /\ attempts' = attempts + 1 /\ lane' = "proxied"
    <3>1. /\ FlagTypes' /\ flags'.sawLive = flags.sawLive
          /\ flags'.budgetExceeded = flags.budgetExceeded
      BY <2>4 DEF FlagTypes
    <3>2. attempts' \in Nat /\ attempts' # 0
      BY <2>4 DEF CallShape
    <3>3. CallShape'
      BY <1>LoopHead, <2>4, <3>2 DEF LoopHead, CallShape
    <3>4. LiveKept' /\ Rendered' /\ LiveSeen'
      BY <1>LoopHead, <2>4, <3>1 DEF LoopHead, LiveKept, Rendered, LiveSeen
    <3> QED BY <1>LoopHead, <2>1, <2>4, <3>1, <3>3, <3>4 DEF LoopHead, LoopWhy, Told
  <2> QED BY <1>LoopHead, <2>2, <2>3, <2>4 DEF LoopHead
<1>Judge. CASE Judge
  <2>1. VerdictHonest'
    BY <1>Judge, Quiet DEF Judge, Told
  <2>2. Sound(render) /\ pc = "judge" /\ lane = "proxied" /\ UNCHANGED <<lane, render, attempts>>
    BY <1>Judge DEF Judge, Rendered, CallShape
  <2>3. CASE /\ render.policy \/ ~blockedRender(render)
             /\ pc' = "surface" /\ UNCHANGED <<flags, lastLive>>
    <3>1. ~isDeadExit(render)
      BY <2>2, <2>3, UnblockedLive
    <3> QED BY <1>Judge, <2>1, <2>2, <2>3, <3>1 DEF Judge, FlagTypes, CallShape,
           LiveKept, Rendered, LiveSeen, LoopWhy, Told
  <2>4. CASE /\ ~render.policy /\ blockedRender(render)
             /\ IF reachedSite(render)
                THEN flags' = [flags EXCEPT !.sawLive = TRUE] /\ lastLive' = render
                ELSE UNCHANGED <<flags, lastLive>>
             /\ pc' = IF noExitClears(render) THEN "surface" ELSE "loop"
    <3>1. pc' = "surface" => ~isDeadExit(render)
      BY <2>4 DEF noExitClears, reachedSite
    <3>2. pc' = "loop" => ~noExitClears(render)
      BY <2>4
    <3>3. /\ FlagTypes' /\ flags'.proxyUsed = flags.proxyUsed
          /\ flags'.budgetExceeded = flags.budgetExceeded
          /\ flags'.sawLive = (flags.sawLive \/ ~isDeadExit(render))
      BY <2>4 DEF FlagTypes, reachedSite
    <3>4. /\ flags'.sawLive <=> lastLive' # NoPage
          /\ lastLive' # NoPage => ~isDeadExit(lastLive')
      BY <2>2, <2>4, <3>3 DEF LiveKept, Sound, reachedSite
    <3>5. noExitClears(render)' = noExitClears(render)
      BY <1>Judge DEF Judge, noExitClears
    <3> HIDE DEF Retrieves
    <3>6. pc' \in {"loop", "surface"}
      BY <2>4
    <3> QED BY <1>Judge, <2>1, <2>2, <2>4, <3>1, <3>2, <3>3, <3>4, <3>5, <3>6
         DEF Judge, Retrieves, CallShape, LiveKept, Rendered, LiveSeen, LoopWhy, Told
  <2> QED BY <1>Judge, <2>3, <2>4 DEF Judge
<1>Goto. ASSUME NEW n \in Nav, NEW d \in 0..Larger(1, NavTimeout), Goto(n, d)
      PROVE  Retrieves'
  <2>1. VerdictHonest'
    BY <1>Goto, Quiet DEF Goto, Told
  <2>2. nav'.status # NoStatus => nav'.responded
    BY <1>Goto, NavAssumption DEF Goto
  <2> QED BY <1>Goto, <2>1, <2>2 DEF Goto, FlagTypes, CallShape, LiveKept, Rendered,
         LiveSeen, LoopWhy, Told
<1>PollAndSnapshot. ASSUME NEW b \in Body, NEW d \in 0..ClearanceTimeout,
                PollAndSnapshot(b, d)
      PROVE  Retrieves'
  <2>1. VerdictHonest'
    BY <1>PollAndSnapshot, Quiet DEF PollAndSnapshot, Told
  <2>2. /\ Sound(render')
        /\ nav.responded /\ nav.url.scheme # "chrome-error" => ~isDeadExit(render')
    BY <1>PollAndSnapshot, PageIsPage DEF PollAndSnapshot, Rendered, Sound, isDeadExit, isChromeErrorUrl
  <2> QED BY <1>PollAndSnapshot, <2>1, <2>2 DEF PollAndSnapshot, FlagTypes, CallShape, LiveKept,
         Rendered, LiveSeen, LoopWhy, Told
<1>Surface. ASSUME NEW a \in ArtifactOutcomes, Surface(a)
      PROVE  Retrieves'
  <2>1. VerdictHonest'
    BY <1>Surface, SurfaceHonest
  <2> QED BY <1>Surface, <2>1 DEF Surface, FlagTypes, CallShape, LiveKept, Rendered,
         LiveSeen, LoopWhy, Told
<1>stutter. CASE UNCHANGED retrieveVars
  <2>1. VerdictHonest'
    BY <1>stutter DEF retrieveVars, Told, VerdictHonest, Answered
  <2> QED BY <1>stutter, <2>1 DEF retrieveVars, FlagTypes, CallShape, LiveKept,
         Rendered, LiveSeen, LoopWhy, Told, noExitClears
<1> QED BY <1>Begin, <1>OpenSession, <1>ClosePage, <1>SolveHook, <1>LoopHead,
     <1>Judge, <1>Goto, <1>PollAndSnapshot, <1>Surface, <1>stutter DEF
     RetrieveNext

LEMMA RetrievesStarts == RetrieveInit => Retrieves
<1> SUFFICES ASSUME RetrieveInit PROVE Retrieves
  OBVIOUS
<1>1. VerdictHonest
  BY DEF RetrieveInit, VerdictHonest, Answered, NoResult
<1>2. FlagTypes /\ CallShape /\ LiveKept
  BY DEF RetrieveInit, FlagTypes, CallShape, LiveKept
<1> QED BY <1>1, <1>2 DEF RetrieveInit, Retrieves, Rendered, LiveSeen, LoopWhy, Told

\* What a step may do to the exits left, under the invariant.
LEMMA ExitsStep ==
    ASSUME Retrieves, [RetrieveNext]_retrieveVars
    PROVE  [/\ attempts' > attempts =>
                  /\ budgetLeft > MIN_ATTEMPT_BUDGET
                  /\ lane = "proxied" =>
                         /\ blockedRender(render) /\ ~render.policy
                         /\ ~(render.responded /\ ~isChromeErrorUrl(render)
                                /\ (isTerminalUnclearableRender(render)
                                      \/ (resolveBlockReason(render) = "captcha" /\ ~opts.solver)))
            /\ pc = "judge" /\ pc' = "surface" => ~isDeadExit(render)]_retrieveVars
<1> USE DEF Retrieves
<1>1. CASE LoopHead
  <2>1. pc = "loop" /\ (attempts' > attempts => budgetLeft > MIN_ATTEMPT_BUDGET)
    BY <1>1 DEF LoopHead, CallShape
  <2>2. lane = "proxied" => blockedRender(render) /\ ~render.policy /\ ~noExitClears(render)
    BY <2>1 DEF LoopWhy
  <2> QED BY <2>1, <2>2 DEF noExitClears, reachedSite, isDeadExit
<1>2. CASE Judge
  <2>1. pc' = "surface" => ~isDeadExit(render)
    <3>1. CASE render.policy \/ ~blockedRender(render)
      BY <1>2, <3>1, UnblockedLive DEF Judge, Rendered
    <3>2. CASE ~render.policy /\ blockedRender(render)
      BY <1>2, <3>2 DEF Judge, noExitClears, reachedSite
    <3> QED BY <3>1, <3>2
  <2> QED BY <1>2, <2>1 DEF Judge, CallShape
<1>3. CASE /\ Begin \/ OpenSession \/ ClosePage \/ SolveHook
              \/ (\E n \in Nav, d \in 0..Larger(1, NavTimeout) : Goto(n, d))
              \/ (\E b \in Body, d \in 0..ClearanceTimeout : PollAndSnapshot(b, d))
              \/ (\E a \in ArtifactOutcomes : Surface(a))
  <2>1. attempts' = attempts /\ pc # "judge"
    BY <1>3 DEF Begin, OpenSession, ClosePage, SolveHook, Goto, PollAndSnapshot, Surface
  <2> QED BY <2>1 DEF CallShape
<1>4. CASE UNCHANGED retrieveVars
  BY <1>4
<1> QED BY <1>1, <1>2, <1>3, <1>4 DEF RetrieveNext

-----------------------------------------------------------------------------
(* The CAPTCHA solver. *)

\* In the window, what is charged is what was posted.  A charge that was filtered
\* out is too old to count, and it only gets older.
Budget ==
    /\ age \in [Solve -> 0..Window]
    /\ starts \subseteq Solve /\ posts \subseteq Solve
    /\ InWindow(starts) = InWindow(posts)
    /\ IsFiniteSet(InWindow(posts)) /\ Cardinality(InWindow(posts)) <= MaxSolves

\* A window that loses calls stays within the budget.
LEMMA WindowShrinks ==
    ASSUME Budget, InWindow(posts)' \subseteq InWindow(posts)
    PROVE  /\ IsFiniteSet(InWindow(posts)')
           /\ Cardinality(InWindow(posts)') <= MaxSolves
<1>1. /\ IsFiniteSet(InWindow(posts)')
      /\ Cardinality(InWindow(posts)') <= Cardinality(InWindow(posts))
  BY FS_Subset DEF Budget
<1>2. /\ Cardinality(InWindow(posts)') \in Nat /\ Cardinality(InWindow(posts)) \in Nat
      /\ MaxSolves \in Nat
  BY <1>1, FS_CardinalityType, SolverAssumption DEF Budget
<1> QED BY <1>1, <1>2 DEF Budget

\* A charge: the guard of #chargeBudget leaves room for one more.
LEMMA ChargeFits ==
    ASSUME Budget, NEW c \in Solve, NEW ch, Submit(c, ch), refusal(ch) = None
    PROVE  Budget'
<1>1. /\ starts' = InWindow(starts) \cup {c} /\ posts' = posts \cup {c}
      /\ age' = [age EXCEPT ![c] = 0]
  BY DEF Submit
<1>2. 0 < Window /\ Window \in Nat /\ MaxSolves \in Nat
  BY SolverAssumption
<1>3. InWindow(posts)' = InWindow(posts) \cup {c}
  BY <1>1, <1>2 DEF Budget, InWindow
<1>4. InWindow(starts)' = InWindow(starts) \cup {c}
  BY <1>1, <1>2 DEF Budget, InWindow
<1>5. Cardinality(InWindow(posts)) < MaxSolves
  <2>1. ~(Cardinality(InWindow(starts)) >= MaxSolves)
    BY DEF refusal, None
  <2>2. Cardinality(InWindow(posts)) \in Nat
    BY FS_CardinalityType DEF Budget
  <2> QED BY <1>2, <2>1, <2>2 DEF Budget
<1>6. /\ IsFiniteSet(InWindow(posts) \cup {c})
      /\ Cardinality(InWindow(posts) \cup {c}) <= Cardinality(InWindow(posts)) + 1
  <2>1. IsFiniteSet(InWindow(posts)) /\ Cardinality(InWindow(posts)) \in Nat
    BY FS_CardinalityType DEF Budget
  <2>2. /\ IsFiniteSet(InWindow(posts) \cup {c})
        /\ Cardinality(InWindow(posts) \cup {c})
               \in {Cardinality(InWindow(posts)), Cardinality(InWindow(posts)) + 1}
    BY <2>1, FS_AddElement
  <2> QED BY <2>1, <2>2
<1>7. Cardinality(InWindow(posts) \cup {c}) \in Nat /\ Cardinality(InWindow(posts)) \in Nat
  BY <1>6, FS_CardinalityType DEF Budget
<1>8. Cardinality(InWindow(posts) \cup {c}) <= MaxSolves
  BY <1>2, <1>5, <1>6, <1>7
<1>9. age' \in [Solve -> 0..Window] /\ starts' \subseteq Solve /\ posts' \subseteq Solve
  BY <1>1, <1>2 DEF Budget, InWindow
<1> QED BY <1>3, <1>4, <1>6, <1>8, <1>9 DEF Budget

\* Every step of the solver keeps the budget.
LEMMA BudgetStep ==
    ASSUME Budget, [SolverNext]_solverVars
    PROVE  Budget'
<1>same. ASSUME UNCHANGED <<age, posts>>, starts' \in {starts, InWindow(starts)}
         PROVE  Budget'
  <2>1. InWindow(posts)' = InWindow(posts) /\ InWindow(starts)' = InWindow(starts)
    BY <1>same DEF InWindow
  <2> QED BY <1>same, <2>1 DEF Budget, InWindow
<1>1. ASSUME NEW c \in Solve, NEW ch \in Challenges, Submit(c, ch)
      PROVE  Budget'
  BY <1>1, <1>same, ChargeFits DEF Submit
<1>2. ASSUME NEW c \in Solve, NEW code, SolveEnds(c, code) \/ TaskCreated(c)
      PROVE  Budget'
  BY <1>2, <1>same DEF SolveEnds, TaskCreated
<1>3. CASE SolverTick
  <2>1. UNCHANGED <<starts, posts>>
    BY <1>3 DEF SolverTick
  <2>2. age' \in [Solve -> 0..Window] /\ \A c \in Solve : age'[c] >= age[c]
    BY <1>3, SolverAssumption DEF SolverTick, Budget
  <2>3. ASSUME NEW c \in Solve, age'[c] < Window
        PROVE  age[c] < Window
    BY <2>2, <2>3, SolverAssumption DEF Budget
  <2>4. InWindow(posts)' \subseteq InWindow(posts) /\ InWindow(starts)' = InWindow(posts)'
    BY <2>1, <2>3 DEF Budget, InWindow
  <2> QED BY <2>1, <2>2, <2>4, WindowShrinks DEF Budget
<1>4. CASE UNCHANGED solverVars
  BY <1>4, <1>same DEF solverVars
<1> QED BY <1>1, <1>2, <1>3, <1>4 DEF SolverNext

LEMMA BudgetStarts == SolverInit => Budget
<1> SUFFICES ASSUME SolverInit PROVE Budget
  OBVIOUS
<1>1. InWindow(starts) = {} /\ InWindow(posts) = {}
  BY DEF SolverInit, InWindow
<1>2. age \in [Solve -> 0..Window]
  BY SolverAssumption DEF SolverInit
<1> QED BY <1>1, <1>2, FS_EmptySet, SolverAssumption DEF SolverInit, Budget

-----------------------------------------------------------------------------
(* The tools together. *)

ToolInv == Retrieves /\ Probes /\ Core /\ Budget

\* A step of the tools is a step of each of them, or leaves it as it is.
LEMMA EachSteps ==
    ASSUME [ToolNext]_toolVars
    PROVE  /\ [RetrieveNext]_retrieveVars /\ [SearchNext]_searchVars
           /\ [CoreNext]_coreVars /\ [SolverNext]_solverVars
BY DEF ToolNext, toolVars

LEMMA ProbesStart == SearchInit => Probes
<1> SUFFICES ASSUME SearchInit PROVE Probes
  OBVIOUS
<1>1. Closed \in BreakerState /\ Closed.state = "closed"
  BY DEF Closed, BreakerState
<1> QED BY <1>1, IdleShape DEF SearchInit, Probes, ProbeUnderWay

(* The four invariants hold together, for every number of providers,       *)
(* searches, sites, exits, solves and every page a site may show.          *)
THEOREM ToolInvHolds == ToolSpec => []ToolInv
<1>1. ToolInit => ToolInv
  BY RetrievesStarts, ProbesStart, CoreStarts, BudgetStarts DEF ToolInit, ToolInv
<1>2. ToolInv /\ [ToolNext]_toolVars => ToolInv'
  BY EachSteps, RetrievesStep, ProbesStep, CoreStep, BudgetStep DEF ToolInv
<1> QED BY <1>1, <1>2, PTL DEF ToolSpec

(* A verdict names the failure that happened (retrieve.ts:1144-1305):      *)
(* burned-exit only after every exit was spent and none reached the site,  *)
(* a live answer kept over a later dead exit, the gateway's own refusal    *)
(* named as such, no failure without a name.                               *)
THEOREM VerdictsHonest == ToolSpec => []VerdictHonest
<1>1. ToolInv => VerdictHonest
  BY DEF ToolInv, Retrieves, Told
<1> QED BY <1>1, ToolInvHolds, PTL

(* No residential exit is spent in vain (retrieve.ts:1044-1141), and none  *)
(* that could still help is left unspent because one was dead.             *)
THEOREM ExitsSpentWell == ToolSpec => ExitsWellSpent
<1>1. ToolInv /\ [ToolNext]_toolVars
         => [/\ attempts' > attempts =>
                  /\ budgetLeft > MIN_ATTEMPT_BUDGET
                  /\ lane = "proxied" =>
                         /\ blockedRender(render) /\ ~render.policy
                         /\ ~(render.responded /\ ~isChromeErrorUrl(render)
                                /\ (isTerminalUnclearableRender(render)
                                      \/ (resolveBlockReason(render) = "captcha" /\ ~opts.solver)))
             /\ pc = "judge" /\ pc' = "surface" => ~isDeadExit(render)]_retrieveVars
  BY EachSteps, ExitsStep DEF ToolInv
<1> QED BY <1>1, ToolInvHolds, PTL DEF ToolSpec, ExitsWellSpent

(* A breaker that is half-open has a search asking its provider            *)
(* (search/router.ts): the probe of a provider is never lost, however the  *)
(* searches overlap and end.                                               *)
THEOREM ProbesUnderWay == ToolSpec => []ProbeUnderWay
<1>1. ToolInv => ProbeUnderWay
  BY DEF ToolInv, Probes
<1> QED BY <1>1, ToolInvHolds, PTL

(* Every navigation starts with the identity its target must see           *)
(* (patchright-core.ts:1311-1329), whatever the earlier navigations of the *)
(* page needed and wherever a change of identity failed.                   *)
THEOREM RightOsPresented == ToolSpec => []GotoPresentsRightOs
<1>1. ToolInv => GotoPresentsRightOs
  BY CorePromises DEF ToolInv
<1> QED BY <1>1, ToolInvHolds, PTL

(* Until the interceptor is detached a page with stored credentials shows  *)
(* no host but their owner's (policy/index.ts:211-248).                    *)
THEOREM CredentialsAtHome == ToolSpec => []CredentialsStayHome
<1>1. ToolInv => CredentialsStayHome
  BY CorePromises DEF ToolInv
<1> QED BY <1>1, ToolInvHolds, PTL

(* The vendor is never asked for more solves in any window than the budget *)
(* pays for (captcha-solver.ts:128-141), whatever the number of calls, the *)
(* budget and the window, and whichever way each call ends.                *)
THEOREM SolvesStayWithinBudget == ToolSpec => []SolvesWithinBudget
<1>1. ToolInv => SolvesWithinBudget
  BY DEF ToolInv, Budget, SolvesWithinBudget, InWindow
<1> QED BY <1>1, ToolInvHolds, PTL
=============================================================================
