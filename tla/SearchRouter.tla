---------------------------- MODULE SearchRouter ----------------------------
(***************************************************************************)
(* The search tool: search/router.ts with the breakers its concurrent      *)
(* searches share, the Brave provider of search/brave.ts, the boot of      *)
(* search/config.ts and the handler of mcp/server.ts.  A search walks the  *)
(* providers in order; it awaits only inside an attempt (and its one       *)
(* retry), so another search may read and write the breakers there.        *)
(* Time is abstracted to the events it causes: a breaker's cooldown is     *)
(* over, a search has too little of its total budget left, an attempt runs *)
(* into its deadline.                                                      *)
(***************************************************************************)
EXTENDS Integers, Sequences, FiniteSets

CONSTANTS
    Search,      \* the searches that may be under way at once
    Provider,    \* the configured providers, in the order they are tried
    Threshold,   \* consecutive failures that open a breaker
    EmptyFallback    \* an empty answer still asks the next provider

ASSUME RouterAssumption ==
    /\ Provider \in Seq(STRING) /\ Len(Provider) > 0
    /\ \A i, j \in 1..Len(Provider) : Provider[i] = Provider[j] => i = j
    /\ Threshold \in Nat \ {0} /\ EmptyFallback \in BOOLEAN

VARIABLES
    env,       \* the search settings the process booted with
    breaker,   \* state of each provider's breaker
    search     \* per search: where it stands and what it has seen

searchVars == <<env, breaker, search>>

Names == {Provider[i] : i \in 1..Len(Provider)}

(***************************************************************************)
(* Boot (buildSearch): off, refused, or serving.                           *)
(***************************************************************************)
SearchEnv == [enabled : BOOLEAN, listed : {"none", "twice", "unknown", "known"}, key : BOOLEAN,
              endpoint : {"https", "http", "invalid", "credentials", "private"}]

searchEndpointError(endpoint) == endpoint # "https"
buildSearch(e) ==
    IF ~e.enabled THEN "off"
    ELSE IF e.listed # "known" \/ ~e.key \/ searchEndpointError(e.endpoint) THEN "error"
    ELSE "on"

(***************************************************************************)
(* The Brave provider: the failure class of what the endpoint answered.    *)
(***************************************************************************)
Answer == {"results", "no-results", "not-json", "no-web", "deadline", "reset"}
              \cup {"302", "401", "402", "404", "418", "422", "429", "500"}

braveStatusToFailureClass(status) ==
    CASE status \in {"302", "404", "500"} -> "provider-unavailable"
      [] status = "401" -> "authentication-failed"
      [] status = "402" -> "quota-exhausted"
      [] status = "429" -> "rate-limited"
      [] status = "422" -> "unsupported-query"
      [] status = "418" -> "malformed-response"

braveSearch(answer) ==
    CASE answer = "results" -> "ok"
      [] answer = "no-results" -> "empty-results"
      [] answer \in {"not-json", "no-web"} -> "malformed-response"
      [] answer = "deadline" -> "timeout"
      [] answer = "reset" -> "network-error"
      [] OTHER -> braveStatusToFailureClass(answer)

(***************************************************************************)
(* Breakers.  A breaker is closed with a count of failures, open until its *)
(* cooldown is over, or half-open while one search probes the provider.    *)
(***************************************************************************)
Closed == [state |-> "closed", failures |-> 0, cooled |-> FALSE]
Open == [state |-> "open", failures |-> 0, cooled |-> FALSE]
HalfOpen == [state |-> "half-open", failures |-> 0, cooled |-> FALSE]

classPolicy(code) ==
    CASE code \in {"authentication-failed", "quota-exhausted"} -> "trip"
      [] code \in {"unsupported-query", "empty-results", "policy-restricted"} -> "none"
      [] OTHER -> "count"

admit(b) == b.state = "closed" \/ (b.state = "open" /\ b.cooled)

\* Fault: an answer that says nothing of the provider's health leaves the probe open.
ForgetsProbe(b, code) ==
    LET policy == classPolicy(code)
    IN  IF policy = "none" THEN b
        ELSE IF b.state = "half-open" \/ policy = "trip" THEN Open
        ELSE IF b.state = "closed"
             THEN IF b.failures + 1 >= Threshold THEN Open ELSE [b EXCEPT !.failures = @ + 1]
             ELSE b

recordFailure(b, code) ==
    LET policy == classPolicy(code)
    IN  IF policy = "none" THEN IF b.state = "half-open" THEN Closed ELSE b
        ELSE IF b.state = "half-open" \/ policy = "trip" THEN Open
        ELSE IF b.state = "closed"
             THEN IF b.failures + 1 >= Threshold THEN Open ELSE [b EXCEPT !.failures = @ + 1]
             ELSE b

CoolDown(p) ==
    /\ breaker[p].state = "open" /\ ~breaker[p].cooled
    /\ breaker' = [breaker EXCEPT ![p].cooled = TRUE]
    /\ UNCHANGED <<env, search>>

(***************************************************************************)
(* One search.                                                             *)
(***************************************************************************)
Idle == [pc |-> "idle", at |-> 1, first |-> "", codes |-> <<>>, cut |-> FALSE,
         emptyFrom |-> "", retried |-> FALSE, answer |-> <<>>]

SearchInit ==
    /\ env \in SearchEnv
    /\ breaker = [p \in Names |-> Closed]
    /\ search = [s \in Search |-> Idle]

StartSearch(s) ==
    /\ search[s].pc \in {"idle", "done"} /\ buildSearch(env) = "on"
    /\ search' = [search EXCEPT ![s] = [Idle EXCEPT !.pc = "choose"]]
    /\ UNCHANGED <<env, breaker>>

\* The class a failed search reports: the one an operator must act on first.
FINAL_CLASS_PRIORITY == <<"authentication-failed", "quota-exhausted", "rate-limited">>
finalClass(q) ==
    LET seen == {i \in DOMAIN FINAL_CLASS_PRIORITY : \E j \in DOMAIN q.codes : q.codes[j] = FINAL_CLASS_PRIORITY[i]}
    IN  IF q.cut THEN "total-deadline-exhausted"
        ELSE IF q.codes = <<>> THEN "provider-unavailable"
        ELSE IF seen # {} THEN FINAL_CLASS_PRIORITY[CHOOSE i \in seen : \A j \in seen : i <= j]
        ELSE q.codes[1]

\* After the last provider: an empty answer beats a failure.
Finish(q) ==
    [Idle EXCEPT !.pc = "done", !.first = q.first,
        !.answer = IF q.emptyFrom # "" THEN <<"empty", q.emptyFrom>> ELSE <<"failed", finalClass(q)>>]

Advance(q) ==
    IF q.at = Len(Provider) \/ (q.emptyFrom # "" /\ ~EmptyFallback)
    THEN Finish(q)
    ELSE [q EXCEPT !.at = @ + 1, !.pc = "choose", !.retried = FALSE]

\* The loop head: too little of the total budget left, a breaker that
\* refuses, or an attempt.  The last provider is asked even behind an open
\* breaker when nobody was asked before it, unless a probe is under way.
Choose(s) ==
    /\ search[s].pc = "choose"
    /\ LET q == search[s]
           p == Provider[q.at]
           b == breaker[p]
           skip == ~admit(b) /\ (q.at < Len(Provider) \/ q.first # "" \/ b.state = "half-open")
       IN  \/ /\ search' = [search EXCEPT ![s] = Finish([q EXCEPT !.cut = TRUE])]
              /\ UNCHANGED breaker
           \/ /\ skip
              /\ search' = [search EXCEPT ![s] = Advance(q)]
              /\ UNCHANGED breaker
           \/ /\ ~skip
              /\ search' = [search EXCEPT ![s] =
                     [q EXCEPT !.pc = "asking", !.first = IF q.first = "" THEN p ELSE q.first]]
              /\ breaker' = IF b.state = "open" /\ b.cooled
                            THEN [breaker EXCEPT ![p] = HalfOpen] ELSE breaker
    /\ UNCHANGED env

\* An attempt ends.  A rate limit with a short Retry-After is retried once
\* within the provider's budget before the breaker hears of it.
Attempt(s, answer) ==
    /\ search[s].pc = "asking"
    /\ LET q == search[s]
           p == Provider[q.at]
           code == braveSearch(answer)
           failed == [q EXCEPT !.codes = Append(@, code)]
           empty == [q EXCEPT !.emptyFrom = IF @ = "" THEN p ELSE @]
       IN  \/ /\ code = "ok"
              /\ breaker' = [breaker EXCEPT ![p] = Closed]
              /\ search' = [search EXCEPT ![s] = [Idle EXCEPT !.pc = "done", !.first = q.first,
                                                               !.answer = <<"ok", p>>]]
           \/ /\ code = "empty-results"
              /\ breaker' = [breaker EXCEPT ![p] = recordFailure(@, code)]
              /\ search' = [search EXCEPT ![s] = Advance(empty)]
           \/ /\ code = "rate-limited" /\ ~q.retried
              /\ search' = [search EXCEPT ![s] = [failed EXCEPT !.retried = TRUE]]
              /\ UNCHANGED breaker
           \/ /\ code \notin {"ok", "empty-results"}
              /\ breaker' = [breaker EXCEPT ![p] = recordFailure(@, code)]
              /\ \E byTotal \in BOOLEAN :
                    /\ byTotal => code = "timeout"
                    /\ search' = [search EXCEPT ![s] =
                           Advance([failed EXCEPT !.cut = q.cut \/ byTotal])]
    /\ UNCHANGED env

SearchNext ==
    \/ \E p \in Names : CoolDown(p)
    \/ \E s \in Search : StartSearch(s) \/ Choose(s) \/ (\E a \in Answer : Attempt(s, a))

-----------------------------------------------------------------------------
(***************************************************************************)
(* Properties.                                                             *)
(***************************************************************************)

(* A breaker is half-open only while a search is asking that provider      *)
(* (router.ts:131-165): whatever the probe's answer, and whatever other    *)
(* searches reported meanwhile, nobody leaves the provider shut out with   *)
(* no probe under way to let it back in.                                   *)
ProbeUnderWay ==
    \A p \in Names : breaker[p].state = "half-open" =>
        \E s \in Search : search[s].pc = "asking" /\ Provider[search[s].at] = p

=============================================================================
