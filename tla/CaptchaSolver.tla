--------------------------- MODULE CaptchaSolver ---------------------------
(***************************************************************************)
(* The paid solving service behind the CAPTCHA hook                        *)
(* (HttpCaptchaSolver of verbs/captcha-solver.ts).  One solver serves      *)
(* every session of the process, so its calls overlap: each is validated,  *)
(* charged to a sliding window and sent in one synchronous step, and then  *)
(* awaits the vendor until its own deadline.  Time is counted in ticks.    *)
(* #starts holds one time stamp for each call charged; here it is the set  *)
(* of those calls, and age has the stamps.                                 *)
(***************************************************************************)
EXTENDS PageSignals, FiniteSets

CONSTANTS
    Solve,       \* the calls of solve()
    MaxSolves,   \* the budget: solves per window
    Window,      \* its window, in ticks
    SolveTimeout \* the solver's own limit on a call, in ticks

ASSUME SolverAssumption ==
    {MaxSolves, Window, SolveTimeout} \subseteq Nat \ {0}

VARIABLES
    starts,    \* #starts: the calls charged and not filtered out since
    age,       \* ticks since a call was charged; at the window's end it stays
    posts,     \* history: the calls for which the vendor was asked for a task
    solving    \* per call: where it stands, the ticks left, and how it ended

solverVars == <<starts, age, posts, solving>>

Challenges == [kind : {"recaptcha", "unknown"}, siteKey : BOOLEAN, max : 0..SolveTimeout + 1]
NotSolving == [pc |-> "idle", left |-> 0, code |-> None]

SolverInit ==
    /\ starts = {} /\ posts = {}
    /\ age = [c \in Solve |-> 0]
    /\ solving = [c \in Solve |-> NotSolving]

InWindow(calls) == {c \in calls : age[c] < Window}
solverTaskTypeFor(kind) == IF isSolvableCaptchaKind(kind) THEN kind ELSE None

\* What refuses a challenge before anything is spent on it.
refusal(ch) ==
    IF solverTaskTypeFor(ch.kind) = None THEN "unsupported-kind"
    ELSE IF ~ch.siteKey THEN "missing-sitekey"
    ELSE IF ch.max = 0 THEN "timeout"
    ELSE IF Cardinality(InWindow(starts)) >= MaxSolves THEN "budget-exhausted"
    ELSE None

\* solve() up to its first await: refused, by the budget once it has been
\* filtered, or charged and sent.
Submit(c, ch) ==
    /\ solving[c].pc = "idle"
    /\ \/ /\ refusal(ch) # None
          /\ solving' = [solving EXCEPT ![c] = [NotSolving EXCEPT !.pc = "over", !.code = refusal(ch)]]
          /\ starts' = IF refusal(ch) = "budget-exhausted" THEN InWindow(starts) ELSE starts
          /\ UNCHANGED <<age, posts>>
       \/ /\ refusal(ch) = None
          /\ solving' = [solving EXCEPT ![c] = [NotSolving EXCEPT !.pc = "creating",
                            !.left = IF ch.max < SolveTimeout THEN ch.max ELSE SolveTimeout]]
          /\ starts' = InWindow(starts) \cup {c}
          /\ age' = [age EXCEPT ![c] = 0]
          /\ posts' = posts \cup {c}

\* createTask is answered with a task.
TaskCreated(c) ==
    /\ solving[c].pc = "creating"
    /\ solving' = [solving EXCEPT ![c].pc = "polling"]
    /\ UNCHANGED <<starts, age, posts>>

\* Fault: a solve the vendor failed gives its charge back.
RefundsFailure(c, code) ==
    /\ solving[c].pc \in {"creating", "polling"}
    /\ code = "timeout" => solving[c].left = 0
    /\ code = "solved" => solving[c].pc = "polling"
    /\ solving' = [solving EXCEPT ![c] = [NotSolving EXCEPT !.pc = "over", !.code = code]]
    /\ starts' = IF code = "vendor-error" THEN starts \ {c} ELSE starts
    /\ UNCHANGED <<age, posts>>

\* A call ends: a token, a vendor that errs, redirects or answers nonsense,
\* or the deadline that every request and every pause between polls shares.
\* The core takes the outcome; when it asks again that is another call.
SolveEnds(c, code) ==
    /\ solving[c].pc \in {"creating", "polling"}
    /\ code = "timeout" => solving[c].left = 0
    /\ code = "solved" => solving[c].pc = "polling"
    /\ solving' = [solving EXCEPT ![c] = [NotSolving EXCEPT !.pc = "over", !.code = code]]
    /\ UNCHANGED <<starts, age, posts>>

SolverTick ==
    /\ age' = [c \in Solve |-> IF c \in starts \cup posts /\ age[c] < Window
                               THEN age[c] + 1 ELSE age[c]]
    /\ solving' = [c \in Solve |-> [solving[c] EXCEPT !.left = IF @ > 0 THEN @ - 1 ELSE 0]]
    /\ UNCHANGED <<starts, posts>>

SolverNext ==
    \/ \E c \in Solve :
          \/ \E ch \in Challenges : Submit(c, ch)
          \/ \E code \in {"solved", "vendor-error", "timeout"} : SolveEnds(c, code)
          \/ TaskCreated(c)
    \/ SolverTick

-----------------------------------------------------------------------------
(* The vendor is never asked for more solves in any window than the budget *)
(* pays for (captcha-solver.ts:129-141), however the calls of different    *)
(* sessions overlap and however they end, and a call that asked nothing of *)
(* the vendor leaves the budget to the others.                             *)
SolvesWithinBudget ==
    /\ Cardinality(InWindow(posts)) <= MaxSolves
    /\ InWindow(starts) \subseteq posts
=============================================================================
