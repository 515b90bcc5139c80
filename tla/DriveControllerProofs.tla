----------------------- MODULE DriveControllerProofs -----------------------
(***************************************************************************)
(* Proofs about DriveController, for any number of calls, sessions and     *)
(* hosts.  The inductive invariant is DriveInv: besides the properties     *)
(* themselves it says who has the turn (Locked) and what each place of a   *)
(* turn says about the session the controller holds (Phases).              *)
(***************************************************************************)
EXTENDS DriveController, FiniteSetTheorems, TLAPS

DriveInv ==
    TypeOK /\ Locked /\ Phases /\ NoSessionLost /\ ModeRemembered /\ LoginRemembered

-----------------------------------------------------------------------------
(* The shape of a step. *)

\* The places a turn may go to are of the right type.
LEMMA TurnTypes ==
    ASSUME TypeOK, NEW c \in Call, NEW w \in {"none", "open", "act", "direct",
               "warm", "pinned", "proxied", "probe", "stop"}, NEW m \in Mode
    PROVE  /\ NoTurn \in Turn /\ Direct \in Mode /\ Residential \in Mode
           /\ Opened(c) \in Turn
           /\ Opening(c, w, m) \in Turn
           /\ Opening(c, w, m).pc = "opening" /\ Opening(c, w, m).way = w
           /\ Opening(c, w, m).probe = turn[c].probe
           /\ Reopening(c, w) \in Turn
           /\ Reopening(c, w).pc = "reopening" /\ Reopening(c, w).way = w
           /\ Reopening(c, w).probe = turn[c].probe
           /\ Running(c, w) \in Turn
           /\ Running(c, w).pc = "running" /\ Running(c, w).way = w
           /\ Running(c, w).probe = turn[c].probe
           /\ Discarding(c, w) \in Turn
           /\ Discarding(c, w).pc = "discarding" /\ Discarding(c, w).way = w
           /\ Discarding(c, w).probe = turn[c].probe
<1>1. turn[c] \in Turn
  BY DEF TypeOK
<1>2. Direct \in Mode /\ Residential \in Mode
  BY DEF Direct, Residential, Mode
<1>3. NoTurn \in Turn
  BY <1>2, DriveAssumption DEF NoTurn, Turn
<1>4. /\ Opening(c, w, m) \in Turn
      /\ Opening(c, w, m).pc = "opening" /\ Opening(c, w, m).way = w
      /\ Opening(c, w, m).probe = turn[c].probe
  BY <1>1 DEF Opening, Turn
<1>6. /\ Reopening(c, w) \in Turn
      /\ Reopening(c, w).pc = "reopening" /\ Reopening(c, w).way = w
      /\ Reopening(c, w).probe = turn[c].probe
  BY <1>1 DEF Reopening, Turn
<1>7. /\ Running(c, w) \in Turn
      /\ Running(c, w).pc = "running" /\ Running(c, w).way = w
      /\ Running(c, w).probe = turn[c].probe
  BY <1>1 DEF Running, Turn
<1>8. /\ Discarding(c, w) \in Turn
      /\ Discarding(c, w).pc = "discarding" /\ Discarding(c, w).way = w
      /\ Discarding(c, w).probe = turn[c].probe
  BY <1>1 DEF Discarding, Turn
<1>5. Opened(c) \in Turn
  <2>1. [turn[c] EXCEPT !.pc = "running"] \in Turn
    BY <1>1 DEF Turn
  <2>2. ASSUME turn[c].warmups < 2
        PROVE  [turn[c] EXCEPT !.pc = "warming",
                               !.warmups = turn[c].warmups + 1] \in Turn
    <3>1. turn[c].warmups \in 0..2
      BY <1>1 DEF Turn
    <3>2. turn[c].warmups + 1 \in 0..2
      BY <2>2, <3>1
    <3> QED BY <1>1, <3>2 DEF Turn
  <2> QED BY <2>1, <2>2 DEF Opened
<1> QED BY <1>2, <1>3, <1>4, <1>5, <1>6, <1>7, <1>8

\* What Phases says of one turn t, for a controller with handle h, pinned p and
\* target host n, and a call for host r.
Fits(t, h, p, n, r) ==
    /\ t.pc \in {"reopening", "opening", "discarding"} => h = NoSid
    /\ t.pc = "warming" => h # NoSid /\ t.way # "probe"
    /\ t.pc = "running" => (t.way = "probe" <=> h = NoSid)
    /\ t.probe # NoSid => t.pc = "running" /\ t.way = "probe"
    /\ t.pc \notin {"idle", "queued"} /\ t.way \in NavigateWay => n = r
    /\ t.pc \notin {"idle", "queued"} /\ t.way \in FirstWay => ~p

\* The call c is first in the queue.
First(c) == queue # <<>> /\ Head(queue) = c

\* Only the first call is active, so a step of the first one may change the
\* controller without disturbing the turn of another.
LEMMA OthersWait ==
    ASSUME Locked, Phases, NEW c \in Call, First(c), NEW d \in Call, d # c
    PROVE  turn[d].pc \in {"idle", "queued"} /\ turn[d].probe = NoSid
BY DEF Locked, Phases, First, Active

\* The turn of the first call changes to t, and nobody else's.
Moves(c, t) ==
    /\ turn' \in [Call -> Turn] /\ turn'[c] = t
    /\ \A d \in Call : d # c => turn'[d] = turn[d]

LEMMA ContinueMoves ==
    ASSUME TypeOK, NEW c \in Call, NEW t \in Turn, Continue(c, t)
    PROVE  Moves(c, t) /\ queue' = queue /\ req' = req /\ budget' = budget
BY DEF Continue, TypeOK, Moves

LEMMA EndTurnMoves ==
    ASSUME TypeOK, NEW c \in Call, EndTurn(c), queue # <<>>
    PROVE  /\ Moves(c, NoTurn)
           /\ queue' \in Seq(Call)
           /\ req' \in [Call -> Request]
           /\ budget' \in [Call -> {"ample", "low", "spent"}]
           /\ navHost' = NoHost
<1>1. NoTurn \in Turn /\ NoRequest \in Request
  BY DriveAssumption DEF NoTurn, Turn, Direct, Mode, NoRequest, Request, Verb
<1>2. /\ queue \in Seq(Call) /\ req \in [Call -> Request]
      /\ budget \in [Call -> {"ample", "low", "spent"}]
      /\ turn \in [Call -> Turn]
  BY DEF TypeOK
<1>3. queue' \in Seq(Call)
  BY <1>2 DEF EndTurn
<1> QED BY <1>1, <1>2, <1>3 DEF EndTurn, Moves

\* A step of the first call that ends its turn, or leaves it in a place that
\* fits, keeps the order of the turns and the places of all of them.
LEMMA MovesKeepPhases ==
    ASSUME TypeOK, Locked, Phases, NEW c \in Call, First(c),
           NEW t \in Turn, Moves(c, t),
           \/ t = NoTurn
           \/ queue' = queue /\ req' = req
                /\ Fits(t, handle', pinned', navHost', req[c].host)
    PROVE  Locked' /\ Phases'
<1>1. ASSUME NEW d \in Call, d # c
      PROVE  turn'[d].pc \in {"idle", "queued"} /\ turn'[d].probe = NoSid
  BY <1>1, OthersWait DEF Moves
<1>2. turn'[c] = t
  BY DEF Moves
<1>3. Locked'
  BY <1>1, <1>2 DEF Locked, Active, First, NoTurn
<1>4. Phases'
  <2>1. CASE t = NoTurn
    BY <1>1, <1>2, <2>1 DEF Phases, Active, NoTurn
  <2>2. CASE queue' = queue /\ req' = req
                /\ Fits(t, handle', pinned', navHost', req[c].host)
    BY <1>1, <1>2, <2>2 DEF Phases, Active, Fits
  <2> QED BY <2>1, <2>2
<1> QED BY <1>3, <1>4

-----------------------------------------------------------------------------
(* Kinds of steps. *)

\* A turn that ends, with the session as it was or forgotten because it is gone.
LEMMA EndsKeep ==
    ASSUME DriveInv, NEW c \in Call, First(c), EndTurn(c), turn[c].probe = NoSid,
           UNCHANGED <<proxied, warmHost, world>>, pinned' \in BOOLEAN,
           handle' = handle \/ (handle' = NoSid /\ ~Live(handle))
    PROVE  DriveInv'
<1> USE DEF world
<1>1. TypeOK /\ Locked /\ Phases
  BY DEF DriveInv
<1>2. /\ Moves(c, NoTurn) /\ navHost' = NoHost
      /\ queue' \in Seq(Call) /\ req' \in [Call -> Request]
      /\ budget' \in [Call -> {"ample", "low", "spent"}]
  BY <1>1, EndTurnMoves DEF First
<1>3. NoTurn \in Turn
  BY <1>2 DEF Moves
<1>4. TypeOK'
  BY <1>1, <1>2 DEF TypeOK, Moves
<1>5. Locked' /\ Phases'
  BY <1>1, <1>2, <1>3, MovesKeepPhases
<1>6. NoSessionLost'
  <2> SUFFICES ASSUME NEW s \in Sid, Live(s), s # handle'
               PROVE  \E d \in Call : turn'[d].probe = s
    BY DEF NoSessionLost, Live
  <2>1. s # handle
    BY DriveAssumption
  <2>2. PICK d \in Call : turn[d].probe = s
    BY <2>1 DEF DriveInv, NoSessionLost
  <2>3. d # c
    BY <2>2, DriveAssumption
  <2> QED BY <1>2, <2>2, <2>3 DEF Moves
<1>7. ModeRemembered' /\ LoginRemembered'
  BY DEF DriveInv, ModeRemembered, LoginRemembered, Live
<1> QED BY <1>4, <1>5, <1>6, <1>7 DEF DriveInv

\* A turn that goes on with the session as it was.
LEMMA StaysKeep ==
    ASSUME DriveInv, NEW c \in Call, First(c), turn[c].probe = NoSid,
           NEW t \in Turn, Continue(c, t), t.probe = NoSid,
           UNCHANGED <<held, world>>, navHost' \in Host \cup {NoHost},
           Fits(t, handle, pinned, navHost', req[c].host)
    PROVE  DriveInv'
<1> USE DEF held, world
<1>1. TypeOK /\ Locked /\ Phases
  BY DEF DriveInv
<1>2. Moves(c, t) /\ queue' = queue /\ req' = req /\ budget' = budget
  BY <1>1, ContinueMoves
<1>3. TypeOK'
  BY <1>1, <1>2 DEF TypeOK, Moves
<1>4. Locked' /\ Phases'
  BY <1>1, <1>2, MovesKeepPhases
<1>5. NoSessionLost'
  <2> SUFFICES ASSUME NEW s \in Sid, Live(s), s # handle
               PROVE  \E d \in Call : turn'[d].probe = s
    BY DEF NoSessionLost, Live
  <2>1. PICK d \in Call : turn[d].probe = s
    BY DEF DriveInv, NoSessionLost
  <2>2. d # c
    BY <2>1, DriveAssumption
  <2> QED BY <1>2, <2>1, <2>2 DEF Moves
<1>6. ModeRemembered' /\ LoginRemembered'
  BY DEF DriveInv, ModeRemembered, LoginRemembered, Live
<1> QED BY <1>3, <1>4, <1>5, <1>6 DEF DriveInv

\* A turn that gives up the session and awaits its release.
LEMMA DiscardsKeep ==
    ASSUME DriveInv, NEW c \in Call, First(c), turn[c].probe = NoSid,
           NEW t \in Turn, Continue(c, t), t.pc = "discarding", t.probe = NoSid,
           Discard, UNCHANGED <<vault, proxy>>, navHost' \in Host \cup {NoHost},
           t.way \in NavigateWay => navHost' = req[c].host
    PROVE  DriveInv'
<1>1. TypeOK /\ Locked /\ Phases
  BY DEF DriveInv
<1>2. Moves(c, t) /\ queue' = queue /\ req' = req /\ budget' = budget
  BY <1>1, ContinueMoves
<1>3. /\ handle' = NoSid /\ pinned' = FALSE /\ proxied' = FALSE /\ warmHost' = NoHost
      /\ sess' \in [Sid -> Session]
      /\ \A s \in Sid : sess'[s].at = "open" => s # handle /\ sess'[s] = sess[s]
  BY <1>1 DEF Discard, TypeOK, Session
<1>4. TypeOK'
  BY <1>1, <1>2, <1>3 DEF TypeOK, Moves
<1>5. Fits(t, handle', pinned', navHost', req[c].host)
  BY <1>3 DEF Fits
<1>6. Locked' /\ Phases'
  BY <1>1, <1>2, <1>5, MovesKeepPhases
<1>7. NoSessionLost'
  <2> SUFFICES ASSUME NEW s \in Sid, sess'[s].at = "open"
               PROVE  \E d \in Call : turn'[d].probe = s
    BY DEF NoSessionLost, Live
  <2>1. s # handle /\ Live(s)
    BY <1>3, DriveAssumption DEF Live
  <2>2. PICK d \in Call : turn[d].probe = s
    BY <2>1 DEF DriveInv, NoSessionLost
  <2>3. d # c
    BY <2>2, DriveAssumption
  <2> QED BY <1>2, <2>2, <2>3 DEF Moves
<1>8. ModeRemembered' /\ LoginRemembered'
  BY <1>3 DEF ModeRemembered, LoginRemembered, Live
<1> QED BY <1>4, <1>6, <1>7, <1>8 DEF DriveInv

-----------------------------------------------------------------------------
(* The actions of a turn. *)

\* Whoever takes a step of a turn is first in the queue, and holds a probe only
\* while the probe runs.
LEMMA StepIsFirst ==
    ASSUME DriveInv, NEW c \in Call,
           Active(c) \/ (\E v \in Verb : HasTurn(c, v))
    PROVE  /\ First(c)
           /\ turn[c] \in Turn /\ req[c] \in Request
           /\ Fits(turn[c], handle, pinned, navHost, req[c].host)
           /\ ~(turn[c].pc = "running" /\ turn[c].way = "probe")
                 => turn[c].probe = NoSid
BY DEF DriveInv, TypeOK, Locked, Phases, HasTurn, First, Active, Fits

\* A login is restored in some mode.
LEMMA WarmModesAreModes ==
    ASSUME TypeOK, NEW h \in Host \cup {NoHost}, NEW m \in WarmModes(h)
    PROVE  m \in Mode
<1>1. PICK p \in {FALSE, proxy} : m = [proxied |-> p, owner |-> h]
  BY DEF WarmModes
<1>2. p \in BOOLEAN
  BY Zenon DEF TypeOK
<1> QED BY <1>1, <1>2 DEF Mode

\* The first step of a turn.
LEMMA BeginKeeps ==
    ASSUME DriveInv, NEW c \in Call, BeginStep(c)
    PROVE  DriveInv'
<1>1. \E v \in Verb : HasTurn(c, v)
  BY DEF BeginStep, OpenBegins, ActBegins, CloseBegins, NavigateRefused,
         FirstNavigateBegins, PinnedNavigateBegins, Verb
<1>2. /\ First(c) /\ turn[c].pc = "queued" /\ turn[c].probe = NoSid
      /\ turn[c] \in Turn /\ req[c] \in Request /\ TypeOK
  BY <1>1, StepIsFirst DEF HasTurn, DriveInv
<1>3. /\ handle \in Sid \cup {NoSid} /\ pinned \in BOOLEAN
      /\ req[c].host \in Host \cup {NoHost} /\ navHost \in Host \cup {NoHost}
  BY <1>2 DEF TypeOK, Request
<1>4. Direct \in Mode /\ Residential \in Mode
  BY DEF Direct, Residential, Mode
<1>5. ASSUME EndTurn(c), UNCHANGED <<held, world>>
      PROVE  DriveInv'
  BY <1>2, <1>3, <1>5, EndsKeep DEF held
<1>6. CASE OpenBegins(c)
  <2>1. CASE handle = NoSid
    <3>1. /\ Opening(c, "open", Direct) \in Turn
          /\ Opening(c, "open", Direct).probe = NoSid
          /\ Fits(Opening(c, "open", Direct), handle, pinned, navHost, req[c].host)
      BY <1>2, <1>4, <2>1, TurnTypes DEF Fits, NavigateWay, FirstWay
    <3> QED BY <1>2, <1>3, <1>6, <2>1, <3>1, StaysKeep DEF OpenBegins, fields
  <2>2. CASE handle # NoSid
    BY <1>5, <1>6, <2>2 DEF OpenBegins
  <2> QED BY <2>1, <2>2
<1>7. CASE ActBegins(c)
  <2>1. CASE handle # NoSid
    <3>1. /\ Running(c, "act") \in Turn /\ Running(c, "act").probe = NoSid
          /\ Fits(Running(c, "act"), handle, pinned, navHost, req[c].host)
      BY <1>2, <1>4, <2>1, TurnTypes DEF Fits, NavigateWay, FirstWay
    <3> QED BY <1>2, <1>3, <1>7, <2>1, <3>1, StaysKeep DEF ActBegins, fields
  <2>2. CASE handle = NoSid
    BY <1>5, <1>7, <2>2 DEF ActBegins
  <2> QED BY <2>1, <2>2
<1>8. CASE CloseBegins(c)
  <2>1. /\ Discarding(c, "stop") \in Turn
        /\ Discarding(c, "stop").pc = "discarding"
        /\ Discarding(c, "stop").way = "stop"
        /\ Discarding(c, "stop").probe = NoSid
    BY <1>2, <1>4, TurnTypes
  <2> QED BY <1>2, <1>3, <1>8, <2>1, DiscardsKeep DEF CloseBegins, NavigateWay
<1>9. CASE NavigateRefused(c)
  BY <1>5, <1>9 DEF NavigateRefused
<1>10. CASE FirstNavigateBegins(c)
  <2>1. ~pinned /\ FirstNavigate(c) /\ UNCHANGED <<vault, proxy>>
    BY <1>10 DEF FirstNavigateBegins
  <2>2. ASSUME NEW m \in WarmModes(req[c].host), Discard,
               Continue(c, [Discarding(c, "warm") EXCEPT !.want = m]),
               navHost' = req[c].host
        PROVE  DriveInv'
    <3>1. m \in Mode
      BY <1>2, <1>3, <2>2, WarmModesAreModes
    <3> DEFINE t == [Discarding(c, "warm") EXCEPT !.want = m]
    <3>2. t \in Turn /\ t.pc = "discarding" /\ t.probe = NoSid
      BY <1>2, <3>1 DEF Discarding, Turn
    <3> QED BY <1>2, <1>3, <2>1, <2>2, <3>2, DiscardsKeep
  <2>3. ASSUME Discard, Continue(c, Discarding(c, "proxied")), navHost' = req[c].host
        PROVE  DriveInv'
    <3>1. /\ Discarding(c, "proxied") \in Turn
          /\ Discarding(c, "proxied").pc = "discarding"
          /\ Discarding(c, "proxied").probe = NoSid
      BY <1>2, <1>4, TurnTypes
    <3> QED BY <1>2, <1>3, <2>1, <2>3, <3>1, DiscardsKeep
  <2>4. ASSUME EndTurn(c), UNCHANGED <<held, sess>>
        PROVE  DriveInv'
    BY <1>5, <2>1, <2>4 DEF world
  <2>5. ASSUME Continue(c, IF handle = NoSid THEN Opening(c, "direct", Direct)
                                             ELSE Running(c, "direct")),
               navHost' = req[c].host, UNCHANGED <<held, sess>>
        PROVE  DriveInv'
    <3> DEFINE t == IF handle = NoSid THEN Opening(c, "direct", Direct)
                                      ELSE Running(c, "direct")
    <3>1. t \in Turn
      BY <1>2, <1>4, TurnTypes
    <3>2. t.probe = NoSid /\ Fits(t, handle, pinned, navHost', req[c].host)
      BY <1>2, <1>4, <2>1, <2>5, TurnTypes DEF Fits
    <3>3. navHost' \in Host \cup {NoHost} /\ Continue(c, t) /\ UNCHANGED world
      BY <1>3, <2>1, <2>5 DEF world
    <3> HIDE DEF t
    <3> QED BY <1>2, <2>5, <3>1, <3>2, <3>3, StaysKeep
  <2> QED BY <2>1, <2>2, <2>3, <2>4, <2>5 DEF FirstNavigate
<1>11. CASE PinnedNavigateBegins(c)
  <2> DEFINE t == IF handle = NoSid THEN Reopening(c, "pinned")
                                    ELSE Running(c, "pinned")
  <2>1. t \in Turn
    BY <1>2, <1>4, TurnTypes
  <2>2. t.probe = NoSid /\ Fits(t, handle, pinned, req[c].host, req[c].host)
    BY <1>2, <1>4, TurnTypes DEF Fits, FirstWay
  <2>3. /\ navHost' = req[c].host /\ navHost' \in Host \cup {NoHost}
        /\ Continue(c, t) /\ UNCHANGED <<held, world>>
    BY <1>3, <1>11 DEF PinnedNavigateBegins
  <2> HIDE DEF t
  <2> QED BY <1>2, <2>1, <2>2, <2>3, StaysKeep
<1> QED BY <1>6, <1>7, <1>8, <1>9, <1>10, <1>11 DEF BeginStep

\* Where a turn goes once its session is open.
LEMMA OpenedFields ==
    ASSUME TypeOK, NEW c \in Call
    PROVE  /\ Opened(c) \in Turn /\ Opened(c).pc \in {"warming", "running"}
           /\ Opened(c).way = turn[c].way /\ Opened(c).probe = turn[c].probe
<1>1. turn[c] \in Turn
  BY DEF TypeOK
<1>2. Direct \in Mode
  BY DEF Direct, Mode
<1>3. Opened(c) \in Turn
  BY <1>2, TurnTypes
<1> QED BY <1>1, <1>3 DEF Opened, Turn

\* The session the controller asked for arrives.
LEMMA OpenResolvesKeeps ==
    ASSUME DriveInv, NEW c \in Call, NEW s \in Sid, OpenResolves(c, s)
    PROVE  DriveInv'
<1>1. /\ TypeOK /\ Locked /\ Phases /\ Active(c)
      /\ turn[c].pc = "opening" /\ turn[c].way # "probe"
  BY DEF DriveInv, OpenResolves, Active
<1>2. /\ First(c) /\ turn[c] \in Turn /\ turn[c].probe = NoSid
      /\ Fits(turn[c], handle, pinned, navHost, req[c].host)
  BY <1>1, StepIsFirst
<1>3. handle = NoSid
  BY <1>1, <1>2 DEF Fits
<1>4. turn[c].want \in Mode
  BY <1>2 DEF Turn
<1>5. /\ sess' = [sess EXCEPT ![s] = [at |-> "open", mode |-> turn[c].want]]
      /\ handle' = s /\ proxied' = turn[c].want.proxied
      /\ warmHost' = IF turn[c].want.owner = NoHost THEN warmHost
                                                   ELSE turn[c].want.owner
      /\ UNCHANGED <<pinned, vault, proxy>>
  BY DEF OpenResolves, OpenSession, OpenSessionWarm
<1>6. /\ proxied' \in BOOLEAN /\ warmHost' \in Host \cup {NoHost}
      /\ sess' \in [Sid -> Session]
      /\ sess'[s] = [at |-> "open", mode |-> turn[c].want]
      /\ \A r \in Sid : r # s => sess'[r] = sess[r]
  BY <1>1, <1>4, <1>5 DEF TypeOK, Session, Mode
<1>7. ASSUME NEW r \in Sid, r # s
      PROVE  sess'[r].at # "open"
  <2>1. \A d \in Call : turn[d].probe = NoSid
    BY <1>1, <1>2, OthersWait
  <2> QED BY <1>3, <1>6, <1>7, <2>1, DriveAssumption DEF DriveInv, NoSessionLost, Live
<1>8. NoSessionLost' /\ ModeRemembered' /\ LoginRemembered'
  BY <1>5, <1>6, <1>7 DEF NoSessionLost, ModeRemembered, LoginRemembered, Live
<1>9. CASE turn[c].way = "open"
  <2>1. EndTurn(c)
    BY <1>9 DEF OpenResolves
  <2>2. /\ Moves(c, NoTurn) /\ navHost' = NoHost
        /\ queue' \in Seq(Call) /\ req' \in [Call -> Request]
        /\ budget' \in [Call -> {"ample", "low", "spent"}]
    BY <1>1, <1>2, <2>1, EndTurnMoves DEF First
  <2>3. NoTurn \in Turn
    BY <2>2 DEF Moves
  <2>4. TypeOK'
    BY <1>1, <1>5, <1>6, <2>2 DEF TypeOK, Moves
  <2>5. Locked' /\ Phases'
    BY <1>1, <1>2, <2>2, <2>3, MovesKeepPhases
  <2> QED BY <1>8, <2>4, <2>5 DEF DriveInv
<1>10. CASE turn[c].way # "open"
  <2>1. Continue(c, Opened(c)) /\ navHost' = navHost
    BY <1>10 DEF OpenResolves
  <2>2. /\ Opened(c) \in Turn /\ Opened(c).pc \in {"warming", "running"}
        /\ Opened(c).way = turn[c].way /\ Opened(c).probe = turn[c].probe
    BY <1>1, OpenedFields
  <2>3. /\ Moves(c, Opened(c))
        /\ queue' = queue /\ req' = req /\ budget' = budget
    BY <1>1, <2>1, <2>2, ContinueMoves
  <2>4. Fits(Opened(c), handle', pinned', navHost', req[c].host)
    BY <1>1, <1>2, <1>5, <2>1, <2>2, DriveAssumption DEF Fits
  <2>5. TypeOK'
    BY <1>1, <1>5, <1>6, <2>1, <2>3 DEF TypeOK, Moves
  <2>6. Locked' /\ Phases'
    BY <1>1, <1>2, <2>2, <2>3, <2>4, MovesKeepPhases
  <2> QED BY <1>8, <2>5, <2>6 DEF DriveInv
<1> QED BY <1>9, <1>10

\* The session of the egress probe arrives.
LEMMA ProbeOpensKeeps ==
    ASSUME DriveInv, NEW c \in Call, NEW s \in Sid, ProbeOpens(c, s)
    PROVE  DriveInv'
<1>1. /\ TypeOK /\ Locked /\ Phases /\ Active(c)
      /\ turn[c].pc = "opening" /\ turn[c].way = "probe"
  BY DEF DriveInv, ProbeOpens, Active
<1>2. /\ First(c) /\ turn[c] \in Turn /\ turn[c].probe = NoSid /\ handle = NoSid
  BY <1>1, StepIsFirst DEF Fits
<1> DEFINE t == [Running(c, "probe") EXCEPT !.probe = s]
<1>3. /\ t \in Turn /\ t.pc = "running" /\ t.way = "probe" /\ t.probe = s
  BY <1>2 DEF Running, Turn
<1>4. /\ sess' = [sess EXCEPT ![s] = [at |-> "open", mode |-> turn[c].want]]
      /\ Continue(c, t) /\ UNCHANGED <<fields, vault, proxy>>
  BY DEF ProbeOpens
<1> HIDE DEF t
<1>5. Moves(c, t) /\ queue' = queue /\ req' = req /\ budget' = budget
  BY <1>1, <1>3, <1>4, ContinueMoves
<1>6. /\ sess' \in [Sid -> Session]
      /\ \A r \in Sid : r # s => sess'[r] = sess[r]
  BY <1>1, <1>2, <1>4 DEF TypeOK, Session, Turn
<1>7. TypeOK'
  BY <1>1, <1>4, <1>5, <1>6 DEF TypeOK, Moves, fields, held
<1>8. Fits(t, handle', pinned', navHost', req[c].host)
  BY <1>2, <1>3, <1>4 DEF Fits, fields, held, NavigateWay, FirstWay
<1>9. Locked' /\ Phases'
  BY <1>1, <1>2, <1>3, <1>5, <1>8, MovesKeepPhases
<1>10. NoSessionLost'
  <2> SUFFICES ASSUME NEW r \in Sid, sess'[r].at = "open", r # s
               PROVE  FALSE
    BY <1>3, <1>5 DEF NoSessionLost, Live, Moves
  <2>1. \A d \in Call : turn[d].probe = NoSid
    BY <1>1, <1>2, OthersWait
  <2> QED BY <1>2, <1>6, <2>1, DriveAssumption DEF DriveInv, NoSessionLost, Live
<1>11. ModeRemembered' /\ LoginRemembered'
  BY <1>2, <1>4 DEF ModeRemembered, LoginRemembered, Live, fields, held
<1> QED BY <1>7, <1>9, <1>10, <1>11 DEF DriveInv

\* The probe is over and its session is closed.
LEMMA ProbeClosesKeeps ==
    ASSUME DriveInv, NEW c \in Call, ProbeCloses(c)
    PROVE  DriveInv'
<1>1. /\ TypeOK /\ Locked /\ Phases /\ Active(c)
      /\ turn[c].pc = "running" /\ turn[c].way = "probe"
  BY DEF DriveInv, ProbeCloses, Active
<1>2. First(c) /\ turn[c] \in Turn /\ handle = NoSid
  BY <1>1, StepIsFirst DEF Fits
<1> DEFINE t == [Discarding(c, "stop") EXCEPT !.probe = NoSid]
           p == turn[c].probe
<1>3. /\ t \in Turn /\ t.pc = "discarding" /\ t.way = "stop" /\ t.probe = NoSid
  BY <1>2 DEF Discarding, Turn
<1>4. /\ sess' = [sess EXCEPT ![p].at = IF @ = "open" THEN "closing" ELSE @]
      /\ Continue(c, t) /\ UNCHANGED <<fields, vault, proxy>>
  BY DEF ProbeCloses
<1> HIDE DEF t
<1>5. Moves(c, t) /\ queue' = queue /\ req' = req /\ budget' = budget
  BY <1>1, <1>3, <1>4, ContinueMoves
<1>6. /\ sess' \in [Sid -> Session]
      /\ \A r \in Sid : sess'[r].at = "open" => r # p /\ sess'[r] = sess[r]
  BY <1>1, <1>4 DEF TypeOK, Session
<1>7. TypeOK'
  BY <1>1, <1>4, <1>5, <1>6 DEF TypeOK, Moves, fields, held
<1>8. Fits(t, handle', pinned', navHost', req[c].host)
  BY <1>2, <1>3, <1>4 DEF Fits, fields, held, NavigateWay, FirstWay
<1>9. Locked' /\ Phases'
  BY <1>1, <1>2, <1>3, <1>5, <1>8, MovesKeepPhases
<1>10. NoSessionLost'
  <2> SUFFICES ASSUME NEW r \in Sid, sess'[r].at = "open"
               PROVE  FALSE
    BY DEF NoSessionLost, Live
  <2>1. \A d \in Call : d # c => turn[d].probe = NoSid
    BY <1>1, <1>2, OthersWait
  <2> QED BY <1>2, <1>6, <2>1, DriveAssumption DEF DriveInv, NoSessionLost, Live
<1>11. ModeRemembered' /\ LoginRemembered'
  BY <1>2, <1>4 DEF ModeRemembered, LoginRemembered, Live, fields, held
<1> QED BY <1>7, <1>9, <1>10, <1>11 DEF DriveInv

\* A step of the controller toward a session.
LEMMA OpenStepKeeps ==
    ASSUME DriveInv, NEW c \in Call, OpenStep(c)
    PROVE  DriveInv'
<1>1. CASE \E s \in Sid : OpenResolves(c, s) \/ ProbeOpens(c, s)
  BY <1>1, OpenResolvesKeeps, ProbeOpensKeeps
<1>2. CASE OpenRejects(c)
  <2>1. Active(c) /\ turn[c].pc = "opening" /\ TypeOK
    BY <1>2 DEF OpenRejects, Active, DriveInv
  <2>2. First(c) /\ turn[c].probe = NoSid
    BY <2>1, StepIsFirst
  <2>3. EndTurn(c) /\ UNCHANGED <<held, world>> /\ pinned \in BOOLEAN
    BY <1>2, <2>1 DEF OpenRejects, TypeOK
  <2> QED BY <2>2, <2>3, EndsKeep DEF held
<1>3. CASE EnsureOpen(c)
  <2>1. Active(c) /\ turn[c].pc = "reopening" /\ TypeOK
    BY <1>3 DEF EnsureOpen, Active, DriveInv
  <2>2. /\ First(c) /\ turn[c].probe = NoSid /\ turn[c] \in Turn
        /\ Fits(turn[c], handle, pinned, navHost, req[c].host)
    BY <2>1, StepIsFirst
  <2>3. /\ navHost \in Host \cup {NoHost} /\ warmHost \in Host \cup {NoHost}
        /\ turn[c].way \in {"none", "open", "act", "direct", "warm", "pinned",
                            "proxied", "probe", "stop"}
    BY <2>1, <2>2 DEF TypeOK, Turn
  <2>4. Direct \in Mode /\ Residential \in Mode
    BY DEF Direct, Residential, Mode
  <2>5. UNCHANGED <<vault, proxy>> /\ handle = NoSid /\ pinned \in BOOLEAN
    BY <1>3, <2>1, <2>2 DEF EnsureOpen, TypeOK, Fits
  <2>6. ASSUME NEW m \in Mode, Continue(c, Opening(c, turn[c].way, m)),
               UNCHANGED <<fields, sess>>
        PROVE  DriveInv'
    <3> DEFINE t == Opening(c, turn[c].way, m)
    <3>1. /\ t \in Turn /\ t.pc = "opening" /\ t.way = turn[c].way
          /\ t.probe = NoSid
      BY <2>1, <2>2, <2>3, TurnTypes
    <3> HIDE DEF t
    <3>2. Fits(t, handle, pinned, navHost, req[c].host)
      BY <2>1, <2>2, <2>5, <3>1 DEF Fits
    <3>3. UNCHANGED <<held, world>> /\ navHost' = navHost
      BY <2>5, <2>6 DEF fields, world
    <3>4. Continue(c, t)
      BY <2>6 DEF t
    <3> QED BY <2>2, <2>3, <3>1, <3>2, <3>3, <3>4, StaysKeep
  <2>7. ASSUME EndTurn(c), UNCHANGED <<held, sess>>
        PROVE  DriveInv'
    BY <2>2, <2>5, <2>7, EndsKeep DEF held, world
  <2>8. ASSUME Discard, Continue(c, Discarding(c, "stop")), UNCHANGED navHost
        PROVE  DriveInv'
    <3>1. /\ Discarding(c, "stop") \in Turn
          /\ Discarding(c, "stop").pc = "discarding"
          /\ Discarding(c, "stop").way = "stop"
          /\ Discarding(c, "stop").probe = NoSid
      BY <2>1, <2>2, <2>4, TurnTypes
    <3> QED BY <2>2, <2>3, <2>5, <2>8, <3>1, DiscardsKeep DEF NavigateWay
  <2>9. ASSUME NEW m \in WarmModes(warmHost), Continue(c, Opening(c, turn[c].way, m)),
               UNCHANGED <<held, sess>>, UNCHANGED navHost
        PROVE  DriveInv'
    <3>1. m \in Mode
      BY <2>1, <2>3, <2>9, WarmModesAreModes
    <3> QED BY <2>6, <2>9, <3>1 DEF fields
  <2>10. ASSUME Continue(c, Opening(c, turn[c].way,
                           IF proxied /\ proxy THEN Residential ELSE Direct)),
                UNCHANGED <<fields, sess>>
         PROVE  DriveInv'
    <3>1. (IF proxied /\ proxy THEN Residential ELSE Direct) \in Mode
      BY <2>4
    <3> QED BY <2>6, <2>10, <3>1
  <2> QED BY <1>3, <2>7, <2>8, <2>9, <2>10 DEF EnsureOpen
<1> QED BY <1>1, <1>2, <1>3 DEF OpenStep

\* The session was found gone in a warm-up: the handle is forgotten and the
\* turn goes back to reopen.
LEMMA WarmupLosesSessionKeeps ==
    ASSUME DriveInv, NEW c \in Call, WarmupLosesSession(c)
    PROVE  DriveInv'
<1>1. /\ TypeOK /\ Locked /\ Phases /\ Active(c) /\ turn[c].pc = "warming"
      /\ sess[handle].at = "gone"
  BY DEF DriveInv, WarmupLosesSession, Active
<1>2. /\ First(c) /\ turn[c] \in Turn /\ turn[c].probe = NoSid
      /\ Fits(turn[c], handle, pinned, navHost, req[c].host)
  BY <1>1, StepIsFirst
<1>3. turn[c].way \in {"none", "open", "act", "direct", "warm", "pinned",
                       "proxied", "probe", "stop"}
  BY <1>2 DEF Turn
<1>4. Direct \in Mode
  BY DEF Direct, Mode
<1> DEFINE t == Reopening(c, turn[c].way)
<1>5. t \in Turn /\ t.pc = "reopening" /\ t.way = turn[c].way /\ t.probe = NoSid
  BY <1>1, <1>2, <1>3, <1>4, TurnTypes
<1>6. /\ handle' = NoSid /\ Continue(c, t)
      /\ UNCHANGED <<pinned, proxied, warmHost, navHost, world>>
  BY DEF WarmupLosesSession
<1> HIDE DEF t
<1>7. Moves(c, t) /\ queue' = queue /\ req' = req /\ budget' = budget
  BY <1>1, <1>5, <1>6, ContinueMoves
<1>8. TypeOK'
  BY <1>1, <1>6, <1>7 DEF TypeOK, Moves, world
<1>9. Fits(t, handle', pinned', navHost', req[c].host)
  BY <1>1, <1>2, <1>5, <1>6 DEF Fits
<1>10. Locked' /\ Phases'
  BY <1>1, <1>2, <1>5, <1>7, <1>9, MovesKeepPhases
<1>11. NoSessionLost'
  <2> SUFFICES ASSUME NEW s \in Sid, sess'[s].at = "open"
               PROVE  \E d \in Call : turn'[d].probe = s
    BY DEF NoSessionLost, Live
  <2>1. s # handle /\ Live(s)
    BY <1>1, <1>6, DriveAssumption DEF Live, world
  <2>2. PICK d \in Call : turn[d].probe = s
    BY <2>1 DEF DriveInv, NoSessionLost
  <2>3. d # c
    BY <1>2, <2>2, DriveAssumption
  <2> QED BY <1>7, <2>2, <2>3 DEF Moves
<1>12. ModeRemembered' /\ LoginRemembered'
  BY <1>6 DEF ModeRemembered, LoginRemembered, Live
<1> QED BY <1>8, <1>10, <1>11, <1>12 DEF DriveInv

\* A verb on the session ends.
LEMMA RunStepKeeps ==
    ASSUME DriveInv, NEW c \in Call, RunStep(c)
    PROVE  DriveInv'
<1>1. TypeOK /\ Active(c)
  BY DEF DriveInv, RunStep, Active, WarmupReturns, WarmupLosesSession, ActReturns,
         RunThrows, ProbeCloses, NavigateSettles, NavigateFails
<1>2. /\ First(c) /\ turn[c] \in Turn
      /\ Fits(turn[c], handle, pinned, navHost, req[c].host)
      /\ ~(turn[c].pc = "running" /\ turn[c].way = "probe") => turn[c].probe = NoSid
  BY <1>1, StepIsFirst
<1>3. /\ pinned \in BOOLEAN /\ navHost \in Host \cup {NoHost}
      /\ turn[c].way \in {"none", "open", "act", "direct", "warm", "pinned",
                          "proxied", "probe", "stop"}
  BY <1>1, <1>2 DEF TypeOK, Turn
<1>4. Direct \in Mode
  BY DEF Direct, Mode
<1>5. CASE WarmupReturns(c)
  <2> DEFINE t == Running(c, turn[c].way)
  <2>1. /\ turn[c].pc = "warming" /\ Continue(c, t) /\ UNCHANGED <<fields, world>>
    BY <1>5 DEF WarmupReturns
  <2>2. t \in Turn /\ t.pc = "running" /\ t.way = turn[c].way
        /\ t.probe = turn[c].probe
    BY <1>1, <1>3, <1>4, TurnTypes
  <2> HIDE DEF t
  <2>3. turn[c].way # "probe"
    BY <1>2, <2>1 DEF Fits
  <2>4. Fits(t, handle, pinned, navHost, req[c].host)
    BY <1>2, <2>1, <2>2, <2>3 DEF Fits
  <2> QED BY <1>2, <1>3, <2>1, <2>2, <2>4, StaysKeep DEF fields
<1>6. CASE WarmupLosesSession(c)
  BY <1>6, WarmupLosesSessionKeeps
<1>7. CASE ActReturns(c)
  <2>1. /\ turn[c].probe = NoSid /\ EndTurn(c) /\ UNCHANGED <<held, world>>
    BY <1>2, <1>7 DEF ActReturns
  <2> QED BY <1>2, <1>3, <2>1, EndsKeep DEF held
<1>8. CASE RunThrows(c)
  <2>1. /\ turn[c].probe = NoSid /\ EndTurn(c)
        /\ UNCHANGED <<pinned, proxied, warmHost, world>>
        /\ handle' = IF sess[handle].at = "gone" THEN NoSid ELSE handle
    BY <1>2, <1>8 DEF RunThrows
  <2>2. handle' = handle \/ (handle' = NoSid /\ ~Live(handle))
    BY <2>1 DEF Live
  <2> QED BY <1>2, <1>3, <2>1, <2>2, EndsKeep
<1>9. CASE ProbeCloses(c)
  BY <1>9, ProbeClosesKeeps
<1>10. ASSUME NEW out \in Outcome, NavigateSettles(c, out)
       PROVE  DriveInv'
  <2>1. /\ turn[c].probe = NoSid /\ EndTurn(c) /\ pinned' \in BOOLEAN
        /\ UNCHANGED <<handle, proxied, warmHost, world>>
    BY <1>2, <1>10 DEF NavigateSettles, NavigateWay
  <2> QED BY <1>2, <2>1, EndsKeep
<1>11. ASSUME NEW out \in Outcome, NavigateFails(c, out)
       PROVE  DriveInv'
  <2> DEFINE w == IF turn[c].way \in {"direct", "proxied"} THEN turn[c].way ELSE "stop"
             t == [Discarding(c, w) EXCEPT !.last = out]
  <2>1. /\ turn[c].pc = "running" /\ turn[c].way \in NavigateWay
        /\ Discard /\ Continue(c, t) /\ UNCHANGED <<navHost, vault, proxy>>
    BY <1>11 DEF NavigateFails
  <2>2. turn[c].probe = NoSid /\ navHost = req[c].host
    BY <1>2, <2>1 DEF Fits, NavigateWay
  <2>3. t \in Turn /\ t.pc = "discarding" /\ t.probe = NoSid
    <3>1. w \in {"direct", "proxied", "stop"}
      OBVIOUS
    <3> HIDE DEF w
    <3> QED BY <1>2, <2>2, <3>1 DEF Discarding, Turn
  <2> HIDE DEF t
  <2> QED BY <1>2, <1>3, <2>1, <2>2, <2>3, DiscardsKeep
<1> QED BY <1>5, <1>6, <1>7, <1>8, <1>9, <1>10, <1>11 DEF RunStep

\* A discard has resolved.
LEMMA DiscardStepKeeps ==
    ASSUME DriveInv, NEW c \in Call, DiscardStep(c)
    PROVE  DriveInv'
<1>1. TypeOK /\ Active(c) /\ turn[c].pc = "discarding"
  BY DEF DriveInv, Active, DiscardStep, DiscardEndsTurn, DiscardEscalates,
         DiscardOpensWarm, NextAttempt, LoopThrows, ProbeBegins
<1>2. /\ First(c) /\ turn[c] \in Turn /\ turn[c].probe = NoSid
      /\ Fits(turn[c], handle, pinned, navHost, req[c].host)
  BY <1>1, StepIsFirst
<1>3. /\ pinned \in BOOLEAN /\ navHost \in Host \cup {NoHost} /\ turn[c].want \in Mode
      /\ turn[c].attempts \in 0..MaxAttempts /\ MaxAttempts \in Nat
  BY <1>1, <1>2, DriveAssumption DEF TypeOK, Turn
<1>4. Residential \in Mode
  BY DEF Residential, Mode
<1>5. handle = NoSid
  BY <1>1, <1>2 DEF Fits
<1>6. ASSUME EndTurn(c), UNCHANGED <<held, world>>
      PROVE  DriveInv'
  BY <1>2, <1>3, <1>6, EndsKeep DEF held
<1>7. ASSUME NEW t \in Turn, Continue(c, t), t.pc \in {"opening", "discarding"},
             t.probe = NoSid, UNCHANGED <<fields, world>>,
             t.way \in FirstWay => turn[c].way \in FirstWay,
             t.way # "pinned"
      PROVE  DriveInv'
  <2>1. Fits(t, handle, pinned, navHost, req[c].host)
    BY <1>1, <1>2, <1>5, <1>7 DEF Fits, NavigateWay, FirstWay
  <2> QED BY <1>2, <1>3, <1>7, <2>1, StaysKeep DEF fields
<1>8. CASE DiscardEndsTurn(c)
  BY <1>6, <1>8 DEF DiscardEndsTurn
<1>9. CASE LoopThrows(c)
  BY <1>6, <1>9 DEF LoopThrows
<1>10. CASE DiscardEscalates(c)
  <2> DEFINE t == [Discarding(c, "proxied") EXCEPT !.last = "none"]
  <2>1. /\ turn[c].way = "direct" /\ Continue(c, t) /\ UNCHANGED <<fields, world>>
    BY <1>10 DEF DiscardEscalates
  <2>2. t \in Turn /\ t.pc = "discarding" /\ t.probe = NoSid /\ t.way = "proxied"
    BY <1>2 DEF Discarding, Turn
  <2> HIDE DEF t
  <2> QED BY <1>7, <2>1, <2>2 DEF FirstWay, NavigateWay
<1>11. CASE DiscardOpensWarm(c)
  <2> DEFINE t == Opening(c, "warm", turn[c].want)
  <2>1. /\ turn[c].way = "warm" /\ Continue(c, t) /\ UNCHANGED <<fields, world>>
    BY <1>11 DEF DiscardOpensWarm
  <2>2. t \in Turn /\ t.pc = "opening" /\ t.probe = NoSid /\ t.way = "warm"
    BY <1>2, <1>3 DEF Opening, Turn
  <2> HIDE DEF t
  <2> QED BY <1>7, <2>1, <2>2 DEF FirstWay, NavigateWay
<1>12. CASE NextAttempt(c)
  <2> DEFINE t == [Opening(c, "proxied", Residential)
                      EXCEPT !.attempts = turn[c].attempts + 1]
  <2>1. /\ turn[c].way = "proxied" /\ Continue(c, t) /\ UNCHANGED <<fields, world>>
        /\ turn[c].attempts # MaxAttempts
    BY <1>12 DEF NextAttempt, LoopIsOver
  <2>2. turn[c].attempts + 1 \in 0..MaxAttempts
    BY <1>3, <2>1
  <2>3. t \in Turn /\ t.pc = "opening" /\ t.probe = NoSid /\ t.way = "proxied"
    BY <1>2, <1>4, <2>2 DEF Opening, Turn
  <2> HIDE DEF t
  <2> QED BY <1>7, <2>1, <2>3 DEF FirstWay, NavigateWay
<1>13. CASE ProbeBegins(c)
  <2> DEFINE t == Opening(c, "probe", Residential)
  <2>1. Continue(c, t) /\ UNCHANGED <<fields, world>>
    BY <1>13 DEF ProbeBegins
  <2>2. t \in Turn /\ t.pc = "opening" /\ t.probe = NoSid /\ t.way = "probe"
    BY <1>2, <1>4 DEF Opening, Turn
  <2> HIDE DEF t
  <2> QED BY <1>7, <2>1, <2>2 DEF FirstWay, NavigateWay
<1> QED BY <1>8, <1>9, <1>10, <1>11, <1>12, <1>13 DEF DiscardStep

\* A call joins the queue behind the others.
LEMMA CallEntersKeeps ==
    ASSUME DriveInv, NEW c \in Call, NEW r \in Request, CallEnters(c, r)
    PROVE  DriveInv'
<1>1. TypeOK /\ Locked /\ Phases /\ turn[c].pc = "idle" /\ turn[c] \in Turn
  BY DEF DriveInv, CallEnters, TypeOK
<1>2. /\ queue' = Append(queue, c) /\ req' = [req EXCEPT ![c] = r]
      /\ turn' = [turn EXCEPT ![c].pc = "queued"]
      /\ UNCHANGED <<fields, budget, world>>
  BY DEF CallEnters
<1>3. turn[c].probe = NoSid
  BY <1>1 DEF Phases
<1>4. /\ turn' \in [Call -> Turn] /\ turn'[c].pc = "queued" /\ turn'[c].probe = NoSid
      /\ \A d \in Call : d # c => turn'[d] = turn[d] /\ req'[d] = req[d]
      /\ req' \in [Call -> Request]
  BY <1>1, <1>2, <1>3 DEF TypeOK, Turn
<1>5. /\ queue \in Seq(Call) /\ queue' \in Seq(Call)
      /\ queue # <<>> => queue' # <<>> /\ Head(queue') = Head(queue)
  BY <1>1, <1>2 DEF TypeOK
<1>6. TypeOK'
  BY <1>1, <1>2, <1>4, <1>5 DEF TypeOK, fields, held, world
<1>7. Locked'
  BY <1>1, <1>4, <1>5 DEF Locked, Active
<1>8. Phases'
  BY <1>1, <1>2, <1>4 DEF Phases, Active, fields, held
<1>9. NoSessionLost'
  <2> SUFFICES ASSUME NEW s \in Sid, Live(s), s # handle
               PROVE  \E d \in Call : turn'[d].probe = s
    BY <1>2 DEF NoSessionLost, Live, fields, held, world
  <2>1. PICK d \in Call : turn[d].probe = s
    BY DEF DriveInv, NoSessionLost
  <2>2. d # c
    BY <1>3, <2>1, DriveAssumption
  <2> QED BY <1>4, <2>1, <2>2
<1>10. ModeRemembered' /\ LoginRemembered'
  BY <1>2 DEF DriveInv, ModeRemembered, LoginRemembered, Live, fields, held, world
<1> QED BY <1>6, <1>7, <1>8, <1>9, <1>10 DEF DriveInv

\* The controller and the turns are as they were, and no session has opened.
LEMMA QuietKeeps ==
    ASSUME DriveInv, UNCHANGED <<fields, queue, req, turn>>, TypeOK',
           \A s \in Sid : sess'[s].at = "open" => sess'[s] = sess[s]
    PROVE  DriveInv'
<1>1. Locked' /\ Phases'
  BY DEF DriveInv, Locked, Phases, Active, fields, held
<1>2. NoSessionLost'
  BY DEF DriveInv, NoSessionLost, Live, fields, held
<1>3. handle \in Sid \cup {NoSid}
  BY DEF DriveInv, TypeOK
<1>4. ModeRemembered' /\ LoginRemembered'
  BY <1>3 DEF DriveInv, ModeRemembered, LoginRemembered, Live, fields, held
<1> QED BY <1>1, <1>2, <1>4 DEF DriveInv

\* The pool, the vault, the proxy secrets and the clock.
LEMMA WorldKeeps ==
    ASSUME DriveInv, WorldStep
    PROVE  DriveInv'
<1>1. TypeOK
  BY DEF DriveInv
<1> USE DEF fields, held
<1>2. ASSUME NEW s \in Sid, SessionReaped(s)
      PROVE  DriveInv'
  <2>1. /\ sess' \in [Sid -> Session]
        /\ \A r \in Sid : sess'[r].at = "open" => sess'[r] = sess[r]
    BY <1>1, <1>2 DEF SessionReaped, TypeOK, Session
  <2>2. TypeOK'
    BY <1>1, <1>2, <2>1 DEF SessionReaped, TypeOK
  <2> QED BY <1>2, <2>1, <2>2, QuietKeeps DEF SessionReaped
<1>3. ASSUME NEW s \in Sid, SessionDies(s)
      PROVE  DriveInv'
  <2>1. Gone \in Session /\ Gone.at = "gone"
    BY DEF Gone, Session, Direct, Mode
  <2>2. /\ sess' \in [Sid -> Session]
        /\ \A r \in Sid : sess'[r].at = "open" => sess'[r] = sess[r]
    BY <1>1, <1>3, <2>1 DEF SessionDies, TypeOK
  <2>3. TypeOK'
    BY <1>1, <1>3, <2>2 DEF SessionDies, TypeOK
  <2> QED BY <1>3, <2>2, <2>3, QuietKeeps DEF SessionDies
<1>4. ASSUME NEW h \in Revocable, VaultChanges(h)
      PROVE  DriveInv'
  <2>1. TypeOK'
    BY <1>1, <1>4, DriveAssumption DEF VaultChanges, TypeOK
  <2> QED BY <1>4, <2>1, QuietKeeps DEF VaultChanges
<1>5. CASE ProxyChanges
  <2>1. TypeOK'
    BY <1>1, <1>5 DEF ProxyChanges, TypeOK
  <2> QED BY <1>5, <2>1, QuietKeeps DEF ProxyChanges
<1>6. ASSUME NEW c \in Call, TimePasses(c)
      PROVE  DriveInv'
  <2>1. TypeOK'
    BY <1>1, <1>6 DEF TimePasses, TypeOK, world
  <2> QED BY <1>6, <2>1, QuietKeeps DEF TimePasses, world
<1> QED BY <1>2, <1>3, <1>4, <1>5, <1>6 DEF WorldStep

LEMMA InitKeeps == Init => DriveInv
<1> SUFFICES ASSUME Init PROVE DriveInv
  OBVIOUS
<1>1. /\ NoTurn \in Turn /\ NoRequest \in Request /\ Gone \in Session
      /\ NoTurn.pc = "idle" /\ NoTurn.probe = NoSid /\ Gone.at = "gone"
  BY DriveAssumption DEF NoTurn, Turn, Direct, Mode, NoRequest, Request, Verb, Gone, Session
<1>2. TypeOK
  <2>1. proxy \in BOOLEAN /\ pinned \in BOOLEAN /\ proxied \in BOOLEAN
    BY Zenon DEF Init
  <2>2. vault \subseteq LoginHosts
    BY DEF Init
  <2>3. /\ handle \in Sid \cup {NoSid} /\ warmHost \in Host \cup {NoHost}
        /\ navHost \in Host \cup {NoHost} /\ queue \in Seq(Call)
    BY DEF Init
  <2>4. /\ req \in [Call -> Request] /\ turn \in [Call -> Turn]
        /\ sess \in [Sid -> Session] /\ budget \in [Call -> {"ample", "low", "spent"}]
    BY <1>1 DEF Init
  <2> QED BY <2>1, <2>2, <2>3, <2>4 DEF TypeOK
<1>3. Locked /\ Phases
  BY <1>1 DEF Init, Locked, Phases, Active
<1>4. NoSessionLost /\ ModeRemembered /\ LoginRemembered
  BY <1>1 DEF Init, NoSessionLost, ModeRemembered, LoginRemembered, Live
<1> QED BY <1>2, <1>3, <1>4 DEF DriveInv

LEMMA NextKeeps == DriveInv /\ [Next]_vars => DriveInv'
<1> SUFFICES ASSUME DriveInv, [Next]_vars PROVE DriveInv'
  OBVIOUS
<1>1. ASSUME NEW c \in Call, TurnStep(c)
      PROVE  DriveInv'
  BY <1>1, BeginKeeps, OpenStepKeeps, RunStepKeeps, DiscardStepKeeps DEF TurnStep
<1>2. ASSUME NEW c \in Call, NEW r \in Request, CallEnters(c, r)
      PROVE  DriveInv'
  BY <1>2, CallEntersKeeps
<1>3. CASE WorldStep
  BY <1>3, WorldKeeps
<1>4. CASE UNCHANGED vars
  <2>1. TypeOK'
    BY <1>4 DEF DriveInv, TypeOK, vars, fields, held, world
  <2> QED BY <1>4, <2>1, QuietKeeps DEF vars, world
<1> QED BY <1>1, <1>2, <1>3, <1>4 DEF Next

-----------------------------------------------------------------------------
(* Theorems. *)

\* In every execution the controller, its turns and the sessions satisfy the
\* inductive invariant.
THEOREM DriveInvHolds == Spec => []DriveInv
<1> QED BY InitKeeps, NextKeeps, PTL DEF Spec

\* Every variable of the controller keeps to its range.
THEOREM DriveTypeCorrect == Spec => []TypeOK
<1>1. DriveInv => TypeOK
  BY DEF DriveInv
<1> QED BY <1>1, DriveInvHolds, PTL

\* No interleaving of tool calls, reaps and probes leaves a browser session open
\* that the controller has forgotten: #handle or the running probe names it.
THEOREM NoSessionIsLost == Spec => []NoSessionLost
<1>1. DriveInv => NoSessionLost
  BY DEF DriveInv
<1> QED BY <1>1, DriveInvHolds, PTL

\* #proxiedSession always agrees with the exit of the open session, so a reopen
\* after a reap uses the same kind of exit, and a session with a restored login
\* is always known under #warmHost, whichever of the two opening paths made it.
THEOREM SessionIsRemembered == Spec => []SessionRemembered
<1>1. DriveInv => SessionRemembered
  BY DEF DriveInv, SessionRemembered
<1> QED BY <1>1, DriveInvHolds, PTL

\* The download listener files what a navigation downloads under the host of
\* that navigation, never under that of a call waiting behind it.
THEOREM CaptureHostHolds == Spec => []CaptureHost
<1>1. DriveInv => CaptureHost
  BY DEF DriveInv, Phases, Active, CaptureHost
<1> QED BY <1>1, DriveInvHolds, PTL

\* The controller never has, or asks the pool for, two sessions at once: not
\* with concurrent calls, not across a reopen, not while the probe runs.
THEOREM OneSessionHolds == Spec => []OneSession
<1>1. ASSUME DriveInv PROVE OneSession
  <2> DEFINE L == {s \in Sid : Live(s)}
             O == {c \in Call : turn[c].pc = "opening"}
  <2>1. Locked /\ Phases /\ NoSessionLost
    BY <1>1 DEF DriveInv
  <2>2. ASSUME NEW c \in Call, turn[c].pc = "opening"
        PROVE  L = {} /\ O = {c}
    <3>1. First(c) /\ handle = NoSid /\ turn[c].probe = NoSid
      BY <2>1, <2>2 DEF Locked, Phases, Active, First
    <3>2. \A d \in Call : d # c => turn[d].pc # "opening" /\ turn[d].probe = NoSid
      BY <2>1, <3>1, OthersWait
    <3>3. L = {}
      BY <2>1, <3>1, <3>2, DriveAssumption DEF NoSessionLost
    <3> QED BY <2>2, <3>2, <3>3
  <2>3. ASSUME NEW a \in L, NEW b \in L
        PROVE  a = b
    <3>1. CASE a = handle /\ b = handle
      BY <3>1
    <3>2. ASSUME NEW c \in Call, turn[c].probe \in Sid
          PROVE  /\ handle = NoSid
                 /\ \A d \in Call : d # c => turn[d].probe = NoSid
      <4>1. turn[c].pc = "running" /\ turn[c].way = "probe"
        BY <2>1, <3>2, DriveAssumption DEF Phases
      <4>2. First(c) /\ handle = NoSid
        BY <2>1, <4>1 DEF Locked, Phases, Active, First
      <4> QED BY <2>1, <4>2, OthersWait
    <3>3. \A s \in L : s = handle \/ \E c \in Call : turn[c].probe = s
      BY <2>1 DEF NoSessionLost
    <3>4. CASE a # handle
      <4>1. PICK c \in Call : turn[c].probe = a
        BY <3>3, <3>4
      <4>2. handle = NoSid /\ \A d \in Call : d # c => turn[d].probe = NoSid
        BY <3>2, <4>1
      <4> QED BY <3>3, <4>1, <4>2, DriveAssumption
    <3>5. CASE b # handle
      <4>1. PICK c \in Call : turn[c].probe = b
        BY <3>3, <3>5
      <4>2. handle = NoSid /\ \A d \in Call : d # c => turn[d].probe = NoSid
        BY <3>2, <4>1
      <4> QED BY <3>3, <4>1, <4>2, DriveAssumption
    <3> QED BY <3>1, <3>4, <3>5
  <2> HIDE DEF L, O
  <2>4. Cardinality({}) = 0
    BY FS_EmptySet
  <2>5. \A x : Cardinality({x}) = 1
    BY FS_Singleton
  <2>6. Cardinality(L) + Cardinality(O) <= 1
    <3>1. CASE \E c \in Call : turn[c].pc = "opening"
      <4>1. PICK c \in Call : turn[c].pc = "opening"
        BY <3>1
      <4>2. L = {} /\ O = {c}
        BY <2>2, <4>1
      <4>3. Cardinality(O) = 1 /\ Cardinality(L) = 0
        BY <2>4, <2>5, <4>2, Zenon
      <4> QED BY <4>3
    <3>2. CASE ~ \E c \in Call : turn[c].pc = "opening"
      <4>1. O = {}
        BY <3>2 DEF O
      <4>2. CASE L = {}
        BY <2>4, <4>1, <4>2
      <4>3. ASSUME NEW a \in L PROVE Cardinality(L) = 1
        <5>1. L = {a}
          BY <2>3
        <5> QED BY <2>5, <5>1, Zenon
      <4> QED BY <2>4, <4>1, <4>2, <4>3
    <3> QED BY <3>1, <3>2
  <2> QED BY <2>6 DEF OneSession, L, O
<1> QED BY <1>1, DriveInvHolds, PTL

\* A navigation that is too late waits for its turn and is then refused.
LEMMA TooLateIsRefused ==
    ASSUME DriveInv, Next, pinned, NEW c \in Call, TooLate(c)
    PROVE  turn'[c].pc \in {"queued", "idle"}
<1>1. turn \in [Call -> Turn] /\ turn[c].pc = "queued" /\ req[c].verb = "navigate"
      /\ budget[c] = "spent" /\ NoTurn.pc = "idle"
  BY DEF DriveInv, TypeOK, TooLate, NoTurn
<1>2. CASE WorldStep
  <2>1. turn' = turn
    BY <1>2 DEF WorldStep, SessionReaped, SessionDies, VaultChanges, ProxyChanges, TimePasses
  <2> QED BY <1>1, <2>1
<1>3. ASSUME NEW d \in Call, NEW r \in Request, CallEnters(d, r)
      PROVE  turn'[c].pc = "queued"
  BY <1>1, <1>3 DEF CallEnters
<1>4. ASSUME NEW d \in Call, d # c, TurnStep(d)
      PROVE  turn'[c] = turn[c]
  <2>1. PICK t : turn' = [turn EXCEPT ![d] = t]
    <3>1. BeginStep(d) => \E t : turn' = [turn EXCEPT ![d] = t]
      BY DEF BeginStep, OpenBegins, ActBegins, CloseBegins, NavigateRefused,
             FirstNavigateBegins, FirstNavigate, PinnedNavigateBegins, Continue, EndTurn
    <3>2. OpenStep(d) => \E t : turn' = [turn EXCEPT ![d] = t]
      BY DEF OpenStep, EnsureOpen, OpenRejects, OpenResolves, ProbeOpens, Continue, EndTurn
    <3>3. RunStep(d) => \E t : turn' = [turn EXCEPT ![d] = t]
      BY DEF RunStep, WarmupReturns, WarmupLosesSession, ActReturns, RunThrows, ProbeCloses,
             NavigateSettles, NavigateFails, Continue, EndTurn
    <3>4. DiscardStep(d) => \E t : turn' = [turn EXCEPT ![d] = t]
      BY DEF DiscardStep, DiscardEndsTurn, DiscardEscalates, DiscardOpensWarm, NextAttempt,
             LoopThrows, ProbeBegins, Continue, EndTurn
    <3> QED BY <1>4, <3>1, <3>2, <3>3, <3>4 DEF TurnStep
  <2> QED BY <1>1, <1>4, <2>1
<1>5. ASSUME TurnStep(c) PROVE turn'[c] = NoTurn
  <2>1. NavigateRefused(c)
    BY <1>1, <1>5 DEF TurnStep, BeginStep, OpenBegins, ActBegins, CloseBegins,
           FirstNavigateBegins, PinnedNavigateBegins, HasTurn, OpenStep, EnsureOpen,
           OpenRejects, OpenResolves, ProbeOpens, RunStep, WarmupReturns, WarmupLosesSession,
           ActReturns, RunThrows, ProbeCloses, NavigateSettles, NavigateFails, DiscardStep,
           DiscardEndsTurn, DiscardEscalates, DiscardOpensWarm, NextAttempt, LoopThrows,
           ProbeBegins
  <2> QED BY <1>1, <2>1 DEF NavigateRefused, EndTurn
<1> QED BY <1>1, <1>2, <1>3, <1>4, <1>5 DEF Next

\* While a committed session lives, only close() or a navigation that really
\* failed on it makes the controller let go of it, and a navigation whose budget
\* went by in the queue never reaches it.
THEOREM CommittedIsKept == Spec => CommittedKept
<1>1. ASSUME DriveInv, [Next]_vars PROVE [KeepsCommitted]_vars
  <2> SUFFICES ASSUME Next, pinned, Live(handle), handle' # handle
               PROVE  \E c \in Call : GivesUp(c)
    BY <1>1, TooLateIsRefused DEF KeepsCommitted, TooLate, vars, fields, held
  <2>1. ~WorldStep
    BY DEF WorldStep, SessionReaped, SessionDies, VaultChanges, ProxyChanges,
           TimePasses, fields, held
  <2>2. \A c \in Call, r \in Request : ~CallEnters(c, r)
    BY DEF CallEnters, fields, held
  <2>3. PICK c \in Call : TurnStep(c)
    BY <2>1, <2>2 DEF Next
  <2>4. turn \in [Call -> Turn] /\ turn[c] \in Turn
    BY <1>1 DEF DriveInv, TypeOK
  <2>5. handle # NoSid /\ sess[handle].at = "open"
    BY DEF Live
  <2>6. /\ turn[c].pc \notin {"reopening", "opening", "discarding"}
        /\ Active(c) /\ turn[c].way \in FirstWay => ~pinned
    BY <1>1, <2>5 DEF DriveInv, Phases
  <2>7. ~DiscardStep(c) /\ ~OpenStep(c)
    BY <2>6 DEF DiscardStep, DiscardEndsTurn, DiscardEscalates, DiscardOpensWarm,
           NextAttempt, LoopThrows, ProbeBegins, OpenStep, EnsureOpen, OpenRejects,
           OpenResolves, ProbeOpens
  <2>8. CASE BeginStep(c)
    <3>1. CloseBegins(c)
      BY <2>5, <2>8 DEF BeginStep, OpenBegins, ActBegins, NavigateRefused,
             FirstNavigateBegins, PinnedNavigateBegins, fields, held
    <3>2. /\ turn[c].pc = "queued" /\ req[c].verb = "close"
          /\ turn' = [turn EXCEPT ![c] = Discarding(c, "stop")]
      BY <3>1 DEF CloseBegins, HasTurn, Continue
    <3>3. turn'[c].pc = "discarding"
      BY <2>4, <3>2 DEF Discarding, Turn
    <3> QED BY <3>2, <3>3 DEF GivesUp
  <2>9. CASE RunStep(c)
    <3>1. PICK out \in Outcome : NavigateFails(c, out)
      BY <2>5, <2>9 DEF RunStep, WarmupReturns, WarmupLosesSession, ActReturns,
             RunThrows, ProbeCloses, NavigateSettles, fields, held
    <3>2. /\ turn[c].pc = "running" /\ turn[c].way \in NavigateWay
          /\ out # "ok" /\ (out = "policy" => turn[c].way = "proxied")
      BY <3>1 DEF NavigateFails
    <3>3. turn[c].way = "pinned"
      BY <2>6, <3>2 DEF Active, FirstWay
    <3>4. turn' = [turn EXCEPT ![c] = [Discarding(c, "stop") EXCEPT !.last = out]]
      BY <3>1, <3>3 DEF NavigateFails, Continue
    <3>5. turn'[c].pc = "discarding" /\ turn'[c].last = out
      BY <2>4, <3>4 DEF Discarding, Turn
    <3>6. out \in {"block", "terminal", "dead"}
      BY <3>2, <3>3 DEF Outcome
    <3> QED BY <3>2, <3>3, <3>5, <3>6 DEF GivesUp
  <2> QED BY <2>3, <2>7, <2>8, <2>9 DEF TurnStep
<1> QED BY <1>1, DriveInvHolds, PTL DEF Spec, CommittedKept
=============================================================================
