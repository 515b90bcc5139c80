---------------------------- MODULE SlotContract ----------------------------
(***************************************************************************)
(* What the pool promises whoever asks it for browsers, without saying how *)
(* it keeps the promise: the life of one launch as a phase, the browsers   *)
(* that live, and a gate.  No timers, sweeps, records or promises appear.  *)
(*                                                                         *)
(*   new -> starting -> lent -> ending -> gone                             *)
(*              |-> owed <-> parked -> gone                                *)
(*                                                                         *)
(* A launch holds a slot while it is starting, lent, ending or owed.  The  *)
(* one that is parked may still turn into a browser and holds none.        *)
(***************************************************************************)
EXTENDS Naturals, FiniteSets

CONSTANTS Launch, Consumer, NoConsumer, MaxSessions, PerConsumerMax

VARIABLES
    phase,   \* [Launch -> Phase]
    owner,   \* who asked
    living,  \* launches with a browser that lives and can be proven dead
    gate     \* open, draining (shutdown() runs), closed (it has returned)

contract == <<phase, owner, living, gate>>

Phase == {"new", "starting", "lent", "ending", "owed", "parked", "gone"}
In(some) == {l \in Launch : phase[l] \in some}
Holding == In({"starting", "lent", "ending", "owed"})

Init ==
    /\ phase = [l \in Launch |-> "new"]
    /\ owner = [l \in Launch |-> NoConsumer]
    /\ living = {}
    /\ gate = "open"

\* A slot is given only while the gate is open and one is free.
Admit(l, c) ==
    /\ gate = "open" /\ phase[l] = "new"
    /\ Cardinality(Holding) < MaxSessions
    /\ c \in Consumer =>
          Cardinality({h \in Holding : owner[h] = c}) < PerConsumerMax
    /\ phase' = [phase EXCEPT ![l] = "starting"]
    /\ owner' = [owner EXCEPT ![l] = c]
    /\ UNCHANGED <<living, gate>>

\* How a launch may go on.  A session is lent once, straight from its launch,
\* and by an open pool; nothing comes back from gone.
Arrow ==
    {<<"starting", "lent">>, <<"starting", "owed">>, <<"starting", "parked">>,
     <<"starting", "gone">>, <<"lent", "ending">>, <<"ending", "gone">>,
     <<"owed", "parked">>, <<"owed", "gone">>,
     <<"parked", "owed">>, <<"parked", "gone">>}

\* Launches go on, browsers come and die; no launch is gone while its browser
\* lives, and none is born to one that is gone.
Progress ==
    /\ UNCHANGED <<owner, gate>>
    /\ DOMAIN phase' = Launch
    /\ living' \subseteq Launch
    /\ \A l \in Launch :
          LET from == phase[l]
              to == phase'[l]
          IN  /\ from = to \/ <<from, to>> \in Arrow
              /\ from # "lent" /\ to = "lent" => gate = "open"
              /\ to \in {"new", "gone"} => l \notin living'

\* shutdown(): closed means nobody holds a session that is not being ended.
Shut ==
    /\ \/ gate = "open" /\ gate' = "draining"
       \/ gate = "draining" /\ gate' = "closed" /\ In({"starting", "lent"}) = {}
    /\ UNCHANGED <<phase, owner, living>>

Next ==
    \/ Progress \/ Shut
    \/ \E l \in Launch, c \in Consumer \cup {NoConsumer} : Admit(l, c)

Spec == Init /\ [][Next]_contract
=============================================================================
