---------------------------- MODULE Workstation ----------------------------
(***************************************************************************)
(* The operator's machine: the ssh tunnel to the gateway, kept up by a     *)
(* LaunchAgent and the keeper script of cli/tunnel.ts, and the commands    *)
(* that look at it or set it up: connect (cli/connect.ts and               *)
(* cli/mcp-register.ts) and status (cli/status.ts).  Any other process may *)
(* bind the local port, prod may go away and come back, the machine may    *)
(* restart, all of it while a command runs.                                *)
(***************************************************************************)
EXTENDS Naturals

CONSTANTS
    MaxFails,   \* KEEPER_MAX_FAILS: fast failures before the keeper gives up
    Token       \* tokens a consumer's key has had
ASSUME WorkstationAssumption == MaxFails \in Nat \ {0} /\ Token # {}

VARIABLES
    artifacts,   \* which of key, alias, keeper and plist exist
    loaded,      \* launchd has the agent
    keeper,      \* the keeper: "none", "dialing", "up", "died", "giving-up"
    count,       \* fastfail.count
    marker,      \* the self-disable marker is in the recent log
    port,        \* who listens on the local port: "none", "ours", "foreign"
    prod,        \* what the far side does: "serving", "refusing" (403), "down"
    key,         \* the token in the keychain
    accepted,    \* the token the gateway accepts
    registered,  \* the token of the MCP registration, "none" when there is none
    connecting,  \* the connect under way
    checking,    \* the status under way
    streak,      \* history: fast failures in a row since the agent was loaded
    oursSince    \* history: the port was ours at some time since the gateway answered

workVars == <<artifacts, loaded, keeper, count, marker, port, prod, key, accepted,
              registered, connecting, checking, streak, oursSince>>
tunnel == <<artifacts, loaded, keeper, count, marker, streak>>
world == <<prod, key, accepted>>

IdleConnect == [pc |-> "idle", token |-> "none", old |-> "none"]
IdleCheck == [pc |-> "idle", tunnel |-> "none", gateway |-> "none", token |-> FALSE]

WorkInit ==
    /\ artifacts = {} /\ loaded = FALSE /\ keeper = "none" /\ count = 0 /\ marker = FALSE
    /\ port = "none" /\ prod = "serving"
    /\ key \in Token /\ accepted = key /\ registered = "none"
    /\ connecting = IdleConnect /\ checking = IdleCheck
    /\ streak = 0 /\ oursSince = FALSE

\* The port changes hands.
PortTo(owner) ==
    port' = owner /\ oursSince' = (oursSince \/ owner = "ours")
\* The port as ssh leaves it when it ends.
Freed == IF keeper = "up" THEN "none" ELSE port

(***************************************************************************)
(* launchd and the keeper script.                                          *)
(***************************************************************************)
LaunchKeeper ==
    /\ loaded /\ keeper = "none"
    /\ keeper' = "dialing"
    /\ UNCHANGED <<artifacts, loaded, count, marker, streak, port, world, registered, connecting, checking, oursSince>>

\* ExitOnForwardFailure: no tunnel unless the port is free.
Establish ==
    /\ keeper = "dialing" /\ port = "none" /\ prod # "down"
    /\ keeper' = "up" /\ PortTo("ours")
    /\ UNCHANGED <<artifacts, loaded, count, marker, streak, world, registered, connecting, checking>>

\* ssh was up for the grace period, and ended.
HealthyDrop ==
    /\ keeper = "up"
    /\ keeper' = "none" /\ count' = 0 /\ streak' = 0 /\ PortTo("none")
    /\ UNCHANGED <<artifacts, loaded, marker, world, registered, connecting, checking>>

\* ssh ended before it.
FastFail ==
    /\ keeper \in {"dialing", "up"}
    /\ keeper' = "died" /\ streak' = streak + 1 /\ PortTo(Freed)
    /\ UNCHANGED <<artifacts, loaded, count, marker, world, registered, connecting, checking>>

\* Fault: the keeper keeps its count for the run only.
CountsAfresh ==
    /\ keeper = "died"
    /\ keeper' = "none" /\ count' = 1
    /\ UNCHANGED <<artifacts, loaded, marker, streak, port, world, registered, connecting, checking, oursSince>>

CountFail ==
    /\ keeper = "died"
    /\ IF count + 1 >= MaxFails
       THEN keeper' = "giving-up" /\ count' = 0 /\ marker' = TRUE
       ELSE keeper' = "none" /\ count' = count + 1 /\ UNCHANGED marker
    /\ UNCHANGED <<artifacts, loaded, streak, port, world, registered, connecting, checking, oursSince>>

\* launchctl bootout, by the keeper that gives up or by the operator.
Bootout ==
    /\ loaded
    /\ loaded' = FALSE /\ keeper' = "none" /\ streak' = 0 /\ PortTo(Freed)
    /\ UNCHANGED <<artifacts, count, marker, world, registered, connecting, checking>>

(***************************************************************************)
(* External: the rest of the machine and the far side.                     *)
(***************************************************************************)
\* Every process ends; at login launchd loads the agents it finds, one that
\* disabled itself too.
Reboot ==
    /\ "plist" \in artifacts
    /\ loaded' = TRUE /\ keeper' = "none" /\ streak' = 0
    /\ PortTo("none")
    /\ connecting' = IdleConnect /\ checking' = IdleCheck
    /\ UNCHANGED <<artifacts, count, marker, world, registered>>
OtherBinds ==
    /\ port = "none" /\ PortTo("foreign")
    /\ UNCHANGED <<tunnel, world, registered, connecting, checking>>
OtherLeaves ==
    /\ port = "foreign" /\ PortTo("none")
    /\ UNCHANGED <<tunnel, world, registered, connecting, checking>>
LogScrolls ==
    /\ marker /\ marker' = FALSE
    /\ UNCHANGED <<artifacts, loaded, keeper, count, streak, port, world, registered, connecting, checking, oursSince>>
ProdChanges(p) ==
    /\ p # prod /\ prod' = p
    /\ UNCHANGED <<tunnel, port, key, accepted, registered, connecting, checking, oursSince>>
\* keys new on this machine, and a revocation somewhere else.
KeyChanges(k, a) ==
    /\ connecting.pc = "idle" /\ checking.pc = "idle" /\ <<k, a>> # <<key, accepted>>
    /\ key' = k /\ accepted' = a
    /\ UNCHANGED <<tunnel, port, prod, registered, connecting, checking, oursSince>>

(***************************************************************************)
(* What the commands see.                                                  *)
(***************************************************************************)
classifyAgentState ==
    IF loaded THEN IF keeper = "none" THEN "stopped" ELSE "running"
    ELSE IF marker THEN "self-disabled" ELSE "not-bootstrapped"

\* Another process may answer anything.
Answers(token) ==
    CASE port = "none" -> {"000"}
      [] port = "foreign" -> {"000", "401", "403", "other"}
      [] port = "ours" -> CASE prod = "down" -> {"000"}
                            [] prod = "refusing" -> {"403"}
                            [] OTHER -> IF token = accepted THEN {"other"} ELSE {"401"}
classifyProbeCode(code) ==
    CASE code = "401" -> "healthy" [] code = "403" -> "mismatch"
      [] code = "000" -> "tunnel-down" [] OTHER -> "unexpected"

(***************************************************************************)
(* connect.                                                                *)
(***************************************************************************)
ConnectAt(pc) == connecting.pc = pc
ConnectTo(pc) == connecting' = [connecting EXCEPT !.pc = pc]
Throws == connecting' = IdleConnect

StartConnect ==
    /\ ConnectAt("idle") /\ checking.pc = "idle"
    /\ connecting' = [IdleConnect EXCEPT !.pc = "artifacts", !.token = key]
    /\ UNCHANGED <<tunnel, port, world, registered, checking, oursSince>>

\* ensureTunnel creates what is absent and overwrites nothing; keygen may fail.
EnsureArtifacts ==
    /\ ConnectAt("artifacts")
    /\ \/ "key" \notin artifacts /\ Throws /\ UNCHANGED artifacts
       \/ artifacts' = {"key", "alias", "keeper", "plist"} /\ ConnectTo("agent")
    /\ UNCHANGED <<loaded, keeper, count, marker, streak, port, world, registered, checking, oursSince>>
ReadAgent ==
    /\ ConnectAt("agent")
    /\ ConnectTo(IF classifyAgentState \in {"running", "stopped"} THEN "port" ELSE "bootstrap")
    /\ UNCHANGED <<tunnel, port, world, registered, checking, oursSince>>
\* launchctl refuses an agent that is loaded already.
Bootstrap ==
    /\ ConnectAt("bootstrap")
    /\ IF loaded THEN Throws /\ UNCHANGED <<loaded, streak>>
       ELSE ConnectTo("port") /\ loaded' = TRUE /\ streak' = 0
    /\ UNCHANGED <<artifacts, keeper, count, marker, port, world, registered, checking, oursSince>>
CheckPort ==
    /\ ConnectAt("port")
    /\ IF port = "foreign" THEN Throws ELSE ConnectTo("get")
    /\ UNCHANGED <<tunnel, port, world, registered, checking, oursSince>>

\* registerMcp: get, and then nothing, add, or remove and add.  Any call of
\* the claude CLI may fail.
GetRegistration ==
    /\ ConnectAt("get")
    /\ \/ Throws
       \/ registered = connecting.token /\ ConnectTo("verify")
       \/ /\ registered # connecting.token
          /\ connecting' = [connecting EXCEPT !.old = registered,
                                !.pc = IF registered = "none" THEN "add" ELSE "remove"]
    /\ UNCHANGED <<tunnel, port, world, registered, checking, oursSince>>
RemoveRegistration ==
    /\ ConnectAt("remove")
    /\ \/ Throws /\ UNCHANGED registered
       \/ ConnectTo("add") /\ registered' = "none"
    /\ UNCHANGED <<tunnel, port, world, checking, oursSince>>

AddRegistration ==
    /\ ConnectAt("add")
    /\ \/ /\ IF connecting.old = "none" THEN Throws ELSE ConnectTo("restore")
          /\ UNCHANGED registered
       \/ ConnectTo("verify") /\ registered' = connecting.token
    /\ UNCHANGED <<tunnel, port, world, checking, oursSince>>
\* Putting the old one back may fail too.
RestoreRegistration ==
    /\ ConnectAt("restore")
    /\ Throws
    /\ registered' \in {registered, connecting.old}
    /\ UNCHANGED <<tunnel, port, world, checking, oursSince>>

\* verifyGateway polls until a 401, a 403 or the end of its window; then one
\* probe with the token, where only a 401 counts against it.
VerifyConnect ==
    /\ ConnectAt("verify")
    /\ \E code \in Answers("none") :
          IF classifyProbeCode(code) = "healthy" THEN ConnectTo("authed") ELSE Throws
    /\ UNCHANGED <<tunnel, port, world, registered, checking, oursSince>>
AuthedProbe ==
    /\ ConnectAt("authed")
    /\ \E code \in Answers(connecting.token) :
          connecting' = IF code = "401" THEN IdleConnect
                        ELSE [IdleConnect EXCEPT !.pc = "connected"]
    /\ UNCHANGED <<tunnel, port, world, registered, checking, oursSince>>
\* connected, and with --full the stealth gate on the host.
EndConnect ==
    /\ ConnectAt("connected")
    /\ connecting' = IdleConnect
    /\ UNCHANGED <<tunnel, port, world, registered, checking, oursSince>>

(***************************************************************************)
(* status.                                                                 *)
(***************************************************************************)
CheckAt(pc) == checking.pc = pc

\* status writes nothing: one command at a time loses no case.
StartStatus(withToken) ==
    /\ CheckAt("idle") /\ ConnectAt("idle")
    /\ checking' = [IdleCheck EXCEPT !.pc = "probe", !.tunnel = port, !.token = withToken]
    /\ UNCHANGED <<tunnel, port, world, registered, connecting, oursSince>>

ProbeGateway ==
    /\ CheckAt("probe")
    /\ \E code \in Answers("none") :
          checking' = [checking EXCEPT !.gateway = classifyProbeCode(code),
                           !.pc = IF checking.token /\ classifyProbeCode(code) = "healthy"
                                  THEN "refresh" ELSE "report"]
    /\ oursSince' = (port = "ours")
    /\ UNCHANGED <<tunnel, port, world, registered, connecting>>

\* Fault: the reading taken at the start decides.
TrustsFirstReading ==
    /\ CheckAt("refresh")
    /\ checking' = [checking EXCEPT !.pc = IF checking.tunnel = "ours" THEN "pool" ELSE "report"]
    /\ UNCHANGED <<tunnel, port, world, registered, connecting, oursSince>>

Refresh ==
    /\ CheckAt("refresh")
    /\ checking' = [checking EXCEPT !.tunnel = port, !.pc = IF port = "ours" THEN "pool" ELSE "report"]
    /\ UNCHANGED <<tunnel, port, world, registered, connecting, oursSince>>
\* The pool read: ok or unavailable, or degraded.
ReadPool ==
    /\ CheckAt("pool")
    /\ \E degraded \in BOOLEAN :
          checking' = [checking EXCEPT !.pc = "report", !.gateway = IF degraded THEN "degraded" ELSE @]
    /\ UNCHANGED <<tunnel, port, world, registered, connecting, oursSince>>

reportsHealthy ==
    CheckAt("report") /\ checking.gateway = "healthy" /\ checking.tunnel = "ours"
EndStatus ==
    /\ CheckAt("report")
    /\ checking' = IdleCheck
    /\ UNCHANGED <<tunnel, port, world, registered, connecting, oursSince>>

WorkNext ==
    \/ LaunchKeeper \/ Establish \/ HealthyDrop \/ FastFail \/ CountFail \/ Bootout
    \/ Reboot \/ OtherBinds \/ OtherLeaves \/ LogScrolls
    \/ \E p \in {"serving", "refusing", "down"} : ProdChanges(p)
    \/ \E k, a \in Token : KeyChanges(k, a)
    \/ StartConnect \/ EnsureArtifacts \/ ReadAgent \/ Bootstrap \/ CheckPort
    \/ GetRegistration \/ RemoveRegistration \/ AddRegistration \/ RestoreRegistration
    \/ VerifyConnect \/ AuthedProbe \/ EndConnect
    \/ \E t \in BOOLEAN : StartStatus(t)
    \/ ProbeGateway \/ Refresh \/ ReadPool \/ EndStatus

-----------------------------------------------------------------------------
(***************************************************************************)
(* Properties.                                                             *)
(***************************************************************************)

(* A tunnel that cannot come up is not retried for ever (tunnel.ts:93-98): *)
(* launchd restarts the keeper at most MaxFails times in a row before it   *)
(* disables itself, whatever count earlier runs left in the file; and a    *)
(* tunnel re-enabled after it disabled itself is given tries of its own.   *)
StormBounded ==
    /\ streak <= MaxFails
    /\ streak = MaxFails => keeper \in {"died", "giving-up"}
    /\ keeper = "giving-up" => count = 0

(* With a health token configured, status calls the gateway healthy only   *)
(* if the port belonged to our tunnel at some time after the answer it     *)
(* relies on (status.ts:85-103): not when the tunnel dropped during the    *)
(* probes and another process answered the last one.                       *)
HealthyIsOurs ==
    reportsHealthy /\ checking.token => oursSince
=============================================================================
