-------------------------- MODULE OperationsProofs --------------------------
(***************************************************************************)
(* Proofs about Operations.  Each of the three systems has an inductive    *)
(* invariant of its own, proved over its own next-state relation; a step   *)
(* of Operations is a step of one of them and leaves the others as they    *)
(* are.                                                                    *)
(***************************************************************************)
EXTENDS Operations, TLAPS

-----------------------------------------------------------------------------
(* The workstation. *)

CheckState ==
    [pc : {"idle", "probe", "refresh", "pool", "report"},
     tunnel : {"none", "ours", "foreign"},
     gateway : {"none", "healthy", "mismatch", "tunnel-down", "unexpected", "degraded"},
     token : BOOLEAN]

\* The failures in a row never outrun the count in the file, which gives up
\* below MaxFails.
Storm ==
    /\ keeper \in {"none", "dialing", "up", "died", "giving-up"}
    /\ count \in Nat /\ count < MaxFails /\ streak \in Nat
    /\ keeper \in {"none", "dialing", "up"} => streak <= count
    /\ keeper = "died" => streak <= count + 1
    /\ keeper = "giving-up" => count = 0 /\ streak <= MaxFails

\* From the answer of the gateway on, a port that is ours has been seen so;
\* the pool is read, and a healthy report made, only then.
Ours ==
    /\ port \in {"none", "ours", "foreign"} /\ checking \in CheckState
    /\ checking.pc \in {"refresh", "pool", "report"} /\ port = "ours" => oursSince
    /\ checking.pc = "pool" => oursSince
    /\ checking.pc = "report" /\ checking.gateway = "healthy" /\ checking.token
          /\ checking.tunnel = "ours" => oursSince

\* Every step of the workstation keeps the count ahead of the failures.
LEMMA StormStep ==
    ASSUME Storm, [WorkNext]_workVars
    PROVE  Storm'
<1>LaunchKeeper. CASE LaunchKeeper
  BY <1>LaunchKeeper, WorkstationAssumption DEF LaunchKeeper, Storm
<1>Establish. CASE Establish
  BY <1>Establish, WorkstationAssumption DEF Establish, Storm
<1>HealthyDrop. CASE HealthyDrop
  BY <1>HealthyDrop, WorkstationAssumption DEF HealthyDrop, Storm
<1>FastFail. CASE FastFail
  BY <1>FastFail, WorkstationAssumption DEF FastFail, Storm
<1>CountFail. CASE CountFail
  BY <1>CountFail, WorkstationAssumption DEF CountFail, Storm
<1>Bootout. CASE Bootout
  BY <1>Bootout, WorkstationAssumption DEF Bootout, Storm
<1>Reboot. CASE Reboot
  BY <1>Reboot, WorkstationAssumption DEF Reboot, Storm
<1>OtherBinds. CASE OtherBinds
  BY <1>OtherBinds, WorkstationAssumption DEF OtherBinds, tunnel, Storm
<1>OtherLeaves. CASE OtherLeaves
  BY <1>OtherLeaves, WorkstationAssumption DEF OtherLeaves, tunnel, Storm
<1>LogScrolls. CASE LogScrolls
  BY <1>LogScrolls, WorkstationAssumption DEF LogScrolls, Storm
<1>ProdChanges. ASSUME NEW p \in {"serving", "refusing", "down"},
                ProdChanges(p)
      PROVE  Storm'
  BY <1>ProdChanges, WorkstationAssumption DEF ProdChanges, tunnel, Storm
<1>KeyChanges. ASSUME NEW k \in Token, NEW a \in Token, KeyChanges(k, a)
      PROVE  Storm'
  BY <1>KeyChanges, WorkstationAssumption DEF KeyChanges, tunnel, Storm
<1>StartConnect. CASE StartConnect
  BY <1>StartConnect, WorkstationAssumption DEF StartConnect, tunnel, Storm
<1>EnsureArtifacts. CASE EnsureArtifacts
  BY <1>EnsureArtifacts, WorkstationAssumption DEF EnsureArtifacts, Storm
<1>ReadAgent. CASE ReadAgent
  BY <1>ReadAgent, WorkstationAssumption DEF ReadAgent, tunnel, Storm
<1>Bootstrap. CASE Bootstrap
  BY <1>Bootstrap, WorkstationAssumption DEF Bootstrap, Storm
<1>CheckPort. CASE CheckPort
  BY <1>CheckPort, WorkstationAssumption DEF CheckPort, tunnel, Storm
<1>GetRegistration. CASE GetRegistration
  BY <1>GetRegistration, WorkstationAssumption DEF GetRegistration, tunnel,
     Storm
<1>RemoveRegistration. CASE RemoveRegistration
  BY <1>RemoveRegistration, WorkstationAssumption DEF RemoveRegistration,
     tunnel, Storm
<1>AddRegistration. CASE AddRegistration
  BY <1>AddRegistration, WorkstationAssumption DEF AddRegistration, tunnel,
     Storm
<1>RestoreRegistration. CASE RestoreRegistration
  BY <1>RestoreRegistration, WorkstationAssumption DEF RestoreRegistration,
     tunnel, Storm
<1>VerifyConnect. CASE VerifyConnect
  BY <1>VerifyConnect, WorkstationAssumption DEF VerifyConnect, tunnel, Storm
<1>AuthedProbe. CASE AuthedProbe
  BY <1>AuthedProbe, WorkstationAssumption DEF AuthedProbe, tunnel, Storm
<1>EndConnect. CASE EndConnect
  BY <1>EndConnect, WorkstationAssumption DEF EndConnect, tunnel, Storm
<1>StartStatus. ASSUME NEW t \in BOOLEAN, StartStatus(t)
      PROVE  Storm'
  BY <1>StartStatus, WorkstationAssumption DEF StartStatus, tunnel, Storm
<1>ProbeGateway. CASE ProbeGateway
  BY <1>ProbeGateway, WorkstationAssumption DEF ProbeGateway, tunnel, Storm
<1>Refresh. CASE Refresh
  BY <1>Refresh, WorkstationAssumption DEF Refresh, tunnel, Storm
<1>ReadPool. CASE ReadPool
  BY <1>ReadPool, WorkstationAssumption DEF ReadPool, tunnel, Storm
<1>EndStatus. CASE EndStatus
  BY <1>EndStatus, WorkstationAssumption DEF EndStatus, tunnel, Storm
<1>stutter. CASE UNCHANGED workVars
  BY <1>stutter, WorkstationAssumption DEF workVars, Storm
<1> QED BY <1>LaunchKeeper, <1>Establish, <1>HealthyDrop, <1>FastFail,
     <1>CountFail, <1>Bootout, <1>Reboot, <1>OtherBinds, <1>OtherLeaves,
     <1>LogScrolls, <1>ProdChanges, <1>KeyChanges, <1>StartConnect,
     <1>EnsureArtifacts, <1>ReadAgent, <1>Bootstrap, <1>CheckPort,
     <1>GetRegistration, <1>RemoveRegistration, <1>AddRegistration,
     <1>RestoreRegistration, <1>VerifyConnect, <1>AuthedProbe, <1>EndConnect,
     <1>StartStatus, <1>ProbeGateway, <1>Refresh, <1>ReadPool, <1>EndStatus,
     <1>stutter DEF WorkNext

\* The fields of a report are assigned values of their types.
LEMMA TunnelUpdates ==
    ASSUME NEW q \in CheckState,
           NEW x \in {"idle", "probe", "refresh", "pool", "report"},
           NEW y \in {"none", "ours", "foreign"}
    PROVE  /\ [q EXCEPT !.tunnel = y, !.pc = x] \in CheckState
           /\ \A t \in BOOLEAN :
                 [q EXCEPT !.pc = x, !.tunnel = y, !.token = t] \in CheckState
BY DEF CheckState

LEMMA GatewayUpdates ==
    ASSUME NEW q \in CheckState,
           NEW x \in {"idle", "probe", "refresh", "pool", "report"},
           NEW g \in {"none", "healthy", "mismatch", "tunnel-down",
                      "unexpected", "degraded"}
    PROVE  /\ [q EXCEPT !.gateway = g, !.pc = x] \in CheckState
           /\ [q EXCEPT !.pc = x, !.gateway = g] \in CheckState
BY DEF CheckState

LEMMA IdleChecked == IdleCheck \in CheckState
BY DEF IdleCheck, CheckState

\* Every step keeps what status relies on.
LEMMA OursStep ==
    ASSUME Ours, [WorkNext]_workVars
    PROVE  Ours'
<1>LaunchKeeper. CASE LaunchKeeper
  BY <1>LaunchKeeper DEF LaunchKeeper, Ours
<1>Establish. CASE Establish
  BY <1>Establish DEF Establish, PortTo, Ours
<1>HealthyDrop. CASE HealthyDrop
  BY <1>HealthyDrop DEF HealthyDrop, PortTo, Ours
<1>FastFail. CASE FastFail
  BY <1>FastFail DEF FastFail, PortTo, Freed, Ours
<1>CountFail. CASE CountFail
  BY <1>CountFail DEF CountFail, Ours
<1>Bootout. CASE Bootout
  BY <1>Bootout DEF Bootout, PortTo, Freed, Ours
<1>Reboot. CASE Reboot
  BY <1>Reboot, IdleChecked DEF Reboot, PortTo, Ours, IdleCheck
<1>OtherBinds. CASE OtherBinds
  BY <1>OtherBinds DEF OtherBinds, PortTo, tunnel, Ours
<1>OtherLeaves. CASE OtherLeaves
  BY <1>OtherLeaves DEF OtherLeaves, PortTo, tunnel, Ours
<1>LogScrolls. CASE LogScrolls
  BY <1>LogScrolls DEF LogScrolls, Ours
<1>ProdChanges. ASSUME NEW p \in {"serving", "refusing", "down"},
                ProdChanges(p)
      PROVE  Ours'
  BY <1>ProdChanges DEF ProdChanges, tunnel, Ours
<1>KeyChanges. ASSUME NEW k \in Token, NEW a \in Token, KeyChanges(k, a)
      PROVE  Ours'
  BY <1>KeyChanges DEF KeyChanges, tunnel, Ours
<1>StartConnect. CASE StartConnect
  BY <1>StartConnect DEF StartConnect, tunnel, ConnectAt, Ours
<1>EnsureArtifacts. CASE EnsureArtifacts
  BY <1>EnsureArtifacts DEF EnsureArtifacts, ConnectAt, Ours
<1>ReadAgent. CASE ReadAgent
  BY <1>ReadAgent DEF ReadAgent, tunnel, ConnectAt, Ours
<1>Bootstrap. CASE Bootstrap
  BY <1>Bootstrap DEF Bootstrap, ConnectAt, Ours
<1>CheckPort. CASE CheckPort
  BY <1>CheckPort DEF CheckPort, tunnel, ConnectAt, Ours
<1>GetRegistration. CASE GetRegistration
  BY <1>GetRegistration DEF GetRegistration, tunnel, ConnectAt, Ours
<1>RemoveRegistration. CASE RemoveRegistration
  BY <1>RemoveRegistration DEF RemoveRegistration, tunnel, ConnectAt, Ours
<1>AddRegistration. CASE AddRegistration
  BY <1>AddRegistration DEF AddRegistration, tunnel, ConnectAt, Ours
<1>RestoreRegistration. CASE RestoreRegistration
  BY <1>RestoreRegistration DEF RestoreRegistration, tunnel, ConnectAt, Ours
<1>VerifyConnect. CASE VerifyConnect
  BY <1>VerifyConnect DEF VerifyConnect, tunnel, ConnectAt, Ours
<1>AuthedProbe. CASE AuthedProbe
  BY <1>AuthedProbe DEF AuthedProbe, tunnel, ConnectAt, Ours
<1>EndConnect. CASE EndConnect
  BY <1>EndConnect DEF EndConnect, tunnel, ConnectAt, Ours
<1>StartStatus. ASSUME NEW t \in BOOLEAN, StartStatus(t)
      PROVE  Ours'
  <2>1. checking' \in CheckState
    BY <1>StartStatus, TunnelUpdates, IdleChecked DEF StartStatus, Ours
  <2>2. checking'.pc = "probe"
    BY <1>StartStatus DEF StartStatus, IdleCheck
  <2> QED BY <1>StartStatus, <2>1, <2>2 DEF StartStatus, tunnel, Ours
<1>ProbeGateway. CASE ProbeGateway
  <2>p. PICK code \in Answers("none") :
           checking' = [checking EXCEPT !.gateway = classifyProbeCode(code),
               !.pc = IF checking.token /\ classifyProbeCode(code) = "healthy"
                      THEN "refresh" ELSE "report"]
    BY <1>ProbeGateway DEF ProbeGateway
  <2> DEFINE g == classifyProbeCode(code)
             x == IF checking.token /\ g = "healthy" THEN "refresh" ELSE "report"
  <2>1. /\ g \in {"healthy", "mismatch", "tunnel-down", "unexpected"}
        /\ x \in {"refresh", "report"}
        /\ x = "report" => ~checking.token \/ g # "healthy"
    BY DEF classifyProbeCode
  <2>2. checking' = [checking EXCEPT !.gateway = g, !.pc = x]
    BY <2>p
  <2> HIDE DEF g, x
  <2>3. /\ checking' \in CheckState /\ checking'.pc = x /\ checking'.gateway = g
        /\ checking'.token = checking.token
    <3>1. checking' \in CheckState
      BY <2>1, <2>2, GatewayUpdates DEF Ours
    <3> QED BY <2>2, <3>1 DEF Ours, CheckState
  <2> QED BY <1>ProbeGateway, <2>1, <2>3 DEF ProbeGateway, tunnel, Ours
<1>Refresh. CASE Refresh
  <2> DEFINE x == IF port = "ours" THEN "pool" ELSE "report"
  <2>1. checking' = [checking EXCEPT !.tunnel = port, !.pc = x]
    BY <1>Refresh DEF Refresh
  <2>2. x \in {"pool", "report"} /\ (x = "pool" <=> port = "ours")
    OBVIOUS
  <2> HIDE DEF x
  <2>3. checking' \in CheckState /\ checking'.pc = x /\ checking'.tunnel = port
    <3>1. checking' \in CheckState
      BY <2>1, <2>2, TunnelUpdates DEF Ours
    <3> QED BY <2>1, <3>1 DEF Ours, CheckState
  <2> QED BY <1>Refresh, <2>2, <2>3 DEF Refresh, CheckAt, tunnel, Ours
<1>ReadPool. CASE ReadPool
  <2>p. PICK degraded \in BOOLEAN :
           checking' = [checking EXCEPT !.pc = "report",
                            !.gateway = IF degraded THEN "degraded" ELSE @]
    BY <1>ReadPool DEF ReadPool
  <2> DEFINE g == IF degraded THEN "degraded" ELSE checking.gateway
  <2>1. checking' = [checking EXCEPT !.pc = "report", !.gateway = g]
    BY <2>p
  <2>2. g \in {"none", "healthy", "mismatch", "tunnel-down", "unexpected", "degraded"}
    BY DEF Ours, CheckState
  <2> HIDE DEF g
  <2>3. checking' \in CheckState
    BY <2>1, <2>2, GatewayUpdates DEF Ours
  <2> QED BY <1>ReadPool, <2>3 DEF ReadPool, CheckAt, tunnel, Ours
<1>EndStatus. CASE EndStatus
  BY <1>EndStatus, IdleChecked DEF EndStatus, tunnel, Ours, IdleCheck, CheckAt
<1>stutter. CASE UNCHANGED workVars
  BY <1>stutter DEF workVars, Ours
<1> QED BY <1>LaunchKeeper, <1>Establish, <1>HealthyDrop, <1>FastFail,
     <1>CountFail, <1>Bootout, <1>Reboot, <1>OtherBinds, <1>OtherLeaves,
     <1>LogScrolls, <1>ProdChanges, <1>KeyChanges, <1>StartConnect,
     <1>EnsureArtifacts, <1>ReadAgent, <1>Bootstrap, <1>CheckPort,
     <1>GetRegistration, <1>RemoveRegistration, <1>AddRegistration,
     <1>RestoreRegistration, <1>VerifyConnect, <1>AuthedProbe, <1>EndConnect,
     <1>StartStatus, <1>ProbeGateway, <1>Refresh, <1>ReadPool, <1>EndStatus,
     <1>stutter DEF WorkNext

-----------------------------------------------------------------------------
(* The production host. *)

Envs == {<<>>} \cup [Consumer -> Nat]
LiveState ==
    [image : Image, env : [Consumer -> Nat], reg : SUBSET (Consumer \X Nat),
     state : {"booting", "serving", "crashed"}, restarts : {0, 1}]
DeployPc ==
    {"idle", "gate", "smoke", "anchor", "read", "swap", "verify", "retain", "rollback",
     "back", "verifyBack"}
DeployState ==
    [pc : DeployPc, image : Image, anchor : Image \cup {"none"}, env : Envs, crossed : BOOLEAN]
KeysPc == {"idle", "manifest", "env", "keychain", "smoke", "recreate", "probe"}
KeysState ==
    [pc : KeysPc, op : {"none", "new", "revoke"}, id : Consumer \cup {"none"},
     apply : BOOLEAN, entries : SUBSET Consumer, env : Envs,
     image : Image \cup {"none"}, crossed : BOOLEAN]
SmokeState ==
    [image : Image, env : [Consumer -> Nat], state : {"booting", "serving", "crashed"}]
ScriptState ==
    [pc : {"idle", "launch", "poll", "passed", "failed"}, image : Image, env : Envs,
     crossed : BOOLEAN]

FileTypes ==
    /\ manifest \in SUBSET Consumer /\ env \in [Consumer -> Nat]
    /\ minted \in Nat /\ touched \in BOOLEAN /\ revoked \in SUBSET (Consumer \X Nat)
LiveTypes == live \in LiveState \cup {NoLive}
\* An image is launched from an env file that was read, and the rollback has
\* an image to go back to.
DeployTypes ==
    /\ deploy \in DeployState
    /\ deploy.pc \in {"swap", "verify", "back"} => deploy.env \in [Consumer -> Nat]
    /\ deploy.pc \in {"rollback", "back"} => deploy.anchor \in Image
KeysTypes ==
    /\ keys \in KeysState
    /\ keys.pc \in {"manifest", "env", "keychain"} => keys.id \in Consumer
    /\ keys.pc = "recreate" => keys.env \in [Consumer -> Nat]
SmokeTypes ==
    /\ smoke \in SmokeState \cup {NoSmoke}
    /\ script \in [Smoker -> ScriptState]
    /\ \A u \in Smoker : script[u].pc = "launch" => script[u].env \in [Consumer -> Nat]
HostTypes == FileTypes /\ LiveTypes /\ DeployTypes /\ KeysTypes /\ SmokeTypes

\* One keys command at a time: the copies it read are what the files hold.
Copies ==
    /\ keys.pc = "manifest" => keys.entries = manifest
    /\ keys.pc \in {"manifest", "env", "recreate", "probe"} => keys.env = env

\* What the script of u goes by, unless the other one launched meanwhile: the
\* container it polls, if any, is its own, on the files as they are.
SmokeHolds(u) ==
    /\ script[u].pc = "launch" => script[u].env = env
    /\ script[u].pc = "poll" /\ ~script[u].crossed /\ smoke # NoSmoke =>
          /\ smoke.image = script[u].image /\ smoke.env = env
          /\ smoke.state = "serving" => Boots(script[u].image, manifest, env)
    /\ script[u].pc = "passed" /\ ~script[u].crossed => Boots(script[u].image, manifest, env)

\* A script belongs to a command that waits for it, and the keys command does
\* not write while it does.
Scripts ==
    /\ script["deploy"].pc # "idle" =>
          deploy.pc = "smoke" /\ script["deploy"].image = deploy.image
    /\ script["keys"].pc # "idle" => keys.pc = "smoke"
    /\ ~touched => SmokeHolds("deploy")
    /\ SmokeHolds("keys")

\* While nobody wrote the files, and unless the other command's smoke was
\* taken for the deploy's, the configuration the smoke booted is the one of
\* the container the deploy created.
Smoked ==
    ~touched /\ ~deploy.crossed =>
      /\ deploy.pc \in {"anchor", "read", "swap", "verify"}
            => Boots(deploy.image, manifest, env)
      /\ deploy.pc \in {"swap", "verify"} => deploy.env = env
      /\ deploy.pc = "verify" /\ live # NoLive /\ live.image = deploy.image
            => live.env = env /\ live.state # "crashed"

\* The same of the keys command, which nobody's writes come between.
Applied ==
    ~keys.crossed =>
      /\ keys.pc \in {"recreate", "probe"} => Boots(keys.image, manifest, env)
      /\ keys.pc = "probe" /\ live # NoLive /\ live.image = keys.image /\ live.env = keys.env
            => live.state # "crashed"

\* Who is revoked is not in the manifest.
Barred ==
    /\ \A r \in revoked : r[1] \notin manifest
    /\ keys.pc = "env" /\ keys.op = "revoke" => keys.id \notin manifest

Host == HostTypes /\ Copies /\ Scripts /\ Smoked /\ Applied /\ Barred

\* The updates of the three records stay in their types.
LEMMA LiveUpdates ==
    ASSUME NEW l \in LiveState
    PROVE  /\ l # NoLive
           /\ [l EXCEPT !.state = "crashed"] \in LiveState
           /\ [l EXCEPT !.state = "booting", !.reg = {}, !.restarts = 1] \in LiveState
           /\ \A R \in SUBSET (Consumer \X Nat) :
                 [l EXCEPT !.state = "serving", !.reg = R] \in LiveState
<1>1. l # NoLive
  <2>1. "none" \notin DOMAIN l /\ "none" \in DOMAIN NoLive
    BY DEF LiveState, NoLive
  <2> QED BY <2>1
<1> QED BY <1>1 DEF LiveState

LEMMA CreatedType ==
    ASSUME NEW i \in Image, NEW e \in [Consumer -> Nat]
    PROVE  /\ Created(i, e) \in LiveState
           /\ Created(i, e).image = i /\ Created(i, e).env = e
           /\ Created(i, e).state = "booting"
BY DEF Created, LiveState

LEMMA DeployMoves ==
    ASSUME deploy \in DeployState, NEW x \in DeployPc, DeployTo(x)
    PROVE  /\ deploy' \in DeployState /\ deploy'.pc = x
           /\ deploy'.image = deploy.image /\ deploy'.anchor = deploy.anchor
           /\ deploy'.env = deploy.env /\ deploy'.crossed = deploy.crossed
BY DEF DeployTo, DeployState

LEMMA DeployReads ==
    ASSUME deploy \in DeployState, env \in [Consumer -> Nat],
           NEW x \in DeployPc, deploy' = [deploy EXCEPT !.pc = x, !.env = env]
    PROVE  /\ deploy' \in DeployState /\ deploy'.pc = x
           /\ deploy'.image = deploy.image /\ deploy'.anchor = deploy.anchor
           /\ deploy'.env = env /\ deploy'.crossed = deploy.crossed
<1>1. env \in Envs
  BY DEF Envs
<1>2. deploy' \in DeployState
  BY <1>1 DEF DeployState
<1> QED BY <1>2 DEF DeployState

LEMMA IdleDeployType == IdleDeploy \in DeployState /\ IdleDeploy.pc = "idle"
BY DeployAssumption DEF IdleDeploy, DeployState, DeployPc, Envs

LEMMA KeysMoves ==
    ASSUME keys \in KeysState, NEW x \in KeysPc, KeysTo(x)
    PROVE  /\ keys' \in KeysState /\ keys'.pc = x /\ keys'.op = keys.op
           /\ keys'.id = keys.id /\ keys'.apply = keys.apply
           /\ keys'.entries = keys.entries /\ keys'.env = keys.env
           /\ keys'.image = keys.image /\ keys'.crossed = keys.crossed
BY DEF KeysTo, KeysState

LEMMA IdleKeysType == IdleKeys \in KeysState /\ IdleKeys.pc = "idle"
BY DEF IdleKeys, KeysState, KeysPc, Envs

\* Every step of the host keeps the types of the files.
LEMMA FileTypesStep ==
    ASSUME HostTypes, Copies, [DeployNext]_deployVars
    PROVE  FileTypes'
<1> USE DEF HostTypes
<1>BootLive. CASE BootLive
  BY <1>BootLive DEF BootLive, files, FileTypes
<1>RestartLive. CASE RestartLive
  BY <1>RestartLive DEF RestartLive, files, FileTypes
<1>StartDeploy. ASSUME NEW i \in Image, StartDeploy(i)
      PROVE  FileTypes'
  BY <1>StartDeploy DEF StartDeploy, files, FileTypes
<1>RunGate. CASE RunGate
  BY <1>RunGate DEF RunGate, files, FileTypes
<1>RunSmoke. CASE RunSmoke
  BY <1>RunSmoke DEF RunSmoke, files, FileTypes
<1>CaptureAnchor. CASE CaptureAnchor
  BY <1>CaptureAnchor DEF CaptureAnchor, files, FileTypes
<1>Swap. CASE Swap
  BY <1>Swap DEF Swap, LaunchReads, Launches, files, FileTypes
<1>VerifySwap. CASE VerifySwap
  BY <1>VerifySwap DEF VerifySwap, files, FileTypes
<1>Retain. CASE Retain
  BY <1>Retain DEF Retain, files, FileTypes
<1>Rollback. CASE Rollback
  BY <1>Rollback DEF Rollback, files, LaunchReads, Launches, files, FileTypes
<1>KillDeploy. CASE KillDeploy
  BY <1>KillDeploy DEF KillDeploy, files, FileTypes
<1>KeysNew. ASSUME NEW id \in Consumer, NEW apply \in BOOLEAN, NEW sized \in BOOLEAN,
                KeysNew(id, apply, sized)
      PROVE  FileTypes'
  BY <1>KeysNew DEF KeysNew, Starts, files, Other, FileTypes
<1>KeysRevoke. ASSUME NEW id \in Consumer, NEW apply \in BOOLEAN,
                KeysRevoke(id, apply)
      PROVE  FileTypes'
  BY <1>KeysRevoke DEF KeysRevoke, Starts, files, Other, FileTypes
<1>WriteFiles. CASE WriteFiles
  <2>1. keys.id \in Consumer /\ keys.entries \in SUBSET Consumer
    BY <1>WriteFiles DEF WriteFiles, KeysAt, KeysTypes, KeysState
  <2>2. keys.env \in [Consumer -> Nat]
    BY <1>WriteFiles DEF WriteFiles, KeysAt, Copies, FileTypes
  <2>3. NowRevoked \in SUBSET (Consumer \X Nat)
    BY <2>1, <2>2 DEF NowRevoked, FileTypes
  <2>4. minted + 1 \in Nat /\ minted' \in Nat
    BY <1>WriteFiles DEF WriteFiles, FileTypes
  <2>5. manifest' \in SUBSET Consumer
    BY <1>WriteFiles, <2>1 DEF WriteFiles, FileTypes
  <2>6. env' \in [Consumer -> Nat]
    BY <1>WriteFiles, <2>1, <2>2, <2>4 DEF WriteFiles, FileTypes
  <2> QED BY <1>WriteFiles, <2>3, <2>4, <2>5, <2>6 DEF WriteFiles, FileTypes
<1>WriteKeychain. CASE WriteKeychain
  BY <1>WriteKeychain DEF WriteKeychain, files, Other, FileTypes
<1>ApplySmoke. CASE ApplySmoke
  BY <1>ApplySmoke DEF ApplySmoke, files, Other, FileTypes
<1>ApplyRecreate. CASE ApplyRecreate
  BY <1>ApplyRecreate DEF ApplyRecreate, files, FileTypes
<1>ApplyProbe. CASE ApplyProbe
  BY <1>ApplyProbe DEF ApplyProbe, files, Other, FileTypes
<1>KillKeys. CASE KillKeys
  BY <1>KillKeys DEF KillKeys, files, Other, FileTypes
<1>StartSmoke. ASSUME NEW u \in Smoker, StartSmoke(u)
      PROVE  FileTypes'
  BY <1>StartSmoke DEF StartSmoke, FileTypes
<1>LaunchSmoke. ASSUME NEW u \in Smoker, LaunchSmoke(u)
      PROVE  FileTypes'
  BY <1>LaunchSmoke DEF LaunchSmoke, files, FileTypes
<1>BootSmoke. CASE BootSmoke
  BY <1>BootSmoke DEF BootSmoke, files, FileTypes
<1>JudgeSmoke. ASSUME NEW u \in Smoker, JudgeSmoke(u)
      PROVE  FileTypes'
  BY <1>JudgeSmoke DEF JudgeSmoke, files, FileTypes
<1>stutter. CASE UNCHANGED deployVars
  BY <1>stutter DEF deployVars, FileTypes
<1> QED BY <1>BootLive, <1>RestartLive, <1>StartDeploy, <1>RunGate,
     <1>RunSmoke, <1>CaptureAnchor, <1>Swap, <1>VerifySwap, <1>Retain,
     <1>Rollback, <1>KillDeploy, <1>KeysNew, <1>KeysRevoke, <1>WriteFiles,
     <1>WriteKeychain, <1>ApplySmoke, <1>ApplyRecreate, <1>ApplyProbe,
     <1>KillKeys, <1>StartSmoke, <1>LaunchSmoke, <1>BootSmoke, <1>JudgeSmoke,
     <1>stutter DEF DeployNext

\* Every step keeps the type of the container.
LEMMA LiveTypesStep ==
    ASSUME HostTypes, [DeployNext]_deployVars
    PROVE  LiveTypes'
<1> USE DEF HostTypes
<1>BootLive. CASE BootLive
  <2> DEFINE R == {<<c, live.env[c]>> : c \in manifest}
  <2>1. live \in LiveState
    BY <1>BootLive DEF BootLive, LiveTypes
  <2>2. R \in SUBSET (Consumer \X Nat)
    BY <2>1 DEF LiveState, FileTypes
  <2>3. \/ live' = [live EXCEPT !.state = "serving", !.reg = R]
        \/ live' = [live EXCEPT !.state = "crashed"]
    BY <1>BootLive DEF BootLive
  <2> HIDE DEF R
  <2> QED BY <2>1, <2>2, <2>3, LiveUpdates DEF LiveTypes
<1>RestartLive. CASE RestartLive
  BY <1>RestartLive, LiveUpdates DEF RestartLive, LiveTypes
<1>StartDeploy. ASSUME NEW i \in Image, StartDeploy(i)
      PROVE  LiveTypes'
  BY <1>StartDeploy DEF StartDeploy, files, LiveTypes
<1>RunGate. CASE RunGate
  BY <1>RunGate DEF RunGate, files, LiveTypes
<1>RunSmoke. CASE RunSmoke
  BY <1>RunSmoke DEF RunSmoke, LiveTypes
<1>CaptureAnchor. CASE CaptureAnchor
  BY <1>CaptureAnchor DEF CaptureAnchor, files, LiveTypes
<1>Swap. CASE Swap
  <2>1. \/ UNCHANGED live \/ live' = NoLive
        \/ deploy.pc = "swap" /\ live' = Created(deploy.image, deploy.env)
    BY <1>Swap DEF Swap, LaunchReads, Launches, DeployAt
  <2>2. deploy.pc = "swap" => deploy.image \in Image /\ deploy.env \in [Consumer -> Nat]
    BY DEF DeployTypes, DeployState
  <2> QED BY <2>1, <2>2, CreatedType DEF LiveTypes
<1>VerifySwap. CASE VerifySwap
  BY <1>VerifySwap DEF VerifySwap, files, LiveTypes
<1>Retain. CASE Retain
  BY <1>Retain DEF Retain, files, LiveTypes
<1>Rollback. CASE Rollback
  <2>1. \/ UNCHANGED live \/ live' = NoLive
        \/ deploy.pc = "back" /\ live' = Created(deploy.anchor, deploy.env)
    BY <1>Rollback DEF Rollback, LaunchReads, Launches, DeployAt
  <2>2. deploy.pc = "back" => deploy.anchor \in Image /\ deploy.env \in [Consumer -> Nat]
    BY DEF DeployTypes, DeployState
  <2> QED BY <2>1, <2>2, CreatedType DEF LiveTypes
<1>KillDeploy. CASE KillDeploy
  BY <1>KillDeploy DEF KillDeploy, files, LiveTypes
<1>KeysNew. ASSUME NEW id \in Consumer, NEW apply \in BOOLEAN, NEW sized \in BOOLEAN,
                KeysNew(id, apply, sized)
      PROVE  LiveTypes'
  BY <1>KeysNew DEF KeysNew, Starts, files, Other, LiveTypes
<1>KeysRevoke. ASSUME NEW id \in Consumer, NEW apply \in BOOLEAN,
                KeysRevoke(id, apply)
      PROVE  LiveTypes'
  BY <1>KeysRevoke DEF KeysRevoke, Starts, files, Other, LiveTypes
<1>WriteFiles. CASE WriteFiles
  BY <1>WriteFiles DEF WriteFiles, Other, LiveTypes
<1>WriteKeychain. CASE WriteKeychain
  BY <1>WriteKeychain DEF WriteKeychain, Other, LiveTypes
<1>ApplySmoke. CASE ApplySmoke
  BY <1>ApplySmoke DEF ApplySmoke, files, Other, LiveTypes
<1>ApplyRecreate. CASE ApplyRecreate
  <2>1. \/ live' = NoLive
        \/ live \in LiveState /\ live' = Created(live.image, keys.env)
    BY <1>ApplyRecreate DEF ApplyRecreate, LiveTypes
  <2>2. keys.env \in [Consumer -> Nat]
    BY <1>ApplyRecreate DEF ApplyRecreate, KeysAt, KeysTypes
  <2>3. live \in LiveState => live.image \in Image
    BY DEF LiveState
  <2> QED BY <2>1, <2>2, <2>3, CreatedType DEF LiveTypes
<1>ApplyProbe. CASE ApplyProbe
  BY <1>ApplyProbe DEF ApplyProbe, files, Other, LiveTypes
<1>KillKeys. CASE KillKeys
  BY <1>KillKeys DEF KillKeys, files, Other, LiveTypes
<1>StartSmoke. ASSUME NEW u \in Smoker, StartSmoke(u)
      PROVE  LiveTypes'
  BY <1>StartSmoke DEF StartSmoke, LiveTypes
<1>LaunchSmoke. ASSUME NEW u \in Smoker, LaunchSmoke(u)
      PROVE  LiveTypes'
  BY <1>LaunchSmoke DEF LaunchSmoke, files, LiveTypes
<1>BootSmoke. CASE BootSmoke
  BY <1>BootSmoke DEF BootSmoke, files, LiveTypes
<1>JudgeSmoke. ASSUME NEW u \in Smoker, JudgeSmoke(u)
      PROVE  LiveTypes'
  BY <1>JudgeSmoke DEF JudgeSmoke, files, LiveTypes
<1>stutter. CASE UNCHANGED deployVars
  BY <1>stutter DEF deployVars, LiveTypes
<1> QED BY <1>BootLive, <1>RestartLive, <1>StartDeploy, <1>RunGate,
     <1>RunSmoke, <1>CaptureAnchor, <1>Swap, <1>VerifySwap, <1>Retain,
     <1>Rollback, <1>KillDeploy, <1>KeysNew, <1>KeysRevoke, <1>WriteFiles,
     <1>WriteKeychain, <1>ApplySmoke, <1>ApplyRecreate, <1>ApplyProbe,
     <1>KillKeys, <1>StartSmoke, <1>LaunchSmoke, <1>BootSmoke, <1>JudgeSmoke,
     <1>stutter DEF DeployNext

\* Every step keeps the type of the deploy.
LEMMA DeployTypesStep ==
    ASSUME HostTypes, [DeployNext]_deployVars
    PROVE  DeployTypes'
<1> USE DEF HostTypes
<1>BootLive. CASE BootLive
  BY <1>BootLive DEF BootLive, files, DeployTypes
<1>RestartLive. CASE RestartLive
  BY <1>RestartLive DEF RestartLive, files, DeployTypes
<1>StartDeploy. ASSUME NEW i \in Image, StartDeploy(i)
      PROVE  DeployTypes'
  <2>1. deploy' \in DeployState /\ deploy'.pc = "gate"
    BY <1>StartDeploy, IdleDeployType DEF StartDeploy, DeployState, DeployPc
  <2> QED BY <2>1 DEF DeployTypes
<1>RunGate. CASE RunGate
  <2>1. deploy' = IdleDeploy \/ DeployTo("smoke")
    BY <1>RunGate DEF RunGate
  <2>2. CASE DeployTo("smoke")
    <3>1. "smoke" \in DeployPc
      BY DEF DeployPc
    <3> QED BY <2>2, <3>1, DeployMoves DEF DeployTypes
  <2> QED BY <2>1, <2>2, IdleDeployType DEF DeployTypes
<1>RunSmoke. CASE RunSmoke
  <2> DEFINE x == script["deploy"].crossed
  <2>1. deploy' = IdleDeploy \/ deploy' = [deploy EXCEPT !.pc = "anchor", !.crossed = x]
    BY <1>RunSmoke DEF RunSmoke
  <2>2. x \in BOOLEAN
    BY DEF SmokeTypes, ScriptState, Smoker
  <2> HIDE DEF x
  <2>3. CASE deploy' = [deploy EXCEPT !.pc = "anchor", !.crossed = x]
    <3>1. deploy' \in DeployState /\ deploy'.pc = "anchor"
      BY <2>2, <2>3 DEF DeployTypes, DeployState, DeployPc
    <3> QED BY <3>1 DEF DeployTypes
  <2> QED BY <2>1, <2>3, IdleDeployType DEF DeployTypes
<1>CaptureAnchor. CASE CaptureAnchor
  <2> DEFINE a == IF live = NoLive THEN "none" ELSE live.image
  <2>1. a \in Image \cup {"none"}
    BY DEF LiveTypes, LiveState
  <2>2. deploy' = [deploy EXCEPT !.pc = "read", !.anchor = a]
    BY <1>CaptureAnchor DEF CaptureAnchor
  <2> HIDE DEF a
  <2>3. deploy' \in DeployState /\ deploy'.pc = "read"
    BY <2>1, <2>2 DEF DeployTypes, DeployState, DeployPc
  <2> QED BY <2>3 DEF DeployTypes
<1>Swap. CASE Swap
  <2>1. CASE LaunchReads("read", "swap")
    <3>1. deploy.pc = "read" /\ deploy' = [deploy EXCEPT !.pc = "swap", !.env = env]
      BY <2>1 DEF LaunchReads, DeployAt
    <3>2. "swap" \in DeployPc
      BY DEF DeployPc
    <3>3. deploy' \in DeployState /\ deploy'.pc = "swap" /\ deploy'.env = env
          /\ deploy'.anchor = deploy.anchor
      BY <3>1, <3>2, DeployReads DEF DeployTypes, FileTypes
    <3> QED BY <3>1, <3>3 DEF DeployTypes, FileTypes
  <2>2. CASE Launches("swap", deploy.image, "verify")
    <3>1. /\ deploy.pc = "swap"
          /\ DeployTo("verify") \/ deploy' = IdleDeploy
      BY <2>2 DEF Launches, DeployAt
    <3>2. "verify" \in DeployPc
      BY DEF DeployPc
    <3>3. CASE DeployTo("verify")
      BY <3>1, <3>2, <3>3, DeployMoves DEF DeployTypes
    <3> QED BY <3>1, <3>3, IdleDeployType DEF DeployTypes
  <2> QED BY <1>Swap, <2>1, <2>2 DEF Swap
<1>VerifySwap. CASE VerifySwap
  <2>1. \/ deploy' = IdleDeploy \/ DeployTo("retain")
        \/ deploy.anchor \in Image /\ DeployTo("rollback")
    BY <1>VerifySwap DEF VerifySwap, DeployTypes, DeployState
  <2>2. CASE DeployTo("retain")
    <3>1. "retain" \in DeployPc
      BY DEF DeployPc
    <3> QED BY <2>2, <3>1, DeployMoves DEF DeployTypes
  <2>3. CASE deploy.anchor \in Image /\ DeployTo("rollback")
    <3>1. "rollback" \in DeployPc
      BY DEF DeployPc
    <3> QED BY <2>3, <3>1, DeployMoves DEF DeployTypes
  <2> QED BY <2>1, <2>2, <2>3, IdleDeployType DEF DeployTypes
<1>Retain. CASE Retain
  BY <1>Retain, DeployMoves, IdleDeployType DEF Retain, DeployAt, DeployTypes,
     DeployPc
<1>Rollback. CASE Rollback
  <2>1. CASE LaunchReads("rollback", "back")
    <3>1. deploy.pc = "rollback" /\ deploy' = [deploy EXCEPT !.pc = "back", !.env = env]
      BY <2>1 DEF LaunchReads, DeployAt
    <3>2. "back" \in DeployPc
      BY DEF DeployPc
    <3>3. deploy' \in DeployState /\ deploy'.pc = "back" /\ deploy'.env = env
          /\ deploy'.anchor = deploy.anchor
      BY <3>1, <3>2, DeployReads DEF DeployTypes, FileTypes
    <3> QED BY <3>1, <3>3 DEF DeployTypes, FileTypes
  <2>2. CASE Launches("back", deploy.anchor, "verifyBack")
    <3>1. /\ deploy.pc = "back"
          /\ DeployTo("verifyBack") \/ deploy' = IdleDeploy
      BY <2>2 DEF Launches, DeployAt
    <3>2. "verifyBack" \in DeployPc
      BY DEF DeployPc
    <3>3. CASE DeployTo("verifyBack")
      BY <3>1, <3>2, <3>3, DeployMoves DEF DeployTypes
    <3> QED BY <3>1, <3>3, IdleDeployType DEF DeployTypes
  <2>3. CASE deploy' = IdleDeploy
    BY <2>3, IdleDeployType DEF DeployTypes
  <2> QED BY <1>Rollback, <2>1, <2>2, <2>3 DEF Rollback
<1>KillDeploy. CASE KillDeploy
  BY <1>KillDeploy, DeployMoves, IdleDeployType DEF KillDeploy, DeployAt, DeployTypes,
     DeployPc
<1>KeysNew. ASSUME NEW id \in Consumer, NEW apply \in BOOLEAN, NEW sized \in BOOLEAN,
                KeysNew(id, apply, sized)
      PROVE  DeployTypes'
  BY <1>KeysNew DEF KeysNew, Starts, files, Other, DeployTypes
<1>KeysRevoke. ASSUME NEW id \in Consumer, NEW apply \in BOOLEAN,
                KeysRevoke(id, apply)
      PROVE  DeployTypes'
  BY <1>KeysRevoke DEF KeysRevoke, Starts, files, Other, DeployTypes
<1>WriteFiles. CASE WriteFiles
  BY <1>WriteFiles DEF WriteFiles, Other, DeployTypes
<1>WriteKeychain. CASE WriteKeychain
  BY <1>WriteKeychain DEF WriteKeychain, Other, DeployTypes
<1>ApplySmoke. CASE ApplySmoke
  BY <1>ApplySmoke DEF ApplySmoke, files, Other, DeployTypes
<1>ApplyRecreate. CASE ApplyRecreate
  BY <1>ApplyRecreate DEF ApplyRecreate, files, DeployTypes
<1>ApplyProbe. CASE ApplyProbe
  BY <1>ApplyProbe DEF ApplyProbe, files, Other, DeployTypes
<1>KillKeys. CASE KillKeys
  BY <1>KillKeys DEF KillKeys, files, Other, DeployTypes
<1>StartSmoke. ASSUME NEW u \in Smoker, StartSmoke(u)
      PROVE  DeployTypes'
  BY <1>StartSmoke DEF StartSmoke, DeployTypes
<1>LaunchSmoke. ASSUME NEW u \in Smoker, LaunchSmoke(u)
      PROVE  DeployTypes'
  BY <1>LaunchSmoke DEF LaunchSmoke, files, DeployTypes
<1>BootSmoke. CASE BootSmoke
  BY <1>BootSmoke DEF BootSmoke, files, DeployTypes
<1>JudgeSmoke. ASSUME NEW u \in Smoker, JudgeSmoke(u)
      PROVE  DeployTypes'
  BY <1>JudgeSmoke DEF JudgeSmoke, files, DeployTypes
<1>stutter. CASE UNCHANGED deployVars
  BY <1>stutter DEF deployVars, DeployTypes
<1> QED BY <1>BootLive, <1>RestartLive, <1>StartDeploy, <1>RunGate,
     <1>RunSmoke, <1>CaptureAnchor, <1>Swap, <1>VerifySwap, <1>Retain,
     <1>Rollback, <1>KillDeploy, <1>KeysNew, <1>KeysRevoke, <1>WriteFiles,
     <1>WriteKeychain, <1>ApplySmoke, <1>ApplyRecreate, <1>ApplyProbe,
     <1>KillKeys, <1>StartSmoke, <1>LaunchSmoke, <1>BootSmoke, <1>JudgeSmoke,
     <1>stutter DEF DeployNext

\* Every step keeps the type of the keys command.
LEMMA KeysTypesStep ==
    ASSUME HostTypes, [DeployNext]_deployVars
    PROVE  KeysTypes'
<1> USE DEF HostTypes
<1>BootLive. CASE BootLive
  BY <1>BootLive DEF BootLive, files, KeysTypes
<1>RestartLive. CASE RestartLive
  BY <1>RestartLive DEF RestartLive, files, KeysTypes
<1>StartDeploy. ASSUME NEW i \in Image, StartDeploy(i)
      PROVE  KeysTypes'
  BY <1>StartDeploy DEF StartDeploy, files, KeysTypes
<1>RunGate. CASE RunGate
  BY <1>RunGate DEF RunGate, files, KeysTypes
<1>RunSmoke. CASE RunSmoke
  BY <1>RunSmoke DEF RunSmoke, KeysTypes
<1>CaptureAnchor. CASE CaptureAnchor
  BY <1>CaptureAnchor DEF CaptureAnchor, files, KeysTypes
<1>Swap. CASE Swap
  BY <1>Swap DEF Swap, LaunchReads, Launches, files, KeysTypes
<1>VerifySwap. CASE VerifySwap
  BY <1>VerifySwap DEF VerifySwap, files, KeysTypes
<1>Retain. CASE Retain
  BY <1>Retain DEF Retain, files, KeysTypes
<1>Rollback. CASE Rollback
  BY <1>Rollback DEF Rollback, files, LaunchReads, Launches, files, KeysTypes
<1>KillDeploy. CASE KillDeploy
  BY <1>KillDeploy DEF KillDeploy, files, KeysTypes
<1>KeysNew. ASSUME NEW id \in Consumer, NEW apply \in BOOLEAN, NEW sized \in BOOLEAN,
                KeysNew(id, apply, sized)
      PROVE  KeysTypes'
  <2>1. /\ keys'.pc = "manifest" /\ keys'.id = id
        /\ keys' \in KeysState
    BY <1>KeysNew, IdleKeysType DEF KeysNew, Starts, KeysState, KeysPc, Envs, FileTypes
  <2> QED BY <2>1 DEF KeysTypes
<1>KeysRevoke. ASSUME NEW id \in Consumer, NEW apply \in BOOLEAN,
                KeysRevoke(id, apply)
      PROVE  KeysTypes'
  <2>1. /\ keys'.pc = "manifest" /\ keys'.id = id
        /\ keys' \in KeysState
    BY <1>KeysRevoke, IdleKeysType DEF KeysRevoke, Starts, KeysState, KeysPc, Envs, FileTypes
  <2> QED BY <2>1 DEF KeysTypes
<1>WriteFiles. CASE WriteFiles
  <2>1. /\ keys' = IdleKeys \/ KeysTo("env") \/ KeysTo("keychain")
        /\ keys.id \in Consumer
    BY <1>WriteFiles DEF WriteFiles, KeysAt, KeysTypes
  <2>2. CASE KeysTo("env")
    <3>1. "env" \in KeysPc
      BY DEF KeysPc
    <3> QED BY <2>1, <2>2, <3>1, KeysMoves DEF KeysTypes
  <2>3. CASE KeysTo("keychain")
    <3>1. "keychain" \in KeysPc
      BY DEF KeysPc
    <3> QED BY <2>1, <2>3, <3>1, KeysMoves DEF KeysTypes
  <2> QED BY <2>1, <2>2, <2>3, IdleKeysType DEF KeysTypes
<1>WriteKeychain. CASE WriteKeychain
  <2>1. keys' = IdleKeys \/ keys' = [IdleKeys EXCEPT !.pc = "smoke"]
    BY <1>WriteKeychain DEF WriteKeychain
  <2>2. CASE keys' = [IdleKeys EXCEPT !.pc = "smoke"]
    <3>1. keys' \in KeysState /\ keys'.pc = "smoke"
      BY <2>2, IdleKeysType DEF KeysState, KeysPc
    <3> QED BY <3>1 DEF KeysTypes
  <2> QED BY <2>1, <2>2, IdleKeysType DEF KeysTypes
<1>ApplySmoke. CASE ApplySmoke
  <2> DEFINE i == script["keys"].image
             x == script["keys"].crossed
  <2>1. \/ keys' = IdleKeys
        \/ keys' = [keys EXCEPT !.pc = "recreate", !.env = env, !.image = i, !.crossed = x]
    BY <1>ApplySmoke DEF ApplySmoke
  <2>2. /\ env \in Envs /\ env \in [Consumer -> Nat] /\ keys \in KeysState
        /\ i \in Image /\ x \in BOOLEAN
    BY DEF Envs, FileTypes, KeysTypes, SmokeTypes, ScriptState, Smoker
  <2> HIDE DEF i, x
  <2>3. CASE keys' = [keys EXCEPT !.pc = "recreate", !.env = env, !.image = i, !.crossed = x]
    <3>1. keys' \in KeysState
      BY <2>2, <2>3 DEF KeysState, KeysPc
    <3>2. keys'.pc = "recreate" /\ keys'.env = env
      BY <2>2, <2>3 DEF KeysState
    <3> QED BY <2>2, <3>1, <3>2 DEF KeysTypes
  <2> QED BY <2>1, <2>3, IdleKeysType DEF KeysTypes
<1>ApplyRecreate. CASE ApplyRecreate
  <2>1. /\ keys' = IdleKeys \/ KeysTo("probe")
    BY <1>ApplyRecreate DEF ApplyRecreate, KeysAt, KeysTypes
  <2>2. CASE KeysTo("probe")
    <3>1. "probe" \in KeysPc
      BY DEF KeysPc
    <3> QED BY <2>1, <2>2, <3>1, KeysMoves DEF KeysTypes
  <2> QED BY <2>1, <2>2, IdleKeysType DEF KeysTypes
<1>ApplyProbe. CASE ApplyProbe
  BY <1>ApplyProbe, KeysMoves, IdleKeysType DEF ApplyProbe, KeysAt, KeysTypes, KeysPc
<1>KillKeys. CASE KillKeys
  BY <1>KillKeys, KeysMoves, IdleKeysType DEF KillKeys, KeysAt, KeysTypes, KeysPc
<1>StartSmoke. ASSUME NEW u \in Smoker, StartSmoke(u)
      PROVE  KeysTypes'
  BY <1>StartSmoke DEF StartSmoke, KeysTypes
<1>LaunchSmoke. ASSUME NEW u \in Smoker, LaunchSmoke(u)
      PROVE  KeysTypes'
  BY <1>LaunchSmoke DEF LaunchSmoke, files, KeysTypes
<1>BootSmoke. CASE BootSmoke
  BY <1>BootSmoke DEF BootSmoke, files, KeysTypes
<1>JudgeSmoke. ASSUME NEW u \in Smoker, JudgeSmoke(u)
      PROVE  KeysTypes'
  BY <1>JudgeSmoke DEF JudgeSmoke, files, KeysTypes
<1>stutter. CASE UNCHANGED deployVars
  BY <1>stutter DEF deployVars, KeysTypes
<1> QED BY <1>BootLive, <1>RestartLive, <1>StartDeploy, <1>RunGate,
     <1>RunSmoke, <1>CaptureAnchor, <1>Swap, <1>VerifySwap, <1>Retain,
     <1>Rollback, <1>KillDeploy, <1>KeysNew, <1>KeysRevoke, <1>WriteFiles,
     <1>WriteKeychain, <1>ApplySmoke, <1>ApplyRecreate, <1>ApplyProbe,
     <1>KillKeys, <1>StartSmoke, <1>LaunchSmoke, <1>BootSmoke, <1>JudgeSmoke,
     <1>stutter DEF DeployNext

LEMMA IdleScriptType == IdleScript \in ScriptState /\ IdleScript.pc = "idle"
BY DeployAssumption DEF IdleScript, ScriptState, Envs

\* What the steps of the two scripts do to either of them.
LEMMA ScriptMoves ==
    ASSUME SmokeTypes, env \in [Consumer -> Nat], NEW u \in Smoker
    PROVE  /\ \A x \in {"idle", "launch", "poll", "passed", "failed"} : ScriptTo(u, x) =>
                /\ script' \in [Smoker -> ScriptState]
                /\ script'[u] = [script[u] EXCEPT !.pc = x] /\ script'[u].pc = x
                /\ script'[u].image = script[u].image /\ script'[u].env = script[u].env
                /\ script'[u].crossed = script[u].crossed
                /\ \A v \in Smoker \ {u} : script'[v] = script[v]
           /\ script' = [script EXCEPT ![u] = IdleScript] =>
                /\ script' \in [Smoker -> ScriptState]
                /\ script'[u] = IdleScript
                /\ \A v \in Smoker \ {u} : script'[v] = script[v]
<1>1. script \in [Smoker -> ScriptState] /\ script[u] \in ScriptState
  BY DEF SmokeTypes
<1>2. ASSUME NEW x \in {"idle", "launch", "poll", "passed", "failed"}, ScriptTo(u, x)
      PROVE  /\ script' \in [Smoker -> ScriptState]
             /\ script'[u] = [script[u] EXCEPT !.pc = x] /\ script'[u].pc = x
             /\ script'[u].image = script[u].image /\ script'[u].env = script[u].env
             /\ script'[u].crossed = script[u].crossed
             /\ \A v \in Smoker \ {u} : script'[v] = script[v]
  <2> DEFINE s == [script[u] EXCEPT !.pc = x]
  <2>1. /\ s \in ScriptState /\ s.pc = x /\ s.image = script[u].image
        /\ s.env = script[u].env /\ s.crossed = script[u].crossed
    BY <1>1 DEF ScriptState
  <2>2. script' = [script EXCEPT ![u] = s]
    BY <1>1, <1>2 DEF ScriptTo
  <2>3. s = [script[u] EXCEPT !.pc = x]
    OBVIOUS
  <2> HIDE DEF s
  <2> QED BY <1>1, <2>1, <2>2, <2>3
<1>3. ASSUME script' = [script EXCEPT ![u] = IdleScript]
      PROVE  /\ script' \in [Smoker -> ScriptState]
             /\ script'[u] = IdleScript
             /\ \A v \in Smoker \ {u} : script'[v] = script[v]
  BY <1>1, <1>3, IdleScriptType
<1> QED BY <1>2, <1>3

LEMMA SmokeStarts ==
    ASSUME SmokeTypes, FileTypes, DeployTypes, LiveTypes, NEW u \in Smoker, StartSmoke(u)
    PROVE  /\ smoke' = NoSmoke /\ script' \in [Smoker -> ScriptState]
           /\ script'[u].pc = "launch" /\ script'[u].env = env
           /\ u = "deploy" => script'[u].image = deploy.image
           /\ \A v \in Smoker \ {u} : script'[v] = script[v]
<1> DEFINE i == IF u = "deploy" THEN deploy.image ELSE live.image
           s == [pc |-> "launch", image |-> i, env |-> env, crossed |-> FALSE]
<1>1. i \in Image
  BY DEF StartSmoke, Smokes, DeployTypes, DeployState, LiveTypes, LiveState
<1>2. u = "deploy" => i = deploy.image
  OBVIOUS
<1>3. script' = [script EXCEPT ![u] = s] /\ smoke' = NoSmoke
  BY DEF StartSmoke
<1> HIDE DEF i
<1>4. s \in ScriptState /\ s.pc = "launch" /\ s.env = env /\ s.image = i
  BY <1>1 DEF ScriptState, Envs, FileTypes
<1> HIDE DEF s
<1> QED BY <1>2, <1>3, <1>4 DEF SmokeTypes

LEMMA SmokeLaunches ==
    ASSUME SmokeTypes, NEW u \in Smoker, LaunchSmoke(u)
    PROVE  \/ /\ script[u].pc = "launch" /\ smoke' = Smoking(u) /\ smoke' \in SmokeState
              /\ smoke'.image = script[u].image /\ smoke'.env = script[u].env
              /\ smoke'.state = "booting"
              /\ script' \in [Smoker -> ScriptState]
              /\ script'[u].pc = "poll" /\ script'[u].image = script[u].image
              /\ \A v \in Smoker \ {u} :
                    /\ script'[v].pc = script[v].pc /\ script'[v].image = script[v].image
                    /\ script'[v].env = script[v].env
                    /\ script'[v].crossed = (script[v].crossed \/ script[v].pc = "poll")
           \/ ScriptTo(u, "failed") /\ smoke' \in {smoke, NoSmoke}
<1>1. CASE Refused(u)
  BY <1>1 DEF Refused
<1>2. ASSUME smoke' = Smoking(u),
             script' = [v \in Smoker |-> IF v = u THEN [script[v] EXCEPT !.pc = "poll"]
                                         ELSE [script[v] EXCEPT !.crossed = @ \/ script[v].pc = "poll"]]
      PROVE  /\ script[u].pc = "launch" /\ smoke' = Smoking(u) /\ smoke' \in SmokeState
             /\ smoke'.image = script[u].image /\ smoke'.env = script[u].env
             /\ smoke'.state = "booting"
             /\ script' \in [Smoker -> ScriptState]
             /\ script'[u].pc = "poll" /\ script'[u].image = script[u].image
             /\ \A v \in Smoker \ {u} :
                   /\ script'[v].pc = script[v].pc /\ script'[v].image = script[v].image
                   /\ script'[v].env = script[v].env
                   /\ script'[v].crossed = (script[v].crossed \/ script[v].pc = "poll")
  <2>1. script[u] \in ScriptState /\ script[u].env \in [Consumer -> Nat] /\ script[u].pc = "launch"
    BY DEF SmokeTypes, LaunchSmoke
  <2>2. /\ smoke' \in SmokeState /\ smoke'.image = script[u].image
        /\ smoke'.env = script[u].env /\ smoke'.state = "booting"
    BY <1>2, <2>1 DEF Smoking, SmokeState, ScriptState
  <2>3. /\ script'[u] \in ScriptState
        /\ script'[u].pc = "poll" /\ script'[u].image = script[u].image
    BY <1>2, <2>1 DEF ScriptState
  <2>4. ASSUME NEW v \in Smoker \ {u}
        PROVE  /\ script'[v] \in ScriptState
               /\ script'[v].pc = script[v].pc /\ script'[v].image = script[v].image
               /\ script'[v].env = script[v].env
               /\ script'[v].crossed = (script[v].crossed \/ script[v].pc = "poll")
    <3> DEFINE x == script[v].crossed \/ script[v].pc = "poll"
    <3>1. script[v] \in ScriptState /\ x \in BOOLEAN
      BY DEF SmokeTypes
    <3>2. script'[v] = [script[v] EXCEPT !.crossed = x]
      BY <1>2
    <3>3. x = (script[v].crossed \/ script[v].pc = "poll")
      OBVIOUS
    <3> HIDE DEF x
    <3>4. /\ script'[v] \in ScriptState
          /\ script'[v].pc = script[v].pc /\ script'[v].image = script[v].image
          /\ script'[v].env = script[v].env /\ script'[v].crossed = x
      BY <3>1, <3>2 DEF ScriptState
    <3> QED BY <3>3, <3>4
  <2>5. script' \in [Smoker -> ScriptState]
    <3>1. \A v \in Smoker : script'[v] \in ScriptState
      BY <2>3, <2>4
    <3> DEFINE f(v) == IF v = u THEN [script[v] EXCEPT !.pc = "poll"]
                       ELSE [script[v] EXCEPT !.crossed = @ \/ script[v].pc = "poll"]
    <3>2. script' = [v \in Smoker |-> f(v)]
      BY <1>2
    <3> HIDE DEF f
    <3> QED BY <3>1, <3>2
  <2> QED BY <1>2, <2>1, <2>2, <2>3, <2>4, <2>5
<1> QED BY <1>1, <1>2 DEF LaunchSmoke

LEMMA SmokeBoots ==
    ASSUME SmokeTypes, BootSmoke
    PROVE  /\ smoke # NoSmoke /\ smoke' \in SmokeState /\ smoke'.image = smoke.image
           /\ smoke'.env = smoke.env
           /\ smoke'.state = "serving" => Boots(smoke.image, manifest, smoke.env)
<1> DEFINE x == IF Boots(smoke.image, manifest, smoke.env) THEN "serving" ELSE "crashed"
<1>1. smoke # NoSmoke /\ smoke \in SmokeState /\ smoke' = [smoke EXCEPT !.state = x]
  BY DEF BootSmoke, SmokeTypes
<1>2. x \in {"serving", "crashed"} /\ (x = "serving" => Boots(smoke.image, manifest, smoke.env))
  OBVIOUS
<1> HIDE DEF x
<1> QED BY <1>1, <1>2 DEF SmokeState

\* Every step keeps the type of the throwaway container and of the scripts.
LEMMA SmokeTypesStep ==
    ASSUME HostTypes, [DeployNext]_deployVars
    PROVE  SmokeTypes'
<1> USE DEF HostTypes
<1>env. env \in [Consumer -> Nat]
  BY DEF FileTypes
<1>ends. ASSUME NEW u \in Smoker, TearsDown(u) \/ SmokeKilled(u)
      PROVE  SmokeTypes'
  <2>1. script' = [script EXCEPT ![u] = IdleScript] /\ smoke' \in {smoke, NoSmoke}
    BY <1>ends DEF TearsDown, SmokeKilled
  <2> QED BY <1>env, <2>1, ScriptMoves, IdleScriptType DEF SmokeTypes
<1>rest. CASE UNCHANGED smokeVars
  BY <1>rest DEF smokeVars, SmokeTypes
<1>StartSmoke. ASSUME NEW u \in Smoker, StartSmoke(u)
      PROVE  SmokeTypes'
  BY <1>StartSmoke, <1>env, SmokeStarts DEF SmokeTypes
<1>LaunchSmoke. ASSUME NEW u \in Smoker, LaunchSmoke(u)
      PROVE  SmokeTypes'
  <2>1. CASE ScriptTo(u, "failed") /\ smoke' \in {smoke, NoSmoke}
    BY <1>env, <2>1, ScriptMoves DEF SmokeTypes
  <2> QED BY <1>LaunchSmoke, <2>1, SmokeLaunches DEF SmokeTypes
<1>BootSmoke. CASE BootSmoke
  BY <1>BootSmoke, SmokeBoots DEF BootSmoke, SmokeTypes
<1>JudgeSmoke. ASSUME NEW u \in Smoker, JudgeSmoke(u)
      PROVE  SmokeTypes'
  BY <1>JudgeSmoke, <1>env, ScriptMoves DEF JudgeSmoke, SmokeTypes
<1>RunSmoke. CASE RunSmoke
  BY <1>RunSmoke, <1>ends DEF RunSmoke, Smoker
<1>ApplySmoke. CASE ApplySmoke
  BY <1>ApplySmoke, <1>ends, <1>rest DEF ApplySmoke, Smoker
<1>KillDeploy. CASE KillDeploy
  BY <1>KillDeploy, <1>ends DEF KillDeploy, Smoker
<1>KillKeys. CASE KillKeys
  BY <1>KillKeys, <1>ends DEF KillKeys, Smoker
<1>deploy. CASE \/ BootLive \/ RestartLive \/ RunGate \/ CaptureAnchor \/ Swap \/ VerifySwap
                \/ Retain \/ Rollback \/ \E i \in Image : StartDeploy(i)
  BY <1>deploy, <1>rest DEF BootLive, RestartLive, RunGate, CaptureAnchor, Swap, VerifySwap,
     Retain, Rollback, StartDeploy, LaunchReads, Launches
<1>keys. CASE \/ WriteFiles \/ WriteKeychain \/ ApplyRecreate \/ ApplyProbe
              \/ \E id \in Consumer, apply \in BOOLEAN :
                    KeysRevoke(id, apply) \/ \E sized \in BOOLEAN : KeysNew(id, apply, sized)
  BY <1>keys, <1>rest DEF WriteFiles, WriteKeychain, ApplyRecreate, ApplyProbe, KeysRevoke,
     KeysNew, Starts, Other
<1>stutter. CASE UNCHANGED deployVars
  BY <1>stutter, <1>rest DEF deployVars
<1> QED BY <1>StartSmoke, <1>LaunchSmoke, <1>BootSmoke, <1>JudgeSmoke, <1>RunSmoke, <1>ApplySmoke,
     <1>KillDeploy, <1>KillKeys, <1>deploy, <1>keys, <1>stutter DEF DeployNext

\* Every step keeps what the keys command works on equal to the files.
LEMMA CopiesStep ==
    ASSUME HostTypes, Copies, [DeployNext]_deployVars
    PROVE  Copies'
<1>BootLive. CASE BootLive
  BY <1>BootLive DEF BootLive, files, Copies
<1>RestartLive. CASE RestartLive
  BY <1>RestartLive DEF RestartLive, files, Copies
<1>StartDeploy. ASSUME NEW i \in Image, StartDeploy(i)
      PROVE  Copies'
  BY <1>StartDeploy DEF StartDeploy, files, Copies
<1>RunGate. CASE RunGate
  BY <1>RunGate DEF RunGate, files, Copies
<1>RunSmoke. CASE RunSmoke
  BY <1>RunSmoke DEF RunSmoke, files, Copies
<1>CaptureAnchor. CASE CaptureAnchor
  BY <1>CaptureAnchor DEF CaptureAnchor, files, Copies
<1>Swap. CASE Swap
  BY <1>Swap DEF Swap, LaunchReads, Launches, files, Copies
<1>VerifySwap. CASE VerifySwap
  BY <1>VerifySwap DEF VerifySwap, files, Copies
<1>Retain. CASE Retain
  BY <1>Retain DEF Retain, files, Copies
<1>Rollback. CASE Rollback
  BY <1>Rollback DEF Rollback, files, LaunchReads, Launches, files, Copies
<1>KillDeploy. CASE KillDeploy
  BY <1>KillDeploy DEF KillDeploy, files, Copies
<1>KeysNew. ASSUME NEW id \in Consumer, NEW apply \in BOOLEAN, NEW sized \in BOOLEAN,
                KeysNew(id, apply, sized)
      PROVE  Copies'
  BY <1>KeysNew DEF KeysNew, Starts, files, Copies
<1>KeysRevoke. ASSUME NEW id \in Consumer, NEW apply \in BOOLEAN,
                KeysRevoke(id, apply)
      PROVE  Copies'
  BY <1>KeysRevoke DEF KeysRevoke, Starts, files, Copies
<1>WriteFiles. CASE WriteFiles
  <2>1. KeysTo("env") \/ KeysTo("keychain")
    BY <1>WriteFiles DEF WriteFiles
  <2>2. CASE KeysTo("env")
    <3>1. "env" \in KeysPc
      BY DEF KeysPc
    <3>2. keys \in KeysState
      BY DEF HostTypes, KeysTypes
    <3>3. keys'.pc = "env" /\ keys'.env = keys.env
      BY <2>2, <3>1, <3>2, KeysMoves
    <3>4. keys.pc = "manifest" /\ env' = env
      <4>1. keys.pc # "manifest" => keys'.pc = "keychain"
        <5>1. ASSUME keys.pc # "manifest" PROVE KeysTo("keychain")
          BY <1>WriteFiles, <5>1 DEF WriteFiles, KeysAt
        <5>2. "keychain" \in KeysPc
          BY DEF KeysPc
        <5> QED BY <3>2, <5>1, <5>2, KeysMoves
      <4> QED BY <1>WriteFiles, <3>3, <4>1 DEF WriteFiles, KeysAt
    <3> QED BY <3>3, <3>4 DEF Copies
  <2>3. CASE KeysTo("keychain")
    <3>1. "keychain" \in KeysPc
      BY DEF KeysPc
    <3> QED BY <2>3, <3>1, KeysMoves DEF Copies, HostTypes, KeysTypes
  <2> QED BY <2>1, <2>2, <2>3
<1>WriteKeychain. CASE WriteKeychain
  BY <1>WriteKeychain, IdleKeysType DEF WriteKeychain, KeysState, Copies
<1>ApplySmoke. CASE ApplySmoke
  <2>1. UNCHANGED <<manifest, env>>
    BY <1>ApplySmoke DEF ApplySmoke, files
  <2>2. keys' = IdleKeys \/ (keys'.pc = "recreate" /\ keys'.env = env)
    BY <1>ApplySmoke DEF ApplySmoke, HostTypes, KeysTypes, KeysState
  <2> QED BY <2>1, <2>2, IdleKeysType DEF Copies
<1>ApplyRecreate. CASE ApplyRecreate
  <2>1. keys.pc = "recreate" /\ UNCHANGED <<manifest, env>>
    BY <1>ApplyRecreate DEF ApplyRecreate, KeysAt, files
  <2>2. keys' = IdleKeys \/ KeysTo("probe")
    BY <1>ApplyRecreate DEF ApplyRecreate
  <2>3. "probe" \in KeysPc
    BY DEF KeysPc
  <2> QED BY <2>1, <2>2, <2>3, KeysMoves, IdleKeysType DEF Copies, HostTypes, KeysTypes
<1>ApplyProbe. CASE ApplyProbe
  BY <1>ApplyProbe, IdleKeysType DEF ApplyProbe, Copies
<1>KillKeys. CASE KillKeys
  BY <1>KillKeys, IdleKeysType DEF KillKeys, Copies
<1>StartSmoke. ASSUME NEW u \in Smoker, StartSmoke(u)
      PROVE  Copies'
  BY <1>StartSmoke DEF StartSmoke, Copies
<1>LaunchSmoke. ASSUME NEW u \in Smoker, LaunchSmoke(u)
      PROVE  Copies'
  BY <1>LaunchSmoke DEF LaunchSmoke, files, Copies
<1>BootSmoke. CASE BootSmoke
  BY <1>BootSmoke DEF BootSmoke, files, Copies
<1>JudgeSmoke. ASSUME NEW u \in Smoker, JudgeSmoke(u)
      PROVE  Copies'
  BY <1>JudgeSmoke DEF JudgeSmoke, files, Copies
<1>stutter. CASE UNCHANGED deployVars
  BY <1>stutter DEF deployVars, Copies
<1> QED BY <1>BootLive, <1>RestartLive, <1>StartDeploy, <1>RunGate,
     <1>RunSmoke, <1>CaptureAnchor, <1>Swap, <1>VerifySwap, <1>Retain,
     <1>Rollback, <1>KillDeploy, <1>KeysNew, <1>KeysRevoke, <1>WriteFiles,
     <1>WriteKeychain, <1>ApplySmoke, <1>ApplyRecreate, <1>ApplyProbe,
     <1>KillKeys, <1>StartSmoke, <1>LaunchSmoke, <1>BootSmoke, <1>JudgeSmoke,
     <1>stutter DEF DeployNext

\* No step of either script takes from the other what it goes by, unless it
\* launches while the other polls; writes are left out.
LEMMA HoldsStep ==
    ASSUME SmokeTypes, FileTypes, DeployTypes, LiveTypes, UNCHANGED <<manifest, env>>,
           NEW v \in Smoker, SmokeHolds(v),
           \/ UNCHANGED <<smoke, script>>
           \/ BootSmoke
           \/ \E u \in Smoker : \/ StartSmoke(u) \/ LaunchSmoke(u) \/ JudgeSmoke(u)
                                \/ TearsDown(u) \/ SmokeKilled(u)
    PROVE  SmokeHolds(v)'
<1>env. env \in [Consumer -> Nat]
  BY DEF FileTypes
<1>rest. CASE UNCHANGED <<smoke, script>>
  BY <1>rest DEF SmokeHolds, Boots, Bootable
<1>boot. CASE BootSmoke
  <2>1. script' = script
    BY <1>boot DEF BootSmoke
  <2> QED BY <1>boot, <2>1, SmokeBoots DEF SmokeHolds, Boots, Bootable
<1>start. ASSUME NEW u \in Smoker, StartSmoke(u)
      PROVE  SmokeHolds(v)'
  BY <1>start, SmokeStarts DEF SmokeHolds, Boots, Bootable
<1>launch. ASSUME NEW u \in Smoker, LaunchSmoke(u)
      PROVE  SmokeHolds(v)'
  <2>1. CASE ScriptTo(u, "failed") /\ smoke' \in {smoke, NoSmoke}
    BY <1>env, <2>1, ScriptMoves DEF SmokeHolds, Boots, Bootable
  <2>2. CASE ~(ScriptTo(u, "failed") /\ smoke' \in {smoke, NoSmoke})
    BY <1>launch, <2>2, SmokeLaunches DEF SmokeHolds, Boots, Bootable
  <2> QED BY <2>1, <2>2
<1>judge. ASSUME NEW u \in Smoker, JudgeSmoke(u)
      PROVE  SmokeHolds(v)'
  <2>1. script[u].pc = "poll" /\ smoke' = smoke
    BY <1>judge DEF JudgeSmoke
  <2>2. CASE ScriptTo(u, "failed")
    BY <1>env, <2>1, <2>2, ScriptMoves DEF SmokeHolds, Boots, Bootable
  <2>3. CASE smoke # NoSmoke /\ smoke.state = "serving" /\ ScriptTo(u, "passed")
    <3>1. /\ script'[u].pc = "passed" /\ script'[u].image = script[u].image
          /\ script'[u].crossed = script[u].crossed
          /\ \A w \in Smoker \ {u} : script'[w] = script[w]
      BY <1>env, <2>3, ScriptMoves
    <3>2. CASE v = u
      BY <2>1, <2>3, <3>1, <3>2 DEF SmokeHolds, Boots, Bootable
    <3>3. CASE v # u
      BY <2>1, <3>1, <3>3 DEF SmokeHolds, Boots, Bootable
    <3> QED BY <3>2, <3>3
  <2> QED BY <1>judge, <2>2, <2>3 DEF JudgeSmoke
<1>ends. ASSUME NEW u \in Smoker, TearsDown(u) \/ SmokeKilled(u)
      PROVE  SmokeHolds(v)'
  <2>1. script' = [script EXCEPT ![u] = IdleScript] /\ smoke' \in {smoke, NoSmoke}
    BY <1>ends DEF TearsDown, SmokeKilled
  <2> QED BY <1>env, <2>1, ScriptMoves, IdleScriptType DEF SmokeHolds, Boots, Bootable
<1> QED BY <1>rest, <1>boot, <1>start, <1>launch, <1>judge, <1>ends

\* Every step keeps what the scripts go by.
LEMMA ScriptsStep ==
    ASSUME HostTypes, Scripts, [DeployNext]_deployVars
    PROVE  Scripts'
<1> USE DEF HostTypes
<1>env. env \in [Consumer -> Nat] /\ "deploy" \in Smoker /\ "keys" \in Smoker
  BY DEF FileTypes, Smoker
\* The rule for a step that writes no files.
<1>kept. ASSUME UNCHANGED <<manifest, env>>, touched' = touched,
                script'["deploy"].pc # "idle" =>
                  deploy'.pc = "smoke" /\ script'["deploy"].image = deploy'.image,
                script'["keys"].pc # "idle" => keys'.pc = "smoke",
                \/ UNCHANGED <<smoke, script>>
                \/ BootSmoke
                \/ \E u \in Smoker : \/ StartSmoke(u) \/ LaunchSmoke(u) \/ JudgeSmoke(u)
                                     \/ TearsDown(u) \/ SmokeKilled(u)
      PROVE  Scripts'
  BY <1>kept, <1>env, HoldsStep DEF Scripts
<1>ended. ASSUME NEW u \in Smoker, TearsDown(u) \/ SmokeKilled(u)
      PROVE  /\ script'[u].pc = "idle"
             /\ \A v \in Smoker \ {u} : script'[v] = script[v]
  <2>1. script' = [script EXCEPT ![u] = IdleScript]
    BY <1>ended DEF TearsDown, SmokeKilled
  <2> QED BY <1>env, <2>1, ScriptMoves, IdleScriptType
\* Steps that move neither a command that smokes nor its script.
<1>aside. ASSUME UNCHANGED <<manifest, env, touched, smoke, script>>,
                 deploy.pc = "smoke" => deploy' = deploy, keys.pc = "smoke" => keys' = keys
      PROVE  Scripts'
  BY <1>aside, <1>kept DEF Scripts
<1>BootLive. CASE BootLive \/ RestartLive
  BY <1>BootLive, <1>aside DEF BootLive, RestartLive, files, smokeVars
<1>StartDeploy. ASSUME NEW i \in Image, StartDeploy(i)
      PROVE  Scripts'
  BY <1>StartDeploy, <1>aside DEF StartDeploy, DeployAt, files, smokeVars
<1>deploy. CASE RunGate \/ CaptureAnchor \/ Swap \/ VerifySwap \/ Retain \/ Rollback
  BY <1>deploy, <1>aside DEF RunGate, CaptureAnchor, Swap, VerifySwap, Retain, Rollback,
     LaunchReads, Launches, DeployAt, files, smokeVars
<1>RunSmoke. CASE RunSmoke
  <2>1. UNCHANGED <<manifest, env, touched, keys>> /\ TearsDown("deploy")
    BY <1>RunSmoke DEF RunSmoke, files
  <2> QED BY <1>env, <1>ended, <1>kept, <2>1 DEF Scripts, Smoker
<1>KillDeploy. CASE KillDeploy
  <2>1. UNCHANGED <<manifest, env, touched, keys>> /\ SmokeKilled("deploy")
    BY <1>KillDeploy DEF KillDeploy, files
  <2> QED BY <1>env, <1>ended, <1>kept, <2>1 DEF Scripts, Smoker
<1>KeysNew. ASSUME NEW id \in Consumer, NEW apply \in BOOLEAN, NEW sized \in BOOLEAN,
                KeysNew(id, apply, sized)
      PROVE  Scripts'
  BY <1>KeysNew, <1>aside DEF KeysNew, Starts, KeysAt, files, Other, smokeVars
<1>KeysRevoke. ASSUME NEW id \in Consumer, NEW apply \in BOOLEAN,
                KeysRevoke(id, apply)
      PROVE  Scripts'
  BY <1>KeysRevoke, <1>aside DEF KeysRevoke, Starts, KeysAt, files, Other, smokeVars
<1>WriteFiles. CASE WriteFiles
  <2>1. touched' = TRUE /\ UNCHANGED <<deploy, smoke, script>> /\ keys.pc # "smoke"
    BY <1>WriteFiles DEF WriteFiles, KeysAt, Other, smokeVars
  <2> QED BY <2>1 DEF Scripts, SmokeHolds
<1>keys. CASE WriteKeychain \/ ApplyRecreate \/ ApplyProbe
  BY <1>keys, <1>aside DEF WriteKeychain, ApplyRecreate, ApplyProbe, KeysAt, files, Other, smokeVars
<1>ApplySmoke. CASE ApplySmoke
  <2>1. UNCHANGED <<manifest, env, touched, deploy>>
    BY <1>ApplySmoke DEF ApplySmoke, files
  <2>2. CASE script["keys"].pc = "idle" /\ UNCHANGED smokeVars
    BY <1>kept, <2>1, <2>2 DEF smokeVars, Scripts
  <2>3. CASE TearsDown("keys")
    BY <1>env, <1>ended, <1>kept, <2>1, <2>3 DEF Scripts, Smoker
  <2> QED BY <1>ApplySmoke, <2>2, <2>3 DEF ApplySmoke
<1>KillKeys. CASE KillKeys
  <2>1. UNCHANGED <<manifest, env, touched, deploy>> /\ SmokeKilled("keys")
    BY <1>KillKeys DEF KillKeys, files
  <2> QED BY <1>env, <1>ended, <1>kept, <2>1 DEF Scripts, Smoker
<1>StartSmoke. ASSUME NEW u \in Smoker, StartSmoke(u)
      PROVE  Scripts'
  <2>1. UNCHANGED <<manifest, env, deploy, keys>> /\ Smokes(u)
    BY <1>StartSmoke DEF StartSmoke
  <2>2. /\ script'[u].pc = "launch" /\ script'[u].env = env
        /\ u = "deploy" => script'[u].image = deploy.image
        /\ \A v \in Smoker \ {u} : script'[v] = script[v]
    BY <1>StartSmoke, SmokeStarts
  <2>3. /\ script'["deploy"].pc # "idle" =>
              deploy'.pc = "smoke" /\ script'["deploy"].image = deploy'.image
        /\ script'["keys"].pc # "idle" => keys'.pc = "smoke"
    BY <1>env, <2>1, <2>2 DEF Scripts, Smokes
  <2>4. CASE u = "deploy"
    <3>1. SmokeHolds("deploy")'
      BY <2>1, <2>2, <2>4 DEF SmokeHolds
    <3>2. SmokeHolds("keys")'
      BY <1>StartSmoke, <1>env, <2>1, HoldsStep DEF Scripts
    <3> QED BY <2>3, <3>1, <3>2 DEF Scripts
  <2>5. CASE u # "deploy"
    <3>1. touched' = touched
      BY <1>StartSmoke, <2>5 DEF StartSmoke, FileTypes
    <3> QED BY <1>StartSmoke, <1>kept, <2>1, <2>3, <3>1
  <2> QED BY <2>4, <2>5
<1>LaunchSmoke. ASSUME NEW u \in Smoker, LaunchSmoke(u)
      PROVE  Scripts'
  <2>1. UNCHANGED <<manifest, env, touched, deploy, keys>> /\ script[u].pc = "launch"
    BY <1>LaunchSmoke DEF LaunchSmoke, files
  <2>2. \A v \in Smoker : /\ script'[v].pc # "idle" => script[v].pc # "idle"
                          /\ script'[v].image = script[v].image
    <3>1. CASE ScriptTo(u, "failed")
      BY <1>env, <2>1, <3>1, ScriptMoves
    <3> QED BY <1>LaunchSmoke, <2>1, <3>1, SmokeLaunches
  <2> QED BY <1>LaunchSmoke, <1>env, <1>kept, <2>1, <2>2 DEF Scripts
<1>BootSmoke. CASE BootSmoke
  <2>1. UNCHANGED <<manifest, env, touched, deploy, keys, script>>
    BY <1>BootSmoke DEF BootSmoke, files
  <2> QED BY <1>BootSmoke, <1>kept, <2>1 DEF Scripts
<1>JudgeSmoke. ASSUME NEW u \in Smoker, JudgeSmoke(u)
      PROVE  Scripts'
  <2>1. UNCHANGED <<manifest, env, touched, deploy, keys>> /\ script[u].pc = "poll"
    BY <1>JudgeSmoke DEF JudgeSmoke, files
  <2>2. \A v \in Smoker : /\ script'[v].pc # "idle" => script[v].pc # "idle"
                          /\ script'[v].image = script[v].image
    BY <1>JudgeSmoke, <1>env, <2>1, ScriptMoves DEF JudgeSmoke
  <2> QED BY <1>JudgeSmoke, <1>env, <1>kept, <2>1, <2>2 DEF Scripts
<1>stutter. CASE UNCHANGED deployVars
  BY <1>stutter, <1>aside DEF deployVars, smokeVars
<1> QED BY <1>BootLive, <1>StartDeploy, <1>deploy, <1>RunSmoke, <1>KillDeploy, <1>KeysNew,
     <1>KeysRevoke, <1>WriteFiles, <1>keys, <1>ApplySmoke, <1>KillKeys, <1>StartSmoke,
     <1>LaunchSmoke, <1>BootSmoke, <1>JudgeSmoke, <1>stutter DEF DeployNext

\* Every step keeps what the smoke established, or counts as an edit.
LEMMA SmokedStep ==
    ASSUME HostTypes, Copies, Scripts, Smoked, [DeployNext]_deployVars
    PROVE  Smoked'
<1>BootLive. CASE BootLive
  <2>1. UNCHANGED <<manifest, env, touched, deploy>>
    BY <1>BootLive DEF BootLive, files
  <2>2. live \in LiveState /\ live # NoLive
    BY <1>BootLive DEF BootLive, HostTypes, LiveTypes
  <2>3. live'.image = live.image /\ live'.env = live.env
    BY <1>BootLive, <2>2 DEF BootLive, LiveState
  <2>4. Boots(live.image, manifest, live.env) => live'.state # "crashed"
    BY <1>BootLive, <2>2 DEF BootLive, LiveState
  <2> QED BY <2>1, <2>2, <2>3, <2>4 DEF Smoked, Boots, Bootable
<1>RestartLive. CASE RestartLive
  <2>1. UNCHANGED <<manifest, env, touched, deploy>>
    BY <1>RestartLive DEF RestartLive, files
  <2>2. live \in LiveState /\ live # NoLive
    BY <1>RestartLive DEF RestartLive, HostTypes, LiveTypes
  <2>3. /\ live'.image = live.image /\ live'.env = live.env
        /\ live'.state = "booting"
    BY <1>RestartLive, <2>2 DEF RestartLive, LiveState
  <2> QED BY <2>1, <2>2, <2>3 DEF Smoked, Boots, Bootable
<1>StartDeploy. ASSUME NEW i \in Image, StartDeploy(i)
      PROVE  Smoked'
  <2>1. deploy'.pc = "gate"
    BY <1>StartDeploy DEF StartDeploy, IdleDeploy
  <2> QED BY <1>StartDeploy, <2>1 DEF Smoked
<1>RunGate. CASE RunGate
  <2>1. deploy' = IdleDeploy \/ DeployTo("smoke")
    BY <1>RunGate DEF RunGate
  <2>2. "smoke" \in DeployPc
    BY DEF DeployPc
  <2>3. deploy'.pc \notin {"anchor", "read", "swap", "verify"}
    BY <2>1, <2>2, DeployMoves, IdleDeployType DEF HostTypes, DeployTypes
  <2> QED BY <2>3 DEF Smoked
<1>RunSmoke. CASE RunSmoke
  <2>1. deploy' = IdleDeploy
        \/ /\ smokePassed("deploy")
           /\ deploy' = [deploy EXCEPT !.pc = "anchor", !.crossed = script["deploy"].crossed]
    BY <1>RunSmoke DEF RunSmoke
  <2>2. CASE /\ smokePassed("deploy")
             /\ deploy' = [deploy EXCEPT !.pc = "anchor", !.crossed = script["deploy"].crossed]
    <3>1. /\ deploy'.pc = "anchor" /\ deploy'.image = deploy.image
          /\ deploy'.crossed = script["deploy"].crossed
      BY <2>2 DEF HostTypes, DeployTypes, DeployState
    <3>2. UNCHANGED <<manifest, env, touched>>
      BY <1>RunSmoke DEF RunSmoke, files
    <3>3. ~touched /\ ~script["deploy"].crossed => Boots(deploy.image, manifest, env)
      BY <2>2 DEF smokePassed, Scripts, SmokeHolds
    <3> QED BY <3>1, <3>2, <3>3 DEF Smoked, Boots, Bootable
  <2> QED BY <2>1, <2>2, IdleDeployType DEF Smoked
<1>CaptureAnchor. CASE CaptureAnchor
  <2>1. /\ deploy'.pc = "read" /\ deploy'.image = deploy.image /\ deploy.pc = "anchor"
        /\ deploy'.crossed = deploy.crossed
    BY <1>CaptureAnchor DEF CaptureAnchor, DeployAt, HostTypes, DeployTypes, DeployState
  <2>2. UNCHANGED <<manifest, env, touched>>
    BY <1>CaptureAnchor DEF CaptureAnchor, files
  <2> QED BY <2>1, <2>2 DEF Smoked, Boots, Bootable
<1>Swap. CASE Swap
  <2>1. UNCHANGED <<manifest, env, touched>>
    BY <1>Swap DEF Swap, LaunchReads, Launches, files
  <2>2. CASE LaunchReads("read", "swap")
    <3>1. deploy.pc = "read" /\ deploy' = [deploy EXCEPT !.pc = "swap", !.env = env]
      BY <2>2 DEF LaunchReads, DeployAt
    <3>2. "swap" \in DeployPc
      BY DEF DeployPc
    <3>3. /\ deploy'.pc = "swap" /\ deploy'.env = env /\ deploy'.image = deploy.image
          /\ deploy'.crossed = deploy.crossed
      BY <3>1, <3>2, DeployReads DEF HostTypes, DeployTypes, FileTypes
    <3> QED BY <2>1, <3>1, <3>3 DEF Smoked, Boots, Bootable
  <2>3. CASE Launches("swap", deploy.image, "verify")
    <3>1. CASE deploy' = IdleDeploy
      BY <3>1, IdleDeployType DEF Smoked
    <3>2. CASE live' = Created(deploy.image, deploy.env) /\ DeployTo("verify")
      <4>1. deploy.pc = "swap"
        BY <2>3 DEF Launches, DeployAt
      <4>2. "verify" \in DeployPc
        BY DEF DeployPc
      <4>3. /\ deploy'.pc = "verify" /\ deploy'.env = deploy.env
            /\ deploy'.image = deploy.image /\ deploy'.crossed = deploy.crossed
        BY <3>2, <4>2, DeployMoves DEF HostTypes, DeployTypes
      <4>4. live'.env = deploy.env /\ live'.state = "booting"
        BY <3>2 DEF Created
      <4> QED BY <2>1, <4>1, <4>3, <4>4 DEF Smoked, Boots, Bootable
    <3> QED BY <2>3, <3>1, <3>2 DEF Launches
  <2> QED BY <1>Swap, <2>2, <2>3 DEF Swap
<1>VerifySwap. CASE VerifySwap
  <2>1. deploy' = IdleDeploy \/ DeployTo("retain") \/ DeployTo("rollback")
    BY <1>VerifySwap DEF VerifySwap
  <2>2. "retain" \in DeployPc /\ "rollback" \in DeployPc
    BY DEF DeployPc
  <2>3. deploy'.pc \notin {"anchor", "read", "swap", "verify"}
    BY <2>1, <2>2, DeployMoves, IdleDeployType DEF HostTypes, DeployTypes
  <2> QED BY <2>3 DEF Smoked
<1>Retain. CASE Retain
  BY <1>Retain, IdleDeployType DEF Retain, Smoked
<1>Rollback. CASE Rollback
  <2>1. CASE LaunchReads("rollback", "back")
    <3>1. deploy' = [deploy EXCEPT !.pc = "back", !.env = env]
      BY <2>1 DEF LaunchReads
    <3>2. deploy'.pc = "back"
      BY <3>1 DEF HostTypes, DeployTypes, DeployState
    <3> QED BY <3>2 DEF Smoked
  <2>2. CASE DeployTo("verifyBack")
    <3>1. "verifyBack" \in DeployPc
      BY DEF DeployPc
    <3> QED BY <2>2, <3>1, DeployMoves DEF HostTypes, DeployTypes, Smoked
  <2>3. CASE deploy' = IdleDeploy
    BY <2>3, IdleDeployType DEF Smoked
  <2> QED BY <1>Rollback, <2>1, <2>2, <2>3 DEF Rollback, Launches
<1>KillDeploy. CASE KillDeploy
  BY <1>KillDeploy, IdleDeployType DEF KillDeploy, Smoked
<1>KeysNew. ASSUME NEW id \in Consumer, NEW apply \in BOOLEAN, NEW sized \in BOOLEAN,
                KeysNew(id, apply, sized)
      PROVE  Smoked'
  <2>1. UNCHANGED <<manifest, env, touched, deploy, live>>
    BY <1>KeysNew DEF KeysNew, Starts, files, Other
  <2> QED BY <2>1 DEF Smoked, Boots, Bootable
<1>KeysRevoke. ASSUME NEW id \in Consumer, NEW apply \in BOOLEAN,
                KeysRevoke(id, apply)
      PROVE  Smoked'
  <2>1. UNCHANGED <<manifest, env, touched, deploy, live>>
    BY <1>KeysRevoke DEF KeysRevoke, Starts, files, Other
  <2> QED BY <2>1 DEF Smoked, Boots, Bootable
<1>WriteFiles. CASE WriteFiles
  BY <1>WriteFiles DEF WriteFiles, Smoked
<1>WriteKeychain. CASE WriteKeychain
  <2>1. UNCHANGED <<manifest, env, touched, deploy, live>>
    BY <1>WriteKeychain DEF WriteKeychain, Other, files
  <2> QED BY <2>1 DEF Smoked, Boots, Bootable
<1>ApplySmoke. CASE ApplySmoke
  <2>1. UNCHANGED <<manifest, env, touched, deploy, live>>
    BY <1>ApplySmoke DEF ApplySmoke, files, Other
  <2> QED BY <2>1 DEF Smoked, Boots, Bootable
<1>ApplyRecreate. CASE ApplyRecreate
  <2>1. UNCHANGED <<manifest, env, touched, deploy>>
    BY <1>ApplyRecreate DEF ApplyRecreate, files
  <2>2. keys.env = env
    BY <1>ApplyRecreate DEF ApplyRecreate, KeysAt, Copies
  <2>3. CASE live' = NoLive
    BY <2>1, <2>3 DEF Smoked, Boots, Bootable
  <2>4. CASE live # NoLive /\ live' = Created(live.image, keys.env)
    <3>1. /\ live'.image = live.image /\ live'.env = env /\ live'.state = "booting"
      BY <2>2, <2>4 DEF Created
    <3> QED BY <2>1, <3>1 DEF Smoked, Boots, Bootable
  <2> QED BY <1>ApplyRecreate, <2>3, <2>4 DEF ApplyRecreate
<1>ApplyProbe. CASE ApplyProbe
  <2>1. UNCHANGED <<manifest, env, touched, deploy, live>>
    BY <1>ApplyProbe DEF ApplyProbe, files, Other
  <2> QED BY <2>1 DEF Smoked, Boots, Bootable
<1>KillKeys. CASE KillKeys
  <2>1. UNCHANGED <<manifest, env, touched, deploy, live>>
    BY <1>KillKeys DEF KillKeys, files, Other
  <2> QED BY <2>1 DEF Smoked, Boots, Bootable
<1>StartSmoke. ASSUME NEW u \in Smoker, StartSmoke(u)
      PROVE  Smoked'
  <2>1. CASE u = "deploy"
    BY <1>StartSmoke, <2>1 DEF StartSmoke, Smokes, Smoked
  <2>2. CASE u # "deploy"
    BY <1>StartSmoke, <2>2 DEF StartSmoke, Smoked, Boots, Bootable
  <2> QED BY <2>1, <2>2
<1>LaunchSmoke. ASSUME NEW u \in Smoker, LaunchSmoke(u)
      PROVE  Smoked'
  BY <1>LaunchSmoke DEF LaunchSmoke, files, Smoked, Boots, Bootable
<1>BootSmoke. CASE BootSmoke
  BY <1>BootSmoke DEF BootSmoke, files, Smoked, Boots, Bootable
<1>JudgeSmoke. ASSUME NEW u \in Smoker, JudgeSmoke(u)
      PROVE  Smoked'
  BY <1>JudgeSmoke DEF JudgeSmoke, files, Smoked, Boots, Bootable
<1>stutter. CASE UNCHANGED deployVars
  BY <1>stutter DEF deployVars, Smoked, Boots, Bootable
<1> QED BY <1>BootLive, <1>RestartLive, <1>StartDeploy, <1>RunGate,
     <1>RunSmoke, <1>CaptureAnchor, <1>Swap, <1>VerifySwap, <1>Retain,
     <1>Rollback, <1>KillDeploy, <1>KeysNew, <1>KeysRevoke, <1>WriteFiles,
     <1>WriteKeychain, <1>ApplySmoke, <1>ApplyRecreate, <1>ApplyProbe,
     <1>KillKeys, <1>StartSmoke, <1>LaunchSmoke, <1>BootSmoke, <1>JudgeSmoke,
     <1>stutter DEF DeployNext

\* Every step keeps what the keys command's smoke established.
LEMMA AppliedStep ==
    ASSUME HostTypes, Copies, Scripts, Applied, [DeployNext]_deployVars
    PROVE  Applied'
<1> USE DEF HostTypes
\* The rule for steps beside a keys command, or before its smoke is over.
<1>beside. ASSUME UNCHANGED <<manifest, env, keys, live>>
      PROVE  Applied'
  BY <1>beside DEF Applied, Boots, Bootable
<1>before. ASSUME keys'.pc \notin {"recreate", "probe"}
      PROVE  Applied'
  BY <1>before DEF Applied
\* A container created meanwhile boots first.
<1>fresh. ASSUME UNCHANGED <<manifest, env, keys>>,
                 live' = NoLive \/ live'.state # "crashed"
      PROVE  Applied'
  BY <1>fresh DEF Applied, Boots, Bootable
<1>BootLive. CASE BootLive
  <2>1. UNCHANGED <<manifest, env, keys>>
    BY <1>BootLive DEF BootLive, files
  <2>2. live \in LiveState /\ live # NoLive
    BY <1>BootLive DEF BootLive, LiveTypes
  <2>3. live'.image = live.image /\ live'.env = live.env
    BY <1>BootLive, <2>2 DEF BootLive, LiveState
  <2>4. Boots(live.image, manifest, live.env) => live'.state # "crashed"
    BY <1>BootLive, <2>2 DEF BootLive, LiveState
  <2>5. keys.pc = "probe" => keys.env = env
    BY DEF Copies
  <2> QED BY <2>1, <2>3, <2>4, <2>5 DEF Applied, Boots, Bootable
<1>RestartLive. CASE RestartLive
  <2>1. UNCHANGED <<manifest, env, keys>>
    BY <1>RestartLive DEF RestartLive, files
  <2>2. live'.state = "booting"
    BY <1>RestartLive DEF RestartLive, LiveTypes, LiveState
  <2> QED BY <1>fresh, <2>1, <2>2
<1>StartDeploy. ASSUME NEW i \in Image, StartDeploy(i)
      PROVE  Applied'
  BY <1>StartDeploy, <1>beside DEF StartDeploy, files
<1>deploy. CASE RunGate \/ RunSmoke \/ CaptureAnchor \/ VerifySwap \/ Retain \/ KillDeploy
  BY <1>deploy, <1>beside DEF RunGate, RunSmoke, CaptureAnchor, VerifySwap, Retain, KillDeploy,
     files
<1>launches. CASE Swap \/ Rollback
  <2>1. UNCHANGED <<manifest, env, keys>>
    BY <1>launches DEF Swap, Rollback, LaunchReads, Launches, files
  <2>2. \/ live' = live \/ live' = NoLive
        \/ live' = Created(deploy.image, deploy.env)
        \/ live' = Created(deploy.anchor, deploy.env)
    BY <1>launches DEF Swap, Rollback, LaunchReads, Launches
  <2> QED BY <1>beside, <1>fresh, <2>1, <2>2 DEF Created
<1>KeysNew. ASSUME NEW id \in Consumer, NEW apply \in BOOLEAN, NEW sized \in BOOLEAN,
                KeysNew(id, apply, sized)
      PROVE  Applied'
  BY <1>KeysNew, <1>before, IdleKeysType DEF KeysNew, Starts, KeysState
<1>KeysRevoke. ASSUME NEW id \in Consumer, NEW apply \in BOOLEAN,
                KeysRevoke(id, apply)
      PROVE  Applied'
  BY <1>KeysRevoke, <1>before, IdleKeysType DEF KeysRevoke, Starts, KeysState
<1>WriteFiles. CASE WriteFiles
  <2>1. KeysTo("env") \/ KeysTo("keychain")
    BY <1>WriteFiles DEF WriteFiles
  <2>2. "env" \in KeysPc /\ "keychain" \in KeysPc
    BY DEF KeysPc
  <2> QED BY <1>before, <2>1, <2>2, KeysMoves DEF KeysTypes
<1>WriteKeychain. CASE WriteKeychain
  BY <1>WriteKeychain, <1>before, IdleKeysType DEF WriteKeychain, KeysState
<1>ApplySmoke. CASE ApplySmoke
  <2> DEFINE i == script["keys"].image
             x == script["keys"].crossed
  <2>1. CASE keys' = IdleKeys
    BY <1>before, <2>1, IdleKeysType
  <2>2. CASE /\ smokePassed("keys")
             /\ keys' = [keys EXCEPT !.pc = "recreate", !.env = env, !.image = i, !.crossed = x]
    <3>1. ~x => Boots(i, manifest, env)
      BY <2>2 DEF smokePassed, Scripts, SmokeHolds
    <3>2. UNCHANGED <<manifest, env>>
      BY <1>ApplySmoke DEF ApplySmoke, files
    <3> HIDE DEF i, x
    <3>3. keys'.pc = "recreate" /\ keys'.image = i /\ keys'.crossed = x
      BY <2>2 DEF KeysTypes, KeysState
    <3> QED BY <3>1, <3>2, <3>3 DEF Applied, Boots, Bootable
  <2> QED BY <1>ApplySmoke, <2>1, <2>2 DEF ApplySmoke
<1>ApplyRecreate. CASE ApplyRecreate
  <2>1. CASE keys' = IdleKeys
    BY <1>before, <2>1, IdleKeysType
  <2>2. CASE live' = Created(live.image, keys.env) /\ KeysTo("probe")
    <3>1. "probe" \in KeysPc
      BY DEF KeysPc
    <3>2. /\ keys'.pc = "probe" /\ keys'.image = keys.image /\ keys'.crossed = keys.crossed
          /\ live'.state = "booting"
      BY <2>2, <3>1, KeysMoves DEF KeysTypes, Created
    <3>3. UNCHANGED <<manifest, env>> /\ keys.pc = "recreate"
      BY <1>ApplyRecreate DEF ApplyRecreate, KeysAt, files
    <3> QED BY <3>2, <3>3 DEF Applied, Boots, Bootable
  <2> QED BY <1>ApplyRecreate, <2>1, <2>2 DEF ApplyRecreate
<1>ends. CASE ApplyProbe \/ KillKeys
  BY <1>ends, <1>before, IdleKeysType DEF ApplyProbe, KillKeys
<1>smoke. CASE \/ BootSmoke
               \/ \E u \in Smoker : StartSmoke(u) \/ LaunchSmoke(u) \/ JudgeSmoke(u)
  BY <1>smoke, <1>beside DEF BootSmoke, StartSmoke, LaunchSmoke, JudgeSmoke, files
<1>stutter. CASE UNCHANGED deployVars
  BY <1>stutter, <1>beside DEF deployVars
<1> QED BY <1>BootLive, <1>RestartLive, <1>StartDeploy, <1>deploy, <1>launches, <1>KeysNew,
     <1>KeysRevoke, <1>WriteFiles, <1>WriteKeychain, <1>ApplySmoke, <1>ApplyRecreate, <1>ends,
     <1>smoke, <1>stutter DEF DeployNext

\* Every step keeps who is revoked out of the manifest.
LEMMA BarredStep ==
    ASSUME HostTypes, Copies, Barred, [DeployNext]_deployVars
    PROVE  Barred'
<1>BootLive. CASE BootLive
  BY <1>BootLive DEF BootLive, files, Barred
<1>RestartLive. CASE RestartLive
  BY <1>RestartLive DEF RestartLive, files, Barred
<1>StartDeploy. ASSUME NEW i \in Image, StartDeploy(i)
      PROVE  Barred'
  BY <1>StartDeploy DEF StartDeploy, files, Barred
<1>RunGate. CASE RunGate
  BY <1>RunGate DEF RunGate, files, Barred
<1>RunSmoke. CASE RunSmoke
  BY <1>RunSmoke DEF RunSmoke, files, Barred
<1>CaptureAnchor. CASE CaptureAnchor
  BY <1>CaptureAnchor DEF CaptureAnchor, files, Barred
<1>Swap. CASE Swap
  BY <1>Swap DEF Swap, LaunchReads, Launches, files, Barred
<1>VerifySwap. CASE VerifySwap
  BY <1>VerifySwap DEF VerifySwap, files, Barred
<1>Retain. CASE Retain
  BY <1>Retain DEF Retain, files, Barred
<1>Rollback. CASE Rollback
  BY <1>Rollback DEF Rollback, files, LaunchReads, Launches, files, Barred
<1>KillDeploy. CASE KillDeploy
  BY <1>KillDeploy DEF KillDeploy, files, Barred
<1>KeysNew. ASSUME NEW id \in Consumer, NEW apply \in BOOLEAN, NEW sized \in BOOLEAN,
                KeysNew(id, apply, sized)
      PROVE  Barred'
  BY <1>KeysNew DEF KeysNew, Starts, files, Barred
<1>KeysRevoke. ASSUME NEW id \in Consumer, NEW apply \in BOOLEAN,
                KeysRevoke(id, apply)
      PROVE  Barred'
  BY <1>KeysRevoke DEF KeysRevoke, Starts, files, Barred
<1>WriteFiles. CASE WriteFiles
  <2>1. /\ keys \in KeysState /\ keys.op \in {"none", "new", "revoke"}
        /\ "env" \in KeysPc /\ "keychain" \in KeysPc
    BY DEF HostTypes, KeysTypes, KeysState, KeysPc
  <2>2. CASE KeysAt("manifest")
    <3>1. keys.entries = manifest /\ KeysTo("env")
      BY <1>WriteFiles, <2>2 DEF WriteFiles, KeysAt, Copies
    <3>2. keys'.pc = "env" /\ keys'.op = keys.op /\ keys'.id = keys.id
      BY <2>1, <3>1, KeysMoves
    <3>3. CASE Revoking
      <4>1. /\ manifest' = manifest \ {keys.id}
            /\ revoked' = revoked \cup {<<keys.id, t>> : t \in {keys.env[keys.id]} \ {0}}
        BY <1>WriteFiles, <2>2, <3>1, <3>3 DEF WriteFiles, NowRevoked
      <4> QED BY <3>2, <4>1 DEF Barred
    <3>4. CASE ~Revoking
      <4>1. /\ manifest' = manifest \cup {keys.id}
            /\ revoked' = {r \in revoked : r[1] # keys.id}
        BY <1>WriteFiles, <2>2, <3>1, <3>4 DEF WriteFiles, NowRevoked
      <4> QED BY <3>2, <3>4, <4>1 DEF Barred, Revoking
    <3> QED BY <3>3, <3>4
  <2>3. CASE ~KeysAt("manifest")
    <3>1. KeysAt("env") /\ KeysTo("keychain") /\ manifest' = manifest
      BY <1>WriteFiles, <2>3 DEF WriteFiles
    <3>2. keys'.pc = "keychain"
      BY <2>1, <3>1, KeysMoves
    <3>3. \A r \in revoked' : r \in revoked \/ (Revoking /\ r[1] = keys.id)
      BY <1>WriteFiles DEF WriteFiles, NowRevoked
    <3> QED BY <3>1, <3>2, <3>3 DEF Barred, Revoking, KeysAt
  <2> QED BY <2>2, <2>3
<1>WriteKeychain. CASE WriteKeychain
  <2>1. keys'.pc # "env" /\ UNCHANGED <<manifest, revoked>>
    BY <1>WriteKeychain, IdleKeysType DEF WriteKeychain, files, IdleKeys
  <2> QED BY <2>1 DEF Barred
<1>ApplySmoke. CASE ApplySmoke
  <2>1. UNCHANGED <<manifest, revoked>>
    BY <1>ApplySmoke DEF ApplySmoke, files
  <2>2. keys'.pc # "env"
    BY <1>ApplySmoke, IdleKeysType DEF ApplySmoke, HostTypes, KeysTypes, KeysState
  <2> QED BY <2>1, <2>2 DEF Barred
<1>ApplyRecreate. CASE ApplyRecreate
  <2>1. keys'.pc # "env" /\ UNCHANGED <<manifest, revoked>>
    <3>1. \/ keys' = IdleKeys
          \/ KeysTo("probe")
      BY <1>ApplyRecreate DEF ApplyRecreate
    <3>2. CASE KeysTo("probe")
      BY <1>ApplyRecreate, <3>2 DEF ApplyRecreate, KeysTo, files, HostTypes, KeysTypes, KeysState
    <3> QED BY <1>ApplyRecreate, <3>1, <3>2, IdleKeysType DEF ApplyRecreate, files
  <2> QED BY <2>1 DEF Barred
<1>ApplyProbe. CASE ApplyProbe
  BY <1>ApplyProbe, IdleKeysType DEF ApplyProbe, files, Barred
<1>KillKeys. CASE KillKeys
  BY <1>KillKeys, IdleKeysType DEF KillKeys, files, Barred
<1>StartSmoke. ASSUME NEW u \in Smoker, StartSmoke(u)
      PROVE  Barred'
  BY <1>StartSmoke DEF StartSmoke, Barred
<1>LaunchSmoke. ASSUME NEW u \in Smoker, LaunchSmoke(u)
      PROVE  Barred'
  BY <1>LaunchSmoke DEF LaunchSmoke, files, Barred
<1>BootSmoke. CASE BootSmoke
  BY <1>BootSmoke DEF BootSmoke, files, Barred
<1>JudgeSmoke. ASSUME NEW u \in Smoker, JudgeSmoke(u)
      PROVE  Barred'
  BY <1>JudgeSmoke DEF JudgeSmoke, files, Barred
<1>stutter. CASE UNCHANGED deployVars
  BY <1>stutter DEF deployVars, Barred
<1> QED BY <1>BootLive, <1>RestartLive, <1>StartDeploy, <1>RunGate,
     <1>RunSmoke, <1>CaptureAnchor, <1>Swap, <1>VerifySwap, <1>Retain,
     <1>Rollback, <1>KillDeploy, <1>KeysNew, <1>KeysRevoke, <1>WriteFiles,
     <1>WriteKeychain, <1>ApplySmoke, <1>ApplyRecreate, <1>ApplyProbe,
     <1>KillKeys, <1>StartSmoke, <1>LaunchSmoke, <1>BootSmoke, <1>JudgeSmoke,
     <1>stutter DEF DeployNext

LEMMA HostStep == Host /\ [DeployNext]_deployVars => Host'
BY FileTypesStep, LiveTypesStep, DeployTypesStep, KeysTypesStep, SmokeTypesStep,
   CopiesStep, ScriptsStep, SmokedStep, AppliedStep, BarredStep DEF Host, HostTypes

-----------------------------------------------------------------------------
(* The vault. *)

Exit == {NoExit, Rotating, <<"direct">>} \cup (Cmd \X (0..OpenAttempts))
Login == [via : Exit, exit : Exit]
Sealed == [key : Key, value : Login]
CmdPc ==
    {"idle", "over", "remove", "direct", "pinned", "login", "twofa", "captured", "put",
     "rename", "verify"}
CmdState ==
    [pc : CmdPc, op : {None, "import", "revoke", "login"}, slot : Slot \cup {None},
     attempt : 0..OpenAttempts, open : Exit, value : Login \cup {NoFile},
     kek : Key \cup {None}]
RotState ==
    [pc : {"idle", "write", "rename"}, left : SUBSET (Slot \X Login),
     at : Slot \cup {None}]

StoreTypes ==
    /\ file \in [Slot -> Sealed \cup {NoFile}]
    /\ kept \in [Slot -> Login \cup {NoFile}]
    /\ temp \in SUBSET Key /\ stray \in SUBSET Key /\ keyFile \in Key \cup {None}
    /\ gw.up \in BOOLEAN
CmdTypes == cmd \in [Cmd -> CmdState]
RotTypes == rot \in RotState
VaultTypes == StoreTypes /\ CmdTypes /\ RotTypes

\* A login is recorded with the exit it used, or used one that pins nothing.
Honest(login) == login.via = login.exit \/ login.via = Rotating

\* A command at work runs in the container, with the key in use; what it
\* stores is honest, and so is the exit it holds open.
CmdShape(c) ==
    /\ cmd[c].pc \notin {"idle", "over"} =>
          gw.up /\ keyFile # None /\ cmd[c].kek = keyFile /\ cmd[c].slot \in Slot
    /\ cmd[c].pc \in {"put", "rename", "verify"} =>
          cmd[c].value \in Login /\ Honest(cmd[c].value)
    /\ cmd[c].pc \in {"login", "twofa", "captured"} =>
          cmd[c].open \in {<<"direct">>, Rotating, <<c, cmd[c].attempt>>}
Cmds == \A c \in Cmd : CmdShape(c)

\* A rotation runs alone over a clean directory, and what it still has to
\* write is what the entries hold.
Alone ==
    /\ rot.pc = "idle" => rot.left = {}
    /\ rot.pc # "idle" => ~gw.up /\ keyFile = "old" /\ temp = {} /\ stray = {}
    /\ \A e \in rot.left : file[e[1]] # NoFile /\ e[2] = file[e[1]].value

HonestEntries == \A s \in Entries : Honest(file[s].value)

Vault ==
    VaultTypes /\ Cmds /\ Alone /\ EntriesSurvive /\ OldKeyGone /\ HonestEntries

LEMMA NoFileApart ==
    /\ \A r \in Sealed : r # NoFile
    /\ \A v \in Login : v # NoFile
<1>1. ASSUME NEW r \in Sealed PROVE r # NoFile
  <2>1. "none" \notin DOMAIN r /\ "none" \in DOMAIN NoFile
    BY DEF Sealed, NoFile
  <2> QED BY <2>1
<1>2. ASSUME NEW v \in Login PROVE v # NoFile
  <2>1. "none" \notin DOMAIN v /\ "none" \in DOMAIN NoFile
    BY DEF Login, NoFile
  <2> QED BY <2>1
<1> QED BY <1>1, <1>2

\* What a command's step does to the commands.
LEMMA IdleType == IdleCmd \in CmdState
<1>1. 0 \in 0..OpenAttempts
  BY VaultAssumption
<1> QED BY <1>1 DEF IdleCmd, CmdState, CmdPc, Exit, Key

LEMMA OverType ==
    LET q == [IdleCmd EXCEPT !.pc = "over"]
    IN  q \in CmdState /\ q.pc = "over"
BY IdleType DEF CmdState, CmdPc

LEMMA EndMoves ==
    ASSUME CmdTypes, NEW c \in Cmd, End(c)
    PROVE  /\ CmdTypes' /\ cmd'[c].pc = "over"
           /\ \A d \in Cmd : d # c => cmd'[d] = cmd[d]
<1> DEFINE q == [IdleCmd EXCEPT !.pc = "over"]
<1>1. q \in CmdState /\ q.pc = "over"
  BY OverType
<1>2. cmd' = [cmd EXCEPT ![c] = q]
  BY DEF End
<1> HIDE DEF q
<1> QED BY <1>1, <1>2 DEF CmdTypes

LEMMA GoesMoves ==
    ASSUME CmdTypes, NEW c \in Cmd, NEW x \in CmdPc, Goes(c, x)
    PROVE  /\ CmdTypes' /\ cmd'[c].pc = x
           /\ cmd'[c].slot = cmd[c].slot /\ cmd'[c].kek = cmd[c].kek
           /\ cmd'[c].open = cmd[c].open /\ cmd'[c].attempt = cmd[c].attempt
           /\ cmd'[c].value = cmd[c].value
           /\ \A d \in Cmd : d # c => cmd'[d] = cmd[d]
<1> DEFINE q == [cmd[c] EXCEPT !.pc = x]
<1>1. cmd[c] \in CmdState
  BY DEF CmdTypes
<1>2. /\ q \in CmdState /\ q.pc = x /\ q.slot = cmd[c].slot /\ q.kek = cmd[c].kek
      /\ q.open = cmd[c].open /\ q.attempt = cmd[c].attempt /\ q.value = cmd[c].value
  BY <1>1 DEF CmdState
<1>3. cmd' = [cmd EXCEPT ![c] = q]
  BY DEF Goes
<1> HIDE DEF q
<1> QED BY <1>2, <1>3 DEF CmdTypes

LEMMA BeginsMoves ==
    ASSUME CmdTypes, StoreTypes, NEW c \in Cmd, NEW s \in Slot,
           NEW op \in {"import", "revoke", "login"},
           NEW x \in CmdPc, NEW v \in Login \cup {NoFile}, Begins(c, op, s, x, v)
    PROVE  /\ CmdTypes' /\ gw.up /\ keyFile # None
           /\ cmd'[c].pc = x /\ cmd'[c].slot = s /\ cmd'[c].kek = keyFile
           /\ cmd'[c].value = v
           /\ \A d \in Cmd : d # c => cmd'[d] = cmd[d]
           /\ UNCHANGED <<file, temp, stray, keyFile, posture, gw, rot, kept>>
<1> DEFINE q == [IdleCmd EXCEPT !.op = op, !.slot = s, !.kek = keyFile,
                                !.pc = x, !.value = v]
<1>1. 0 \in 0..OpenAttempts /\ keyFile \in Key \cup {None}
  BY VaultAssumption DEF StoreTypes
<1>2. q \in CmdState
  BY <1>1, IdleType DEF CmdState
<1>3. q.pc = x /\ q.slot = s /\ q.kek = keyFile /\ q.value = v
  BY IdleType DEF CmdState
<1>4. cmd' = [cmd EXCEPT ![c] = q]
  BY DEF Begins
<1> HIDE DEF q
<1> QED BY <1>2, <1>3, <1>4 DEF CmdTypes, Begins

\* The three starts.
LEMMA StartMoves ==
    ASSUME CmdTypes, StoreTypes, NEW c \in Cmd, NEW s \in Slot,
           StartImport(c, s) \/ StartRevoke(c, s) \/ StartLogin(c, s)
    PROVE  /\ CmdTypes' /\ CmdShape(c)'
           /\ \A d \in Cmd : d # c => cmd'[d] = cmd[d]
           /\ UNCHANGED <<file, temp, stray, keyFile, posture, gw, rot, kept>>
<1> USE DEF CmdPc
<1>1. CASE StartImport(c, s)
  <2>1. PICK exit \in {NoExit, <<c, 0>>} :
             Begins(c, "import", s, "put", importLoginToVault(exit))
    BY <1>1 DEF StartImport
  <2>2. 0 \in 0..OpenAttempts
    BY VaultAssumption
  <2> DEFINE v == importLoginToVault(exit)
  <2>3. v \in Login /\ Honest(v)
    BY <2>2 DEF importLoginToVault, Login, Exit, Honest
  <2> HIDE DEF v
  <2> QED BY <2>1, <2>3, BeginsMoves DEF CmdShape, v
<1>2. CASE StartRevoke(c, s)
  BY <1>2, BeginsMoves DEF StartRevoke, CmdShape
<1>3. CASE StartLogin(c, s)
  <2>1. \/ Begins(c, "login", s, "pinned", NoFile)
        \/ Begins(c, "login", s, "direct", NoFile)
    BY <1>3 DEF StartLogin
  <2> QED BY <2>1, BeginsMoves DEF CmdShape
<1> QED BY <1>1, <1>2, <1>3

\* A session that landed, directly or on a pinned exit.
LEMMA DirectMoves ==
    ASSUME CmdTypes, NEW c \in Cmd, NEW x \in Exit,
           cmd' = [cmd EXCEPT ![c] = [@ EXCEPT !.pc = "login", !.open = x]]
    PROVE  /\ CmdTypes' /\ cmd'[c].pc = "login"
           /\ cmd'[c].slot = cmd[c].slot /\ cmd'[c].kek = cmd[c].kek
           /\ cmd'[c].open = x
           /\ \A d \in Cmd : d # c => cmd'[d] = cmd[d]
<1> DEFINE q == [cmd[c] EXCEPT !.pc = "login", !.open = x]
<1>1. cmd[c] \in CmdState
  BY DEF CmdTypes
<1>2. cmd' = [cmd EXCEPT ![c] = q]
  OBVIOUS
<1>3. q \in CmdState
  BY <1>1 DEF CmdState, CmdPc
<1>4. q.pc = "login" /\ q.slot = cmd[c].slot /\ q.kek = cmd[c].kek /\ q.open = x
  BY <1>1 DEF CmdState
<1> HIDE DEF q
<1> QED BY <1>2, <1>3, <1>4 DEF CmdTypes

LEMMA OpenMoves ==
    ASSUME CmdTypes, NEW c \in Cmd, NEW n \in 0..OpenAttempts, NEW x \in Exit,
           cmd' = [cmd EXCEPT ![c] =
                      [@ EXCEPT !.pc = "login", !.attempt = n, !.open = x]]
    PROVE  /\ CmdTypes' /\ cmd'[c].pc = "login"
           /\ cmd'[c].slot = cmd[c].slot /\ cmd'[c].kek = cmd[c].kek
           /\ cmd'[c].open = x /\ cmd'[c].attempt = n
           /\ \A d \in Cmd : d # c => cmd'[d] = cmd[d]
<1> DEFINE q == cmd'[c]
<1>1. cmd[c] \in CmdState
  BY DEF CmdTypes
<1>2. cmd' = [cmd EXCEPT ![c] = q]
  BY DEF CmdTypes
<1>3. q = [cmd[c] EXCEPT !.pc = "login", !.attempt = n, !.open = x]
  BY DEF CmdTypes
<1> HIDE DEF q
<1>4. q \in CmdState
  BY <1>1, <1>3 DEF CmdState, CmdPc
<1>5. /\ q.pc = "login" /\ q.slot = cmd[c].slot /\ q.kek = cmd[c].kek /\ q.open = x
      /\ q.attempt = n
  BY <1>1, <1>3 DEF CmdState
<1> QED BY <1>2, <1>4, <1>5 DEF CmdTypes

\* The login a command captured.
LEMMA CaptureMoves ==
    ASSUME CmdTypes, NEW c \in Cmd, CmdShape(c), CloseCaptured(c)
    PROVE  /\ CmdTypes' /\ cmd'[c].pc = "put"
           /\ cmd'[c].slot = cmd[c].slot /\ cmd'[c].kek = cmd[c].kek
           /\ cmd'[c].value \in Login /\ Honest(cmd'[c].value)
           /\ \A d \in Cmd : d # c => cmd'[d] = cmd[d]
<1> DEFINE v == captureLoginToVault(c)
           q == [cmd[c] EXCEPT !.pc = "put", !.open = NoExit, !.value = v]
<1>1. cmd[c] \in CmdState
  BY DEF CmdTypes
<1>2. cmd[c].open \in Exit /\ <<c, cmd[c].attempt>> \in Exit
  BY <1>1 DEF CmdState, Exit
<1>3. v \in Login /\ Honest(v)
  BY <1>2 DEF captureLoginToVault, Login, Honest, CmdShape, CloseCaptured, Exit
<1>4. cmd' = [cmd EXCEPT ![c] = q]
  BY DEF CloseCaptured
<1> HIDE DEF v
<1>5. q \in CmdState
  BY <1>1, <1>3 DEF CmdState, CmdPc, Exit
<1>6. /\ q.pc = "put" /\ q.slot = cmd[c].slot /\ q.kek = cmd[c].kek /\ q.value = v
  BY <1>1 DEF CmdState
<1> HIDE DEF q
<1> QED BY <1>3, <1>4, <1>5, <1>6 DEF CmdTypes

\* One command moves; the container and the key do not.
LEMMA OneMoves ==
    ASSUME Cmds, NEW c \in Cmd, UNCHANGED <<gw, keyFile>>, CmdTypes', CmdShape(c)',
           \A d \in Cmd : d # c => cmd'[d] = cmd[d]
    PROVE  CmdTypes' /\ Cmds'
BY DEF Cmds, CmdShape

\* Every step keeps the commands typed and in shape.
LEMMA CmdsStep ==
    ASSUME Vault, [VaultNext]_vaultVars
    PROVE  CmdTypes' /\ Cmds'
<1> StoreTypes /\ CmdTypes /\ Cmds /\ Alone
  BY DEF Vault, VaultTypes
<1>BootGateway. CASE BootGateway
  <2>1. UNCHANGED cmd /\ ~gw.up
    BY <1>BootGateway DEF BootGateway, Alone
  <2> QED BY <2>1 DEF CmdTypes, Cmds, CmdShape
<1>StopContainer. CASE StopContainer
  <2> DEFINE q == [IdleCmd EXCEPT !.pc = "over"]
  <2>1. q \in CmdState /\ q.pc = "over"
    BY OverType
  <2>2. cmd' = [c \in Cmd |-> IF cmd[c].pc = "idle" THEN cmd[c] ELSE q]
    BY <1>StopContainer DEF StopContainer
  <2> HIDE DEF q
  <2>3. CmdTypes'
    BY <2>1, <2>2 DEF CmdTypes
  <2>4. \A c \in Cmd : cmd'[c].pc \in {"idle", "over"}
    BY <2>1, <2>2
  <2> QED BY <2>3, <2>4 DEF Cmds, CmdShape
<1>InstallKey. CASE InstallKey
  <2>1. UNCHANGED cmd /\ ~gw.up
    BY <1>InstallKey DEF InstallKey, Alone
  <2> QED BY <2>1 DEF CmdTypes, Cmds, CmdShape
<1>Tidy. CASE Tidy
  <2>1. UNCHANGED <<cmd, gw, keyFile>>
    BY <1>Tidy DEF Tidy
  <2> QED BY <2>1 DEF CmdTypes, Cmds, CmdShape
<1>StartRotation. CASE StartRotation
  <2>1. UNCHANGED <<cmd, gw, keyFile>>
    BY <1>StartRotation DEF StartRotation
  <2> QED BY <2>1 DEF CmdTypes, Cmds, CmdShape
<1>RotateRename. CASE RotateRename
  <2>1. UNCHANGED <<cmd, gw, keyFile>>
    BY <1>RotateRename DEF RotateRename
  <2> QED BY <2>1 DEF CmdTypes, Cmds, CmdShape
<1>FinishRotation. CASE FinishRotation
  <2>1. UNCHANGED cmd /\ ~gw.up
    BY <1>FinishRotation DEF FinishRotation, Alone
  <2> QED BY <2>1 DEF CmdTypes, Cmds, CmdShape
<1>KillRotation. CASE KillRotation
  <2>1. UNCHANGED <<cmd, gw, keyFile>>
    BY <1>KillRotation DEF KillRotation
  <2> QED BY <2>1 DEF CmdTypes, Cmds, CmdShape
<1>Reconfigure. ASSUME NEW p \in Posture, Reconfigure(p)
      PROVE  CmdTypes' /\ Cmds'
  <2>1. UNCHANGED <<cmd, gw, keyFile>>
    BY <1>Reconfigure DEF Reconfigure
  <2> QED BY <2>1 DEF CmdTypes, Cmds, CmdShape
<1>CopyAside. ASSUME NEW s \in Slot, CopyAside(s)
      PROVE  CmdTypes' /\ Cmds'
  <2>1. UNCHANGED <<cmd, gw, keyFile>>
    BY <1>CopyAside DEF CopyAside
  <2> QED BY <2>1 DEF CmdTypes, Cmds, CmdShape
<1>RotateTemp. ASSUME NEW s \in Slot, RotateTemp(s)
      PROVE  CmdTypes' /\ Cmds'
  <2>1. UNCHANGED <<cmd, gw, keyFile>>
    BY <1>RotateTemp DEF RotateTemp
  <2> QED BY <2>1 DEF CmdTypes, Cmds, CmdShape
<1>StartImport. ASSUME NEW c \in Cmd, NEW s \in Slot, StartImport(c, s)
      PROVE  CmdTypes' /\ Cmds'
  BY <1>StartImport, StartMoves, OneMoves
<1>StartRevoke. ASSUME NEW c \in Cmd, NEW s \in Slot, StartRevoke(c, s)
      PROVE  CmdTypes' /\ Cmds'
  BY <1>StartRevoke, StartMoves, OneMoves
<1>StartLogin. ASSUME NEW c \in Cmd, NEW s \in Slot, StartLogin(c, s)
      PROVE  CmdTypes' /\ Cmds'
  BY <1>StartLogin, StartMoves, OneMoves
<1>Remove. ASSUME NEW c \in Cmd, Remove(c)
      PROVE  CmdTypes' /\ Cmds'
  <2>1. End(c) /\ UNCHANGED <<gw, keyFile>>
    BY <1>Remove DEF Remove
  <2>2. CmdShape(c)'
    BY <2>1, EndMoves DEF CmdShape
  <2> QED BY <2>1, <2>2, EndMoves, OneMoves
<1>TryDirect. ASSUME NEW c \in Cmd, TryDirect(c)
      PROVE  CmdTypes' /\ Cmds'
  <2>1. cmd[c].pc = "direct" /\ UNCHANGED <<gw, keyFile>>
    BY <1>TryDirect DEF TryDirect
  <2>2. CASE End(c)
    <3>1. CmdShape(c)'
      BY <2>2, EndMoves DEF CmdShape
    <3> QED BY <2>1, <2>2, <3>1, EndMoves, OneMoves
  <2>3. CASE Goes(c, "pinned")
    <3>1. "pinned" \in CmdPc
      BY DEF CmdPc
    <3>2. CmdShape(c)'
      BY <2>1, <2>3, <3>1, GoesMoves DEF CmdShape, Cmds
    <3> QED BY <2>1, <2>3, <3>1, <3>2, GoesMoves, OneMoves
  <2>4. CASE cmd' = [cmd EXCEPT ![c] = [@ EXCEPT !.pc = "login",
                                            !.open = <<"direct">>]]
    <3> DEFINE x == <<"direct">>
    <3>1. x \in Exit
      BY DEF Exit
    <3>4. cmd' = [cmd EXCEPT ![c] = [@ EXCEPT !.pc = "login", !.open = x]]
      BY <2>4
    <3> HIDE DEF x
    <3>2. /\ CmdTypes' /\ cmd'[c].pc = "login"
          /\ cmd'[c].slot = cmd[c].slot /\ cmd'[c].kek = cmd[c].kek
          /\ cmd'[c].open = x
          /\ \A d \in Cmd : d # c => cmd'[d] = cmd[d]
      BY <3>1, <3>4, DirectMoves
    <3>3. CmdShape(c)'
      BY <2>1, <3>2 DEF CmdShape, Cmds, x
    <3> QED BY <2>1, <3>2, <3>3, OneMoves
  <2> QED BY <1>TryDirect, <2>2, <2>3, <2>4 DEF TryDirect
<1>TryPinned. ASSUME NEW c \in Cmd, TryPinned(c)
      PROVE  CmdTypes' /\ Cmds'
  <2>1. cmd[c].pc = "pinned" /\ UNCHANGED <<gw, keyFile>>
    BY <1>TryPinned DEF TryPinned
  <2>2. CASE End(c)
    <3>1. CmdShape(c)'
      BY <2>2, EndMoves DEF CmdShape
    <3> QED BY <2>1, <2>2, <3>1, EndMoves, OneMoves
  <2> DEFINE n == cmd[c].attempt + 1
             x == mintStickyProxy(posture, <<c, n>>)
  <2>3. CASE /\ cmd[c].attempt < OpenAttempts
             /\ cmd' = [cmd EXCEPT ![c] =
                           [@ EXCEPT !.pc = "login", !.attempt = n, !.open = x]]
    <3>1. n \in 0..OpenAttempts
      BY <2>3, VaultAssumption DEF CmdTypes, CmdState
    <3>2. x \in {Rotating, <<c, n>>} /\ x \in Exit
      BY <3>1 DEF mintStickyProxy, Exit
    <3>3. cmd' = [cmd EXCEPT ![c] =
                     [@ EXCEPT !.pc = "login", !.attempt = n, !.open = x]]
      BY <2>3
    <3> HIDE DEF n, x
    <3>4. /\ CmdTypes' /\ cmd'[c].pc = "login"
          /\ cmd'[c].slot = cmd[c].slot /\ cmd'[c].kek = cmd[c].kek
          /\ cmd'[c].open = x /\ cmd'[c].attempt = n
          /\ \A d \in Cmd : d # c => cmd'[d] = cmd[d]
      BY <3>1, <3>2, <3>3, OpenMoves
    <3>5. CmdShape(c)'
      BY <2>1, <3>2, <3>4 DEF CmdShape, Cmds
    <3> QED BY <2>1, <3>4, <3>5, OneMoves
  <2>4. CASE /\ cmd[c].attempt < OpenAttempts
             /\ cmd' = [cmd EXCEPT ![c].attempt = n]
    <3> DEFINE q == [cmd[c] EXCEPT !.attempt = n]
    <3>1. cmd[c] \in CmdState
      BY DEF CmdTypes
    <3>2. n \in 0..OpenAttempts
      BY <2>4, <3>1, VaultAssumption DEF CmdState
    <3>3. cmd' = [cmd EXCEPT ![c] = q]
      BY <2>4
    <3> HIDE DEF n
    <3>4. q \in CmdState
      BY <3>1, <3>2 DEF CmdState
    <3>5. q.pc = "pinned" /\ q.slot = cmd[c].slot /\ q.kek = cmd[c].kek
      BY <2>1, <3>1 DEF CmdState
    <3> HIDE DEF q
    <3>6. /\ CmdTypes' /\ cmd'[c] = q
          /\ \A d \in Cmd : d # c => cmd'[d] = cmd[d]
      BY <3>3, <3>4 DEF CmdTypes
    <3>7. CmdShape(c)'
      BY <2>1, <3>5, <3>6 DEF CmdShape, Cmds
    <3> QED BY <2>1, <3>6, <3>7, OneMoves
  <2> QED BY <1>TryPinned, <2>2, <2>3, <2>4 DEF TryPinned
<1>AssistedLogin. ASSUME NEW c \in Cmd, AssistedLogin(c)
      PROVE  CmdTypes' /\ Cmds'
  <2>1. cmd[c].pc = "login" /\ UNCHANGED <<gw, keyFile>>
    BY <1>AssistedLogin DEF AssistedLogin
  <2>2. CASE End(c)
    <3>1. CmdShape(c)'
      BY <2>2, EndMoves DEF CmdShape
    <3> QED BY <2>1, <2>2, <3>1, EndMoves, OneMoves
  <2>3. CASE Goes(c, "twofa")
    <3>1. "twofa" \in CmdPc
      BY DEF CmdPc
    <3>2. CmdShape(c)'
      BY <2>1, <2>3, <3>1, GoesMoves DEF CmdShape, Cmds
    <3> QED BY <2>1, <2>3, <3>1, <3>2, GoesMoves, OneMoves
  <2>4. CASE Goes(c, "captured")
    <3>1. "captured" \in CmdPc
      BY DEF CmdPc
    <3>2. CmdShape(c)'
      BY <2>1, <2>4, <3>1, GoesMoves DEF CmdShape, Cmds
    <3> QED BY <2>1, <2>4, <3>1, <3>2, GoesMoves, OneMoves
  <2> QED BY <1>AssistedLogin, <2>2, <2>3, <2>4 DEF AssistedLogin
<1>SecondFactor. ASSUME NEW c \in Cmd, SecondFactor(c)
      PROVE  CmdTypes' /\ Cmds'
  <2>1. cmd[c].pc = "twofa" /\ UNCHANGED <<gw, keyFile>>
    BY <1>SecondFactor DEF SecondFactor
  <2>2. CASE End(c)
    <3>1. CmdShape(c)'
      BY <2>2, EndMoves DEF CmdShape
    <3> QED BY <2>1, <2>2, <3>1, EndMoves, OneMoves
  <2>3. CASE Goes(c, "captured")
    <3>1. "captured" \in CmdPc
      BY DEF CmdPc
    <3>2. CmdShape(c)'
      BY <2>1, <2>3, <3>1, GoesMoves DEF CmdShape, Cmds
    <3> QED BY <2>1, <2>3, <3>1, <3>2, GoesMoves, OneMoves
  <2> QED BY <1>SecondFactor, <2>2, <2>3 DEF SecondFactor
<1>CloseCaptured. ASSUME NEW c \in Cmd, CloseCaptured(c)
      PROVE  CmdTypes' /\ Cmds'
  <2>1. cmd[c].pc = "captured" /\ CmdShape(c) /\ UNCHANGED <<gw, keyFile>>
    BY <1>CloseCaptured DEF CloseCaptured, Cmds
  <2>2. CmdShape(c)'
    BY <1>CloseCaptured, <2>1, CaptureMoves DEF CmdShape
  <2> QED BY <1>CloseCaptured, <2>1, <2>2, CaptureMoves, OneMoves
<1>WriteTemp. ASSUME NEW c \in Cmd, WriteTemp(c)
      PROVE  CmdTypes' /\ Cmds'
  <2>1. cmd[c].pc = "put" /\ Goes(c, "rename") /\ UNCHANGED <<gw, keyFile>>
    BY <1>WriteTemp DEF WriteTemp
  <2>2. "rename" \in CmdPc
    BY DEF CmdPc
  <2>3. CmdShape(c)'
    BY <2>1, <2>2, GoesMoves DEF CmdShape, Cmds
  <2> QED BY <2>1, <2>2, <2>3, GoesMoves, OneMoves
<1>Rename. ASSUME NEW c \in Cmd, Rename(c)
      PROVE  CmdTypes' /\ Cmds'
  <2>1. cmd[c].pc = "rename" /\ Goes(c, "verify") /\ UNCHANGED <<gw, keyFile>>
    BY <1>Rename DEF Rename
  <2>2. "verify" \in CmdPc
    BY DEF CmdPc
  <2>3. CmdShape(c)'
    BY <2>1, <2>2, GoesMoves DEF CmdShape, Cmds
  <2> QED BY <2>1, <2>2, <2>3, GoesMoves, OneMoves
<1>Verify. ASSUME NEW c \in Cmd, Verify(c)
      PROVE  CmdTypes' /\ Cmds'
  <2>1. End(c) /\ UNCHANGED <<gw, keyFile>>
    BY <1>Verify DEF Verify
  <2>2. CmdShape(c)'
    BY <2>1, EndMoves DEF CmdShape
  <2> QED BY <2>1, <2>2, EndMoves, OneMoves
<1>KillCommand. ASSUME NEW c \in Cmd, KillCommand(c)
      PROVE  CmdTypes' /\ Cmds'
  <2>1. End(c) /\ UNCHANGED <<gw, keyFile>>
    BY <1>KillCommand DEF KillCommand
  <2>2. CmdShape(c)'
    BY <2>1, EndMoves DEF CmdShape
  <2> QED BY <2>1, <2>2, EndMoves, OneMoves
<1>stutter. CASE UNCHANGED vaultVars
  BY <1>stutter DEF vaultVars, CmdTypes, Cmds, CmdShape
<1> QED BY <1>BootGateway, <1>StopContainer, <1>InstallKey, <1>Tidy,
     <1>StartRotation, <1>RotateRename, <1>FinishRotation, <1>KillRotation,
     <1>Reconfigure, <1>CopyAside, <1>RotateTemp, <1>StartImport,
     <1>StartRevoke, <1>StartLogin, <1>Remove, <1>TryDirect, <1>TryPinned,
     <1>AssistedLogin, <1>SecondFactor, <1>CloseCaptured, <1>WriteTemp,
     <1>Rename, <1>Verify, <1>KillCommand, <1>stutter DEF VaultNext

\* Every step keeps the types of the store.
LEMMA StoreTypesStep ==
    ASSUME Vault, [VaultNext]_vaultVars
    PROVE  StoreTypes'
<1> StoreTypes /\ CmdTypes /\ RotTypes /\ Cmds /\ Alone
  BY DEF Vault, VaultTypes
<1>BootGateway. CASE BootGateway
  BY <1>BootGateway DEF BootGateway, StoreTypes
<1>StopContainer. CASE StopContainer
  <2>1. \A c \in Cmd : cmd[c].pc = "rename" => cmd[c].kek \in Key
    BY DEF Cmds, CmdShape, StoreTypes
  <2> QED BY <1>StopContainer, <2>1 DEF StopContainer, StoreTypes
<1>InstallKey. CASE InstallKey
  BY <1>InstallKey DEF InstallKey, StoreTypes, Key
<1>Tidy. CASE Tidy
  BY <1>Tidy DEF Tidy, StoreTypes
<1>StartRotation. CASE StartRotation
  BY <1>StartRotation DEF StartRotation, StoreTypes
<1>RotateRename. CASE RotateRename
  <2>1. PICK e \in rot.left :
             /\ e[1] = rot.at
             /\ file' = [file EXCEPT ![rot.at] = sealJson(e[2], "new")]
    BY <1>RotateRename DEF RotateRename
  <2> DEFINE r == sealJson(e[2], "new")
  <2>2. e[1] \in Slot /\ e[2] \in Login
    BY DEF RotTypes, RotState
  <2>3. r \in Sealed
    BY <2>2 DEF sealJson, Sealed, Key
  <2>4. file' = [file EXCEPT ![rot.at] = r]
    BY <2>1
  <2> HIDE DEF r
  <2> QED BY <1>RotateRename, <2>1, <2>2, <2>3, <2>4 DEF RotateRename, StoreTypes
<1>FinishRotation. CASE FinishRotation
  BY <1>FinishRotation DEF FinishRotation, StoreTypes, Key
<1>KillRotation. CASE KillRotation
  BY <1>KillRotation DEF KillRotation, StoreTypes, Key
<1>Reconfigure. ASSUME NEW p \in Posture, Reconfigure(p)
      PROVE  StoreTypes'
  BY <1>Reconfigure DEF Reconfigure, StoreTypes
<1>CopyAside. ASSUME NEW s \in Slot, CopyAside(s)
      PROVE  StoreTypes'
  <2>1. file[s] \in Sealed
    BY <1>CopyAside DEF CopyAside, StoreTypes
  <2>2. file[s].key \in Key
    BY <2>1 DEF Sealed
  <2> QED BY <1>CopyAside, <2>2 DEF CopyAside, StoreTypes
<1>RotateTemp. ASSUME NEW s \in Slot, RotateTemp(s)
      PROVE  StoreTypes'
  BY <1>RotateTemp DEF RotateTemp, StoreTypes
<1>StartImport. ASSUME NEW c \in Cmd, NEW s \in Slot, StartImport(c, s)
      PROVE  StoreTypes'
  BY <1>StartImport, StartMoves DEF StoreTypes
<1>StartRevoke. ASSUME NEW c \in Cmd, NEW s \in Slot, StartRevoke(c, s)
      PROVE  StoreTypes'
  BY <1>StartRevoke, StartMoves DEF StoreTypes
<1>StartLogin. ASSUME NEW c \in Cmd, NEW s \in Slot, StartLogin(c, s)
      PROVE  StoreTypes'
  BY <1>StartLogin, StartMoves DEF StoreTypes
<1>Remove. ASSUME NEW c \in Cmd, Remove(c)
      PROVE  StoreTypes'
  <2>1. cmd[c].slot \in Slot
    BY <1>Remove DEF Remove, Cmds, CmdShape
  <2> QED BY <1>Remove, <2>1 DEF Remove, StoreTypes
<1>TryDirect. ASSUME NEW c \in Cmd, TryDirect(c)
      PROVE  StoreTypes'
  BY <1>TryDirect DEF TryDirect, StoreTypes
<1>TryPinned. ASSUME NEW c \in Cmd, TryPinned(c)
      PROVE  StoreTypes'
  BY <1>TryPinned DEF TryPinned, StoreTypes
<1>AssistedLogin. ASSUME NEW c \in Cmd, AssistedLogin(c)
      PROVE  StoreTypes'
  BY <1>AssistedLogin DEF AssistedLogin, StoreTypes
<1>SecondFactor. ASSUME NEW c \in Cmd, SecondFactor(c)
      PROVE  StoreTypes'
  BY <1>SecondFactor DEF SecondFactor, StoreTypes
<1>CloseCaptured. ASSUME NEW c \in Cmd, CloseCaptured(c)
      PROVE  StoreTypes'
  BY <1>CloseCaptured DEF CloseCaptured, StoreTypes
<1>WriteTemp. ASSUME NEW c \in Cmd, WriteTemp(c)
      PROVE  StoreTypes'
  BY <1>WriteTemp DEF WriteTemp, StoreTypes
<1>Rename. ASSUME NEW c \in Cmd, Rename(c)
      PROVE  StoreTypes'
  <2> DEFINE r == sealJson(cmd[c].value, cmd[c].kek)
  <2>1. /\ cmd[c].slot \in Slot /\ cmd[c].value \in Login /\ cmd[c].kek \in Key
    BY <1>Rename DEF Rename, Cmds, CmdShape, StoreTypes
  <2>2. r \in Sealed
    BY <2>1 DEF sealJson, Sealed
  <2>3. file' = [file EXCEPT ![cmd[c].slot] = r]
    BY <1>Rename DEF Rename
  <2> HIDE DEF r
  <2> QED BY <1>Rename, <2>1, <2>2, <2>3 DEF Rename, StoreTypes
<1>Verify. ASSUME NEW c \in Cmd, Verify(c)
      PROVE  StoreTypes'
  BY <1>Verify DEF Verify, StoreTypes
<1>KillCommand. ASSUME NEW c \in Cmd, KillCommand(c)
      PROVE  StoreTypes'
  <2>1. cmd[c].kek \in Key
    BY <1>KillCommand DEF KillCommand, Cmds, CmdShape, StoreTypes
  <2> QED BY <1>KillCommand, <2>1 DEF KillCommand, StoreTypes
<1>stutter. CASE UNCHANGED vaultVars
  BY <1>stutter DEF vaultVars, StoreTypes
<1> QED BY <1>BootGateway, <1>StopContainer, <1>InstallKey, <1>Tidy,
     <1>StartRotation, <1>RotateRename, <1>FinishRotation, <1>KillRotation,
     <1>Reconfigure, <1>CopyAside, <1>RotateTemp, <1>StartImport,
     <1>StartRevoke, <1>StartLogin, <1>Remove, <1>TryDirect, <1>TryPinned,
     <1>AssistedLogin, <1>SecondFactor, <1>CloseCaptured, <1>WriteTemp,
     <1>Rename, <1>Verify, <1>KillCommand, <1>stutter DEF VaultNext

\* Every step leaves a rotation alone with the directory.
LEMMA AloneStep ==
    ASSUME Vault, [VaultNext]_vaultVars
    PROVE  RotTypes' /\ Alone'
<1> StoreTypes /\ CmdTypes /\ RotTypes /\ Cmds /\ Alone
  BY DEF Vault, VaultTypes
<1>BootGateway. CASE BootGateway
  <2>1. rot' = rot /\ (rot.pc # "idle" => UNCHANGED <<file, temp, stray, keyFile, gw>>)
    BY <1>BootGateway DEF BootGateway, Alone, Cmds, CmdShape
  <2> QED BY <2>1 DEF RotTypes, Alone
<1>StopContainer. CASE StopContainer
  <2>1. rot' = rot /\ (rot.pc # "idle" => UNCHANGED <<file, temp, stray, keyFile, gw>>)
    BY <1>StopContainer DEF StopContainer, Alone, Cmds, CmdShape
  <2> QED BY <2>1 DEF RotTypes, Alone
<1>InstallKey. CASE InstallKey
  <2>1. rot' = rot /\ (rot.pc # "idle" => UNCHANGED <<file, temp, stray, keyFile, gw>>)
    BY <1>InstallKey DEF InstallKey, Alone, Cmds, CmdShape
  <2> QED BY <2>1 DEF RotTypes, Alone
<1>Tidy. CASE Tidy
  <2>1. rot' = rot /\ (rot.pc # "idle" => UNCHANGED <<file, temp, stray, keyFile, gw>>)
    BY <1>Tidy DEF Tidy, Alone, Cmds, CmdShape
  <2> QED BY <2>1 DEF RotTypes, Alone
<1>StartRotation. CASE StartRotation
  <2> DEFINE L == {<<s, file[s].value>> : s \in Entries}
  <2>1. \A s \in Entries : s \in Slot /\ file[s] # NoFile /\ file[s].value \in Login
    BY DEF Entries, StoreTypes, Sealed
  <2>2. L \in SUBSET (Slot \X Login)
    BY <2>1
  <2>3. \A e \in L : file[e[1]] # NoFile /\ e[2] = file[e[1]].value
    BY <2>1
  <2>4. rot' = [pc |-> "write", left |-> L, at |-> None]
    BY <1>StartRotation DEF StartRotation, IdleRotation
  <2> HIDE DEF L
  <2>5. RotTypes' /\ rot'.pc = "write" /\ rot'.left = L
    BY <2>2, <2>4 DEF RotTypes, RotState
  <2> QED BY <1>StartRotation, <2>3, <2>5 DEF StartRotation, Alone, rotationRefuses
<1>RotateRename. CASE RotateRename
  <2>1. PICK e \in rot.left :
             /\ e[1] = rot.at
             /\ file' = [file EXCEPT ![rot.at] = sealJson(e[2], "new")]
             /\ rot' = [pc |-> "write", left |-> rot.left \ {e}, at |-> None]
    BY <1>RotateRename DEF RotateRename
  <2>2. RotTypes' /\ rot'.pc = "write" /\ rot'.left = rot.left \ {e}
    BY <2>1 DEF RotTypes, RotState
  <2>3. \A f \in rot.left : f[1] \in Slot /\ f = <<f[1], f[2]>>
    BY DEF RotTypes, RotState
  <2>4. ASSUME NEW f \in rot.left, f # e PROVE f[1] # e[1]
    BY <2>3, <2>4 DEF Alone
  <2>5. \A f \in rot'.left : file'[f[1]] = file[f[1]]
    BY <2>1, <2>2, <2>3, <2>4 DEF StoreTypes
  <2> QED BY <1>RotateRename, <2>2, <2>5 DEF RotateRename, Alone
<1>FinishRotation. CASE FinishRotation
  <2>1. RotTypes' /\ rot'.pc = "idle" /\ rot'.left = {}
    BY <1>FinishRotation DEF FinishRotation, IdleRotation, RotTypes, RotState
  <2> QED BY <2>1 DEF Alone
<1>KillRotation. CASE KillRotation
  <2>1. RotTypes' /\ rot'.pc = "idle" /\ rot'.left = {}
    BY <1>KillRotation DEF KillRotation, IdleRotation, RotTypes, RotState
  <2> QED BY <2>1 DEF Alone
<1>Reconfigure. ASSUME NEW p \in Posture, Reconfigure(p)
      PROVE  RotTypes' /\ Alone'
  <2>1. UNCHANGED <<rot, file, temp, stray, keyFile, gw>>
    BY <1>Reconfigure DEF Reconfigure
  <2> QED BY <2>1 DEF RotTypes, Alone
<1>CopyAside. ASSUME NEW s \in Slot, CopyAside(s)
      PROVE  RotTypes' /\ Alone'
  <2>1. rot' = rot /\ (rot.pc # "idle" => UNCHANGED <<file, temp, stray, keyFile, gw>>)
    BY <1>CopyAside DEF CopyAside, Alone, Cmds, CmdShape
  <2> QED BY <2>1 DEF RotTypes, Alone
<1>RotateTemp. ASSUME NEW s \in Slot, RotateTemp(s)
      PROVE  RotTypes' /\ Alone'
  <2>1. RotTypes' /\ rot'.pc = "rename" /\ rot'.left = rot.left
    BY <1>RotateTemp DEF RotateTemp, RotTypes, RotState
  <2> QED BY <1>RotateTemp, <2>1 DEF RotateTemp, Alone
<1>StartImport. ASSUME NEW c \in Cmd, NEW s \in Slot, StartImport(c, s)
      PROVE  RotTypes' /\ Alone'
  <2>1. rot' = rot /\ (rot.pc # "idle" => UNCHANGED <<file, temp, stray, keyFile, gw>>)
    BY <1>StartImport, StartMoves DEF Alone, Cmds, CmdShape
  <2> QED BY <2>1 DEF RotTypes, Alone
<1>StartRevoke. ASSUME NEW c \in Cmd, NEW s \in Slot, StartRevoke(c, s)
      PROVE  RotTypes' /\ Alone'
  <2>1. rot' = rot /\ (rot.pc # "idle" => UNCHANGED <<file, temp, stray, keyFile, gw>>)
    BY <1>StartRevoke, StartMoves DEF Alone, Cmds, CmdShape
  <2> QED BY <2>1 DEF RotTypes, Alone
<1>StartLogin. ASSUME NEW c \in Cmd, NEW s \in Slot, StartLogin(c, s)
      PROVE  RotTypes' /\ Alone'
  <2>1. rot' = rot /\ (rot.pc # "idle" => UNCHANGED <<file, temp, stray, keyFile, gw>>)
    BY <1>StartLogin, StartMoves DEF Alone, Cmds, CmdShape
  <2> QED BY <2>1 DEF RotTypes, Alone
<1>Remove. ASSUME NEW c \in Cmd, Remove(c)
      PROVE  RotTypes' /\ Alone'
  <2>1. rot' = rot /\ (rot.pc # "idle" => UNCHANGED <<file, temp, stray, keyFile, gw>>)
    BY <1>Remove DEF Remove, Alone, Cmds, CmdShape
  <2> QED BY <2>1 DEF RotTypes, Alone
<1>TryDirect. ASSUME NEW c \in Cmd, TryDirect(c)
      PROVE  RotTypes' /\ Alone'
  <2>1. rot' = rot /\ (rot.pc # "idle" => UNCHANGED <<file, temp, stray, keyFile, gw>>)
    BY <1>TryDirect DEF TryDirect, Alone, Cmds, CmdShape
  <2> QED BY <2>1 DEF RotTypes, Alone
<1>TryPinned. ASSUME NEW c \in Cmd, TryPinned(c)
      PROVE  RotTypes' /\ Alone'
  <2>1. rot' = rot /\ (rot.pc # "idle" => UNCHANGED <<file, temp, stray, keyFile, gw>>)
    BY <1>TryPinned DEF TryPinned, Alone, Cmds, CmdShape
  <2> QED BY <2>1 DEF RotTypes, Alone
<1>AssistedLogin. ASSUME NEW c \in Cmd, AssistedLogin(c)
      PROVE  RotTypes' /\ Alone'
  <2>1. rot' = rot /\ (rot.pc # "idle" => UNCHANGED <<file, temp, stray, keyFile, gw>>)
    BY <1>AssistedLogin DEF AssistedLogin, Alone, Cmds, CmdShape
  <2> QED BY <2>1 DEF RotTypes, Alone
<1>SecondFactor. ASSUME NEW c \in Cmd, SecondFactor(c)
      PROVE  RotTypes' /\ Alone'
  <2>1. rot' = rot /\ (rot.pc # "idle" => UNCHANGED <<file, temp, stray, keyFile, gw>>)
    BY <1>SecondFactor DEF SecondFactor, Alone, Cmds, CmdShape
  <2> QED BY <2>1 DEF RotTypes, Alone
<1>CloseCaptured. ASSUME NEW c \in Cmd, CloseCaptured(c)
      PROVE  RotTypes' /\ Alone'
  <2>1. rot' = rot /\ (rot.pc # "idle" => UNCHANGED <<file, temp, stray, keyFile, gw>>)
    BY <1>CloseCaptured DEF CloseCaptured, Alone, Cmds, CmdShape
  <2> QED BY <2>1 DEF RotTypes, Alone
<1>WriteTemp. ASSUME NEW c \in Cmd, WriteTemp(c)
      PROVE  RotTypes' /\ Alone'
  <2>1. rot' = rot /\ (rot.pc # "idle" => UNCHANGED <<file, temp, stray, keyFile, gw>>)
    BY <1>WriteTemp DEF WriteTemp, Alone, Cmds, CmdShape
  <2> QED BY <2>1 DEF RotTypes, Alone
<1>Rename. ASSUME NEW c \in Cmd, Rename(c)
      PROVE  RotTypes' /\ Alone'
  <2>1. rot' = rot /\ (rot.pc # "idle" => UNCHANGED <<file, temp, stray, keyFile, gw>>)
    BY <1>Rename DEF Rename, Alone, Cmds, CmdShape
  <2> QED BY <2>1 DEF RotTypes, Alone
<1>Verify. ASSUME NEW c \in Cmd, Verify(c)
      PROVE  RotTypes' /\ Alone'
  <2>1. rot' = rot /\ (rot.pc # "idle" => UNCHANGED <<file, temp, stray, keyFile, gw>>)
    BY <1>Verify DEF Verify, Alone, Cmds, CmdShape
  <2> QED BY <2>1 DEF RotTypes, Alone
<1>KillCommand. ASSUME NEW c \in Cmd, KillCommand(c)
      PROVE  RotTypes' /\ Alone'
  <2>1. rot' = rot /\ (rot.pc # "idle" => UNCHANGED <<file, temp, stray, keyFile, gw>>)
    BY <1>KillCommand DEF KillCommand, Alone, Cmds, CmdShape
  <2> QED BY <2>1 DEF RotTypes, Alone
<1>stutter. CASE UNCHANGED vaultVars
  BY <1>stutter DEF vaultVars, RotTypes, Alone
<1> QED BY <1>BootGateway, <1>StopContainer, <1>InstallKey, <1>Tidy,
     <1>StartRotation, <1>RotateRename, <1>FinishRotation, <1>KillRotation,
     <1>Reconfigure, <1>CopyAside, <1>RotateTemp, <1>StartImport,
     <1>StartRevoke, <1>StartLogin, <1>Remove, <1>TryDirect, <1>TryPinned,
     <1>AssistedLogin, <1>SecondFactor, <1>CloseCaptured, <1>WriteTemp,
     <1>Rename, <1>Verify, <1>KillCommand, <1>stutter DEF VaultNext

\* What the entries promise; as one conjunction for the steps below.
Stored == EntriesSurvive /\ OldKeyGone /\ HonestEntries

LEMMA StoredKept ==
    ASSUME Stored, UNCHANGED <<file, kept, temp, stray, keyFile, rot>>
    PROVE  Stored'
BY DEF Stored, EntriesSurvive, OldKeyGone, HonestEntries, Entries, Honest

\* Every step keeps what the entries promise.
LEMMA StoredStep ==
    ASSUME Vault, [VaultNext]_vaultVars
    PROVE  Stored'
<1> StoreTypes /\ CmdTypes /\ RotTypes /\ Cmds /\ Alone /\ Stored
  BY DEF Vault, VaultTypes, Stored
<1>BootGateway. CASE BootGateway
  BY <1>BootGateway, StoredKept DEF BootGateway
<1>StopContainer. CASE StopContainer
  <2>1. \A d \in Cmd : cmd[d].pc = "rename" => cmd[d].kek = keyFile
    BY DEF Cmds, CmdShape
  <2>2. keyFile = "new" => "old" \notin temp'
    BY <1>StopContainer, <2>1 DEF StopContainer, OldKeyGone, Stored
  <2>3. UNCHANGED <<file, kept, stray, keyFile, rot>>
    BY <1>StopContainer DEF StopContainer
  <2> QED BY <2>2, <2>3 DEF EntriesSurvive, OldKeyGone, HonestEntries, Entries, Honest, Stored
<1>InstallKey. CASE InstallKey
  <2>1. keyFile' = "old" /\ UNCHANGED <<file, kept, temp, stray, rot>>
    BY <1>InstallKey DEF InstallKey
  <2> QED BY <2>1 DEF EntriesSurvive, OldKeyGone, HonestEntries, Entries, Honest, Stored
<1>Tidy. CASE Tidy
  <2>1. temp' = {} /\ stray' = {} /\ UNCHANGED <<file, kept, keyFile, rot>>
    BY <1>Tidy DEF Tidy
  <2> QED BY <2>1 DEF EntriesSurvive, OldKeyGone, HonestEntries, Entries, Honest, Stored
<1>StartRotation. CASE StartRotation
  <2>1. /\ keyFile = "old" /\ UNCHANGED <<file, kept, temp, stray, keyFile>>
        /\ rot'.left = {<<s, file[s].value>> : s \in Entries}
    BY <1>StartRotation DEF StartRotation, IdleRotation
  <2>2. ASSUME NEW s \in Entries PROVE \E e \in rot'.left : e[1] = s
    <3>1. <<s, file[s].value>> \in rot'.left
      BY <2>1
    <3> QED BY <3>1
  <2> QED BY <2>1, <2>2 DEF EntriesSurvive, OldKeyGone, HonestEntries, Entries, Honest, Stored
<1>RotateRename. CASE RotateRename
  <2>1. PICK e \in rot.left :
             /\ e[1] = rot.at
             /\ file' = [file EXCEPT ![rot.at] = sealJson(e[2], "new")]
             /\ rot' = [pc |-> "write", left |-> rot.left \ {e}, at |-> None]
    BY <1>RotateRename DEF RotateRename
  <2>2. /\ rot.pc # "idle" /\ keyFile = "old"
        /\ UNCHANGED <<kept, temp, stray, keyFile>>
    BY <1>RotateRename DEF RotateRename, Alone
  <2>3. e[1] \in Slot /\ e[2] \in Login /\ rot'.left = rot.left \ {e}
    BY <2>1 DEF RotTypes, RotState
  <2>4. /\ file[e[1]] # NoFile /\ e[2] = file[e[1]].value
    BY DEF Alone
  <2>5. /\ file'[e[1]] \in Sealed /\ file'[e[1]].key = "new"
        /\ file'[e[1]].value = file[e[1]].value
        /\ \A s \in Slot : s # e[1] => file'[s] = file[s]
    BY <2>1, <2>3, <2>4 DEF StoreTypes, sealJson, Sealed, Key
  <2>6. file'[e[1]] # NoFile
    BY <2>5, NoFileApart
  <2>7. EntriesSurvive'
    <3> SUFFICES ASSUME NEW s \in Slot
                 PROVE  /\ kept[s] = NoFile => file'[s] = NoFile
                        /\ kept[s] # NoFile =>
                              /\ file'[s] # NoFile /\ file'[s].value = kept[s]
                              /\ (\A f \in rot'.left : f[1] # s) => file'[s].key = "new"
      BY <2>2 DEF EntriesSurvive
    <3>1. CASE s = e[1]
      BY <2>4, <2>5, <2>6, <3>1 DEF Stored, EntriesSurvive
    <3>2. CASE s # e[1]
      BY <2>2, <2>3, <2>5, <3>2 DEF Stored, EntriesSurvive
    <3> QED BY <3>1, <3>2
  <2>8. HonestEntries'
    BY <2>3, <2>4, <2>5, <2>6 DEF Stored, HonestEntries, Honest, Entries
  <2> QED BY <2>2, <2>7, <2>8 DEF Stored, OldKeyGone
<1>FinishRotation. CASE FinishRotation
  <2>1. /\ rot.pc # "idle" /\ rot.left = {} /\ temp = {} /\ stray = {}
        /\ rot'.pc = "idle" /\ UNCHANGED <<file, kept, temp, stray>>
    BY <1>FinishRotation DEF FinishRotation, Alone, IdleRotation
  <2> QED BY <2>1 DEF EntriesSurvive, OldKeyGone, HonestEntries, Entries, Honest, Stored
<1>KillRotation. CASE KillRotation
  <2>1. /\ rot'.pc = "idle" /\ keyFile = "old"
        /\ UNCHANGED <<file, kept, stray, keyFile>>
    BY <1>KillRotation DEF KillRotation, Alone, IdleRotation
  <2> QED BY <2>1 DEF EntriesSurvive, OldKeyGone, HonestEntries, Entries, Honest, Stored
<1>Reconfigure. ASSUME NEW p \in Posture, Reconfigure(p)
      PROVE  Stored'
  BY <1>Reconfigure, StoredKept DEF Reconfigure
<1>CopyAside. ASSUME NEW s \in Slot, CopyAside(s)
      PROVE  Stored'
  <2>1. keyFile = "new" => "old" \notin stray'
    BY <1>CopyAside DEF CopyAside, OldKeyGone, Entries, Stored
  <2>2. UNCHANGED <<file, kept, temp, keyFile, rot>>
    BY <1>CopyAside DEF CopyAside
  <2> QED BY <2>1, <2>2 DEF EntriesSurvive, OldKeyGone, HonestEntries, Entries, Honest, Stored
<1>RotateTemp. ASSUME NEW s \in Slot, RotateTemp(s)
      PROVE  Stored'
  <2>1. rot.pc # "idle" /\ rot'.left = rot.left
    BY <1>RotateTemp DEF RotateTemp, RotTypes, RotState
  <2>2. UNCHANGED <<file, kept, temp, stray, keyFile>>
    BY <1>RotateTemp DEF RotateTemp
  <2> QED BY <2>1, <2>2 DEF EntriesSurvive, OldKeyGone, HonestEntries, Entries, Honest, Stored
<1>StartImport. ASSUME NEW c \in Cmd, NEW s \in Slot, StartImport(c, s)
      PROVE  Stored'
  BY <1>StartImport, StartMoves, StoredKept
<1>StartRevoke. ASSUME NEW c \in Cmd, NEW s \in Slot, StartRevoke(c, s)
      PROVE  Stored'
  BY <1>StartRevoke, StartMoves, StoredKept
<1>StartLogin. ASSUME NEW c \in Cmd, NEW s \in Slot, StartLogin(c, s)
      PROVE  Stored'
  BY <1>StartLogin, StartMoves, StoredKept
<1>Remove. ASSUME NEW c \in Cmd, Remove(c)
      PROVE  Stored'
  <2>1. /\ cmd[c].slot \in Slot /\ rot.pc = "idle"
        /\ file' = [file EXCEPT ![cmd[c].slot] = NoFile]
        /\ kept' = [kept EXCEPT ![cmd[c].slot] = NoFile]
        /\ UNCHANGED <<temp, stray, keyFile, rot>>
    BY <1>Remove DEF Remove, Cmds, CmdShape, Alone
  <2> QED BY <2>1 DEF StoreTypes, EntriesSurvive, OldKeyGone, HonestEntries, Entries, Honest, Stored
<1>TryDirect. ASSUME NEW c \in Cmd, TryDirect(c)
      PROVE  Stored'
  BY <1>TryDirect, StoredKept DEF TryDirect
<1>TryPinned. ASSUME NEW c \in Cmd, TryPinned(c)
      PROVE  Stored'
  BY <1>TryPinned, StoredKept DEF TryPinned
<1>AssistedLogin. ASSUME NEW c \in Cmd, AssistedLogin(c)
      PROVE  Stored'
  BY <1>AssistedLogin, StoredKept DEF AssistedLogin
<1>SecondFactor. ASSUME NEW c \in Cmd, SecondFactor(c)
      PROVE  Stored'
  BY <1>SecondFactor, StoredKept DEF SecondFactor
<1>CloseCaptured. ASSUME NEW c \in Cmd, CloseCaptured(c)
      PROVE  Stored'
  BY <1>CloseCaptured, StoredKept DEF CloseCaptured
<1>WriteTemp. ASSUME NEW c \in Cmd, WriteTemp(c)
      PROVE  Stored'
  BY <1>WriteTemp, StoredKept DEF WriteTemp
<1>Rename. ASSUME NEW c \in Cmd, Rename(c)
      PROVE  Stored'
  <2> DEFINE t == cmd[c].slot
             r == sealJson(cmd[c].value, cmd[c].kek)
             v == cmd[c].value
  <2>1. /\ t \in Slot /\ rot.pc = "idle" /\ v \in Login /\ Honest(v)
        /\ cmd[c].kek = keyFile /\ keyFile \in Key
    BY <1>Rename DEF Rename, Cmds, CmdShape, Alone, StoreTypes
  <2>2. r \in Sealed /\ r.key = keyFile /\ r.value = v
    BY <2>1 DEF sealJson, Sealed
  <2>3. r # NoFile /\ v # NoFile
    BY <2>1, <2>2, NoFileApart
  <2>4. /\ file' = [file EXCEPT ![t] = r] /\ kept' = [kept EXCEPT ![t] = v]
        /\ UNCHANGED <<temp, stray, keyFile, rot>>
    BY <1>Rename DEF Rename
  <2> HIDE DEF t, r, v
  <2>5. /\ file'[t] = r /\ kept'[t] = v
        /\ \A s \in Slot : s # t => file'[s] = file[s] /\ kept'[s] = kept[s]
    BY <2>1, <2>4 DEF StoreTypes
  <2>6. EntriesSurvive'
    BY <2>1, <2>2, <2>3, <2>4, <2>5 DEF Stored, EntriesSurvive
  <2>7. HonestEntries'
    BY <2>1, <2>2, <2>5 DEF Stored, HonestEntries, Honest, Entries
  <2>8. OldKeyGone'
    BY <2>1, <2>2, <2>4, <2>5 DEF Stored, OldKeyGone, Entries
  <2> QED BY <2>6, <2>7, <2>8 DEF Stored
<1>Verify. ASSUME NEW c \in Cmd, Verify(c)
      PROVE  Stored'
  BY <1>Verify, StoredKept DEF Verify
<1>KillCommand. ASSUME NEW c \in Cmd, KillCommand(c)
      PROVE  Stored'
  <2>1. cmd[c].kek = keyFile
    BY <1>KillCommand DEF KillCommand, Cmds, CmdShape
  <2>2. keyFile = "new" => "old" \notin temp'
    BY <1>KillCommand, <2>1 DEF KillCommand, OldKeyGone, Stored
  <2>3. UNCHANGED <<file, kept, stray, keyFile, rot>>
    BY <1>KillCommand DEF KillCommand
  <2> QED BY <2>2, <2>3 DEF EntriesSurvive, OldKeyGone, HonestEntries, Entries, Honest, Stored
<1>stutter. CASE UNCHANGED vaultVars
  BY <1>stutter, StoredKept DEF vaultVars
<1> QED BY <1>BootGateway, <1>StopContainer, <1>InstallKey, <1>Tidy,
     <1>StartRotation, <1>RotateRename, <1>FinishRotation, <1>KillRotation,
     <1>Reconfigure, <1>CopyAside, <1>RotateTemp, <1>StartImport,
     <1>StartRevoke, <1>StartLogin, <1>Remove, <1>TryDirect, <1>TryPinned,
     <1>AssistedLogin, <1>SecondFactor, <1>CloseCaptured, <1>WriteTemp,
     <1>Rename, <1>Verify, <1>KillCommand, <1>stutter DEF VaultNext

LEMMA VaultStep == Vault /\ [VaultNext]_vaultVars => Vault'
BY CmdsStep, StoreTypesStep, AloneStep, StoredStep DEF Vault, VaultTypes, Stored

-----------------------------------------------------------------------------
(* The theorems. *)

OpsInv == Vault /\ Host /\ Storm /\ Ours

LEMMA VaultStarts == VaultInit => Vault
<1> SUFFICES ASSUME VaultInit PROVE Vault
  OBVIOUS
<1> USE DEF VaultInit
<1>1. VaultTypes
  BY IdleType DEF VaultTypes, StoreTypes, CmdTypes, RotTypes, RotState, IdleRotation,
     Key, None
<1>2. Cmds /\ Alone
  BY DEF Cmds, CmdShape, IdleCmd, Alone, IdleRotation
<1>3. EntriesSurvive /\ OldKeyGone /\ HonestEntries
  BY DEF EntriesSurvive, OldKeyGone, HonestEntries, Entries, IdleRotation, None
<1> QED BY <1>1, <1>2, <1>3 DEF Vault

LEMMA HostStarts == DeployInit => Host
<1> SUFFICES ASSUME DeployInit PROVE Host
  OBVIOUS
<1> DEFINE c1 == CHOOSE c \in Consumer : TRUE
           e1 == [c \in Consumer |-> IF c = c1 THEN 1 ELSE 0]
           l1 == [image |-> First, env |-> e1, reg |-> {<<c1, 1>>},
                  state |-> "serving", restarts |-> 0]
<1>1. c1 \in Consumer
  BY DeployAssumption
<1>2. e1 \in [Consumer -> Nat]
  OBVIOUS
<1>3. /\ manifest = {c1} /\ env = e1 /\ minted = 1 /\ touched = FALSE /\ revoked = {}
      /\ live = l1 /\ deploy = IdleDeploy /\ keys = IdleKeys
      /\ smoke = NoSmoke /\ script = [u \in Smoker |-> IdleScript]
  BY DEF DeployInit
<1> HIDE DEF c1, e1
<1>4. l1 \in LiveState
  BY <1>1, <1>2, DeployAssumption DEF LiveState
<1>5. HostTypes
  <2>1. SmokeTypes
    BY <1>3, IdleScriptType DEF SmokeTypes
  <2> QED
    BY <1>1, <1>2, <1>3, <1>4, <2>1, IdleDeployType, IdleKeysType
       DEF HostTypes, FileTypes, LiveTypes, DeployTypes, KeysTypes
<1>6. Copies /\ Smoked /\ Applied /\ Barred
  BY <1>3, IdleDeployType, IdleKeysType DEF Copies, Smoked, Applied, Barred
<1>7. Scripts
  BY <1>3, IdleScriptType DEF Scripts, SmokeHolds, Smoker
<1> QED BY <1>5, <1>6, <1>7 DEF Host

LEMMA WorkStarts == WorkInit => Storm /\ Ours
<1> SUFFICES ASSUME WorkInit PROVE Storm /\ Ours
  OBVIOUS
<1>1. Storm
  BY WorkstationAssumption DEF WorkInit, Storm
<1>2. Ours
  BY IdleChecked DEF WorkInit, Ours, IdleCheck
<1> QED BY <1>1, <1>2

\* A step of the operations is a step of each system, or leaves it alone.
LEMMA EachSteps ==
    [OpsNext]_opsVars => /\ [VaultNext]_vaultVars /\ [DeployNext]_deployVars
                         /\ [WorkNext]_workVars
BY DEF OpsNext, opsVars, vaultVars, deployVars, workVars

\* The whole invariant, from the start and by every step.
THEOREM OpsInvHolds == OpsSpec => []OpsInv
<1>1. OpsInit => OpsInv
  BY VaultStarts, HostStarts, WorkStarts DEF OpsInit, OpsInv
<1>2. OpsInv /\ [OpsNext]_opsVars => OpsInv'
  BY EachSteps, VaultStep, HostStep, StormStep, OursStep DEF OpsInv
<1> QED BY <1>1, <1>2, PTL DEF OpsSpec

\* Every slot of the vault holds exactly the last login published for it and
\* not revoked since (vault-store.ts), whichever commands and rotations were
\* killed between their temporary and their rename.
THEOREM LoginsSurvive == OpsSpec => []EntriesSurvive
<1>1. OpsInv => EntriesSurvive
  BY DEF OpsInv, Vault
<1> QED BY <1>1, OpsInvHolds, PTL

\* rotateVault: after the rotation nothing in the directory opens under the
\* old key, temporaries and copies included.
THEOREM RotationComplete == OpsSpec => []OldKeyGone
<1>1. OpsInv => OldKeyGone
  BY DEF OpsInv, Vault
<1> QED BY <1>1, OpsInvHolds, PTL

\* buildWarmOverride leaves from the exit the login was captured on, whatever
\* the proxy settings became.
THEOREM WarmExitHeld == OpsSpec => []WarmFromLoginExit
<1>1. OpsInv => WarmFromLoginExit
  <2> SUFFICES ASSUME OpsInv, NEW s \in Slot, gw.up, gw.kek # None, ~posture.freshExit,
                      "exit" \in DOMAIN buildWarmOverride(s),
                      file[s].value.via # Rotating
               PROVE  buildWarmOverride(s).exit = file[s].value.via
    BY DEF WarmFromLoginExit
  <2> DEFINE bound == file[s].value.exit
             held == verifiedHeldExit(posture, bound)
  <2>1. /\ buildWarmOverride(s) # [refused |-> TRUE]
    <3>1. "exit" \notin DOMAIN [refused |-> TRUE]
      OBVIOUS
    <3> QED BY <3>1
  <2>2. file[s] # NoFile
    BY <2>1 DEF buildWarmOverride
  <2>3. file[s].value.via = bound
    BY <2>2 DEF OpsInv, Vault, HonestEntries, Honest, Entries
  <2>4. CASE bound = NoExit
    BY <2>1, <2>3, <2>4 DEF buildWarmOverride
  <2>5. CASE bound # NoExit
    <3>1. buildWarmOverride(s) = [exit |-> held] /\ held # NoExit
      BY <2>1, <2>5 DEF buildWarmOverride
    <3>2. held = bound
      BY <3>1 DEF verifiedHeldExit
    <3> QED BY <2>3, <3>1, <3>2
  <2> QED BY <2>4, <2>5
<1> QED BY <1>1, OpsInvHolds, PTL

\* preswap-smoke.sh: a container that a deploy or a keys --apply put live after
\* a passed smoke fails to boot only if the other command's smoke took its
\* place under the shared name while it polled, or, for a deploy, if the files
\* were written after its smoke began.
THEOREM SmokeMeansBoot == OpsSpec => []SmokedConfigBoots
<1>1. OpsInv => SmokedConfigBoots
  BY DEF OpsInv, Host, HostTypes, FileTypes, DeployTypes, DeployState, KeysTypes, KeysState,
     Smoked, Applied, SmokedConfigBoots, DeployAt, KeysAt
<1> QED BY <1>1, OpsInvHolds, PTL

\* keys.ts: a container that boots does not accept a revoked token, whatever
\* env file it was created with.
THEOREM RevocationHolds == OpsSpec => RevokedStaysOut
<1> DEFINE A == live # NoLive /\ live' # NoLive /\ live.state = "booting"
                /\ live'.state = "serving" => live'.reg \cap revoked = {}
<1>1. OpsInv /\ [OpsNext]_opsVars => [A]_deployVars
  <2> SUFFICES ASSUME OpsInv, [DeployNext]_deployVars, live # NoLive, live' # NoLive,
                      live.state = "booting", live'.state = "serving"
               PROVE  live'.reg \cap revoked = {}
    BY EachSteps
  <2>1. live \in LiveState
    BY DEF OpsInv, Host, HostTypes, LiveTypes
  <2>2. CASE BootLive
    <3>1. live' = [live EXCEPT !.state = "serving",
                               !.reg = {<<c, live.env[c]>> : c \in manifest}]
      <4>1. CASE live' = [live EXCEPT !.state = "crashed"]
        BY <2>1, <4>1 DEF LiveState
      <4> QED BY <2>2, <4>1 DEF BootLive
    <3>2. live'.reg = {<<c, live.env[c]>> : c \in manifest}
      BY <2>1, <3>1 DEF LiveState
    <3> QED BY <3>2 DEF OpsInv, Host, Barred
  <2>3. CASE RestartLive
    BY <2>3 DEF RestartLive
  <2>4. CASE live' = live
    BY <2>4
  <2>5. ASSUME NEW i, NEW e, live' = Created(i, e) PROVE FALSE
    BY <2>5 DEF Created
  <2>6. CASE Swap \/ Rollback
    BY <2>4, <2>5, <2>6 DEF Swap, Rollback, LaunchReads, Launches
  <2>7. CASE ApplyRecreate
    BY <2>5, <2>7 DEF ApplyRecreate
  <2>8. CASE \/ RunGate \/ RunSmoke \/ CaptureAnchor \/ VerifySwap \/ Retain \/ KillDeploy
             \/ \E i \in Image : StartDeploy(i)
    BY <2>4, <2>8 DEF StartDeploy, RunGate, RunSmoke, CaptureAnchor, VerifySwap, Retain, KillDeploy
  <2>9. CASE \/ WriteFiles \/ WriteKeychain \/ ApplySmoke \/ ApplyProbe \/ KillKeys
             \/ \E id \in Consumer, apply \in BOOLEAN :
                   KeysRevoke(id, apply) \/ \E sized \in BOOLEAN : KeysNew(id, apply, sized)
    BY <2>4, <2>9 DEF KeysNew, KeysRevoke, Starts, WriteFiles, WriteKeychain, ApplySmoke,
       ApplyProbe, KillKeys, Other
  <2>10. CASE \/ BootSmoke
              \/ \E u \in Smoker : StartSmoke(u) \/ LaunchSmoke(u) \/ JudgeSmoke(u)
    BY <2>4, <2>10 DEF BootSmoke, StartSmoke, LaunchSmoke, JudgeSmoke
  <2> QED BY <2>2, <2>3, <2>4, <2>6, <2>7, <2>8, <2>9, <2>10 DEF DeployNext, deployVars
<1> QED BY <1>1, OpsInvHolds, PTL DEF OpsSpec, RevokedStaysOut

\* The keeper script disables itself after MaxFails fast failures in a row at
\* the latest, whatever count earlier runs left.
THEOREM KeeperGivesUp == OpsSpec => []StormBounded
<1>1. OpsInv => StormBounded
  BY WorkstationAssumption DEF OpsInv, Storm, StormBounded
<1> QED BY <1>1, OpsInvHolds, PTL

\* status calls the gateway healthy only if the port was our tunnel's after
\* the answer it relies on.
THEOREM StatusIsOurs == OpsSpec => []HealthyIsOurs
<1>1. OpsInv => HealthyIsOurs
  BY DEF OpsInv, Ours, HealthyIsOurs, reportsHealthy, CheckAt
<1> QED BY <1>1, OpsInvHolds, PTL
=============================================================================
