----------------------------- MODULE Deployment -----------------------------
(***************************************************************************)
(* The production host: its consumer manifest and env file, the live       *)
(* container, the deploy of scripts/deploy/ (deploy-on-host.sh,            *)
(* preswap-smoke.sh, launch-http.sh) and the keys command of cli/keys.ts,  *)
(* which edits the files and may re-create the container.  A deploy and a  *)
(* keys command run at the same time, over the same files and the same     *)
(* container name, and either may be killed between two steps.  Both smoke *)
(* what they are about to launch in a throwaway container, which has one   *)
(* name and one port for everybody.  A container sees the env file as it   *)
(* was when it was created, and the manifest, mounted, as it is each time  *)
(* its process boots.                                                      *)
(***************************************************************************)
EXTENDS Integers, FiniteSets

CONSTANTS
    Consumer,      \* consumer ids (with distinct token variables)
    Image,         \* images of the expected repository
    Kind,          \* of each image: "good" or "fails-boot"
    First,         \* the image running at the start
    MaxConsumers,  \* consumers the pool sizing admits (poolSizingError)
    MaxMint        \* bound: tokens minted

ASSUME DeployAssumption ==
    /\ First \in Image /\ Consumer # {}
    /\ Kind \in [Image -> {"good", "fails-boot"}]
    /\ MaxConsumers \in Nat \ {0} /\ MaxMint \in Nat

VARIABLES
    manifest,   \* consumers.json: the ids
    env,        \* token of each id in the env file, 0 when there is no line
    minted,     \* tokens minted so far
    touched,    \* history: the files were written since the deploy's smoke began
    revoked,    \* history: <<id, token>> revoked and the id not minted again since
    images,     \* images on the host
    live,       \* the container, NoLive when there is none
    deploy,     \* the deploy under way
    keys,       \* the keys command under way
    smoke,      \* the throwaway container, NoSmoke when there is none
    script      \* the run of preswap-smoke.sh of either command

smokeVars == <<smoke, script>>
deployVars == <<manifest, env, minted, touched, revoked, images, live, deploy, keys, smokeVars>>
files == <<manifest, env, minted, touched, revoked>>

NoLive == [none |-> TRUE]
\* crossed, history: the other command replaced the smoke's container while it polled.
IdleDeploy == [pc |-> "idle", image |-> First, anchor |-> "none", env |-> <<>>, crossed |-> FALSE]
NoSmoke == [none |-> TRUE]
Smoker == {"deploy", "keys"}
IdleScript == [pc |-> "idle", image |-> First, env |-> <<>>, crossed |-> FALSE]
\* image, history: the image that its smoke passed.
IdleKeys ==
    [pc |-> "idle", op |-> "none", id |-> "none", apply |-> FALSE, entries |-> {}, env |-> <<>>,
     image |-> "none", crossed |-> FALSE]

\* buildConsumerSpecs and poolSizingError: what boot makes of the two files.
Bootable(m, e) ==
    m # {} /\ (\A c \in m : e[c] # 0) /\ Cardinality(m) <= MaxConsumers
Boots(image, m, e) == Kind[image] # "fails-boot" /\ Bootable(m, e)

\* The host starts with one consumer served by the first image.
DeployInit ==
    LET c1 == CHOOSE c \in Consumer : TRUE
        e1 == [c \in Consumer |-> IF c = c1 THEN 1 ELSE 0]
    IN  /\ manifest = {c1} /\ env = e1
        /\ minted = 1 /\ touched = FALSE /\ revoked = {} /\ images = {First}
        /\ live = [image |-> First, env |-> e1, reg |-> {<<c1, 1>>}, state |-> "serving", restarts |-> 0]
        /\ deploy = IdleDeploy /\ keys = IdleKeys
        /\ smoke = NoSmoke /\ script = [u \in Smoker |-> IdleScript]

(***************************************************************************)
(* The container.                                                          *)
(***************************************************************************)
Created(image, e) ==
    [image |-> image, env |-> e, reg |-> {}, state |-> "booting", restarts |-> 0]

BootLive ==
    /\ live # NoLive /\ live.state = "booting"
    /\ live' = IF Boots(live.image, manifest, live.env)
               THEN [live EXCEPT !.state = "serving", !.reg = {<<c, live.env[c]>> : c \in manifest}]
               ELSE [live EXCEPT !.state = "crashed"]
    /\ UNCHANGED <<files, images, deploy, keys, smokeVars>>

\* --restart unless-stopped: a process that died is started again as it was created.
RestartLive ==
    /\ live # NoLive /\ live.state \in {"crashed", "serving"}
    /\ live' = [live EXCEPT !.state = "booting", !.reg = {}, !.restarts = 1]
    /\ UNCHANGED <<files, images, deploy, keys, smokeVars>>

(***************************************************************************)
(* preswap-smoke.sh, run by a deploy on the new image and by keys --apply  *)
(* on the image of the live container.  It finds its container by name and *)
(* port, whoever put it there.                                             *)
(***************************************************************************)
ScriptTo(u, pc) == script' = [script EXCEPT ![u].pc = pc]
Smokes(u) == IF u = "deploy" THEN deploy.pc = "smoke" ELSE keys.pc = "smoke" /\ live # NoLive

\* rm -f of a stale container; then launch-http.sh sources the env file.
StartSmoke(u) ==
    /\ Smokes(u) /\ script[u].pc = "idle"
    /\ smoke' = NoSmoke
    /\ script' = [script EXCEPT ![u] =
         [pc |-> "launch", image |-> IF u = "deploy" THEN deploy.image ELSE live.image, env |-> env,
          crossed |-> FALSE]]
    /\ touched' = (u # "deploy" /\ touched)
    /\ UNCHANGED <<manifest, env, minted, revoked, images, live, deploy, keys>>

Smoking(u) == [image |-> script[u].image, env |-> script[u].env, state |-> "booting"]

\* Fault: a launch that failed goes unnoticed.
RefusedUnnoticed(u) == ScriptTo(u, "poll") /\ smoke' \in {smoke, NoSmoke}

\* docker refuses: the other command took the name first, or anything else.
Refused(u) == ScriptTo(u, "failed") /\ smoke' \in {smoke, NoSmoke}

\* launch-http.sh retires what has the name and runs the throwaway container.
LaunchSmoke(u) ==
    /\ script[u].pc = "launch"
    /\ \/ /\ smoke' = Smoking(u)
          /\ script' = [v \in Smoker |-> IF v = u THEN [script[v] EXCEPT !.pc = "poll"]
                                        ELSE [script[v] EXCEPT !.crossed = @ \/ script[v].pc = "poll"]]
       \/ Refused(u)
    /\ UNCHANGED <<files, images, live, deploy, keys>>

\* --restart no: it boots once.
BootSmoke ==
    /\ smoke # NoSmoke /\ smoke.state = "booting"
    /\ smoke' = [smoke EXCEPT !.state = IF Boots(smoke.image, manifest, smoke.env) THEN "serving" ELSE "crashed"]
    /\ UNCHANGED <<files, images, live, deploy, keys, script>>

\* Logs, state, version and 401 of what has the name now, or the time is up.
JudgeSmoke(u) ==
    /\ script[u].pc = "poll"
    /\ \/ smoke # NoSmoke /\ smoke.state = "serving" /\ ScriptTo(u, "passed")
       \/ ScriptTo(u, "failed")
    /\ UNCHANGED <<files, images, live, deploy, keys, smoke>>

\* The last rm -f, of what has the name now, and the exit.
smokePassed(u) == script[u].pc = "passed"
TearsDown(u) ==
    /\ script[u].pc \in {"passed", "failed"}
    /\ smoke' = NoSmoke /\ script' = [script EXCEPT ![u] = IdleScript]

\* A command that is killed takes its script along; the trap removes the
\* container unless the signal could not be trapped.  Reduction: a container
\* left behind is gone when nobody else smokes, for every script starts with rm -f.
otherSmokes(u) == \E v \in Smoker \ {u} : script[v].pc # "idle"
SmokeKilled(u) ==
    /\ smoke' \in IF script[u].pc = "idle" THEN {smoke}
                 ELSE IF otherSmokes(u) THEN {smoke, NoSmoke} ELSE {NoSmoke}
    /\ script' = [script EXCEPT ![u] = IdleScript]

(***************************************************************************)
(* deploy-on-host.sh.                                                      *)
(***************************************************************************)
DeployAt(pc) == deploy.pc = pc
DeployTo(pc) == deploy' = [deploy EXCEPT !.pc = pc]

\* The digest is checked against the configured repository and pulled.
StartDeploy(image) ==
    /\ DeployAt("idle")
    /\ images' = images \cup {image}
    /\ deploy' = [IdleDeploy EXCEPT !.pc = "gate", !.image = image]
    /\ UNCHANGED <<files, live, keys, smokeVars>>

\* The kill-gate runs on its own configuration and may fail; then the smoke is
\* taken out of the image, or the image carries none.
RunGate ==
    /\ DeployAt("gate")
    /\ deploy' = IdleDeploy \/ DeployTo("smoke")
    /\ UNCHANGED <<files, images, live, keys, smokeVars>>

\* The deploy acts on the exit code of its smoke.
RunSmoke ==
    /\ DeployAt("smoke") /\ TearsDown("deploy")
    /\ deploy' = IF smokePassed("deploy")
                 THEN [deploy EXCEPT !.pc = "anchor", !.crossed = script["deploy"].crossed]
                 ELSE IdleDeploy
    /\ UNCHANGED <<files, images, live, keys>>

CaptureAnchor ==
    /\ DeployAt("anchor")
    /\ deploy' = [deploy EXCEPT !.pc = "read", !.anchor = IF live = NoLive THEN "none" ELSE live.image]
    /\ UNCHANGED <<files, images, live, keys, smokeVars>>

\* launch-http.sh sources the env file, then stops and removes the old
\* container and runs the new one.  When docker refuses to run it the script
\* ends there, and under set -e the deploy with it.
LaunchReads(from, to) ==
    /\ DeployAt(from)
    /\ deploy' = [deploy EXCEPT !.pc = to, !.env = env]
    /\ UNCHANGED <<files, images, live, keys, smokeVars>>
Launches(from, image, to) ==
    /\ DeployAt(from)
    /\ \/ live' = Created(image, deploy.env) /\ DeployTo(to)
       \/ live' = NoLive /\ deploy' = IdleDeploy
    /\ UNCHANGED <<files, images, keys, smokeVars>>

verified == live # NoLive /\ live.state = "serving" /\ live.restarts = 0

Swap ==
    \/ LaunchReads("read", "swap")
    \/ Launches("swap", deploy.image, "verify")

\* verify polls: it passes once the container answers, fails at once when it
\* is gone, crashed or restarted, and times out while it still boots.
VerifySwap ==
    /\ DeployAt("verify")
    /\ \/ /\ verified /\ DeployTo("retain")
       \/ /\ ~verified
          /\ IF deploy.anchor = "none" THEN deploy' = IdleDeploy ELSE DeployTo("rollback")
    /\ UNCHANGED <<files, images, live, keys, smokeVars>>

\* Retention: the image built last, the running one and the anchor stay.
Retain ==
    /\ DeployAt("retain")
    /\ \E newest \in images :
          images' = images \cap ({newest, deploy.anchor} \cup (IF live = NoLive THEN {} ELSE {live.image}))
    /\ deploy' = IdleDeploy
    /\ UNCHANGED <<files, live, keys, smokeVars>>

\* Whatever the second verify says, the deploy has failed.
Rollback ==
    \/ LaunchReads("rollback", "back")
    \/ Launches("back", deploy.anchor, "verifyBack")
    \/ DeployAt("verifyBack") /\ deploy' = IdleDeploy /\ UNCHANGED <<files, images, live, keys, smokeVars>>

KillDeploy ==
    /\ ~DeployAt("idle") /\ SmokeKilled("deploy")
    /\ deploy' = IdleDeploy
    /\ UNCHANGED <<files, images, live, keys>>

(***************************************************************************)
(* obscura keys new | revoke [--apply].                                    *)
(***************************************************************************)
KeysAt(pc) == keys.pc = pc
KeysTo(pc) == keys' = [keys EXCEPT !.pc = pc]
Other == <<images, live, deploy, smokeVars>>

\* The pre-flight of a new consumer, where the sizing can be read from the
\* env file at all.
poolFloorRefuses(sized) == sized /\ Cardinality(manifest) + 1 > MaxConsumers

\* readProdFiles, the checks of the command, and the copies it works on.
Starts(op, id, apply) ==
    /\ KeysAt("idle")
    /\ keys' = [IdleKeys EXCEPT !.pc = "manifest", !.op = op, !.id = id, !.apply = apply,
                   !.entries = manifest, !.env = env]
    /\ UNCHANGED <<files, Other>>
KeysNew(id, apply, sized) ==
    /\ id \notin manifest /\ env[id] = 0 /\ ~poolFloorRefuses(sized) /\ minted < MaxMint
    /\ Starts("new", id, apply)
KeysRevoke(id, apply) ==
    /\ id \in manifest \/ env[id] # 0
    /\ Starts("revoke", id, apply)

Revoking == keys.op = "revoke"
\* A revocation counts from its first write, until the id is minted again.
NowRevoked ==
    IF Revoking THEN revoked \cup {<<keys.id, t>> : t \in {keys.env[keys.id]} \ {0}}
    ELSE {r \in revoked : r[1] # keys.id}

\* Fault: the env file is written first.
EnvFirst ==
    /\ KeysAt("manifest") \/ KeysAt("env")
    /\ IF KeysAt("manifest")
       THEN env' = [keys.env EXCEPT ![keys.id] = IF Revoking THEN 0 ELSE minted + 1] /\ UNCHANGED manifest
       ELSE manifest' = (IF Revoking THEN keys.entries \ {keys.id} ELSE keys.entries \cup {keys.id}) /\ UNCHANGED env
    /\ minted' = IF KeysAt("manifest") /\ ~Revoking THEN minted + 1 ELSE minted
    /\ touched' = TRUE /\ revoked' = NowRevoked
    /\ KeysTo(IF KeysAt("manifest") THEN "env" ELSE "keychain")
    /\ UNCHANGED Other

\* Manifest first, then the env file, each from the copy read at the start.
WriteFiles ==
    /\ KeysAt("manifest") \/ KeysAt("env")
    /\ IF KeysAt("manifest")
       THEN manifest' = (IF Revoking THEN keys.entries \ {keys.id} ELSE keys.entries \cup {keys.id}) /\ UNCHANGED env
       ELSE env' = [keys.env EXCEPT ![keys.id] = IF Revoking THEN 0 ELSE minted + 1] /\ UNCHANGED manifest
    /\ minted' = IF KeysAt("env") /\ ~Revoking THEN minted + 1 ELSE minted
    /\ touched' = TRUE /\ revoked' = NowRevoked
    /\ KeysTo(IF KeysAt("manifest") THEN "env" ELSE "keychain")
    /\ UNCHANGED Other

\* The operator's own copy of the token, which nothing on the host reads; from
\* here on the command looks at the files only.
WriteKeychain ==
    /\ KeysAt("keychain")
    /\ keys' = IF keys.apply THEN [IdleKeys EXCEPT !.pc = "smoke"] ELSE IdleKeys
    /\ UNCHANGED <<files, Other>>

\* --apply: no re-create unless the smoke of the running image passed; with
\* no container there is no image to smoke.
ApplySmoke ==
    /\ KeysAt("smoke")
    /\ \/ /\ script["keys"].pc = "idle" /\ live = NoLive
          /\ keys' = IdleKeys /\ UNCHANGED smokeVars
       \/ /\ TearsDown("keys")
          /\ keys' = IF smokePassed("keys")
                     THEN [keys EXCEPT !.pc = "recreate", !.env = env,
                              !.image = script["keys"].image, !.crossed = script["keys"].crossed]
                     ELSE IdleKeys
    /\ UNCHANGED <<files, images, live, deploy>>

\* External: applyCmd runs the launcher on the image the container has.
ApplyRecreate ==
    /\ KeysAt("recreate")
    /\ \/ /\ live # NoLive
          /\ live' = Created(live.image, keys.env) /\ KeysTo("probe")
       \/ live' = NoLive /\ keys' = IdleKeys
    /\ UNCHANGED <<files, images, deploy, smokeVars>>

\* Poll for the 401 and look at the container's environment; the answer is a
\* message, whatever it is.
ApplyProbe ==
    /\ KeysAt("probe")
    /\ keys' = IdleKeys
    /\ UNCHANGED <<files, Other>>

KillKeys ==
    /\ ~KeysAt("idle") /\ SmokeKilled("keys")
    /\ keys' = IdleKeys
    /\ UNCHANGED <<files, images, live, deploy>>

DeployNext ==
    \/ BootLive \/ RestartLive \/ BootSmoke
    \/ \E u \in Smoker : StartSmoke(u) \/ LaunchSmoke(u) \/ JudgeSmoke(u)
    \/ \E i \in Image : StartDeploy(i)
    \/ RunGate \/ RunSmoke \/ CaptureAnchor \/ Swap \/ VerifySwap \/ Retain \/ Rollback \/ KillDeploy
    \/ \E id \in Consumer, apply \in BOOLEAN :
          KeysRevoke(id, apply) \/ \E sized \in BOOLEAN : KeysNew(id, apply, sized)
    \/ WriteFiles \/ WriteKeychain \/ ApplySmoke \/ ApplyRecreate \/ ApplyProbe \/ KillKeys

-----------------------------------------------------------------------------
(***************************************************************************)
(* Properties.                                                             *)
(***************************************************************************)

(* A revoked token is never accepted by a container that boots after the   *)
(* revocation reached the first file (keys.ts:409-450), until the id is    *)
(* minted again: not after an interrupted revoke, not when a process       *)
(* restarts in a container created before it, not when a deploy or a       *)
(* rollback launches with an env file read before it.                      *)
RevokedStaysOut ==
    [][live # NoLive /\ live' # NoLive /\ live.state = "booting" /\ live'.state = "serving"
         => live'.reg \cap revoked = {}]_deployVars

(* The smoke means what the swap and the re-create rely on                 *)
(* (preswap-smoke.sh:45-142): it passes an image on the image's own boot,  *)
(* whatever stale containers, refused launches, evictions and tear-downs   *)
(* by the other command's smoke it meets.  A container that a deploy or a  *)
(* keys --apply put live then fails to boot only if the other smoke        *)
(* replaced the container while this one polled, or, for a deploy, if the  *)
(* files were written after its smoke began.                               *)
SmokedConfigBoots ==
    live # NoLive /\ live.state = "crashed" =>
      /\ DeployAt("verify") /\ live.image = deploy.image => touched \/ deploy.crossed
      /\ KeysAt("probe") /\ live.image = keys.image /\ live.env = keys.env => keys.crossed
=============================================================================
