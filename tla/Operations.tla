----------------------------- MODULE Operations -----------------------------
(***************************************************************************)
(* What operators do around the gateway: the credential vault, the         *)
(* production host and the operator's own machine.  The three share no     *)
(* state that their properties depend on, so a behaviour exercises one of  *)
(* them and leaves the others as they were installed.                      *)
(***************************************************************************)
EXTENDS CredentialVault, Deployment, Workstation

VARIABLE system   \* the system this behaviour exercises

opsVars == <<system, vaultVars, deployVars, workVars>>

OpsInit ==
    /\ system \in {"vault", "host", "workstation"}
    /\ VaultInit /\ DeployInit /\ WorkInit
    /\ system # "vault" => keyFile = None /\ posture = CHOOSE p \in Posture : TRUE
    /\ system # "workstation" => key = CHOOSE t \in Token : TRUE

OpsNext ==
    \/ system = "vault" /\ VaultNext /\ UNCHANGED <<system, deployVars, workVars>>
    \/ system = "host" /\ DeployNext /\ UNCHANGED <<system, vaultVars, workVars>>
    \/ system = "workstation" /\ WorkNext /\ UNCHANGED <<system, vaultVars, deployVars>>

OpsSpec == OpsInit /\ [][OpsNext]_opsVars
=============================================================================
