----------------------------- MODULE ToolCalls -----------------------------
(***************************************************************************)
(* What happens below the tools of the MCP server: a retrieve call, the    *)
(* search router, the drive verbs on a browser core, and the CAPTCHA       *)
(* solver that cores share.  Their properties depend on no state they have *)
(* in common, so a behaviour exercises one of them and leaves the others   *)
(* at rest.                                                                *)
(***************************************************************************)
EXTENDS Retrieve, SearchRouter, CoreDrive, CaptchaSolver

VARIABLE tool   \* the one this behaviour exercises

toolVars == <<tool, retrieveVars, searchVars, coreVars, solverVars>>

ToolInit ==
    /\ tool \in {"retrieve", "search", "drive", "solver"}
    /\ RetrieveInit /\ SearchInit /\ CoreInit /\ SolverInit
    /\ tool # "retrieve" => opts = CHOOSE o \in Options : TRUE
    /\ tool # "search" => env = CHOOSE e \in SearchEnv : TRUE
    /\ tool # "drive" => mode = CHOOSE m \in Mode : TRUE

ToolNext ==
    \/ tool = "retrieve" /\ RetrieveNext /\ UNCHANGED <<tool, searchVars, coreVars, solverVars>>
    \/ tool = "search" /\ SearchNext /\ UNCHANGED <<tool, retrieveVars, coreVars, solverVars>>
    \/ tool = "drive" /\ CoreNext /\ UNCHANGED <<tool, retrieveVars, searchVars, solverVars>>
    \/ tool = "solver" /\ SolverNext /\ UNCHANGED <<tool, retrieveVars, searchVars, coreVars>>

ToolSpec == ToolInit /\ [][ToolNext]_toolVars
=============================================================================
