---------------------------- MODULE MCAgentScripts ----------------------------
(***************************************************************************)
(* The helpers under scripts/: the tunnel supervisor, the orchestrator of  *)
(* worktrees and the memory bridges.  They share nothing, so that a        *)
(* behaviour is one of a single helper: script says which.                 *)
(***************************************************************************)
EXTENDS TunnelSupervisor, Worktrees, HindsightBuffer

VARIABLE script
scriptVars == <<tunnelVars, worktreeVars, vars, script>>

\* The worktrees of the other behaviours begin in one way only.
ScriptsInit ==
  /\ TunnelInit /\ WorktreesInit /\ Init
  /\ script \in {"tunnel", "worktrees", "bridge"}
  /\ script # "worktrees" => branches = {}

ScriptsNext ==
  /\ script' = script
  /\ \/ script = "tunnel" /\ TunnelNext /\ UNCHANGED <<worktreeVars, vars>>
     \/ script = "worktrees" /\ WorktreesNext /\ UNCHANGED <<tunnelVars, vars>>
     \/ script = "bridge" /\ Next /\ UNCHANGED <<tunnelVars, worktreeVars>>

\* A bridge that is not at work has no step to take.
ScriptsSpec ==
  /\ ScriptsInit /\ [][ScriptsNext]_scriptVars
  /\ WF_tunnelVars(script = "tunnel" /\ SupervisorStep)
  /\ \A p \in Bridge : WF_vars(Work(p))
=============================================================================
