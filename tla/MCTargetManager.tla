-------------------------- MODULE MCTargetManager --------------------------
(* A finite instance of TargetManager: see TargetRefresh.cfg. *)
EXTENDS TargetManager

EveryMode == AgentModes \cup CombinedModes
AllPids == {"all-pids"}
=============================================================================
