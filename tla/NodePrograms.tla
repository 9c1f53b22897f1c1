---------------------------- MODULE NodePrograms ----------------------------
(***************************************************************************)
(* The programs that load probes on a node: the agent, which publishes     *)
(* signals, and the standalone tools.  They are different processes that   *)
(* share nothing, so a behaviour follows one of them.                      *)
(***************************************************************************)
EXTENDS Agent, ToolStartup

VARIABLE part           \* the program this behaviour follows

vars == <<agentVars, toolVars, part>>

Init == part \in {"agent", "tool"} /\ AgentInit /\ ToolInit

AgentRuns == part = "agent" /\ AgentNext /\ UNCHANGED <<toolVars, part>>

ToolRuns == part = "tool" /\ ToolNext /\ UNCHANGED <<agentVars, part>>

Next == AgentRuns \/ ToolRuns

Spec == Init /\ [][Next]_vars
=============================================================================
