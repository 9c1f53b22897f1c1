------------------------------- MODULE MCAgent -------------------------------
(***************************************************************************)
(* A small instance of the node agent for TLC, with a probe without and    *)
(* one with a ring buffer; the standalone tools as they are.               *)
(***************************************************************************)
EXTENDS NodePrograms

MCPodOf == [c \in Containers |-> CHOOSE p \in Pods : TRUE]
MCProbes == <<"cpu", "memory">>
MCLinks == [cpu |-> 1, memory |-> 2]
MCRingOf == [cpu |-> "none", memory |-> "oom_events"]
MCResolvers == {"oom_events", "poll"}
=============================================================================
