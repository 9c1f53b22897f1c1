--------------------------- MODULE MCIntelligence ---------------------------
(***************************************************************************)
(* Small instances of the node-level analysis and the scores for TLC.      *)
(***************************************************************************)
EXTENDS Intelligence, TLC

BothParts == {"aggregator", "scores"}
ScoresOnly == {"scores"}
AggregatorOnly == {"aggregator"}
DiskAndNetwork == {{"io_wait_high", "disk_io_lat"}, {"tcp_retransmit"}}
DiskOnly == {{"io_wait_high", "disk_io_lat"}}
PodSymmetry == Permutations(Pods) \cup Permutations(Nodes)
=============================================================================
