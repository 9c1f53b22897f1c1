----------------------------- MODULE MCEventBus -----------------------------
(***************************************************************************)
(* Small instances of the event bus for TLC.                               *)
(***************************************************************************)
EXTENDS EventBus

MCMessages == 1 .. 2
MCPoison == {2}
=============================================================================
