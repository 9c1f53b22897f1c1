---------------------------- MODULE MCCollectors ----------------------------
(***************************************************************************)
(* A small instance of the collectors and their resolver for TLC.           *)
(***************************************************************************)
EXTENDS StatCollectors

CONSTANT c1
MCDirs1 == <<c1>>
=============================================================================
