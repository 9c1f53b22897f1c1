-------------------------- MODULE ControllerClaims --------------------------
(***************************************************************************)
(* What the repository's comments and configuration say of the controller, *)
(* stated of the model, where the code does not keep it: a run refutes it. *)
(***************************************************************************)
EXTENDS Controller

\* escalation.go:18, guardrails.yaml:61: MANUAL is the end of the ladder.  Only
\* a resolved outcome or a restart of the process may take a context out of it.
ManualIsTerminal ==
    [][\A c \in Contexts :
          IsManual(c) /\ esc'[c].state # "MANUAL" =>
              watchers' # watchers \/ epoch' # epoch]_vars
=============================================================================
