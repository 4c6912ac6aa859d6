---------------------------- MODULE MCLifecycle -----------------------------
(***************************************************************************)
(* Lifecycle on small instances, for TLC.                                  *)
(***************************************************************************)
EXTENDS Lifecycle

CONSTANTS p1, p2

OneProcess == {p1}
TwoProcesses == {p1, p2}
==============================================================================
