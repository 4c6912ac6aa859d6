----------------------------- MODULE MCDebouncer -----------------------------
(***************************************************************************)
(* Debouncer on a small instance, for TLC.                                 *)
(***************************************************************************)
EXTENDS Debouncer, TLC

CONSTANTS m1, m2, t1, t2, t3

MCMac   == {m1, m2}
MCTimer == {t1, t2, t3}
==============================================================================
