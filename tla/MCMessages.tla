----------------------------- MODULE MCMessages -----------------------------
(***************************************************************************)
(* Messages on bounded texts, for TLC.                                     *)
(***************************************************************************)
EXTENDS Messages
==============================================================================
