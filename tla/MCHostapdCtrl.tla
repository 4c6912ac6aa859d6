--------------------------- MODULE MCHostapdCtrl ----------------------------
(***************************************************************************)
(* HostapdCtrl on small instances, for TLC.                                *)
(***************************************************************************)
EXTENDS HostapdCtrl

CONSTANTS m1, m2, m3

TwoMacs == {m1, m2}
ThreeMacs == {m1, m2, m3}
MainRole == {"main"}
BothRoles == {"main", "attach"}
==============================================================================
