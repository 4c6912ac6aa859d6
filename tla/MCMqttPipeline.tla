--------------------------- MODULE MCMqttPipeline ---------------------------
(***************************************************************************)
(* MqttPipeline on small instances, for TLC.                               *)
(***************************************************************************)
EXTENDS MqttPipeline

CONSTANTS i1, i2, i3, i4

FourIds == {i1, i2, i3, i4}
==============================================================================
