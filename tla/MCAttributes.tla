----------------------------- MODULE MCAttributes -----------------------------
EXTENDS Attributes, MCDaemon
==============================================================================
