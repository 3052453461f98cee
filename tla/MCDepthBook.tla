----------------------------- MODULE MCDepthBook -----------------------------
(* DepthBook for TLC: its bounds are numbers, given in the configurations.  *)
EXTENDS DepthBook
=============================================================================
