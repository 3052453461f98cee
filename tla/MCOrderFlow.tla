---------------------------- MODULE MCOrderFlow ----------------------------
(* Instances of OrderFlow for TLC.                                          *)
EXTENDS OrderFlow

CONSTANTS o1

MCLists == {<<o1>>}
=============================================================================
