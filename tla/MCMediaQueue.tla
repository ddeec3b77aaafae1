---------------------------- MODULE MCMediaQueue ----------------------------
(* Instances of MediaQueue. *)
EXTENDS MediaQueue, TLC

CONSTANT s

OneTask  == {s}
=============================================================================
