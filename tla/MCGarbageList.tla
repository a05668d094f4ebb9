---------------------------- MODULE MCGarbageList ----------------------------
(* Instances of GarbageList for TLC. *)
EXTENDS GarbageList
====
