--------------------------- MODULE EpochReclaimSpec ---------------------------
(***************************************************************************)
(* What epoch-based reclamation promises the descriptors of one partition  *)
(* (spec.md 4.6): a descriptor is free, in use by its owner, or garbage.   *)
(* Other threads may take a reference to a descriptor only while it is in  *)
(* use (its pointer is in a target word) and keep it until they leave      *)
(* their epoch.  Garbage goes back to the free list only when no thread    *)
(* holds a reference to it, and only once.                                 *)
(***************************************************************************)
EXTENDS FiniteSets

CONSTANTS Desc, Readers

VARIABLES dstate, held

rvars == <<dstate, held>>

RInit ==
    /\ dstate \in [Desc -> {"free"}]
    /\ held = [r \in Readers |-> {}]

RAlloc(d) ==
    /\ dstate[d] = "free"
    /\ dstate' = [dstate EXCEPT ![d] = "inuse"]
    /\ UNCHANGED held

RRetire(d) ==
    /\ dstate[d] = "inuse"
    /\ dstate' = [dstate EXCEPT ![d] = "garbage"]
    /\ UNCHANGED held

(* Any number of garbage descriptors nobody holds become free at once.    *)
RFree(S) ==
    /\ S # {}
    /\ \A d \in S : dstate[d] = "garbage" /\ \A r \in Readers : d \notin held[r]
    /\ dstate' = [d \in Desc |-> IF d \in S THEN "free" ELSE dstate[d]]
    /\ UNCHANGED held

RGrab(r, d) ==
    /\ dstate[d] = "inuse"
    /\ held' = [held EXCEPT ![r] = @ \cup {d}]
    /\ UNCHANGED dstate

RRelease(r) ==
    /\ held' = [held EXCEPT ![r] = {}]
    /\ UNCHANGED dstate

RNext ==
    \/ \E d \in Desc : RAlloc(d) \/ RRetire(d)
    \/ \E S \in SUBSET Desc : RFree(S)
    \/ \E r \in Readers : RRelease(r) \/ \E d \in Desc : RGrab(r, d)

RSpec == RInit /\ [][RNext]_rvars
=============================================================================
