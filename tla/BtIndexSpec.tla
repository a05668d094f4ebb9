----------------------------- MODULE BtIndexSpec -----------------------------
(***************************************************************************)
(* What the Btree index promises DbBtree (spec section 4.3 and properties  *)
(* 5 and 6 of section 8): a set of keys; insert always succeeds and adds   *)
(* its key, and a read succeeds exactly when the key was inserted.  last   *)
(* is the result of the latest call, numbered so that two equal calls in   *)
(* a row are two steps.                                                    *)
(***************************************************************************)
EXTENDS Naturals

CONSTANTS Keys

VARIABLES keys, last

ivars == <<keys, last>>

IInit ==
    /\ keys = {}
    /\ last = [n |-> 0, kind |-> "none", key |-> 0, ok |-> FALSE]

Reply(kind, k, ok) == last' = [n |-> last.n + 1, kind |-> kind, key |-> k, ok |-> ok]

IInsert(k) ==
    /\ Reply("insert", k, TRUE)
    /\ keys' = keys \cup {k}

IRead(k) ==
    /\ Reply("read", k, k \in keys)
    /\ UNCHANGED keys

INext == \E k \in Keys : IInsert(k) \/ IRead(k)

ISpec == IInit /\ [][INext]_ivars
=============================================================================
