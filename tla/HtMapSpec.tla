------------------------------ MODULE HtMapSpec ------------------------------
(***************************************************************************)
(* What the HashTable promises its caller (spec section 4.4): a set of     *)
(* keys.  Insert(k) succeeds exactly when k is absent and adds it;         *)
(* Search(k) and Erase(k) succeed exactly when k is present, and Erase     *)
(* removes it.  last is the result of the latest call, numbered so that    *)
(* two equal calls in a row are two steps.                                 *)
(***************************************************************************)
EXTENDS Naturals

CONSTANTS Keys

VARIABLES keys, last

mvars == <<keys, last>>

MInit ==
    /\ keys = {}
    /\ last = [n |-> 0, kind |-> "none", key |-> 0, ok |-> FALSE]

Answer(kind, k, ok) == last' = [n |-> last.n + 1, kind |-> kind, key |-> k, ok |-> ok]

MInsert(k) ==
    /\ Answer("insert", k, k \notin keys)
    /\ keys' = keys \cup {k}

MSearch(k) ==
    /\ Answer("search", k, k \in keys)
    /\ UNCHANGED keys

MErase(k) ==
    /\ Answer("erase", k, k \in keys)
    /\ keys' = keys \ {k}

MNext == \E k \in Keys : MInsert(k) \/ MSearch(k) \/ MErase(k)

MSpec == MInit /\ [][MNext]_mvars
=============================================================================
