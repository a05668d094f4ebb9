----------------------------- MODULE MCHashTable -----------------------------
(* Instances of HashTable for TLC. *)
EXTENDS HashTable

Ins(k) == [kind |-> "insert", key |-> k]
Get(k) == [kind |-> "search", key |-> k]
Del(k) == [kind |-> "erase", key |-> k]
AnyOp(K) == {Ins(k) : k \in K} \cup {Get(k) : k \in K} \cup {Del(k) : k \in K}

(* Any six calls on keys 1..3. *)
MCKeys == 1..3
MCScriptAny == [i \in 1..6 |-> AnyOp(MCKeys)]

(* Five keys in one bucket of two-slot pages: fill pages A [1,2], B [3,4]  *)
(* and C [5]; erase 2 (a hole in A) and 3, 4 (B empty); insert 5 again.   *)
MCKeysDup == 1..5
MCScriptDup == << {Ins(1)}, {Ins(2)}, {Ins(3)}, {Ins(4)}, {Ins(5)},
                  {Del(2)}, {Del(3)}, {Del(4)}, {Ins(5)} >>
====
