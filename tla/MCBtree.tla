------------------------------- MODULE MCBtree -------------------------------
(* Instances of Btree for TLC. *)
EXTENDS Btree

Ins(k) == [kind |-> "insert", key |-> k]
Rd(k) == [kind |-> "read", key |-> k]
AnyCall(K) == {Ins(k) : k \in K} \cup {Rd(k) : k \in K}

(* Six inserts over three keys (with Order 2 enough for leaf splits under  *)
(* a split root and for the root to split again, height three), then two  *)
(* calls of either kind so that reads run over the grown tree.             *)
MCKeys == 1..3
MCScript == [i \in 1..8 |-> IF i <= 6 THEN {Ins(k) : k \in MCKeys} ELSE AnyCall(MCKeys)]
====
