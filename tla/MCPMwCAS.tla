------------------------------ MODULE MCPMwCAS ------------------------------
(* Instances of PMwCAS for TLC. *)
EXTENDS PMwCAS

E(a, o, n) == [addr |-> a, old |-> o, new |-> n]

MCThreads == {"t1", "t2"}

(* Two overlapping operations racing on word 2; t1 has a single          *)
(* descriptor and a second operation, which must wait until the first      *)
(* descriptor is reclaimed through the epoch.                              *)
MCPart == [t \in MCThreads |-> IF t = "t1" THEN {1} ELSE {3}]
MCOpsRace == [t \in MCThreads |->
                IF t = "t1" THEN << {E(1, 0, 1), E(2, 0, 1)}, {E(1, 1, 2)} >>
                ELSE << {E(2, 0, 2), E(3, 0, 2)} >>]
(* After its operations t1 reads word 3, which t2's operation may be       *)
(* changing at that moment.                                                *)
MCReads == [t \in MCThreads |-> IF t = "t1" THEN << 3 >> ELSE << >>]
(* Three threads: t1 moves both words 0 -> 1, t2 tries word 1 from 0 to   *)
(* 2, t3 moves word 2 from 1 back to 0 once t1's operation is done.        *)
MCThreads3 == {"t1", "t2", "t3"}
MCPart3 == [t \in MCThreads3 |-> CASE t = "t1" -> {1} [] t = "t2" -> {2} [] OTHER -> {3}]
MCOpsABA == [t \in MCThreads3 |->
               CASE t = "t1" -> << {E(1, 0, 1), E(2, 0, 1)} >>
                 [] t = "t2" -> << {E(1, 0, 2)} >>
                 [] OTHER -> << {E(2, 1, 0)} >>]
MCNoReads3 == [t \in MCThreads3 |-> << >>]
(* The volatile build, with a third thread overlapping both on word 3 and  *)
(* word 1.  No word ever returns to a value it held, so the ABA case of    *)
(* MCOpsABA cannot arise.                                                  *)
MCPart3V == [t \in MCThreads3 |-> CASE t = "t1" -> {1} [] t = "t2" -> {3} [] OTHER -> {2}]
MCOpsVolatile == [t \in MCThreads3 |->
                    CASE t = "t1" -> MCOpsRace["t1"]
                      [] t = "t2" -> MCOpsRace["t2"]
                      [] OTHER -> << {E(3, 0, 3), E(1, 0, 3)} >>]
====
