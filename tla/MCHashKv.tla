------------------------------ MODULE MCHashKv ------------------------------
(* A small instance of HashKv: k1 is used as the keys of ZsetManager's map, *)
(* k2 and k3 as the keys of KvManager's; k1 and k3 share a partition.       *)
EXTENDS HashKv, TLC

CONSTANTS f1, f2, k1, k2, k3, v1, v2, c1, c2, c3

SmallFibers == {f1, f2}
SmallKeys == {k1, k2, k3}
SmallValues == {v1, v2}
SmallCells == {c1, c2, c3}

Codes == [k \in Keys |-> IF k = k1 THEN 4 ELSE IF k = k2 THEN 7 ELSE 2]

OwnerOps ==
  [k \in Keys |-> IF k = k1 THEN {"Get", "GetOrCreate"} ELSE {"Get", "Add", "Del"}]

Symmetry ==
  Permutations(Fibers) \cup Permutations(Cells) \cup Permutations(Values)
=============================================================================
