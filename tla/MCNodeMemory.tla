---------------------------- MODULE MCNodeMemory ----------------------------
(* Two lists on one arena; heads are larger than a quarter of a block.      *)
EXTENDS NodeMemory

CONSTANTS l1, l2

TwoLists == {l1, l2}
AllSeeds == 0 .. 2 ^ (Bits + 1) - 1
=============================================================================
