----------------------------- MODULE MCKvServer -----------------------------
(***************************************************************************)
(* Small instances of KvServer for TLC.  Values name the key they belong   *)
(* to, so that a value under the wrong key shows.                          *)
(***************************************************************************)
EXTENDS KvServer, TLC

CONSTANTS r1, r2, r3, k1, k2

TwoRequests == {r1, r2}
ThreeRequests == {r1, r2, r3}

TwoKeys == {k1, k2}

\* The requests are interchangeable.
Symmetry == Permutations(Requests)

MCValues == {"old1", "new1", "val2", ""}

EmptyDisk == [k \in Keys |-> Null]
\* k1 is on disk at the first start.
LoadedDisk == [k \in Keys |-> IF k = k1 THEN "old1" ELSE Null]

Ask(kind, k) == [kind |-> kind, items |-> <<[key |-> k, value |-> Null]>>]
Pair(k, v) == [key |-> k, value |-> v]

\* Requests that the handlers refuse.
RefusedMenu ==
  {[kind |-> "add", items |-> <<Pair(k1, "")>>],
   [kind |-> "list", items |-> <<>>],
   Ask("query", Null), Ask("del", Null)}

WriteMenu ==
  {[kind |-> "add", items |-> <<Pair(k1, "new1")>>],
   [kind |-> "batch", items |-> <<>>],
   [kind |-> "batch", items |-> <<Pair(k1, "new1"), Pair(k2, "val2")>>],
   [kind |-> "batch", items |-> <<Pair(k1, "old1"), Pair(k1, "new1")>>],
   [kind |-> "init", items |-> <<>>],
   Ask("del", k1)}

ReadMenu ==
  {[kind |-> "list", items |-> <<Pair(k1, Null), Pair(k2, Null)>>],
   Ask("query", k1)}

SafetyMenu == WriteMenu \cup ReadMenu

LiveMenu ==
  RefusedMenu \cup ReadMenu \cup
  {[kind |-> "add", items |-> <<Pair(k1, "new1")>>],
   [kind |-> "batch", items |-> <<Pair(k1, "new1"), Pair(k2, "val2")>>],
   Ask("del", k1)}

DeleteMenu == {[kind |-> "add", items |-> <<Pair(k1, "new1")>>], Ask("del", k1)}
=============================================================================
