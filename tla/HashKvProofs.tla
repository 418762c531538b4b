---------------------------- MODULE HashKvProofs ----------------------------
(***************************************************************************)
(* Proofs about HashKv for every set of fibers, keys, values and node      *)
(* addresses, every number of partitions and every hash function.          *)
(***************************************************************************)
EXTENDS HashKv, TLAPS

-----------------------------------------------------------------------------
(* The inductive invariant.                                                 *)

InCS(f) == pc[f] \in {"find", "commit", "assign", "unlock"}

\* A fiber past "idle" has a call, and its label fits the operation.
CallInv ==
  \A f \in Fibers :
    /\ pc[f] # "idle" => call[f] \in Calls
    /\ pc[f] = "commit" => call[f].op # "Get"
    /\ pc[f] = "assign" => call[f].op = "Add"
    /\ pc[f] = "held" => it[f] # Null

\* A fiber in its critical section holds its partition's mutex in the mode of
\* its operation, and a mutex that is held exclusively has no reader.
LockInv ==
  /\ \A f \in Fibers :
       InCS(f) => IF call[f].op = "Get" THEN f \in readers[SubMap(f)]
                                        ELSE writer[SubMap(f)] = f
  /\ \A p \in Partitions : writer[p] # Null => readers[p] = {}

\* The iterator of a fiber that is about to change the map is up to date.
IterInv ==
  \A f \in Fibers :
    /\ pc[f] \in {"commit", "assign"} => it[f] = map[call[f].key]
    /\ pc[f] = "assign" => it[f] # Null

\* A torn node is one that a fiber is assigning to, and conversely.
TornInv ==
  /\ \A c \in Cells :
       heap[c] = Torn => \E f \in Fibers : pc[f] = "assign" /\ it[f] = c
  /\ \A f \in Fibers : pc[f] = "assign" => heap[it[f]] = Torn

IInv == TypeOK /\ CallInv /\ LockInv /\ IterInv /\ TornInv /\ NodesOwned

-----------------------------------------------------------------------------
LEMMA HashType == \A k \in Keys : Hash(k) \in Partitions
  <1> SUFFICES ASSUME NEW k \in Keys PROVE Hash(k) \in Partitions
    OBVIOUS
  <1>1. HashCode[k] \in Nat /\ PartitionNum \in Nat /\ PartitionNum > 0
    BY PartitionAssumption
  <1>2. HashCode[k] % PartitionNum \in 0 .. PartitionNum - 1
    BY <1>1
  <1> QED
    BY <1>2 DEF Hash, Partitions

LEMMA CallsType ==
  \A c \in Calls :
    /\ c.op \in {"Get", "GetOrCreate", "Add", "Del"}
    /\ c.key \in Keys
    /\ c.op \in {"Add", "GetOrCreate"} => c.value \in Values
  BY OwnerAssumption DEF Calls

\* Two fibers are never in critical sections of the same partition when one of
\* them is there to change it.
LEMMA Exclusion ==
  ASSUME TypeOK, CallInv, LockInv,
         NEW f \in Fibers, NEW g \in Fibers,
         InCS(f), InCS(g), SubMap(f) = SubMap(g), call[f].op # "Get"
  PROVE  f = g
  <1>1. call[f] \in Calls /\ call[g] \in Calls
    BY DEF CallInv, InCS
  <1>2. SubMap(f) \in Partitions
    BY <1>1, CallsType, HashType DEF SubMap
  <1>3. writer[SubMap(f)] = f /\ readers[SubMap(f)] = {}
    BY <1>2, SentinelAssumption DEF LockInv
  <1> QED
    BY <1>3 DEF LockInv

-----------------------------------------------------------------------------
LEMMA InitIInv == Init => IInv
  <1> SUFFICES ASSUME Init PROVE IInv
    OBVIOUS
  <1>1. TypeOK
    BY DEF Init, TypeOK, Labels
  <1>2. CallInv /\ LockInv /\ IterInv /\ TornInv /\ NodesOwned
    BY SentinelAssumption
    DEF Init, CallInv, LockInv, IterInv, TornInv, NodesOwned, InCS
  <1> QED
    BY <1>1, <1>2 DEF IInv

\* The facts about a fiber that has a call, under the invariant.
LEMMA FiberFacts ==
  ASSUME TypeOK, CallInv, NEW f \in Fibers, pc[f] # "idle"
  PROVE  /\ call[f] \in Calls
         /\ call[f].op \in {"Get", "GetOrCreate", "Add", "Del"}
         /\ call[f].key \in Keys
         /\ call[f].op \in {"Add", "GetOrCreate"} => call[f].value \in Values
         /\ SubMap(f) \in Partitions
  BY CallsType, HashType DEF CallInv, SubMap

LEMMA InvokeIInv ==
  ASSUME IInv, NEW f \in Fibers, Invoke(f) PROVE IInv'
  <1> USE DEF Invoke, Goto, IInv
  <1>1. TypeOK'
    BY DEF TypeOK, Labels
  <1>2. CallInv'
    BY DEF TypeOK, CallInv
  <1>3. LockInv'
    BY DEF TypeOK, LockInv, InCS, SubMap
  <1>4. IterInv'
    BY DEF TypeOK, IterInv
  <1>5. TornInv'
    BY DEF TypeOK, TornInv
  <1>6. NodesOwned'
    BY DEF NodesOwned
  <1> QED
    BY <1>1, <1>2, <1>3, <1>4, <1>5, <1>6

LEMMA LockSharedIInv ==
  ASSUME IInv, NEW f \in Fibers, LockShared(f) PROVE IInv'
  <1> USE DEF LockShared, CanLockShared, Goto, IInv
  <1>0. SubMap(f) \in Partitions /\ call[f] \in Calls
    BY FiberFacts
  <1>1. TypeOK'
    BY <1>0 DEF TypeOK, Labels
  <1>2. CallInv'
    BY <1>0 DEF TypeOK, CallInv
  <1>3. LockInv'
    BY <1>0 DEF TypeOK, LockInv, InCS, SubMap
  <1>4. IterInv'
    BY DEF TypeOK, IterInv
  <1>5. TornInv'
    BY DEF TypeOK, TornInv
  <1>6. NodesOwned'
    BY DEF NodesOwned
  <1> QED
    BY <1>1, <1>2, <1>3, <1>4, <1>5, <1>6

LEMMA LockUniqueIInv ==
  ASSUME IInv, NEW f \in Fibers, LockUnique(f) PROVE IInv'
  <1> USE DEF LockUnique, CanLockUnique, Goto, IInv
  <1>0. SubMap(f) \in Partitions /\ call[f] \in Calls
    BY FiberFacts
  <1>1. TypeOK'
    BY <1>0 DEF TypeOK, Labels
  <1>2. CallInv'
    BY <1>0 DEF TypeOK, CallInv
  <1>3. LockInv'
    BY <1>0, SentinelAssumption DEF TypeOK, LockInv, InCS, SubMap
  <1>4. IterInv'
    BY DEF TypeOK, IterInv
  <1>5. TornInv'
    BY DEF TypeOK, TornInv
  <1>6. NodesOwned'
    BY DEF NodesOwned
  <1> QED
    BY <1>1, <1>2, <1>3, <1>4, <1>5, <1>6

\* A lookup under the lock never meets a node that is being assigned to or has
\* been erased.
LEMMA LookupWhole ==
  ASSUME IInv, NEW f \in Fibers, pc[f] \in {"find", "commit"},
         map[call[f].key] # Null
  PROVE  heap[map[call[f].key]] \in Values
  <1> USE DEF IInv
  <1>1. call[f].key \in Keys /\ call[f] \in Calls
    BY FiberFacts
  <1>2. map[call[f].key] \in Cells /\ heap[map[call[f].key]] # Free
    BY <1>1 DEF TypeOK, NodesOwned
  <1>3. ASSUME heap[map[call[f].key]] = Torn PROVE FALSE
    <2>1. PICK g \in Fibers : pc[g] = "assign" /\ it[g] = map[call[f].key]
      BY <1>2, <1>3 DEF TornInv
    <2>2. call[g].key \in Keys /\ it[g] = map[call[g].key] /\ call[g].op = "Add"
      BY <2>1, FiberFacts DEF IterInv, CallInv
    <2>3. call[g].key = call[f].key
      BY <1>1, <2>1, <2>2 DEF NodesOwned
    <2>4. SubMap(g) = SubMap(f) /\ InCS(f) /\ InCS(g)
      BY <2>1, <2>3 DEF SubMap, InCS
    <2>5. g = f
      BY <2>2, <2>4, Exclusion
    <2> QED
      BY <2>1, <2>5
  <1> QED
    BY <1>2, <1>3 DEF TypeOK

LEMMA FindIInv ==
  ASSUME IInv, NEW f \in Fibers, Find(f) PROVE IInv'
  <1> USE DEF Find, Goto, IInv
  <1>0. call[f] \in Calls /\ call[f].key \in Keys
    BY FiberFacts
  <1>1. TypeOK'
    BY <1>0, LookupWhole DEF TypeOK, Labels
  <1>2. CallInv'
    BY <1>0 DEF TypeOK, CallInv
  <1>3. LockInv'
    BY <1>0 DEF TypeOK, LockInv, InCS, SubMap
  <1>4. IterInv'
    BY DEF TypeOK, IterInv
  <1>5. TornInv'
    BY DEF TypeOK, TornInv
  <1>6. NodesOwned'
    BY DEF NodesOwned
  <1> QED
    BY <1>1, <1>2, <1>3, <1>4, <1>5, <1>6

LEMMA LocateIInv ==
  ASSUME IInv, NEW f \in Fibers, Locate(f) PROVE IInv'
  <1> USE DEF Locate, Goto, IInv
  <1>0. call[f] \in Calls /\ call[f].key \in Keys
    BY FiberFacts
  <1>1. TypeOK'
    BY <1>0 DEF TypeOK, Labels
  <1>2. CallInv'
    BY <1>0 DEF TypeOK, CallInv
  <1>3. LockInv'
    BY <1>0 DEF TypeOK, LockInv, InCS, SubMap
  <1>4. IterInv'
    BY <1>0 DEF TypeOK, IterInv
  <1>5. TornInv'
    BY DEF TypeOK, TornInv
  <1>6. NodesOwned'
    BY DEF NodesOwned
  <1> QED
    BY <1>1, <1>2, <1>3, <1>4, <1>5, <1>6

\* While a fiber is about to change the map, no other fiber that is about to
\* change it works on the same key.
LEMMA OneMutatorPerKey ==
  ASSUME IInv, NEW f \in Fibers, NEW g \in Fibers,
         pc[f] \in {"commit", "assign"}, pc[g] \in {"commit", "assign"},
         call[f].key = call[g].key
  PROVE  f = g
  <1>1. InCS(f) /\ InCS(g) /\ SubMap(f) = SubMap(g)
    BY DEF InCS, SubMap
  <1>2. call[f].op # "Get"
    BY DEF IInv, CallInv
  <1> QED
    BY <1>1, <1>2, Exclusion DEF IInv

LEMMA TryEmplaceIInv ==
  ASSUME IInv, NEW f \in Fibers, TryEmplace(f) PROVE IInv'
  <1> USE DEF TryEmplace, Goto, IInv, Found
  <1>0. /\ call[f] \in Calls /\ call[f].key \in Keys /\ call[f].value \in Values
        /\ it[f] = map[call[f].key]
    BY FiberFacts DEF IterInv
  <1>a. CASE Found(f)
    <2>1. TypeOK'
      BY <1>0, <1>a, LookupWhole DEF TypeOK, Labels
    <2>2. CallInv'
      BY <1>0, <1>a DEF TypeOK, CallInv
    <2>3. LockInv'
      BY <1>0, <1>a DEF TypeOK, LockInv, InCS, SubMap
    <2>4. IterInv' /\ TornInv' /\ NodesOwned'
      BY <1>a DEF TypeOK, IterInv, TornInv, NodesOwned
    <2> QED
      BY <2>1, <2>2, <2>3, <2>4
  <1>b. CASE ~Found(f)
    <2>0. PICK node \in Cells : Insert(f, node) /\ it' = [it EXCEPT ![f] = node]
      BY <1>b
    <2> USE DEF Insert
    <2>1. TypeOK'
      BY <1>0, <1>b, <2>0 DEF TypeOK, Labels
    <2>2. CallInv'
      BY <1>0, <1>b, <2>0 DEF TypeOK, CallInv
    <2>3. LockInv'
      BY <1>0, <1>b, <2>0 DEF TypeOK, LockInv, InCS, SubMap
    <2>4. IterInv'
      BY <1>0, <1>b, <2>0, OneMutatorPerKey DEF TypeOK, IterInv
    <2>5. TornInv'
      BY <1>0, <1>b, <2>0, SentinelAssumption DEF TypeOK, TornInv, IterInv
    <2>6. NodesOwned'
      BY <1>0, <1>b, <2>0, SentinelAssumption DEF TypeOK, NodesOwned
    <2> QED
      BY <2>1, <2>2, <2>3, <2>4, <2>5, <2>6
  <1> QED
    BY <1>a, <1>b

LEMMA InsertOrAssignIInv ==
  ASSUME IInv, NEW f \in Fibers, InsertOrAssign(f) PROVE IInv'
  <1> USE DEF InsertOrAssign, Goto, IInv, Found
  <1>0. /\ call[f] \in Calls /\ call[f].key \in Keys /\ call[f].value \in Values
        /\ it[f] = map[call[f].key]
    BY FiberFacts DEF IterInv
  <1>a. CASE ~Found(f)
    <2>0. PICK node \in Cells : Insert(f, node)
      BY <1>a
    <2> USE DEF Insert
    <2>1. TypeOK'
      BY <1>0, <1>a, <2>0 DEF TypeOK, Labels
    <2>2. CallInv'
      BY <1>0, <1>a, <2>0 DEF TypeOK, CallInv
    <2>3. LockInv'
      BY <1>0, <1>a, <2>0 DEF TypeOK, LockInv, InCS, SubMap
    <2>4. IterInv'
      BY <1>0, <1>a, <2>0, OneMutatorPerKey DEF TypeOK, IterInv
    <2>5. TornInv'
      BY <1>0, <1>a, <2>0, SentinelAssumption DEF TypeOK, TornInv, IterInv
    <2>6. NodesOwned'
      BY <1>0, <1>a, <2>0, SentinelAssumption DEF TypeOK, NodesOwned
    <2> QED
      BY <2>1, <2>2, <2>3, <2>4, <2>5, <2>6
  <1>b. CASE Found(f)
    <2>1. TypeOK'
      BY <1>0, <1>b DEF TypeOK, Labels
    <2>2. CallInv'
      BY <1>0, <1>b DEF TypeOK, CallInv
    <2>3. LockInv'
      BY <1>0, <1>b DEF TypeOK, LockInv, InCS, SubMap
    <2>4. IterInv'
      BY <1>0, <1>b DEF TypeOK, IterInv
    <2>5. TornInv'
      <3>1. it[f] \in Cells /\ heap'[it[f]] = Torn /\ pc'[f] = "assign"
        BY <1>b DEF TypeOK
      <3>2. \A c \in Cells : c # it[f] => heap'[c] = heap[c]
        BY <1>b DEF TypeOK
      <3>3. \A g \in Fibers : g # f => pc'[g] = pc[g]
        BY <1>b DEF TypeOK
      <3>4. \A g \in Fibers : pc[g] = "assign" => it[g] \in Cells
        BY DEF TypeOK, IterInv
      <3> QED
        BY <3>1, <3>2, <3>3, <3>4, <1>b DEF TornInv
    <2>6. NodesOwned'
      BY <1>0, <1>b, SentinelAssumption DEF TypeOK, NodesOwned
    <2> QED
      BY <2>1, <2>2, <2>3, <2>4, <2>5, <2>6
  <1> QED
    BY <1>a, <1>b

LEMMA AssignEndIInv ==
  ASSUME IInv, NEW f \in Fibers, AssignEnd(f) PROVE IInv'
  <1> USE DEF AssignEnd, Goto, IInv
  <1>0. /\ call[f] \in Calls /\ call[f].key \in Keys /\ call[f].value \in Values
        /\ it[f] = map[call[f].key] /\ it[f] \in Cells
    BY FiberFacts DEF IterInv, CallInv, TypeOK
  <1>1. TypeOK'
    BY <1>0 DEF TypeOK, Labels
  <1>2. CallInv'
    BY <1>0 DEF TypeOK, CallInv
  <1>3. LockInv'
    BY <1>0 DEF TypeOK, LockInv, InCS, SubMap
  <1>4. IterInv'
    BY <1>0 DEF TypeOK, IterInv
  <1>5. TornInv'
    <2>1. ASSUME NEW g \in Fibers, g # f, pc[g] = "assign" PROVE it[g] # it[f]
      <3>1. call[g].key \in Keys /\ it[g] = map[call[g].key]
        BY <2>1, FiberFacts DEF IterInv
      <3>2. call[g].key # call[f].key
        BY <2>1, OneMutatorPerKey
      <3> QED
        BY <1>0, <3>1, <3>2, SentinelAssumption DEF NodesOwned
    <2> QED
      BY <1>0, <2>1, SentinelAssumption DEF TypeOK, TornInv
  <1>6. NodesOwned'
    BY <1>0, SentinelAssumption DEF TypeOK, NodesOwned
  <1> QED
    BY <1>1, <1>2, <1>3, <1>4, <1>5, <1>6

LEMMA EraseIInv ==
  ASSUME IInv, NEW f \in Fibers, Erase(f) PROVE IInv'
  <1> USE DEF Erase, Goto, IInv, Found
  <1>0. /\ call[f] \in Calls /\ call[f].key \in Keys
        /\ it[f] = map[call[f].key]
    BY FiberFacts DEF IterInv
  <1>1. TypeOK'
    BY <1>0 DEF TypeOK, Labels
  <1>2. CallInv'
    BY <1>0 DEF TypeOK, CallInv
  <1>3. LockInv'
    BY <1>0 DEF TypeOK, LockInv, InCS, SubMap
  <1>a. \A g \in Fibers : g # f => pc'[g] = pc[g]
    BY DEF TypeOK
  <1>b. pc'[f] = "unlock" /\ it' = it /\ call' = call
    BY DEF TypeOK
  <1>4. IterInv'
    <2>1. ASSUME NEW g \in Fibers, g # f, pc[g] \in {"commit", "assign"}
          PROVE  map'[call[g].key] = map[call[g].key]
      <3>1. call[g].key \in Keys /\ call[g].key # call[f].key
        BY <2>1, FiberFacts, OneMutatorPerKey
      <3> QED
        BY <1>0, <3>1 DEF TypeOK
    <2> QED
      BY <1>a, <1>b, <2>1 DEF IterInv
  <1>5. TornInv'
    <2>1. ASSUME NEW g \in Fibers, pc[g] = "assign" PROVE it[g] # it[f]
      <3>1. call[g].key \in Keys /\ it[g] = map[call[g].key] /\ it[g] # Null
        BY <2>1, FiberFacts DEF IterInv
      <3>2. call[g].key # call[f].key
        BY <2>1, OneMutatorPerKey
      <3> QED
        BY <1>0, <3>1, <3>2 DEF NodesOwned
    <2>2. \A c \in Cells : heap'[c] = heap[c] \/ (c = it[f] /\ heap'[c] = Free)
      BY DEF TypeOK
    <2>3. \A g \in Fibers : pc[g] = "assign" => it[g] \in Cells
      BY DEF TypeOK, IterInv
    <2>4. Torn # Free
      BY SentinelAssumption
    <2> QED
      BY <1>a, <1>b, <2>1, <2>2, <2>3, <2>4 DEF TornInv
  <1>6. NodesOwned'
    BY <1>0, SentinelAssumption DEF TypeOK, NodesOwned
  <1> QED
    BY <1>1, <1>2, <1>3, <1>4, <1>5, <1>6

LEMMA UnlockIInv ==
  ASSUME IInv, NEW f \in Fibers, Unlock(f) PROVE IInv'
  <1> USE DEF Unlock, Goto, IInv, Found
  <1>0. SubMap(f) \in Partitions /\ call[f] \in Calls
    BY FiberFacts
  <1>1. TypeOK'
    BY <1>0 DEF TypeOK, Labels
  <1>2. CallInv'
    BY <1>0 DEF TypeOK, CallInv
  <1>3. LockInv'
    BY <1>0, SentinelAssumption DEF TypeOK, LockInv, InCS, SubMap
  <1>4. IterInv'
    BY <1>0 DEF TypeOK, IterInv
  <1>5. TornInv'
    BY <1>0 DEF TypeOK, TornInv
  <1>6. NodesOwned'
    BY DEF NodesOwned
  <1> QED
    BY <1>1, <1>2, <1>3, <1>4, <1>5, <1>6

LEMMA DerefIInv ==
  ASSUME IInv, NEW f \in Fibers, Deref(f) PROVE IInv'
  <1> USE DEF Deref, Goto, IInv
  <1>0. it[f] \in Cells
    BY DEF TypeOK, CallInv
  <1>1. TypeOK'
    BY <1>0 DEF TypeOK, Labels
  <1>2. CallInv'
    BY DEF TypeOK, CallInv
  <1>3. LockInv'
    BY DEF TypeOK, LockInv, InCS, SubMap
  <1>4. IterInv' /\ TornInv' /\ NodesOwned'
    BY DEF TypeOK, IterInv, TornInv, NodesOwned
  <1> QED
    BY <1>1, <1>2, <1>3, <1>4

LEMMA StutterIInv == IInv /\ UNCHANGED vars => IInv'
  BY DEF IInv, vars, TypeOK, CallInv, LockInv, IterInv, TornInv, NodesOwned,
         InCS, SubMap, Hash, Calls, Partitions

\* The invariant holds in every reachable state, whatever the fibers, keys,
\* values, node addresses, partitions and hash codes are.
THEOREM Invariance == Spec => []IInv
  <1>1. IInv /\ [Next]_vars => IInv'
    <2> SUFFICES ASSUME IInv, [Next]_vars PROVE IInv'
      OBVIOUS
    <2>1. CASE UNCHANGED vars
      BY <2>1, StutterIInv
    <2>2. ASSUME NEW f \in Fibers,
                 \/ Invoke(f) \/ LockShared(f) \/ LockUnique(f)
                 \/ Find(f) \/ Locate(f)
                 \/ TryEmplace(f) \/ InsertOrAssign(f) \/ AssignEnd(f)
                 \/ Erase(f) \/ Unlock(f) \/ Deref(f)
          PROVE  IInv'
      BY <2>2, InvokeIInv, LockSharedIInv, LockUniqueIInv, FindIInv,
         LocateIInv, TryEmplaceIInv, InsertOrAssignIInv, AssignEndIInv,
         EraseIInv, UnlockIInv, DerefIInv
    <2> QED
      BY <2>1, <2>2 DEF Next
  <1> QED
    BY InitIInv, <1>1, PTL DEF Spec

\* Every variable keeps its type; in particular a lookup under the shared lock
\* never finds a value that another fiber is assigning or has erased.
THEOREM TypeCorrect == Spec => []TypeOK
  BY Invariance, PTL DEF IInv

\* However the calls interleave, no node is lost, shared by two keys or left
\* linked after it was freed.
THEOREM NodesOwnedAlways == Spec => []NodesOwned
  BY Invariance, PTL DEF IInv

-----------------------------------------------------------------------------
(* The keys of the map of zsets, whose owner only calls Get and GetOrCreate *)
(* on them.                                                                 *)

LEMMA HeldFacts ==
  ASSUME IInv, NEW f \in Fibers, pc[f] # "idle"
  PROVE  call[f].key \in Keys /\ call[f] \in Calls
  BY CallsType DEF IInv, CallInv

LEMMA CreateOnlyCalls ==
  ASSUME NEW c \in Calls, CreateOnly(c.key)
  PROVE  c.op \in {"Get", "GetOrCreate"}
  BY DEF CreateOnly, Calls

\* The entry of k, if there is one, is left alone.
Kept(k) == map[k] # Null => map'[k] = map[k] /\ heap'[map[k]] = heap[map[k]]

\* A new node takes nothing away: its address was free.
LEMMA InsertKeeps ==
  ASSUME IInv, NEW f \in Fibers, NEW node \in Cells, Insert(f, node),
         NEW k \in Keys, map[k] = Null \/ k # call[f].key
  PROVE  Kept(k)
  BY SentinelAssumption DEF Insert, Kept, IInv, NodesOwned, TypeOK

\* What Add and Del do to one key they do to no other.
LEMMA OthersKept ==
  ASSUME IInv, NEW f \in Fibers, InsertOrAssign(f) \/ AssignEnd(f) \/ Erase(f),
         NEW k \in Keys, k # call[f].key
  PROVE  Kept(k)
  <1>1. pc[f] \in {"commit", "assign"} /\ it[f] = map[call[f].key]
    BY DEF InsertOrAssign, AssignEnd, Erase, IInv, IterInv
  <1>2. call[f].key \in Keys
    BY <1>1, HeldFacts
  <1>3. map[k] # Null => map[k] # it[f]
    BY <1>1, <1>2 DEF IInv, NodesOwned
  <1>4. CASE InsertOrAssign(f) /\ ~Found(f)
    BY <1>4, InsertKeeps DEF InsertOrAssign
  <1>5. CASE InsertOrAssign(f) /\ Found(f)
    BY <1>3, <1>5 DEF InsertOrAssign, Kept, IInv, TypeOK
  <1>6. CASE AssignEnd(f)
    BY <1>3, <1>6 DEF AssignEnd, Kept, IInv, TypeOK
  <1>7. CASE Erase(f)
    BY <1>3, <1>7 DEF Erase, Found, Kept, IInv, TypeOK
  <1> QED
    BY <1>4, <1>5, <1>6, <1>7

LEMMA StepKeeps ==
  ASSUME IInv, [Next]_vars, NEW k \in Keys, CreateOnly(k)
  PROVE  Kept(k)
  <1>1. CASE UNCHANGED vars
    BY <1>1 DEF vars, Kept
  <1>2. ASSUME NEW f \in Fibers,
               \/ Invoke(f) \/ LockShared(f) \/ LockUnique(f) \/ Find(f)
               \/ Locate(f) \/ Unlock(f) \/ Deref(f)
        PROVE  Kept(k)
    BY <1>2 DEF Invoke, LockShared, LockUnique, Find, Locate, Unlock, Deref, Kept
  <1>3. ASSUME NEW f \in Fibers, TryEmplace(f) PROVE Kept(k)
    <2>1. CASE Found(f)
      BY <1>3, <2>1 DEF TryEmplace, Kept
    <2>2. CASE ~Found(f)
      <3>1. map[call[f].key] = Null
        BY <1>3, <2>2 DEF TryEmplace, Found, IInv, IterInv
      <3> QED
        BY <1>3, <2>2, <3>1, InsertKeeps DEF TryEmplace
    <2> QED
      BY <2>1, <2>2
  <1>4. ASSUME NEW f \in Fibers, InsertOrAssign(f) \/ AssignEnd(f) \/ Erase(f)
        PROVE  Kept(k)
    <2>1. pc[f] # "idle" /\ call[f].op \in {"Add", "Del"}
      BY <1>4 DEF InsertOrAssign, AssignEnd, Erase, IInv, CallInv
    <2>2. k # call[f].key
      BY <2>1, HeldFacts, CreateOnlyCalls
    <2> QED
      BY <1>4, <2>2, OthersKept
  <1> QED
    BY <1>1, <1>2, <1>3, <1>4 DEF Next

\* A zset, once GetOrCreate has made it, is never replaced or removed: the two
\* fibers that race to create a zset end up with the same one.
THEOREM ZsetCreatedOnce == Spec => CreatedOnce
  <1> DEFINE AllKept == \A k \in Keys :
               CreateOnly(k) /\ map[k] # Null =>
                 map'[k] = map[k] /\ heap'[map[k]] = heap[map[k]]
  <1>1. IInv /\ [Next]_vars => [AllKept]_vars
    BY StepKeeps DEF Kept
  <1> QED
    BY <1>1, Invariance, PTL DEF Spec, CreatedOnce

\* The strengthening of PointersStayValid: the pointer is right from the moment
\* the lookup has found it.
Pointing(f) ==
  /\ CreateOnly(call[f].key)
  /\ pc[f] = "held" \/ (pc[f] = "unlock" /\ it[f] # Null)

PtrInv ==
  \A f \in Fibers :
    Pointing(f) => map[call[f].key] = it[f] /\ heap[it[f]] = seen[f]

\* A fiber that points stays right when it does not move itself.
LEMMA OtherPointer ==
  ASSUME IInv, PtrInv, [Next]_vars, NEW g \in Fibers, Pointing(g)
  PROVE  map'[call[g].key] = it[g] /\ heap'[it[g]] = seen[g]
  <1>1. pc[g] # "idle" /\ it[g] # Null
    BY DEF Pointing, IInv, CallInv
  <1>2. call[g].key \in Keys /\ map[call[g].key] = it[g] /\ heap[it[g]] = seen[g]
    BY <1>1, HeldFacts DEF PtrInv
  <1>3. Kept(call[g].key)
    BY <1>2, StepKeeps DEF Pointing
  <1> QED
    BY <1>1, <1>2, <1>3 DEF Kept

\* The lookup of GetOrCreate points to the node it has found or made.
LEMMA TryEmplacePoints ==
  ASSUME IInv, NEW f \in Fibers, TryEmplace(f)
  PROVE  map'[call[f].key] = it'[f] /\ heap'[it'[f]] = seen'[f]
  <1>1. call[f].key \in Keys /\ it[f] = map[call[f].key]
    BY HeldFacts DEF TryEmplace, IInv, IterInv
  <1>2. CASE Found(f)
    BY <1>1, <1>2 DEF TryEmplace, IInv, TypeOK
  <1>3. CASE ~Found(f)
    BY <1>1, <1>3 DEF TryEmplace, Insert, IInv, TypeOK
  <1> QED
    BY <1>2, <1>3

LEMMA PtrInvStep ==
  ASSUME IInv, PtrInv, [Next]_vars PROVE PtrInv'
  <1> SUFFICES ASSUME NEW g \in Fibers, Pointing(g)'
               PROVE  (map[call[g].key] = it[g] /\ heap[it[g]] = seen[g])'
    BY DEF PtrInv
  <1>1. CASE UNCHANGED <<pc[g], call[g], it[g], seen[g]>>
    BY <1>1, OtherPointer DEF Pointing
  <1>2. ASSUME NEW f \in Fibers, f # g,
               \/ Invoke(f) \/ LockShared(f) \/ LockUnique(f) \/ Find(f)
               \/ Locate(f) \/ TryEmplace(f) \/ InsertOrAssign(f)
               \/ AssignEnd(f) \/ Erase(f) \/ Unlock(f) \/ Deref(f)
        PROVE  UNCHANGED <<pc[g], call[g], it[g], seen[g]>>
    BY <1>2 DEF Invoke, LockShared, LockUnique, Find, Locate, TryEmplace,
                InsertOrAssign, AssignEnd, Erase, Unlock, Deref, Goto, IInv, TypeOK
  <1>3. CASE Invoke(g) \/ LockShared(g) \/ LockUnique(g) \/ Locate(g) \/ Deref(g)
    BY <1>3 DEF Invoke, LockShared, LockUnique, Locate, Deref, Goto, Pointing,
                IInv, TypeOK
  <1>4. CASE Unlock(g)
    BY <1>4 DEF Unlock, Goto, Found, Pointing, PtrInv, IInv, TypeOK
  <1>5. CASE Find(g)
    BY <1>5 DEF Find, Goto, Pointing, IInv, TypeOK
  <1>6. CASE TryEmplace(g)
    BY <1>6, TryEmplacePoints DEF TryEmplace
  <1>7. CASE InsertOrAssign(g) \/ AssignEnd(g) \/ Erase(g)
    <2>1. pc[g] # "idle" /\ call[g].op \in {"Add", "Del"} /\ call' = call
      BY <1>7 DEF InsertOrAssign, AssignEnd, Erase, IInv, CallInv
    <2> QED
      BY <2>1, HeldFacts, CreateOnlyCalls DEF Pointing
  <1>8. CASE UNCHANGED vars
    BY <1>1, <1>8 DEF vars
  <1> QED
    BY <1>1, <1>2, <1>3, <1>4, <1>5, <1>6, <1>7, <1>8 DEF Next

\* The shared_ptr<Zset>* that ZsetManager::Add and Range hold after the lock is
\* released is still the key's, whatever other fibers do to the map.
THEOREM ZsetPointersStayValid == Spec => []PointersStayValid
  <1>1. Init => PtrInv
    BY DEF Init, PtrInv, Pointing
  <1>2. IInv /\ PtrInv /\ [Next]_vars => PtrInv'
    BY PtrInvStep
  <1>3. PtrInv => PointersStayValid
    BY DEF PtrInv, Pointing, PointersStayValid
  <1> QED
    BY <1>1, <1>2, <1>3, Invariance, PTL DEF Spec

-----------------------------------------------------------------------------
(* HashKv implements AtomicMap.                                             *)

\* What the refinement mapping's Dict is, case by case.
DictFacts ==
  /\ Dict = [k \in Keys |-> Dict[k]]
  /\ \A k \in Keys :
       /\ map[k] = Null => Dict[k] = Null
       /\ \A g \in Fibers :
            pc[g] = "assign" /\ call[g].key = k => Dict[k] = call[g].value
       /\ map[k] # Null /\ (\A g \in Fibers : pc[g] = "assign" => call[g].key # k)
            => Dict[k] = heap[map[k]]

LEMMA DictCases == IInv => DictFacts
  <1> SUFFICES ASSUME IInv PROVE DictFacts
    OBVIOUS
  <1>1. Dict = [k \in Keys |-> Dict[k]]
    BY DEF Dict
  <1>2. ASSUME NEW k \in Keys, map[k] = Null PROVE Dict[k] = Null
    BY <1>2 DEF Dict
  <1>3. ASSUME NEW k \in Keys, NEW g \in Fibers, pc[g] = "assign", call[g].key = k
        PROVE  Dict[k] = call[g].value
    <2> DEFINE h == CHOOSE f \in Fibers : pc[f] = "assign" /\ call[f].key = k
    <2>1. h \in Fibers /\ pc[h] = "assign" /\ call[h].key = k
      BY <1>3
    <2>2. h = g
      BY <1>3, <2>1, OneMutatorPerKey
    <2>3. map[k] # Null
      BY <1>3 DEF IInv, IterInv
    <2>4. Dict[k] = call[h].value
      BY <1>3, <2>3 DEF Dict
    <2> QED
      BY <2>2, <2>4
  <1>4. ASSUME NEW k \in Keys, map[k] # Null,
               \A g \in Fibers : pc[g] = "assign" => call[g].key # k
        PROVE  Dict[k] = heap[map[k]]
    BY <1>4 DEF Dict
  <1> QED
    BY <1>1, <1>2, <1>3, <1>4 DEF DictFacts

LEMMA DictCasesNext == IInv' => DictFacts'
  BY DictCases, PTL

\* A step that leaves the map, its nodes and the fibers in an assignment alone
\* leaves the abstract map alone.
LEMMA DictKept ==
  ASSUME IInv, IInv', NEW f \in Fibers,
         map' = map, heap' = heap, pc[f] # "assign", pc'[f] # "assign",
         \A g \in Fibers \ {f} : pc'[g] = pc[g] /\ call'[g] = call[g]
  PROVE  Dict' = Dict
  <1>1. DictFacts /\ DictFacts'
    BY DictCases, DictCasesNext
  <1>2. ASSUME NEW k \in Keys PROVE Dict'[k] = Dict[k]
    <2>1. CASE map[k] = Null
      BY <1>1, <2>1 DEF DictFacts
    <2>2. CASE \E g \in Fibers : pc[g] = "assign" /\ call[g].key = k
      BY <1>1, <2>2 DEF DictFacts
    <2>3. CASE map[k] # Null /\ \A g \in Fibers : pc[g] = "assign" => call[g].key # k
      <3>1. \A g \in Fibers : pc'[g] = "assign" => call'[g].key # k
        BY <2>3
      <3> QED
        BY <1>1, <2>3, <3>1 DEF DictFacts
    <2> QED
      BY <2>1, <2>2, <2>3
  <1> QED
    BY <1>1, <1>2 DEF DictFacts

\* A step of f that changes only the entry of its own key, and leaves the other
\* fibers where they are, changes the abstract map at that key at most.
LEMMA DictElsewhere ==
  ASSUME IInv, IInv', NEW f \in Fibers,
         pc[f] \in {"commit", "assign"},
         call' = call,
         \A g \in Fibers \ {f} : pc'[g] = pc[g],
         \A k \in Keys \ {call[f].key} : map'[k] = map[k],
         \A k \in Keys \ {call[f].key} : map[k] # Null => heap'[map[k]] = heap[map[k]]
  PROVE  \A k \in Keys \ {call[f].key} : Dict'[k] = Dict[k]
  <1>1. DictFacts /\ DictFacts'
    BY DictCases, DictCasesNext
  <1> SUFFICES ASSUME NEW k \in Keys \ {call[f].key} PROVE Dict'[k] = Dict[k]
    OBVIOUS
  <1>2. CASE map[k] = Null
    BY <1>1, <1>2 DEF DictFacts
  <1>3. CASE \E g \in Fibers : pc[g] = "assign" /\ call[g].key = k
    <2>1. PICK g \in Fibers : pc[g] = "assign" /\ call[g].key = k
      BY <1>3
    <2>2. g # f /\ pc'[g] = "assign" /\ call'[g].key = k
      BY <2>1
    <2> QED
      BY <1>1, <2>1, <2>2 DEF DictFacts
  <1>4. CASE map[k] # Null /\ \A g \in Fibers : pc[g] = "assign" => call[g].key # k
    <2>1. \A g \in Fibers : pc'[g] = "assign" => call'[g].key # k
      BY <1>4
    <2> QED
      BY <1>1, <1>4, <2>1 DEF DictFacts
  <1> QED
    BY <1>2, <1>3, <1>4

\* Dict as a function update.
LEMMA DictUpdate ==
  ASSUME IInv, IInv', NEW key \in Keys, NEW v,
         \A k \in Keys \ {key} : Dict'[k] = Dict[k], Dict'[key] = v
  PROVE  Dict' = [Dict EXCEPT ![key] = v]
  <1>1. DictFacts /\ DictFacts'
    BY DictCases, DictCasesNext
  <1>2. Dict' = [k \in Keys |-> Dict'[k]] /\ Dict = [k \in Keys |-> Dict[k]]
    BY <1>1 DEF DictFacts
  <1> QED
    BY <1>2

\* Phase after a step of f that goes to a label.
LEMMA PhaseUpdate ==
  ASSUME TypeOK, NEW f \in Fibers, NEW label \in Labels, Goto(f, label)
  PROVE  Phase' = [Phase EXCEPT ![f] =
                     IF label \in {"lock", "find", "commit"} THEN "called"
                     ELSE IF label \in {"assign", "unlock"} THEN "done"
                     ELSE "idle"]
  BY DEF TypeOK, Phase, Goto

LEMMA InvokeRefines ==
  ASSUME IInv, IInv', NEW f \in Fibers, Invoke(f) PROVE Atomic!Invoke(f)
  <1>1. Dict' = Dict
    BY DictKept DEF Invoke, Goto, IInv, TypeOK
  <1>2. Phase' = [Phase EXCEPT ![f] = "called"]
    BY PhaseUpdate DEF Invoke, IInv, Labels
  <1>3. Phase[f] = "idle"
    BY DEF Invoke, Phase
  <1>4. \E c \in Atomic!Calls : call' = [call EXCEPT ![f] = c]
    BY DEF Invoke, Calls, Atomic!Calls
  <1> QED
    BY <1>1, <1>2, <1>3, <1>4 DEF Invoke, Atomic!Invoke

\* Waiting for the lock, taking it, locating the node and the caller's read are
\* steps the abstract map does not see.
LEMMA SilentRefines ==
  ASSUME IInv, IInv', NEW f \in Fibers,
         LockShared(f) \/ LockUnique(f) \/ Locate(f) \/ Deref(f)
  PROVE  UNCHANGED <<Dict, call, Phase, seen>>
  <1> USE DEF LockShared, LockUnique, Locate, Deref
  <1>1. Dict' = Dict
    BY DictKept DEF Goto, IInv, TypeOK
  <1>2. Phase' = Phase
    BY DEF Phase, Goto, IInv, TypeOK
  <1> QED
    BY <1>1, <1>2

LEMMA UnlockRefines ==
  ASSUME IInv, IInv', NEW f \in Fibers, Unlock(f) PROVE Atomic!Return(f)
  <1>1. Dict' = Dict
    BY DictKept DEF Unlock, Goto, IInv, TypeOK
  <1>2. Phase' = [Phase EXCEPT ![f] = "idle"] /\ Phase[f] = "done"
    BY DEF Phase, Unlock, Goto, IInv, TypeOK
  <1> QED
    BY <1>1, <1>2 DEF Unlock, Atomic!Return

\* The abstract value of the key f works on, before f changes it.
LEMMA DictHere ==
  ASSUME IInv, NEW f \in Fibers, pc[f] \in {"find", "commit"}
  PROVE  Dict[call[f].key] =
           IF map[call[f].key] = Null THEN Null ELSE heap[map[call[f].key]]
  <1>1. call[f].key \in Keys /\ DictFacts
    BY HeldFacts, DictCases
  <1>2. ASSUME map[call[f].key] # Null, NEW g \in Fibers, pc[g] = "assign"
        PROVE  call[g].key # call[f].key
    <2> SUFFICES ASSUME call[g].key = call[f].key PROVE FALSE
      OBVIOUS
    <2>1. InCS(f) /\ InCS(g) /\ SubMap(f) = SubMap(g) /\ call[g].op # "Get"
      BY <1>2 DEF InCS, SubMap, IInv, CallInv
    <2>2. g = f
      BY <2>1, Exclusion DEF IInv
    <2> QED
      BY <1>2, <2>2
  <1> QED
    BY <1>1, <1>2 DEF DictFacts

LEMMA FindRefines ==
  ASSUME IInv, IInv', NEW f \in Fibers, Find(f) PROVE Atomic!Apply(f)
  <1>1. Dict' = Dict
    BY DictKept DEF Find, Goto, IInv, TypeOK
  <1>2. Phase' = [Phase EXCEPT ![f] = "done"] /\ Phase[f] = "called"
    BY DEF Phase, Find, Goto, IInv, TypeOK
  <1>3. seen' = [seen EXCEPT ![f] = Dict[call[f].key]]
    BY DictHere DEF Find
  <1>4. Atomic!Get(f)
    BY <1>1, <1>3 DEF Find, Atomic!Get
  <1> QED
    BY <1>2, <1>4 DEF Find, Atomic!Apply

\* A new node changes no other key's value.
LEMMA InsertElsewhere ==
  ASSUME IInv, NEW f \in Fibers, NEW node \in Cells, Insert(f, node),
         call[f].key \in Keys
  PROVE  /\ \A k \in Keys \ {call[f].key} : map'[k] = map[k]
         /\ \A k \in Keys \ {call[f].key} :
              map[k] # Null => heap'[map[k]] = heap[map[k]]
         /\ map'[call[f].key] = node
         /\ heap'[node] = call[f].value
  BY SentinelAssumption DEF Insert, IInv, TypeOK, NodesOwned

\* A fiber at its commit has the key to itself in the next state too.
LEMMA NoAssigner ==
  ASSUME IInv, NEW f \in Fibers, pc[f] = "commit", call' = call,
         pc' = [pc EXCEPT ![f] = "unlock"]
  PROVE  \A g \in Fibers : pc'[g] = "assign" => call'[g].key # call[f].key
  BY OneMutatorPerKey DEF IInv, TypeOK

LEMMA TryEmplaceRefines ==
  ASSUME IInv, IInv', NEW f \in Fibers, TryEmplace(f) PROVE Atomic!Apply(f)
  <1>0. pc[f] = "commit" /\ call' = call /\ pc' = [pc EXCEPT ![f] = "unlock"]
    BY DEF TryEmplace, Goto
  <1>1. /\ call[f] \in Calls /\ call[f].key \in Keys
        /\ it[f] = map[call[f].key]
        /\ call[f].op = "GetOrCreate" /\ call[f].value \in Values
    BY HeldFacts, CallsType DEF TryEmplace, IInv, IterInv
  <1>2. Phase' = [Phase EXCEPT ![f] = "done"] /\ Phase[f] = "called"
    BY <1>0 DEF Phase, IInv, TypeOK
  <1>3. DictFacts /\ DictFacts'
    BY DictCases, DictCasesNext
  <1>4. CASE Found(f)
    <2>1. Dict' = Dict
      BY <1>0, <1>4, DictKept DEF TryEmplace, IInv, TypeOK
    <2>2. Dict[call[f].key] = heap[it[f]] /\ heap[it[f]] \in Values
      BY <1>0, <1>1, <1>4, DictHere, LookupWhole DEF Found
    <2>3. Dict[call[f].key] # Null
      BY <2>2, SentinelAssumption
    <2>4. Dict' = [Dict EXCEPT ![call[f].key] =
                     IF @ = Null THEN call[f].value ELSE @]
      BY <1>1, <1>3, <2>1, <2>3 DEF DictFacts
    <2>5. seen' = [seen EXCEPT ![f] = Dict'[call[f].key]]
      BY <1>4, <2>1, <2>2 DEF TryEmplace
    <2> QED
      BY <1>0, <1>1, <1>2, <2>4, <2>5 DEF Atomic!Apply, Atomic!GetOrCreate
  <1>5. CASE ~Found(f)
    <2>0. PICK node \in Cells : Insert(f, node)
      BY <1>5 DEF TryEmplace
    <2>1. /\ \A k \in Keys \ {call[f].key} : map'[k] = map[k]
          /\ \A k \in Keys \ {call[f].key} :
               map[k] # Null => heap'[map[k]] = heap[map[k]]
          /\ map'[call[f].key] = node
          /\ heap'[node] = call[f].value
      BY <1>1, <2>0, InsertElsewhere
    <2>2. \A k \in Keys \ {call[f].key} : Dict'[k] = Dict[k]
      BY <1>0, <2>1, DictElsewhere DEF IInv, TypeOK
    <2>3. Dict'[call[f].key] = call[f].value
      BY <1>0, <1>1, <1>3, <2>1, NoAssigner, SentinelAssumption DEF DictFacts
    <2>4. Dict[call[f].key] = Null
      BY <1>0, <1>1, <1>5, DictHere DEF Found
    <2>5. Dict' = [Dict EXCEPT ![call[f].key] = call[f].value]
      BY <1>1, <2>2, <2>3, DictUpdate
    <2>6. Dict' = [Dict EXCEPT ![call[f].key] =
                     IF @ = Null THEN call[f].value ELSE @]
      BY <2>4, <2>5
    <2>7. seen' = [seen EXCEPT ![f] = Dict'[call[f].key]]
      BY <1>5, <2>3 DEF TryEmplace
    <2> QED
      BY <1>0, <1>1, <1>2, <2>6, <2>7 DEF Atomic!Apply, Atomic!GetOrCreate
  <1> QED
    BY <1>4, <1>5

\* insert_or_assign takes effect at its first store: from then on no other
\* fiber can look at the node before the assignment is complete.
LEMMA InsertOrAssignRefines ==
  ASSUME IInv, IInv', NEW f \in Fibers, InsertOrAssign(f) PROVE Atomic!Apply(f)
  <1>0. pc[f] = "commit" /\ call' = call /\ seen' = seen
    BY DEF InsertOrAssign
  <1>1. /\ call[f] \in Calls /\ call[f].key \in Keys
        /\ it[f] = map[call[f].key]
        /\ call[f].op = "Add" /\ call[f].value \in Values
    BY HeldFacts, CallsType DEF InsertOrAssign, IInv, IterInv
  <1>2. Phase' = [Phase EXCEPT ![f] = "done"] /\ Phase[f] = "called"
    BY <1>0 DEF Phase, IInv, TypeOK, InsertOrAssign, Goto
  <1>3. DictFacts /\ DictFacts'
    BY DictCases, DictCasesNext
  <1>4. Dict' = [Dict EXCEPT ![call[f].key] = call[f].value]
    <2>a. CASE ~Found(f)
      <3>0. PICK node \in Cells : Insert(f, node)
        BY <2>a DEF InsertOrAssign
      <3>1. /\ \A k \in Keys \ {call[f].key} : map'[k] = map[k]
            /\ \A k \in Keys \ {call[f].key} :
                 map[k] # Null => heap'[map[k]] = heap[map[k]]
            /\ map'[call[f].key] = node
            /\ heap'[node] = call[f].value
        BY <1>1, <3>0, InsertElsewhere
      <3>2. pc' = [pc EXCEPT ![f] = "unlock"]
        BY <2>a DEF InsertOrAssign, Goto
      <3>3. \A k \in Keys \ {call[f].key} : Dict'[k] = Dict[k]
        BY <1>0, <3>1, <3>2, DictElsewhere DEF IInv, TypeOK
      <3>4. Dict'[call[f].key] = call[f].value
        BY <1>0, <1>1, <1>3, <3>1, <3>2, NoAssigner, SentinelAssumption
           DEF DictFacts
      <3> QED
        BY <1>1, <3>3, <3>4, DictUpdate
    <2>b. CASE Found(f)
      <3>1. /\ map' = map /\ heap' = [heap EXCEPT ![it[f]] = Torn]
            /\ pc' = [pc EXCEPT ![f] = "assign"]
        BY <2>b DEF InsertOrAssign, Goto
      <3>2. \A k \in Keys \ {call[f].key} :
              map[k] # Null => heap'[map[k]] = heap[map[k]]
        BY <1>1, <3>1 DEF IInv, TypeOK, NodesOwned
      <3>3. \A k \in Keys \ {call[f].key} : Dict'[k] = Dict[k]
        BY <1>0, <3>1, <3>2, DictElsewhere DEF IInv, TypeOK
      <3>4. pc'[f] = "assign" /\ call'[f].key = call[f].key
        BY <1>0, <3>1 DEF IInv, TypeOK
      <3>5. Dict'[call[f].key] = call[f].value
        BY <1>0, <1>1, <1>3, <3>4 DEF DictFacts
      <3> QED
        BY <1>1, <3>3, <3>5, DictUpdate
    <2> QED
      BY <2>a, <2>b
  <1> QED
    BY <1>0, <1>1, <1>2, <1>4 DEF Atomic!Apply, Atomic!Add

LEMMA AssignEndRefines ==
  ASSUME IInv, IInv', NEW f \in Fibers, AssignEnd(f)
  PROVE  UNCHANGED <<Dict, call, Phase, seen>>
  <1>0. /\ pc[f] = "assign" /\ call' = call /\ seen' = seen /\ map' = map
        /\ pc' = [pc EXCEPT ![f] = "unlock"]
        /\ heap' = [heap EXCEPT ![it[f]] = call[f].value]
    BY DEF AssignEnd, Goto
  <1>1. /\ call[f].key \in Keys /\ it[f] = map[call[f].key] /\ it[f] # Null
        /\ it[f] \in Cells
    BY <1>0, HeldFacts DEF IInv, IterInv, TypeOK
  <1>2. DictFacts /\ DictFacts'
    BY DictCases, DictCasesNext
  <1>3. \A k \in Keys \ {call[f].key} :
          map[k] # Null => heap'[map[k]] = heap[map[k]]
    BY <1>0, <1>1 DEF IInv, TypeOK, NodesOwned
  <1>4. \A k \in Keys \ {call[f].key} : Dict'[k] = Dict[k]
    BY <1>0, <1>3, DictElsewhere DEF IInv, TypeOK
  <1>5. Dict[call[f].key] = call[f].value
    BY <1>0, <1>1, <1>2 DEF DictFacts
  <1>6. \A g \in Fibers : pc'[g] = "assign" => call'[g].key # call[f].key
    BY <1>0, OneMutatorPerKey DEF IInv, TypeOK
  <1>7. Dict'[call[f].key] = heap'[it[f]]
    BY <1>0, <1>1, <1>2, <1>6 DEF DictFacts
  <1>8. heap'[it[f]] = call[f].value
    BY <1>0, <1>1 DEF IInv, TypeOK
  <1>9. Dict' = Dict
    BY <1>2, <1>4, <1>5, <1>7, <1>8 DEF DictFacts
  <1>10. Phase' = Phase
    BY <1>0 DEF Phase, IInv, TypeOK
  <1> QED
    BY <1>0, <1>9, <1>10

LEMMA EraseRefines ==
  ASSUME IInv, IInv', NEW f \in Fibers, Erase(f) PROVE Atomic!Apply(f)
  <1>0. /\ pc[f] = "commit" /\ call' = call /\ seen' = seen
        /\ pc' = [pc EXCEPT ![f] = "unlock"]
    BY DEF Erase, Goto
  <1>1. /\ call[f].key \in Keys /\ it[f] = map[call[f].key]
        /\ call[f].op = "Del"
    BY HeldFacts DEF Erase, IInv, IterInv
  <1>2. Phase' = [Phase EXCEPT ![f] = "done"] /\ Phase[f] = "called"
    BY <1>0 DEF Phase, IInv, TypeOK
  <1>3. DictFacts /\ DictFacts'
    BY DictCases, DictCasesNext
  <1>4. \A k \in Keys \ {call[f].key} :
          /\ map'[k] = map[k]
          /\ map[k] # Null => heap'[map[k]] = heap[map[k]]
    BY <1>1 DEF Erase, Found, IInv, TypeOK, NodesOwned
  <1>5. \A k \in Keys \ {call[f].key} : Dict'[k] = Dict[k]
    BY <1>0, <1>4, DictElsewhere DEF IInv, TypeOK
  <1>6. map'[call[f].key] = Null
    BY <1>1 DEF Erase, Found, IInv, TypeOK
  <1>7. Dict'[call[f].key] = Null
    BY <1>1, <1>3, <1>6 DEF DictFacts
  <1>8. Dict' = [Dict EXCEPT ![call[f].key] = Null]
    BY <1>1, <1>5, <1>7, DictUpdate
  <1> QED
    BY <1>0, <1>1, <1>2, <1>8 DEF Atomic!Apply, Atomic!Del

LEMMA InitRefines == Init => Atomic!Init
  <1> SUFFICES ASSUME Init PROVE Atomic!Init
    OBVIOUS
  <1>1. Dict = [k \in Keys |-> Null]
    BY DEF Init, Dict
  <1>2. Phase = [f \in Fibers |-> "idle"]
    BY DEF Init, Phase
  <1> QED
    BY <1>1, <1>2 DEF Init, Atomic!Init

\* Every call of HashKv behaves as one indivisible step between its invocation
\* and its return, for any number of fibers, keys and partitions: the partition
\* locks make Get, GetOrCreate, Add and Del linearizable.
THEOREM Refinement == Spec => LinearizableMap
  <1>1. IInv /\ IInv' /\ [Next]_vars => [Atomic!Next]_(Atomic!vars)
    <2> SUFFICES ASSUME IInv, IInv', [Next]_vars
                 PROVE  [Atomic!Next]_(Atomic!vars)
      OBVIOUS
    <2>1. CASE UNCHANGED vars
      <3>1. Dict' = Dict /\ Phase' = Phase
        BY <2>1 DEF vars, Dict, Phase
      <3> QED
        BY <2>1, <3>1 DEF vars, Atomic!vars
    <2>2. ASSUME NEW f \in Fibers,
                 \/ LockShared(f) \/ LockUnique(f) \/ Locate(f)
                 \/ Deref(f) \/ AssignEnd(f)
          PROVE  UNCHANGED Atomic!vars
      BY <2>2, SilentRefines, AssignEndRefines DEF Atomic!vars
    <2>3. ASSUME NEW f \in Fibers,
                 \/ Invoke(f) \/ Find(f) \/ TryEmplace(f)
                 \/ InsertOrAssign(f) \/ Erase(f) \/ Unlock(f)
          PROVE  Atomic!Next
      <3>1. Atomic!Invoke(f) \/ Atomic!Apply(f) \/ Atomic!Return(f)
        BY <2>3, InvokeRefines, FindRefines, TryEmplaceRefines,
           InsertOrAssignRefines, EraseRefines, UnlockRefines
      <3> QED
        BY <3>1 DEF Atomic!Next
    <2> QED
      BY <2>1, <2>2, <2>3 DEF Next
  <1> QED
    BY InitRefines, <1>1, Invariance, PTL DEF Spec, LinearizableMap, Atomic!Spec

=============================================================================
