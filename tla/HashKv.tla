------------------------------- MODULE HashKv -------------------------------
(***************************************************************************)
(* HashKv<V>, the partitioned hash map of                                  *)
(* src/cache/storage/memory/concurrent_hash_map.h.  A key belongs to the   *)
(* partition Hash(key); a call locks that partition's SharedMutex (shared  *)
(* for Get, exclusive for the others), works on the partition's            *)
(* std::unordered_map and unlocks it on return.  Get and GetOrCreate       *)
(* return a pointer into the map's node, which the caller dereferences     *)
(* after the lock is gone; the caller's read is the action Deref.          *)
(*                                                                         *)
(* The nodes of the unordered_map are addresses in Cells.  An insertion    *)
(* allocates any address that is free, so an erased node's address can be  *)
(* used again for another key.  The owner of a map is described by Ops[k], *)
(* the operations it calls on k: Get, Add and Del for KvManager::_memdb    *)
(* and Zset::_value_map; Get and GetOrCreate for ZsetManager::_zset_map.   *)
(* An instance with keys of both kinds stands for both sorts of map, and   *)
(* more: its partitions mix keys that stay with keys that come and go.     *)
(***************************************************************************)
EXTENDS Integers

CONSTANTS
  Fibers,        \* the fibers that call the map
  Keys,
  Values,
  Ops,           \* the operations the owner of the map calls on each key
  Cells,         \* addresses of unordered_map nodes
  HashCode,      \* std::hash of each key
  PartitionNum,  \* _partition_num
  Null,          \* nullptr, and no fiber
  Torn,          \* the content of a node whose value is being assigned
  Free           \* the content of a node that has been erased

ASSUME PartitionAssumption ==
  /\ PartitionNum \in Nat \ {0}
  /\ HashCode \in [Keys -> Nat]

ASSUME SentinelAssumption ==
  /\ Null \notin Values \cup Cells \cup Fibers
  /\ Torn \notin Values \cup {Null, Free}
  /\ Free \notin Values \cup {Null}

ASSUME OwnerAssumption ==
  Ops \in [Keys -> SUBSET {"Get", "GetOrCreate", "Add", "Del"}]

VARIABLES
  map,      \* the node that holds each key, over all partitions, or Null
  heap,     \* the value in each node, Torn or Free
  readers,  \* the fibers that hold each partition's mutex shared
  writer,   \* the fiber that holds it exclusively, or Null
  pc,       \* where each fiber is in its call
  call,     \* the call each fiber has made last
  it,       \* the fiber's iterator, and the pointer it is returned
  seen,     \* the value the fiber's lookup has found under the lock
  got       \* the value the caller has read through the pointer

vars == <<map, heap, readers, writer, pc, call, it, seen, got>>

Partitions == 0 .. PartitionNum - 1

Hash(k) == HashCode[k] % PartitionNum

\* The partition a fiber's call works on: sub_map = _map_vec[Hash(key)].
SubMap(f) == Hash(call[f].key)

Calls ==
  {c \in [op : {"Get", "Del"}, key : Keys, value : {Null}]
           \cup [op : {"Add", "GetOrCreate"}, key : Keys, value : Values] :
     c.op \in Ops[c.key]}

Goto(f, label) == pc' = [pc EXCEPT ![f] = label]

Init ==
  /\ map = [k \in Keys |-> Null]
  /\ heap = [c \in Cells |-> Free]
  /\ readers = [p \in Partitions |-> {}]
  /\ writer = [p \in Partitions |-> Null]
  /\ pc = [f \in Fibers |-> "idle"]
  /\ call = [f \in Fibers |-> Null]
  /\ it = [f \in Fibers |-> Null]
  /\ seen = [f \in Fibers |-> Null]
  /\ got = [f \in Fibers |-> Null]

Invoke(f) ==
  /\ pc[f] = "idle"
  /\ \E c \in Calls : call' = [call EXCEPT ![f] = c]
  /\ it' = [it EXCEPT ![f] = Null]
  /\ seen' = [seen EXCEPT ![f] = Null]
  /\ got' = [got EXCEPT ![f] = Null]
  /\ Goto(f, "lock")
  /\ UNCHANGED <<map, heap, readers, writer>>

\* Mutants: the shared lock is not taken; a writer does not wait for the other
\* writers; a writer does not wait for the readers.
CanLockSharedAlways(f) == TRUE
CanLockUniqueDespiteWriter(f) == readers[SubMap(f)] = {}
CanLockUniqueDespiteReaders(f) == writer[SubMap(f)] = Null

CanLockShared(f) == writer[SubMap(f)] = Null

CanLockUnique(f) == writer[SubMap(f)] = Null /\ readers[SubMap(f)] = {}

\* std::shared_lock lock(sub_map.m) in Get.
LockShared(f) ==
  /\ pc[f] = "lock"
  /\ call[f].op = "Get"
  /\ CanLockShared(f)
  /\ readers' = [readers EXCEPT ![SubMap(f)] = @ \cup {f}]
  /\ Goto(f, "find")
  /\ UNCHANGED <<map, heap, writer, call, it, seen, got>>

\* std::unique_lock lock(sub_map.m) in GetOrCreate, Add and Del.
LockUnique(f) ==
  /\ pc[f] = "lock"
  /\ call[f].op # "Get"
  /\ CanLockUnique(f)
  /\ writer' = [writer EXCEPT ![SubMap(f)] = f]
  /\ Goto(f, "find")
  /\ UNCHANGED <<map, heap, readers, call, it, seen, got>>

\* sub_map.map.find(key); a hit yields the address of the node's value.
Find(f) ==
  LET node == map[call[f].key]
  IN  /\ pc[f] = "find"
      /\ call[f].op = "Get"
      /\ it' = [it EXCEPT ![f] = node]
      /\ seen' = [seen EXCEPT ![f] = IF node = Null THEN Null ELSE heap[node]]
      /\ Goto(f, "unlock")
      /\ UNCHANGED <<map, heap, readers, writer, call, got>>

\* The lookup that try_emplace, insert_or_assign and erase begin with.
Locate(f) ==
  /\ pc[f] = "find"
  /\ call[f].op # "Get"
  /\ it' = [it EXCEPT ![f] = map[call[f].key]]
  /\ Goto(f, "commit")
  /\ UNCHANGED <<map, heap, readers, writer, call, seen, got>>

\* Mutant: the lookup's hit is ignored, so every call inserts.
FoundNever(f) == FALSE

Found(f) == it[f] # Null

\* A new node at any free address, linked into the partition's map.
Insert(f, node) ==
  /\ heap[node] = Free
  /\ heap' = [heap EXCEPT ![node] = call[f].value]
  /\ map' = [map EXCEPT ![call[f].key] = node]

\* Mutant: insert_or_assign in place of try_emplace.
TryEmplaceAssigns(f) ==
  /\ pc[f] = "commit"
  /\ call[f].op = "GetOrCreate"
  /\ \/ /\ Found(f)
        /\ heap' = [heap EXCEPT ![it[f]] = call[f].value]
        /\ UNCHANGED <<map, it>>
     \/ /\ ~Found(f)
        /\ \E node \in Cells :
             /\ Insert(f, node)
             /\ it' = [it EXCEPT ![f] = node]
  /\ seen' = [seen EXCEPT ![f] = call[f].value]
  /\ Goto(f, "unlock")
  /\ UNCHANGED <<readers, writer, call, got>>

\* try_emplace: keeps the value that is there, inserts one if there is none.
TryEmplace(f) ==
  /\ pc[f] = "commit"
  /\ call[f].op = "GetOrCreate"
  /\ \/ /\ Found(f)
        /\ seen' = [seen EXCEPT ![f] = heap[it[f]]]
        /\ UNCHANGED <<map, heap, it>>
     \/ /\ ~Found(f)
        /\ \E node \in Cells :
             /\ Insert(f, node)
             /\ it' = [it EXCEPT ![f] = node]
        /\ seen' = [seen EXCEPT ![f] = call[f].value]
  /\ Goto(f, "unlock")
  /\ UNCHANGED <<readers, writer, call, got>>

\* insert_or_assign: a new node, or an assignment to the node that is there.
InsertOrAssign(f) ==
  /\ pc[f] = "commit"
  /\ call[f].op = "Add"
  /\ \/ /\ ~Found(f)
        /\ \E node \in Cells : Insert(f, node)
        /\ Goto(f, "unlock")
     \/ /\ Found(f)
        /\ heap' = [heap EXCEPT ![it[f]] = Torn]
        /\ Goto(f, "assign")
        /\ UNCHANGED map
  /\ UNCHANGED <<readers, writer, call, it, seen, got>>

\* The end of the assignment: a std::string takes more than one store.
AssignEnd(f) ==
  /\ pc[f] = "assign"
  /\ heap' = [heap EXCEPT ![it[f]] = call[f].value]
  /\ Goto(f, "unlock")
  /\ UNCHANGED <<map, readers, writer, call, it, seen, got>>

\* erase(key): unlinks the node and gives its memory back.
Erase(f) ==
  /\ pc[f] = "commit"
  /\ call[f].op = "Del"
  /\ \/ /\ ~Found(f)
        /\ UNCHANGED <<map, heap>>
     \/ /\ Found(f)
        /\ map' = [map EXCEPT ![call[f].key] = Null]
        /\ heap' = [heap EXCEPT ![it[f]] = Free]
  /\ Goto(f, "unlock")
  /\ UNCHANGED <<readers, writer, call, it, seen, got>>

\* The return: the lock's destructor runs and the caller gets its pointer.
Unlock(f) ==
  /\ pc[f] = "unlock"
  /\ readers' = [readers EXCEPT ![SubMap(f)] = @ \ {f}]
  /\ writer' = [writer EXCEPT ![SubMap(f)] = IF @ = f THEN Null ELSE @]
  /\ Goto(f, IF call[f].op \in {"Get", "GetOrCreate"} /\ Found(f)
             THEN "held" ELSE "idle")
  /\ UNCHANGED <<map, heap, call, it, seen, got>>

\* The caller reads the value through the pointer, without any lock.
Deref(f) ==
  /\ pc[f] = "held"
  /\ got' = [got EXCEPT ![f] = heap[it[f]]]
  /\ Goto(f, "idle")
  /\ UNCHANGED <<map, heap, readers, writer, call, it, seen>>

Next ==
  \E f \in Fibers :
    \/ Invoke(f) \/ LockShared(f) \/ LockUnique(f)
    \/ Find(f) \/ Locate(f)
    \/ TryEmplace(f) \/ InsertOrAssign(f) \/ AssignEnd(f) \/ Erase(f)
    \/ Unlock(f) \/ Deref(f)

Spec == Init /\ [][Next]_vars

-----------------------------------------------------------------------------
Labels ==
  {"idle", "lock", "find", "commit", "assign", "unlock", "held"}

\* Every variable has its type; what a lookup finds under the lock is a whole
\* value, never a node that another fiber is assigning to or has erased.
TypeOK ==
  /\ map \in [Keys -> Cells \cup {Null}]
  /\ heap \in [Cells -> Values \cup {Torn, Free}]
  /\ readers \in [Partitions -> SUBSET Fibers]
  /\ writer \in [Partitions -> Fibers \cup {Null}]
  /\ pc \in [Fibers -> Labels]
  /\ call \in [Fibers -> Calls \cup {Null}]
  /\ it \in [Fibers -> Cells \cup {Null}]
  /\ seen \in [Fibers -> Values \cup {Null}]
  /\ got \in [Fibers -> Values \cup {Null, Torn, Free}]

\* A key's node is never a freed one, two keys never share a node, and a node
\* in use is always reachable from the map: however calls on the same key
\* interleave, try_emplace, insert_or_assign and erase neither lose nor free
\* twice nor leak a node.
NodesOwned ==
  /\ \A k \in Keys : map[k] # Null => heap[map[k]] # Free
  /\ \A k1, k2 \in Keys :
       map[k1] # Null /\ map[k1] = map[k2] => k1 = k2
  /\ \A c \in Cells : heap[c] # Free => \E k \in Keys : map[k] = c

\* The keys of the map of zsets: never assigned to, never deleted.
CreateOnly(k) == Ops[k] \subseteq {"Get", "GetOrCreate"}

\* For a key of the map of zsets: the pointer a caller holds after the lock is
\* released is still the key's node, and the value behind it is the one the
\* lookup returned, whatever happens meanwhile to the other keys of the
\* partition.  Both callers that race to create a zset hold the same one.
PointersStayValid ==
  \A f \in Fibers :
    pc[f] = "held" /\ CreateOnly(call[f].key) =>
      map[call[f].key] = it[f] /\ heap[it[f]] = seen[f]

\* For a key of the map of zsets: a zset, once created, is never replaced or
\* removed, also when the nodes of other keys are erased and used again.
CreatedOnce ==
  [][\A k \in Keys :
       CreateOnly(k) /\ map[k] # Null =>
         map'[k] = map[k] /\ heap'[map[k]] = heap[map[k]]]_vars

-----------------------------------------------------------------------------
(* The refinement mapping to AtomicMap: a call takes effect when Get has    *)
(* looked the key up, or when the exclusive calls commit.                   *)

Dict ==
  [k \in Keys |->
     IF map[k] = Null THEN Null
     ELSE IF \E f \in Fibers : pc[f] = "assign" /\ call[f].key = k
          THEN call[CHOOSE f \in Fibers :
                      pc[f] = "assign" /\ call[f].key = k].value
          ELSE heap[map[k]]]

Phase ==
  [f \in Fibers |->
     IF pc[f] \in {"lock", "find", "commit"} THEN "called"
     ELSE IF pc[f] \in {"assign", "unlock"} THEN "done"
     ELSE "idle"]

Atomic == INSTANCE AtomicMap WITH dict <- Dict, phase <- Phase, res <- seen

\* Every call of HashKv takes effect in one step between its invocation and its
\* return: calls on the same key from different fibers are linearizable.
LinearizableMap == Atomic!Spec

=============================================================================
