-------------------------------- MODULE Zset --------------------------------
(***************************************************************************)
(* One sorted set: the handlers of src/cache/handler/zsert_handler.cc,     *)
(* ZsetManager and Zset (src/cache/storage/memory/zset.h), on top of the   *)
(* skip list.  A Zset keeps the score of each member in _value_map and a   *)
(* node for each Add in _score_range_map; nodes are never removed, and a   *)
(* node counts only while its score is the one in _value_map.              *)
(*                                                                         *)
(* _zset_map and _value_map are HashKv maps, whose calls are single steps. *)
(* The pointer to a score that Range gets from _value_map is read after    *)
(* the lock is gone: if Del erases the member in between, the read may     *)
(* yield anything.  Nothing synchronizes the calls of Insert.              *)
(***************************************************************************)
EXTENDS Integers, Sequences, FiniteSets

CONSTANTS
  Writers,    \* the fibers of /zadd
  Readers,    \* the fibers of /zrange
  Removers,   \* the fibers of /zrmv
  Members,
  Scores,
  MaxNodes, kMaxHeight, Null, Uninit

ASSUME ScoreAssumption == Scores \subseteq Int

ASSUME BoundAssumption == kMaxHeight \in Nat \ {0} /\ MaxNodes \in Nat

Keys == [score : Scores, value : Members \cup {Null}]

ASSUME SentinelAssumption ==
  /\ Null \notin Members \cup Scores \cup Keys \cup 0 .. MaxNodes \cup {Uninit}
  /\ Null \notin [op : {"Seek", "Contains", "Prev", "SeekToLast"}, key : Keys \cup {Null}]
  /\ Uninit \notin 0 .. MaxNodes
  /\ Writers \cap Readers = {} /\ (Writers \cup Readers) \cap Removers = {}

VARIABLES
  key, next, allocated, max_height, heights,           \* the skip list
  pc, op, target, x, level, prev, height, node,
  exists,     \* _zset_map has the zset
  value_map,  \* _value_map: the score of each member, or Null
  zpc,        \* where each request is
  arg,        \* its parameters
  ptr,        \* what Get has returned to Range: "null", "score" or "raced"
  result,     \* what Range has collected
  stable      \* history: the members nobody has touched since Range began

Before(a, b) == a.score < b.score

SL == INSTANCE SkipList

skiplist == <<key, next, allocated, max_height, heights,
              pc, op, target, x, level, prev, height, node>>
zset == <<exists, value_map, ptr, result, stable>>
vars == <<skiplist, zset, zpc, arg>>

Requests == Writers \cup Readers \cup Removers

Init ==
  /\ SL!Init
  /\ exists = FALSE
  /\ value_map = [v \in Members |-> Null]
  /\ zpc = [f \in Requests |-> "idle"]
  /\ arg = [f \in Requests |-> Null]
  /\ ptr = [r \in Readers |-> "null"]
  /\ result = [r \in Readers |-> <<>>]
  /\ stable = [r \in Readers |-> {}]

Goto(f, label) == zpc' = [zpc EXCEPT ![f] = label]

\* The members that are not stable any more after a write to v.
Touch(v) == stable' = [r \in Readers |-> stable[r] \ {v}]

-----------------------------------------------------------------------------
(* ZaddHandler, ZsetManager::Add and Zset::Add.                             *)

ZaddCall(w) ==
  /\ zpc[w] = "idle"
  /\ allocated + Cardinality({u \in Writers : zpc[u] # "idle"}) < MaxNodes
  /\ \E s \in Scores, v \in Members :
       arg' = [arg EXCEPT ![w] = [score |-> s, value |-> v]]
  /\ Goto(w, "find")
  /\ UNCHANGED <<skiplist, zset>>

\* Mutant: the result of Get is not looked at.
ZsetFoundAlways == TRUE

\* _zset_map.Get(key) is not null.
ZsetFound == exists

AddFind(w) ==
  /\ w \in Writers
  /\ zpc[w] = "find"
  /\ Goto(w, IF ZsetFound THEN "map" ELSE "create")
  /\ UNCHANGED <<skiplist, zset, arg>>

\* _zset_map.GetOrCreate: the zset of another fiber wins if it came first.
AddCreate(w) ==
  /\ zpc[w] = "create"
  /\ exists' = TRUE
  /\ Goto(w, "map")
  /\ UNCHANGED <<skiplist, value_map, ptr, result, stable, arg>>

AddScore(w) ==
  /\ zpc[w] = "map"
  /\ value_map' = [value_map EXCEPT ![arg[w].value] = arg[w].score]
  /\ Touch(arg[w].value)
  /\ Goto(w, "insert")
  /\ UNCHANGED <<skiplist, exists, ptr, result, arg>>

AddInsert(w) ==
  /\ zpc[w] = "insert"
  /\ SL!Insert(w, arg[w])
  /\ Goto(w, "link")
  /\ UNCHANGED <<zset, arg>>

AddStep(w) ==
  /\ zpc[w] = "link"
  /\ SL!Search(w) \/ SL!Link(w)
  /\ UNCHANGED <<zset, zpc, arg>>

AddReturn(w) ==
  /\ zpc[w] = "link"
  /\ pc[w] = "idle"
  /\ arg' = [arg EXCEPT ![w] = Null]
  /\ Goto(w, "idle")
  /\ UNCHANGED <<skiplist, zset>>

-----------------------------------------------------------------------------
(* ZrangeHandler, ZsetManager::Range and Zset::Range.                       *)

\* The members whose Adds have all returned.
Settled ==
  {v \in Members : /\ value_map[v] # Null
                   /\ \A w \in Writers :
                        zpc[w] \in {"insert", "link"} => arg[w].value # v}

ZrangeCall(r) ==
  /\ zpc[r] = "idle"
  /\ \E lo, hi \in Scores : arg' = [arg EXCEPT ![r] = [min |-> lo, max |-> hi]]
  /\ stable' = [stable EXCEPT ![r] = Settled]
  /\ Goto(r, "find")
  /\ UNCHANGED <<skiplist, exists, value_map, ptr, result>>

\* No zset: 404.  Otherwise iter.Seek(min_node).
RangeFind(r) ==
  /\ r \in Readers
  /\ zpc[r] = "find"
  /\ \/ /\ ~exists
        /\ Goto(r, "done")
        /\ UNCHANGED skiplist
     \/ /\ exists
        /\ SL!Seek(r, [score |-> arg[r].min, value |-> Null])
        /\ Goto(r, "loop")
  /\ UNCHANGED <<zset, arg>>

RangeStep(r) ==
  /\ r \in Readers
  /\ zpc[r] = "loop"
  /\ SL!Search(r)
  /\ UNCHANGED <<zset, zpc, arg>>

\* Mutant: the upper end of the range is left out.
BelowMax(r) == key[node[r]].score < arg[r].max

UpToMax(r) == key[node[r]].score <= arg[r].max

\* iter.Valid() && iter.key().score <= max_score.
InRange(r) == node[r] # Null /\ UpToMax(r)

RangeGet(r) ==
  /\ r \in Readers
  /\ zpc[r] = "loop"
  /\ pc[r] = "idle"
  /\ \/ /\ InRange(r)
        /\ ptr' = [ptr EXCEPT ![r] =
                     IF value_map[key[node[r]].value] = Null THEN "null"
                     ELSE "score"]
        /\ Goto(r, "compare")
     \/ /\ ~InRange(r)
        /\ Goto(r, "done")
        /\ UNCHANGED ptr
  /\ UNCHANGED <<skiplist, exists, value_map, result, stable, arg>>

\* *score == iter.key().score, then iter.Next().
RangeCompare(r) ==
  /\ zpc[r] = "compare"
  /\ \/ /\ \/ ptr[r] = "raced"
           \/ ptr[r] = "score" /\ value_map[key[node[r]].value] = key[node[r]].score
        /\ result' = [result EXCEPT ![r] = Append(@, key[node[r]])]
     \/ /\ \/ ptr[r] \in {"raced", "null"}
           \/ ptr[r] = "score" /\ value_map[key[node[r]].value] # key[node[r]].score
        /\ UNCHANGED result
  /\ ptr' = [ptr EXCEPT ![r] = "null"]
  /\ SL!IterNext(r)
  /\ Goto(r, "loop")
  /\ UNCHANGED <<exists, value_map, stable, arg>>

RangeReturn(r) ==
  /\ zpc[r] = "done"
  /\ arg' = [arg EXCEPT ![r] = Null]
  /\ result' = [result EXCEPT ![r] = <<>>]
  /\ stable' = [stable EXCEPT ![r] = {}]
  /\ Goto(r, "idle")
  /\ UNCHANGED <<skiplist, exists, value_map, ptr>>

-----------------------------------------------------------------------------
(* ZrmvHandler, ZsetManager::Del and Zset::Del.                             *)

ZrmvCall(d) ==
  /\ zpc[d] = "idle"
  /\ \E v \in Members : arg' = [arg EXCEPT ![d] = v]
  /\ Goto(d, "find")
  /\ UNCHANGED <<skiplist, zset>>

\* An erased member leaves the pointers to its score dangling.
Del(d) ==
  /\ d \in Removers
  /\ zpc[d] = "find"
  /\ \/ /\ ~exists
        /\ UNCHANGED <<value_map, ptr, stable>>
     \/ /\ exists
        /\ value_map' = [value_map EXCEPT ![arg[d]] = Null]
        /\ ptr' = [r \in Readers |->
                     IF ptr[r] = "score" /\ key[node[r]].value = arg[d]
                     THEN "raced" ELSE ptr[r]]
        /\ Touch(arg[d])
  /\ arg' = [arg EXCEPT ![d] = Null]
  /\ Goto(d, "idle")
  /\ UNCHANGED <<skiplist, exists, result>>

-----------------------------------------------------------------------------
Add(w) ==
  \/ ZaddCall(w) \/ AddFind(w) \/ AddCreate(w) \/ AddScore(w)
  \/ AddInsert(w) \/ AddStep(w) \/ AddReturn(w)

Range(r) ==
  \/ ZrangeCall(r) \/ RangeFind(r) \/ RangeStep(r)
  \/ RangeGet(r) \/ RangeCompare(r) \/ RangeReturn(r)

Next ==
  \/ \E w \in Writers : Add(w)
  \/ \E r \in Readers : Range(r)
  \/ \E d \in Removers : ZrmvCall(d) \/ Del(d)

Spec == Init /\ [][Next]_vars

-----------------------------------------------------------------------------
\* Every variable has its type, and the zset that Add works on is there: the
\* pointer that Get or GetOrCreate has returned is not null.
TypeOK ==
  /\ SL!TypeOK
  /\ exists \in BOOLEAN
  /\ value_map \in [Members -> Scores \cup {Null}]
  /\ zpc \in [Requests -> {"idle", "find", "create", "map", "insert", "link",
                           "loop", "compare", "done"}]
  /\ \A w \in Writers : zpc[w] \in {"map", "insert", "link"} => exists
  /\ ptr \in [Readers -> {"null", "score", "raced"}]
  /\ \A r \in Readers : /\ result[r] \in Seq([score : Scores, value : Members])
                        /\ stable[r] \subseteq Members

\* What /zrange answers is sorted by score and within the bounds asked for,
\* however many members are added while it iterates.
RangeSorted ==
  \A r \in Readers : \A i \in DOMAIN result[r] :
    /\ result[r][i].score \in arg[r].min .. arg[r].max
    /\ \A j \in 1 .. i : result[r][j].score <= result[r][i].score

\* /zrange answers every member within the bounds that was added before it began
\* and that nobody updates or removes before it ends.
RangeComplete ==
  \A r \in Readers :
    zpc[r] = "done" =>
      \A v \in stable[r] :
        value_map[v] \in arg[r].min .. arg[r].max =>
          \E i \in DOMAIN result[r] : result[r][i].value = v

\* A member of a set is answered once, with its one score.
MembersOnce ==
  \A r \in Readers : \A i, j \in DOMAIN result[r] :
    result[r][i].value = result[r][j].value => i = j
=============================================================================
