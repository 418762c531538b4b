----------------------------- MODULE ZsetSteps ------------------------------
(***************************************************************************)
(* The inductive invariant of Zset for one /zadd at a time, and that every *)
(* step of a request keeps it, given what the step does to the skip list   *)
(* (ListKeeps), which ZsetProofs takes from SkipListProofs.                *)
(***************************************************************************)
EXTENDS Zset, TLAPS

List == INSTANCE SkipListView

OneWriter == \A v, w \in Writers : v = w

(***************************************************************************)
(* The inductive invariant.                                                *)
(***************************************************************************)
Entries == [score : Scores, value : Members]

Entry(v) == [score |-> value_map[v], value |-> v]

\* A node of the list has the key k.
Stored(k) == \E n \in List!InList(0) : key[n] = k

Typed ==
  /\ exists \in BOOLEAN
  /\ value_map \in [Members -> Scores \cup {Null}]
  /\ zpc \in [Requests -> {"idle", "find", "create", "map", "insert", "link",
                           "loop", "compare", "done"}]
  /\ DOMAIN arg = Requests
  /\ ptr \in [Readers -> {"null", "score", "raced"}]
  /\ DOMAIN result = Readers /\ DOMAIN stable = Readers

\* Only Add makes nodes, which have members.
NodesInv == \A n \in List!InList(0) : key[n] \in Entries

\* A member's score has its node in the list, or the Add that stored it has yet to
\* link it.
MapInv ==
  \A v \in Members :
    value_map[v] # Null =>
      /\ exists
      /\ \/ Stored(Entry(v))
         \/ \E w \in Writers : zpc[w] \in {"insert", "link"} /\ arg[w] = Entry(v)

WriterInv(w) ==
  /\ zpc[w] \in {"idle", "find", "create", "map", "insert", "link"}
  /\ zpc[w] # "idle" => arg[w] \in Entries
  /\ zpc[w] \in {"map", "insert", "link"} => exists
  /\ pc[w] # "idle" => zpc[w] = "link" /\ target[w] = arg[w]
  /\ zpc[w] = "link" => List!Inserting(w) \/ Stored(arg[w])

RemoverInv(d) ==
  /\ zpc[d] \in {"idle", "find"}
  /\ zpc[d] = "find" => arg[d] \in Members

\* The stable members that Range has to answer.
Due(r) == {v \in stable[r] : value_map[v] \in arg[r].min .. arg[r].max}

Answered(r, v) == \E i \in DOMAIN result[r] : result[r][i].value = v

\* The iterator still comes to a node with the member's score.
Ahead(r, v) ==
  \E n \in List!InList(0) : key[n] = Entry(v) /\ List!Leads(node[r], n)

\* Range is at a node, which comes after those it has answered.
AtNode(r) ==
  node[r] # Null =>
    /\ key[node[r]].score >= arg[r].min
    /\ \A i \in DOMAIN result[r] : result[r][i].score <= key[node[r]].score

Iterating(r) ==
  \/ zpc[r] = "loop" /\ pc[r] = "idle"
  \/ zpc[r] = "compare"

ReaderInv(r) ==
  /\ zpc[r] \in {"idle", "find", "loop", "compare", "done"}
  /\ zpc[r] # "idle" => arg[r] \in [min : Scores, max : Scores]
  /\ result[r] \in Seq(Entries)
  /\ zpc[r] \in {"idle", "find"} => result[r] = <<>>
  /\ pc[r] # "idle" =>
       /\ zpc[r] = "loop" /\ op[r] = "Seek" /\ result[r] = <<>>
       /\ target[r] = [score |-> arg[r].min, value |-> Null]
  /\ \A v \in stable[r] : v \in Members /\ value_map[v] # Null /\ Stored(Entry(v))
  /\ \A i \in DOMAIN result[r] :
       /\ result[r][i].score \in arg[r].min .. arg[r].max
       /\ \A j \in 1 .. i : result[r][j].score <= result[r][i].score
  /\ Iterating(r) => AtNode(r) /\ \A v \in Due(r) : Answered(r, v) \/ Ahead(r, v)
  /\ zpc[r] = "compare" =>
       /\ node[r] # Null /\ key[node[r]].score <= arg[r].max
       /\ key[node[r]].value \in stable[r] => ptr[r] = "score"
  /\ zpc[r] = "done" => \A v \in Due(r) : Answered(r, v)

IInv ==
  /\ List!Iterators /\ Typed /\ NodesInv /\ MapInv
  /\ \A w \in Writers : WriterInv(w)
  /\ \A d \in Removers : RemoverInv(d)
  /\ \A r \in Readers : ReaderInv(r)

(***************************************************************************)
(* What the steps of the requests do to the skip list.                     *)
(***************************************************************************)
\* What the steps of a fiber leave of the list, and of the other fibers.
ListStep(f) ==
  /\ List!Iterators' /\ List!Grows
  /\ \A g \in (Writers \cup Readers) \ {f} : List!Rests(g)

Same == List!InList(0)' = List!InList(0) /\ UNCHANGED key

Inserts(w) ==
  /\ ListStep(w) /\ Same
  /\ List!Inserting(w)' /\ target'[w] = arg[w]

Links(w) == ListStep(w) /\ List!Progress(w)

Seeks(r, k) ==
  /\ ListStep(r) /\ Same
  /\ pc'[r] = "search" /\ op'[r] = "Seek" /\ target'[r] = k

Searches(r) ==
  /\ ListStep(r) /\ Same /\ UNCHANGED <<op, target>>
  /\ \/ UNCHANGED <<pc, node>>
     \/ pc'[r] = "idle" /\ List!Lands(r, node'[r])

Iterates(r) ==
  /\ ListStep(r) /\ Same /\ UNCHANGED <<pc, op, target>>
  /\ node[r] \in List!InList(0) /\ List!Moves(node[r], node'[r])

ListKeeps ==
  /\ \A w \in Writers : (AddInsert(w) => Inserts(w)) /\ (AddStep(w) => Links(w))
  /\ \A r \in Readers :
       /\ \A k \in Keys : SL!Seek(r, k) => Seeks(r, k)
       /\ SL!Search(r) /\ op[r] = "Seek" => Searches(r)
       /\ SL!IterNext(r) => Iterates(r)

LEMMA ListStutters ==
  ASSUME IInv, UNCHANGED skiplist
  PROVE  List!Iterators' /\ List!Grows /\ Same /\ \A f : List!Rests(f)
  <1>1. UNCHANGED <<key, next, allocated, max_height, heights, pc, op, target, x, level,
                    prev, height, node>>
    BY Zenon DEF skiplist
  <1>2. List!InList(0)' = List!InList(0)
    BY Zenon, <1>1 DEF List!InList
  <1>3. List!Iterators'
    BY Zenon, <1>1, <1>2 DEF IInv, List!Iterators
  <1> QED
    BY Zenon, <1>1, <1>2, <1>3 DEF List!Grows, List!Rests, Same

(***************************************************************************)
(* What a step leaves alone.                                               *)
(***************************************************************************)
LEMMA Parts ==
  /\ Writers \subseteq Requests /\ Readers \subseteq Requests /\ Removers \subseteq Requests
  /\ \A w \in Writers : w \notin Readers /\ w \notin Removers
  /\ \A r \in Readers : r \notin Writers /\ r \notin Removers
  /\ \A d \in Removers : d \notin Writers /\ d \notin Readers
  BY Zenon, SentinelAssumption DEF Requests

LEMMA StoredStays ==
  ASSUME List!Grows, NEW k, Stored(k)
  PROVE  Stored(k)'
  BY Zenon DEF List!Grows, Stored

\* Where an iterator is.
LEMMA IteratorAt ==
  ASSUME IInv, NEW r \in Readers, node[r] # Null
  PROVE  /\ node[r] \in List!InList(0) /\ key[node[r]] \in Entries
         /\ key[node[r]].score \in Int /\ key[node[r]].value \in Members
  <1>1. node[r] \in List!InList(0)
    BY Zenon DEF IInv, List!Iterators
  <1>2. key[node[r]] \in Entries
    BY Zenon, <1>1 DEF IInv, NodesInv
  <1> QED
    BY <1>1, <1>2, ScoreAssumption DEF Entries

Stays(f) == zpc'[f] = zpc[f] /\ arg'[f] = arg[f]

\* A reader's members that are still stable have their scores.
Undisturbed(r) ==
  /\ List!Rests(r) /\ Stays(r) /\ result'[r] = result[r]
  /\ \A v \in stable'[r] : v \in stable[r] /\ value_map'[v] = value_map[v]
  /\ zpc[r] = "compare" /\ key[node[r]].value \in stable'[r] => ptr'[r] = ptr[r]

LEMMA LeadsStays ==
  ASSUME List!Grows, NEW q, NEW m \in List!InList(0), q = Null \/ q \in List!InList(0),
         List!Leads(q, m)
  PROVE  List!Leads(q, m)'
  BY Zenon DEF List!Grows, List!Leads, List!Ahead

LEMMA DueStays ==
  ASSUME IInv, NEW r \in Readers, Undisturbed(r), NEW v \in Due(r)'
  PROVE  /\ v \in Due(r) /\ value_map'[v] = value_map[v] /\ Entry(v)' = Entry(v)
         /\ Answered(r, v)' <=> Answered(r, v)
  <1>1. v \in stable'[r] /\ v \in stable[r] /\ value_map'[v] = value_map[v] /\ arg'[r] = arg[r]
    BY Zenon DEF Due, Undisturbed, Stays
  <1>2. v \in Due(r)
    BY Zenon, <1>1 DEF Due
  <1>3. Entry(v)' = Entry(v)
    BY Zenon, <1>1 DEF Entry
  <1>4. Answered(r, v)' <=> Answered(r, v)
    BY Zenon DEF Answered, Undisturbed
  <1> QED
    BY Zenon, <1>1, <1>2, <1>3, <1>4

LEMMA AheadStays ==
  ASSUME IInv, List!Grows, NEW r \in Readers, node'[r] = node[r], NEW v,
         Entry(v)' = Entry(v), Ahead(r, v)
  PROVE  Ahead(r, v)'
  <1>1. PICK n \in List!InList(0) : key[n] = Entry(v) /\ List!Leads(node[r], n)
    BY Zenon DEF Ahead
  <1>2. PICK q : q = node[r]
    OBVIOUS
  <1>3. q = Null \/ q \in List!InList(0)
    BY Zenon, <1>2, IteratorAt
  <1>4. List!Leads(q, n)'
    BY Zenon, <1>1, <1>2, <1>3, LeadsStays
  <1>5. n \in List!InList(0)' /\ key'[n] = key[n]
    BY Zenon DEF List!Grows
  <1> QED
    BY Zenon, <1>1, <1>2, <1>4, <1>5 DEF Ahead

LEMMA ReaderKept ==
  ASSUME IInv, List!Grows, NEW r \in Readers, Undisturbed(r)
  PROVE  ReaderInv(r)'
  <1>1. /\ pc'[r] = pc[r] /\ op'[r] = op[r] /\ target'[r] = target[r] /\ node'[r] = node[r]
        /\ zpc'[r] = zpc[r] /\ arg'[r] = arg[r] /\ result'[r] = result[r]
    BY Zenon DEF Undisturbed, Stays, List!Rests
  <1>2. ReaderInv(r)
    BY Zenon DEF IInv
  <1>3. ASSUME NEW v \in stable'[r]
        PROVE  v \in Members /\ value_map'[v] # Null /\ Stored(Entry(v))'
    <2>1. v \in stable[r] /\ value_map'[v] = value_map[v]
      BY Zenon DEF Undisturbed
    <2>2. PICK k : k = Entry(v)
      OBVIOUS
    <2>3. v \in Members /\ value_map[v] # Null /\ Stored(k)
      BY Zenon, <1>2, <2>1, <2>2 DEF ReaderInv
    <2>4. Entry(v)' = k
      BY Zenon, <2>1, <2>2 DEF Entry
    <2>5. Stored(k)'
      BY Zenon, <2>3, StoredStays
    <2> QED
      BY Zenon, <2>1, <2>3, <2>4, <2>5 DEF Stored
  <1>4. node[r] # Null => key'[node[r]] = key[node[r]]
    BY Zenon, IteratorAt DEF List!Grows
  <1>5. Iterating(r)' => AtNode(r)' /\ \A v \in Due(r)' : Answered(r, v)' \/ Ahead(r, v)'
    <2> SUFFICES ASSUME Iterating(r)'
                 PROVE  AtNode(r)' /\ \A v \in Due(r)' : Answered(r, v)' \/ Ahead(r, v)'
      OBVIOUS
    <2>1. Iterating(r)
      BY Zenon, <1>1 DEF Iterating
    <2>2. AtNode(r) /\ \A v \in Due(r) : Answered(r, v) \/ Ahead(r, v)
      BY Zenon, <1>2, <2>1 DEF ReaderInv
    <2>3. AtNode(r)'
      BY Zenon, <1>1, <1>4, <2>2 DEF AtNode
    <2>4. ASSUME NEW v \in Due(r)' PROVE Answered(r, v)' \/ Ahead(r, v)'
      BY Zenon, <1>1, <2>2, DueStays, AheadStays
    <2> QED
      BY Zenon, <2>3, <2>4
  <1>6. zpc'[r] = "compare" =>
          /\ node'[r] # Null /\ key'[node'[r]].score <= arg'[r].max
          /\ key'[node'[r]].value \in stable'[r] => ptr'[r] = "score"
    <2> SUFFICES ASSUME zpc[r] = "compare"
                 PROVE  /\ node[r] # Null /\ key'[node[r]].score <= arg[r].max
                        /\ key'[node[r]].value \in stable'[r] => ptr'[r] = "score"
      BY Zenon, <1>1
    <2>1. /\ node[r] # Null /\ key[node[r]].score <= arg[r].max
          /\ key[node[r]].value \in stable[r] => ptr[r] = "score"
      BY Zenon, <1>2 DEF ReaderInv
    <2> QED
      BY Zenon, <1>4, <2>1 DEF Undisturbed
  <1>7. zpc'[r] = "done" => \A v \in Due(r)' : Answered(r, v)'
    BY Zenon, <1>1, <1>2, DueStays DEF ReaderInv
  <1>8. /\ zpc'[r] \in {"idle", "find", "loop", "compare", "done"}
        /\ zpc'[r] # "idle" => arg'[r] \in [min : Scores, max : Scores]
        /\ result'[r] \in Seq(Entries)
        /\ zpc'[r] \in {"idle", "find"} => result'[r] = <<>>
        /\ pc'[r] # "idle" =>
             /\ zpc'[r] = "loop" /\ op'[r] = "Seek" /\ result'[r] = <<>>
             /\ target'[r] = [score |-> arg'[r].min, value |-> Null]
        /\ \A i \in DOMAIN result'[r] :
             /\ result'[r][i].score \in arg'[r].min .. arg'[r].max
             /\ \A j \in 1 .. i : result'[r][j].score <= result'[r][i].score
    BY Zenon, <1>1, <1>2 DEF ReaderInv
  <1> QED
    BY Zenon, <1>3, <1>5, <1>6, <1>7, <1>8 DEF ReaderInv

LEMMA WriterKept ==
  ASSUME IInv, List!Grows, NEW w \in Writers, List!Rests(w), Stays(w), exists => exists'
  PROVE  WriterInv(w)'
  <1>1. /\ pc'[w] = pc[w] /\ target'[w] = target[w] /\ level'[w] = level[w]
        /\ zpc'[w] = zpc[w] /\ arg'[w] = arg[w] /\ WriterInv(w)
    BY Zenon DEF Stays, List!Rests, IInv
  <1>2. List!Inserting(w)' <=> List!Inserting(w)
    BY Zenon, <1>1 DEF List!Inserting
  <1>3. Stored(arg[w]) => Stored(arg[w])'
    <2>1. PICK k : k = arg[w]
      OBVIOUS
    <2>2. Stored(k) => Stored(k)'
      BY Zenon, StoredStays
    <2> QED
      BY Zenon, <1>1, <2>1, <2>2
  <1> QED
    BY Zenon, <1>1, <1>2, <1>3 DEF WriterInv

LEMMA MapKept ==
  ASSUME IInv, List!Grows, exists => exists', NEW v \in Members, value_map'[v] # Null,
         value_map'[v] = value_map[v],
         \A w \in Writers : zpc[w] \in {"insert", "link"} =>
           \/ \E n \in List!InList(0)' : key'[n] = arg[w]
           \/ zpc'[w] \in {"insert", "link"} /\ arg'[w] = arg[w]
  PROVE  /\ exists'
         /\ \/ Stored(Entry(v))'
            \/ \E w \in Writers : zpc'[w] \in {"insert", "link"} /\ arg'[w] = Entry(v)'
  <1>1. PICK k : k = Entry(v)
    OBVIOUS
  <1>2. Entry(v)' = k
    BY Zenon, <1>1 DEF Entry
  <1>3. /\ exists
        /\ \/ Stored(k)
           \/ \E w \in Writers : zpc[w] \in {"insert", "link"} /\ arg[w] = k
    BY Zenon, <1>1 DEF IInv, MapInv
  <1>4. Stored(k) => Stored(k)'
    BY Zenon, StoredStays
  <1>5. /\ Stored(k)' <=> Stored(Entry(v))'
        /\ Stored(k)' <=> \E n \in List!InList(0)' : key'[n] = k
    BY Zenon, <1>2 DEF Stored
  <1> QED
    BY Zenon, <1>2, <1>3, <1>4, <1>5

\* A step of an Add.
LEMMA AddInv ==
  ASSUME IInv, OneWriter, NEW w \in Writers, ListStep(w),
         Typed', NodesInv', MapInv', WriterInv(w)', exists => exists',
         \A f \in Requests \ {w} : Stays(f), UNCHANGED <<ptr, result>>,
         \A r \in Readers : \A v \in stable'[r] :
           v \in stable[r] /\ value_map'[v] = value_map[v]
  PROVE  IInv'
  <1>1. \A v \in Writers : v = w
    BY Zenon DEF OneWriter
  <1>2. ASSUME NEW r \in Readers PROVE ReaderInv(r)'
    <2>1. List!Rests(r) /\ Stays(r) /\ List!Grows
      BY Zenon, Parts DEF ListStep
    <2>2. Undisturbed(r)
      BY Zenon, <2>1 DEF Undisturbed
    <2> QED
      BY Zenon, <2>1, <2>2, ReaderKept
  <1>3. ASSUME NEW d \in Removers PROVE RemoverInv(d)'
    <2>1. Stays(d)
      BY Zenon, Parts
    <2> QED
      BY Zenon, <2>1 DEF IInv, RemoverInv, Stays
  <1> QED
    BY Zenon, <1>1, <1>2, <1>3 DEF IInv, ListStep

\* The steps of an Add that only move on.
LEMMA AddMoves ==
  ASSUME IInv, ListKeeps, OneWriter, NEW w \in Writers,
         UNCHANGED <<skiplist, value_map, ptr, result, stable>>,
         zpc' = [zpc EXCEPT ![w] = zpc'[w]], DOMAIN arg' = Requests,
         \A f \in Requests \ {w} : arg'[f] = arg[f], exists' \in BOOLEAN, exists => exists', WriterInv(w)',
         zpc[w] \in {"insert", "link"} => \E n \in List!InList(0) : key[n] = arg[w]
  PROVE  IInv'
  <1>1. List!Iterators' /\ List!Grows /\ Same /\ \A f : List!Rests(f)
    BY Zenon, ListStutters
  <1>2. ListStep(w)
    BY Zenon, <1>1 DEF ListStep
  <1>3. DOMAIN zpc = Requests /\ DOMAIN arg = Requests
    BY Zenon DEF IInv, Typed
  <1>4. \A f \in Requests \ {w} : Stays(f)
    BY Zenon, <1>3 DEF Stays
  <1>5. Typed'
    <2>1. zpc' \in [Requests -> {"idle", "find", "create", "map", "insert", "link",
                                "loop", "compare", "done"}]
      BY DEF IInv, Typed, WriterInv
    <2> QED
      BY Zenon, <2>1 DEF IInv, Typed
  <1>6. NodesInv'
    BY Zenon, <1>1 DEF IInv, NodesInv, Same
  <1>7. MapInv'
    <2>1. ASSUME NEW v \in Members, value_map'[v] # Null
          PROVE  /\ exists'
                 /\ \/ Stored(Entry(v))'
                    \/ \E u \in Writers : zpc'[u] \in {"insert", "link"} /\ arg'[u] = Entry(v)'
      <3>1. value_map'[v] = value_map[v]
        BY Zenon
      <3>2. ASSUME NEW u \in Writers, zpc[u] \in {"insert", "link"}
            PROVE  \E n \in List!InList(0)' : key'[n] = arg[u]
        BY Zenon, <1>1, <3>2 DEF OneWriter, Same
      <3> QED
        BY Zenon, <1>1, <2>1, <3>1, <3>2, MapKept
    <2> QED
      BY Zenon, <2>1 DEF MapInv
  <1>8. \A r \in Readers : \A v \in stable'[r] : v \in stable[r] /\ value_map'[v] = value_map[v]
    BY Zenon
  <1> QED
    BY Zenon, <1>2, <1>4, <1>5, <1>6, <1>7, <1>8, AddInv

LEMMA ZaddCallInv ==
  ASSUME IInv, ListKeeps, OneWriter, NEW w \in Writers, ZaddCall(w)
  PROVE  IInv'
  <1>1. /\ zpc[w] = "idle" /\ zpc' = [zpc EXCEPT ![w] = "find"]
        /\ UNCHANGED <<skiplist, exists, value_map, ptr, result, stable>>
    BY Zenon DEF ZaddCall, Goto, zset
  <1>2. PICK e \in Entries : arg' = [arg EXCEPT ![w] = e]
    BY DEF ZaddCall, Entries
  <1>3. DOMAIN zpc = Requests /\ DOMAIN arg = Requests /\ w \in Requests
    BY Zenon, Parts DEF IInv, Typed
  <1>4. zpc'[w] = "find" /\ arg'[w] = e /\ pc'[w] = "idle"
    <2>1. pc[w] = "idle"
      BY <1>1 DEF IInv, WriterInv
    <2> QED
      BY Zenon, <1>1, <1>2, <1>3, <2>1 DEF skiplist
  <1>5. WriterInv(w)'
    BY <1>4 DEF WriterInv
  <1>6. zpc[w] \notin {"insert", "link"} /\ exists' \in BOOLEAN /\ (exists => exists')
    BY <1>1 DEF IInv, Typed
  <1> QED
    BY Zenon, <1>1, <1>2, <1>3, <1>4, <1>5, <1>6, AddMoves

LEMMA AddFindInv ==
  ASSUME IInv, ListKeeps, OneWriter, NEW w \in Writers, AddFind(w) \/ AddCreate(w)
  PROVE  IInv'
  <1>1. /\ UNCHANGED <<skiplist, value_map, ptr, result, stable, arg>>
        /\ zpc[w] = "find" \/ zpc[w] = "create"
    BY Zenon DEF AddFind, AddCreate, zset
  <1>2. PICK g \in {"map", "create"} :
          zpc' = [zpc EXCEPT ![w] = g] /\ (g = "map" => exists')
    BY DEF AddFind, AddCreate, Goto, ZsetFound, zset
  <1>3. exists' \in BOOLEAN /\ (exists => exists')
    BY DEF AddFind, AddCreate, zset, IInv, Typed
  <1>4. DOMAIN zpc = Requests /\ DOMAIN arg = Requests /\ w \in Requests
    BY Zenon, Parts DEF IInv, Typed
  <1>5. zpc'[w] = g
    BY Zenon, <1>2, <1>4
  <1>6. arg'[w] \in Entries /\ pc'[w] = "idle"
    <2>1. pc[w] = "idle" /\ arg[w] \in Entries
      BY <1>1 DEF IInv, WriterInv
    <2> QED
      BY Zenon, <1>1, <2>1 DEF skiplist
  <1>7. WriterInv(w)'
    BY <1>2, <1>5, <1>6 DEF WriterInv
  <1>8. zpc[w] \notin {"insert", "link"}
    BY <1>1
  <1> QED
    BY Zenon, <1>1, <1>2, <1>3, <1>4, <1>5, <1>7, <1>8, AddMoves

LEMMA AddReturnInv ==
  ASSUME IInv, ListKeeps, OneWriter, NEW w \in Writers, AddReturn(w)
  PROVE  IInv'
  <1>1. /\ zpc[w] = "link" /\ pc[w] = "idle" /\ zpc' = [zpc EXCEPT ![w] = "idle"]
        /\ arg' = [arg EXCEPT ![w] = Null]
        /\ UNCHANGED <<skiplist, exists, value_map, ptr, result, stable>>
    BY Zenon DEF AddReturn, Goto, zset
  <1>2. zpc'[w] = "idle" /\ arg'[w] = Null /\ pc'[w] = "idle"
    BY Zenon, <1>1, Parts DEF IInv, Typed, skiplist
  <1>3. WriterInv(w)'
    BY <1>2 DEF WriterInv
  <1>4. \E n \in List!InList(0) : key[n] = arg[w]
    BY Zenon, <1>1 DEF IInv, WriterInv, List!Inserting, Stored
  <1>5. exists' \in BOOLEAN /\ (exists => exists') /\ DOMAIN arg = Requests
    BY Zenon, <1>1 DEF IInv, Typed
  <1> QED
    BY Zenon, <1>1, <1>2, <1>3, <1>4, <1>5, AddMoves

\* The score is stored before the node is linked.
LEMMA AddScoreInv ==
  ASSUME IInv, ListKeeps, OneWriter, NEW w \in Writers, AddScore(w)
  PROVE  IInv'
  <1>1. PICK e : e = arg[w]
    OBVIOUS
  <1>2. /\ zpc[w] = "map" /\ zpc' = [zpc EXCEPT ![w] = "insert"]
        /\ value_map' = [value_map EXCEPT ![e.value] = e.score]
        /\ stable' = [r \in Readers |-> stable[r] \ {e.value}]
        /\ UNCHANGED <<skiplist, exists, ptr, result, arg>>
    BY Zenon, <1>1 DEF AddScore, Goto, Touch
  <1>3. /\ e \in Entries /\ e.value \in Members /\ e.score \in Scores /\ pc[w] = "idle"
        /\ e = [score |-> e.score, value |-> e.value] /\ exists
    <2>1. e \in Entries /\ exists /\ pc[w] = "idle"
      BY <1>1, <1>2 DEF IInv, WriterInv
    <2> QED
      BY <2>1 DEF Entries
  <1>4. List!Iterators' /\ List!Grows /\ Same /\ \A f : List!Rests(f)
    BY Zenon, <1>2, ListStutters
  <1>5. ListStep(w) /\ NodesInv'
    BY Zenon, <1>4 DEF ListStep, IInv, NodesInv, Same
  <1>6. /\ w \in Requests /\ value_map \in [Members -> Scores \cup {Null}]
        /\ zpc \in [Requests -> {"idle", "find", "create", "map", "insert", "link",
                                 "loop", "compare", "done"}]
    BY Zenon, Parts DEF IInv, Typed
  <1>7. /\ zpc'[w] = "insert" /\ arg'[w] = e /\ pc'[w] = "idle" /\ value_map'[e.value] = e.score
        /\ \A v \in Members \ {e.value} : value_map'[v] = value_map[v]
        /\ \A f \in Requests \ {w} : zpc'[f] = zpc[f]
    BY Zenon, <1>1, <1>2, <1>3, <1>6 DEF skiplist
  <1>8. \A f \in Requests \ {w} : Stays(f)
    BY Zenon, <1>2, <1>7 DEF Stays
  <1>9. Typed'
    <2>1. value_map' \in [Members -> Scores \cup {Null}]
      BY <1>2, <1>3, <1>6
    <2>2. zpc' \in [Requests -> {"idle", "find", "create", "map", "insert", "link",
                                 "loop", "compare", "done"}]
      BY <1>2, <1>6
    <2> QED
      BY Zenon, <1>2, <2>1, <2>2 DEF IInv, Typed
  <1>10. ASSUME NEW v \in Members, value_map'[v] # Null
         PROVE  /\ exists'
                /\ \/ Stored(Entry(v))'
                   \/ \E u \in Writers : zpc'[u] \in {"insert", "link"} /\ arg'[u] = Entry(v)'
    <2>1. CASE v = e.value
      <3>1. Entry(v)' = e
        BY Zenon, <1>3, <1>7, <2>1 DEF Entry
      <3> QED
        BY Zenon, <1>2, <1>3, <1>7, <3>1
    <2>2. CASE v # e.value
      <3>1. value_map'[v] = value_map[v]
        BY Zenon, <1>7, <2>2
      <3>2. \A u \in Writers : zpc[u] \notin {"insert", "link"}
        BY <1>2 DEF OneWriter
      <3> QED
        BY Zenon, <1>2, <1>4, <1>10, <3>1, <3>2, MapKept
    <2> QED
      BY Zenon, <2>1, <2>2
  <1>11. WriterInv(w)'
    BY <1>2, <1>3, <1>7 DEF WriterInv
  <1>12. \A r \in Readers : \A v \in stable'[r] : v \in stable[r] /\ value_map'[v] = value_map[v]
    <2>1. \A r \in Readers : \A v \in stable[r] : v \in Members
      BY Zenon DEF IInv, ReaderInv
    <2> QED
      BY Zenon, <1>2, <1>7, <2>1
  <1>13. MapInv'
    BY Zenon, <1>10 DEF MapInv
  <1> QED
    BY Zenon, <1>2, <1>5, <1>8, <1>9, <1>11, <1>12, <1>13, AddInv

\* The Insert, and what it stores.
LEMMA AddInsertInv ==
  ASSUME IInv, ListKeeps, OneWriter, NEW w \in Writers, AddInsert(w) \/ AddStep(w)
  PROVE  IInv'
  <1>1. /\ UNCHANGED <<exists, value_map, ptr, result, stable, arg>>
        /\ zpc' = [zpc EXCEPT ![w] = "link"] /\ zpc[w] \in {"insert", "link"}
    <2>1. zpc \in [Requests -> {"idle", "find", "create", "map", "insert", "link",
                                "loop", "compare", "done"}] /\ w \in Requests
      BY Zenon, Parts DEF IInv, Typed
    <2>2. CASE AddInsert(w)
      BY Zenon, <2>2 DEF AddInsert, Goto, zset
    <2>3. CASE AddStep(w)
      <3>1. zpc' = zpc /\ zpc[w] = "link" /\ UNCHANGED <<exists, value_map, ptr, result, stable, arg>>
        BY Zenon, <2>3 DEF AddStep, zset
      <3>2. zpc' = [zpc EXCEPT ![w] = "link"]
        BY <2>1, <3>1
      <3> QED
        BY Zenon, <3>1, <3>2
    <2> QED
      BY Zenon, <2>2, <2>3
  <1>2. arg[w] \in Entries /\ exists
    BY Zenon, <1>1 DEF IInv, WriterInv
  <1>3. /\ ListStep(w)
        /\ pc'[w] # "idle" => target'[w] = arg[w]
        /\ List!Inserting(w)' \/ \E n \in List!InList(0)' : key'[n] = arg[w]
        /\ \A n \in List!InList(0)' : n \in List!InList(0) \/ key'[n] = arg[w]
    <2>1. CASE AddInsert(w)
      BY Zenon, <2>1 DEF ListKeeps, Inserts, Same
    <2>2. CASE AddStep(w)
      <3>1. ListStep(w) /\ List!Progress(w)
        BY Zenon, <2>2 DEF ListKeeps, Links
      <3>2. zpc[w] = "link" /\ pc[w] # "idle"
        <4>1. pc[w] # "idle"
          BY <2>2 DEF AddStep, SL!Search, SL!Link, SL!Right, SL!Down, SL!EndSearch,
            SL!RandomHeight, SL!Fill, SL!Raise, SL!NewNode, SL!SetLink, SL!Publish
        <4> QED
          BY Zenon, <2>2, <4>1 DEF AddStep
      <3>3. target[w] = arg[w] /\ (List!Inserting(w) \/ Stored(arg[w]))
        BY Zenon, <3>2 DEF IInv, WriterInv
      <3>4. Stored(arg[w]) => \E n \in List!InList(0)' : key'[n] = arg[w]
        BY Zenon, <3>1 DEF ListStep, List!Grows, Stored
      <3> QED
        BY Zenon, <3>1, <3>3, <3>4 DEF List!Progress
    <2> QED
      BY Zenon, <2>1, <2>2
  <1>4. /\ w \in Requests
        /\ zpc \in [Requests -> {"idle", "find", "create", "map", "insert", "link",
                                 "loop", "compare", "done"}]
    BY Zenon, Parts DEF IInv, Typed
  <1>5. zpc'[w] = "link" /\ \A f \in Requests \ {w} : Stays(f)
    BY Zenon, <1>1, <1>4 DEF Stays
  <1>6. Typed'
    <2>1. zpc' \in [Requests -> {"idle", "find", "create", "map", "insert", "link",
                                 "loop", "compare", "done"}]
      BY <1>1, <1>4
    <2> QED
      BY Zenon, <1>1, <2>1 DEF IInv, Typed
  <1>7. NodesInv'
    BY Zenon, <1>2, <1>3 DEF IInv, NodesInv, ListStep, List!Grows
  <1>8. ASSUME NEW v \in Members, value_map'[v] # Null
        PROVE  /\ exists'
               /\ \/ Stored(Entry(v))'
                  \/ \E u \in Writers : zpc'[u] \in {"insert", "link"} /\ arg'[u] = Entry(v)'
    <2>1. value_map'[v] = value_map[v] /\ (exists => exists') /\ List!Grows
      BY Zenon, <1>1, <1>3 DEF ListStep
    <2>2. ASSUME NEW u \in Writers PROVE zpc'[u] \in {"insert", "link"} /\ arg'[u] = arg[u]
      BY <1>1, <1>5 DEF OneWriter
    <2> QED
      BY Zenon, <1>8, <2>1, <2>2, MapKept
  <1>9. WriterInv(w)'
    <2>1. Stored(arg[w])' \/ List!Inserting(w)'
      BY Zenon, <1>1, <1>3 DEF Stored
    <2> QED
      BY <1>1, <1>2, <1>3, <1>5, <2>1 DEF WriterInv
  <1>10. MapInv'
    BY Zenon, <1>8 DEF MapInv
  <1>11. \A r \in Readers : \A v \in stable'[r] : v \in stable[r] /\ value_map'[v] = value_map[v]
    BY Zenon, <1>1
  <1> QED
    BY Zenon, <1>1, <1>3, <1>5, <1>6, <1>7, <1>9, <1>10, <1>11, AddInv

\* A step of a Range.
LEMMA RangeInv ==
  ASSUME IInv, NEW r \in Readers, ListStep(r), Same, UNCHANGED <<exists, value_map>>,
         Typed', ReaderInv(r)', \A f \in Requests \ {r} : Stays(f),
         \A s \in Readers \ {r} :
           ptr'[s] = ptr[s] /\ result'[s] = result[s] /\ stable'[s] = stable[s]
  PROVE  IInv'
  <1>1. List!Grows /\ \A g \in (Writers \cup Readers) \ {r} : List!Rests(g)
    BY Zenon DEF ListStep
  <1>2. ASSUME NEW s \in Readers PROVE ReaderInv(s)'
    <2>1. CASE s = r
      BY Zenon, <2>1
    <2>2. CASE s # r
      <3>1. List!Rests(s) /\ Stays(s)
        BY Zenon, <1>1, <2>2, Parts
      <3>2. Undisturbed(s)
        BY Zenon, <2>2, <3>1 DEF Undisturbed
      <3> QED
        BY Zenon, <1>1, <3>2, ReaderKept
    <2> QED
      BY Zenon, <2>1, <2>2
  <1>3. ASSUME NEW w \in Writers PROVE WriterInv(w)'
    <2>1. List!Rests(w) /\ Stays(w) /\ (exists => exists')
      BY Zenon, <1>1, Parts
    <2> QED
      BY Zenon, <1>1, <2>1, WriterKept
  <1>4. ASSUME NEW d \in Removers PROVE RemoverInv(d)'
    <2>1. Stays(d)
      BY Zenon, Parts
    <2> QED
      BY Zenon, <2>1 DEF IInv, RemoverInv, Stays
  <1>5. NodesInv'
    BY Zenon DEF IInv, NodesInv, Same
  <1>6. MapInv'
    <2>1. ASSUME NEW v \in Members, value_map'[v] # Null
          PROVE  /\ exists'
                 /\ \/ Stored(Entry(v))'
                    \/ \E w \in Writers : zpc'[w] \in {"insert", "link"} /\ arg'[w] = Entry(v)'
      <3>1. value_map'[v] = value_map[v] /\ (exists => exists')
        BY Zenon
      <3>2. ASSUME NEW w \in Writers, zpc[w] \in {"insert", "link"}
            PROVE  zpc'[w] \in {"insert", "link"} /\ arg'[w] = arg[w]
        BY Zenon, <3>2, Parts DEF Stays
      <3> QED
        BY Zenon, <1>1, <2>1, <3>1, <3>2, MapKept
    <2> QED
      BY Zenon, <2>1 DEF MapInv
  <1> QED
    BY Zenon, <1>2, <1>3, <1>4, <1>5, <1>6 DEF IInv, ListStep

\* The stable members, when a Range takes a step.
LEMMA StableKept ==
  ASSUME IInv, NEW r \in Readers, Same, UNCHANGED value_map,
         \A v \in stable'[r] : v \in stable[r]
  PROVE  \A v \in stable'[r] : v \in Members /\ value_map'[v] # Null /\ Stored(Entry(v))'
  <1> SUFFICES ASSUME NEW v \in stable'[r]
               PROVE  v \in Members /\ value_map'[v] # Null /\ Stored(Entry(v))'
    OBVIOUS
  <1>1. v \in Members /\ value_map[v] # Null /\ Stored(Entry(v))
    BY Zenon DEF IInv, ReaderInv
  <1> QED
    BY Zenon, <1>1 DEF Stored, Entry, Same

\* The list is in the order of the scores.
LEMMA AheadScore ==
  ASSUME IInv, NEW n \in List!InList(0), NEW m \in List!InList(0),
         n = m \/ List!Ahead(n, m)
  PROVE  key[n].score \in Int /\ key[m].score \in Int /\ key[n].score <= key[m].score
  <1>1. key[n] \in Entries /\ key[m] \in Entries
    BY Zenon DEF IInv, NodesInv
  <1>2. key[n].score \in Int /\ key[m].score \in Int
    BY <1>1, ScoreAssumption DEF Entries
  <1>3. n # List!head
    BY DEF List!InList, List!Nodes, List!head
  <1> QED
    BY <1>2, <1>3 DEF List!Ahead, Before

LEMMA ZrangeCallInv ==
  ASSUME IInv, ListKeeps, NEW r \in Readers, ZrangeCall(r)
  PROVE  IInv'
  <1>1. /\ zpc[r] = "idle" /\ zpc' = [zpc EXCEPT ![r] = "find"]
        /\ stable' = [stable EXCEPT ![r] = Settled]
        /\ UNCHANGED <<skiplist, exists, value_map, ptr, result>>
    BY Zenon DEF ZrangeCall, Goto
  <1>2. PICK a \in [min : Scores, max : Scores] : arg' = [arg EXCEPT ![r] = a]
    BY DEF ZrangeCall
  <1>3. List!Iterators' /\ List!Grows /\ Same /\ \A f : List!Rests(f)
    BY Zenon, <1>1, ListStutters
  <1>4. ListStep(r)
    BY Zenon, <1>3 DEF ListStep
  <1>5. /\ r \in Requests /\ DOMAIN zpc = Requests /\ DOMAIN arg = Requests
        /\ DOMAIN stable = Readers
    BY Zenon, Parts DEF IInv, Typed
  <1>6. /\ zpc'[r] = "find" /\ arg'[r] = a /\ stable'[r] = Settled
        /\ \A f \in Requests \ {r} : Stays(f)
        /\ \A s \in Readers \ {r} : stable'[s] = stable[s]
    BY Zenon, <1>1, <1>2, <1>5 DEF Stays
  <1>7. Typed'
    <2>1. zpc' \in [Requests -> {"idle", "find", "create", "map", "insert", "link",
                                 "loop", "compare", "done"}]
      BY <1>1 DEF IInv, Typed
    <2> QED
      BY Zenon, <1>1, <1>2, <1>5, <2>1 DEF IInv, Typed
  <1>8. pc'[r] = "idle" /\ result'[r] = <<>>
    <2>1. pc[r] = "idle" /\ result[r] = <<>>
      BY <1>1 DEF IInv, ReaderInv
    <2> QED
      BY Zenon, <1>1, <2>1 DEF skiplist
  <1>9. ASSUME NEW v \in stable'[r]
        PROVE  v \in Members /\ value_map'[v] # Null /\ Stored(Entry(v))'
    <2>1. /\ v \in Members /\ value_map[v] # Null
          /\ \A w \in Writers : zpc[w] \in {"insert", "link"} => arg[w].value # v
      BY Zenon, <1>6 DEF Settled
    <2>2. Entry(v).value = v
      BY DEF Entry
    <2>3. Stored(Entry(v))
      BY Zenon, <2>1, <2>2 DEF IInv, MapInv
    <2> QED
      BY Zenon, <1>1, <1>3, <2>1, <2>3 DEF Stored, Entry, Same
  <1>10. ReaderInv(r)'
    <2>1. /\ zpc'[r] \in {"idle", "find", "loop", "compare", "done"}
          /\ zpc'[r] # "loop" /\ zpc'[r] # "compare" /\ zpc'[r] # "done"
      BY <1>6
    <2>2. result'[r] \in Seq(Entries) /\ DOMAIN result'[r] = {}
      BY <1>8
    <2> QED
      BY Zenon, <1>2, <1>6, <1>8, <1>9, <2>1, <2>2 DEF ReaderInv, Iterating
  <1> QED
    BY Zenon, <1>1, <1>3, <1>4, <1>6, <1>7, <1>10, RangeInv

\* A zset that is not there has no members; otherwise the iterator seeks the lower
\* bound.
LEMMA RangeFindInv ==
  ASSUME IInv, ListKeeps, OneWriter, NEW r \in Readers, RangeFind(r)
  PROVE  IInv'
  <1>1. zpc[r] = "find" /\ UNCHANGED <<exists, value_map, ptr, result, stable, arg>>
    BY Zenon DEF RangeFind, zset
  <1>2. /\ r \in Requests
        /\ zpc \in [Requests -> {"idle", "find", "create", "map", "insert", "link",
                                 "loop", "compare", "done"}]
    BY Zenon, Parts DEF IInv, Typed
  <1>3. ASSUME NEW g \in {"done", "loop"}, zpc' = [zpc EXCEPT ![r] = g], ListStep(r), Same,
               ReaderInv(r)'
        PROVE  IInv'
    <2>1. \A f \in Requests \ {r} : Stays(f)
      BY Zenon, <1>1, <1>2, <1>3 DEF Stays
    <2>2. zpc' \in [Requests -> {"idle", "find", "create", "map", "insert", "link",
                                 "loop", "compare", "done"}]
      BY <1>2, <1>3
    <2>3. Typed'
      BY Zenon, <1>1, <2>2 DEF IInv, Typed
    <2> QED
      BY Zenon, <1>1, <1>3, <2>1, <2>3, RangeInv
  <1>4. /\ arg[r] \in [min : Scores, max : Scores] /\ result[r] = <<>> /\ pc[r] = "idle"
        /\ \A v \in stable[r] : v \in Members /\ value_map[v] # Null
    BY <1>1 DEF IInv, ReaderInv
  <1>5. CASE ~exists /\ zpc' = [zpc EXCEPT ![r] = "done"] /\ UNCHANGED skiplist
    <2>1. List!Iterators' /\ List!Grows /\ Same /\ \A f : List!Rests(f)
      BY Zenon, <1>5, ListStutters
    <2>2. ListStep(r)
      BY Zenon, <2>1 DEF ListStep
    <2>3. \A v : v \notin stable'[r]
      BY Zenon, <1>1, <1>4, <1>5 DEF IInv, MapInv
    <2>4. zpc'[r] = "done" /\ pc'[r] = "idle"
      BY Zenon, <1>2, <1>4, <1>5 DEF skiplist
    <2>5. \A v : v \notin Due(r)'
      BY Zenon, <2>3 DEF Due
    <2>6. ReaderInv(r)'
      <3>1. /\ zpc'[r] \in {"idle", "find", "loop", "compare", "done"}
            /\ zpc'[r] # "loop" /\ zpc'[r] # "compare"
        BY <2>4
      <3>2. /\ result'[r] = <<>> /\ arg'[r] \in [min : Scores, max : Scores]
            /\ result'[r] \in Seq(Entries) /\ DOMAIN result'[r] = {}
        BY <1>1, <1>4
      <3> QED
        BY Zenon, <2>3, <2>4, <2>5, <3>1, <3>2 DEF ReaderInv, Iterating
    <2> QED
      BY Zenon, <1>3, <1>5, <2>1, <2>2, <2>6
  <1>6. CASE /\ SL!Seek(r, [score |-> arg[r].min, value |-> Null])
             /\ zpc' = [zpc EXCEPT ![r] = "loop"]
    <2>1. PICK k : k = [score |-> arg[r].min, value |-> Null]
      OBVIOUS
    <2>2. k \in Keys
      BY <1>4, <2>1 DEF Keys
    <2>3. /\ ListStep(r) /\ Same
          /\ pc'[r] = "search" /\ op'[r] = "Seek" /\ target'[r] = k
      BY Zenon, <1>6, <2>1, <2>2 DEF ListKeeps, Seeks
    <2>4. zpc'[r] = "loop"
      BY Zenon, <1>2, <1>6
    <2>5. \A v \in stable'[r] : v \in Members /\ value_map'[v] # Null /\ Stored(Entry(v))'
      BY Zenon, <1>1, <2>3, StableKept
    <2>6. ReaderInv(r)'
      <3>1. /\ zpc'[r] \in {"idle", "find", "loop", "compare", "done"}
            /\ zpc'[r] # "compare" /\ zpc'[r] # "done" /\ pc'[r] # "idle"
        BY <2>3, <2>4
      <3>2. /\ result'[r] = <<>> /\ arg'[r] \in [min : Scores, max : Scores]
            /\ result'[r] \in Seq(Entries) /\ DOMAIN result'[r] = {}
        BY <1>1, <1>4
      <3>3. target'[r] = [score |-> arg'[r].min, value |-> Null]
        BY Zenon, <1>1, <2>1, <2>3
      <3> QED
        BY Zenon, <2>3, <2>4, <2>5, <3>1, <3>2, <3>3 DEF ReaderInv, Iterating
    <2> QED
      BY Zenon, <1>3, <1>6, <2>3, <2>6
  <1> QED
    BY Zenon, <1>5, <1>6 DEF RangeFind, Goto

\* Seek comes to the first node in the range, from where every member due is ahead.
LEMMA RangeStepInv ==
  ASSUME IInv, ListKeeps, OneWriter, NEW r \in Readers, RangeStep(r)
  PROVE  IInv'
  <1>1. /\ zpc[r] = "loop" /\ UNCHANGED <<exists, value_map, ptr, result, stable, arg, zpc>>
        /\ SL!Search(r)
    BY Zenon DEF RangeStep, zset
  <1>2. pc[r] # "idle"
    BY <1>1 DEF SL!Search, SL!Right, SL!Down, SL!EndSearch
  <1>3. /\ op[r] = "Seek" /\ result[r] = <<>> /\ arg[r] \in [min : Scores, max : Scores]
        /\ target[r] = [score |-> arg[r].min, value |-> Null]
    BY <1>1, <1>2 DEF IInv, ReaderInv
  <1>4. /\ ListStep(r) /\ Same /\ UNCHANGED <<op, target>>
        /\ \/ UNCHANGED <<pc, node>>
           \/ pc'[r] = "idle" /\ List!Lands(r, node'[r])
    BY Zenon, <1>1, <1>3 DEF ListKeeps, Searches
  <1>5. \A v \in stable'[r] : v \in Members /\ value_map'[v] # Null /\ Stored(Entry(v))'
    BY Zenon, <1>1, <1>4, StableKept
  <1>6. Iterating(r)' => AtNode(r)' /\ \A v \in Due(r)' : Answered(r, v)' \/ Ahead(r, v)'
    <2> SUFFICES ASSUME Iterating(r)'
                 PROVE  AtNode(r)' /\ \A v \in Due(r)' : Ahead(r, v)'
      OBVIOUS
    <2>1. pc'[r] = "idle"
      BY <1>1 DEF Iterating
    <2>2. List!Lands(r, node'[r])
      BY Zenon, <1>2, <1>4, <2>1
    <2>3. PICK q : q = node'[r]
      OBVIOUS
    <2>4. /\ q = Null \/ (q \in List!InList(0) /\ ~Before(key[q], target[r]))
          /\ \A m \in List!InList(0) : ~Before(key[m], target[r]) => List!Leads(q, m)
      BY Zenon, <2>2, <2>3 DEF List!Lands
    <2>5. target[r].score = arg[r].min /\ arg[r].min \in Int
      <3>1. arg[r].min \in Scores
        BY <1>3
      <3>2. PICK lo : lo = arg[r].min
        OBVIOUS
      <3>3. target[r] = [score |-> lo, value |-> Null]
        BY Zenon, <1>3, <3>2
      <3>4. target[r].score = lo
        BY <3>3
      <3> QED
        BY Zenon, <3>1, <3>2, <3>4, ScoreAssumption
    <2>6. AtNode(r)'
      <3> SUFFICES ASSUME q # Null
                   PROVE  key[q].score >= arg[r].min /\ DOMAIN result[r] = {}
        BY Zenon, <1>1, <1>4, <2>3 DEF AtNode, Same
      <3>1. q \in List!InList(0) /\ key[q] \in Entries
        BY Zenon, <2>4 DEF IInv, NodesInv
      <3>2. key[q].score \in Int
        BY <3>1, ScoreAssumption DEF Entries
      <3>3. ~(key[q].score < arg[r].min)
        BY Zenon, <2>4, <2>5 DEF Before
      <3>4. DOMAIN result[r] = {}
        BY <1>3
      <3> QED
        BY <2>5, <3>2, <3>3, <3>4
    <2>7. ASSUME NEW v \in Due(r)' PROVE Ahead(r, v)'
      <3>1. v \in stable[r] /\ value_map[v] \in arg[r].min .. arg[r].max
        BY Zenon, <1>1 DEF Due
      <3>2. Stored(Entry(v)) /\ Entry(v)' = Entry(v)
        BY Zenon, <1>1, <3>1 DEF IInv, ReaderInv, Entry
      <3>3. PICK n \in List!InList(0) : key[n] = Entry(v)
        BY Zenon, <3>2 DEF Stored
      <3>4. key[n].score = value_map[v]
        BY <3>3 DEF Entry
      <3>5. ~Before(key[n], target[r])
        BY <2>5, <3>1, <3>4 DEF Before
      <3>6. List!Leads(q, n)
        BY Zenon, <2>4, <3>5
      <3>7. n \in List!InList(0)' /\ key'[n] = Entry(v)' /\ List!Leads(q, n)'
        BY Zenon, <1>4, <3>2, <3>3, <3>6 DEF Same, List!Leads, List!Ahead
      <3> QED
        BY Zenon, <2>3, <3>7 DEF Ahead
    <2> QED
      BY Zenon, <2>6, <2>7
  <1>7. /\ zpc'[r] = "loop" /\ arg'[r] = arg[r] /\ result'[r] = <<>> /\ op'[r] = "Seek"
        /\ target'[r] = target[r]
    BY Zenon, <1>1, <1>3, <1>4
  <1>8. ReaderInv(r)'
    <2>1. /\ zpc'[r] \in {"idle", "find", "loop", "compare", "done"}
          /\ zpc'[r] # "compare" /\ zpc'[r] # "done"
      BY <1>7
    <2>2. result'[r] \in Seq(Entries) /\ DOMAIN result'[r] = {}
      BY <1>7
    <2> QED
      BY Zenon, <1>3, <1>5, <1>6, <1>7, <2>1, <2>2 DEF ReaderInv
  <1>9. Typed' /\ \A f \in Requests \ {r} : Stays(f)
    BY Zenon, <1>1 DEF IInv, Typed, Stays
  <1> QED
    BY Zenon, <1>1, <1>4, <1>8, <1>9, RangeInv

\* At the end of the range no member that is due is still ahead.
LEMMA RangeGetInv ==
  ASSUME IInv, ListKeeps, NEW r \in Readers, RangeGet(r)
  PROVE  IInv'
  <1>1. /\ zpc[r] = "loop" /\ pc[r] = "idle"
        /\ UNCHANGED <<skiplist, exists, value_map, result, stable, arg>>
    BY Zenon DEF RangeGet
  <1>2. List!Iterators' /\ List!Grows /\ Same /\ \A f : List!Rests(f)
    BY Zenon, <1>1, ListStutters
  <1>3. ListStep(r)
    BY Zenon, <1>2 DEF ListStep
  <1>4. /\ r \in Requests /\ ptr \in [Readers -> {"null", "score", "raced"}]
        /\ zpc \in [Requests -> {"idle", "find", "create", "map", "insert", "link",
                                 "loop", "compare", "done"}]
    BY Zenon, Parts DEF IInv, Typed
  <1>5. PICK g \in {"compare", "done"}, p \in {"null", "score", "raced"} :
          /\ zpc' = [zpc EXCEPT ![r] = g] /\ ptr' = [ptr EXCEPT ![r] = p]
          /\ g = "compare" <=> InRange(r)
          /\ InRange(r) /\ value_map[key[node[r]].value] # Null => p = "score"
    <2>1. CASE InRange(r)
      BY <1>4, <2>1 DEF RangeGet, Goto
    <2>2. CASE ~InRange(r)
      <3>1. zpc' = [zpc EXCEPT ![r] = "done"] /\ ptr' = ptr
        BY Zenon, <2>2 DEF RangeGet, Goto
      <3>2. ptr' = [ptr EXCEPT ![r] = ptr[r]] /\ ptr[r] \in {"null", "score", "raced"}
        BY <1>4, <3>1
      <3> QED
        BY <2>2, <3>1, <3>2
    <2> QED
      BY Zenon, <2>1, <2>2
  <1>6. /\ zpc'[r] = g /\ ptr'[r] = p /\ \A f \in Requests \ {r} : Stays(f)
        /\ \A s \in Readers \ {r} : ptr'[s] = ptr[s]
    BY Zenon, <1>1, <1>4, <1>5 DEF Stays
  <1>7. Typed'
    <2>1. /\ ptr' \in [Readers -> {"null", "score", "raced"}]
          /\ zpc' \in [Requests -> {"idle", "find", "create", "map", "insert", "link",
                                    "loop", "compare", "done"}]
      BY <1>4, <1>5
    <2> QED
      BY Zenon, <1>1, <2>1 DEF IInv, Typed
  <1>8. /\ AtNode(r) /\ \A v \in Due(r) : Answered(r, v) \/ Ahead(r, v)
        /\ arg[r] \in [min : Scores, max : Scores]
    BY Zenon, <1>1 DEF IInv, ReaderInv, Iterating
  <1>9. /\ AtNode(r)' /\ Due(r)' = Due(r)
        /\ \A v : (Answered(r, v)' <=> Answered(r, v)) /\ (Ahead(r, v) => Ahead(r, v)')
    <2>1. UNCHANGED <<node, key>>
      BY Zenon, <1>1 DEF skiplist
    <2>2. AtNode(r)' /\ Due(r)' = Due(r) /\ \A v : Answered(r, v)' <=> Answered(r, v)
      BY Zenon, <1>1, <1>8, <2>1 DEF AtNode, Due, Answered
    <2>3. ASSUME NEW v, Ahead(r, v) PROVE Ahead(r, v)'
      BY Zenon, <1>1, <1>2, <2>1, <2>3 DEF Ahead, Same, Entry, List!Leads, List!Ahead
    <2> QED
      BY Zenon, <2>2, <2>3
  <1>10. ASSUME g = "done", NEW v \in Due(r) PROVE Answered(r, v)
    <2> SUFFICES ASSUME Ahead(r, v) PROVE FALSE
      BY Zenon, <1>8
    <2>1. PICK n \in List!InList(0) : key[n] = Entry(v) /\ List!Leads(node[r], n)
      BY Zenon DEF Ahead
    <2>2. node[r] # Null /\ (node[r] = n \/ List!Ahead(node[r], n))
      BY Zenon, <2>1 DEF List!Leads
    <2>3. node[r] \in List!InList(0)
      BY Zenon, <2>2, IteratorAt
    <2>4. /\ key[node[r]].score \in Int /\ key[n].score \in Int
          /\ key[node[r]].score <= key[n].score
      BY Zenon, <2>2, <2>3, AheadScore
    <2>5. key[n].score = value_map[v]
      BY <2>1 DEF Entry
    <2>6. value_map[v] \in arg[r].min .. arg[r].max /\ arg[r].max \in Int
      BY <1>8, ScoreAssumption DEF Due
    <2>7. ~(key[node[r]].score <= arg[r].max)
      BY <1>5, <1>10, <2>2 DEF InRange, UpToMax
    <2> QED
      BY <2>4, <2>5, <2>6, <2>7
  <1>11. \A v \in stable'[r] : v \in Members /\ value_map'[v] # Null /\ Stored(Entry(v))'
    BY Zenon, <1>1, <1>2, StableKept
  <1>12. zpc'[r] = "compare" =>
           /\ node'[r] # Null /\ key'[node'[r]].score <= arg'[r].max
           /\ key'[node'[r]].value \in stable'[r] => ptr'[r] = "score"
    <2> SUFFICES ASSUME g = "compare"
                 PROVE  /\ node[r] # Null /\ key[node[r]].score <= arg[r].max
                        /\ key[node[r]].value \in stable[r] => p = "score"
      BY Zenon, <1>1, <1>6 DEF skiplist
    <2>1. InRange(r)
      BY Zenon, <1>5
    <2>2. key[node[r]].value \in stable[r] => value_map[key[node[r]].value] # Null
      BY Zenon DEF IInv, ReaderInv
    <2> QED
      BY Zenon, <1>5, <2>1, <2>2 DEF InRange, UpToMax
  <1>13. /\ result'[r] \in Seq(Entries) /\ pc'[r] = "idle" /\ arg'[r] = arg[r]
         /\ \A i \in DOMAIN result'[r] :
              /\ result'[r][i].score \in arg'[r].min .. arg'[r].max
              /\ \A j \in 1 .. i : result'[r][j].score <= result'[r][i].score
    BY Zenon, <1>1 DEF skiplist, IInv, ReaderInv
  <1>14. \A v \in Due(r)' : Answered(r, v)' \/ Ahead(r, v)'
    BY Zenon, <1>8, <1>9
  <1>15. zpc'[r] = "done" => \A v \in Due(r)' : Answered(r, v)'
    BY Zenon, <1>6, <1>9, <1>10
  <1>16. /\ zpc'[r] \in {"compare", "done"} /\ zpc'[r] \notin {"idle", "find"}
         /\ arg'[r] \in [min : Scores, max : Scores]
    BY <1>5, <1>6, <1>8, <1>13
  <1>17. ReaderInv(r)'
    BY Zenon, <1>9, <1>11, <1>12, <1>13, <1>14, <1>15, <1>16 DEF ReaderInv
  <1> QED
    BY Zenon, <1>1, <1>2, <1>3, <1>6, <1>7, <1>17, RangeInv

\* A node whose score is still the member's is answered, and Next goes on to the
\* first node after it.
LEMMA RangeCompareInv ==
  ASSUME IInv, ListKeeps, OneWriter, NEW r \in Readers, RangeCompare(r)
  PROVE  IInv'
  <1>1. /\ zpc[r] = "compare" /\ ptr' = [ptr EXCEPT ![r] = "null"] /\ SL!IterNext(r)
        /\ zpc' = [zpc EXCEPT ![r] = "loop"] /\ UNCHANGED <<exists, value_map, stable, arg>>
    BY Zenon DEF RangeCompare, Goto
  <1>2. /\ ListStep(r) /\ Same /\ UNCHANGED <<pc, op, target>>
        /\ node[r] \in List!InList(0) /\ List!Moves(node[r], node'[r])
    BY Zenon, <1>1 DEF ListKeeps, Iterates
  <1>3. /\ r \in Requests /\ ptr \in [Readers -> {"null", "score", "raced"}]
        /\ DOMAIN result = Readers
        /\ zpc \in [Requests -> {"idle", "find", "create", "map", "insert", "link",
                                 "loop", "compare", "done"}]
    BY Zenon, Parts DEF IInv, Typed
  <1>4. PICK n \in List!InList(0) : n = node[r]
    BY Zenon, <1>2
  <1>5. PICK q : q = node'[r]
    OBVIOUS
  <1>6. PICK s : s = result[r]
    OBVIOUS
  <1>7. PICK t : t = result'[r]
    OBVIOUS
  <1>8. /\ s \in Seq(Entries) /\ arg[r] \in [min : Scores, max : Scores]
        /\ \A i \in DOMAIN s :
             /\ s[i].score \in arg[r].min .. arg[r].max
             /\ \A j \in 1 .. i : s[j].score <= s[i].score
        /\ AtNode(r) /\ \A v \in Due(r) : Answered(r, v) \/ Ahead(r, v)
        /\ key[n].score <= arg[r].max /\ pc[r] = "idle"
        /\ key[n].value \in stable[r] => ptr[r] = "score"
    <2>1. ReaderInv(r) /\ Iterating(r) /\ zpc[r] \notin {"idle", "loop"}
      BY <1>1 DEF IInv, Iterating
    <2>2. pc[r] = "idle"
      BY Zenon, <2>1 DEF ReaderInv
    <2> QED
      BY Zenon, <1>1, <1>4, <1>6, <2>1, <2>2 DEF ReaderInv
  <1>9. /\ key[n] \in Entries /\ key[n].score \in Int /\ arg[r].min \in Int /\ arg[r].max \in Int
        /\ n # Null
    <2>1. key[n] \in Entries /\ arg[r].min \in Scores /\ arg[r].max \in Scores
      BY <1>8 DEF IInv, NodesInv
    <2>2. n # Null
      BY SentinelAssumption DEF List!InList, List!Nodes
    <2> QED
      BY <2>1, <2>2, ScoreAssumption DEF Entries
  <1>10. /\ key[n].score >= arg[r].min
         /\ \A i \in DOMAIN s : s[i].score <= key[n].score
    BY Zenon, <1>4, <1>6, <1>8, <1>9 DEF AtNode
  <1>11. /\ t = s \/ t = Append(s, key[n])
         /\ ptr[r] = "score" /\ value_map[key[n].value] = key[n].score => t = Append(s, key[n])
         /\ \A p \in Readers \ {r} : result'[p] = result[p]
         /\ DOMAIN result' = Readers
    <2>1. CASE /\ result' = [result EXCEPT ![r] = Append(@, key[node[r]])]
      BY Zenon, <1>3, <1>4, <1>6, <1>7, <2>1
    <2>2. CASE /\ result' = result
               /\ \/ ptr[r] \in {"raced", "null"}
                  \/ ptr[r] = "score" /\ value_map[key[node[r]].value] # key[node[r]].score
      <3>1. t = s /\ (\A p \in Readers \ {r} : result'[p] = result[p]) /\ DOMAIN result' = Readers
        BY Zenon, <1>3, <1>6, <1>7, <2>2
      <3>2. ~(ptr[r] = "score" /\ value_map[key[n].value] = key[n].score)
        BY <1>4, <2>2
      <3> QED
        BY Zenon, <3>1, <3>2
    <2> QED
      BY Zenon, <2>1, <2>2 DEF RangeCompare
  <1>12. /\ t \in Seq(Entries)
         /\ \A i \in DOMAIN t :
              /\ t[i].score \in arg[r].min .. arg[r].max /\ t[i].score <= key[n].score
              /\ \A j \in 1 .. i : t[j].score <= t[i].score
         /\ \A i \in DOMAIN s : i \in DOMAIN t /\ t[i] = s[i]
    <2>1. CASE t = s
      BY <1>8, <1>10, <2>1
    <2>2. CASE t = Append(s, key[n])
      <3>1. /\ t \in Seq(Entries) /\ Len(t) = Len(s) + 1 /\ t[Len(t)] = key[n]
            /\ Len(s) \in Nat /\ DOMAIN t = 1 .. Len(t) /\ DOMAIN s = 1 .. Len(s)
            /\ \A i \in 1 .. Len(s) : t[i] = s[i]
        BY <1>8, <1>9, <2>2
      <3>2. ASSUME NEW i \in DOMAIN t
            PROVE  /\ t[i].score \in arg[r].min .. arg[r].max /\ t[i].score <= key[n].score
                   /\ \A j \in 1 .. i : t[j].score <= t[i].score
        <4>1. CASE i \in DOMAIN s
          BY <1>8, <1>10, <3>1, <4>1
        <4>2. CASE i = Len(t)
          <5>1. t[i] = key[n] /\ t[i].score \in arg[r].min .. arg[r].max
            BY <1>8, <1>9, <1>10, <3>1, <4>2
          <5>2. ASSUME NEW j \in 1 .. i PROVE t[j].score <= key[n].score
            <6>1. j \in DOMAIN s \/ j = i
              BY <3>1, <4>2
            <6>2. CASE j \in DOMAIN s
              BY Zenon, <1>10, <3>1, <6>2
            <6>3. CASE j = i
              BY <1>9, <5>1, <6>3
            <6> QED
              BY Zenon, <6>1, <6>2, <6>3
          <5>3. i \in 1 .. i
            BY <3>1, <4>2
          <5> QED
            BY Zenon, <5>1, <5>2, <5>3
        <4> QED
          BY <3>1, <4>1, <4>2
      <3>3. \A i \in DOMAIN s : i \in DOMAIN t /\ t[i] = s[i]
        BY <3>1
      <3> QED
        BY Zenon, <3>1, <3>2, <3>3
    <2> QED
      BY Zenon, <1>11, <2>1, <2>2
  <1>13. /\ q = Null \/ (q \in List!InList(0) /\ List!Ahead(n, q))
         /\ \A m \in List!InList(0) : List!Ahead(n, m) => List!Leads(q, m)
    BY Zenon, <1>2, <1>4, <1>5 DEF List!Moves
  <1>14. AtNode(r)'
    <2> SUFFICES ASSUME q # Null
                 PROVE  /\ key[q].score >= arg[r].min
                        /\ \A i \in DOMAIN t : t[i].score <= key[q].score
      BY Zenon, <1>1, <1>2, <1>5, <1>7 DEF AtNode, Same
    <2>1. key[q].score \in Int /\ key[n].score <= key[q].score
      BY Zenon, <1>13, AheadScore
    <2>2. \A i \in DOMAIN t : t[i].score \in Int
      BY <1>9, <1>12
    <2> QED
      BY <1>9, <1>10, <1>12, <2>1, <2>2
  <1>15. ASSUME NEW v \in Due(r)' PROVE Answered(r, v)' \/ Ahead(r, v)'
    <2>1. v \in Due(r) /\ v \in stable[r] /\ Entry(v)' = Entry(v)
      BY Zenon, <1>1 DEF Due, Entry
    <2>2. CASE Answered(r, v)
      BY Zenon, <1>6, <1>7, <1>12, <2>2 DEF Answered
    <2>3. CASE Ahead(r, v)
      <3>1. PICK m \in List!InList(0) : key[m] = Entry(v) /\ List!Leads(n, m)
        BY Zenon, <1>4, <2>3 DEF Ahead
      <3>2. CASE n = m
        <4>1. key[n].value = v /\ value_map[v] = key[n].score
          BY <3>1, <3>2 DEF Entry
        <4>2. t = Append(s, key[n])
          BY Zenon, <1>8, <1>11, <2>1, <4>1
        <4>3. Len(t) \in DOMAIN t /\ t[Len(t)] = key[n]
          BY <1>8, <1>9, <4>2
        <4> QED
          BY Zenon, <1>7, <4>1, <4>3 DEF Answered
      <3>3. CASE List!Ahead(n, m)
        <4>1. List!Leads(q, m)
          BY Zenon, <1>13, <3>3
        <4>2. m \in List!InList(0)' /\ key'[m] = Entry(v)' /\ List!Leads(q, m)'
          BY Zenon, <1>2, <2>1, <3>1, <4>1 DEF Same, List!Leads, List!Ahead
        <4> QED
          BY Zenon, <1>5, <4>2 DEF Ahead
      <3> QED
        BY Zenon, <3>1, <3>2, <3>3 DEF List!Leads
    <2> QED
      BY Zenon, <1>8, <2>1, <2>2, <2>3
  <1>16. \A v \in stable'[r] : v \in Members /\ value_map'[v] # Null /\ Stored(Entry(v))'
    BY Zenon, <1>1, <1>2, StableKept
  <1>17. /\ zpc'[r] = "loop" /\ pc'[r] = "idle" /\ arg'[r] = arg[r]
         /\ \A f \in Requests \ {r} : Stays(f)
         /\ \A p \in Readers \ {r} : ptr'[p] = ptr[p]
    BY Zenon, <1>1, <1>2, <1>3, <1>8 DEF Stays
  <1>18. ReaderInv(r)'
    <2>1. \A i \in DOMAIN result'[r] :
            /\ result'[r][i].score \in arg'[r].min .. arg'[r].max
            /\ \A j \in 1 .. i : result'[r][j].score <= result'[r][i].score
      BY Zenon, <1>7, <1>12, <1>17
    <2>2. /\ zpc'[r] \notin {"idle", "find", "compare", "done"}
          /\ zpc'[r] \in {"idle", "find", "loop", "compare", "done"}
      BY <1>17
    <2> QED
      BY Zenon, <1>7, <1>8, <1>12, <1>14, <1>15, <1>16, <1>17, <2>1, <2>2 DEF ReaderInv
  <1>19. Typed'
    <2>1. /\ ptr' \in [Readers -> {"null", "score", "raced"}]
          /\ zpc' \in [Requests -> {"idle", "find", "create", "map", "insert", "link",
                                    "loop", "compare", "done"}]
      BY <1>1, <1>3
    <2> QED
      BY Zenon, <1>1, <1>11, <2>1 DEF IInv, Typed
  <1> QED
    BY Zenon, <1>1, <1>2, <1>11, <1>17, <1>18, <1>19, RangeInv

LEMMA RangeReturnInv ==
  ASSUME IInv, ListKeeps, NEW r \in Readers, RangeReturn(r)
  PROVE  IInv'
  <1>1. /\ zpc[r] = "done" /\ zpc' = [zpc EXCEPT ![r] = "idle"]
        /\ arg' = [arg EXCEPT ![r] = Null] /\ result' = [result EXCEPT ![r] = <<>>]
        /\ stable' = [stable EXCEPT ![r] = {}]
        /\ UNCHANGED <<skiplist, exists, value_map, ptr>>
    BY Zenon DEF RangeReturn, Goto
  <1>2. List!Iterators' /\ List!Grows /\ Same /\ \A f : List!Rests(f)
    BY Zenon, <1>1, ListStutters
  <1>3. ListStep(r)
    BY Zenon, <1>2 DEF ListStep
  <1>4. /\ r \in Requests /\ DOMAIN arg = Requests
        /\ DOMAIN result = Readers /\ DOMAIN stable = Readers
        /\ zpc \in [Requests -> {"idle", "find", "create", "map", "insert", "link",
                                 "loop", "compare", "done"}]
    BY Zenon, Parts DEF IInv, Typed
  <1>5. /\ zpc'[r] = "idle" /\ result'[r] = <<>> /\ stable'[r] = {}
        /\ \A f \in Requests \ {r} : Stays(f)
        /\ \A s \in Readers \ {r} : result'[s] = result[s] /\ stable'[s] = stable[s]
    BY Zenon, <1>1, <1>4 DEF Stays
  <1>6. pc'[r] = "idle"
    <2>1. pc[r] = "idle"
      BY <1>1 DEF IInv, ReaderInv
    <2> QED
      BY Zenon, <1>1, <2>1 DEF skiplist
  <1>7. Typed'
    <2>1. zpc' \in [Requests -> {"idle", "find", "create", "map", "insert", "link",
                                 "loop", "compare", "done"}]
      BY <1>1, <1>4
    <2> QED
      BY Zenon, <1>1, <1>4, <2>1 DEF IInv, Typed
  <1>8. ReaderInv(r)'
    <2>1. /\ zpc'[r] \in {"idle", "find", "loop", "compare", "done"}
          /\ zpc'[r] # "loop" /\ zpc'[r] # "compare" /\ zpc'[r] # "done"
      BY <1>5
    <2>2. result'[r] \in Seq(Entries) /\ DOMAIN result'[r] = {}
      BY <1>5
    <2> QED
      BY Zenon, <1>5, <1>6, <2>1, <2>2 DEF ReaderInv, Iterating
  <1> QED
    BY Zenon, <1>1, <1>2, <1>3, <1>5, <1>7, <1>8, RangeInv

\* A step of a /zrmv: the members that are left have their scores.
LEMMA RemoverStep ==
  ASSUME IInv, ListKeeps, NEW d \in Removers, UNCHANGED <<skiplist, exists, result>>,
         Typed', RemoverInv(d)', \A f \in Requests \ {d} : Stays(f),
         \A v \in Members : value_map'[v] # Null => value_map'[v] = value_map[v],
         \A r \in Readers :
           /\ \A v \in stable'[r] : v \in stable[r] /\ value_map'[v] = value_map[v]
           /\ zpc[r] = "compare" /\ key[node[r]].value \in stable'[r] => ptr'[r] = ptr[r]
  PROVE  IInv'
  <1>1. List!Iterators' /\ List!Grows /\ Same /\ \A f : List!Rests(f)
    BY Zenon, ListStutters
  <1>2. ASSUME NEW r \in Readers PROVE ReaderInv(r)'
    <2>1. Stays(r)
      BY Zenon, Parts
    <2>2. Undisturbed(r)
      BY Zenon, <1>1, <2>1 DEF Undisturbed
    <2> QED
      BY Zenon, <1>1, <2>2, ReaderKept
  <1>3. ASSUME NEW w \in Writers PROVE WriterInv(w)' /\ Stays(w)
    <2>1. Stays(w) /\ List!Rests(w) /\ (exists => exists')
      BY Zenon, <1>1, Parts
    <2> QED
      BY Zenon, <1>1, <2>1, WriterKept
  <1>4. ASSUME NEW c \in Removers PROVE RemoverInv(c)'
    <2>1. CASE c = d
      BY Zenon, <2>1
    <2>2. CASE c # d
      <3>1. Stays(c)
        BY Zenon, <2>2, Parts
      <3> QED
        BY Zenon, <3>1 DEF IInv, RemoverInv, Stays
    <2> QED
      BY Zenon, <2>1, <2>2
  <1>5. NodesInv'
    BY Zenon, <1>1 DEF IInv, NodesInv, Same
  <1>6. MapInv'
    <2>1. ASSUME NEW v \in Members, value_map'[v] # Null
          PROVE  /\ exists'
                 /\ \/ Stored(Entry(v))'
                    \/ \E w \in Writers : zpc'[w] \in {"insert", "link"} /\ arg'[w] = Entry(v)'
      <3>1. value_map'[v] = value_map[v] /\ (exists => exists')
        BY Zenon, <2>1
      <3>2. ASSUME NEW w \in Writers, zpc[w] \in {"insert", "link"}
            PROVE  zpc'[w] \in {"insert", "link"} /\ arg'[w] = arg[w]
        BY Zenon, <1>3, <3>2 DEF Stays
      <3> QED
        BY Zenon, <1>1, <2>1, <3>1, <3>2, MapKept
    <2> QED
      BY Zenon, <2>1 DEF MapInv
  <1> QED
    BY Zenon, <1>1, <1>2, <1>3, <1>4, <1>5, <1>6 DEF IInv

LEMMA ZrmvCallInv ==
  ASSUME IInv, ListKeeps, NEW d \in Removers, ZrmvCall(d)
  PROVE  IInv'
  <1>1. /\ zpc' = [zpc EXCEPT ![d] = "find"]
        /\ UNCHANGED <<skiplist, exists, value_map, ptr, result, stable>>
    BY Zenon DEF ZrmvCall, Goto, zset
  <1>2. PICK v \in Members : arg' = [arg EXCEPT ![d] = v]
    BY Zenon DEF ZrmvCall
  <1>3. /\ d \in Requests /\ DOMAIN arg = Requests
        /\ zpc \in [Requests -> {"idle", "find", "create", "map", "insert", "link",
                                 "loop", "compare", "done"}]
    BY Zenon, Parts DEF IInv, Typed
  <1>4. zpc'[d] = "find" /\ arg'[d] = v /\ \A f \in Requests \ {d} : Stays(f)
    BY Zenon, <1>1, <1>2, <1>3 DEF Stays
  <1>5. Typed'
    <2>1. zpc' \in [Requests -> {"idle", "find", "create", "map", "insert", "link",
                                 "loop", "compare", "done"}]
      BY <1>1, <1>3
    <2> QED
      BY Zenon, <1>1, <1>2, <1>3, <2>1 DEF IInv, Typed
  <1>6. RemoverInv(d)'
    BY Zenon, <1>4 DEF RemoverInv
  <1> QED
    BY Zenon, <1>1, <1>4, <1>5, <1>6, RemoverStep

\* Del erases a score, which no node stands for any more.
LEMMA DelInv ==
  ASSUME IInv, ListKeeps, NEW d \in Removers, Del(d)
  PROVE  IInv'
  <1>1. /\ zpc[d] = "find" /\ zpc' = [zpc EXCEPT ![d] = "idle"]
        /\ arg' = [arg EXCEPT ![d] = Null] /\ UNCHANGED <<skiplist, exists, result>>
    BY Zenon DEF Del, Goto
  <1>2. PICK v \in Members : v = arg[d]
    BY Zenon, <1>1 DEF IInv, RemoverInv
  <1>3. /\ d \in Requests /\ DOMAIN arg = Requests /\ DOMAIN stable = Readers
        /\ value_map \in [Members -> Scores \cup {Null}]
        /\ ptr \in [Readers -> {"null", "score", "raced"}]
        /\ zpc \in [Requests -> {"idle", "find", "create", "map", "insert", "link",
                                 "loop", "compare", "done"}]
    BY Zenon, Parts DEF IInv, Typed
  <1>4. zpc'[d] = "idle" /\ \A f \in Requests \ {d} : Stays(f)
    BY Zenon, <1>1, <1>3 DEF Stays
  <1>5. RemoverInv(d)'
    BY <1>4 DEF RemoverInv
  <1>6. zpc' \in [Requests -> {"idle", "find", "create", "map", "insert", "link",
                               "loop", "compare", "done"}]
    BY <1>1, <1>3
  <1>7. CASE UNCHANGED <<value_map, ptr, stable>>
    <2>1. Typed'
      BY Zenon, <1>1, <1>3, <1>6, <1>7 DEF IInv, Typed
    <2> QED
      BY Zenon, <1>1, <1>4, <1>5, <1>7, <2>1, RemoverStep
  <1>8. CASE /\ value_map' = [value_map EXCEPT ![v] = Null]
             /\ ptr' = [r \in Readers |->
                          IF ptr[r] = "score" /\ key[node[r]].value = v
                          THEN "raced" ELSE ptr[r]]
             /\ stable' = [r \in Readers |-> stable[r] \ {v}]
    <2>1. /\ value_map' \in [Members -> Scores \cup {Null}] /\ DOMAIN stable' = Readers
          /\ ptr' \in [Readers -> {"null", "score", "raced"}]
      BY <1>3, <1>8
    <2>2. Typed'
      BY Zenon, <1>1, <1>3, <1>6, <2>1 DEF IInv, Typed
    <2>3. value_map'[v] = Null /\ \A u \in Members \ {v} : value_map'[u] = value_map[u]
      BY Zenon, <1>3, <1>8
    <2>4. ASSUME NEW r \in Readers
          PROVE  /\ \A u \in stable'[r] : u \in stable[r] /\ value_map'[u] = value_map[u]
                 /\ key[node[r]].value \in stable'[r] => ptr'[r] = ptr[r]
      <3>1. \A u \in stable[r] : u \in Members
        BY Zenon DEF IInv, ReaderInv
      <3>2. /\ stable'[r] = stable[r] \ {v}
            /\ ptr'[r] = IF ptr[r] = "score" /\ key[node[r]].value = v
                         THEN "raced" ELSE ptr[r]
        BY Zenon, <1>8
      <3> QED
        BY Zenon, <2>3, <3>1, <3>2
    <2> QED
      BY Zenon, <1>1, <1>4, <1>5, <2>2, <2>3, <2>4, RemoverStep
  <1> QED
    BY Zenon, <1>2, <1>7, <1>8 DEF Del, Touch

(***************************************************************************)
(* Every step.                                                             *)
(***************************************************************************)
LEMMA InitInv ==
  ASSUME Init, List!Iterators
  PROVE  IInv
  <1>1. SL!Init
    BY Zenon DEF Init
  <1>3. NodesInv
    <2>1. 0 \in SL!Levels
      BY BoundAssumption DEF SL!Levels
    <2>2. \A n \in List!Nodes : n \in SL!Nodes /\ n # SL!head
      BY DEF List!Nodes, SL!Nodes, SL!head
    <2>3. \A n \in List!Nodes : next[n][0] = Uninit
      BY Zenon, <1>1, <2>1, <2>2 DEF SL!Init, SL!NoLinks
    <2> QED
      BY Zenon, <2>3 DEF NodesInv, List!InList
  <1>4. /\ exists = FALSE /\ value_map = [v \in Members |-> Null]
        /\ zpc = [f \in Requests |-> "idle"] /\ arg = [f \in Requests |-> Null]
        /\ ptr = [r \in Readers |-> "null"] /\ result = [r \in Readers |-> <<>>]
        /\ stable = [r \in Readers |-> {}]
    BY Zenon DEF Init
  <1>5. Typed /\ MapInv
    BY <1>4 DEF Typed, MapInv
  <1>6. \A f \in Writers \cup Readers : pc[f] = "idle"
    BY Zenon, <1>1 DEF SL!Init, SL!Fibers
  <1>7. ASSUME NEW w \in Writers PROVE WriterInv(w)
    <2>1. zpc[w] = "idle" /\ pc[w] = "idle"
      BY Zenon, <1>4, <1>6, Parts
    <2> QED
      BY <2>1 DEF WriterInv
  <1>8. ASSUME NEW d \in Removers PROVE RemoverInv(d)
    <2>1. zpc[d] = "idle"
      BY Zenon, <1>4, Parts
    <2> QED
      BY <2>1 DEF RemoverInv
  <1>9. ASSUME NEW r \in Readers PROVE ReaderInv(r)
    <2>1. zpc[r] = "idle" /\ pc[r] = "idle" /\ result[r] = <<>> /\ stable[r] = {}
      BY Zenon, <1>4, <1>6, Parts
    <2>2. /\ zpc[r] \in {"idle", "find", "loop", "compare", "done"}
          /\ zpc[r] # "loop" /\ zpc[r] # "compare" /\ zpc[r] # "done"
      BY <2>1
    <2>3. result[r] \in Seq(Entries) /\ DOMAIN result[r] = {}
      BY <2>1
    <2> QED
      BY Zenon, <2>1, <2>2, <2>3 DEF ReaderInv, Iterating
  <1> QED
    BY Zenon, <1>3, <1>5, <1>7, <1>8, <1>9 DEF IInv

LEMMA NextInv ==
  ASSUME IInv, ListKeeps, OneWriter, Next
  PROVE  IInv'
  <1>1. ASSUME NEW w \in Writers, Add(w) PROVE IInv'
    BY Zenon, <1>1, ZaddCallInv, AddFindInv, AddScoreInv, AddInsertInv, AddReturnInv DEF Add
  <1>2. ASSUME NEW r \in Readers, Range(r) PROVE IInv'
    BY Zenon, <1>2, ZrangeCallInv, RangeFindInv, RangeStepInv, RangeGetInv, RangeCompareInv,
      RangeReturnInv DEF Range
  <1>3. ASSUME NEW d \in Removers, ZrmvCall(d) \/ Del(d) PROVE IInv'
    BY Zenon, <1>3, ZrmvCallInv, DelInv
  <1> QED
    BY Zenon, <1>1, <1>2, <1>3 DEF Next

LEMMA StutterInv ==
  ASSUME IInv, ListKeeps, UNCHANGED vars
  PROVE  IInv'
  <1>1. UNCHANGED <<skiplist, exists, value_map, ptr, result, stable, zpc, arg>>
    BY Zenon DEF vars, zset
  <1>2. List!Iterators' /\ List!Grows /\ Same /\ \A f : List!Rests(f)
    BY Zenon, <1>1, ListStutters
  <1>3. ASSUME NEW f PROVE Stays(f)
    BY Zenon, <1>1 DEF Stays
  <1>4. ASSUME NEW r \in Readers PROVE ReaderInv(r)'
    <2>1. Undisturbed(r)
      BY Zenon, <1>1, <1>2, <1>3 DEF Undisturbed
    <2> QED
      BY Zenon, <1>2, <2>1, ReaderKept
  <1>5. ASSUME NEW w \in Writers PROVE WriterInv(w)'
    BY Zenon, <1>1, <1>2, <1>3, WriterKept
  <1>6. Typed' /\ NodesInv' /\ \A d \in Removers : RemoverInv(d)'
    BY Zenon, <1>1, <1>2 DEF IInv, Typed, NodesInv, Same, RemoverInv
  <1>7. MapInv'
    BY Zenon, <1>1, <1>2 DEF IInv, MapInv, Stored, Entry, Same
  <1> QED
    BY Zenon, <1>2, <1>4, <1>5, <1>6, <1>7 DEF IInv

(***************************************************************************)
(* What the sorted set gives to the list.                                  *)
(***************************************************************************)
\* Scores are compared as numbers.
LEMMA Order ==
  /\ \A a \in Keys : ~Before(a, a)
  /\ \A a, b, c \in Keys : Before(a, b) /\ Before(b, c) => Before(a, c)
  /\ \A a, b, c \in Keys : Before(a, c) => Before(a, b) \/ Before(b, c)
  <1>1. \A a \in Keys : a.score \in Int
    BY ScoreAssumption DEF Keys
  <1> QED
    BY <1>1 DEF Before

LEMMA Bounds == 1 .. MaxNodes \subseteq 0 .. MaxNodes /\ 0 \in 0 .. MaxNodes
  BY BoundAssumption

LEMMA StartsInsert ==
  ASSUME NEW w, pc'[w] = "search"
  PROVE  List!Inserting(w)'
  BY DEF List!Inserting

\* The keys that Add and Range give to the list.
LEMMA KeysGiven ==
  ASSUME IInv
  PROVE  /\ \A w \in Writers : zpc[w] = "insert" => arg[w] \in Keys
         /\ \A r \in Readers : zpc[r] = "find" => [score |-> arg[r].min, value |-> Null] \in Keys
  <1>1. ASSUME NEW w \in Writers, zpc[w] = "insert" PROVE arg[w] \in Keys
    <2>1. arg[w] \in Entries
      BY <1>1 DEF IInv, WriterInv
    <2> QED
      BY <2>1 DEF Entries, Keys
  <1>2. ASSUME NEW r \in Readers, zpc[r] = "find"
        PROVE  [score |-> arg[r].min, value |-> Null] \in Keys
    <2>1. arg[r] \in [min : Scores, max : Scores]
      BY <1>2 DEF IInv, ReaderInv
    <2> QED
      BY <2>1 DEF Keys
  <1> QED
    BY Zenon, <1>1, <1>2
=============================================================================
