----------------------------- MODULE ZsetProofs -----------------------------
(***************************************************************************)
(* Theorems about Zset for one /zadd at a time and any number of /zrange   *)
(* and /zrmv, any members, scores, heights and number of nodes: what       *)
(* SkipListProofs shows of the skip list, put to the steps of ZsetSteps.   *)
(***************************************************************************)
EXTENDS ZsetSteps

Proofs == INSTANCE SkipListProofs

\* The inductive invariant of the list and that of the sorted set.
Inv == Proofs!IInv /\ IInv

(***************************************************************************)
(* The skip list.                                                          *)
(***************************************************************************)
\* What SkipList assumes holds of the keys of a Zset.
LEMMA Assumed ==
  /\ \A a \in Keys : ~Before(a, a)
  /\ \A a, b, c \in Keys : Before(a, b) /\ Before(b, c) => Before(a, c)
  /\ \A a, b, c \in Keys : Before(a, c) => Before(a, b) \/ Before(b, c)
  /\ Null \notin Keys \cup Proofs!Nodes \cup {Proofs!head, Uninit}
  /\ Uninit \notin Proofs!Nodes \cup {Proofs!head}
  /\ Null \notin [op : {"Seek", "Contains", "Prev", "SeekToLast"}, key : Keys \cup {Null}]
  /\ Writers \cap Readers = {}
  /\ kMaxHeight \in Nat \ {0} /\ MaxNodes \in Nat
  <1>1. Proofs!Nodes \subseteq 0 .. MaxNodes /\ Proofs!head \in 0 .. MaxNodes
    BY Zenon, Bounds DEF Proofs!Nodes, Proofs!head
  <1> QED
    BY Zenon, <1>1, Order, BoundAssumption, SentinelAssumption

LEMMA SameSearch ==
  ASSUME NEW f, SL!Search(f)
  PROVE  Proofs!Search(f)
  BY Zenon DEF SL!Search, Proofs!Search, SL!Right, Proofs!Right, SL!Down, Proofs!Down,
     SL!EndSearch, Proofs!EndSearch, SL!GoesRight, Proofs!GoesRight, SL!NotePrev, Proofs!NotePrev,
     SL!Found, Proofs!Found, SL!Goto, Proofs!Goto, SL!shared, Proofs!shared, SL!head, Proofs!head

LEMMA SameLink ==
  ASSUME NEW w, SL!Link(w)
  PROVE  Proofs!Link(w)
  BY Zenon DEF SL!Link, Proofs!Link, SL!RandomHeight, Proofs!RandomHeight, SL!Fill, Proofs!Fill,
     SL!Filled, Proofs!Filled, SL!Levels, Proofs!Levels, SL!Raise, Proofs!Raise,
     SL!NewNode, Proofs!NewNode, SL!SetLink, Proofs!SetLink, SL!Publish, Proofs!Publish,
     SL!Goto, Proofs!Goto, SL!shared, Proofs!shared, SL!head, Proofs!head

LEMMA SameInsert ==
  ASSUME NEW w, NEW k, SL!Insert(w, k)
  PROVE  Proofs!Insert(w, k) /\ Proofs!StartSearch(w, "Insert", k, max_height)
  BY Zenon DEF SL!Insert, Proofs!Insert, SL!StartSearch, Proofs!StartSearch, SL!Unborn,
     Proofs!Unborn, SL!Cardinality, Proofs!Cardinality, SL!NoLinks, Proofs!NoLinks, SL!Levels, Proofs!Levels, SL!Nodes, Proofs!Nodes,
     SL!Goto, Proofs!Goto, SL!shared, Proofs!shared, SL!head, Proofs!head

LEMMA SameSeek ==
  ASSUME NEW r, NEW k, SL!Seek(r, k)
  PROVE  Proofs!Seek(r, k) /\ \E h : Proofs!StartSearch(r, "Seek", k, h)
  BY Zenon DEF SL!Seek, Proofs!Seek, SL!ReaderSearch, Proofs!ReaderSearch, SL!StartSearch,
     Proofs!StartSearch, SL!Goto, Proofs!Goto, SL!shared, Proofs!shared, SL!head, Proofs!head

LEMMA SameIterNext ==
  ASSUME NEW r, SL!IterNext(r)
  PROVE  Proofs!IterNext(r)
  BY Zenon DEF SL!IterNext, Proofs!IterNext, SL!Nodes, Proofs!Nodes, SL!shared, Proofs!shared

\* An iterator of the list is where SkipListView has it.
LEMMA IteratorsAt ==
  /\ Proofs!IInv => List!Iterators
  /\ Proofs!IInv' => List!Iterators'
  <1>1. Proofs!IInv => List!Iterators
    BY Zenon DEF Proofs!IInv, Proofs!ReaderInv, List!Iterators, Proofs!InList, List!InList,
      Proofs!Nodes, List!Nodes
  <1>2. (Proofs!IInv => List!Iterators)'
    BY <1>1, PTL
  <1> QED
    BY Zenon, <1>1, <1>2

\* The definitions of SkipListView are those of SkipListProofs.
LEMMA SameList ==
  /\ Proofs!InList(0) = List!InList(0) /\ Proofs!InList(0)' = List!InList(0)'
  /\ Proofs!Grows <=> List!Grows
  /\ \A f : Proofs!Rests(f) <=> List!Rests(f)
  BY Zenon DEF Proofs!InList, List!InList, Proofs!Nodes, List!Nodes, Proofs!Grows, List!Grows,
    Proofs!Rests, List!Rests

LEMMA SameMoves ==
  /\ \A f : (Proofs!Inserting(f)' <=> List!Inserting(f)') /\ (Proofs!Progress(f) <=> List!Progress(f))
  /\ \A r, q : Proofs!Lands(r, q) <=> List!Lands(r, q)
  /\ \A n, q : Proofs!Moves(n, q) <=> List!Moves(n, q)
  BY Zenon DEF Proofs!InList, List!InList, Proofs!Nodes, List!Nodes, Proofs!Inserting,
    List!Inserting, Proofs!Progress, List!Progress, Proofs!Lands, List!Lands, Proofs!Moves,
    List!Moves, Proofs!Leads, List!Leads, Proofs!Ahead, List!Ahead, Proofs!Rests, List!Rests,
    Proofs!head, List!head, Proofs!Fibers

\* A step of the list keeps its invariant.
LEMMA ListNext ==
  ASSUME Proofs!IInv, OneWriter, Proofs!Next
  PROVE  Proofs!IInv'
  <1>1. Proofs!OneWriter
    BY Zenon DEF OneWriter, Proofs!OneWriter
  <1> QED
    BY Zenon, <1>1, Assumed, Proofs!NextIInv

LEMMA QuietStep ==
  ASSUME OneWriter, Proofs!IInv', NEW f \in Writers \cup Readers, Proofs!Quiet(f)
  PROVE  ListStep(f) /\ Same
  <1>1. Proofs!OneWriter /\ f \in Proofs!Fibers
    BY Zenon DEF OneWriter, Proofs!OneWriter, Proofs!Fibers
  <1>2. Proofs!Grows /\ Proofs!InList(0)' = Proofs!InList(0)
    BY Zenon, <1>1, Assumed, Proofs!QuietGrows
  <1> QED
    BY Zenon, <1>2, IteratorsAt, SameList DEF ListStep, Same, Proofs!Quiet, Proofs!Fibers

LEMMA InsertStep ==
  ASSUME Inv, OneWriter, NEW w \in Writers, AddInsert(w)
  PROVE  Inserts(w)
  <1>1. Proofs!Insert(w, arg[w]) /\ Proofs!StartSearch(w, "Insert", arg[w], max_height)
    BY Zenon, SameInsert DEF AddInsert
  <1>2. arg[w] \in Keys
    BY Zenon, KeysGiven DEF Inv, AddInsert
  <1>3. Proofs!IInv /\ Proofs!IInv'
    BY Zenon, <1>1, <1>2, ListNext DEF Inv, Proofs!Next
  <1>4. w \in Proofs!Fibers
    BY Zenon DEF Proofs!Fibers
  <1>5. Proofs!Quiet(w) /\ pc'[w] = "search" /\ target'[w] = arg[w]
    BY Zenon, <1>1, <1>3, <1>4, Assumed, Proofs!CallQuiet
  <1>6. List!Inserting(w)'
    BY Zenon, <1>5, StartsInsert
  <1> QED
    BY Zenon, <1>3, <1>5, <1>6, QuietStep DEF Inserts

LEMMA LinkStep ==
  ASSUME Inv, OneWriter, NEW w \in Writers, AddStep(w)
  PROVE  Links(w)
  <1>1. Proofs!Search(w) \/ Proofs!Link(w)
    BY Zenon, SameSearch, SameLink DEF AddStep
  <1>2. w \in Proofs!Fibers /\ Proofs!OneWriter
    BY Zenon DEF OneWriter, Proofs!OneWriter, Proofs!Fibers
  <1>3. Proofs!IInv /\ Proofs!IInv'
    BY Zenon, <1>1, <1>2, ListNext DEF Inv, Proofs!Next
  <1>4. Proofs!Grows /\ Proofs!Progress(w)
    BY Zenon, <1>1, <1>2, <1>3, Assumed, Proofs!WriterGrows
  <1>5. List!Iterators' /\ List!Grows /\ List!Progress(w)
    BY Zenon, <1>3, <1>4, IteratorsAt, SameList, SameMoves
  <1> QED
    BY Zenon, <1>5 DEF Links, ListStep, List!Progress

LEMMA SeekStep ==
  ASSUME Inv, OneWriter, NEW r \in Readers, NEW k \in Keys, SL!Seek(r, k)
  PROVE  Seeks(r, k)
  <1>1. Proofs!Seek(r, k)
    BY Zenon, SameSeek
  <1>2. PICK h : Proofs!StartSearch(r, "Seek", k, h)
    BY Zenon, SameSeek
  <1>3. Proofs!IInv /\ Proofs!IInv'
    BY Zenon, <1>1, ListNext DEF Inv, Proofs!Next
  <1>4. r \in Proofs!Fibers
    BY Zenon DEF Proofs!Fibers
  <1>5. Proofs!Quiet(r) /\ pc'[r] = "search" /\ op'[r] = "Seek" /\ target'[r] = k
    BY Zenon, <1>2, <1>3, <1>4, Assumed, Proofs!CallQuiet
  <1> QED
    BY Zenon, <1>3, <1>5, QuietStep DEF Seeks

LEMMA SearchStep ==
  ASSUME Inv, OneWriter, NEW r \in Readers, SL!Search(r), op[r] = "Seek"
  PROVE  Searches(r)
  <1>1. Proofs!Search(r) /\ r \in Proofs!Fibers
    BY Zenon, SameSearch DEF Proofs!Fibers
  <1>2. Proofs!IInv /\ Proofs!IInv'
    BY Zenon, <1>1, ListNext DEF Inv, Proofs!Next
  <1>3. Proofs!Quiet(r)
    BY Zenon, <1>1, <1>2, Assumed, Proofs!SearchQuiet
  <1>4. /\ UNCHANGED <<op, target>>
        /\ UNCHANGED <<pc, node>> \/ (pc'[r] = "idle" /\ Proofs!Lands(r, node'[r]))
    BY Zenon, <1>1, <1>2, Assumed, Proofs!SeekLands
  <1> QED
    BY Zenon, <1>2, <1>3, <1>4, QuietStep, SameMoves DEF Searches

LEMMA NextStep ==
  ASSUME Inv, OneWriter, NEW r \in Readers, SL!IterNext(r)
  PROVE  Iterates(r)
  <1>1. Proofs!IterNext(r)
    BY Zenon, SameIterNext
  <1>2. Proofs!IInv /\ Proofs!IInv'
    BY Zenon, <1>1, ListNext DEF Inv, Proofs!Next
  <1>3. /\ UNCHANGED <<pc, op, target>> /\ Proofs!Quiet(r)
        /\ node[r] \in Proofs!InList(0) /\ Proofs!Moves(node[r], node'[r])
    BY Zenon, <1>1, <1>2, Assumed, Proofs!NextMoves
  <1> QED
    BY Zenon, <1>2, <1>3, QuietStep, SameList, SameMoves DEF Iterates

LEMMA Keeps ==
  ASSUME Inv, OneWriter
  PROVE  ListKeeps
  BY Zenon, InsertStep, LinkStep, SeekStep, SearchStep, NextStep DEF ListKeeps

\* A step of a request is a step of the list or leaves it alone.
LEMMA ListMoves ==
  ASSUME IInv, Next
  PROVE  Proofs!Next \/ UNCHANGED skiplist
  <1>1. ASSUME NEW w \in Writers, Add(w)
        PROVE  Proofs!Next \/ UNCHANGED skiplist
    <2>1. CASE AddInsert(w)
      <3>1. Proofs!Insert(w, arg[w]) /\ arg[w] \in Keys
        BY Zenon, <2>1, SameInsert, KeysGiven DEF AddInsert
      <3> QED
        BY Zenon, <3>1 DEF Proofs!Next
    <2>2. CASE AddStep(w)
      <3>1. w \in Proofs!Fibers /\ (Proofs!Search(w) \/ Proofs!Link(w))
        BY Zenon, <2>2, SameSearch, SameLink DEF AddStep, Proofs!Fibers
      <3> QED
        BY Zenon, <3>1 DEF Proofs!Next
    <2>3. CASE ZaddCall(w) \/ AddFind(w) \/ AddCreate(w) \/ AddScore(w) \/ AddReturn(w)
      BY Zenon, <2>3 DEF ZaddCall, AddFind, AddCreate, AddScore, AddReturn
    <2> QED
      BY Zenon, <1>1, <2>1, <2>2, <2>3 DEF Add
  <1>2. ASSUME NEW r \in Readers, Range(r)
        PROVE  Proofs!Next \/ UNCHANGED skiplist
    <2>1. CASE RangeFind(r)
      <3> DEFINE k == [score |-> arg[r].min, value |-> Null]
      <3>1. UNCHANGED skiplist \/ (Proofs!Seek(r, k) /\ k \in Keys)
        BY Zenon, <2>1, SameSeek, KeysGiven DEF RangeFind
      <3> HIDE DEF k
      <3> QED
        BY Zenon, <3>1 DEF Proofs!Next
    <2>2. CASE RangeStep(r)
      <3>1. r \in Proofs!Fibers /\ Proofs!Search(r)
        BY Zenon, <2>2, SameSearch DEF RangeStep, Proofs!Fibers
      <3> QED
        BY Zenon, <3>1 DEF Proofs!Next
    <2>3. CASE RangeCompare(r)
      <3>1. Proofs!IterNext(r)
        BY Zenon, <2>3, SameIterNext DEF RangeCompare
      <3> QED
        BY Zenon, <3>1 DEF Proofs!Next
    <2>4. CASE ZrangeCall(r) \/ RangeGet(r) \/ RangeReturn(r)
      BY Zenon, <2>4 DEF ZrangeCall, RangeGet, RangeReturn
    <2> QED
      BY Zenon, <1>2, <2>1, <2>2, <2>3, <2>4 DEF Range
  <1>3. ASSUME NEW d \in Removers, ZrmvCall(d) \/ Del(d)
        PROVE  UNCHANGED skiplist
    BY Zenon, <1>3 DEF ZrmvCall, Del
  <1> QED
    BY Zenon, <1>1, <1>2, <1>3 DEF Next

LEMMA ListInv ==
  ASSUME Inv, OneWriter, [Next]_vars
  PROVE  Proofs!IInv'
  <1>1. CASE UNCHANGED skiplist
    <2>1. UNCHANGED Proofs!vars
      BY Zenon, <1>1 DEF skiplist, Proofs!vars, Proofs!shared
    <2> QED
      BY Zenon, <2>1, Assumed, Proofs!StutterIInv DEF Inv
  <1>2. CASE Proofs!Next
    BY Zenon, <1>2, ListNext DEF Inv
  <1>3. CASE UNCHANGED vars
    BY Zenon, <1>1, <1>3 DEF vars
  <1> QED
    BY Zenon, <1>1, <1>2, <1>3, ListMoves DEF Inv

LEMMA InitList ==
  ASSUME Init
  PROVE  Proofs!IInv
  <1>1. Proofs!Init
    BY Zenon DEF Init, SL!Init, Proofs!Init, SL!NoLinks, Proofs!NoLinks, SL!Levels,
      Proofs!Levels, SL!Nodes, Proofs!Nodes, SL!head, Proofs!head, SL!Fibers, Proofs!Fibers
  <1> QED
    BY Zenon, <1>1, Assumed, Proofs!InitIInv

(***************************************************************************)
(* The theorems.                                                           *)
(***************************************************************************)
\* For every number of /zrange and /zrmv and one /zadd at a time, ZsetManager and
\* Zset keep the invariant: each score in _value_map has its node in the skip list or
\* an Add on its way there, and an iterator of Range has still to come to every member
\* that it owes and has not answered.
THEOREM Invariant ==
  ASSUME OneWriter
  PROVE  Spec => []Inv
  <1>1. Init => Inv
    BY Zenon, InitList, IteratorsAt, InitInv DEF Inv
  <1>2. Inv /\ [Next]_vars => Inv'
    BY Zenon, Keeps, ListInv, NextInv, StutterInv DEF Inv
  <1> QED
    BY <1>1, <1>2, PTL DEF Spec

\* Every variable of the zset and of its skip list has its type, and the zset that Add
\* got from _zset_map is there until it returns.
THEOREM TypeCorrect ==
  ASSUME OneWriter
  PROVE  Spec => []TypeOK
  <1>1. Inv => TypeOK
    <2> SUFFICES ASSUME Inv PROVE TypeOK
      BY Zenon
    <2>1. Proofs!TypeOK
      BY Zenon DEF Inv, Proofs!IInv
    <2>2. SL!TypeOK
      BY Zenon, <2>1 DEF SL!TypeOK, Proofs!TypeOK, SL!Nodes, Proofs!Nodes, SL!head,
        Proofs!head, SL!Levels, Proofs!Levels, SL!Fibers, Proofs!Fibers
    <2>3. \A w \in Writers : zpc[w] \in {"map", "insert", "link"} => exists
      BY Zenon DEF Inv, IInv, WriterInv
    <2>4. \A r \in Readers : /\ result[r] \in Seq([score : Scores, value : Members])
                             /\ stable[r] \subseteq Members
      BY Zenon DEF Inv, IInv, ReaderInv, Entries
    <2> QED
      BY Zenon, <2>2, <2>3, <2>4 DEF TypeOK, Inv, IInv, Typed
  <1> QED
    BY <1>1, Invariant, PTL

\* The members that Range puts into its answer are in the order of their scores and
\* within the bounds of the request, whatever Add and Del do while it iterates.
THEOREM RangeStaysSorted ==
  ASSUME OneWriter
  PROVE  Spec => []RangeSorted
  <1>1. Inv => RangeSorted
    BY Zenon DEF Inv, IInv, ReaderInv, RangeSorted
  <1> QED
    BY <1>1, Invariant, PTL

\* A Range that ends has answered every member within its bounds that was there when it
\* began and that no Add and no Del has touched since.
THEOREM RangeStaysComplete ==
  ASSUME OneWriter
  PROVE  Spec => []RangeComplete
  <1>1. Inv => RangeComplete
    BY Zenon DEF Inv, IInv, ReaderInv, RangeComplete, Due, Answered
  <1> QED
    BY <1>1, Invariant, PTL
=============================================================================
