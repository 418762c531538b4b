------------------------------ MODULE SkipList ------------------------------
(***************************************************************************)
(* The skip list of src/cache/storage/memory/skip_list.h, pointer by       *)
(* pointer.  Insert searches for the predecessors of the key, raises       *)
(* max_height_ if need be, and links the new node level by level from the  *)
(* bottom; readers take no lock.  Every load and store of a shared atomic  *)
(* is a step of its own.                                                   *)
(*                                                                         *)
(* max_height_ is read with relaxed order: a reader may see any value it   *)
(* has held.  Links are stored with release and loaded with acquire order, *)
(* and are modelled as sequentially consistent.  The asserts of the code   *)
(* are compiled out (NDEBUG).  Memory that was not written is Uninit.      *)
(***************************************************************************)
EXTENDS Integers, Sequences, FiniteSets

CONSTANTS
  Writers,        \* the fibers that call Insert
  Readers,        \* the fibers that search and iterate
  Keys,
  Before(_, _),   \* compare_(a, b) < 0
  MaxNodes,       \* bound on insertions
  kMaxHeight,
  Null, Uninit

Nodes == 1 .. MaxNodes
head == 0
Levels == 0 .. kMaxHeight - 1
Fibers == Writers \cup Readers

ASSUME HeightAssumption == kMaxHeight \in Nat \ {0} /\ MaxNodes \in Nat

ASSUME SentinelAssumption ==
  /\ Null \notin Keys \cup Nodes \cup {head, Uninit}
  /\ Uninit \notin Nodes \cup {head}
  /\ Null \notin [op : {"Seek", "Contains", "Prev", "SeekToLast"}, key : Keys \cup {Null}]
  /\ Writers \cap Readers = {}

\* compare_ orders the keys, as zset.h's Comparator does by their scores: keys that
\* compare equal compare alike with every other key.
ASSUME OrderAssumption ==
  /\ \A a \in Keys : ~Before(a, a)
  /\ \A a, b, c \in Keys : Before(a, b) /\ Before(b, c) => Before(a, c)
  /\ \A a, b, c \in Keys : Before(a, c) => Before(a, b) \/ Before(b, c)

VARIABLES
  key,         \* the key of each node
  next,        \* next_ of each node, by level
  allocated,   \* how many nodes the arena has given out
  max_height,  \* max_height_
  heights,     \* the values max_height_ has held
  pc, op, target, x, level,   \* a search, and the level being linked
  prev,        \* prev[] of each Insert
  height,      \* the height drawn by each Insert
  node         \* the node being inserted; an iterator's node_

shared == <<key, next, allocated, max_height, heights>>
vars == <<shared, pc, op, target, x, level, prev, height, node>>

NoLinks == [l \in Levels |-> Uninit]

Init ==
  /\ key = [n \in Nodes |-> Null]
  /\ next = [n \in Nodes \cup {head} |->
               IF n = head THEN [l \in Levels |-> Null] ELSE NoLinks]
  /\ allocated = 0
  /\ max_height = 1
  /\ heights = {1}
  /\ pc = [f \in Fibers |-> "idle"]
  /\ op = [f \in Fibers |-> Null]
  /\ target = [f \in Fibers |-> Null]
  /\ x = [f \in Fibers |-> head]
  /\ level = [f \in Fibers |-> 0]
  /\ prev = [w \in Writers |-> NoLinks]
  /\ height = [w \in Writers |-> 1]
  /\ node = [f \in Fibers |-> Null]

Goto(f, label) == pc' = [pc EXCEPT ![f] = label]

-----------------------------------------------------------------------------
(* FindGreaterOrEqual, FindLessThan and FindLast share their loop.          *)

\* The search starts at head_ on the highest level that GetMaxHeight shows.
StartSearch(f, o, k, h) ==
  /\ pc[f] = "idle"
  /\ op' = [op EXCEPT ![f] = o]
  /\ target' = [target EXCEPT ![f] = k]
  /\ x' = [x EXCEPT ![f] = head]
  /\ level' = [level EXCEPT ![f] = h - 1]
  /\ Goto(f, "search")
  /\ UNCHANGED <<shared, height, node>>

\* Mutant: the search passes equal keys.
GoesRightPastEqual(f, n) ==
  /\ n # Null
  /\ n # Uninit /\ op[f] # "SeekToLast" => ~Before(target[f], key[n])

\* KeyIsAfterNode(key, n), and its counterparts in the other two loops.  A link
\* that was never written leads anywhere.
GoesRight(f, n) ==
  /\ n # Null
  /\ n # Uninit /\ op[f] # "SeekToLast" => Before(key[n], target[f])

Right(f) ==
  /\ pc[f] = "search"
  /\ x[f] # Uninit
  /\ GoesRight(f, next[x[f]][level[f]])
  /\ x' = [x EXCEPT ![f] = next[x[f]][level[f]]]
  /\ UNCHANGED <<shared, pc, op, target, level, prev, height, node>>

\* Mutant: the predecessor is not noted.
NotePrevHead(f) ==
  prev' = IF f \in Writers THEN [prev EXCEPT ![f][level[f]] = head] ELSE prev

\* prev[level] = x, when the search is an Insert's.
NotePrev(f) ==
  prev' = IF f \in Writers THEN [prev EXCEPT ![f][level[f]] = x[f]] ELSE prev

\* Mutant: level-- is forgotten.
DownStuck(f) ==
  /\ pc[f] = "search"
  /\ x[f] # Uninit
  /\ ~GoesRight(f, next[x[f]][level[f]])
  /\ level[f] > 0
  /\ NotePrev(f)
  /\ UNCHANGED <<shared, pc, op, target, x, level, height, node>>

Down(f) ==
  /\ pc[f] = "search"
  /\ x[f] # Uninit
  /\ ~GoesRight(f, next[x[f]][level[f]])
  /\ level[f] > 0
  /\ NotePrev(f)
  /\ level' = [level EXCEPT ![f] = @ - 1]
  /\ UNCHANGED <<shared, pc, op, target, x, height, node>>

\* Where the reader's iterator ends up; Contains yields the equal node.
Found(r, n) ==
  CASE op[r] = "Seek" -> n
    [] op[r] = "Contains" ->
         IF n # Null /\ ~Before(target[r], key[n]) THEN n ELSE Null
    [] OTHER -> IF x[r] = head THEN Null ELSE x[r]

EndSearch(f) ==
  /\ pc[f] = "search"
  /\ x[f] # Uninit
  /\ ~GoesRight(f, next[x[f]][level[f]])
  /\ level[f] = 0
  /\ NotePrev(f)
  /\ \/ /\ f \in Writers
        /\ Goto(f, "height")
        /\ UNCHANGED node
     \/ /\ f \in Readers
        /\ node' = [node EXCEPT ![f] = Found(f, next[x[f]][0])]
        /\ Goto(f, "idle")
  /\ UNCHANGED <<shared, op, target, x, level, height>>

-----------------------------------------------------------------------------
(* Iterator and Contains.                                                   *)

ReaderSearch(r, o, k) ==
  /\ \E h \in heights : StartSearch(r, o, k, h)
  /\ UNCHANGED prev

Seek(r, k) == ReaderSearch(r, "Seek", k)

Contains(r, k) == ReaderSearch(r, "Contains", k)

SeekToLast(r) == ReaderSearch(r, "SeekToLast", Null)

Prev(r) == node[r] \in Nodes /\ ReaderSearch(r, "Prev", key[node[r]])

SeekToFirst(r) ==
  /\ pc[r] = "idle"
  /\ node' = [node EXCEPT ![r] = next[head][0]]
  /\ UNCHANGED <<shared, pc, op, target, x, level, prev, height>>

IterNext(r) ==
  /\ pc[r] = "idle"
  /\ node[r] \in Nodes
  /\ node' = [node EXCEPT ![r] = next[node[r]][0]]
  /\ UNCHANGED <<shared, pc, op, target, x, level, prev, height>>

-----------------------------------------------------------------------------
(* Insert.                                                                  *)

\* Every Insert that has been called still needs a node.
Unborn(w) == pc[w] \in {"search", "height", "fill", "raise", "new"}

Insert(w, k) ==
  /\ StartSearch(w, "Insert", k, max_height)
  /\ allocated + Cardinality({v \in Writers : Unborn(v)}) < MaxNodes
  /\ prev' = [prev EXCEPT ![w] = NoLinks]

\* RandomHeight() and the comparison with GetMaxHeight().
RandomHeight(w) ==
  /\ pc[w] = "height"
  /\ \E h \in 1 .. kMaxHeight :
       /\ height' = [height EXCEPT ![w] = h]
       /\ Goto(w, IF h > max_height THEN "fill" ELSE "new")
  /\ UNCHANGED <<shared, op, target, x, level, prev, node>>

\* Mutant: the new levels of prev[] are left as they are.
FilledNot(w) == prev[w]

Filled(w) ==
  [l \in Levels |-> IF l \in max_height .. height[w] - 1 THEN head
                    ELSE prev[w][l]]

Fill(w) ==
  /\ pc[w] = "fill"
  /\ prev' = [prev EXCEPT ![w] = Filled(w)]
  /\ Goto(w, "raise")
  /\ UNCHANGED <<shared, op, target, x, level, height, node>>

Raise(w) ==
  /\ pc[w] = "raise"
  /\ max_height' = height[w]
  /\ heights' = heights \cup {height[w]}
  /\ Goto(w, "new")
  /\ UNCHANGED <<key, next, allocated, op, target, x, level, prev, height, node>>

NewNode(w) ==
  /\ pc[w] = "new"
  /\ allocated' = allocated + 1
  /\ node' = [node EXCEPT ![w] = allocated']
  /\ key' = [key EXCEPT ![allocated'] = target[w]]
  /\ level' = [level EXCEPT ![w] = 0]
  /\ Goto(w, "set")
  /\ UNCHANGED <<next, max_height, heights, op, target, x, prev, height>>

\* Mutant: the new node's link is taken from the lowest level.
SetLinkLowest(w) ==
  LET p == prev[w][level[w]]
  IN  /\ pc[w] = "set"
      /\ p # Uninit
      /\ next' = [next EXCEPT ![node[w]][level[w]] = next[p][0]]
      /\ Goto(w, "publish")
      /\ UNCHANGED <<key, allocated, max_height, heights, op, target, x, level,
                     prev, height, node>>

\* x->NoBarrier_SetNext(i, prev[i]->NoBarrier_Next(i)).
SetLink(w) ==
  LET p == prev[w][level[w]]
  IN  /\ pc[w] = "set"
      /\ p # Uninit
      /\ next' = [next EXCEPT ![node[w]][level[w]] = next[p][level[w]]]
      /\ Goto(w, "publish")
      /\ UNCHANGED <<key, allocated, max_height, heights, op, target, x, level,
                     prev, height, node>>

\* prev[i]->SetNext(i, x).
Publish(w) ==
  LET p == prev[w][level[w]]
  IN  /\ pc[w] = "publish"
      /\ next' = [next EXCEPT ![p][level[w]] = node[w]]
      /\ \/ /\ level[w] + 1 < height[w]
            /\ level' = [level EXCEPT ![w] = @ + 1]
            /\ Goto(w, "set")
         \/ /\ level[w] + 1 = height[w]
            /\ Goto(w, "idle")
            /\ UNCHANGED level
      /\ UNCHANGED <<key, allocated, max_height, heights, op, target, x, prev,
                     height, node>>

-----------------------------------------------------------------------------
Search(f) == Right(f) \/ Down(f) \/ EndSearch(f)

Link(w) ==
  \/ RandomHeight(w) \/ Fill(w) \/ Raise(w)
  \/ NewNode(w) \/ SetLink(w) \/ Publish(w)

Next ==
  \/ \E f \in Fibers : Search(f)
  \/ \E w \in Writers : Link(w) \/ \E k \in Keys : Insert(w, k)
  \/ \E r \in Readers :
       \/ \E k \in Keys : Seek(r, k) \/ Contains(r, k)
       \/ SeekToLast(r) \/ Prev(r) \/ SeekToFirst(r) \/ IterNext(r)

Spec == Init /\ [][Next]_vars

\* A fiber that can run is run; a reader never waits for a writer.
FairSpec ==
  /\ Spec
  /\ \A f \in Fibers : WF_vars(Search(f))
  /\ \A w \in Writers : WF_vars(Link(w))

-----------------------------------------------------------------------------
\* Every variable has its type.  No fiber is ever at a node whose address came
\* from memory that was not written: neither from a link that Insert had not yet
\* set nor from an entry of prev[] above the height the search started from.
TypeOK ==
  /\ key \in [Nodes -> Keys \cup {Null}]
  /\ next \in [Nodes \cup {head} -> [Levels -> Nodes \cup {Null, Uninit}]]
  /\ allocated \in 0 .. MaxNodes
  /\ max_height \in heights /\ heights \subseteq 1 .. kMaxHeight
  /\ pc \in [Fibers -> {"idle", "search", "height", "fill", "raise", "new",
                        "set", "publish"}]
  /\ target \in [Fibers -> Keys \cup {Null}]
  /\ x \in [Fibers -> Nodes \cup {head}]
  /\ level \in [Fibers -> Levels]
  /\ prev \in [Writers -> [Levels -> Nodes \cup {head, Uninit}]]
  /\ \A w \in Writers :
       pc[w] \in {"set", "publish"} =>
         \A l \in 0 .. height[w] - 1 : prev[w][l] # Uninit
  /\ height \in [Writers -> 1 .. kMaxHeight]
  /\ node \in [Fibers -> Nodes \cup {Null}]

\* The nodes on a level, in the order of its links.
Chain(l) ==
  LET after(s) == next[IF s = <<>> THEN head ELSE s[Len(s)]][l]
      c[i \in 0 .. MaxNodes] ==
        IF i = 0 THEN <<>>
        ELSE IF after(c[i - 1]) \in Nodes THEN Append(c[i - 1], after(c[i - 1]))
        ELSE c[i - 1]
  IN  c[MaxNodes]

On(l) == {Chain(l)[i] : i \in DOMAIN Chain(l)}

\* At every moment of an Insert, each level is sorted, its nodes have a link for
\* it, and they are on the level below as well: a reader that comes down from a
\* level never lands on a node that the lower one does not have yet.
LevelsNested ==
  \A l \in Levels :
    /\ \A i, j \in DOMAIN Chain(l) :
         i < j => ~Before(key[Chain(l)[j]], key[Chain(l)[i]])
    /\ \A n \in On(l) : next[n][l] # Uninit
    /\ l > 0 => On(l) \subseteq On(l - 1)

\* Every search and every Insert ends, whatever the other fibers do.
OperationsEnd ==
  \A f \in Fibers : pc[f] # "idle" ~> pc[f] = "idle"

-----------------------------------------------------------------------------
(* The refinement mapping to OrderedList.  An Insert takes effect when the  *)
(* node is published on level 0; a search, at its last load.                *)

Inserting(w) ==
  pc[w] # "idle" /\ ~(pc[w] \in {"set", "publish"} /\ level[w] > 0)

Ordered == INSTANCE OrderedList WITH
  list <- [i \in DOMAIN Chain(0) |->
             [id |-> Chain(0)[i], key |-> key[Chain(0)[i]]]],
  pending <- [w \in Writers |-> IF Inserting(w) THEN target[w] ELSE Null],
  wanted <- [r \in Readers |->
               IF pc[r] = "search" THEN [op |-> op[r], key |-> target[r]]
               ELSE Null],
  iter <- [r \in Readers |-> node[r]]

\* With one writer at a time, every Insert and every iterator operation behaves
\* as one indivisible step on a sorted list, although readers take no lock.
LinearizableList == Ordered!Spec
=============================================================================
