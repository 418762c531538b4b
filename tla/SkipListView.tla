---------------------------- MODULE SkipListView ----------------------------
(***************************************************************************)
(* What a user of a skip list with one writer can rely on: its bottom      *)
(* level is a sorted list that grows, through which an iterator moves.     *)
(* The definitions are those of SkipListProofs, which shows it of SkipList *)
(* (NextIInv, WriterGrows, QuietGrows, SeekLands, NextMoves); ZsetSteps    *)
(* relies on it, and ZsetProofs puts the two together.                     *)
(***************************************************************************)
EXTENDS Integers

CONSTANTS Writers, Readers, MaxNodes, Null, Uninit, Before(_, _)

VARIABLES key, next, pc, op, target, x, level, node

Nodes == 1 .. MaxNodes
head == 0

\* The nodes that are linked on a level.
InList(l) ==
  {n \in Nodes : /\ next[n][l] # Uninit
                 /\ ~\E w \in Writers :
                       pc[w] = "publish" /\ level[w] = l /\ node[w] = n}

\* The order of the list: of nodes with equal keys the newest is the first.
Ahead(n, m) ==
  \/ n = head
  \/ Before(key[n], key[m])
  \/ ~Before(key[m], key[n]) /\ n > m

\* An iterator is at the end or at a node of the list.
Iterators == \A r \in Readers : node[r] \in {Null} \cup InList(0)

\* Insert has not linked its node yet.
Inserting(w) ==
  pc[w] # "idle" /\ ~(pc[w] \in {"set", "publish"} /\ level[w] > 0)

\* The local variables of a fiber.
Rests(f) ==
  /\ pc'[f] = pc[f] /\ op'[f] = op[f] /\ target'[f] = target[f] /\ x'[f] = x[f]
  /\ level'[f] = level[f] /\ node'[f] = node[f]

\* A node that is in the list stays there with its key.
Grows == \A n \in InList(0) : n \in InList(0)' /\ key'[n] = key[n]

\* A step of the writer inside Insert: a node with its key enters the list, before
\* the Insert ends.
Progress(w) ==
  /\ target'[w] = target[w] /\ \A g \in (Writers \cup Readers) \ {w} : Rests(g)
  /\ \A n \in InList(0)' : n \in InList(0) \/ key'[n] = target[w]
  /\ ~Inserting(w) => ~Inserting(w)'
  /\ Inserting(w) => Inserting(w)' \/ \E n \in InList(0)' : key'[n] = target[w]

\* From q the iterator still comes to m.
Leads(q, m) == q # Null /\ (q = m \/ Ahead(q, m))

\* Seek ends at the first node that is not before its target.
Lands(r, q) ==
  /\ q = Null \/ (q \in InList(0) /\ ~Before(key[q], target[r]))
  /\ \A m \in InList(0) : ~Before(key[m], target[r]) => Leads(q, m)

\* Next goes to the node that follows, and passes none.
Moves(n, q) ==
  /\ q = Null \/ (q \in InList(0) /\ Ahead(n, q))
  /\ \A m \in InList(0) : Ahead(n, m) => Leads(q, m)
=============================================================================
