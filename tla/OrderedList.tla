----------------------------- MODULE OrderedList -----------------------------
(***************************************************************************)
(* What SkipList promises when its writes are synchronized: a list of      *)
(* nodes, sorted by key, on which an Insert and every move of an iterator  *)
(* is one indivisible step between its call and its return.                *)
(***************************************************************************)
EXTENDS Integers, Sequences

CONSTANTS
  Writers, Readers,
  Keys,
  Before(_, _),   \* compare_(a, b) < 0
  Nodes,
  Null

VARIABLES
  list,      \* the nodes in order, as [id, key]
  pending,   \* the key each writer is inserting, or Null
  wanted,    \* the search each reader is making, or Null
  iter       \* the node each reader's iterator is at, or Null

vars == <<list, pending, wanted, iter>>

Init ==
  /\ list = <<>>
  /\ pending = [w \in Writers |-> Null]
  /\ wanted = [r \in Readers |-> Null]
  /\ iter = [r \in Readers |-> Null]

\* How many nodes come before key k; they are the first of the list.
Rank(k) ==
  CHOOSE i \in 0 .. Len(list) : \A j \in DOMAIN list : Before(list[j].key, k) <=> j <= i

InsertAfter(i, e) == SubSeq(list, 1, i) \o <<e>> \o SubSeq(list, i + 1, Len(list))

\* The id at a position of the list, Null past its ends.
IdAt(i) == IF i \in DOMAIN list THEN list[i].id ELSE Null

PosOf(n) == CHOOSE i \in DOMAIN list : list[i].id = n

InsertCall(w) ==
  /\ pending[w] = Null
  /\ \E k \in Keys : pending' = [pending EXCEPT ![w] = k]
  /\ UNCHANGED <<list, wanted, iter>>

\* The new node goes before the nodes that compare equal to it.
Insert(w) ==
  /\ pending[w] # Null
  /\ \E n \in Nodes :
       /\ \A i \in DOMAIN list : list[i].id # n
       /\ list' = InsertAfter(Rank(pending[w]), [id |-> n, key |-> pending[w]])
  /\ pending' = [pending EXCEPT ![w] = Null]
  /\ UNCHANGED <<wanted, iter>>

SearchCall(r) ==
  /\ wanted[r] = Null
  /\ \/ \E k \in Keys, op \in {"Seek", "Contains"} :
          wanted' = [wanted EXCEPT ![r] = [op |-> op, key |-> k]]
     \/ wanted' = [wanted EXCEPT ![r] = [op |-> "SeekToLast", key |-> Null]]
     \/ /\ iter[r] # Null
        /\ wanted' = [wanted EXCEPT ![r] =
                        [op |-> "Prev", key |-> list[PosOf(iter[r])].key]]
  /\ UNCHANGED <<list, pending, iter>>

Answer(op, k) ==
  CASE op = "Seek" -> IdAt(Rank(k) + 1)
    [] op = "Contains" ->
         LET i == Rank(k) + 1
         IN  IF i \in DOMAIN list /\ ~Before(k, list[i].key) THEN list[i].id
             ELSE Null
    [] op = "Prev" -> IdAt(Rank(k))
    [] op = "SeekToLast" -> IdAt(Len(list))

SearchReturn(r) ==
  /\ wanted[r] # Null
  /\ iter' = [iter EXCEPT ![r] = Answer(wanted[r].op, wanted[r].key)]
  /\ wanted' = [wanted EXCEPT ![r] = Null]
  /\ UNCHANGED <<list, pending>>

SeekToFirst(r) ==
  /\ wanted[r] = Null
  /\ iter' = [iter EXCEPT ![r] = IdAt(1)]
  /\ UNCHANGED <<list, pending, wanted>>

IterNext(r) ==
  /\ wanted[r] = Null
  /\ iter[r] # Null
  /\ iter' = [iter EXCEPT ![r] = IdAt(PosOf(iter[r]) + 1)]
  /\ UNCHANGED <<list, pending, wanted>>

Next ==
  \/ \E w \in Writers : InsertCall(w) \/ Insert(w)
  \/ \E r \in Readers :
       SearchCall(r) \/ SearchReturn(r) \/ SeekToFirst(r) \/ IterNext(r)

Spec == Init /\ [][Next]_vars
=============================================================================
