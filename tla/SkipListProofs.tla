--------------------------- MODULE SkipListProofs ---------------------------
(***************************************************************************)
(* Proofs about SkipList for one writer and any readers, keys, heights and *)
(* number of nodes.  With more writers TypeOK and LevelsNested fail; the   *)
(* code asks its callers to synchronize writes.                            *)
(***************************************************************************)
EXTENDS SkipList, FiniteSetTheorems, TLAPS

OneWriter == \A v, w \in Writers : v = w

(***************************************************************************)
(* The inductive invariant.                                                *)
(***************************************************************************)
\* The nodes that are linked on a level.
InList(l) ==
  {n \in Nodes : /\ next[n][l] # Uninit
                 /\ ~\E w \in Writers :
                       pc[w] = "publish" /\ level[w] = l /\ node[w] = n}

\* The order of the list: of nodes with equal keys the newest is the first.
Ahead(n, m) ==
  \/ n = head
  \/ Before(key[n], key[m])
  \/ ~Before(key[m], key[n]) /\ n > m

\* A link leads to the first of the nodes that come after.
Links(l) ==
  \A n \in {head} \cup InList(l) :
    /\ \/ next[n][l] = Null
       \/ next[n][l] \in InList(l) /\ Ahead(n, next[n][l])
    /\ \A m \in InList(l) :
         Ahead(n, m) =>
           next[n][l] # Null /\ (next[n][l] = m \/ Ahead(next[n][l], m))

\* A node is linked from the bottom, below max_height.
NodeInv ==
  /\ \A n \in Nodes : n <= allocated => key[n] \in Keys
  /\ \A n \in Nodes, l \in Levels :
       /\ n > allocated \/ l >= max_height => next[n][l] = Uninit
       /\ l > 0 /\ next[n][l] # Uninit => n \in InList(l - 1)

\* A search is at a node of its level that comes before its target.
Standing(f) ==
  /\ x[f] \in {head} \cup InList(level[f])
  /\ op[f] # "SeekToLast" =>
       target[f] \in Keys /\ (x[f] = head \/ Before(key[x[f]], target[f]))

ReaderInv(r) ==
  /\ pc[r] \in {"idle", "search"}
  /\ pc[r] = "search" =>
       op[r] \in {"Seek", "Contains", "Prev", "SeekToLast"} /\ Standing(r)
  /\ node[r] \in {Null} \cup InList(0)

\* prev[l] is where the new node belongs on level l.
Spot(w, l) ==
  LET p == prev[w][l]
  IN  /\ p \in {head} \cup InList(l)
      /\ p = head \/ Before(key[p], target[w])
      /\ next[p][l] = Null \/ ~Before(key[next[p][l]], target[w])

WriterInv(w) ==
  /\ pc[w] # "idle" => op[w] = "Insert" /\ target[w] \in Keys
  /\ Unborn(w) => allocated < MaxNodes
  /\ pc[w] = "search" =>
       /\ Standing(w) /\ level[w] < max_height
       /\ \A l \in level[w] + 1 .. max_height - 1 : Spot(w, l)
  /\ pc[w] \in {"height", "fill"} => \A l \in 0 .. max_height - 1 : Spot(w, l)
  /\ pc[w] \in {"fill", "raise"} => height[w] > max_height
  /\ pc[w] \in {"raise", "new"} => \A l \in 0 .. height[w] - 1 : Spot(w, l)
  /\ pc[w] \in {"new", "set", "publish"} => height[w] <= max_height
  /\ pc[w] \in {"set", "publish"} =>
       /\ node[w] = allocated /\ allocated > 0 /\ key[allocated] = target[w]
       /\ level[w] < height[w]
       /\ \A l \in level[w] .. height[w] - 1 : Spot(w, l)
       /\ \A l \in Levels :
            next[allocated][l] # Uninit <=>
              l < level[w] \/ (l = level[w] /\ pc[w] = "publish")
  /\ pc[w] = "publish" =>
       next[node[w]][level[w]] = next[prev[w][level[w]]][level[w]]

IInv ==
  /\ TypeOK /\ DOMAIN op = Fibers /\ NodeInv
  /\ \A l \in Levels : Links(l)
  /\ \A r \in Readers : ReaderInv(r)
  /\ \A w \in Writers : WriterInv(w)

(***************************************************************************)
(* The order of the nodes.                                                 *)
(***************************************************************************)
\* The nodes that have been given out have keys.
LEMMA Known ==
  ASSUME IInv, NEW l \in Levels, NEW n \in InList(l)
  PROVE  n \in Nodes /\ n \in Int /\ n # head /\ n <= allocated /\ key[n] \in Keys
  <1>1. n \in Nodes /\ next[n][l] # Uninit /\ allocated \in Int
    BY HeightAssumption DEF InList, IInv, TypeOK
  <1>2. n <= allocated
    BY <1>1 DEF IInv, NodeInv, Nodes
  <1> QED
    BY <1>1, <1>2 DEF IInv, NodeInv, Nodes, head

LEMMA AheadTransitive ==
  ASSUME NEW n, NEW m \in Nodes, NEW k \in Nodes,
         n = head \/ (n \in Nodes /\ key[n] \in Keys),
         key[m] \in Keys, key[k] \in Keys, Ahead(n, m), Ahead(m, k)
  PROVE  Ahead(n, k)
  <1>1. m # head
    BY DEF Nodes, head
  <1>2. CASE n = head
    BY Zenon, <1>2 DEF Ahead
  <1>3. CASE n # head
    <2>1. n \in Int /\ m \in Int /\ k \in Int
      BY <1>3 DEF Nodes
    <2> QED
      BY <1>1, <1>3, <2>1, OrderAssumption DEF Ahead
  <1> QED
    BY Zenon, <1>2, <1>3

LEMMA AheadTotal ==
  ASSUME NEW n \in Nodes, NEW m \in Nodes, key[n] \in Keys, key[m] \in Keys
  PROVE  /\ ~Ahead(n, n) /\ ~(Ahead(n, m) /\ Ahead(m, n))
         /\ n = m \/ Ahead(n, m) \/ Ahead(m, n)
  <1>1. n \in Int /\ m \in Int /\ n # head /\ m # head
    BY DEF Nodes, head
  <1> QED
    BY <1>1, OrderAssumption DEF Ahead

LEMMA Sentinels ==
  /\ Null \notin Keys /\ Null \notin Nodes /\ Null # head /\ Null # Uninit
  /\ Uninit \notin Nodes /\ Uninit # head /\ head \notin Nodes
  /\ Levels \subseteq Int /\ 0 \in Levels
  /\ \A f \in Readers : f \in Fibers /\ f \notin Writers
  /\ \A f \in Writers : f \in Fibers /\ f \notin Readers
  BY SentinelAssumption, HeightAssumption DEF Nodes, head, Levels, Fibers

\* What a link of a linked node leads to.
LEMMA LinkTo ==
  ASSUME IInv, NEW l \in Levels, NEW n \in {head} \cup InList(l)
  PROVE  /\ next[n][l] = Null \/ next[n][l] \in InList(l)
         /\ next[n][l] \in Nodes \cup {Null} /\ next[n][l] # Uninit
  <1>1. next[n][l] = Null \/ next[n][l] \in InList(l)
    BY Zenon DEF IInv, Links
  <1> QED
    BY Zenon, <1>1, Sentinels DEF InList

\* A linked node is linked on the level below.
LEMMA Below ==
  ASSUME IInv, NEW l \in Levels, l > 0
  PROVE  l - 1 \in Levels /\ InList(l) \subseteq InList(l - 1)
  <1>1. l - 1 \in Levels
    BY HeightAssumption DEF Levels
  <1>2. ASSUME NEW n \in InList(l) PROVE n \in InList(l - 1)
    BY Zenon DEF IInv, NodeInv, InList
  <1> QED
    BY Zenon, <1>1, <1>2

(***************************************************************************)
(* What a step leaves alone.                                               *)
(***************************************************************************)
\* The local variables of a fiber.
Rests(f) ==
  /\ pc'[f] = pc[f] /\ op'[f] = op[f] /\ target'[f] = target[f] /\ x'[f] = x[f]
  /\ level'[f] = level[f] /\ node'[f] = node[f]

\* The lists stay when no link is stored and none is about to be published.
LEMMA ListStays ==
  ASSUME UNCHANGED next,
         \A w \in Writers :
           /\ pc'[w] = "publish" <=> pc[w] = "publish"
           /\ pc[w] = "publish" => level'[w] = level[w] /\ node'[w] = node[w]
  PROVE  \A l : InList(l)' = InList(l)
  BY Zenon DEF InList

\* Links that stay lead to the first node that comes after, as before.
LEMMA LinksStay ==
  ASSUME IInv, NEW l \in Levels, InList(l)' = InList(l),
         \A n \in {head} \cup InList(l) : next'[n][l] = next[n][l],
         \A n \in InList(l) : key'[n] = key[n]
  PROVE  Links(l)'
  <1>1. ASSUME NEW n \in {head} \cup InList(l), NEW m \in InList(l)
        PROVE  Ahead(n, m)' <=> Ahead(n, m)
    BY Zenon DEF Ahead
  <1>2. ASSUME NEW n \in {head} \cup InList(l)
        PROVE  \/ next'[n][l] = Null
               \/ next'[n][l] \in InList(l)' /\ Ahead(n, next[n][l])'
    BY Zenon, <1>1 DEF IInv, Links
  <1>3. ASSUME NEW n \in {head} \cup InList(l), NEW m \in InList(l), Ahead(n, m)'
        PROVE  next'[n][l] # Null /\ (next'[n][l] = m \/ Ahead(next[n][l], m)')
    <2>1. next[n][l] # Null /\ (next[n][l] = m \/ Ahead(next[n][l], m))
      BY Zenon, <1>1, <1>3 DEF IInv, Links
    <2>2. next[n][l] \in InList(l)
      BY Zenon, <2>1, LinkTo
    <2> QED
      BY Zenon, <1>1, <2>1, <2>2
  <1> QED
    BY Zenon, <1>2, <1>3 DEF Links

\* A reader that rests is where it was, also when nodes are linked.
LEMMA ReaderStays ==
  ASSUME IInv, NEW r \in Readers, Rests(r),
         \A l \in Levels : InList(l) \subseteq InList(l)',
         \A l \in Levels : \A n \in InList(l) : key'[n] = key[n]
  PROVE  ReaderInv(r)'
  <1>1. ReaderInv(r) /\ level[r] \in Levels /\ 0 \in Levels
    BY Zenon, Sentinels DEF IInv, TypeOK
  <1>2. Standing(r) => Standing(r)'
    BY Zenon, <1>1 DEF Standing, Rests
  <1> QED
    BY Zenon, <1>1, <1>2 DEF ReaderInv, Rests

\* A step of a reader.
LEMMA ReaderStep ==
  ASSUME IInv, NEW r \in Readers, UNCHANGED <<shared, prev, height>>,
         DOMAIN op' = DOMAIN op,
         \A g \in Fibers \ {r} : Rests(g), TypeOK', ReaderInv(r)'
  PROVE  IInv'
  <1>1. UNCHANGED <<key, next, allocated, max_height, heights, prev, height>>
    BY Zenon DEF shared
  <1>2. \A w \in Writers : Rests(w)
    BY Zenon, Sentinels
  <1>3. \A l : InList(l)' = InList(l)
    BY Zenon, <1>1, <1>2, ListStays DEF Rests
  <1>4. NodeInv' /\ \A l \in Levels : Links(l)'
    <2>1. NodeInv'
      BY Zenon, <1>1, <1>3 DEF IInv, NodeInv
    <2>2. \A l \in Levels : Links(l)'
      BY Zenon, <1>1, <1>3, LinksStay
    <2> QED
      BY Zenon, <2>1, <2>2
  <1>5. ASSUME NEW q \in Readers PROVE ReaderInv(q)'
    <2>1. CASE q = r
      BY Zenon, <2>1
    <2>2. CASE q # r
      BY Zenon, <1>1, <1>3, <2>2, ReaderStays, Sentinels
    <2> QED
      BY Zenon, <2>1, <2>2
  <1>6. ASSUME NEW w \in Writers PROVE WriterInv(w)'
    <2>1. WriterInv(w) /\ Rests(w)
      BY Zenon, <1>2 DEF IInv
    <2>2. \A l : Spot(w, l)' <=> Spot(w, l)
      BY Zenon, <1>1, <1>3, <2>1 DEF Spot, Rests
    <2>3. (Standing(w)' <=> Standing(w)) /\ (Unborn(w)' <=> Unborn(w))
      BY Zenon, <1>1, <1>3, <2>1 DEF Standing, Unborn, Rests
    <2> QED
      BY Zenon, <1>1, <2>1, <2>2, <2>3 DEF WriterInv, Rests
  <1> QED
    BY Zenon, <1>4, <1>5, <1>6 DEF IInv

\* A step of the writer that stores no link.
LEMMA WriterStep ==
  ASSUME IInv, OneWriter, NEW w \in Writers, UNCHANGED <<key, next, allocated>>,
         DOMAIN op' = DOMAIN op, max_height' \in Int, max_height' >= max_height,
         \A g \in Fibers \ {w} : Rests(g),
         pc[w] # "publish", pc'[w] # "publish", TypeOK', WriterInv(w)'
  PROVE  IInv'
  <1>1. \A v \in Writers : v = w
    BY Zenon DEF OneWriter
  <1>2. \A l : InList(l)' = InList(l)
    BY Zenon, <1>1, ListStays
  <1>3. \A l \in Levels : l >= max_height' => l >= max_height
    BY Sentinels DEF IInv, TypeOK
  <1>4. NodeInv' /\ \A l \in Levels : Links(l)'
    <2>1. NodeInv'
      BY Zenon, <1>2, <1>3 DEF IInv, NodeInv
    <2>2. \A l \in Levels : Links(l)'
      BY Zenon, <1>2, LinksStay
    <2> QED
      BY Zenon, <2>1, <2>2
  <1>5. ASSUME NEW q \in Readers PROVE ReaderInv(q)'
    BY Zenon, <1>2, ReaderStays, Sentinels
  <1> QED
    BY Zenon, <1>1, <1>4, <1>5 DEF IInv

(***************************************************************************)
(* The steps of a search.                                                  *)
(***************************************************************************)
\* Where a search is, and what it loads.
LEMMA SearchFacts ==
  ASSUME IInv, NEW f \in Fibers, pc[f] = "search"
  PROVE  /\ Standing(f) /\ level[f] \in Levels
         /\ x[f] \in {head} \cup InList(level[f])
         /\ \/ next[x[f]][level[f]] = Null
            \/ next[x[f]][level[f]] \in InList(level[f])
         /\ next[x[f]][level[f]] \in Nodes \cup {Null}
         /\ next[x[f]][level[f]] # Uninit
  <1>1. Standing(f) /\ level[f] \in Levels
    BY Zenon DEF Fibers, IInv, ReaderInv, WriterInv, TypeOK
  <1>2. x[f] \in {head} \cup InList(level[f])
    BY Zenon, <1>1 DEF Standing
  <1>3. PICK l \in Levels : l = level[f]
    BY Zenon, <1>1
  <1>4. PICK n \in {head} \cup InList(l) : n = x[f]
    BY Zenon, <1>2, <1>3
  <1> QED
    BY Zenon, <1>1, <1>2, <1>3, <1>4, LinkTo

\* The search goes on along its level.
LEMMA RightIInv ==
  ASSUME IInv, OneWriter, NEW f \in Fibers, Right(f)
  PROVE  IInv'
  <1>1. PICK n : n = next[x[f]][level[f]]
    OBVIOUS
  <1>2. /\ pc[f] = "search" /\ GoesRight(f, n) /\ x' = [x EXCEPT ![f] = n]
        /\ UNCHANGED <<shared, pc, op, target, level, prev, height, node>>
    BY Zenon, <1>1 DEF Right
  <1>3. /\ Standing(f) /\ level[f] \in Levels /\ n \in InList(level[f])
        /\ n \in Nodes /\ n # Uninit
    BY Zenon, <1>1, <1>2, SearchFacts, Sentinels DEF GoesRight
  <1>4. UNCHANGED <<key, next, allocated, max_height, heights>>
    BY Zenon, <1>2 DEF shared
  <1>5. x'[f] = n /\ \A g \in Fibers \ {f} : Rests(g)
    BY Zenon, <1>2 DEF IInv, TypeOK, Rests
  <1>6. TypeOK'
    BY Zenon, <1>2, <1>3, <1>4 DEF IInv, TypeOK
  <1>7. \A l : InList(l)' = InList(l)
    BY Zenon, <1>2, <1>4, ListStays
  <1>8. Standing(f)'
    BY Zenon, <1>2, <1>3, <1>4, <1>5, <1>7 DEF Standing, GoesRight
  <1>9. CASE f \in Readers
    <2>1. ReaderInv(f)'
      BY Zenon, <1>2, <1>7, <1>8, <1>9 DEF IInv, ReaderInv
    <2> QED
      BY Zenon, <1>2, <1>5, <1>6, <1>9, <2>1, ReaderStep
  <1>10. CASE f \in Writers
    <2>1. \A l : Spot(f, l)' <=> Spot(f, l)
      BY Zenon, <1>2, <1>4, <1>7 DEF Spot
    <2>2. WriterInv(f)'
      BY <1>2, <1>4, <1>8, <1>10, <2>1 DEF IInv, WriterInv, Unborn
    <2>3. max_height' \in Int /\ max_height' >= max_height
      BY <1>4 DEF IInv, TypeOK
    <2>4. pc[f] # "publish" /\ pc'[f] # "publish" /\ DOMAIN op' = DOMAIN op
      BY <1>2
    <2> QED
      BY Zenon, <1>4, <1>5, <1>6, <1>10, <2>2, <2>3, <2>4, WriterStep
  <1> QED
    BY Zenon, <1>9, <1>10 DEF Fibers

\* What the search has found when it leaves a level.
LEMMA LeavesAt ==
  ASSUME IInv, NEW w \in Writers, pc[w] = "search",
         ~GoesRight(w, next[x[w]][level[w]]), NotePrev(w)
  PROVE  /\ prev' \in [Writers -> [Levels -> Nodes \cup {head, Uninit}]]
         /\ prev'[w][level[w]] = x[w]
         /\ \A l \in Levels \ {level[w]} : prev'[w][l] = prev[w][l]
         /\ x[w] \in {head} \cup InList(level[w])
         /\ x[w] = head \/ Before(key[x[w]], target[w])
         /\ \/ next[x[w]][level[w]] = Null
            \/ ~Before(key[next[x[w]][level[w]]], target[w])
  <1>1. op[w] = "Insert" /\ w \in Fibers
    BY Zenon, Sentinels DEF IInv, WriterInv
  <1>2. /\ Standing(w) /\ level[w] \in Levels /\ x[w] \in {head} \cup InList(level[w])
        /\ next[x[w]][level[w]] # Uninit
    BY Zenon, <1>1, SearchFacts
  <1>3. prev' = [prev EXCEPT ![w][level[w]] = x[w]]
    BY Zenon DEF NotePrev
  <1>4. prev \in [Writers -> [Levels -> Nodes \cup {head, Uninit}]]
        /\ x[w] \in Nodes \cup {head}
    BY Zenon, <1>1 DEF IInv, TypeOK
  <1>5. /\ prev' \in [Writers -> [Levels -> Nodes \cup {head, Uninit}]]
        /\ prev'[w][level[w]] = x[w]
        /\ \A l \in Levels \ {level[w]} : prev'[w][l] = prev[w][l]
    BY <1>2, <1>3, <1>4
  <1>6. op[w] # "SeekToLast"
    BY <1>1
  <1> QED
    BY Zenon, <1>2, <1>5, <1>6 DEF Standing, GoesRight

\* The search goes down a level.
LEMMA DownIInv ==
  ASSUME IInv, OneWriter, NEW f \in Fibers, Down(f)
  PROVE  IInv'
  <1>1. /\ pc[f] = "search" /\ ~GoesRight(f, next[x[f]][level[f]])
        /\ level[f] > 0 /\ NotePrev(f) /\ level' = [level EXCEPT ![f] = level[f] - 1]
        /\ UNCHANGED <<shared, pc, op, target, x, height, node>>
    BY Zenon DEF Down
  <1>2. Standing(f) /\ level[f] \in Levels
    BY Zenon, <1>1, SearchFacts
  <1>3. UNCHANGED <<key, next, allocated, max_height, heights>>
    BY Zenon, <1>1 DEF shared
  <1>4. PICK k : k = level[f]
    OBVIOUS
  <1>5. k \in Levels /\ k > 0 /\ k - 1 \in Levels /\ InList(k) \subseteq InList(k - 1)
    BY Zenon, <1>1, <1>2, <1>4, Below
  <1>6. level'[f] = k - 1 /\ \A g \in Fibers \ {f} : Rests(g)
    BY Zenon, <1>1, <1>4 DEF IInv, TypeOK, Rests
  <1>7. level' \in [Fibers -> Levels]
    BY Zenon, <1>1, <1>4, <1>5 DEF IInv, TypeOK
  <1>8. \A l : InList(l)' = InList(l)
    <2>1. \A w \in Writers : pc[w] = "publish" => w # f
      BY <1>1
    <2> QED
      BY Zenon, <1>1, <1>3, <1>6, <2>1, ListStays, Sentinels DEF Rests
  <1>9. Standing(f)'
    BY Zenon, <1>1, <1>2, <1>3, <1>4, <1>5, <1>6, <1>8 DEF Standing
  <1>10. CASE f \in Readers
    <2>1. UNCHANGED prev
      BY Zenon, <1>1, <1>10, Sentinels DEF NotePrev
    <2>2. TypeOK'
      BY Zenon, <1>1, <1>3, <1>7, <2>1 DEF IInv, TypeOK
    <2>3. ReaderInv(f)'
      BY Zenon, <1>1, <1>8, <1>9, <1>10 DEF IInv, ReaderInv
    <2> QED
      BY Zenon, <1>1, <1>6, <1>10, <2>1, <2>2, <2>3, ReaderStep
  <1>11. CASE f \in Writers
    <2>1. /\ prev' \in [Writers -> [Levels -> Nodes \cup {head, Uninit}]]
          /\ prev'[f][k] = x[f]
          /\ \A l \in Levels \ {k} : prev'[f][l] = prev[f][l]
          /\ x[f] \in {head} \cup InList(k)
          /\ x[f] = head \/ Before(key[x[f]], target[f])
          /\ next[x[f]][k] = Null \/ ~Before(key[next[x[f]][k]], target[f])
      BY Zenon, <1>1, <1>4, <1>11, LeavesAt
    <2>2. pc[f] \notin {"set", "publish"} /\ \A v \in Writers : v = f
      BY <1>1, <1>11 DEF OneWriter
    <2>3. TypeOK'
      BY Zenon, <1>1, <1>3, <1>7, <2>1, <2>2 DEF IInv, TypeOK
    <2>4. Spot(f, k)'
      BY Zenon, <1>1, <1>3, <1>8, <2>1 DEF Spot
    <2>5. \A l \in Levels \ {k} : Spot(f, l) => Spot(f, l)'
      BY Zenon, <1>1, <1>3, <1>8, <2>1 DEF Spot
    <2>6. /\ level[f] < max_height /\ \A l \in k + 1 .. max_height - 1 : Spot(f, l)
          /\ op[f] = "Insert" /\ target[f] \in Keys /\ allocated < MaxNodes
      BY <1>1, <1>4, <1>11 DEF IInv, WriterInv, Unborn
    <2>7. max_height \in 1 .. kMaxHeight /\ max_height \in Int
      BY HeightAssumption DEF IInv, TypeOK
    <2>8. ASSUME NEW l \in k .. max_height - 1 PROVE Spot(f, l)'
      <3>1. l \in Levels /\ (l = k \/ l \in k + 1 .. max_height - 1)
        BY <1>5, <2>7, <2>8, HeightAssumption DEF Levels
      <3> QED
        BY <2>4, <2>5, <2>6, <3>1
    <2>9. k - 1 + 1 = k /\ k - 1 < max_height
      BY <1>4, <1>5, <2>6, <2>7, Sentinels
    <2>10. WriterInv(f)'
      BY <1>1, <1>3, <1>6, <1>9, <2>6, <2>8, <2>9 DEF WriterInv, Unborn
    <2>11. /\ max_height' \in Int /\ max_height' >= max_height
           /\ pc[f] # "publish" /\ pc'[f] # "publish" /\ DOMAIN op' = DOMAIN op
      BY <1>1, <1>3, <2>7
    <2> QED
      BY Zenon, <1>3, <1>6, <1>11, <2>3, <2>10, <2>11, WriterStep
  <1> QED
    BY Zenon, <1>10, <1>11 DEF Fibers

\* The search ends: a reader has its node, Insert knows all predecessors.
LEMMA EndSearchIInv ==
  ASSUME IInv, OneWriter, NEW f \in Fibers, EndSearch(f)
  PROVE  IInv'
  <1>1. /\ pc[f] = "search" /\ ~GoesRight(f, next[x[f]][level[f]])
        /\ level[f] = 0 /\ NotePrev(f)
        /\ UNCHANGED <<shared, op, target, x, level, height>>
        /\ \/ f \in Writers /\ Goto(f, "height") /\ UNCHANGED node
           \/ /\ f \in Readers /\ Goto(f, "idle")
              /\ node' = [node EXCEPT ![f] = Found(f, next[x[f]][0])]
    BY Zenon DEF EndSearch
  <1>2. UNCHANGED <<key, next, allocated, max_height, heights>>
    BY Zenon, <1>1 DEF shared
  <1>3. /\ Standing(f) /\ x[f] \in {head} \cup InList(0)
        /\ next[x[f]][0] = Null \/ next[x[f]][0] \in InList(0)
    BY Zenon, <1>1, SearchFacts
  <1>4. \A n \in InList(0) : n \in Nodes
    BY Zenon DEF InList
  <1>5. CASE f \in Readers
    <2>1. /\ UNCHANGED prev /\ pc' = [pc EXCEPT ![f] = "idle"]
          /\ node' = [node EXCEPT ![f] = Found(f, next[x[f]][0])]
      BY Zenon, <1>1, <1>5, Sentinels DEF NotePrev, Goto
    <2>2. Found(f, next[x[f]][0]) \in {Null} \cup InList(0)
      <3>1. op[f] \in {"Seek", "Contains", "Prev", "SeekToLast"}
        BY Zenon, <1>1, <1>5 DEF IInv, ReaderInv
      <3> QED
        BY <1>3, <3>1 DEF Found
    <2>3. /\ pc'[f] = "idle" /\ node'[f] \in {Null} \cup InList(0)
          /\ \A g \in Fibers \ {f} : Rests(g)
      BY Zenon, <1>1, <2>1, <2>2 DEF IInv, TypeOK, Rests
    <2>4. \A w \in Writers : pc'[w] = pc[w] /\ level'[w] = level[w] /\ node'[w] = node[w]
      BY Zenon, <1>5, <2>3, Sentinels DEF Rests
    <2>5. \A l : InList(l)' = InList(l)
      BY Zenon, <1>2, <2>4, ListStays
    <2>6. ReaderInv(f)'
      BY <2>3, <2>5 DEF ReaderInv
    <2>7. TypeOK'
      <3>1. Found(f, next[x[f]][0]) \in Nodes \cup {Null}
        BY Zenon, <1>4, <2>2
      <3>2. node' \in [Fibers -> Nodes \cup {Null}]
        BY Zenon, <2>1, <3>1 DEF IInv, TypeOK
      <3>3. pc' \in [Fibers -> {"idle", "search", "height", "fill", "raise", "new",
                                "set", "publish"}]
        BY Zenon, <2>1 DEF IInv, TypeOK
      <3>4. UNCHANGED <<op, target, x, level, height, prev>>
        BY Zenon, <1>1, <2>1
      <3> QED
        BY Zenon, <1>2, <2>4, <3>2, <3>3, <3>4 DEF IInv, TypeOK
    <2> QED
      BY Zenon, <1>1, <1>5, <2>1, <2>3, <2>6, <2>7, ReaderStep
  <1>6. CASE f \in Writers
    <2>1. UNCHANGED node /\ pc' = [pc EXCEPT ![f] = "height"]
      BY Zenon, <1>1, <1>6, Sentinels DEF Goto
    <2>2. pc'[f] = "height" /\ \A g \in Fibers \ {f} : Rests(g)
      BY Zenon, <1>1, <2>1 DEF IInv, TypeOK, Rests
    <2>3. /\ prev' \in [Writers -> [Levels -> Nodes \cup {head, Uninit}]]
          /\ prev'[f][0] = x[f]
          /\ \A l \in Levels \ {0} : prev'[f][l] = prev[f][l]
          /\ x[f] = head \/ Before(key[x[f]], target[f])
          /\ next[x[f]][0] = Null \/ ~Before(key[next[x[f]][0]], target[f])
      BY Zenon, <1>1, <1>6, LeavesAt
    <2>4. /\ pc[f] # "publish" /\ pc'[f] \notin {"set", "publish"}
          /\ \A v \in Writers : v = f
      BY <1>1, <1>6, <2>2 DEF OneWriter
    <2>5. \A l : InList(l)' = InList(l)
      BY Zenon, <1>2, <2>4, ListStays
    <2>6. TypeOK'
      <3>1. pc' \in [Fibers -> {"idle", "search", "height", "fill", "raise", "new",
                                "set", "publish"}]
        BY Zenon, <2>1 DEF IInv, TypeOK
      <3> QED
        BY Zenon, <1>1, <1>2, <2>1, <2>3, <2>4, <3>1 DEF IInv, TypeOK
    <2>7. Spot(f, 0)'
      BY Zenon, <1>1, <1>2, <1>3, <2>3, <2>5 DEF Spot
    <2>8. \A l \in Levels \ {0} : Spot(f, l) => Spot(f, l)'
      BY Zenon, <1>1, <1>2, <2>3, <2>5 DEF Spot
    <2>9. /\ \A l \in 0 + 1 .. max_height - 1 : Spot(f, l)
          /\ op[f] = "Insert" /\ target[f] \in Keys /\ allocated < MaxNodes
      BY <1>1, <1>6 DEF IInv, WriterInv, Unborn
    <2>10. max_height \in 1 .. kMaxHeight /\ max_height \in Int
      BY HeightAssumption DEF IInv, TypeOK
    <2>11. ASSUME NEW l \in 0 .. max_height - 1 PROVE Spot(f, l)'
      <3>1. l \in Levels /\ (l = 0 \/ l \in 0 + 1 .. max_height - 1)
        BY <2>10, <2>11, HeightAssumption DEF Levels
      <3> QED
        BY <2>7, <2>8, <2>9, <3>1
    <2>12. WriterInv(f)'
      BY <1>1, <1>2, <2>2, <2>9, <2>11 DEF WriterInv, Unborn
    <2>13. max_height' \in Int /\ max_height' >= max_height /\ DOMAIN op' = DOMAIN op
      BY <1>1, <1>2, <2>10
    <2> QED
      BY Zenon, <1>2, <1>6, <2>2, <2>4, <2>6, <2>12, <2>13, WriterStep
  <1> QED
    BY Zenon, <1>5, <1>6 DEF Fibers

\* The start of a search, of any kind.
LEMMA StartForm ==
  ASSUME IInv, NEW f \in Fibers, NEW o, NEW k \in Keys \cup {Null}, NEW h \in heights,
         StartSearch(f, o, k, h)
  PROVE  /\ pc[f] = "idle" /\ pc'[f] = "search" /\ op'[f] = o /\ target'[f] = k
         /\ x'[f] = head /\ level'[f] = h - 1 /\ h - 1 \in Levels /\ h \in Int
         /\ node'[f] = node[f] /\ \A g \in Fibers \ {f} : Rests(g)
         /\ UNCHANGED <<key, next, allocated, max_height, heights, height, node>>
         /\ pc' \in [Fibers -> {"idle", "search", "height", "fill", "raise", "new",
                                "set", "publish"}]
         /\ target' \in [Fibers -> Keys \cup {Null}]
         /\ x' \in [Fibers -> Nodes \cup {head}] /\ level' \in [Fibers -> Levels]
         /\ DOMAIN op' = DOMAIN op
         /\ \A l : InList(l)' = InList(l)
  <1>1. /\ pc[f] = "idle" /\ op' = [op EXCEPT ![f] = o]
        /\ target' = [target EXCEPT ![f] = k] /\ x' = [x EXCEPT ![f] = head]
        /\ level' = [level EXCEPT ![f] = h - 1] /\ pc' = [pc EXCEPT ![f] = "search"]
        /\ UNCHANGED <<key, next, allocated, max_height, heights, height, node>>
    BY Zenon DEF StartSearch, Goto, shared
  <1>2. h - 1 \in Levels /\ h \in Int
    BY HeightAssumption DEF IInv, TypeOK, Levels
  <1>3. DOMAIN op = Fibers
    BY Zenon DEF IInv
  <1>4. /\ pc'[f] = "search" /\ op'[f] = o /\ target'[f] = k
        /\ x'[f] = head /\ level'[f] = h - 1 /\ node'[f] = node[f]
        /\ \A g \in Fibers \ {f} : Rests(g)
    BY Zenon, <1>1, <1>3 DEF IInv, TypeOK, Rests
  <1>5. /\ pc' \in [Fibers -> {"idle", "search", "height", "fill", "raise", "new",
                               "set", "publish"}]
        /\ target' \in [Fibers -> Keys \cup {Null}]
        /\ x' \in [Fibers -> Nodes \cup {head}] /\ level' \in [Fibers -> Levels]
    BY Zenon, <1>1, <1>2 DEF IInv, TypeOK
  <1>6. pc[f] # "publish" /\ pc'[f] # "publish"
    BY <1>1, <1>4
  <1>7. \A l : InList(l)' = InList(l)
    BY Zenon, <1>1, <1>4, <1>6, ListStays, Sentinels DEF Rests
  <1> QED
    BY Zenon, <1>1, <1>2, <1>4, <1>5, <1>7

\* Seek, Contains, SeekToLast and Prev.
LEMMA ReaderSearchIInv ==
  ASSUME IInv, NEW r \in Readers, NEW o \in {"Seek", "Contains", "Prev", "SeekToLast"},
         NEW k \in Keys \cup {Null}, o # "SeekToLast" => k \in Keys, ReaderSearch(r, o, k)
  PROVE  IInv'
  <1>1. PICK h \in heights : StartSearch(r, o, k, h)
    BY Zenon DEF ReaderSearch
  <1>2. UNCHANGED prev /\ r \in Fibers
    BY Zenon, Sentinels DEF ReaderSearch
  <1>3. /\ pc'[r] = "search" /\ op'[r] = o /\ target'[r] = k /\ x'[r] = head
        /\ node'[r] = node[r] /\ \A g \in Fibers \ {r} : Rests(g)
        /\ UNCHANGED <<key, next, allocated, max_height, heights, height, node>>
        /\ pc' \in [Fibers -> {"idle", "search", "height", "fill", "raise", "new",
                               "set", "publish"}]
        /\ target' \in [Fibers -> Keys \cup {Null}]
        /\ x' \in [Fibers -> Nodes \cup {head}] /\ level' \in [Fibers -> Levels]
        /\ DOMAIN op' = DOMAIN op /\ \A l : InList(l)' = InList(l)
    BY Zenon, <1>1, <1>2, StartForm
  <1>4. \A w \in Writers : pc'[w] = pc[w]
    BY Zenon, <1>3, Sentinels DEF Rests
  <1>5. TypeOK'
    BY Zenon, <1>2, <1>3, <1>4 DEF IInv, TypeOK
  <1>6. ReaderInv(r)'
    BY <1>3 DEF ReaderInv, Standing, IInv
  <1>7. UNCHANGED <<shared, prev, height>>
    BY Zenon, <1>2, <1>3 DEF shared
  <1> QED
    BY Zenon, <1>3, <1>5, <1>6, <1>7, ReaderStep

\* SeekToFirst and Next follow one link.
LEMMA IterateIInv ==
  ASSUME IInv, NEW r \in Readers, SeekToFirst(r) \/ IterNext(r)
  PROVE  IInv'
  <1>1. PICK n \in {head} \cup InList(0) : node' = [node EXCEPT ![r] = next[n][0]]
    <2>1. CASE SeekToFirst(r)
      BY Zenon, <2>1 DEF SeekToFirst
    <2>2. CASE IterNext(r)
      <3>1. node[r] \in Nodes /\ node[r] \in {Null} \cup InList(0)
        BY Zenon, <2>2 DEF IterNext, IInv, ReaderInv
      <3> QED
        BY Zenon, <2>2, <3>1, Sentinels DEF IterNext
    <2> QED
      BY Zenon, <2>1, <2>2
  <1>2. UNCHANGED <<shared, pc, op, target, x, level, prev, height>> /\ pc[r] = "idle"
    BY Zenon DEF SeekToFirst, IterNext
  <1>3. /\ next[n][0] = Null \/ next[n][0] \in InList(0)
        /\ next[n][0] \in Nodes \cup {Null} /\ r \in Fibers
    BY Zenon, LinkTo, Sentinels
  <1>4. UNCHANGED <<key, next, allocated, max_height, heights>>
    BY Zenon, <1>2 DEF shared
  <1>5. node'[r] = next[n][0] /\ \A g \in Fibers \ {r} : Rests(g)
    BY Zenon, <1>1, <1>2, <1>3 DEF IInv, TypeOK, Rests
  <1>6. \A w \in Writers : Rests(w)
    BY Zenon, <1>5, Sentinels
  <1>7. \A l : InList(l)' = InList(l)
    BY Zenon, <1>4, <1>6, ListStays DEF Rests
  <1>8. TypeOK'
    <2>1. node' \in [Fibers -> Nodes \cup {Null}]
      BY Zenon, <1>1, <1>3 DEF IInv, TypeOK
    <2> QED
      BY Zenon, <1>2, <1>4, <2>1 DEF IInv, TypeOK
  <1>9. ReaderInv(r)'
    BY <1>2, <1>3, <1>5, <1>7 DEF ReaderInv
  <1> QED
    BY Zenon, <1>2, <1>5, <1>8, <1>9, ReaderStep

(***************************************************************************)
(* The steps of Insert that store no link.                                 *)
(***************************************************************************)
\* What the writer's place says of a step that keeps the links and where it is.
LEMMA SpotStays ==
  ASSUME NEW w \in Writers, NEW l, UNCHANGED <<key, next>>, InList(l)' = InList(l),
         prev'[w][l] = prev[w][l], target'[w] = target[w], Spot(w, l)
  PROVE  Spot(w, l)'
  BY Zenon DEF Spot

\* Insert is called: the arena has a node left.
LEMMA InsertIInv ==
  ASSUME IInv, OneWriter, NEW w \in Writers, NEW k \in Keys, Insert(w, k)
  PROVE  IInv'
  <1>1. /\ StartSearch(w, "Insert", k, max_height) /\ prev' = [prev EXCEPT ![w] = NoLinks]
        /\ allocated + Cardinality({v \in Writers : Unborn(v)}) < MaxNodes
        /\ max_height \in heights /\ w \in Fibers /\ k \in Keys \cup {Null}
    BY Zenon, Sentinels DEF Insert, IInv, TypeOK
  <1>2. /\ pc[w] = "idle" /\ pc'[w] = "search" /\ op'[w] = "Insert" /\ target'[w] = k
        /\ x'[w] = head /\ level'[w] = max_height - 1 /\ max_height \in Int
        /\ \A g \in Fibers \ {w} : Rests(g)
        /\ UNCHANGED <<key, next, allocated, max_height, heights, height, node>>
        /\ pc' \in [Fibers -> {"idle", "search", "height", "fill", "raise", "new",
                               "set", "publish"}]
        /\ target' \in [Fibers -> Keys \cup {Null}]
        /\ x' \in [Fibers -> Nodes \cup {head}] /\ level' \in [Fibers -> Levels]
        /\ DOMAIN op' = DOMAIN op /\ \A l : InList(l)' = InList(l)
    BY Zenon, <1>1, StartForm
  <1>3. allocated < MaxNodes
    <2>1. {v \in Writers : Unborn(v)} = {}
      BY <1>2 DEF OneWriter, Unborn
    <2>2. Cardinality({v \in Writers : Unborn(v)}) = 0
      BY Zenon, <2>1, FS_EmptySet
    <2> QED
      BY <1>1, <2>2 DEF IInv, TypeOK
  <1>4. prev' \in [Writers -> [Levels -> Nodes \cup {head, Uninit}]]
    BY Zenon, <1>1 DEF IInv, TypeOK, NoLinks
  <1>5. /\ pc'[w] \notin {"set", "publish"} /\ pc[w] # "publish"
        /\ \A v \in Writers : v = w
    BY <1>2 DEF OneWriter
  <1>6. TypeOK'
    BY Zenon, <1>2, <1>4, <1>5 DEF IInv, TypeOK
  <1>7. /\ level'[w] < max_height' /\ level'[w] + 1 .. max_height' - 1 = {}
        /\ max_height' >= max_height /\ max_height' \in Int
    BY <1>2
  <1>8. Standing(w)'
    BY Zenon, <1>2 DEF Standing
  <1>9. WriterInv(w)'
    BY <1>2, <1>3, <1>7, <1>8 DEF WriterInv
  <1> QED
    BY Zenon, <1>2, <1>5, <1>6, <1>7, <1>9, WriterStep

\* A step of the writer that goes from one place to another.
LEMMA GotoForm ==
  ASSUME IInv, NEW w \in Writers,
         NEW to \in {"idle", "fill", "raise", "new", "set", "publish"},
         pc' = [pc EXCEPT ![w] = to]
  PROVE  /\ pc' \in [Fibers -> {"idle", "search", "height", "fill", "raise", "new",
                                "set", "publish"}]
         /\ pc'[w] = to /\ w \in Fibers /\ \A g \in Fibers \ {w} : pc'[g] = pc[g]
  <1>1. w \in Fibers /\ pc \in [Fibers -> {"idle", "search", "height", "fill", "raise",
                                            "new", "set", "publish"}]
    BY Zenon, Sentinels DEF IInv, TypeOK
  <1>2. to \in {"idle", "search", "height", "fill", "raise", "new", "set", "publish"}
    OBVIOUS
  <1> QED
    BY Zenon, <1>1, <1>2

\* The height is drawn.
LEMMA RandomHeightIInv ==
  ASSUME IInv, OneWriter, NEW w \in Writers, RandomHeight(w)
  PROVE  IInv'
  <1>1. PICK h \in 1 .. kMaxHeight :
          /\ height' = [height EXCEPT ![w] = h]
          /\ Goto(w, IF h > max_height THEN "fill" ELSE "new")
    BY Zenon DEF RandomHeight
  <1>2. pc[w] = "height" /\ UNCHANGED <<shared, op, target, x, level, prev, node>>
    BY Zenon DEF RandomHeight
  <1>3. PICK to \in {"fill", "new"} : /\ to = IF h > max_height THEN "fill" ELSE "new"
                                      /\ pc' = [pc EXCEPT ![w] = to]
    BY <1>1 DEF Goto
  <1>4. UNCHANGED <<key, next, allocated, max_height, heights>>
    BY Zenon, <1>2 DEF shared
  <1>5. /\ pc' \in [Fibers -> {"idle", "search", "height", "fill", "raise", "new",
                               "set", "publish"}]
        /\ pc'[w] = to /\ w \in Fibers /\ \A g \in Fibers \ {w} : pc'[g] = pc[g]
    BY Zenon, <1>3, GotoForm
  <1>6. height'[w] = h /\ height' \in [Writers -> 1 .. kMaxHeight]
    BY Zenon, <1>1 DEF IInv, TypeOK
  <1>7. /\ \A g \in Fibers \ {w} : Rests(g)
        /\ pc[w] # "publish" /\ pc'[w] \notin {"set", "publish"}
        /\ \A v \in Writers : v = w
    BY <1>2, <1>5 DEF Rests, OneWriter
  <1>8. TypeOK'
    BY Zenon, <1>2, <1>4, <1>5, <1>6, <1>7 DEF IInv, TypeOK
  <1>9. \A l : InList(l)' = InList(l)
    BY Zenon, <1>4, <1>7, ListStays
  <1>10. max_height \in Int /\ max_height' \in Int /\ max_height' >= max_height
    BY <1>4 DEF IInv, TypeOK
  <1>11. \A l \in 0 .. max_height - 1 : Spot(w, l)'
    BY Zenon, <1>2, <1>4, <1>9, SpotStays DEF IInv, WriterInv
  <1>12. op[w] = "Insert" /\ target[w] \in Keys /\ allocated < MaxNodes
    BY <1>2 DEF IInv, WriterInv, Unborn
  <1>13. WriterInv(w)'
    <2>1. CASE h > max_height
      BY <1>2, <1>3, <1>4, <1>5, <1>6, <1>11, <1>12, <2>1 DEF WriterInv
    <2>2. CASE ~(h > max_height)
      <3>1. h <= max_height /\ to = "new"
        BY <1>3, <1>10, <2>2
      <3>2. \A l \in 0 .. h - 1 : l \in 0 .. max_height - 1
        BY <1>10, <3>1
      <3> QED
        BY <1>2, <1>4, <1>5, <1>6, <1>11, <1>12, <3>1, <3>2 DEF WriterInv
    <2> QED
      BY Zenon, <2>1, <2>2
  <1> QED
    BY Zenon, <1>2, <1>4, <1>7, <1>8, <1>10, <1>13, WriterStep

\* The new levels of prev[] start at head_: nothing is linked there.
LEMMA FillIInv ==
  ASSUME IInv, OneWriter, NEW w \in Writers, Fill(w)
  PROVE  IInv'
  <1>1. /\ pc[w] = "fill" /\ prev' = [prev EXCEPT ![w] = Filled(w)]
        /\ pc' = [pc EXCEPT ![w] = "raise"]
        /\ UNCHANGED <<shared, op, target, x, level, height, node>>
    BY Zenon DEF Fill, Goto
  <1>2. UNCHANGED <<key, next, allocated, max_height, heights>>
    BY Zenon, <1>1 DEF shared
  <1>3. /\ pc' \in [Fibers -> {"idle", "search", "height", "fill", "raise", "new",
                               "set", "publish"}]
        /\ pc'[w] = "raise" /\ w \in Fibers /\ \A g \in Fibers \ {w} : pc'[g] = pc[g]
    BY Zenon, <1>1, GotoForm
  <1>4. /\ \A g \in Fibers \ {w} : Rests(g)
        /\ pc[w] # "publish" /\ pc'[w] \notin {"set", "publish"}
        /\ \A v \in Writers : v = w
    BY <1>1, <1>3 DEF Rests, OneWriter
  <1>5. /\ prev' \in [Writers -> [Levels -> Nodes \cup {head, Uninit}]]
        /\ \A l \in Levels : prev'[w][l] = IF l \in max_height .. height[w] - 1 THEN head
                                           ELSE prev[w][l]
    <2>1. prev \in [Writers -> [Levels -> Nodes \cup {head, Uninit}]]
      BY Zenon DEF IInv, TypeOK
    <2>2. Filled(w) \in [Levels -> Nodes \cup {head, Uninit}]
      BY <2>1 DEF Filled
    <2>3. prev'[w] = Filled(w)
      BY Zenon, <1>1, <2>1
    <2> QED
      BY Zenon, <1>1, <2>1, <2>2, <2>3 DEF Filled
  <1>6. TypeOK'
    BY Zenon, <1>1, <1>2, <1>3, <1>4, <1>5 DEF IInv, TypeOK
  <1>7. \A l : InList(l)' = InList(l)
    BY Zenon, <1>2, <1>4, ListStays
  <1>8. /\ max_height \in 1 .. kMaxHeight /\ max_height \in Int
        /\ height[w] \in 1 .. kMaxHeight /\ kMaxHeight \in Int
    BY HeightAssumption DEF IInv, TypeOK
  <1>9. ASSUME NEW l \in 0 .. height[w] - 1 PROVE Spot(w, l)'
    <2>1. l \in Levels
      BY <1>8 DEF Levels
    <2>2. CASE l < max_height
      <3>1. Spot(w, l)
        BY <1>1, <1>8, <2>2 DEF IInv, WriterInv
      <3>2. prev'[w][l] = prev[w][l]
        BY <1>5, <1>8, <2>1, <2>2
      <3> QED
        BY Zenon, <1>1, <1>2, <1>7, <3>1, <3>2, SpotStays
    <2>3. CASE ~(l < max_height)
      <3>1. prev'[w][l] = head /\ l >= max_height
        BY <1>5, <1>8, <2>1, <2>3
      <3>2. InList(l) = {}
        BY Zenon, <2>1, <3>1 DEF IInv, NodeInv, InList
      <3>3. next[head][l] = Null
        BY Zenon, <2>1, <3>2, LinkTo
      <3> QED
        BY Zenon, <1>2, <3>1, <3>3 DEF Spot
    <2> QED
      BY Zenon, <2>2, <2>3
  <1>10. /\ op[w] = "Insert" /\ target[w] \in Keys /\ allocated < MaxNodes
         /\ height[w] > max_height
    BY <1>1 DEF IInv, WriterInv, Unborn
  <1>11. WriterInv(w)'
    BY <1>1, <1>2, <1>3, <1>9, <1>10 DEF WriterInv
  <1>12. max_height' \in Int /\ max_height' >= max_height
    BY <1>2, <1>8
  <1> QED
    BY Zenon, <1>1, <1>2, <1>4, <1>6, <1>11, <1>12, WriterStep

\* max_height_ is raised before a node has so many levels.
LEMMA RaiseIInv ==
  ASSUME IInv, OneWriter, NEW w \in Writers, Raise(w)
  PROVE  IInv'
  <1>1. /\ pc[w] = "raise" /\ max_height' = height[w]
        /\ heights' = heights \cup {height[w]} /\ pc' = [pc EXCEPT ![w] = "new"]
        /\ UNCHANGED <<key, next, allocated, op, target, x, level, prev, height, node>>
    BY Zenon DEF Raise, Goto
  <1>2. /\ pc' \in [Fibers -> {"idle", "search", "height", "fill", "raise", "new",
                               "set", "publish"}]
        /\ pc'[w] = "new" /\ w \in Fibers /\ \A g \in Fibers \ {w} : pc'[g] = pc[g]
    BY Zenon, <1>1, GotoForm
  <1>3. /\ \A g \in Fibers \ {w} : Rests(g)
        /\ pc[w] # "publish" /\ pc'[w] \notin {"set", "publish"}
        /\ \A v \in Writers : v = w
    BY <1>1, <1>2 DEF Rests, OneWriter
  <1>4. max_height \in Int /\ height[w] \in 1 .. kMaxHeight /\ height[w] \in Int
    BY HeightAssumption DEF IInv, TypeOK
  <1>5. TypeOK'
    BY Zenon, <1>1, <1>2, <1>3, <1>4 DEF IInv, TypeOK
  <1>6. \A l : InList(l)' = InList(l)
    BY Zenon, <1>1, <1>3, ListStays
  <1>7. /\ op[w] = "Insert" /\ target[w] \in Keys /\ allocated < MaxNodes
        /\ height[w] > max_height /\ \A l \in 0 .. height[w] - 1 : Spot(w, l)
    BY <1>1 DEF IInv, WriterInv, Unborn
  <1>8. \A l \in 0 .. height[w] - 1 : Spot(w, l)'
    BY Zenon, <1>1, <1>6, <1>7, SpotStays
  <1>9. max_height' \in Int /\ max_height' >= max_height /\ height'[w] <= max_height'
    BY <1>1, <1>4, <1>7
  <1>10. WriterInv(w)'
    BY <1>1, <1>2, <1>7, <1>8, <1>9 DEF WriterInv
  <1> QED
    BY Zenon, <1>1, <1>3, <1>5, <1>9, <1>10, WriterStep

(***************************************************************************)
(* The steps of Insert on its node.                                        *)
(***************************************************************************)
\* The node has its key and no links yet.
LEMMA NewNodeIInv ==
  ASSUME IInv, OneWriter, NEW w \in Writers, NewNode(w)
  PROVE  IInv'
  <1>1. PICK n : n = allocated + 1
    OBVIOUS
  <1>2. /\ pc[w] = "new" /\ allocated' = n /\ node' = [node EXCEPT ![w] = n]
        /\ key' = [key EXCEPT ![n] = target[w]] /\ level' = [level EXCEPT ![w] = 0]
        /\ pc' = [pc EXCEPT ![w] = "set"]
        /\ UNCHANGED <<next, max_height, heights, op, target, x, prev, height>>
    BY Zenon, <1>1 DEF NewNode, Goto
  <1>3. /\ op[w] = "Insert" /\ target[w] \in Keys /\ allocated < MaxNodes
        /\ height[w] <= max_height /\ \A l \in 0 .. height[w] - 1 : Spot(w, l)
    BY <1>2 DEF IInv, WriterInv, Unborn
  <1>4. /\ n \in Nodes /\ n \in 0 .. MaxNodes /\ n \in Int /\ n > 0
        /\ allocated \in Int /\ n > allocated
    BY <1>1, <1>3, HeightAssumption DEF IInv, TypeOK, Nodes
  <1>5. /\ pc' \in [Fibers -> {"idle", "search", "height", "fill", "raise", "new",
                               "set", "publish"}]
        /\ pc'[w] = "set" /\ w \in Fibers /\ \A g \in Fibers \ {w} : pc'[g] = pc[g]
    BY Zenon, <1>2, GotoForm
  <1>6. /\ key'[n] = target[w] /\ key' \in [Nodes -> Keys \cup {Null}]
        /\ \A m \in Nodes \ {n} : key'[m] = key[m]
        /\ node'[w] = n /\ node' \in [Fibers -> Nodes \cup {Null}]
        /\ level'[w] = 0 /\ level' \in [Fibers -> Levels]
    BY Zenon, <1>2, <1>3, <1>4, <1>5, Sentinels DEF IInv, TypeOK
  <1>7. \A g \in Fibers \ {w} : Rests(g)
    BY Zenon, <1>2, <1>5 DEF Rests, IInv, TypeOK
  <1>8. \A v \in Writers : v = w /\ pc[v] # "publish" /\ pc'[v] # "publish"
    BY <1>2, <1>5 DEF OneWriter
  <1>9. \A l : InList(l)' = InList(l)
    BY Zenon, <1>2, <1>8, ListStays
  <1>10. \A l \in Levels : \A m \in InList(l) : key'[m] = key[m]
    <2>1. ASSUME NEW l \in Levels, NEW m \in InList(l) PROVE m \in Nodes /\ m # n
      BY <1>1, Known DEF IInv, TypeOK
    <2> QED
      BY Zenon, <1>6, <2>1
  <1>11. /\ height[w] \in 1 .. kMaxHeight /\ kMaxHeight \in Int
    BY HeightAssumption DEF IInv, TypeOK
  <1>12. ASSUME NEW l \in 0 .. height[w] - 1 PROVE Spot(w, l)' /\ prev[w][l] # Uninit
    <2>1. l \in Levels /\ Spot(w, l)
      BY <1>3, <1>11 DEF Levels
    <2>2. PICK p : p = prev[w][l]
      OBVIOUS
    <2>3. /\ p \in {head} \cup InList(l) /\ (p = head \/ Before(key[p], target[w]))
          /\ (next[p][l] = Null \/ ~Before(key[next[p][l]], target[w]))
      BY Zenon, <2>1, <2>2 DEF Spot
    <2>4. next[p][l] = Null \/ next[p][l] \in InList(l)
      BY Zenon, <2>1, <2>3, LinkTo
    <2>5. p = head \/ key'[p] = key[p]
      BY Zenon, <1>10, <2>1, <2>3
    <2>6. next[p][l] = Null \/ key'[next[p][l]] = key[next[p][l]]
      BY Zenon, <1>10, <2>1, <2>4
    <2>7. p # Uninit
      BY Zenon, <2>3, Sentinels DEF InList
    <2>8. prev'[w][l] = p /\ target'[w] = target[w] /\ next' = next
      BY Zenon, <1>2, <2>2
    <2> QED
      BY Zenon, <1>9, <2>2, <2>3, <2>5, <2>6, <2>7, <2>8 DEF Spot
  <1>13. TypeOK'
    BY Zenon, <1>2, <1>4, <1>5, <1>6, <1>8, <1>12 DEF IInv, TypeOK
  <1>14. NodeInv'
    <2>1. ASSUME NEW m \in Nodes, m <= n PROVE key'[m] \in Keys
      <3>1. m = n \/ m <= allocated
        BY <1>1, <1>4, <2>1 DEF Nodes
      <3> QED
        BY Zenon, <1>3, <1>6, <3>1 DEF IInv, NodeInv
    <2>2. \A m \in Nodes : m > n => m > allocated
      BY <1>1, <1>4 DEF Nodes
    <2> QED
      BY Zenon, <1>2, <1>9, <2>1, <2>2 DEF IInv, NodeInv
  <1>15. \A l \in Levels : Links(l)'
    BY Zenon, <1>2, <1>9, <1>10, LinksStay
  <1>16. ASSUME NEW r \in Readers PROVE ReaderInv(r)'
    BY Zenon, <1>7, <1>9, <1>10, ReaderStays, Sentinels
  <1>17. \A l \in Levels : next'[n][l] = Uninit /\ ~(l < 0)
    BY <1>2, <1>4 DEF IInv, NodeInv, Levels
  <1>18. WriterInv(w)'
    BY <1>2, <1>3, <1>4, <1>5, <1>6, <1>11, <1>12, <1>17 DEF WriterInv, Unborn
  <1> QED
    BY Zenon, <1>2, <1>8, <1>13, <1>14, <1>15, <1>16, <1>18 DEF IInv

\* The node's link is set to where its predecessor's leads.
LEMMA SetLinkIInv ==
  ASSUME IInv, OneWriter, NEW w \in Writers, SetLink(w)
  PROVE  IInv'
  <1>1. PICK n, k, p : n = node[w] /\ k = level[w] /\ p = prev[w][k]
    OBVIOUS
  <1>2. /\ pc[w] = "set" /\ next' = [next EXCEPT ![n][k] = next[p][k]]
        /\ pc' = [pc EXCEPT ![w] = "publish"]
        /\ UNCHANGED <<key, allocated, max_height, heights, op, target, x, level, prev,
                       height, node>>
    BY Zenon, <1>1 DEF SetLink, Goto
  <1>3. /\ w \in Fibers /\ n = allocated /\ n > 0 /\ key[n] = target[w] /\ k < height[w]
        /\ op[w] = "Insert" /\ target[w] \in Keys /\ height[w] <= max_height
        /\ \A l \in k .. height[w] - 1 : Spot(w, l)
        /\ \A l \in Levels : next[n][l] # Uninit <=> l < k
    BY <1>1, <1>2, Sentinels DEF IInv, WriterInv
  <1>4. /\ k \in Levels /\ k \in Int /\ n \in Nodes /\ height[w] \in Int /\ n # head
        /\ k \in k .. height[w] - 1 /\ max_height \in Int /\ next[n][k] = Uninit
    BY <1>1, <1>3, HeightAssumption DEF IInv, TypeOK, Levels, Nodes, head
  <1>5. p \in {head} \cup InList(k) /\ Spot(w, k)
    BY Zenon, <1>1, <1>3, <1>4 DEF Spot
  <1>6. next[p][k] \in Nodes \cup {Null} /\ next[p][k] # Uninit
    BY Zenon, <1>4, <1>5, LinkTo
  <1>7. /\ next' \in [Nodes \cup {head} -> [Levels -> Nodes \cup {Null, Uninit}]]
        /\ next'[n][k] = next[p][k]
        /\ \A m \in Nodes \cup {head}, l \in Levels :
             m # n \/ l # k => next'[m][l] = next[m][l]
    <2>1. next \in [Nodes \cup {head} -> [Levels -> Nodes \cup {Null, Uninit}]]
      BY Zenon DEF IInv, TypeOK
    <2> QED
      BY <1>2, <1>4, <1>6, <2>1
  <1>8. /\ pc' \in [Fibers -> {"idle", "search", "height", "fill", "raise", "new",
                               "set", "publish"}]
        /\ pc'[w] = "publish" /\ w \in Fibers /\ \A g \in Fibers \ {w} : pc'[g] = pc[g]
    BY Zenon, <1>2, GotoForm
  <1>9. \A v \in Writers : v = w
    BY Zenon DEF OneWriter
  <1>10. \A l \in Levels : n \notin InList(l) \/ l # k
    BY Zenon, <1>4 DEF InList
  <1>11. \A l \in Levels : InList(l)' = InList(l)
    <2>1. pc[w] # "publish"
      BY <1>2
    <2>2. ASSUME NEW l \in Levels, NEW m \in Nodes
          PROVE  m \in InList(l)' <=> m \in InList(l)
      <3>1. CASE m = n /\ l = k
        BY Zenon, <1>1, <1>2, <1>4, <1>8, <3>1 DEF InList
      <3>2. CASE m # n \/ l # k
        BY Zenon, <1>1, <1>2, <1>7, <1>9, <2>1, <2>2, <3>2 DEF InList
      <3> QED
        BY Zenon, <3>1, <3>2
    <2>3. \A l : InList(l) \subseteq Nodes /\ InList(l)' \subseteq Nodes
      BY Zenon DEF InList
    <2> QED
      BY Zenon, <2>2, <2>3
  <1>12. \A g \in Fibers \ {w} : Rests(g)
    BY Zenon, <1>2, <1>8 DEF Rests
  <1>13. TypeOK'
    <2>1. \A v \in Writers : pc[v] \in {"set", "publish"}
      BY <1>2, <1>9
    <2>2. UNCHANGED <<key, allocated, max_height, heights, target, x, level, prev, height,
                      node>>
      BY Zenon, <1>2
    <2>3. \A v \in Writers : \A l \in 0 .. height[v] - 1 : prev[v][l] # Uninit
      BY Zenon, <2>1 DEF IInv, TypeOK
    <2>4. next' \in [Nodes \cup {head} -> [Levels -> Nodes \cup {Null, Uninit}]]
      BY Zenon, <1>7
    <2>5. pc' \in [Fibers -> {"idle", "search", "height", "fill", "raise", "new",
                              "set", "publish"}]
      BY Zenon, <1>8
    <2> QED
      BY Zenon, <2>2, <2>3, <2>4, <2>5 DEF IInv, TypeOK
  <1>14. \A l \in Levels : \A m \in {head} \cup InList(l) : next'[m][l] = next[m][l]
    <2>1. \A l : InList(l) \subseteq Nodes
      BY Zenon DEF InList
    <2> QED
      BY Zenon, <1>4, <1>7, <1>10, <2>1
  <1>15. \A l \in Levels : Links(l)'
    BY Zenon, <1>2, <1>11, <1>14, LinksStay
  <1>16. NodeInv'
    <2>1. ASSUME NEW m \in Nodes, NEW l \in Levels
          PROVE  /\ m > allocated \/ l >= max_height => next'[m][l] = Uninit
                 /\ l > 0 /\ next'[m][l] # Uninit => m \in InList(l - 1)
      <3>1. CASE m = n /\ l = k
        <4>1. ~(m > allocated) /\ ~(l >= max_height)
          BY <1>3, <1>4, <3>1 DEF Nodes
        <4>2. l > 0 => n \in InList(k - 1)
          <5>1. ASSUME l > 0 PROVE k - 1 \in Levels /\ next[n][k - 1] # Uninit
            BY <1>3, <1>4, <3>1, <5>1, HeightAssumption DEF Levels
          <5>2. pc[w] # "publish"
            BY <1>2
          <5> QED
            BY Zenon, <1>4, <1>9, <5>1, <5>2 DEF InList
        <4> QED
          BY Zenon, <3>1, <4>1, <4>2
      <3>2. CASE m # n \/ l # k
        BY Zenon, <1>7, <3>2 DEF IInv, NodeInv
      <3> QED
        BY Zenon, <3>1, <3>2
    <2>2. \A l \in Levels : l > 0 => l - 1 \in Levels
      BY HeightAssumption DEF Levels
    <2> QED
      BY Zenon, <1>2, <1>11, <2>1, <2>2 DEF IInv, NodeInv
  <1>17. ASSUME NEW r \in Readers PROVE ReaderInv(r)'
    BY Zenon, <1>2, <1>11, <1>12, ReaderStays, Sentinels
  <1>18. ASSUME NEW l \in k .. height[w] - 1 PROVE Spot(w, l)'
    <2>1. l \in Levels /\ Spot(w, l)
      BY <1>3, <1>4, HeightAssumption DEF Levels, IInv, TypeOK
    <2>2. next'[prev[w][l]][l] = next[prev[w][l]][l]
      BY Zenon, <1>14, <2>1 DEF Spot
    <2> QED
      BY Zenon, <1>2, <1>11, <2>1, <2>2 DEF Spot
  <1>19. \A l \in Levels : next'[n][l] # Uninit <=> l < k \/ l = k
    BY Zenon, <1>3, <1>4, <1>6, <1>7
  <1>20. next'[n][k] = next'[p][k]
    BY Zenon, <1>4, <1>5, <1>7, <1>14
  <1>21. WriterInv(w)'
    BY <1>1, <1>2, <1>3, <1>8, <1>18, <1>19, <1>20 DEF WriterInv, Unborn
  <1> QED
    BY Zenon, <1>2, <1>9, <1>13, <1>15, <1>16, <1>17, <1>21 DEF IInv

(***************************************************************************)
(* Publication.                                                            *)
(***************************************************************************)
\* On the level being linked, p comes before the new node and q after it.
At(w, n, k, p, q) ==
  n = node[w] /\ k = level[w] /\ p = prev[w][k] /\ q = next[p][k]

Between(n, k, p, q) ==
  /\ k \in Levels /\ n \in Nodes /\ key[n] \in Keys /\ n \notin InList(k)
  /\ p \in {head} \cup InList(k) /\ n # p /\ Ahead(p, n) /\ q = next[p][k]
  /\ q = Null \/ (q \in InList(k) /\ Ahead(n, q) /\ ~Before(key[q], key[n]))

LEMMA BetweenFacts ==
  ASSUME IInv, OneWriter, NEW w \in Writers, pc[w] = "publish",
         NEW n, NEW k, NEW p, NEW q, At(w, n, k, p, q)
  PROVE  /\ Between(n, k, p, q)
         /\ n = allocated /\ key[n] = target[w] /\ next[n][k] = q
         /\ k < height[w] /\ height[w] <= max_height
  <1> USE DEF At
  <1>1. /\ n = allocated /\ n > 0 /\ key[n] = target[w] /\ k < height[w]
        /\ target[w] \in Keys /\ height[w] <= max_height
        /\ \A l \in k .. height[w] - 1 : Spot(w, l)
        /\ next[n][k] = q
    BY DEF IInv, WriterInv
  <1>2. /\ k \in Levels /\ k \in Int /\ n \in Nodes /\ height[w] \in Int /\ n # head
        /\ k \in k .. height[w] - 1
    <2>1. level[w] \in Levels /\ height[w] \in 1 .. kMaxHeight /\ allocated \in 0 .. MaxNodes
      BY Zenon, Sentinels DEF IInv, TypeOK
    <2> QED
      BY <1>1, <2>1, HeightAssumption DEF Levels, Nodes, head
  <1>3. n \notin InList(k)
    BY Zenon DEF InList
  <1>4. Spot(w, k)
    BY Zenon, <1>1, <1>2
  <1>5. p \in {head} \cup InList(k) /\ n # p /\ Ahead(p, n)
    BY Zenon, <1>1, <1>2, <1>3, <1>4 DEF Spot, Ahead
  <1>6. q = Null \/ q \in InList(k)
    BY Zenon, <1>2, <1>5, LinkTo
  <1>7. ASSUME q # Null PROVE q \in InList(k) /\ Ahead(n, q) /\ ~Before(key[q], key[n])
    <2>1. q \in InList(k) /\ q # n /\ ~Before(key[q], key[n])
      BY Zenon, <1>1, <1>3, <1>4, <1>6, <1>7 DEF Spot
    <2>2. q \in Int /\ q <= allocated
      BY Zenon, <1>2, <2>1, Known
    <2>3. n > q
      BY <1>1, <1>2, <2>1, <2>2 DEF Nodes
    <2> QED
      BY Zenon, <2>1, <2>3 DEF Ahead
  <1> QED
    BY Zenon, <1>1, <1>2, <1>3, <1>5, <1>7 DEF Between

\* The nodes of the level before and after the new one.
Around(n, p, q, y) ==
  /\ Ahead(y, n) <=> p # head /\ (y = p \/ Ahead(y, p))
  /\ Ahead(n, y) <=> q # Null /\ (q = y \/ Ahead(q, y))
  /\ Ahead(n, y) <=> ~Ahead(y, n)
  /\ Ahead(p, y) <=> Ahead(n, y)

LEMMA BetweenOrder ==
  ASSUME IInv, NEW n, NEW k, NEW p, NEW q, Between(n, k, p, q), NEW y \in InList(k)
  PROVE  Around(n, p, q, y)
  <1> USE DEF Between
  <1>1. \A m \in InList(k) : m \in Nodes /\ key[m] \in Keys /\ m # head
    BY Zenon, Known
  <1>2. p = head \/ (p \in Nodes /\ key[p] \in Keys)
    BY Zenon, <1>1
  <1>3. (Ahead(n, y) <=> ~Ahead(y, n)) /\ n # head
    BY Zenon, <1>1, AheadTotal, Sentinels
  <1>4. Ahead(p, y) => q # Null /\ (q = y \/ Ahead(q, y))
    BY Zenon DEF IInv, Links
  <1>5. q # Null /\ (q = y \/ Ahead(q, y)) => Ahead(n, y)
    BY Zenon, <1>1, AheadTransitive
  <1>6. Ahead(n, y) => Ahead(p, y)
    BY Zenon, <1>1, <1>2, AheadTransitive
  <1>7. p # head /\ (y = p \/ Ahead(y, p)) => Ahead(y, n)
    BY Zenon, <1>1, AheadTransitive
  <1>8. Ahead(y, n) => p # head /\ (y = p \/ Ahead(y, p))
    <2>1. CASE p = head
      <3>1. Ahead(p, y)
        BY Zenon, <2>1 DEF Ahead
      <3> QED
        BY Zenon, <1>3, <1>4, <1>5, <3>1
    <2>2. CASE p # head
      <3>1. y = p \/ Ahead(y, p) \/ Ahead(p, y)
        BY Zenon, <1>1, <2>2, AheadTotal
      <3> QED
        BY Zenon, <1>3, <1>4, <1>5, <2>2, <3>1
    <2> QED
      BY Zenon, <2>1, <2>2
  <1> QED
    BY Zenon, <1>3, <1>4, <1>5, <1>6, <1>7, <1>8 DEF Around

\* What the store of a link to the new node changes.
Published(w, n, k, p) ==
  /\ next' \in [Nodes \cup {head} -> [Levels -> Nodes \cup {Null, Uninit}]]
  /\ next'[p][k] = n
  /\ \A m \in Nodes \cup {head}, l \in Levels :
       m # p \/ l # k => next'[m][l] = next[m][l]
  /\ pc'[w] \in {"set", "idle"} /\ InList(k)' = InList(k) \cup {n}
  /\ \A l \in Levels \ {k} : InList(l)' = InList(l)
  /\ \A g \in Fibers \ {w} : Rests(g)

LEMMA PublishForm ==
  ASSUME IInv, OneWriter, NEW w \in Writers, Publish(w),
         NEW n, NEW k, NEW p, NEW q, At(w, n, k, p, q)
  PROVE  Published(w, n, k, p)
  <1>1. /\ pc[w] = "publish" /\ next' = [next EXCEPT ![p][k] = n]
        /\ \/ level' = [level EXCEPT ![w] = @ + 1] /\ pc' = [pc EXCEPT ![w] = "set"]
           \/ UNCHANGED level /\ pc' = [pc EXCEPT ![w] = "idle"]
        /\ UNCHANGED <<op, target, x, node>>
    BY Zenon DEF Publish, Goto, At
  <1>2. /\ k \in Levels /\ n \in Nodes /\ n \notin InList(k) /\ next[n][k] = q
        /\ p \in {head} \cup InList(k) /\ n # p
    BY Zenon, <1>1, BetweenFacts DEF Between
  <1>3. p \in Nodes \cup {head} /\ q # Uninit /\ n # Uninit
    BY Zenon, <1>2, LinkTo, Sentinels DEF InList, At
  <1>4. /\ next' \in [Nodes \cup {head} -> [Levels -> Nodes \cup {Null, Uninit}]]
        /\ next'[p][k] = n
        /\ \A m \in Nodes \cup {head}, l \in Levels :
             m # p \/ l # k => next'[m][l] = next[m][l]
    <2>1. next \in [Nodes \cup {head} -> [Levels -> Nodes \cup {Null, Uninit}]]
      BY Zenon DEF IInv, TypeOK
    <2>2. next' = [next EXCEPT ![p][k] = n]
      BY Zenon, <1>1
    <2> QED
      BY <1>2, <1>3, <2>1, <2>2
  <1>5. w \in Fibers /\ pc'[w] \in {"set", "idle"}
    BY Zenon, <1>1, Sentinels DEF IInv, TypeOK
  <1>6. \A v \in Writers : v = w /\ pc'[v] # "publish"
    BY <1>5 DEF OneWriter
  <1>7. ASSUME NEW m \in Nodes, NEW l \in Levels
        PROVE  next'[m][l] # Uninit <=> next[m][l] # Uninit
    BY Zenon, <1>3, <1>4 DEF At
  <1>8. \A l \in Levels : InList(l)' = {m \in Nodes : next[m][l] # Uninit}
    BY Zenon, <1>6, <1>7 DEF InList
  <1>9. InList(k)' = InList(k) \cup {n}
    BY Zenon, <1>1, <1>2, <1>3, <1>6, <1>8 DEF InList, At
  <1>10. \A l \in Levels \ {k} : InList(l)' = InList(l)
    BY Zenon, <1>6, <1>8 DEF InList, At
  <1>11. \A g \in Fibers \ {w} : Rests(g)
    BY Zenon, <1>1 DEF Rests, IInv, TypeOK
  <1> QED
    BY Zenon, <1>4, <1>5, <1>9, <1>10, <1>11 DEF Published

\* The level has its new node in its place.
LEMMA PublishLinks ==
  ASSUME IInv, OneWriter, NEW w \in Writers, Publish(w), NEW k, k = level[w]
  PROVE  Links(k)'
  <1>1. PICK n, p, q : At(w, n, k, p, q)
    BY Zenon DEF At
  <1>2. pc[w] = "publish" /\ UNCHANGED key
    BY Zenon DEF Publish
  <1>a. Between(n, k, p, q) /\ next[n][k] = q
    BY Zenon, <1>1, <1>2, BetweenFacts
  <1>3. /\ k \in Levels /\ n \in Nodes /\ key[n] \in Keys /\ n \notin InList(k)
        /\ next[n][k] = q /\ p \in {head} \cup InList(k) /\ n # p /\ Ahead(p, n)
        /\ q = Null \/ (q \in InList(k) /\ Ahead(n, q))
    BY Zenon, <1>a DEF Between
  <1>4. /\ next'[p][k] = n /\ InList(k)' = InList(k) \cup {n}
        /\ \A m \in Nodes \cup {head} : m # p => next'[m][k] = next[m][k]
    <2>1. Published(w, n, k, p)
      BY Zenon, <1>1, PublishForm
    <2> QED
      BY Zenon, <1>3, <2>1 DEF Published
  <1>5. ASSUME NEW y, NEW m PROVE Ahead(y, m)' <=> Ahead(y, m)
    BY Zenon, <1>2 DEF Ahead
  <1>6. ASSUME NEW y \in InList(k)
        PROVE  /\ Ahead(y, n) <=> p # head /\ (y = p \/ Ahead(y, p))
               /\ Ahead(n, y) <=> q # Null /\ (q = y \/ Ahead(q, y))
               /\ Ahead(p, y) <=> Ahead(n, y)
    <2>1. Around(n, p, q, y)
      BY Zenon, <1>a, BetweenOrder
    <2> QED
      BY Zenon, <2>1 DEF Around
  <1>7. ~Ahead(n, n) /\ n # head /\ n # Null
    BY Zenon, <1>3, AheadTotal, Sentinels
  <1>8. \A m \in InList(k) : m \in Nodes /\ key[m] \in Keys /\ m # head
    BY Zenon, <1>3, Known
  <1> DEFINE S(y) == /\ \/ next'[y][k] = Null
                        \/ next'[y][k] \in InList(k) \cup {n} /\ Ahead(y, next'[y][k])
                     /\ \A m \in InList(k) \cup {n} :
                          Ahead(y, m) => /\ next'[y][k] # Null
                                         /\ next'[y][k] = m \/ Ahead(next'[y][k], m)
  <1>9. S(n)
    <2>1. next'[n][k] = q
      BY Zenon, <1>3, <1>4
    <2> QED
      BY Zenon, <1>3, <1>6, <1>7, <2>1
  <1>10. S(p)
    BY Zenon, <1>3, <1>4, <1>6, <1>7
  <1>11. ASSUME NEW y \in {head} \cup InList(k), y # p PROVE S(y)
    <2>1. next'[y][k] = next[y][k]
      BY Zenon, <1>4, <1>8, <1>11
    <2>2. PICK z : z = next[y][k]
      OBVIOUS
    <2>3. z = Null \/ (z \in InList(k) /\ Ahead(y, z))
      BY Zenon, <1>3, <2>2 DEF IInv, Links
    <2>4. \A m \in InList(k) : Ahead(y, m) => z # Null /\ (z = m \/ Ahead(z, m))
      BY Zenon, <1>3, <2>2 DEF IInv, Links
    <2>5. ASSUME Ahead(y, n) PROVE z # Null /\ Ahead(z, n)
      <3>1. p # head /\ Ahead(y, p)
        BY Zenon, <1>3, <1>6, <1>11, <2>5 DEF Ahead
      <3>2. z # Null /\ (z = p \/ Ahead(z, p))
        BY Zenon, <1>3, <2>4, <3>1
      <3> QED
        BY Zenon, <1>6, <2>3, <3>1, <3>2
    <2> QED
      BY Zenon, <2>1, <2>2, <2>3, <2>4, <2>5
  <1>12. \A y \in {head} \cup InList(k) \cup {n} : S(y)
    <2> HIDE DEF S
    <2> QED
      BY Zenon, <1>9, <1>10, <1>11
  <1> QED
    BY Zenon, <1>4, <1>5, <1>12 DEF Links

LEMMA PublishIInv ==
  ASSUME IInv, OneWriter, NEW w \in Writers, Publish(w)
  PROVE  IInv'
  <1>1. PICK n, k, p, q : At(w, n, k, p, q)
    BY Zenon DEF At
  <1>2. /\ pc[w] = "publish"
        /\ \/ /\ k + 1 < height[w] /\ level' = [level EXCEPT ![w] = k + 1]
              /\ pc' = [pc EXCEPT ![w] = "set"]
           \/ UNCHANGED level /\ pc' = [pc EXCEPT ![w] = "idle"]
    BY Zenon, <1>1 DEF Publish, Goto, At
  <1>3. UNCHANGED <<key, allocated, max_height, heights, op, target, x, prev, height,
                    node>>
    BY Zenon DEF Publish
  <1>4. /\ Between(n, k, p, q) /\ n = allocated /\ key[n] = target[w]
        /\ k < height[w] /\ height[w] <= max_height
    BY Zenon, <1>1, <1>2, BetweenFacts
  <1>a. Published(w, n, k, p)
    BY Zenon, <1>1, PublishForm
  <1>5. next' \in [Nodes \cup {head} -> [Levels -> Nodes \cup {Null, Uninit}]]
    BY Zenon, <1>a DEF Published
  <1>6. \A m \in Nodes \cup {head}, l \in Levels :
          m # p \/ l # k => next'[m][l] = next[m][l]
    BY Zenon, <1>a DEF Published
  <1>7. /\ next'[p][k] = n /\ pc'[w] \in {"set", "idle"}
        /\ InList(k)' = InList(k) \cup {n}
        /\ \A l \in Levels \ {k} : InList(l)' = InList(l)
        /\ \A g \in Fibers \ {w} : Rests(g)
    BY Zenon, <1>a DEF Published
  <1>8. /\ k \in Levels /\ n \in Nodes /\ n # p /\ p \in {head} \cup InList(k)
        /\ p \in Nodes \cup {head} /\ n # Uninit /\ w \in Fibers
    BY Zenon, <1>4, Sentinels DEF Between, InList
  <1>9. \A l \in Levels : InList(l) \subseteq InList(l)'
    BY Zenon, <1>7
  <1>10. \A v \in Writers : v = w
    BY Zenon DEF OneWriter
  <1>11. pc'[w] = "set" => level'[w] = k + 1 /\ k + 1 < height[w]
    <2>1. level \in [Fibers -> Levels] /\ DOMAIN pc = Fibers
      BY Zenon DEF IInv, TypeOK
    <2>2. CASE UNCHANGED level /\ pc' = [pc EXCEPT ![w] = "idle"]
      <3>1. pc'[w] = "idle"
        BY Zenon, <1>8, <2>1, <2>2
      <3> QED
        BY <3>1
    <2>3. CASE k + 1 < height[w] /\ level' = [level EXCEPT ![w] = k + 1]
      BY Zenon, <1>8, <2>1, <2>3
    <2> QED
      BY Zenon, <1>2, <2>2, <2>3
  <1>12. TypeOK'
    <2>1. \A v \in Writers : \A l \in 0 .. height[v] - 1 : prev[v][l] # Uninit
      BY <1>2, <1>10 DEF IInv, TypeOK
    <2>2. pc' \in [Fibers -> {"idle", "search", "height", "fill", "raise", "new",
                              "set", "publish"}]
      BY Zenon, <1>2 DEF IInv, TypeOK
    <2>3. k + 1 < height[w] => k + 1 \in Levels
      <3>1. height[w] \in 1 .. kMaxHeight
        BY Zenon DEF IInv, TypeOK
      <3> QED
        BY <1>8, <3>1, HeightAssumption DEF Levels
    <2>4. level' \in [Fibers -> Levels]
      BY Zenon, <1>2, <2>3 DEF IInv, TypeOK
    <2> QED
      BY Zenon, <1>3, <1>5, <2>1, <2>2, <2>4 DEF IInv, TypeOK
  <1>13. \A l \in Levels : Links(l)'
    <2>1. k = level[w]
      BY Zenon, <1>1 DEF At
    <2>2. Links(k)'
      BY Zenon, <2>1, PublishLinks
    <2>3. ASSUME NEW l \in Levels, l # k PROVE Links(l)'
      <3>0. InList(l) \subseteq Nodes
        BY Zenon DEF InList
      <3>1. InList(l)' = InList(l) /\ InList(l) \subseteq Nodes
        BY Zenon, <1>7, <2>3, <3>0
      <3>2. \A m \in {head} \cup InList(l) : next'[m][l] = next[m][l]
        BY Zenon, <1>6, <2>3, <3>1
      <3> QED
        BY Zenon, <1>3, <3>1, <3>2, LinksStay
    <2> QED
      BY Zenon, <2>2, <2>3
  <1>14. NodeInv'
    <2>1. ASSUME NEW m \in Nodes, NEW l \in Levels
          PROVE  /\ m > allocated \/ l >= max_height => next'[m][l] = Uninit
                 /\ l > 0 /\ next'[m][l] # Uninit => m \in InList(l - 1)
      <3>1. CASE m = p /\ l = k
        <4>1. m \in InList(k)
          BY Zenon, <1>8, <3>1, Sentinels
        <4>2. next[m][l] # Uninit
          BY Zenon, <3>1, <4>1 DEF InList
        <4>3. (m > allocated \/ l >= max_height) => next[m][l] = Uninit
          BY Zenon DEF IInv, NodeInv
        <4>4. l > 0 => m \in InList(l - 1)
          BY Zenon, <4>2 DEF IInv, NodeInv
        <4> QED
          BY Zenon, <4>2, <4>3, <4>4
      <3>2. CASE m # p \/ l # k
        BY Zenon, <1>6, <3>2 DEF IInv, NodeInv
      <3> QED
        BY Zenon, <3>1, <3>2
    <2>2. \A l \in Levels : l > 0 => l - 1 \in Levels
      BY HeightAssumption DEF Levels
    <2> QED
      BY Zenon, <1>3, <1>9, <2>1, <2>2 DEF IInv, NodeInv
  <1>15. ASSUME NEW r \in Readers PROVE ReaderInv(r)'
    BY Zenon, <1>3, <1>7, <1>9, ReaderStays, Sentinels
  <1>16. CASE pc'[w] = "idle"
    <2>1. WriterInv(w)'
      BY <1>16 DEF WriterInv, Unborn
    <2> QED
      BY Zenon, <1>3, <1>10, <1>12, <1>13, <1>14, <1>15, <2>1 DEF IInv
  <1>17. CASE pc'[w] = "set"
    <2>1. k \in Int /\ height[w] \in Int /\ max_height \in Int /\ height[w] <= kMaxHeight
      BY <1>8, HeightAssumption DEF IInv, TypeOK, Levels
    <2>2. /\ op[w] = "Insert" /\ target[w] \in Keys /\ n > 0
          /\ \A l \in k .. height[w] - 1 : Spot(w, l)
          /\ \A l \in Levels : next[n][l] # Uninit <=> l < k \/ l = k
          /\ node[w] = n
      BY <1>1, <1>2, <1>4 DEF IInv, WriterInv, At
    <2>3. ASSUME NEW l \in k + 1 .. height[w] - 1 PROVE Spot(w, l)'
      <3>1. l \in Levels /\ Spot(w, l) /\ l # k
        BY <1>8, <2>1, <2>2, HeightAssumption DEF Levels
      <3>2. next'[prev[w][l]][l] = next[prev[w][l]][l]
        <4>1. prev[w][l] \in Nodes \cup {head}
          BY Zenon, <3>1 DEF Spot, InList
        <4> QED
          BY Zenon, <1>6, <3>1, <4>1
      <3>3. InList(l)' = InList(l)
        BY Zenon, <1>7, <3>1
      <3> QED
        BY Zenon, <1>3, <3>1, <3>2, <3>3 DEF Spot
    <2>4. \A l \in Levels : next'[n][l] # Uninit <=> l < k + 1
      <3>1. \A l \in Levels : next'[n][l] = next[n][l] /\ l \in Int
        BY Zenon, <1>6, <1>8, Sentinels
      <3> QED
        BY <2>1, <2>2, <3>1
    <2>5. WriterInv(w)'
      BY <1>3, <1>4, <1>11, <1>17, <2>2, <2>3, <2>4 DEF WriterInv, Unborn
    <2> QED
      BY Zenon, <1>3, <1>10, <1>12, <1>13, <1>14, <1>15, <2>5 DEF IInv
  <1> QED
    BY <1>7, <1>16, <1>17

(***************************************************************************)
(* The invariant holds.                                                    *)
(***************************************************************************)
LEMMA InitIInv == Init => IInv
  <1> SUFFICES ASSUME Init PROVE IInv
    OBVIOUS
  <1>1. /\ next \in [Nodes \cup {head} -> [Levels -> Nodes \cup {Null, Uninit}]]
        /\ \A l \in Levels : next[head][l] = Null
        /\ \A n \in Nodes, l \in Levels : next[n][l] = Uninit
    BY Sentinels DEF Init, NoLinks
  <1>2. prev \in [Writers -> [Levels -> Nodes \cup {head, Uninit}]]
    BY Zenon DEF Init, NoLinks
  <1>3. /\ pc = [f \in Fibers |-> "idle"] /\ \A f \in Fibers : pc[f] = "idle"
        /\ \A r \in Readers : node[r] = Null
    BY Zenon, Sentinels DEF Init
  <1>4. \A l \in Levels : InList(l) = {}
    BY Zenon, <1>1 DEF InList
  <1>5. TypeOK
    <2>1. /\ 0 \in 0 .. MaxNodes /\ {1} \subseteq 1 .. kMaxHeight /\ 1 \in 1 .. kMaxHeight
          /\ 0 \in Levels
      BY HeightAssumption DEF Levels
    <2>2. \A w \in Writers : pc[w] \notin {"set", "publish"}
      BY <1>3, Sentinels
    <2> QED
      BY <1>1, <1>2, <2>1, <2>2 DEF Init, TypeOK
  <1>6. DOMAIN op = Fibers
    BY Zenon DEF Init
  <1>7. NodeInv
    <2>1. allocated = 0 /\ \A n \in Nodes : ~(n <= 0)
      BY DEF Init, Nodes
    <2> QED
      BY Zenon, <1>1, <2>1 DEF NodeInv
  <1>8. \A l \in Levels : Links(l)
    BY Zenon, <1>1, <1>4 DEF Links
  <1>9. \A r \in Readers : ReaderInv(r)
    BY <1>3, Sentinels DEF ReaderInv
  <1>10. \A w \in Writers : WriterInv(w)
    BY <1>3, Sentinels DEF WriterInv, Unborn
  <1> QED
    BY Zenon, <1>5, <1>6, <1>7, <1>8, <1>9, <1>10 DEF IInv

LEMMA NextIInv ==
  ASSUME IInv, OneWriter, Next
  PROVE  IInv'
  <1>1. ASSUME NEW f \in Fibers, Search(f) PROVE IInv'
    BY Zenon, <1>1, RightIInv, DownIInv, EndSearchIInv DEF Search
  <1>2. ASSUME NEW w \in Writers, Link(w) PROVE IInv'
    BY Zenon, <1>2, RandomHeightIInv, FillIInv, RaiseIInv, NewNodeIInv, SetLinkIInv,
       PublishIInv DEF Link
  <1>3. ASSUME NEW w \in Writers, NEW k \in Keys, Insert(w, k) PROVE IInv'
    BY Zenon, <1>3, InsertIInv
  <1>4. ASSUME NEW r \in Readers, NEW k \in Keys, Seek(r, k) PROVE IInv'
    <2>1. ReaderSearch(r, "Seek", k) /\ k \in Keys \cup {Null}
      BY Zenon, <1>4 DEF Seek
    <2> QED
      BY Zenon, <2>1, ReaderSearchIInv
  <1>5. ASSUME NEW r \in Readers, NEW k \in Keys, Contains(r, k) PROVE IInv'
    <2>1. ReaderSearch(r, "Contains", k) /\ k \in Keys \cup {Null}
      BY Zenon, <1>5 DEF Contains
    <2> QED
      BY Zenon, <2>1, ReaderSearchIInv
  <1>6. ASSUME NEW r \in Readers, SeekToLast(r) PROVE IInv'
    <2>1. ReaderSearch(r, "SeekToLast", Null) /\ Null \in Keys \cup {Null}
      BY Zenon, <1>6 DEF SeekToLast
    <2> QED
      BY Zenon, <2>1, ReaderSearchIInv
  <1>7. ASSUME NEW r \in Readers, Prev(r) PROVE IInv'
    <2>1. node[r] \in InList(0) /\ 0 \in Levels
      BY Zenon, <1>7, Sentinels DEF Prev, IInv, ReaderInv
    <2>2. key[node[r]] \in Keys
      BY Zenon, <2>1, Known
    <2>3. PICK k \in Keys : ReaderSearch(r, "Prev", k) /\ k \in Keys \cup {Null}
      BY Zenon, <1>7, <2>2 DEF Prev
    <2> QED
      BY Zenon, <2>3, ReaderSearchIInv
  <1>8. ASSUME NEW r \in Readers, SeekToFirst(r) \/ IterNext(r) PROVE IInv'
    BY Zenon, <1>8, IterateIInv
  <1> QED
    BY Zenon, <1>1, <1>2, <1>3, <1>4, <1>5, <1>6, <1>7, <1>8 DEF Next

LEMMA StutterIInv ==
  ASSUME IInv, UNCHANGED vars
  PROVE  IInv'
  <1>1. UNCHANGED <<key, next, allocated, max_height, heights, pc, op, target, x, level,
                    prev, height, node>>
    BY Zenon DEF vars, shared
  <1>2. TypeOK' /\ DOMAIN op' = Fibers
    BY Zenon, <1>1 DEF IInv, TypeOK
  <1>3. \A l : InList(l)' = InList(l)
    BY Zenon, <1>1 DEF InList
  <1>4. NodeInv'
    BY Zenon, <1>1, <1>3 DEF IInv, NodeInv
  <1>5. \A l \in Levels : Links(l)'
    BY Zenon, <1>1, <1>3, LinksStay
  <1>6. ASSUME NEW r \in Readers PROVE ReaderInv(r)'
    BY Zenon, <1>1, <1>3, ReaderStays DEF Rests
  <1>7. ASSUME NEW w \in Writers PROVE WriterInv(w)'
    <2>1. \A l : Spot(w, l)' <=> Spot(w, l)
      BY Zenon, <1>1, <1>3 DEF Spot
    <2>2. (Standing(w)' <=> Standing(w)) /\ (Unborn(w)' <=> Unborn(w)) /\ WriterInv(w)
      BY Zenon, <1>1, <1>3 DEF Standing, Unborn, IInv
    <2> QED
      BY Zenon, <1>1, <2>1, <2>2 DEF WriterInv
  <1> QED
    BY Zenon, <1>2, <1>4, <1>5, <1>6, <1>7 DEF IInv

\* With one writer, the links, the searches and the Insert under way satisfy the
\* invariant at every load and store of the code.
THEOREM Invariant ==
  ASSUME OneWriter
  PROVE  Spec => []IInv
  <1>1. Init => IInv
    BY InitIInv
  <1>2. IInv /\ [Next]_vars => IInv'
    BY Zenon, NextIInv, StutterIInv
  <1> QED
    BY <1>1, <1>2, PTL DEF Spec

\* Every variable has its type, and with one writer no fiber ever follows a link
\* or an entry of prev[] that was not written.
THEOREM TypeCorrect ==
  ASSUME OneWriter
  PROVE  Spec => []TypeOK
  <1>1. IInv => TypeOK
    BY Zenon DEF IInv
  <1> QED
    BY <1>1, Invariant, PTL

(***************************************************************************)
(* The chain of a level, which is defined by recursion.  Facts about it are*)
(* proved by taking the least number for which they fail.                  *)
(***************************************************************************)
LEMMA LeastNumber ==
  ASSUME NEW T \in SUBSET Nat, T # {}
  PROVE  \E n \in T : \A m \in T : n <= m
  <1> DEFINE R == {ss \in Nat \X Nat : ss[1] < ss[2]}
  <1>1. IsWellFoundedOn(R, Nat)
    BY NatLessThanWellFounded DEF OpToRel
  <1>2. \A m, n \in Nat : m < n => <<m, n>> \in R
    OBVIOUS
  <1> HIDE DEF R
  <1>3. PICK n \in T : \A m \in T : ~(<<m, n>> \in R)
    BY Zenon, <1>1, WFMin
  <1>4. \A m \in T : ~(m < n) /\ m \in Nat /\ n \in Nat
    BY Zenon, <1>2, <1>3
  <1> QED
    BY <1>4

\* What follows a sequence of nodes, and the sequence with it.
Beyond(s, l) == next[IF s = <<>> THEN head ELSE s[Len(s)]][l]

Longer(s, l) == IF Beyond(s, l) \in Nodes THEN Append(s, Beyond(s, l)) ELSE s

\* The recursion of Chain, up to n.
Recursion(c, n, l) ==
  c = [i \in 0 .. n |-> IF i = 0 THEN <<>> ELSE Longer(c[i - 1], l)]

LEMMA RecursionExists ==
  ASSUME NEW l, NEW N \in Nat
  PROVE  \E c : Recursion(c, N, l)
  <1> DEFINE T == {n \in Nat : ~\E c : Recursion(c, n, l)}
  <1> SUFFICES ASSUME N \in T PROVE FALSE
    OBVIOUS
  <1>1. PICK n \in T : \A m \in T : n <= m
    <2>1. T \in SUBSET Nat /\ T # {}
      OBVIOUS
    <2> HIDE DEF T
    <2> QED
      BY Zenon, <2>1, LeastNumber
  <1>2. n \in Nat /\ ~\E c : Recursion(c, n, l)
    OBVIOUS
  <1>3. n # 0
    <2> DEFINE c == [i \in 0 .. 0 |-> <<>>]
    <2>1. Recursion(c, 0, l)
      BY DEF Recursion
    <2> QED
      BY <1>2, <2>1
  <1>4. n - 1 \in Nat /\ n - 1 \notin T
    BY <1>1, <1>2, <1>3
  <1>5. PICK c : Recursion(c, n - 1, l)
    BY Zenon, <1>4
  <1> DEFINE d == [i \in 0 .. n |-> IF i = n THEN Longer(c[n - 1], l) ELSE c[i]]
             e == [i \in 0 .. n |-> IF i = 0 THEN <<>> ELSE Longer(d[i - 1], l)]
  <1>6. ASSUME NEW i \in 0 .. n PROVE d[i] = e[i]
    <2>1. CASE i = n
      <3>1. i # 0 /\ n - 1 \in 0 .. n /\ n - 1 # n
        BY <1>2, <1>3, <2>1
      <3> QED
        BY Zenon, <2>1, <3>1
    <2>2. CASE i = 0
      <3>1. c[0] = <<>> /\ i # n
        BY <1>2, <1>3, <1>4, <1>5, <2>2 DEF Recursion
      <3> QED
        BY Zenon, <2>2, <3>1
    <2>3. CASE i # n /\ i # 0
      <3>1. /\ i \in 0 .. n - 1 /\ i - 1 \in 0 .. n /\ i - 1 # n
        BY <1>2, <2>3
      <3>2. c[i] = Longer(c[i - 1], l)
        BY Zenon, <1>5, <2>3, <3>1 DEF Recursion
      <3> QED
        BY Zenon, <2>3, <3>1, <3>2
    <2> QED
      BY Zenon, <2>1, <2>2, <2>3
  <1>7. d = e
    BY Zenon, <1>6
  <1>8. Recursion(d, n, l)
    BY Zenon, <1>7 DEF Recursion
  <1> QED
    BY Zenon, <1>2, <1>8

LEMMA ChainForm ==
  ASSUME NEW l
  PROVE  \E c : Recursion(c, MaxNodes, l) /\ Chain(l) = c[MaxNodes]
  <1>1. \E c : Recursion(c, MaxNodes, l)
    BY Zenon, HeightAssumption, RecursionExists
  <1> DEFINE c == CHOOSE c : Recursion(c, MaxNodes, l)
  <1>2. Recursion(c, MaxNodes, l)
    BY Zenon, <1>1
  <1>3. Chain(l) = c[MaxNodes]
    BY DEF Chain, Recursion, Longer, Beyond
  <1> QED
    BY Zenon, <1>2, <1>3

\* A sequence of nodes that follows the links from head, and one that ends with
\* the last.
Pred(s, j) == IF j = 1 THEN head ELSE s[j - 1]

Follows(s, l) ==
  s \in Seq(Nodes) /\ \A j \in 1 .. Len(s) : s[j] = next[Pred(s, j)][l]

IsChain(s, l) == Follows(s, l) /\ next[Pred(s, Len(s) + 1)][l] \notin Nodes

LEMMA BeyondForm ==
  ASSUME NEW l, NEW s \in Seq(Nodes)
  PROVE  Beyond(s, l) = next[Pred(s, Len(s) + 1)][l]
  <1>1. (s = <<>> <=> Len(s) = 0) /\ Len(s) \in Nat
    OBVIOUS
  <1>2. (Len(s) + 1 = 1 <=> Len(s) = 0) /\ Len(s) + 1 - 1 = Len(s)
    BY <1>1
  <1>3. CASE s = <<>>
    BY Zenon, <1>1, <1>2, <1>3 DEF Beyond, Pred
  <1>4. CASE s # <<>>
    <2>1. Pred(s, Len(s) + 1) = s[Len(s)]
      <3>1. PICK j : j = Len(s) + 1 /\ j # 1 /\ j - 1 = Len(s)
        BY <1>1, <1>4
      <3>2. Pred(s, j) = s[j - 1]
        BY Zenon, <3>1 DEF Pred
      <3> QED
        BY Zenon, <3>1, <3>2
    <2> QED
      BY Zenon, <1>4, <2>1 DEF Beyond
  <1> QED
    BY Zenon, <1>3, <1>4

LEMMA LongerFollows ==
  ASSUME NEW l, NEW s, Follows(s, l)
  PROVE  /\ Follows(Longer(s, l), l)
         /\ \/ Beyond(s, l) \in Nodes /\ Len(Longer(s, l)) = Len(s) + 1
            \/ Beyond(s, l) \notin Nodes /\ Longer(s, l) = s
  <1>1. s \in Seq(Nodes) /\ \A j \in 1 .. Len(s) : s[j] = next[Pred(s, j)][l]
    BY Zenon DEF Follows
  <1>2. CASE Beyond(s, l) \notin Nodes
    BY Zenon, <1>2 DEF Longer
  <1>3. CASE Beyond(s, l) \in Nodes
    <2>1. PICK b \in Nodes : b = Beyond(s, l)
      BY Zenon, <1>3
    <2>2. PICK t : t = Append(s, b)
      OBVIOUS
    <2>3. /\ t \in Seq(Nodes) /\ Len(t) = Len(s) + 1 /\ t[Len(s) + 1] = b
          /\ \A j \in 1 .. Len(s) : t[j] = s[j]
      BY <1>1, <2>2
    <2>4. ASSUME NEW j \in 1 .. Len(t) PROVE Pred(t, j) = Pred(s, j)
      <3>1. Len(s) \in Nat /\ (j # 1 => j - 1 \in 1 .. Len(s))
        BY <1>1, <2>3
      <3> QED
        BY Zenon, <2>3, <3>1 DEF Pred
    <2>5. ASSUME NEW j \in 1 .. Len(t) PROVE t[j] = next[Pred(t, j)][l]
      <3>1. CASE j \in 1 .. Len(s)
        BY Zenon, <1>1, <2>3, <2>4, <3>1
      <3>2. CASE j = Len(s) + 1
        <4>1. b = next[Pred(s, j)][l]
          BY Zenon, <1>1, <2>1, <3>2, BeyondForm
        <4> QED
          BY Zenon, <2>3, <2>4, <3>2, <4>1
      <3> QED
        BY <1>1, <2>3, <3>1, <3>2
    <2>6. Longer(s, l) = t
      BY Zenon, <2>1, <2>2 DEF Longer
    <2> QED
      BY Zenon, <2>1, <2>3, <2>5, <2>6 DEF Follows
  <1> QED
    BY Zenon, <1>2, <1>3

\* Chain follows the links, and stops only at the last or after MaxNodes.
LEMMA ChainFollows ==
  ASSUME NEW l
  PROVE  /\ Follows(Chain(l), l)
         /\ Len(Chain(l)) = MaxNodes \/ IsChain(Chain(l), l)
  <1>1. PICK c : Recursion(c, MaxNodes, l) /\ Chain(l) = c[MaxNodes]
    BY Zenon, ChainForm
  <1>2. MaxNodes \in Nat
    BY HeightAssumption
  <1> DEFINE P(i) == /\ Follows(c[i], l)
                     /\ Len(c[i]) = i \/ Beyond(c[i], l) \notin Nodes
             T == {i \in 0 .. MaxNodes : ~P(i)}
  <1>3. c[0] = <<>>
    BY <1>1, <1>2 DEF Recursion
  <1>4. P(0)
    <2>1. Follows(<<>>, l) /\ Len(<<>>) = 0
      BY DEF Follows
    <2> QED
      BY Zenon, <1>3, <2>1
  <1>5. ASSUME NEW i \in 1 .. MaxNodes, P(i - 1) PROVE P(i)
    <2>1. i # 0 /\ i \in 0 .. MaxNodes
      BY <1>2
    <2>2. c[i] = Longer(c[i - 1], l)
      BY Zenon, <1>1, <2>1 DEF Recursion
    <2>3. PICK s : s = c[i - 1]
      OBVIOUS
    <2>4. Follows(s, l) /\ (Len(s) = i - 1 \/ Beyond(s, l) \notin Nodes)
      BY Zenon, <1>5, <2>3
    <2>5. /\ Follows(Longer(s, l), l)
          /\ \/ Beyond(s, l) \in Nodes /\ Len(Longer(s, l)) = Len(s) + 1
             \/ Beyond(s, l) \notin Nodes /\ Longer(s, l) = s
      BY Zenon, <2>4, LongerFollows
    <2>6. CASE Beyond(s, l) \notin Nodes
      BY Zenon, <2>2, <2>3, <2>4, <2>5, <2>6
    <2>7. CASE Beyond(s, l) \in Nodes
      <3>1. Len(Longer(s, l)) = Len(s) + 1 /\ Len(s) = i - 1
        BY Zenon, <2>4, <2>5, <2>7
      <3>2. Len(Longer(s, l)) = i
        BY <3>1
      <3> QED
        BY Zenon, <2>2, <2>3, <2>5, <3>2
    <2> QED
      BY Zenon, <2>6, <2>7
  <1> HIDE DEF P
  <1>6. T = {}
    <2> SUFFICES ASSUME T # {} PROVE FALSE
      OBVIOUS
    <2>1. PICK i \in T : \A m \in T : i <= m
      <3>1. T \in SUBSET Nat
        BY <1>2
      <3> HIDE DEF T
      <3> QED
        BY Zenon, <3>1, LeastNumber
    <2>2. i \in 0 .. MaxNodes /\ ~P(i)
      OBVIOUS
    <2>3. i # 0
      BY Zenon, <1>4, <2>2
    <2>4. i \in 1 .. MaxNodes /\ i - 1 \in 0 .. MaxNodes /\ ~(i <= i - 1)
      BY <1>2, <2>2, <2>3
    <2>5. P(i - 1)
      BY Zenon, <2>1, <2>4
    <2> QED
      BY Zenon, <1>5, <2>2, <2>4, <2>5
  <1>7. P(MaxNodes)
    <2>1. MaxNodes \in 0 .. MaxNodes
      BY <1>2
    <2> QED
      BY Zenon, <1>6, <2>1
  <1>8. /\ Follows(Chain(l), l) /\ Chain(l) \in Seq(Nodes)
        /\ Len(Chain(l)) = MaxNodes \/ Beyond(Chain(l), l) \notin Nodes
    BY Zenon, <1>1, <1>7 DEF P, Follows
  <1> QED
    BY Zenon, <1>8, BeyondForm DEF IsChain

\* The nodes along the links are linked on the level, and in order.
LEMMA FollowsLinked ==
  ASSUME IInv, NEW l \in Levels, NEW s, Follows(s, l)
  PROVE  \A j \in 1 .. Len(s) : s[j] \in InList(l)
  <1> DEFINE T == {j \in 1 .. Len(s) : s[j] \notin InList(l)}
  <1> SUFFICES ASSUME T # {} PROVE FALSE
    OBVIOUS
  <1>1. s \in Seq(Nodes) /\ \A j \in 1 .. Len(s) : s[j] = next[Pred(s, j)][l]
    BY Zenon DEF Follows
  <1>2. PICK j \in T : \A m \in T : j <= m
    <2>1. T \in SUBSET Nat
      BY <1>1
    <2> HIDE DEF T
    <2> QED
      BY Zenon, <2>1, LeastNumber
  <1>3. j \in 1 .. Len(s) /\ s[j] \notin InList(l)
    OBVIOUS
  <1>4. s[j] \in Nodes /\ Len(s) \in Nat
    BY <1>1, <1>3
  <1>5. Pred(s, j) \in {head} \cup InList(l)
    <2>1. CASE j = 1
      BY Zenon, <2>1 DEF Pred
    <2>2. CASE j # 1
      <3>1. j - 1 \in 1 .. Len(s) /\ ~(j <= j - 1)
        BY <1>3, <1>4, <2>2
      <3>2. s[j - 1] \in InList(l)
        BY Zenon, <1>2, <3>1
      <3> QED
        BY Zenon, <2>2, <3>2 DEF Pred
    <2> QED
      BY Zenon, <2>1, <2>2
  <1>6. next[Pred(s, j)][l] = Null \/ next[Pred(s, j)][l] \in InList(l)
    BY Zenon, <1>5, LinkTo
  <1> QED
    BY Zenon, <1>1, <1>3, <1>4, <1>6, Sentinels

LEMMA FollowsOrdered ==
  ASSUME IInv, NEW l \in Levels, NEW s, Follows(s, l)
  PROVE  \A i, j \in 1 .. Len(s) : i < j => Ahead(s[i], s[j])
  <1> DEFINE T == {j \in 1 .. Len(s) :
                     \E i \in 1 .. Len(s) : i < j /\ ~Ahead(s[i], s[j])}
  <1> SUFFICES ASSUME T # {} PROVE FALSE
    OBVIOUS
  <1>1. s \in Seq(Nodes) /\ \A j \in 1 .. Len(s) : s[j] = next[Pred(s, j)][l]
    BY Zenon DEF Follows
  <1>2. \A j \in 1 .. Len(s) : s[j] \in InList(l)
    BY Zenon, FollowsLinked
  <1>3. PICK j \in T : \A m \in T : j <= m
    <2>1. T \in SUBSET Nat
      BY <1>1
    <2> HIDE DEF T
    <2> QED
      BY Zenon, <2>1, LeastNumber
  <1>4. j \in 1 .. Len(s) /\ Len(s) \in Nat
    BY <1>1
  <1>5. PICK i \in 1 .. Len(s) : i < j /\ ~Ahead(s[i], s[j])
    BY Zenon
  <1>6. j # 1 /\ j - 1 \in 1 .. Len(s) /\ ~(j <= j - 1)
    BY <1>4, <1>5
  <1>7. s[j] = next[s[j - 1]][l]
    BY Zenon, <1>1, <1>4, <1>6 DEF Pred
  <1>8. Ahead(s[j - 1], s[j])
    <2>1. s[j] # Null
      BY Zenon, <1>2, <1>4, Sentinels DEF InList
    <2>2. \/ next[s[j - 1]][l] = Null
          \/ next[s[j - 1]][l] \in InList(l) /\ Ahead(s[j - 1], next[s[j - 1]][l])
      BY Zenon, <1>2, <1>6 DEF IInv, Links
    <2> QED
      BY Zenon, <1>7, <2>1, <2>2
  <1>9. CASE i = j - 1
    BY Zenon, <1>5, <1>8, <1>9
  <1>10. CASE i # j - 1
    <2>1. i < j - 1
      BY <1>4, <1>5, <1>10
    <2>2. Ahead(s[i], s[j - 1])
      BY Zenon, <1>3, <1>6, <2>1
    <2>3. \A m \in {i, j - 1, j} : s[m] \in Nodes /\ key[s[m]] \in Keys
      BY Zenon, <1>2, <1>4, <1>6, Known
    <2>4. Ahead(s[i], s[j])
      BY Zenon, <1>8, <2>2, <2>3, AheadTransitive
    <2> QED
      BY Zenon, <1>5, <2>4
  <1> QED
    BY Zenon, <1>9, <1>10

LEMMA FollowsDistinct ==
  ASSUME IInv, NEW l \in Levels, NEW s, Follows(s, l)
  PROVE  \A i, j \in 1 .. Len(s) : s[i] = s[j] => i = j
  <1>1. s \in Seq(Nodes) /\ Len(s) \in Nat
    BY DEF Follows
  <1>2. \A j \in 1 .. Len(s) : s[j] \in Nodes /\ key[s[j]] \in Keys
    BY Zenon, FollowsLinked, Known
  <1>3. \A j \in 1 .. Len(s) : ~Ahead(s[j], s[j])
    BY Zenon, <1>2, AheadTotal
  <1>4. ASSUME NEW i \in 1 .. Len(s), NEW j \in 1 .. Len(s), s[i] = s[j] PROVE i = j
    <2>1. ~(i < j) /\ ~(j < i)
      BY Zenon, <1>3, <1>4, FollowsOrdered
    <2> QED
      BY <1>1, <2>1
  <1> QED
    BY Zenon, <1>4

\* The whole chain has every node of the level.
Has(s, m) == \E j \in 1 .. Len(s) : s[j] = m

LEMMA ChainComplete ==
  ASSUME IInv, NEW l \in Levels, NEW s, IsChain(s, l), NEW m \in InList(l)
  PROVE  Has(s, m)
  <1> SUFFICES ASSUME ~\E j \in 1 .. Len(s) : s[j] = m PROVE FALSE
    BY Zenon DEF Has
  <1>1. /\ Follows(s, l) /\ s \in Seq(Nodes) /\ Len(s) \in Nat
        /\ \A j \in 1 .. Len(s) : s[j] = next[Pred(s, j)][l]
        /\ next[Pred(s, Len(s) + 1)][l] \notin Nodes
    BY DEF IsChain, Follows
  <1>2. \A j \in 1 .. Len(s) : s[j] \in InList(l)
    BY Zenon, <1>1, FollowsLinked
  <1>3. ASSUME NEW j \in 1 .. Len(s) + 1 PROVE Pred(s, j) \in {head} \cup InList(l)
    <2>1. j # 1 => j - 1 \in 1 .. Len(s)
      BY <1>1
    <2> QED
      BY Zenon, <1>2, <2>1 DEF Pred
  <1>4. ASSUME NEW j \in 1 .. Len(s) + 1, Ahead(Pred(s, j), m)
        PROVE  /\ next[Pred(s, j)][l] \in InList(l)
               /\ next[Pred(s, j)][l] = m \/ Ahead(next[Pred(s, j)][l], m)
    BY Zenon, <1>3, <1>4 DEF IInv, Links
  <1> DEFINE T == {j \in 1 .. Len(s) + 1 : ~Ahead(Pred(s, j), m)}
  <1>5. T = {}
    <2> SUFFICES ASSUME T # {} PROVE FALSE
      OBVIOUS
    <2>1. PICK j \in T : \A i \in T : j <= i
      <3>1. T \in SUBSET Nat
        BY <1>1
      <3> HIDE DEF T
      <3> QED
        BY Zenon, <3>1, LeastNumber
    <2>2. j \in 1 .. Len(s) + 1 /\ ~Ahead(Pred(s, j), m)
      OBVIOUS
    <2>3. j # 1
      BY Zenon, <2>2 DEF Pred, Ahead
    <2>4. j - 1 \in 1 .. Len(s) /\ j - 1 \in 1 .. Len(s) + 1 /\ ~(j <= j - 1)
      BY <1>1, <2>2, <2>3
    <2>5. Ahead(Pred(s, j - 1), m)
      BY Zenon, <2>1, <2>4
    <2>6. s[j - 1] = m \/ Ahead(s[j - 1], m)
      BY Zenon, <1>1, <1>4, <2>4, <2>5
    <2> QED
      BY Zenon, <2>2, <2>3, <2>4, <2>6 DEF Pred
  <1>6. Len(s) + 1 \in 1 .. Len(s) + 1
    BY <1>1
  <1>7. next[Pred(s, Len(s) + 1)][l] \in InList(l)
    BY Zenon, <1>4, <1>5, <1>6
  <1> QED
    BY Zenon, <1>1, <1>7 DEF InList

\* No sequence along the links is longer than the nodes are many.
LEMMA FollowsBounded ==
  ASSUME IInv, NEW l \in Levels, NEW s, Follows(s, l)
  PROVE  Len(s) <= MaxNodes
  <1> SUFFICES ASSUME ~(Len(s) <= MaxNodes) PROVE FALSE
    OBVIOUS
  <1>1. s \in Seq(Nodes) /\ Len(s) \in Nat /\ MaxNodes \in Nat /\ s \in [1 .. Len(s) -> Nodes]
    BY HeightAssumption DEF Follows
  <1>2. /\ IsFiniteSet(1 .. Len(s)) /\ IsFiniteSet(Nodes)
        /\ Cardinality(1 .. Len(s)) = Len(s) /\ Cardinality(Nodes) = MaxNodes
    <2>1. ASSUME NEW n \in Nat PROVE IsFiniteSet(1 .. n) /\ Cardinality(1 .. n) = n
      <3>1. 1 \in Int /\ n \in Int /\ (IF 1 > n THEN 0 ELSE n - 1 + 1) = n
        OBVIOUS
      <3> QED
        BY Zenon, <3>1, FS_Interval
    <2> QED
      BY Zenon, <1>1, <2>1 DEF Nodes
  <1>3. Cardinality(Nodes) < Cardinality(1 .. Len(s))
    BY <1>1, <1>2
  <1>4. \E i, j \in 1 .. Len(s) : i # j /\ s[i] = s[j]
    BY Zenon, <1>1, <1>2, <1>3, FS_PigeonHole
  <1> QED
    BY Zenon, <1>4, FollowsDistinct

LEMMA ChainIs ==
  ASSUME IInv, NEW l \in Levels
  PROVE  IsChain(Chain(l), l)
  <1>1. /\ Follows(Chain(l), l) /\ Chain(l) \in Seq(Nodes)
        /\ Len(Chain(l)) = MaxNodes \/ IsChain(Chain(l), l)
    BY Zenon, ChainFollows DEF Follows
  <1>2. ASSUME Beyond(Chain(l), l) \in Nodes, Len(Chain(l)) = MaxNodes PROVE FALSE
    <2>1. /\ Follows(Longer(Chain(l), l), l)
          /\ Len(Longer(Chain(l), l)) = MaxNodes + 1
      BY Zenon, <1>1, <1>2, LongerFollows
    <2>2. MaxNodes + 1 <= MaxNodes
      BY Zenon, <2>1, FollowsBounded
    <2> QED
      BY <2>2, HeightAssumption
  <1> QED
    BY Zenon, <1>1, <1>2, BeyondForm DEF IsChain

LEMMA OnIs ==
  ASSUME IInv, NEW l \in Levels
  PROVE  On(l) = InList(l)
  <1>1. PICK s : s = Chain(l)
    OBVIOUS
  <1>2. IsChain(s, l) /\ Follows(s, l)
    BY Zenon, <1>1, ChainIs DEF IsChain
  <1>3. DOMAIN s = 1 .. Len(s)
    BY <1>2 DEF Follows
  <1>4. \A n : n \in On(l) <=> \E j \in 1 .. Len(s) : s[j] = n
    BY Zenon, <1>1, <1>3 DEF On
  <1>5. \A n \in InList(l) : n \in On(l)
    BY Zenon, <1>2, <1>4, ChainComplete DEF Has
  <1>6. \A n \in On(l) : n \in InList(l)
    BY Zenon, <1>2, <1>4, FollowsLinked
  <1> QED
    BY Zenon, <1>5, <1>6

\* With one writer, at every moment of an Insert each level is sorted, its nodes
\* have a link for it and are on the level below as well.
THEOREM LevelsStayNested ==
  ASSUME OneWriter
  PROVE  Spec => []LevelsNested
  <1>1. IInv => LevelsNested
    <2> SUFFICES ASSUME IInv, NEW l \in Levels
                 PROVE  /\ \A i, j \in DOMAIN Chain(l) :
                             i < j => ~Before(key[Chain(l)[j]], key[Chain(l)[i]])
                        /\ \A n \in On(l) : next[n][l] # Uninit
                        /\ l > 0 => On(l) \subseteq On(l - 1)
      BY Zenon DEF LevelsNested
    <2>1. PICK s : s = Chain(l)
      OBVIOUS
    <2>2. Follows(s, l) /\ DOMAIN s = 1 .. Len(s)
      BY <2>1, ChainIs DEF IsChain, Follows
    <2>3. ASSUME NEW i \in 1 .. Len(s), NEW j \in 1 .. Len(s), i < j
          PROVE  ~Before(key[s[j]], key[s[i]])
      <3>1. Ahead(s[i], s[j])
        BY Zenon, <2>2, <2>3, FollowsOrdered
      <3>2. s[i] # head /\ key[s[i]] \in Keys /\ key[s[j]] \in Keys
        BY Zenon, <2>2, FollowsLinked, Known
      <3> QED
        BY Zenon, <3>1, <3>2, OrderAssumption DEF Ahead
    <2>4. \A n \in On(l) : next[n][l] # Uninit
      BY Zenon, OnIs DEF InList
    <2>5. l > 0 => On(l) \subseteq On(l - 1)
      BY Zenon, OnIs, Below
    <2> QED
      BY Zenon, <2>1, <2>2, <2>3, <2>4, <2>5
  <1> QED
    BY <1>1, Invariant, PTL

(***************************************************************************)
(* The refinement of OrderedList.                                          *)
(***************************************************************************)
\* A level has one chain.
Starts(s, t) == \A j \in 1 .. Len(s) : j <= Len(t) /\ s[j] = t[j]

LEMMA ChainPrefix ==
  ASSUME NEW l, NEW s, NEW t, IsChain(s, l), IsChain(t, l)
  PROVE  Starts(s, t)
  <1> DEFINE T == {j \in 1 .. Len(s) : ~(j <= Len(t) /\ s[j] = t[j])}
  <1> SUFFICES ASSUME T # {} PROVE FALSE
    BY DEF Starts
  <1>1. /\ s \in Seq(Nodes) /\ Len(s) \in Nat /\ t \in Seq(Nodes) /\ Len(t) \in Nat
        /\ \A j \in 1 .. Len(s) : s[j] = next[Pred(s, j)][l]
        /\ \A j \in 1 .. Len(t) : t[j] = next[Pred(t, j)][l]
        /\ next[Pred(t, Len(t) + 1)][l] \notin Nodes
    BY DEF IsChain, Follows
  <1>2. PICK j \in T : \A i \in T : j <= i
    <2>1. T \in SUBSET Nat
      BY <1>1
    <2> HIDE DEF T
    <2> QED
      BY Zenon, <2>1, LeastNumber
  <1>3. j \in 1 .. Len(s) /\ ~(j <= Len(t) /\ s[j] = t[j]) /\ s[j] \in Nodes
    BY <1>1
  <1>4. Pred(s, j) = Pred(t, j) /\ (j # 1 => j - 1 <= Len(t))
    <2>1. CASE j = 1
      BY Zenon, <2>1 DEF Pred
    <2>2. CASE j # 1
      <3>1. j - 1 \in 1 .. Len(s) /\ ~(j <= j - 1)
        BY <1>1, <1>3, <2>2
      <3>2. j - 1 <= Len(t) /\ s[j - 1] = t[j - 1]
        BY Zenon, <1>2, <3>1
      <3> QED
        BY Zenon, <2>2, <3>2 DEF Pred
    <2> QED
      BY Zenon, <2>1, <2>2
  <1>5. CASE j <= Len(t)
    <2>1. j \in 1 .. Len(t)
      BY <1>1, <1>3, <1>5
    <2> QED
      BY Zenon, <1>1, <1>3, <1>4, <1>5, <2>1
  <1>6. CASE ~(j <= Len(t))
    <2>1. j = Len(t) + 1
      BY <1>1, <1>3, <1>4, <1>6
    <2> QED
      BY Zenon, <1>1, <1>3, <1>4, <2>1
  <1> QED
    BY Zenon, <1>5, <1>6

LEMMA ChainUnique ==
  ASSUME NEW l, NEW s, NEW t
  PROVE  IsChain(s, l) /\ IsChain(t, l) => s = t
  <1> SUFFICES ASSUME IsChain(s, l), IsChain(t, l) PROVE s = t
    OBVIOUS
  <1>1. s \in Seq(Nodes) /\ t \in Seq(Nodes) /\ Len(s) \in Nat /\ Len(t) \in Nat
    BY DEF IsChain, Follows
  <1>2. /\ \A j \in 1 .. Len(s) : j <= Len(t) /\ s[j] = t[j]
        /\ \A j \in 1 .. Len(t) : j <= Len(s)
    <2>1. Starts(s, t) /\ Starts(t, s)
      BY Zenon, ChainPrefix
    <2> QED
      BY Zenon, <2>1 DEF Starts
  <1>3. Len(s) = Len(t)
    BY <1>1, <1>2
  <1> QED
    BY <1>1, <1>2, <1>3

\* The same of the state after a step.
LEMMA ChainUniqueNext ==
  ASSUME NEW l, NEW s, NEW t
  PROVE  IsChain(s, l)' /\ IsChain(t, l)' => s = t
  <1>1. IsChain(s, l) /\ IsChain(t, l) => s = t
    BY ChainUnique
  <1>2. (IsChain(s, l) /\ IsChain(t, l) => s = t)'
    BY <1>1, PTL
  <1> QED
    BY <1>2

LEMMA ChainIsNext ==
  ASSUME NEW l \in Levels, NEW c
  PROVE  IInv' /\ c = Chain(l)' => IsChain(c, l)'
  <1>1. IInv /\ c = Chain(l) => IsChain(c, l)
    BY ChainIs
  <1>2. (IInv /\ c = Chain(l) => IsChain(c, l))'
    BY <1>1, PTL
  <1> QED
    BY <1>2

\* A level whose links stay has the chain it had.
LEMMA ChainStays ==
  ASSUME IInv, IInv', NEW l \in Levels,
         \A n \in {head} \cup InList(l) : next'[n][l] = next[n][l]
  PROVE  Chain(l)' = Chain(l)
  <1>1. PICK s, c : s = Chain(l) /\ c = Chain(l)'
    OBVIOUS
  <1>2. IsChain(s, l) /\ Follows(s, l) /\ s \in Seq(Nodes) /\ Len(s) \in Nat
    BY <1>1, ChainIs DEF IsChain, Follows
  <1>3. \A j \in 1 .. Len(s) : s[j] \in InList(l)
    BY Zenon, <1>2, FollowsLinked
  <1>4. ASSUME NEW j \in 1 .. Len(s) + 1 PROVE next'[Pred(s, j)][l] = next[Pred(s, j)][l]
    <2>1. j # 1 => j - 1 \in 1 .. Len(s)
      BY <1>2
    <2>2. Pred(s, j) \in {head} \cup InList(l)
      BY Zenon, <1>3, <2>1 DEF Pred
    <2> QED
      BY Zenon, <2>2
  <1>5. /\ \A j \in 1 .. Len(s) : j \in 1 .. Len(s) + 1
        /\ Len(s) + 1 \in 1 .. Len(s) + 1
    BY <1>2
  <1>6. IsChain(s, l)'
    BY Zenon, <1>2, <1>4, <1>5 DEF IsChain, Follows, Pred
  <1>7. IsChain(c, l)'
    BY Zenon, <1>1, ChainIsNext
  <1> QED
    BY Zenon, <1>1, <1>6, <1>7, ChainUniqueNext

\* What the variables of OrderedList stand for.
List == [i \in DOMAIN Chain(0) |-> [id |-> Chain(0)[i], key |-> key[Chain(0)[i]]]]
Pending == [w \in Writers |-> IF Inserting(w) THEN target[w] ELSE Null]
Wanted ==
  [r \in Readers |-> IF pc[r] = "search" THEN [op |-> op[r], key |-> target[r]]
                     ELSE Null]
Iter == [r \in Readers |-> node[r]]

LEMMA ListForm ==
  ASSUME IInv, NEW s, s = Chain(0)
  PROVE  /\ IsChain(s, 0) /\ Follows(s, 0) /\ s \in Seq(Nodes) /\ Len(s) \in Nat
         /\ DOMAIN s = 1 .. Len(s) /\ DOMAIN List = 1 .. Len(s)
         /\ \A i \in 1 .. Len(s) :
              /\ s[i] \in InList(0) /\ List[i] = [id |-> s[i], key |-> key[s[i]]]
              /\ List[i].id = s[i] /\ List[i].key = key[s[i]]
  <1>1. IsChain(s, 0) /\ Follows(s, 0) /\ 0 \in Levels
    BY Zenon, ChainIs, Sentinels DEF IsChain
  <1>2. s \in Seq(Nodes) /\ Len(s) \in Nat /\ DOMAIN s = 1 .. Len(s)
    BY <1>1 DEF Follows
  <1>3. \A i \in 1 .. Len(s) : s[i] \in InList(0)
    BY Zenon, <1>1, FollowsLinked
  <1>4. List = [i \in 1 .. Len(s) |-> [id |-> s[i], key |-> key[s[i]]]]
    BY Zenon, <1>2 DEF List
  <1>5. DOMAIN List = 1 .. Len(s)
    BY Zenon, <1>4
  <1>6. \A i \in 1 .. Len(s) : List[i] = [id |-> s[i], key |-> key[s[i]]]
    BY Zenon, <1>4
  <1> QED
    BY <1>1, <1>2, <1>3, <1>5, <1>6

\* Where a node is in the chain: y is the i-th, and head the 0-th.
Stands(s, i, y) ==
  /\ i \in 0 .. Len(s) /\ y = Pred(s, i + 1)
  /\ i = 0 <=> y = head
  /\ i > 0 => i \in 1 .. Len(s) /\ y = s[i]
  /\ \/ i = Len(s) /\ next[y][0] = Null
     \/ i < Len(s) /\ i + 1 \in 1 .. Len(s) /\ next[y][0] = s[i + 1]

LEMMA ChainPosition ==
  ASSUME IInv, NEW s, IsChain(s, 0), NEW y \in {head} \cup InList(0)
  PROVE  \E i \in 0 .. Len(s) : Stands(s, i, y)
  <1>1. /\ s \in Seq(Nodes) /\ Len(s) \in Nat /\ 0 \in Levels
        /\ \A j \in 1 .. Len(s) : s[j] = next[Pred(s, j)][0]
        /\ next[Pred(s, Len(s) + 1)][0] \notin Nodes
    BY Sentinels DEF IsChain, Follows
  <1>2. PICK i \in 0 .. Len(s) :
          IF y = head THEN i = 0 ELSE i \in 1 .. Len(s) /\ s[i] = y
    <2>1. CASE y = head
      BY <1>1, <2>1
    <2>2. CASE y # head
      <3>0. y \in InList(0)
        BY Zenon, <2>2
      <3>1. PICK j \in 1 .. Len(s) : s[j] = y
        <4>1. Has(s, y)
          BY Zenon, <1>1, <3>0, ChainComplete
        <4> QED
          BY Zenon, <4>1 DEF Has
      <3>2. j \in 0 .. Len(s)
        BY <1>1
      <3> QED
        BY Zenon, <2>2, <3>1, <3>2
    <2> QED
      BY Zenon, <2>1, <2>2
  <1>3. (i = 0 <=> y = head) /\ (i > 0 => i \in 1 .. Len(s) /\ y = s[i])
    BY <1>1, <1>2
  <1>4. PICK j : j = i + 1 /\ j - 1 = i /\ (j = 1 <=> i = 0) /\ j \in 1 .. Len(s) + 1
    BY <1>1
  <1>5. y = Pred(s, j)
    BY Zenon, <1>2, <1>3, <1>4 DEF Pred
  <1>6. CASE i = Len(s)
    <2>1. next[y][0] \notin Nodes
      BY Zenon, <1>1, <1>4, <1>5, <1>6
    <2>2. next[y][0] = Null
      BY Zenon, <1>1, <2>1, LinkTo DEF InList
    <2> QED
      BY Zenon, <1>3, <1>4, <1>5, <1>6, <2>2 DEF Stands
  <1>7. CASE i # Len(s)
    <2>1. i < Len(s) /\ j \in 1 .. Len(s)
      BY <1>1, <1>4, <1>7
    <2>2. next[y][0] = s[j]
      BY Zenon, <1>1, <1>5, <2>1
    <2> QED
      BY Zenon, <1>3, <1>4, <1>5, <2>1, <2>2 DEF Stands
  <1> QED
    BY Zenon, <1>6, <1>7

\* The keys along a chain.
LEMMA ChainSorted ==
  ASSUME IInv, NEW l \in Levels, NEW s, Follows(s, l)
  PROVE  /\ \A i \in 1 .. Len(s) : key[s[i]] \in Keys
         /\ \A i, j \in 1 .. Len(s) : i < j => ~Before(key[s[j]], key[s[i]])
  <1>1. \A i \in 1 .. Len(s) : s[i] # head /\ key[s[i]] \in Keys
    BY Zenon, FollowsLinked, Known
  <1>2. ASSUME NEW i \in 1 .. Len(s), NEW j \in 1 .. Len(s), i < j
        PROVE  ~Before(key[s[j]], key[s[i]])
    <2>1. Ahead(s[i], s[j])
      BY Zenon, <1>2, FollowsOrdered
    <2> QED
      BY Zenon, <1>1, <2>1, OrderAssumption DEF Ahead
  <1> QED
    BY Zenon, <1>1, <1>2

\* As many nodes come before a key as there are up to where a search for it ends.
LEMMA RankIs ==
  ASSUME IInv, NEW s, s = Chain(0), NEW k \in Keys, NEW i \in 0 .. Len(s),
         i = 0 \/ Before(key[s[i]], k), i = Len(s) \/ ~Before(key[s[i + 1]], k)
  PROVE  Ordered!Rank(k) = i
  <1>1. /\ Follows(s, 0) /\ Len(s) \in Nat /\ DOMAIN List = 1 .. Len(s) /\ 0 \in Levels
        /\ \A j \in 1 .. Len(s) : List[j].key = key[s[j]]
    BY Zenon, ListForm, Sentinels
  <1>2. /\ \A j \in 1 .. Len(s) : key[s[j]] \in Keys
        /\ \A j, m \in 1 .. Len(s) : j < m => ~Before(key[s[m]], key[s[j]])
    BY Zenon, <1>1, ChainSorted
  <1>3. ASSUME NEW j \in 1 .. Len(s), j <= i PROVE Before(key[s[j]], k)
    <2>1. i \in 1 .. Len(s) /\ i # 0 /\ (j = i \/ j < i)
      BY <1>1, <1>3
    <2> QED
      BY Zenon, <1>2, <2>1, OrderAssumption
  <1>4. ASSUME NEW j \in 1 .. Len(s), ~(j <= i) PROVE ~Before(key[s[j]], k)
    <2>1. i + 1 \in 1 .. Len(s) /\ i # Len(s) /\ (j = i + 1 \/ i + 1 < j)
      BY <1>1, <1>4
    <2> QED
      BY Zenon, <1>2, <2>1, OrderAssumption
  <1>5. \A j \in DOMAIN List : Before(List[j].key, k) <=> j <= i
    BY Zenon, <1>1, <1>3, <1>4
  <1>6. Len(List) = Len(s)
    <2>1. List = [j \in 1 .. Len(s) |-> List[j]]
      BY Zenon, <1>1 DEF List
    <2> QED
      BY <1>1, <2>1
  <1>7. Ordered!Rank(k) =
          CHOOSE m \in 0 .. Len(s) : \A j \in DOMAIN List : Before(List[j].key, k) <=> j <= m
    BY Zenon, <1>6 DEF Ordered!Rank, List
  <1>8. PICK m \in 0 .. Len(s) :
          m = Ordered!Rank(k) /\ \A j \in DOMAIN List : Before(List[j].key, k) <=> j <= m
    BY Zenon, <1>5, <1>7
  <1>9. \A j \in 1 .. Len(s) : j <= m <=> j <= i
    BY Zenon, <1>1, <1>5, <1>8
  <1>10. m = i
    <2>1. ASSUME m < i PROVE FALSE
      BY <1>1, <1>9, <2>1
    <2>2. ASSUME i < m PROVE FALSE
      BY <1>1, <1>9, <2>2
    <2> QED
      BY <1>1, <2>1, <2>2
  <1> QED
    BY Zenon, <1>8, <1>10

\* A step of SkipList is a step of OrderedList, or none.
Maps == Ordered!Next \/ UNCHANGED Ordered!vars

LEMMA ListSame ==
  ASSUME IInv, IInv', \A n \in {head} \cup InList(0) : next'[n][0] = next[n][0],
         \A n \in InList(0) : key'[n] = key[n]
  PROVE  List' = List
  <1>1. PICK s : s = Chain(0)
    OBVIOUS
  <1>2. /\ DOMAIN s = 1 .. Len(s)
        /\ \A i \in DOMAIN s : s[i] \in InList(0)
    BY Zenon, <1>1, ListForm
  <1>3. Chain(0)' = s
    BY Zenon, <1>1, ChainStays, Sentinels
  <1>4. List = [i \in DOMAIN s |-> [id |-> s[i], key |-> key[s[i]]]]
    BY Zenon, <1>1 DEF List
  <1>5. List' = [i \in DOMAIN s |-> [id |-> s[i], key |-> key'[s[i]]]]
    BY Zenon, <1>3 DEF List
  <1>6. \A i \in DOMAIN s : key'[s[i]] = key[s[i]]
    BY Zenon, <1>2
  <1> QED
    BY Zenon, <1>4, <1>5, <1>6

LEMMA PendingSame ==
  ASSUME \A w \in Writers : /\ Inserting(w)' <=> Inserting(w)
                            /\ Inserting(w) => target'[w] = target[w]
  PROVE  Pending' = Pending
  BY Zenon DEF Pending

\* The other readers' searches and iterators stay.
LEMMA ReadersSame ==
  ASSUME NEW q \in Readers, Rests(q)
  PROVE  Wanted'[q] = Wanted[q] /\ Iter'[q] = Iter[q]
  BY Zenon DEF Wanted, Iter, Rests

LEMMA WantedSet ==
  ASSUME NEW r \in Readers, NEW v, Wanted'[r] = v,
         \A q \in Readers \ {r} : Wanted'[q] = Wanted[q]
  PROVE  Wanted' = [Wanted EXCEPT ![r] = v]
  <1>1. /\ Wanted = [q \in Readers |-> Wanted[q]]
        /\ Wanted' = [q \in Readers |-> Wanted'[q]]
    BY Zenon DEF Wanted
  <1> QED
    BY <1>1

LEMMA IterSet ==
  ASSUME NEW r \in Readers, NEW v, Iter'[r] = v,
         \A q \in Readers \ {r} : Iter'[q] = Iter[q]
  PROVE  Iter' = [Iter EXCEPT ![r] = v]
  <1>1. /\ Iter = [q \in Readers |-> Iter[q]]
        /\ Iter' = [q \in Readers |-> Iter'[q]]
    BY Zenon DEF Iter
  <1> QED
    BY <1>1

LEMMA FibersSame ==
  ASSUME \A q \in Readers : Wanted'[q] = Wanted[q] /\ Iter'[q] = Iter[q]
  PROVE  Wanted' = Wanted /\ Iter' = Iter
  <1>1. /\ Wanted = [q \in Readers |-> Wanted[q]]
        /\ Wanted' = [q \in Readers |-> Wanted'[q]]
        /\ Iter = [q \in Readers |-> Iter[q]]
        /\ Iter' = [q \in Readers |-> Iter'[q]]
    BY Zenon DEF Wanted, Iter
  <1> QED
    BY Zenon, <1>1

LEMMA Silent ==
  ASSUME List' = List, Pending' = Pending, Wanted' = Wanted, Iter' = Iter
  PROVE  Maps
  BY Zenon DEF Maps, Ordered!vars, List, Pending, Wanted, Iter

\* A step of a reader leaves the list and the writers alone.
LEMMA ReaderQuiet ==
  ASSUME IInv, IInv', NEW r \in Readers, UNCHANGED shared,
         \A g \in Fibers \ {r} : Rests(g)
  PROVE  /\ List' = List /\ Pending' = Pending
         /\ \A q \in Readers \ {r} : Wanted'[q] = Wanted[q] /\ Iter'[q] = Iter[q]
  <1>1. UNCHANGED <<next, key>>
    BY Zenon DEF shared
  <1>2. List' = List
    BY Zenon, <1>1, ListSame
  <1>3. \A w \in Writers : Rests(w)
    BY Zenon, Sentinels
  <1>4. Pending' = Pending
    BY Zenon, <1>3, PendingSame DEF Inserting, Rests
  <1> QED
    BY Zenon, <1>2, <1>4, ReadersSame, Sentinels

(***************************************************************************)
(* The readers' steps.                                                     *)
(***************************************************************************)
LEMMA IdAtIs ==
  ASSUME IInv, NEW s, s = Chain(0)
  PROVE  /\ Len(List) = Len(s)
         /\ \A j \in 1 .. Len(s) : Ordered!IdAt(j) = s[j]
         /\ \A j : j \notin 1 .. Len(s) => Ordered!IdAt(j) = Null
  <1>1. /\ s \in Seq(Nodes) /\ Len(s) \in Nat /\ DOMAIN List = 1 .. Len(s)
        /\ \A j \in 1 .. Len(s) : List[j].id = s[j]
    BY Zenon, ListForm
  <1>2. \A j : Ordered!IdAt(j) = IF j \in DOMAIN List THEN List[j].id ELSE Null
    BY Zenon DEF Ordered!IdAt, List
  <1>3. Len(List) = Len(s)
    <2>1. List = [j \in 1 .. Len(s) |-> List[j]]
      BY Zenon, <1>1 DEF List
    <2> QED
      BY <1>1, <2>1
  <1> QED
    BY Zenon, <1>1, <1>2, <1>3

\* A search that ends returns what a search of the list finds.
LEMMA SearchAnswer ==
  ASSUME IInv, NEW r \in Readers, pc[r] = "search", level[r] = 0,
         ~GoesRight(r, next[x[r]][0])
  PROVE  Found(r, next[x[r]][0]) = Ordered!Answer(op[r], target[r])
  <1>1. PICK s, y, n, k : s = Chain(0) /\ y = x[r] /\ n = next[y][0] /\ k = target[r]
    OBVIOUS
  <1>2. /\ Standing(r) /\ y \in {head} \cup InList(0)
        /\ n = Null \/ n \in InList(0)
        /\ op[r] \in {"Seek", "Contains", "Prev", "SeekToLast"}
    BY Zenon, <1>1, SearchFacts, Sentinels DEF IInv, ReaderInv
  <1>3. /\ IsChain(s, 0) /\ Len(s) \in Nat /\ DOMAIN List = 1 .. Len(s)
        /\ \A j \in 1 .. Len(s) : List[j].id = s[j] /\ List[j].key = key[s[j]]
        /\ \A j \in 1 .. Len(s) : s[j] \in InList(0)
    BY Zenon, <1>1, ListForm
  <1>4. PICK i \in 0 .. Len(s) : Stands(s, i, y)
    BY Zenon, <1>2, <1>3, ChainPosition
  <1>5. /\ Len(List) = Len(s)
        /\ \A j \in 1 .. Len(s) : Ordered!IdAt(j) = s[j]
        /\ \A j : j \notin 1 .. Len(s) => Ordered!IdAt(j) = Null
    BY Zenon, <1>1, IdAtIs
  <1>6. Null \notin InList(0) /\ Uninit \notin InList(0) /\ head \notin InList(0)
    BY Zenon, Sentinels DEF InList
  <1>a. \/ i = Len(s) /\ n = Null
        \/ i # Len(s) /\ i + 1 \in 1 .. Len(s) /\ n = s[i + 1] /\ n # Null
    <2>1. \/ i = Len(s) /\ n = Null
          \/ i < Len(s) /\ i + 1 \in 1 .. Len(s) /\ n = s[i + 1]
      BY Zenon, <1>1, <1>4 DEF Stands
    <2>2. i < Len(s) => i # Len(s)
      BY <1>3
    <2> QED
      BY Zenon, <1>3, <1>6, <2>1, <2>2
  <1>7. IF y = head THEN Ordered!IdAt(i) = Null ELSE Ordered!IdAt(i) = y
    <2>1. CASE i = 0
      <3>1. y = head /\ i \notin 1 .. Len(s)
        BY <1>4, <2>1 DEF Stands
      <3> QED
        BY Zenon, <1>5, <3>1
    <2>2. CASE i # 0
      <3>1. i > 0
        BY <1>3, <2>2
      <3>2. y # head /\ i \in 1 .. Len(s) /\ y = s[i]
        BY Zenon, <1>4, <2>2, <3>1 DEF Stands
      <3> QED
        BY Zenon, <1>5, <3>2
    <2> QED
      BY Zenon, <2>1, <2>2
  <1>8. Ordered!IdAt(i + 1) = n
    BY <1>1, <1>3, <1>4, <1>5 DEF Stands
  <1>9. CASE op[r] = "SeekToLast"
    <2>1. n = Null
      BY Zenon, <1>1, <1>9 DEF GoesRight
    <2>2. i = Len(List)
      BY Zenon, <1>5, <1>a, <2>1
    <2>3. Found(r, n) = IF y = head THEN Null ELSE y
      BY <1>1, <1>9 DEF Found
    <2>4. Ordered!Answer(op[r], k) = Ordered!IdAt(Len(List))
      BY <1>9 DEF Ordered!Answer, List
    <2> QED
      BY Zenon, <1>1, <1>7, <2>2, <2>3, <2>4
  <1>10. CASE op[r] # "SeekToLast"
    <2>1. k \in Keys /\ (y = head \/ Before(key[y], k))
      BY Zenon, <1>1, <1>2, <1>10 DEF Standing
    <2>2. n = Null \/ ~Before(key[n], k)
      BY Zenon, <1>1, <1>2, <1>6, <1>10 DEF GoesRight
    <2>3. i = 0 \/ Before(key[s[i]], k)
      BY <1>4, <2>1 DEF Stands
    <2>4. i = Len(s) \/ ~Before(key[s[i + 1]], k)
      BY Zenon, <1>a, <2>2
    <2>5. Ordered!Rank(k) = i
      BY Zenon, <1>1, <2>1, <2>3, <2>4, RankIs
    <2>6. CASE op[r] = "Seek"
      <3>1. Found(r, n) = n
        BY <2>6 DEF Found
      <3>2. Ordered!Answer(op[r], k) = Ordered!IdAt(Ordered!Rank(k) + 1)
        BY <2>6 DEF Ordered!Answer
      <3> QED
        BY Zenon, <1>1, <1>8, <2>5, <3>1, <3>2
    <2>7. CASE op[r] = "Prev"
      <3>1. Found(r, n) = IF y = head THEN Null ELSE y
        BY <1>1, <2>7 DEF Found
      <3>2. Ordered!Answer(op[r], k) = Ordered!IdAt(Ordered!Rank(k))
        BY <2>7 DEF Ordered!Answer
      <3> QED
        BY Zenon, <1>1, <1>7, <2>5, <3>1, <3>2
    <2>8. CASE op[r] = "Contains"
      <3>1. Found(r, n) = IF n # Null /\ ~Before(k, key[n]) THEN n ELSE Null
        BY <1>1, <2>8 DEF Found
      <3>2. Ordered!Answer(op[r], k) =
              LET j == Ordered!Rank(k) + 1
              IN  IF j \in DOMAIN List /\ ~Before(k, List[j].key) THEN List[j].id
                  ELSE Null
        BY <2>8 DEF Ordered!Answer, List
      <3>3. Ordered!Answer(op[r], k) =
              IF i + 1 \in 1 .. Len(s) /\ ~Before(k, key[s[i + 1]]) THEN s[i + 1]
              ELSE Null
        BY Zenon, <1>3, <2>5, <3>2
      <3>4. CASE i = Len(s)
        <4>1. n = Null /\ i + 1 \notin 1 .. Len(s)
          BY <1>1, <1>3, <1>4, <3>4 DEF Stands
        <4> QED
          BY Zenon, <1>1, <3>1, <3>3, <4>1
      <3>5. CASE i # Len(s)
        <4>1. n = s[i + 1] /\ i + 1 \in 1 .. Len(s) /\ n # Null
          BY Zenon, <1>a, <3>5
        <4> QED
          BY Zenon, <1>1, <3>1, <3>3, <4>1
      <3> QED
        BY Zenon, <3>4, <3>5
    <2> QED
      BY Zenon, <1>2, <1>10, <2>6, <2>7, <2>8
  <1> QED
    BY Zenon, <1>9, <1>10

LEMMA PosOfIs ==
  ASSUME IInv, NEW s, s = Chain(0), NEW i \in 1 .. Len(s)
  PROVE  Ordered!PosOf(s[i]) = i
  <1>1. /\ Follows(s, 0) /\ DOMAIN List = 1 .. Len(s) /\ 0 \in Levels
        /\ \A j \in 1 .. Len(s) : List[j].id = s[j]
    BY Zenon, ListForm, Sentinels
  <1>2. \A j \in 1 .. Len(s) : s[i] = s[j] => i = j
    BY Zenon, <1>1, FollowsDistinct
  <1>3. Ordered!PosOf(s[i]) = CHOOSE j \in DOMAIN List : List[j].id = s[i]
    BY Zenon DEF Ordered!PosOf, List
  <1>4. \E j \in DOMAIN List : List[j].id = s[i]
    BY Zenon, <1>1
  <1>5. /\ Ordered!PosOf(s[i]) \in DOMAIN List
        /\ List[Ordered!PosOf(s[i])].id = s[i]
    BY Zenon, <1>3, <1>4
  <1> QED
    BY Zenon, <1>1, <1>2, <1>5

\* What a reader wants is what its search is for.
LEMMA WantedForm ==
  ASSUME NEW r \in Readers
  PROVE  /\ pc[r] = "search" => Wanted[r] = [op |-> op[r], key |-> target[r]]
         /\ pc[r] # "search" => Wanted[r] = Null
         /\ pc'[r] = "search" => Wanted'[r] = [op |-> op'[r], key |-> target'[r]]
         /\ pc'[r] # "search" => Wanted'[r] = Null
         /\ Iter[r] = node[r] /\ Iter'[r] = node'[r]
  BY Zenon DEF Wanted, Iter

LEMMA ReturnMaps ==
  ASSUME IInv, IInv', NEW r \in Readers, EndSearch(r)
  PROVE  Maps
  <1>1. /\ pc[r] = "search" /\ level[r] = 0 /\ ~GoesRight(r, next[x[r]][0])
        /\ node' = [node EXCEPT ![r] = Found(r, next[x[r]][0])]
        /\ pc' = [pc EXCEPT ![r] = "idle"]
        /\ UNCHANGED <<shared, op, target, x, level>>
    BY Zenon, Sentinels DEF EndSearch, Goto
  <1>2. /\ DOMAIN pc = Fibers /\ DOMAIN node = Fibers /\ r \in Fibers
        /\ op[r] \in {"Seek", "Contains", "Prev", "SeekToLast"}
        /\ target[r] \in Keys \cup {Null}
    BY Zenon, <1>1, Sentinels DEF IInv, TypeOK, ReaderInv
  <1>3. \A g \in Fibers \ {r} : Rests(g)
    BY Zenon, <1>1, <1>2 DEF Rests
  <1>4. /\ List' = List /\ Pending' = Pending
        /\ \A q \in Readers \ {r} : Wanted'[q] = Wanted[q] /\ Iter'[q] = Iter[q]
    BY Zenon, <1>1, <1>3, ReaderQuiet
  <1>5. pc'[r] = "idle" /\ node'[r] = Found(r, next[x[r]][0])
    BY Zenon, <1>1, <1>2
  <1>6. /\ Wanted[r] = [op |-> op[r], key |-> target[r]] /\ Wanted'[r] = Null
        /\ Iter'[r] = Found(r, next[x[r]][0])
    <2>1. pc'[r] # "search"
      BY <1>5
    <2> QED
      BY Zenon, <1>1, <1>5, <2>1, WantedForm
  <1>7. Wanted[r] # Null /\ Wanted[r].op = op[r] /\ Wanted[r].key = target[r]
    BY <1>2, <1>6, SentinelAssumption
  <1>8. Found(r, next[x[r]][0]) = Ordered!Answer(op[r], target[r])
    BY Zenon, <1>1, SearchAnswer
  <1>9. Wanted' = [Wanted EXCEPT ![r] = Null]
    BY Zenon, <1>4, <1>6, WantedSet
  <1>10. Iter' = [Iter EXCEPT ![r] = Ordered!Answer(Wanted[r].op, Wanted[r].key)]
    BY Zenon, <1>4, <1>6, <1>7, <1>8, IterSet
  <1>11. Ordered!SearchReturn(r)
    BY Zenon, <1>4, <1>7, <1>9, <1>10 DEF Ordered!SearchReturn, List, Pending, Wanted, Iter
  <1> QED
    BY Zenon, <1>11 DEF Maps, Ordered!Next

\* The search goes on.
LEMMA ReaderMoveMaps ==
  ASSUME IInv, IInv', NEW r \in Readers, Right(r) \/ Down(r)
  PROVE  Maps
  <1>1. UNCHANGED <<shared, pc, op, target, node>> /\ \A g \in Fibers \ {r} : Rests(g)
    <2>1. CASE Right(r)
      BY Zenon, <2>1 DEF Right, Rests, IInv, TypeOK
    <2>2. CASE Down(r)
      BY Zenon, <2>2 DEF Down, Rests, IInv, TypeOK
    <2> QED
      BY Zenon, <2>1, <2>2
  <1>2. /\ List' = List /\ Pending' = Pending
        /\ \A q \in Readers \ {r} : Wanted'[q] = Wanted[q] /\ Iter'[q] = Iter[q]
    BY Zenon, <1>1, ReaderQuiet
  <1>3. Wanted'[r] = Wanted[r] /\ Iter'[r] = Iter[r]
    BY Zenon, <1>1 DEF Wanted, Iter
  <1>4. Wanted' = Wanted /\ Iter' = Iter
    BY Zenon, <1>2, <1>3, FibersSame
  <1> QED
    BY Zenon, <1>2, <1>4, Silent

\* The iterator goes to the first node, or to the next.
LEMMA IterateMaps ==
  ASSUME IInv, IInv', NEW r \in Readers, SeekToFirst(r) \/ IterNext(r)
  PROVE  Maps
  <1>1. PICK y :
          /\ \/ y = head /\ SeekToFirst(r)
             \/ y = node[r] /\ y \in Nodes /\ IterNext(r)
          /\ node' = [node EXCEPT ![r] = next[y][0]]
    BY Zenon DEF SeekToFirst, IterNext
  <1>2. pc[r] = "idle" /\ UNCHANGED <<shared, pc, op, target, x, level>>
    BY Zenon DEF SeekToFirst, IterNext
  <1>3. r \in Fibers /\ DOMAIN node = Fibers
    BY Zenon, Sentinels DEF IInv, TypeOK
  <1>4. \A g \in Fibers \ {r} : Rests(g)
    BY Zenon, <1>1, <1>2, <1>3 DEF Rests
  <1>5. /\ List' = List /\ Pending' = Pending
        /\ \A q \in Readers \ {r} : Wanted'[q] = Wanted[q] /\ Iter'[q] = Iter[q]
    BY Zenon, <1>2, <1>4, ReaderQuiet
  <1>6. Wanted[r] = Null /\ Wanted'[r] = Null
    <2>1. pc[r] # "search" /\ pc'[r] # "search"
      BY <1>2
    <2> QED
      BY Zenon, <2>1, WantedForm
  <1>7. Wanted' = Wanted
    BY Zenon, <1>2 DEF Wanted
  <1>8. Iter[r] = node[r] /\ Iter'[r] = next[y][0]
    BY Zenon, <1>1, <1>3, WantedForm
  <1>9. PICK s : s = Chain(0)
    OBVIOUS
  <1>10. y \in {head} \cup InList(0)
    BY Zenon, <1>1, Sentinels DEF IInv, ReaderInv
  <1>11. IsChain(s, 0) /\ Len(s) \in Nat
    BY Zenon, <1>9, ListForm
  <1>12. PICK i \in 0 .. Len(s) : Stands(s, i, y)
    BY Zenon, <1>10, <1>11, ChainPosition
  <1>13. next[y][0] = Ordered!IdAt(i + 1)
    <2>1. \/ i + 1 \in 1 .. Len(s) /\ next[y][0] = s[i + 1]
          \/ i + 1 \notin 1 .. Len(s) /\ next[y][0] = Null
      BY <1>11, <1>12 DEF Stands
    <2> QED
      BY Zenon, <1>9, <2>1, IdAtIs
  <1>14. CASE y = head /\ SeekToFirst(r)
    <2>1. i + 1 = 1
      BY <1>11, <1>12, <1>14 DEF Stands
    <2>2. Iter' = [Iter EXCEPT ![r] = Ordered!IdAt(1)]
      BY Zenon, <1>5, <1>8, <1>13, <2>1, IterSet
    <2>3. Ordered!SeekToFirst(r)
      BY Zenon, <1>5, <1>6, <1>7, <2>2
         DEF Ordered!SeekToFirst, List, Pending, Wanted, Iter
    <2> QED
      BY Zenon, <2>3 DEF Maps, Ordered!Next
  <1>15. CASE y = node[r] /\ y \in Nodes
    <2>1. i > 0
      BY <1>11, <1>12, <1>15, Sentinels DEF Stands
    <2>2. i \in 1 .. Len(s) /\ y = s[i]
      BY Zenon, <1>12, <2>1 DEF Stands
    <2>3. Ordered!PosOf(Iter[r]) = i
      BY Zenon, <1>8, <1>9, <1>15, <2>2, PosOfIs
    <2>4. Iter[r] # Null
      BY Zenon, <1>8, <1>15, Sentinels
    <2>5. Iter' = [Iter EXCEPT ![r] = Ordered!IdAt(Ordered!PosOf(Iter[r]) + 1)]
      BY Zenon, <1>5, <1>8, <1>13, <2>3, IterSet
    <2>6. Ordered!IterNext(r)
      BY Zenon, <1>5, <1>6, <1>7, <2>4, <2>5
         DEF Ordered!IterNext, List, Pending, Wanted, Iter
    <2> QED
      BY Zenon, <2>6 DEF Maps, Ordered!Next
  <1> QED
    BY Zenon, <1>1, <1>14, <1>15

\* A search is called.
LEMMA SearchStarts ==
  ASSUME IInv, IInv', NEW r \in Readers, NEW o, NEW k, ReaderSearch(r, o, k)
  PROVE  /\ List' = List /\ Pending' = Pending /\ Iter' = Iter /\ Wanted[r] = Null
         /\ Wanted' = [Wanted EXCEPT ![r] = [op |-> o, key |-> k]]
  <1>1. PICK h \in heights : StartSearch(r, o, k, h)
    BY Zenon DEF ReaderSearch
  <1>2. /\ pc[r] = "idle" /\ op' = [op EXCEPT ![r] = o]
        /\ target' = [target EXCEPT ![r] = k] /\ x' = [x EXCEPT ![r] = head]
        /\ level' = [level EXCEPT ![r] = h - 1] /\ pc' = [pc EXCEPT ![r] = "search"]
        /\ UNCHANGED <<shared, node>>
    BY Zenon, <1>1 DEF StartSearch, Goto
  <1>3. /\ r \in Fibers /\ DOMAIN op = Fibers /\ DOMAIN target = Fibers
        /\ DOMAIN x = Fibers /\ DOMAIN level = Fibers /\ DOMAIN pc = Fibers
    BY Zenon, Sentinels DEF IInv, TypeOK
  <1>4. \A g \in Fibers \ {r} : Rests(g)
    BY Zenon, <1>2, <1>3 DEF Rests
  <1>5. pc'[r] = "search" /\ op'[r] = o /\ target'[r] = k
    BY Zenon, <1>2, <1>3
  <1>6. /\ List' = List /\ Pending' = Pending
        /\ \A q \in Readers \ {r} : Wanted'[q] = Wanted[q] /\ Iter'[q] = Iter[q]
    BY Zenon, <1>2, <1>4, ReaderQuiet
  <1>7. Wanted[r] = Null /\ Wanted'[r] = [op |-> o, key |-> k]
    <2>1. pc[r] # "search"
      BY <1>2
    <2> QED
      BY Zenon, <1>5, <2>1, WantedForm
  <1>8. Iter' = Iter
    BY Zenon, <1>2 DEF Iter
  <1> QED
    BY Zenon, <1>6, <1>7, <1>8, WantedSet

LEMMA CallMaps ==
  ASSUME IInv, IInv', NEW r \in Readers,
         \/ \E k \in Keys : Seek(r, k) \/ Contains(r, k)
         \/ SeekToLast(r) \/ Prev(r)
  PROVE  Maps
  <1>1. PICK o, k : /\ ReaderSearch(r, o, k)
                    /\ \/ k \in Keys /\ o \in {"Seek", "Contains"}
                       \/ k = Null /\ o = "SeekToLast"
                       \/ k = key[node[r]] /\ o = "Prev" /\ node[r] \in Nodes
    BY DEF Seek, Contains, SeekToLast, Prev
  <1>2. /\ List' = List /\ Pending' = Pending /\ Iter' = Iter /\ Wanted[r] = Null
        /\ Wanted' = [Wanted EXCEPT ![r] = [op |-> o, key |-> k]]
    BY Zenon, <1>1, SearchStarts
  <1>3. CASE k \in Keys /\ o \in {"Seek", "Contains"}
    <2>1. Ordered!SearchCall(r)
      BY Zenon, <1>2, <1>3 DEF Ordered!SearchCall, List, Pending, Wanted, Iter
    <2> QED
      BY Zenon, <2>1 DEF Maps, Ordered!Next
  <1>4. CASE k = Null /\ o = "SeekToLast"
    <2>1. Ordered!SearchCall(r)
      BY Zenon, <1>2, <1>4 DEF Ordered!SearchCall, List, Pending, Wanted, Iter
    <2> QED
      BY Zenon, <2>1 DEF Maps, Ordered!Next
  <1>5. CASE k = key[node[r]] /\ o = "Prev" /\ node[r] \in Nodes
    <2>1. PICK s : s = Chain(0)
      OBVIOUS
    <2>2. IsChain(s, 0) /\ \A j \in 1 .. Len(s) : List[j].key = key[s[j]]
      BY Zenon, <2>1, ListForm
    <2>3. node[r] \in InList(0) /\ 0 \in Levels
      BY Zenon, <1>5, Sentinels DEF IInv, ReaderInv
    <2>4. Has(s, node[r])
      BY Zenon, <2>2, <2>3, ChainComplete
    <2>5. PICK i \in 1 .. Len(s) : s[i] = node[r]
      BY Zenon, <2>4 DEF Has
    <2>6. Iter[r] = s[i] /\ Iter[r] # Null
      BY Zenon, <1>5, <2>5, WantedForm, Sentinels
    <2>7. Ordered!PosOf(Iter[r]) = i
      BY Zenon, <2>1, <2>6, PosOfIs
    <2>8. k = List[Ordered!PosOf(Iter[r])].key
      BY Zenon, <1>5, <2>2, <2>5, <2>7
    <2>9. Wanted' = [Wanted EXCEPT ![r] =
                       [op |-> "Prev", key |-> List[Ordered!PosOf(Iter[r])].key]]
      BY Zenon, <1>2, <1>5, <2>8
    <2>10. Ordered!SearchCall(r)
      BY Zenon, <1>2, <2>6, <2>9 DEF Ordered!SearchCall, List, Pending, Wanted, Iter
    <2> QED
      BY Zenon, <2>10 DEF Maps, Ordered!Next
  <1> QED
    BY Zenon, <1>1, <1>3, <1>4, <1>5

(***************************************************************************)
(* The writer's steps.                                                     *)
(***************************************************************************)
\* The writer leaves the readers alone.
LEMMA WriterQuiet ==
  ASSUME OneWriter, NEW w \in Writers, \A g \in Fibers \ {w} : Rests(g)
  PROVE  Wanted' = Wanted /\ Iter' = Iter
  <1>1. \A q \in Readers : Rests(q)
    BY Zenon, Sentinels
  <1> QED
    BY Zenon, <1>1, ReadersSame, FibersSame

LEMMA PendingSet ==
  ASSUME OneWriter, NEW w \in Writers, NEW v,
         v = IF Inserting(w)' THEN target'[w] ELSE Null
  PROVE  Pending' = [Pending EXCEPT ![w] = v]
  <1>1. \A u \in Writers : u = w
    BY Zenon DEF OneWriter
  <1>2. Pending' = [u \in Writers |-> v]
    BY Zenon, <1>1 DEF Pending
  <1>3. Pending = [u \in Writers |-> Pending[u]]
    BY Zenon DEF Pending
  <1> QED
    BY <1>1, <1>2, <1>3

\* Until the node is published on level 0, and after it, the list is as it was.
LEMMA WriterSilent ==
  ASSUME IInv, IInv', OneWriter, NEW w \in Writers, \A g \in Fibers \ {w} : Rests(g),
         \A n \in {head} \cup InList(0) : next'[n][0] = next[n][0],
         \A n \in InList(0) : key'[n] = key[n],
         Inserting(w)' <=> Inserting(w), UNCHANGED target
  PROVE  Maps
  <1>1. List' = List
    BY Zenon, ListSame
  <1>2. \A v \in Writers : v = w
    BY Zenon DEF OneWriter
  <1>3. Pending' = Pending
    BY Zenon, <1>2, PendingSame
  <1>4. Wanted' = Wanted /\ Iter' = Iter
    BY Zenon, WriterQuiet
  <1> QED
    BY Zenon, <1>1, <1>3, <1>4, Silent

\* The writer searches, draws its height and prepares prev[].
LEMMA PrepareMaps ==
  ASSUME IInv, IInv', OneWriter, NEW w \in Writers,
         Search(w) \/ RandomHeight(w) \/ Fill(w) \/ Raise(w)
  PROVE  Maps
  <1>1. w \notin Readers /\ w \in Fibers
    BY Zenon, Sentinels
  <1>2. /\ UNCHANGED <<next, key, target, node>>
        /\ pc[w] \in {"search", "height", "fill", "raise"}
        /\ pc' = [pc EXCEPT ![w] = pc'[w]]
        /\ pc'[w] \in {"search", "height", "fill", "raise", "new"}
        /\ \A g \in Fibers \ {w} : Rests(g)
    <2>1. /\ DOMAIN pc = Fibers /\ DOMAIN x = Fibers /\ DOMAIN level = Fibers
          /\ pc = [pc EXCEPT ![w] = pc[w]]
      BY <1>1 DEF IInv, TypeOK
    <2>2. CASE Right(w)
      BY Zenon, <1>1, <2>1, <2>2 DEF Right, Rests, shared
    <2>3. CASE Down(w)
      BY Zenon, <1>1, <2>1, <2>3 DEF Down, Rests, shared
    <2>4. CASE EndSearch(w)
      BY Zenon, <1>1, <2>1, <2>4 DEF EndSearch, Goto, Rests, shared
    <2>5. CASE RandomHeight(w)
      <3>1. PICK g \in {"fill", "new"} : pc' = [pc EXCEPT ![w] = g]
        BY Zenon, <2>5 DEF RandomHeight, Goto
      <3>2. pc[w] = "height" /\ UNCHANGED <<shared, op, target, x, level, prev, node>>
        BY Zenon, <2>5 DEF RandomHeight
      <3> QED
        BY Zenon, <1>1, <2>1, <3>1, <3>2 DEF Rests, shared
    <2>6. CASE Fill(w)
      BY Zenon, <1>1, <2>1, <2>6 DEF Fill, Goto, Rests, shared
    <2>7. CASE Raise(w)
      BY Zenon, <1>1, <2>1, <2>7 DEF Raise, Goto, Rests
    <2> QED
      BY Zenon, <2>2, <2>3, <2>4, <2>5, <2>6, <2>7 DEF Search
  <1>3. Inserting(w) /\ Inserting(w)'
    BY <1>2 DEF Inserting
  <1> QED
    BY Zenon, <1>2, <1>3, WriterSilent

\* The new node gets its key before any link leads to it.
LEMMA NewNodeMaps ==
  ASSUME IInv, IInv', OneWriter, NEW w \in Writers, NewNode(w)
  PROVE  Maps
  <1>1. w \in Fibers /\ DOMAIN pc = Fibers /\ DOMAIN node = Fibers /\ DOMAIN level = Fibers
    BY Zenon, Sentinels DEF IInv, TypeOK
  <1>2. /\ pc[w] = "new" /\ pc' = [pc EXCEPT ![w] = "set"]
        /\ level' = [level EXCEPT ![w] = 0] /\ UNCHANGED <<next, op, target, x>>
        /\ node' = [node EXCEPT ![w] = allocated']
    BY Zenon DEF NewNode, Goto
  <1>3. pc'[w] = "set" /\ level'[w] = 0 /\ \A g \in Fibers \ {w} : Rests(g)
    BY Zenon, <1>1, <1>2 DEF Rests
  <1>4. ASSUME NEW n \in InList(0) PROVE key'[n] = key[n]
    <2>1. n \in Nodes /\ n \in Int /\ n <= allocated
      BY Zenon, Known, Sentinels
    <2>2. /\ allocated \in Int /\ allocated' = allocated + 1
          /\ key' = [key EXCEPT ![allocated + 1] = target[w]] /\ DOMAIN key = Nodes
      BY HeightAssumption DEF NewNode, IInv, TypeOK
    <2>3. n # allocated + 1
      BY <2>1, <2>2
    <2> QED
      BY Zenon, <2>1, <2>2, <2>3
  <1>5. Inserting(w) /\ Inserting(w)'
    BY <1>2, <1>3 DEF Inserting
  <1> QED
    BY Zenon, <1>2, <1>3, <1>4, <1>5, WriterSilent

\* The links of the new node are set before any leads to it.
LEMMA SetLinkMaps ==
  ASSUME IInv, IInv', OneWriter, NEW w \in Writers, SetLink(w)
  PROVE  Maps
  <1>1. w \in Fibers /\ DOMAIN pc = Fibers
    BY Zenon, Sentinels DEF IInv, TypeOK
  <1>2. PICK n, k, q : n = node[w] /\ k = level[w] /\ q = next[prev[w][k]][k]
    OBVIOUS
  <1>3. /\ pc[w] = "set" /\ pc' = [pc EXCEPT ![w] = "publish"]
        /\ next' = [next EXCEPT ![n][k] = q] /\ UNCHANGED <<key, op, target, x, level, node>>
    BY Zenon, <1>2 DEF SetLink, Goto
  <1>4. pc'[w] = "publish" /\ \A g \in Fibers \ {w} : Rests(g)
    BY Zenon, <1>1, <1>3 DEF Rests
  <1>5. n \in Nodes /\ k \in Levels /\ next[n][k] = Uninit
    <2>0. level[w] \in Levels /\ allocated \in 0 .. MaxNodes
      BY Zenon, <1>1 DEF IInv, TypeOK
    <2>1. level[w] \in Levels /\ level[w] \in Int /\ allocated \in 0 .. MaxNodes
      BY <2>0, HeightAssumption DEF Levels
    <2>2. n = allocated /\ allocated > 0
      BY Zenon, <1>2, <1>3 DEF IInv, WriterInv
    <2>3. next[allocated][k] # Uninit <=> k < level[w] \/ (k = level[w] /\ pc[w] = "publish")
      BY Zenon, <1>2, <1>3, <2>1 DEF IInv, WriterInv
    <2> QED
      BY <1>2, <1>3, <2>1, <2>2, <2>3, HeightAssumption DEF Nodes
  <1>6. ASSUME NEW m \in {head} \cup InList(0) PROVE next'[m][0] = next[m][0]
    <2>1. m \in Nodes \cup {head} /\ 0 \in Levels /\ (m # n \/ k # 0)
      BY Zenon, <1>5, Sentinels DEF InList
    <2>2. next \in [Nodes \cup {head} -> [Levels -> Nodes \cup {Null, Uninit}]]
      BY Zenon DEF IInv, TypeOK
    <2> QED
      BY <1>3, <1>5, <2>1, <2>2
  <1>7. Inserting(w)' <=> Inserting(w)
    BY <1>3, <1>4 DEF Inserting
  <1> QED
    BY Zenon, <1>3, <1>4, <1>6, <1>7, WriterSilent

\* Insert is called.
LEMMA InsertCallMaps ==
  ASSUME IInv, IInv', OneWriter, NEW w \in Writers, NEW k \in Keys, Insert(w, k)
  PROVE  Maps
  <1>1. /\ w \in Fibers /\ DOMAIN pc = Fibers /\ DOMAIN op = Fibers /\ DOMAIN target = Fibers
        /\ DOMAIN x = Fibers /\ DOMAIN level = Fibers
    BY Zenon, Sentinels DEF IInv, TypeOK
  <1>2. /\ pc[w] = "idle" /\ op' = [op EXCEPT ![w] = "Insert"]
        /\ target' = [target EXCEPT ![w] = k] /\ x' = [x EXCEPT ![w] = head]
        /\ level' = [level EXCEPT ![w] = max_height - 1] /\ pc' = [pc EXCEPT ![w] = "search"]
        /\ UNCHANGED <<shared, node>>
    BY Zenon DEF Insert, StartSearch, Goto
  <1>3. pc'[w] = "search" /\ target'[w] = k /\ \A g \in Fibers \ {w} : Rests(g)
    BY Zenon, <1>1, <1>2 DEF Rests
  <1>4. List' = List
    BY Zenon, <1>2, ListSame DEF shared
  <1>5. Wanted' = Wanted /\ Iter' = Iter
    BY Zenon, <1>3, WriterQuiet
  <1>6. Pending' = [Pending EXCEPT ![w] = k] /\ Pending[w] = Null
    <2>1. ~Inserting(w) /\ Inserting(w)'
      BY <1>2, <1>3 DEF Inserting
    <2>2. k = IF Inserting(w)' THEN target'[w] ELSE Null
      BY Zenon, <1>3, <2>1
    <2>3. Pending[w] = Null
      BY Zenon, <2>1 DEF Pending
    <2> QED
      BY Zenon, <2>2, <2>3, PendingSet
  <1>7. Ordered!InsertCall(w)
    BY Zenon, <1>4, <1>5, <1>6 DEF Ordered!InsertCall, List, Pending, Wanted, Iter
  <1> QED
    BY Zenon, <1>7 DEF Maps, Ordered!Next

\* The links above level 0 are shortcuts.
LEMMA ShortcutMaps ==
  ASSUME IInv, IInv', OneWriter, NEW w \in Writers, Publish(w), level[w] # 0
  PROVE  Maps
  <1>1. PICK n, k, p, q : At(w, n, k, p, q)
    BY Zenon DEF At
  <1>2. /\ pc[w] = "publish" /\ UNCHANGED <<key, target>>
        /\ \/ level' = [level EXCEPT ![w] = level[w] + 1] /\ pc' = [pc EXCEPT ![w] = "set"]
           \/ UNCHANGED level /\ pc' = [pc EXCEPT ![w] = "idle"]
    BY Zenon DEF Publish, Goto
  <1>3. Published(w, n, k, p)
    BY Zenon, <1>1, PublishForm
  <1>4. \A g \in Fibers \ {w} : Rests(g)
    BY Zenon, <1>3 DEF Published
  <1>5. ASSUME NEW m \in {head} \cup InList(0) PROVE next'[m][0] = next[m][0]
    <2>1. m \in Nodes \cup {head} /\ 0 \in Levels /\ 0 # k
      BY Zenon, <1>1, Sentinels DEF InList, At
    <2> QED
      BY Zenon, <1>3, <2>1 DEF Published
  <1>6. ~Inserting(w) /\ ~Inserting(w)'
    <2>1. w \in Fibers /\ DOMAIN pc = Fibers /\ DOMAIN level = Fibers /\ level[w] \in Levels
      BY Zenon, Sentinels DEF IInv, TypeOK
    <2>2. level[w] \in Int /\ level[w] > 0 /\ level[w] + 1 > 0
      BY <2>1 DEF Levels
    <2>3. CASE level' = [level EXCEPT ![w] = level[w] + 1] /\ pc' = [pc EXCEPT ![w] = "set"]
      <3>1. level'[w] = level[w] + 1 /\ pc'[w] = "set"
        BY Zenon, <2>1, <2>3
      <3> QED
        BY <1>2, <2>2, <3>1 DEF Inserting
    <2>4. CASE UNCHANGED level /\ pc' = [pc EXCEPT ![w] = "idle"]
      <3>1. pc'[w] = "idle"
        BY Zenon, <2>1, <2>4
      <3> QED
        BY <1>2, <2>2, <3>1 DEF Inserting
    <2> QED
      BY Zenon, <1>2, <2>3, <2>4
  <1> QED
    BY Zenon, <1>2, <1>4, <1>5, <1>6, WriterSilent

\* Insertion into a sequence, element by element.
Inserted(t, i, e) ==
  [j \in 1 .. Len(t) + 1 |-> IF j <= i THEN t[j] ELSE IF j = i + 1 THEN e ELSE t[j - 1]]

LEMMA InsertedForm ==
  ASSUME NEW S, NEW t \in Seq(S), NEW e \in S, NEW i \in 0 .. Len(t)
  PROVE  SubSeq(t, 1, i) \o <<e>> \o SubSeq(t, i + 1, Len(t)) = Inserted(t, i, e)
  <1>1. PICK a : a = SubSeq(t, 1, i)
    OBVIOUS
  <1>2. PICK b : b = SubSeq(t, i + 1, Len(t))
    OBVIOUS
  <1>3. a \in Seq(S) /\ Len(a) = i /\ \A j \in 1 .. i : a[j] = t[j]
    BY <1>1
  <1>4. /\ b \in Seq(S) /\ Len(b) = Len(t) - i
        /\ \A j \in 1 .. Len(t) - i : b[j] = t[i + j]
    BY <1>2
  <1>5. PICK c : c = a \o <<e>>
    OBVIOUS
  <1>6. /\ c \in Seq(S) /\ Len(c) = i + 1 /\ c[i + 1] = e
        /\ \A j \in 1 .. i : c[j] = t[j]
    <2>0. PICK f : f = <<e>>
      OBVIOUS
    <2>1. f = <<e>> /\ f \in Seq(S) /\ Len(f) = 1 /\ f[1] = e
      BY <2>0
    <2>2. c = a \o f
      BY Zenon, <1>5, <2>1
    <2>3. c \in Seq(S) /\ Len(c) = i + 1
      BY <1>3, <2>1, <2>2
    <2>4. c[i + 1] = f[i + 1 - i] /\ i + 1 - i = 1
      BY <1>3, <2>1, <2>2
    <2>5. \A j \in 1 .. i : c[j] = a[j]
      BY <1>3, <2>1, <2>2
    <2> QED
      BY Zenon, <1>3, <2>1, <2>3, <2>4, <2>5
  <1>7. PICK d : d = c \o b
    OBVIOUS
  <1>8. d \in Seq(S) /\ Len(d) = Len(t) + 1 /\ DOMAIN d = 1 .. Len(t) + 1
    BY <1>4, <1>6, <1>7
  <1>9. \A j \in 1 .. Len(t) + 1 :
          d[j] = IF j <= i THEN t[j] ELSE IF j = i + 1 THEN e ELSE t[j - 1]
    <2>1. ASSUME NEW j \in 1 .. Len(t) + 1, j <= i + 1 PROVE d[j] = c[j]
      BY <1>4, <1>6, <1>7, <2>1
    <2>2. ASSUME NEW j \in 1 .. Len(t) + 1, j > i + 1
          PROVE  d[j] = b[j - (i + 1)] /\ j - (i + 1) \in 1 .. Len(t) - i
      BY <1>4, <1>6, <1>7, <2>2
    <2>3. ASSUME NEW j \in 1 .. Len(t) + 1, j > i + 1 PROVE d[j] = t[j - 1]
      BY <1>4, <2>2, <2>3
    <2> QED
      BY <1>6, <2>1, <2>3
  <1>10. d = [j \in 1 .. Len(t) + 1 |-> d[j]]
    BY <1>8
  <1> QED
    BY <1>1, <1>2, <1>5, <1>7, <1>9, <1>10 DEF Inserted

\* What the publication on level 0 does to the chain s, where p is the i-th.
Entered(s, i, n, p, q) ==
  /\ IsChain(s, 0) /\ Stands(s, i, p) /\ q = next[p][0]
  /\ n \in Nodes /\ n # p /\ n \notin InList(0)
  /\ next[n][0] = q /\ next'[p][0] = n
  /\ \A m \in Nodes \cup {head} : m # p => next'[m][0] = next[m][0]

Relinked(s, i, n, u) ==
  \A j \in 1 .. Len(s) + 2 :
    next'[Pred(u, j)][0] = IF j <= i THEN next[Pred(s, j)][0]
                           ELSE IF j = i + 1 THEN n ELSE next[Pred(s, j - 1)][0]

LEMMA EnteredLinks ==
  ASSUME IInv, NEW s, NEW i, NEW n, NEW p, NEW q, Entered(s, i, n, p, q),
         NEW u, u = Inserted(s, i, n)
  PROVE  Relinked(s, i, n, u)
  <1> USE DEF Entered
  <1>1. /\ Follows(s, 0) /\ s \in Seq(Nodes) /\ Len(s) \in Nat /\ 0 \in Levels
        /\ \A j \in 1 .. Len(s) : s[j] = next[Pred(s, j)][0]
    BY Sentinels DEF IsChain, Follows
  <1>2. /\ i \in 0 .. Len(s) /\ p = Pred(s, i + 1) /\ (i = 0 <=> p = head)
        /\ i > 0 => p = s[i]
    BY DEF Stands
  <1>3. /\ \A j, m \in 1 .. Len(s) : s[j] = s[m] => j = m
        /\ \A j \in 1 .. Len(s) : s[j] \in Nodes /\ s[j] # head
    BY Zenon, <1>1, FollowsDistinct, FollowsLinked, Known
  <1>4. ASSUME NEW j \in 1 .. Len(s) + 1, j # i + 1
        PROVE  Pred(s, j) # p /\ Pred(s, j) \in Nodes \cup {head}
    <2>1. CASE j = 1
      <3>1. i # 0
        BY <1>2, <1>4, <2>1
      <3> QED
        BY Zenon, <1>2, <2>1, <3>1 DEF Pred
    <2>2. CASE j # 1
      <3>1. /\ j - 1 \in 1 .. Len(s) /\ j - 1 # i
            /\ i = 0 \/ (i > 0 /\ i \in 1 .. Len(s))
        BY <1>1, <1>2, <1>4, <2>2
      <3>2. Pred(s, j) = s[j - 1]
        BY Zenon, <2>2 DEF Pred
      <3> QED
        BY Zenon, <1>2, <1>3, <3>1, <3>2
    <2> QED
      BY Zenon, <2>1, <2>2
  <1>5. \A j \in 1 .. Len(s) + 1 :
          u[j] = IF j <= i THEN s[j] ELSE IF j = i + 1 THEN n ELSE s[j - 1]
    BY Zenon DEF Inserted
  <1>6. ASSUME NEW j \in 1 .. Len(s) + 2, j <= i + 1 PROVE Pred(u, j) = Pred(s, j)
    <2>1. j # 1 => j - 1 \in 1 .. Len(s) + 1 /\ j - 1 <= i
      BY <1>1, <1>2, <1>6
    <2>2. j # 1 => u[j - 1] = s[j - 1]
      BY Zenon, <1>5, <2>1
    <2> QED
      BY Zenon, <2>2 DEF Pred
  <1>7. ASSUME NEW j \in 1 .. Len(s) + 2, j <= i
        PROVE  next'[Pred(u, j)][0] = next[Pred(s, j)][0]
    <2>1. j <= i + 1 /\ j \in 1 .. Len(s) + 1 /\ j # i + 1
      BY <1>1, <1>2, <1>7
    <2> QED
      BY Zenon, <1>4, <1>6, <2>1
  <1>8. ASSUME NEW j \in 1 .. Len(s) + 2, j = i + 1 PROVE next'[Pred(u, j)][0] = n
    <2>1. j <= i + 1
      BY <1>2, <1>8
    <2> QED
      BY Zenon, <1>2, <1>6, <1>8, <2>1
  <1>9. ASSUME NEW j \in 1 .. Len(s) + 2, j = i + 2
        PROVE  next'[Pred(u, j)][0] = next[Pred(s, j - 1)][0]
    <2>1. j # 1 /\ j - 1 = i + 1 /\ ~(i + 1 <= i) /\ i + 1 \in 1 .. Len(s) + 1
      BY <1>1, <1>2, <1>9
    <2>2. Pred(u, j) = u[i + 1]
      BY Zenon, <2>1 DEF Pred
    <2>3. u[i + 1] = n
      BY Zenon, <1>5, <2>1
    <2>4. next'[n][0] = q
      BY Zenon
    <2> QED
      BY Zenon, <1>2, <2>1, <2>2, <2>3, <2>4
  <1>10. ASSUME NEW j \in 1 .. Len(s) + 2, j > i + 2
         PROVE  next'[Pred(u, j)][0] = next[Pred(s, j - 1)][0]
    <2>1. PICK h : /\ h = j - 1 /\ j # 1 /\ h # 1 /\ h \in 1 .. Len(s) + 1
                   /\ ~(h <= i) /\ h # i + 1
      BY <1>1, <1>2, <1>10
    <2>2. Pred(u, j) = u[h] /\ Pred(s, h) = s[h - 1]
      BY Zenon, <2>1 DEF Pred
    <2>3. u[h] = s[h - 1]
      BY Zenon, <1>5, <2>1
    <2>4. next'[Pred(s, h)][0] = next[Pred(s, h)][0]
      BY Zenon, <1>4, <2>1
    <2> QED
      BY Zenon, <2>1, <2>2, <2>3, <2>4
  <1>11. \A j \in 1 .. Len(s) + 2 : j <= i \/ j = i + 1 \/ j = i + 2 \/ j > i + 2
    BY <1>1, <1>2
  <1>12. /\ ~(i + 1 <= i) /\ ~(i + 2 <= i) /\ i + 2 # i + 1
         /\ \A j \in 1 .. Len(s) + 2 : j > i + 2 => ~(j <= i) /\ j # i + 1
    BY <1>1, <1>2
  <1> QED
    BY Zenon, <1>7, <1>8, <1>9, <1>10, <1>11, <1>12 DEF Relinked

\* The new chain is the old one with the node inserted.
LEMMA EnteredChain ==
  ASSUME IInv, IInv', NEW s, NEW i, NEW n, NEW p, NEW q, Entered(s, i, n, p, q)
  PROVE  Chain(0)' = Inserted(s, i, n)
  <1>1. PICK u : u = Inserted(s, i, n)
    OBVIOUS
  <1>2. /\ s \in Seq(Nodes) /\ Len(s) \in Nat /\ 0 \in Levels /\ n \in Nodes
        /\ i \in 0 .. Len(s)
        /\ \A j \in 1 .. Len(s) : s[j] = next[Pred(s, j)][0]
        /\ next[Pred(s, Len(s) + 1)][0] \notin Nodes
    BY Sentinels DEF IsChain, Follows, Entered, Stands
  <1>3. \A j \in 1 .. Len(s) + 2 :
           next'[Pred(u, j)][0] =
             IF j <= i THEN next[Pred(s, j)][0]
             ELSE IF j = i + 1 THEN n ELSE next[Pred(s, j - 1)][0]
    <2>1. Relinked(s, i, n, u)
      BY Zenon, <1>1, EnteredLinks
    <2> QED
      BY Zenon, <2>1 DEF Relinked
  <1>4. u \in Seq(Nodes) /\ Len(u) = Len(s) + 1
    <2>1. u \in [1 .. Len(s) + 1 -> Nodes]
      BY <1>1, <1>2 DEF Inserted
    <2> QED
      BY <1>2, <2>1
  <1>5. ASSUME NEW j \in 1 .. Len(u) PROVE u[j] = next'[Pred(u, j)][0]
    <2>1. j \in 1 .. Len(s) + 1 /\ j \in 1 .. Len(s) + 2
      BY <1>2, <1>4
    <2>2. u[j] = IF j <= i THEN s[j] ELSE IF j = i + 1 THEN n ELSE s[j - 1]
      BY Zenon, <1>1, <2>1 DEF Inserted
    <2>3. /\ j <= i => j \in 1 .. Len(s)
          /\ ~(j <= i) /\ j # i + 1 => j - 1 \in 1 .. Len(s)
      BY <1>2, <2>1
    <2>4. /\ j <= i => s[j] = next[Pred(s, j)][0]
          /\ ~(j <= i) /\ j # i + 1 => s[j - 1] = next[Pred(s, j - 1)][0]
      BY Zenon, <1>2, <2>3
    <2> QED
      BY Zenon, <1>3, <2>1, <2>2, <2>4
  <1>6. next'[Pred(u, Len(u) + 1)][0] \notin Nodes
    <2>1. PICK j : /\ j = Len(u) + 1 /\ j \in 1 .. Len(s) + 2 /\ ~(j <= i) /\ j # i + 1
                   /\ j - 1 = Len(s) + 1
      BY <1>2, <1>4
    <2> QED
      BY Zenon, <1>2, <1>3, <2>1
  <1>7. IsChain(u, 0)'
    BY Zenon, <1>4, <1>5, <1>6 DEF IsChain, Follows, Pred
  <1>8. PICK c : c = Chain(0)'
    OBVIOUS
  <1>9. IsChain(c, 0)'
    BY Zenon, <1>2, <1>8, ChainIsNext
  <1> QED
    BY Zenon, <1>1, <1>7, <1>8, <1>9, ChainUniqueNext

\* The link of level 0 is stored: the node enters the list, where it belongs.
LEMMA PublishMaps ==
  ASSUME IInv, IInv', OneWriter, NEW w \in Writers, Publish(w), level[w] = 0
  PROVE  Maps
  <1>1. PICK n, p, q : At(w, n, 0, p, q)
    BY Zenon DEF At
  <1>2. /\ pc[w] = "publish" /\ UNCHANGED <<key, target>>
        /\ \/ level' = [level EXCEPT ![w] = level[w] + 1] /\ pc' = [pc EXCEPT ![w] = "set"]
           \/ UNCHANGED level /\ pc' = [pc EXCEPT ![w] = "idle"]
    BY Zenon DEF Publish, Goto
  <1>3. Between(n, 0, p, q) /\ key[n] = target[w] /\ next[n][0] = q
    BY Zenon, <1>1, <1>2, BetweenFacts
  <1>4. /\ n \in Nodes /\ target[w] \in Keys /\ n \notin InList(0) /\ 0 \in Levels
        /\ p \in {head} \cup InList(0) /\ n # p /\ q = next[p][0]
        /\ q = Null \/ ~Before(key[q], target[w])
    BY Zenon, <1>3 DEF Between
  <1>5. Published(w, n, 0, p)
    BY Zenon, <1>1, PublishForm
  <1>6. PICK s : s = Chain(0)
    OBVIOUS
  <1>7. /\ IsChain(s, 0) /\ s \in Seq(Nodes) /\ Len(s) \in Nat /\ DOMAIN List = 1 .. Len(s)
        /\ \A j \in 1 .. Len(s) :
             s[j] \in InList(0) /\ List[j] = [id |-> s[j], key |-> key[s[j]]]
    BY Zenon, <1>6, ListForm
  <1>8. PICK i \in 0 .. Len(s) : Stands(s, i, p)
    BY Zenon, <1>4, <1>7, ChainPosition
  <1>9. Entered(s, i, n, p, q)
    BY Zenon, <1>3, <1>4, <1>5, <1>7, <1>8 DEF Entered, Published
  <1>10. Chain(0)' = Inserted(s, i, n)
    BY Zenon, <1>9, EnteredChain
  <1>11. Ordered!Rank(target[w]) = i
    <2>1. p = head \/ Before(key[p], target[w])
      <3>1. height[w] \in 1 .. kMaxHeight
        BY Zenon DEF IInv, TypeOK
      <3>2. 0 \in 0 .. height[w] - 1
        BY <3>1, HeightAssumption
      <3>3. Spot(w, 0)
        BY Zenon, <1>2, <3>2 DEF IInv, WriterInv
      <3> QED
        BY Zenon, <1>1, <3>3 DEF Spot, At
    <2>2. i = 0 \/ i > 0
      BY <1>7
    <2>3. i = 0 \/ Before(key[s[i]], target[w])
      BY Zenon, <1>8, <2>1, <2>2 DEF Stands
    <2>4. i = Len(s) \/ (s[i + 1] = q /\ i + 1 \in 1 .. Len(s))
      BY Zenon, <1>4, <1>8 DEF Stands
    <2>5. i = Len(s) \/ ~Before(key[s[i + 1]], target[w])
      <3>1. i = Len(s) \/ q \in InList(0)
        BY Zenon, <1>7, <2>4
      <3>2. i = Len(s) \/ q # Null
        BY Zenon, <3>1, SentinelAssumption DEF InList
      <3> QED
        BY Zenon, <1>4, <2>4, <3>2
    <2> QED
      BY Zenon, <1>4, <1>6, <2>3, <2>5, RankIs
  <1>12. PICK e, t : e = [id |-> n, key |-> target[w]] /\ t = List
    OBVIOUS
  <1>13. List' = Inserted(t, i, e)
    <2>1. Len(t) = Len(s)
      BY Zenon, <1>6, <1>12, IdAtIs
    <2>2. PICK u : u = Inserted(s, i, n)
      OBVIOUS
    <2>3. /\ DOMAIN u = 1 .. Len(s) + 1
          /\ \A j \in 1 .. Len(s) + 1 :
               u[j] = IF j <= i THEN s[j] ELSE IF j = i + 1 THEN n ELSE s[j - 1]
      BY Zenon, <2>2 DEF Inserted
    <2>4. List' = [j \in 1 .. Len(s) + 1 |-> [id |-> u[j], key |-> key[u[j]]]]
      BY Zenon, <1>2, <1>10, <2>2, <2>3 DEF List
    <2>5. ASSUME NEW j \in 1 .. Len(s) + 1
          PROVE  [id |-> u[j], key |-> key[u[j]]]
                   = IF j <= i THEN t[j] ELSE IF j = i + 1 THEN e ELSE t[j - 1]
      <3>1. /\ j <= i => j \in 1 .. Len(s)
            /\ ~(j <= i) /\ j # i + 1 => j - 1 \in 1 .. Len(s)
        BY <1>7
      <3> QED
        BY Zenon, <1>3, <1>7, <1>12, <2>3, <3>1
    <2> QED
      BY Zenon, <2>1, <2>4, <2>5 DEF Inserted
  <1>14. Inserted(t, i, e) = Ordered!InsertAfter(i, e)
    <2>1. \A j \in 1 .. Len(s) : key[s[j]] \in Keys /\ s[j] \in Nodes
      BY Zenon, <1>4, <1>7, Known
    <2>2. PICK S : S = [id : Nodes, key : Keys]
      OBVIOUS
    <2>3. e \in S /\ \A j \in 1 .. Len(s) : t[j] \in S
      BY <1>4, <1>7, <1>12, <2>1, <2>2
    <2>4. t = [j \in 1 .. Len(s) |-> t[j]] /\ Len(t) = Len(s)
      BY Zenon, <1>6, <1>7, <1>12, IdAtIs DEF List
    <2>5. t \in Seq(S)
      BY <1>7, <2>3, <2>4
    <2>6. SubSeq(t, 1, i) \o <<e>> \o SubSeq(t, i + 1, Len(t)) = Inserted(t, i, e)
      BY Zenon, <2>3, <2>4, <2>5, InsertedForm
    <2>7. Ordered!InsertAfter(i, e) =
            SubSeq(List, 1, i) \o <<e>> \o SubSeq(List, i + 1, Len(List))
      BY Zenon DEF Ordered!InsertAfter, List
    <2> QED
      BY Zenon, <1>12, <2>6, <2>7
  <1>15. Pending[w] = target[w] /\ Pending' = [Pending EXCEPT ![w] = Null]
    <2>1. w \in Fibers /\ DOMAIN pc = Fibers /\ DOMAIN level = Fibers
      BY Zenon, Sentinels DEF IInv, TypeOK
    <2>2. pc'[w] = "idle" \/ (pc'[w] = "set" /\ level'[w] = 0 + 1)
      BY Zenon, <1>2, <2>1
    <2>3. Inserting(w) /\ ~Inserting(w)'
      BY <1>2, <2>2 DEF Inserting
    <2>4. Pending[w] = target[w]
      BY Zenon, <2>3 DEF Pending
    <2>5. Null = IF Inserting(w)' THEN target'[w] ELSE Null
      BY Zenon, <2>3
    <2> QED
      BY Zenon, <2>4, <2>5, PendingSet
  <1>16. Wanted' = Wanted /\ Iter' = Iter
    BY Zenon, <1>5, WriterQuiet DEF Published
  <1>17. \A j \in DOMAIN List : List[j].id # n
    <2>1. \A j \in 1 .. Len(s) : List[j].id = s[j]
      BY Zenon, <1>6, ListForm
    <2> QED
      BY Zenon, <1>4, <1>7, <2>1
  <1>18. Pending[w] # Null
    BY Zenon, <1>4, <1>15, SentinelAssumption
  <1>19. List' = Ordered!InsertAfter(Ordered!Rank(Pending[w]), [id |-> n, key |-> Pending[w]])
    BY Zenon, <1>11, <1>12, <1>13, <1>14, <1>15
  <1>20. Ordered!Insert(w)
    BY Zenon, <1>4, <1>15, <1>16, <1>17, <1>18, <1>19
       DEF Ordered!Insert, List, Pending, Wanted, Iter
  <1> QED
    BY Zenon, <1>20 DEF Maps, Ordered!Next

(***************************************************************************)
(* SkipList implements OrderedList.                                        *)
(***************************************************************************)
LEMMA InitMaps ==
  ASSUME OneWriter, Init
  PROVE  Ordered!Init
  <1>1. IInv /\ 0 \in Levels
    BY Zenon, InitIInv, Sentinels
  <1>2. PICK s : s = Chain(0)
    OBVIOUS
  <1>3. /\ s \in Seq(Nodes) /\ Len(s) \in Nat
        /\ \A j \in 1 .. Len(s) : s[j] = next[Pred(s, j)][0]
    BY Zenon, <1>1, <1>2, ListForm DEF Follows
  <1>4. s = <<>>
    <2>1. next[head][0] = Null
      BY Zenon, <1>1 DEF Init
    <2>2. ASSUME Len(s) # 0 PROVE FALSE
      <3>1. 1 \in 1 .. Len(s) /\ s[1] \in Nodes
        BY <1>3, <2>2
      <3>2. s[1] = Null
        BY Zenon, <1>3, <2>1, <3>1 DEF Pred
      <3> QED
        BY Zenon, <3>1, <3>2, SentinelAssumption
    <2> QED
      BY <1>3, <2>2
  <1>5. List = <<>>
    <2>1. List = [i \in DOMAIN s |-> [id |-> s[i], key |-> key[s[i]]]]
      BY Zenon, <1>2 DEF List
    <2> QED
      BY <1>4, <2>1
  <1>6. Pending = [w \in Writers |-> Null]
    <2>1. \A w \in Writers : ~Inserting(w)
      BY Zenon, Sentinels DEF Init, Inserting
    <2> QED
      BY Zenon, <2>1 DEF Pending
  <1>7. Wanted = [r \in Readers |-> Null] /\ Iter = [r \in Readers |-> Null]
    <2>1. \A r \in Readers : pc[r] # "search" /\ node[r] = Null
      BY Sentinels DEF Init
    <2> QED
      BY Zenon, <2>1 DEF Wanted, Iter
  <1> QED
    BY Zenon, <1>5, <1>6, <1>7 DEF Ordered!Init, List, Pending, Wanted, Iter

LEMMA NextMaps ==
  ASSUME IInv, IInv', OneWriter, Next
  PROVE  Maps
  <1>1. ASSUME NEW f \in Fibers, Search(f) PROVE Maps
    <2>1. CASE f \in Writers
      BY Zenon, <1>1, <2>1, PrepareMaps
    <2>2. CASE f \in Readers
      BY Zenon, <1>1, <2>2, ReaderMoveMaps, ReturnMaps DEF Search
    <2> QED
      BY Zenon, <2>1, <2>2 DEF Fibers
  <1>2. ASSUME NEW w \in Writers, Link(w) PROVE Maps
    BY Zenon, <1>2, PrepareMaps, NewNodeMaps, SetLinkMaps, ShortcutMaps, PublishMaps
       DEF Link
  <1>3. ASSUME NEW w \in Writers, NEW k \in Keys, Insert(w, k) PROVE Maps
    BY Zenon, <1>3, InsertCallMaps
  <1>4. ASSUME NEW r \in Readers,
               \/ \E k \in Keys : Seek(r, k) \/ Contains(r, k)
               \/ SeekToLast(r) \/ Prev(r)
        PROVE  Maps
    BY Zenon, <1>4, CallMaps
  <1>5. ASSUME NEW r \in Readers, SeekToFirst(r) \/ IterNext(r) PROVE Maps
    BY Zenon, <1>5, IterateMaps
  <1> QED
    BY Zenon, <1>1, <1>2, <1>3, <1>4, <1>5 DEF Next

\* With one writer, SkipList implements OrderedList: although readers take no lock
\* and an Insert is many stores, each operation of skip_list.h takes effect in one
\* step between its call and its return, an Insert when it stores the link of level
\* 0 and a search at its last load.
THEOREM SkipListIsOrderedList ==
  ASSUME OneWriter
  PROVE  Spec => LinearizableList
  <1>1. Init => Ordered!Init
    BY InitMaps
  <1>2. ASSUME IInv, IInv', [Next]_vars PROVE [Ordered!Next]_(Ordered!vars)
    <2>1. CASE Next
      BY Zenon, <1>2, <2>1, NextMaps DEF Maps
    <2>2. CASE UNCHANGED vars
      <3>1. UNCHANGED <<next, key, pc, op, target, level, node>>
        BY Zenon, <2>2 DEF vars, shared
      <3>2. List' = List
        BY Zenon, <1>2, <3>1, ListSame
      <3>3. Pending' = Pending /\ Wanted' = Wanted /\ Iter' = Iter
        BY Zenon, <3>1 DEF Pending, Inserting, Wanted, Iter
      <3> QED
        BY Zenon, <3>2, <3>3 DEF Ordered!vars, List, Pending, Wanted, Iter
    <2> QED
      BY Zenon, <1>2, <2>1, <2>2
  <1>3. Spec => []IInv
    BY Invariant
  <1> QED
    BY <1>1, <1>2, <1>3, PTL DEF Spec, LinearizableList, Ordered!Spec

(***************************************************************************)
(* What users of the list rely on.                                         *)
(***************************************************************************)
\* A node that is in the list stays there with its key.
Grows == \A n \in InList(0) : n \in InList(0)' /\ key'[n] = key[n]

\* Fiber f takes a step that stores no link and no key.
Quiet(f) ==
  /\ UNCHANGED <<next, key>> /\ \A g \in Fibers \ {f} : Rests(g)
  /\ f \in Writers => pc[f] # "publish" /\ pc'[f] # "publish"

LEMMA QuietGrows ==
  ASSUME OneWriter, NEW f \in Fibers, Quiet(f)
  PROVE  Grows /\ InList(0)' = InList(0)
  <1>1. ASSUME NEW w \in Writers
        PROVE  /\ pc'[w] = "publish" <=> pc[w] = "publish"
               /\ pc[w] = "publish" => level'[w] = level[w] /\ node'[w] = node[w]
    BY Zenon DEF Quiet, Rests, Fibers
  <1>2. InList(0)' = InList(0)
    BY Zenon, <1>1, ListStays DEF Quiet
  <1> QED
    BY Zenon, <1>2 DEF Grows, Quiet

LEMMA SearchQuiet ==
  ASSUME IInv, NEW f \in Fibers, Search(f)
  PROVE  Quiet(f)
  <1>1. DOMAIN pc = Fibers /\ DOMAIN x = Fibers /\ DOMAIN level = Fibers /\ DOMAIN node = Fibers
    BY Zenon DEF IInv, TypeOK
  <1>2. pc[f] = "search" /\ UNCHANGED <<next, key, op, target>>
    BY Zenon DEF Search, Right, Down, EndSearch, shared
  <1>3. CASE Right(f)
    BY <1>1, <1>2, <1>3 DEF Right, Quiet, Rests
  <1>4. CASE Down(f)
    BY <1>1, <1>2, <1>4 DEF Down, Quiet, Rests
  <1>5. CASE EndSearch(f)
    <2>1. PICK g \in {"height", "idle"} : pc' = [pc EXCEPT ![f] = g]
      BY Zenon, <1>5 DEF EndSearch, Goto
    <2>2. UNCHANGED <<x, level>> /\ \A h \in Fibers \ {f} : node'[h] = node[h]
      BY Zenon, <1>1, <1>5 DEF EndSearch
    <2>3. pc'[f] # "publish" /\ \A h \in Fibers \ {f} : pc'[h] = pc[h]
      BY <1>1, <2>1
    <2>4. pc[f] # "publish"
      BY <1>2
    <2> QED
      BY Zenon, <1>2, <2>2, <2>3, <2>4 DEF Quiet, Rests
  <1> QED
    BY Zenon, <1>3, <1>4, <1>5 DEF Search

\* A step of the writer inside Insert: a node with its key enters the list, before
\* the Insert ends.
Progress(w) ==
  /\ target'[w] = target[w] /\ \A g \in Fibers \ {w} : Rests(g)
  /\ \A n \in InList(0)' : n \in InList(0) \/ key'[n] = target[w]
  /\ ~Inserting(w) => ~Inserting(w)'
  /\ Inserting(w) => Inserting(w)' \/ \E n \in InList(0)' : key'[n] = target[w]

LEMMA WriterGrows ==
  ASSUME IInv, IInv', OneWriter, NEW w \in Writers, Search(w) \/ Link(w)
  PROVE  Grows /\ Progress(w)
  <1>1. w \in Fibers /\ w \notin Readers /\ DOMAIN pc = Fibers /\ DOMAIN level = Fibers
    BY Zenon, Sentinels DEF IInv, TypeOK
  <1>2. UNCHANGED target
    BY Zenon DEF Search, Link, Right, Down, EndSearch, RandomHeight, Fill, Raise, NewNode,
                 SetLink, Publish
  <1>3. ASSUME Quiet(w), Inserting(w)' <=> Inserting(w)
        PROVE  Grows /\ Progress(w)
    BY Zenon, <1>1, <1>2, <1>3, QuietGrows DEF Progress, Quiet
  <1>4. CASE Search(w)
    <2>1. pc[w] = "search" /\ (pc'[w] = "search" \/ pc'[w] = "height")
      BY Zenon, <1>1, <1>4 DEF Search, Right, Down, EndSearch, Goto
    <2>2. Inserting(w)' /\ Inserting(w)
      BY <2>1 DEF Inserting
    <2> QED
      BY Zenon, <1>1, <1>3, <1>4, <2>2, SearchQuiet
  <1>5. CASE RandomHeight(w) \/ Fill(w) \/ Raise(w)
    <2>1. PICK g \in {"fill", "new", "raise"} : pc' = [pc EXCEPT ![w] = g]
      BY Zenon, <1>5 DEF RandomHeight, Fill, Raise, Goto
    <2>2. UNCHANGED <<next, key, op, x, level, node>> /\ pc[w] \in {"height", "fill", "raise"}
      BY Zenon, <1>5 DEF RandomHeight, Fill, Raise, shared
    <2>3. pc'[w] = g /\ \A f \in Fibers \ {w} : pc'[f] = pc[f]
      BY Zenon, <1>1, <2>1
    <2>4. Inserting(w)' /\ Inserting(w) /\ pc[w] # "publish" /\ pc'[w] # "publish"
      BY <2>1, <2>2, <2>3 DEF Inserting
    <2>5. Quiet(w)
      BY Zenon, <1>2, <2>2, <2>3, <2>4 DEF Quiet, Rests
    <2> QED
      BY Zenon, <1>3, <2>4, <2>5
  <1>6. CASE NewNode(w)
    <2>1. /\ pc[w] = "new" /\ pc' = [pc EXCEPT ![w] = "set"] /\ UNCHANGED <<next, op, x>>
          /\ node' = [node EXCEPT ![w] = allocated'] /\ level' = [level EXCEPT ![w] = 0]
          /\ key' = [key EXCEPT ![allocated'] = target[w]] /\ allocated' = allocated + 1
      BY Zenon, <1>6 DEF NewNode, Goto
    <2>2. pc'[w] = "set" /\ level'[w] = 0 /\ \A g \in Fibers \ {w} : Rests(g)
      BY Zenon, <1>1, <1>2, <2>1 DEF Rests, IInv, TypeOK
    <2>3. \A l : InList(l)' = InList(l)
      <3>1. \A v \in Writers : v = w /\ pc[v] # "publish" /\ pc'[v] # "publish"
        BY <2>1, <2>2 DEF OneWriter
      <3> QED
        BY Zenon, <2>1, <3>1, ListStays
    <2>4. ASSUME NEW n \in InList(0) PROVE key'[n] = key[n]
      <3>1. n \in Nodes /\ n \in Int /\ n <= allocated
        BY Zenon, Known, Sentinels
      <3>2. n # allocated'
        BY <2>1, <3>1, HeightAssumption DEF IInv, TypeOK
      <3> QED
        BY Zenon, <2>1, <3>1, <3>2 DEF IInv, TypeOK
    <2>5. Inserting(w)' /\ Inserting(w)
      BY <2>1, <2>2 DEF Inserting
    <2> QED
      BY Zenon, <1>2, <2>2, <2>3, <2>4, <2>5 DEF Grows, Progress
  <1>7. CASE SetLink(w)
    <2>1. PICK n, k, q : n = node[w] /\ k = level[w] /\ q = next[prev[w][k]][k]
      OBVIOUS
    <2>2. /\ pc[w] = "set" /\ pc' = [pc EXCEPT ![w] = "publish"]
          /\ next' = [next EXCEPT ![n][k] = q] /\ UNCHANGED <<key, op, x, level, node>>
      BY Zenon, <1>7, <2>1 DEF SetLink, Goto
    <2>3. pc'[w] = "publish" /\ \A g \in Fibers \ {w} : Rests(g)
      BY Zenon, <1>1, <1>2, <2>2 DEF Rests
    <2>4. n \in Nodes /\ k \in Levels /\ next[n][k] = Uninit
      <3>0. level[w] \in Levels /\ allocated \in 0 .. MaxNodes
        BY Zenon, <1>1 DEF IInv, TypeOK
      <3>1. level[w] \in Levels /\ level[w] \in Int /\ allocated \in 0 .. MaxNodes
        BY <3>0, HeightAssumption DEF Levels
      <3>2. n = allocated /\ allocated > 0
        BY Zenon, <2>1, <2>2 DEF IInv, WriterInv
      <3>3. next[allocated][k] # Uninit <=> k < level[w] \/ (k = level[w] /\ pc[w] = "publish")
        BY Zenon, <2>1, <2>2, <3>1 DEF IInv, WriterInv
      <3> QED
        BY <2>1, <2>2, <3>1, <3>2, <3>3, HeightAssumption DEF Nodes
    <2>5. ASSUME NEW m \in InList(0) PROVE m \in InList(0)'
      <3>1. m \in Nodes /\ 0 \in Levels /\ (m # n \/ k # 0) /\ next[m][0] # Uninit
        BY Zenon, <2>4, Sentinels DEF InList
      <3>2. next \in [Nodes \cup {head} -> [Levels -> Nodes \cup {Null, Uninit}]]
        BY Zenon DEF IInv, TypeOK
      <3>3. next'[m][0] = next[m][0]
        BY <2>2, <2>4, <3>1, <3>2
      <3>4. \A v \in Writers : v = w
        BY Zenon DEF OneWriter
      <3> QED
        BY Zenon, <2>1, <2>2, <3>1, <3>3, <3>4 DEF InList
    <2>6. ASSUME NEW m \in InList(0)' PROVE m \in InList(0)
      <3>1. m \in Nodes /\ 0 \in Levels /\ (m # n \/ k # 0) /\ next'[m][0] # Uninit
        BY Zenon, <2>1, <2>2, <2>3, Sentinels DEF InList
      <3>2. next \in [Nodes \cup {head} -> [Levels -> Nodes \cup {Null, Uninit}]]
        BY Zenon DEF IInv, TypeOK
      <3>3. next'[m][0] = next[m][0]
        BY <2>2, <2>4, <3>1, <3>2
      <3>4. \A v \in Writers : pc[v] # "publish"
        BY <2>2 DEF OneWriter
      <3> QED
        BY Zenon, <3>1, <3>3, <3>4 DEF InList
    <2>7. Inserting(w)' <=> Inserting(w)
      BY <2>2, <2>3 DEF Inserting
    <2> QED
      BY Zenon, <1>2, <2>2, <2>3, <2>5, <2>6, <2>7 DEF Grows, Progress
  <1>8. CASE Publish(w)
    <2>1. PICK n, k, p, q : At(w, n, k, p, q)
      BY Zenon DEF At
    <2>2. /\ pc[w] = "publish" /\ UNCHANGED key
          /\ \/ level' = [level EXCEPT ![w] = level[w] + 1] /\ pc' = [pc EXCEPT ![w] = "set"]
             \/ UNCHANGED level /\ pc' = [pc EXCEPT ![w] = "idle"]
      BY Zenon, <1>8 DEF Publish, Goto
    <2>3. Published(w, n, k, p) /\ key[n] = target[w] /\ k \in Levels /\ k = level[w]
      <3>1. Published(w, n, k, p)
        BY Zenon, <1>8, <2>1, PublishForm
      <3>2. Between(n, k, p, q) /\ key[n] = target[w]
        BY Zenon, <2>1, <2>2, BetweenFacts
      <3>3. k = level[w]
        BY Zenon, <2>1 DEF At
      <3> QED
        BY Zenon, <3>1, <3>2, <3>3 DEF Between
    <2>4. /\ InList(k)' = InList(k) \cup {n} /\ \A l \in Levels \ {k} : InList(l)' = InList(l)
          /\ \A g \in Fibers \ {w} : Rests(g)
      BY Zenon, <2>3 DEF Published
    <2>5. Grows
      <3>1. InList(0) \subseteq InList(0)'
        BY Zenon, <2>4, Sentinels
      <3> QED
        BY Zenon, <2>2, <3>1 DEF Grows
    <2>6. ~Inserting(w)'
      <3>1. level[w] + 1 > 0 /\ (pc'[w] = "idle" \/ (pc'[w] = "set" /\ level'[w] = level[w] + 1))
        BY <1>1, <2>2, <2>3 DEF Levels
      <3> QED
        BY <3>1 DEF Inserting
    <2>7. ASSUME Inserting(w) PROVE \E m \in InList(0)' : key'[m] = target[w]
      <3>1. k = 0
        BY <2>2, <2>3, <2>7 DEF Inserting, Levels
      <3> QED
        BY Zenon, <2>2, <2>3, <2>4, <3>1
    <2>8. \A m \in InList(0)' : m \in InList(0) \/ key'[m] = target[w]
      BY Zenon, <2>2, <2>3, <2>4, Sentinels
    <2> QED
      BY Zenon, <1>2, <2>4, <2>5, <2>6, <2>7, <2>8 DEF Progress
  <1> QED
    BY Zenon, <1>4, <1>5, <1>6, <1>7, <1>8 DEF Link

\* From q the iterator still comes to m.
Leads(q, m) == q # Null /\ (q = m \/ Ahead(q, m))

\* Seek ends at the first node that is not before its target.
Lands(r, q) ==
  /\ q = Null \/ (q \in InList(0) /\ ~Before(key[q], target[r]))
  /\ \A m \in InList(0) : ~Before(key[m], target[r]) => Leads(q, m)

LEMMA SeekLands ==
  ASSUME IInv, NEW r \in Readers, Search(r), op[r] = "Seek"
  PROVE  /\ UNCHANGED <<op, target>>
         /\ UNCHANGED <<pc, node>> \/ (pc'[r] = "idle" /\ Lands(r, node'[r]))
  <1>1. CASE Right(r) \/ Down(r)
    BY Zenon, <1>1 DEF Right, Down
  <1>2. CASE EndSearch(r)
    <2>1. /\ r \in Fibers /\ r \notin Writers /\ DOMAIN pc = Fibers /\ DOMAIN node = Fibers
          /\ 0 \in Levels
      BY Zenon, Sentinels DEF IInv, TypeOK
    <2>2. PICK q : q = next[x[r]][0]
      OBVIOUS
    <2>3. /\ pc[r] = "search" /\ level[r] = 0 /\ ~GoesRight(r, q)
          /\ pc' = [pc EXCEPT ![r] = "idle"] /\ node' = [node EXCEPT ![r] = Found(r, q)]
          /\ UNCHANGED <<op, target>>
      BY Zenon, <1>2, <2>1, <2>2 DEF EndSearch, Goto
    <2>4. pc'[r] = "idle" /\ node'[r] = q
      BY Zenon, <2>1, <2>3 DEF Found
    <2>5. /\ x[r] \in {head} \cup InList(0) /\ target[r] \in Keys
          /\ x[r] = head \/ Before(key[x[r]], target[r])
      <3>1. Standing(r)
        BY Zenon, <2>3 DEF IInv, ReaderInv
      <3>2. op[r] # "SeekToLast"
        OBVIOUS
      <3> QED
        BY Zenon, <2>3, <3>1, <3>2 DEF Standing
    <2>6. /\ q = Null \/ q \in InList(0)
          /\ \A m \in InList(0) : Ahead(x[r], m) => Leads(q, m)
      BY Zenon, <2>1, <2>2, <2>5 DEF IInv, Links, Leads
    <2>7. q = Null \/ ~Before(key[q], target[r])
      <3>1. op[r] # "SeekToLast"
        OBVIOUS
      <3>2. q = Null \/ q # Uninit
        BY Zenon, <2>6, Sentinels DEF InList
      <3> QED
        BY Zenon, <2>3, <3>1, <3>2 DEF GoesRight
    <2>8. ASSUME NEW m \in InList(0), ~Before(key[m], target[r]) PROVE Ahead(x[r], m)
      <3>1. key[m] \in Keys /\ \A n \in InList(0) : key[n] \in Keys
        BY Zenon, <2>1, Known
      <3>2. x[r] = head \/ Before(key[x[r]], key[m])
        BY Zenon, <2>5, <2>8, <3>1, OrderAssumption
      <3> QED
        BY Zenon, <3>2 DEF Ahead
    <2>9. Lands(r, q)
      BY Zenon, <2>6, <2>7, <2>8 DEF Lands
    <2> QED
      BY Zenon, <2>3, <2>4, <2>9
  <1> QED
    BY Zenon, <1>1, <1>2 DEF Search

\* Next goes to the node that follows, and passes none.
Moves(n, q) ==
  /\ q = Null \/ (q \in InList(0) /\ Ahead(n, q))
  /\ \A m \in InList(0) : Ahead(n, m) => Leads(q, m)

LEMMA NextMoves ==
  ASSUME IInv, NEW r \in Readers, IterNext(r)
  PROVE  /\ UNCHANGED <<pc, op, target>> /\ Quiet(r)
         /\ node[r] \in InList(0) /\ Moves(node[r], node'[r])
  <1>1. r \in Fibers /\ r \notin Writers /\ DOMAIN node = Fibers /\ 0 \in Levels
    BY Zenon, Sentinels DEF IInv, TypeOK
  <1>2. /\ node[r] \in Nodes /\ node' = [node EXCEPT ![r] = next[node[r]][0]]
        /\ UNCHANGED <<pc, op, target, x, level, next, key>>
    BY Zenon DEF IterNext, shared
  <1>3. node'[r] = next[node[r]][0] /\ \A g \in Fibers \ {r} : Rests(g)
    BY Zenon, <1>1, <1>2 DEF Rests
  <1>4. node[r] \in InList(0)
    BY Zenon, <1>2, SentinelAssumption DEF IInv, ReaderInv
  <1>5. Moves(node[r], next[node[r]][0])
    BY Zenon, <1>1, <1>4 DEF IInv, Links, Moves, Leads
  <1> QED
    BY Zenon, <1>1, <1>2, <1>3, <1>4, <1>5 DEF Quiet

\* A search or an Insert begins.
LEMMA CallQuiet ==
  ASSUME IInv, NEW f \in Fibers, NEW o, NEW k, NEW h, StartSearch(f, o, k, h)
  PROVE  /\ Quiet(f) /\ pc[f] = "idle" /\ pc'[f] = "search" /\ op'[f] = o /\ target'[f] = k
         /\ UNCHANGED node
  <1>1. /\ pc[f] = "idle" /\ op' = [op EXCEPT ![f] = o]
        /\ target' = [target EXCEPT ![f] = k] /\ x' = [x EXCEPT ![f] = head]
        /\ level' = [level EXCEPT ![f] = h - 1] /\ pc' = [pc EXCEPT ![f] = "search"]
        /\ UNCHANGED <<next, key, node>>
    BY Zenon DEF StartSearch, Goto, shared
  <1>2. /\ DOMAIN op = Fibers /\ DOMAIN target = Fibers
        /\ DOMAIN x = Fibers /\ DOMAIN level = Fibers /\ DOMAIN pc = Fibers
    BY Zenon DEF IInv, TypeOK
  <1>3. pc'[f] = "search" /\ op'[f] = o /\ target'[f] = k /\ \A g \in Fibers \ {f} : Rests(g)
    BY Zenon, <1>1, <1>2 DEF Rests
  <1>4. pc[f] # "publish" /\ pc'[f] # "publish"
    BY <1>1, <1>3
  <1> QED
    BY Zenon, <1>1, <1>3, <1>4 DEF Quiet
=============================================================================
