--------------------------- MODULE NodeMemoryProofs ---------------------------
(***************************************************************************)
(* Theorems about the nodes' memory and the draws of their heights, for    *)
(* any number of lists, any block, node and link size, any modulus and     *)
(* multiplier that satisfy the assumptions, and no bound on the blocks.    *)
(* Those about the arena suppose that one list allocates at a time         *)
(* (MaxCallers = 1): with more, PiecesDisjoint is violated.                *)
(***************************************************************************)
EXTENDS NodeMemory, FiniteSetTheorems, TLAPS

(***************************************************************************)
(* Division.                                                               *)
(***************************************************************************)
\* Quotient and rest, as slop and Next compute them.
LEMMA DivMod ==
  ASSUME NEW x \in Nat, NEW d \in Nat \ {0}
  PROVE  /\ x \div d \in Nat
         /\ x % d \in 0 .. d - 1
         /\ x = (d * (x \div d)) + (x % d)
  OBVIOUS

\* The rest is the only one.
LEMMA ModUnique ==
  ASSUME NEW d \in Nat \ {0}, NEW q \in Nat, NEW r \in 0 .. d - 1
  PROVE  ((d * q) + r) % d = r
  OBVIOUS

\* Aligned sizes have an aligned sum.
LEMMA ModSum ==
  ASSUME NEW d \in Nat \ {0}, NEW x \in Nat, NEW y \in Nat,
         x % d = 0, y % d = 0
  PROVE  (x + y) % d = 0
  <1> DEFINE a == x \div d
             b == y \div d
  <1>1. a \in Nat /\ b \in Nat /\ x = d * a /\ y = d * b
    BY DivMod
  <1> HIDE DEF a, b
  <1>2. x + y = (d * (a + b)) + 0 /\ a + b \in Nat /\ 0 \in 0 .. d - 1
    BY <1>1
  <1> QED
    BY <1>2, ModUnique

\* A multiple of an aligned size is aligned.
LEMMA ModProduct ==
  ASSUME NEW d \in Nat \ {0}, NEW x \in Nat, NEW y \in Nat, x % d = 0
  PROVE  (x * y) % d = 0
  <1> DEFINE a == x \div d
  <1>1. a \in Nat /\ x = d * a
    BY DivMod
  <1> HIDE DEF a
  <1>2. x * y = (d * (a * y)) + 0 /\ a * y \in Nat /\ 0 \in 0 .. d - 1
    BY <1>1
  <1> QED
    BY <1>2, ModUnique

(***************************************************************************)
(* The generator.                                                          *)
(***************************************************************************)
\* The constructor of Random avoids the seeds 0 and M.
LEMMA SeededGood ==
  ASSUME NEW s \in Nat
  PROVE  Seeded(s) \in 1 .. M - 1
  <1>1. M + 1 \in Nat \ {0} /\ M > 1
    BY RandomAssumption
  <1>2. s % (M + 1) \in 0 .. M
    <2> DEFINE d == M + 1
    <2>1. d \in Nat \ {0}
      BY <1>1
    <2> HIDE DEF d
    <2>2. s % d \in 0 .. d - 1
      BY <2>1, DivMod
    <2> QED
      BY <1>1, <2>2, RandomAssumption DEF d
  <1> QED
    BY <1>1, <1>2, RandomAssumption DEF Seeded

\* Next is the multiplication modulo M, and keeps clear of 0 and M: the sum of
\* the upper and the lower bits of the product is congruent to the product and
\* below 2 * M, so that one subtraction is enough, and it is not M.
LEMMA NextSeedMultiplies ==
  ASSUME NEW s \in 1 .. M - 1
  PROVE  NextSeed(s) = (s * A) % M /\ NextSeed(s) \in 1 .. M - 1
  <1> DEFINE x == s * A
             q == x \div (M + 1)
             r == x % (M + 1)
             t == q + r
  <1>0. M \in Nat \ {0, 1} /\ A \in 1 .. M /\ x % M # 0
    BY RandomAssumption
  <1>1. x \in Nat /\ x <= (M - 1) * M
    BY <1>0
  <1> HIDE DEF x
  <1>2. q \in Nat /\ r \in 0 .. M /\ x = ((M + 1) * q) + r
    <2> DEFINE d == M + 1
    <2>1. d \in Nat \ {0}
      BY <1>0
    <2> HIDE DEF d
    <2>2. x \div d \in Nat /\ x % d \in 0 .. d - 1 /\ x = (d * (x \div d)) + (x % d)
      BY <2>1, <1>1, DivMod
    <2> QED
      BY <1>0, <2>2 DEF d
  <1>3. NextSeed(s) = IF t % (2 * (M + 1)) > M THEN (t % (2 * (M + 1))) - M
                                              ELSE t % (2 * (M + 1))
    BY DEF NextSeed, x
  <1> HIDE DEF q, r
  <1>4. q < M
    <2> SUFFICES ASSUME q >= M PROVE FALSE
      BY <1>0, <1>2
    <2>1. (M + 1) * q >= (M + 1) * M
      BY <1>0, <1>2
    <2> QED
      BY <2>1, <1>0, <1>1, <1>2
  <1>5. t \in 0 .. 2 * M - 1 /\ x = (M * q) + t
    BY <1>0, <1>2, <1>4
  <1> HIDE DEF t
  <1>6. t % (2 * (M + 1)) = t
    <2>1. /\ 2 * (M + 1) \in Nat \ {0}
          /\ t \in 0 .. (2 * (M + 1)) - 1
          /\ t = ((2 * (M + 1)) * 0) + t
      BY <1>0, <1>5
    <2> QED
      BY <2>1, ModUnique
  <1>7. CASE t > M
    <2> DEFINE u == t - M
    <2>1. x = (M * (q + 1)) + u /\ q + 1 \in Nat /\ u \in 1 .. M - 1
      BY <1>0, <1>2, <1>5, <1>7
    <2> HIDE DEF u
    <2>2. x % M = u
      BY <2>1, <1>0, ModUnique, u \in 0 .. M - 1
    <2> QED
      BY <2>1, <2>2, <1>0, <1>3, <1>5, <1>6, <1>7 DEF x, u
  <1>8. CASE t < M
    <2>1. t \in 0 .. M - 1
      BY <1>0, <1>5, <1>8
    <2>2. x % M = t
      BY <2>1, <1>0, <1>2, <1>5, ModUnique
    <2> QED
      BY <2>1, <2>2, <1>0, <1>3, <1>6, <1>8 DEF x
  <1>9. CASE t = M
    <2>1. x = (M * (q + 1)) + 0 /\ q + 1 \in Nat /\ 0 \in 0 .. M - 1
      BY <1>0, <1>2, <1>5, <1>9
    <2>2. x % M = 0
      BY <2>1, <1>0, ModUnique
    <2> QED
      BY <2>2, <1>0
  <1> QED
    BY <1>0, <1>5, <1>7, <1>8, <1>9

(***************************************************************************)
(* The inductive invariant.                                                *)
(***************************************************************************)
Addresses == [block : Nat, offset : Nat]
Pieces == [address : Addresses, bytes : Nat]

\* Each seed is one the generator can be in.
SeedInv == seed \in [Lists -> 1 .. M - 1]

MemoryTyped ==
  /\ alloc_ptr \in Addresses
  /\ alloc_bytes_remaining \in 0 .. kBlockSize
  /\ blocks \in Seq(Nat)
  /\ memory_usage \in Nat
  /\ at \in [Lists -> {"out", "compare", "bump", "fallback", "shrink"}]
  /\ bytes \in [Lists -> Nat]
  /\ result \in [Lists -> Addresses]
  /\ remaining \in [Lists -> 0 .. kBlockSize]
  /\ allocated \in Seq(Pieces)

ListTyped ==
  /\ pc \in [Lists -> {"none", "ready", "draw"}]
  /\ height \in [Lists -> 0 .. kMaxHeight]
  /\ \A l \in Lists : pc[l] = "draw" => height[l] >= 1

OneInCall == \A k, l \in Lists : InCall(k) /\ InCall(l) => k = l

\* What a caller has loaded is still what the arena holds.
CallInv ==
  \A l \in Lists :
    /\ at[l] # "out" => bytes[l] > 0 /\ bytes[l] % Align = 0
    /\ at[l] \in {"compare", "bump", "fallback"} => result[l] = alloc_ptr
    /\ at[l] = "bump" => /\ bytes[l] <= alloc_bytes_remaining
                         /\ remaining[l] = alloc_bytes_remaining - bytes[l]
    /\ at[l] = "fallback" => bytes[l] > alloc_bytes_remaining

\* Each of the first o bytes of a block is in a piece.
Filled(b, o) ==
  \A x \in 0 .. o - 1 :
    \E i \in DOMAIN allocated :
      /\ allocated[i].address.block = b
      /\ allocated[i].address.offset <= x
      /\ x < allocated[i].address.offset + allocated[i].bytes

\* The pieces of a block are among its first o bytes.
EndsBy(b, o) ==
  \A i \in DOMAIN allocated :
    allocated[i].address.block = b =>
      allocated[i].address.offset + allocated[i].bytes <= o

\* The current block is in use up to o, and the n bytes after that are free.
Room(o, n) ==
  /\ o % Align = 0
  /\ \/ alloc_ptr.block = 0 /\ o = 0 /\ n = 0
     \/ /\ alloc_ptr.block \in DOMAIN blocks
        /\ blocks[alloc_ptr.block] = kBlockSize
        /\ o + n = kBlockSize
        /\ Filled(alloc_ptr.block, o)
        /\ EndsBy(alloc_ptr.block, o)

RoomInv ==
  /\ (\A l \in Lists : at[l] # "shrink") =>
        Room(alloc_ptr.offset, alloc_bytes_remaining)
  /\ \A l \in Lists :
       at[l] = "shrink" =>
         /\ result[l].block = alloc_ptr.block
         /\ alloc_ptr.block # 0
         /\ alloc_ptr.offset = result[l].offset + bytes[l]
         /\ Room(result[l].offset, bytes[l] + remaining[l])

\* A block that is not the current one is filled up to its last quarter.
WasteInv ==
  \A b \in DOMAIN blocks :
    b # alloc_ptr.block =>
      \E o \in 0 .. blocks[b] :
        Filled(b, o) /\ blocks[b] - o <= kBlockSize \div 4

ArenaInv == MemoryTyped /\ CallInv /\ RoomInv /\ WasteInv /\ PiecesDisjoint

IInv == ListTyped /\ OneInCall /\ ArenaInv

(***************************************************************************)
(* What the steps rest on.                                                 *)
(***************************************************************************)
\* The sizes NewNode asks for are positive and aligned.
LEMMA NodeBytes ==
  ASSUME NEW h \in 1 .. kMaxHeight
  PROVE  LET n == NodeSize + LinkSize * (h - 1)
         IN  n \in Nat /\ n > 0 /\ n % Align = 0
  <1> DEFINE links == LinkSize * (h - 1)
             n == NodeSize + links
  <1>1. /\ h - 1 \in Nat /\ Align \in Nat \ {0}
        /\ NodeSize \in Nat /\ LinkSize \in Nat /\ NodeSize > 0
        /\ NodeSize % Align = 0 /\ LinkSize % Align = 0
    BY NodeAssumption, ArenaAssumption
  <1>2. links \in Nat
    BY <1>1
  <1>3. links % Align = 0
    BY <1>1, ModProduct
  <1> HIDE DEF links
  <1>4. n % Align = 0
    BY <1>1, <1>2, <1>3, ModSum
  <1> QED
    BY <1>1, <1>2, <1>4 DEF links

\* With MaxCallers = 1 a call starts when nobody is in one.
LEMMA NobodyInCall ==
  ASSUME MaxCallers = 1, NEW l \in Lists, MayCall(l)
  PROVE  \A k \in Lists : ~InCall(k)
  <1> DEFINE S == {k \in Lists : InCall(k)}
  <1>1. IsFiniteSet(S)
    BY NodeAssumption, FS_Subset, S \in SUBSET Lists
  <1>2. Cardinality(S) \in Nat /\ Cardinality(S) < 1
    BY <1>1, FS_CardinalityType DEF MayCall
  <1>3. S = {}
    BY <1>1, <1>2, FS_EmptySet
  <1> QED
    BY <1>3

\* Advance moves an address inside its block.
LEMMA Advances ==
  ASSUME NEW a \in Addresses, NEW n \in Nat
  PROVE  /\ Advance(a, n) \in Addresses
         /\ Advance(a, n).block = a.block
         /\ Advance(a, n).offset = a.offset + n
  BY DEF Advance, Addresses

\* Nodes are whole multiples of the alignment, so that no piece needs slop.
LEMMA NoSlop ==
  ASSUME IInv, NEW l \in Lists, at[l] \in {"compare", "bump"}
  PROVE  /\ Slop(l) = 0 /\ Needed(l) = bytes[l]
         /\ Room(alloc_ptr.offset, alloc_bytes_remaining)
         /\ result[l] = alloc_ptr
  <1>1. \A k \in Lists : at[k] # "shrink"
    BY DEF IInv, OneInCall, InCall
  <1>2. /\ Room(alloc_ptr.offset, alloc_bytes_remaining)
        /\ result[l] = alloc_ptr
    BY <1>1 DEF IInv, ArenaInv, RoomInv, CallInv
  <1>3. Slop(l) = 0
    BY <1>2 DEF Slop, Room
  <1> QED
    BY <1>2, <1>3 DEF Needed, IInv, ArenaInv, MemoryTyped

(***************************************************************************)
(* The steps of the arena.                                                 *)
(***************************************************************************)
\* A step of a list alone.
LEMMA IdleStep ==
  ASSUME IInv, UNCHANGED arenaVars
  PROVE  ArenaInv'
  <1> USE DEF arenaVars
  <1>1. MemoryTyped' /\ CallInv'
    BY DEF IInv, ArenaInv, MemoryTyped, CallInv
  <1>2. RoomInv'
    BY DEF IInv, ArenaInv, RoomInv, Room, Filled, EndsBy
  <1>3. WasteInv'
    BY DEF IInv, ArenaInv, WasteInv, Filled
  <1>4. PiecesDisjoint'
    BY DEF IInv, ArenaInv, PiecesDisjoint, Overlap
  <1> QED
    BY <1>1, <1>2, <1>3, <1>4 DEF ArenaInv

\* A call to AllocateAligned begins.
LEMMA StartStep ==
  ASSUME IInv, NEW l \in Lists, NEW n \in Nat, n > 0, n % Align = 0,
         \A k \in Lists : at[k] = "out", AllocateAligned(l, n)
  PROVE  ArenaInv'
  <1> USE DEF AllocateAligned, Goto
  <1>1. MemoryTyped'
    BY DEF IInv, ArenaInv, MemoryTyped
  <1>2. CallInv'
    BY DEF IInv, ArenaInv, MemoryTyped, CallInv
  <1>3. RoomInv'
    <2>1. Room(alloc_ptr.offset, alloc_bytes_remaining)
      BY DEF IInv, ArenaInv, RoomInv
    <2> QED
      BY <2>1 DEF IInv, ArenaInv, MemoryTyped, RoomInv, Room, Filled, EndsBy
  <1>4. WasteInv'
    BY DEF IInv, ArenaInv, WasteInv, Filled
  <1>5. PiecesDisjoint'
    BY DEF IInv, ArenaInv, PiecesDisjoint, Overlap
  <1> QED
    BY <1>1, <1>2, <1>3, <1>4, <1>5 DEF ArenaInv

\* needed <= alloc_bytes_remaining_ is decided.
LEMMA CompareStep ==
  ASSUME IInv, NEW l \in Lists, Compare(l)
  PROVE  ArenaInv'
  <1> USE DEF Compare, Goto
  <1>0. /\ Needed(l) = bytes[l] /\ at[l] = "compare"
        /\ Room(alloc_ptr.offset, alloc_bytes_remaining)
    BY NoSlop
  <1>1. MemoryTyped'
    <2>1. CASE Fits(l)
      <3>1. alloc_bytes_remaining - Needed(l) \in 0 .. kBlockSize
        BY <1>0, <2>1, ArenaAssumption DEF IInv, ArenaInv, MemoryTyped, Fits
      <3> QED
        BY <3>1, <2>1 DEF IInv, ArenaInv, MemoryTyped
    <2>2. CASE ~Fits(l)
      BY <2>2 DEF IInv, ArenaInv, MemoryTyped
    <2> QED
      BY <2>1, <2>2
  <1>2. CallInv'
    BY <1>0 DEF IInv, ArenaInv, MemoryTyped, CallInv, Fits
  <1>3. RoomInv'
    BY <1>0 DEF IInv, ArenaInv, MemoryTyped, RoomInv, Room, Filled, EndsBy
  <1>4. WasteInv'
    BY DEF IInv, ArenaInv, WasteInv, Filled
  <1>5. PiecesDisjoint'
    BY DEF IInv, ArenaInv, PiecesDisjoint, Overlap
  <1> QED
    BY <1>1, <1>2, <1>3, <1>4, <1>5 DEF ArenaInv

\* The piece is cut from the front of the current block.
LEMMA BumpStep ==
  ASSUME IInv, NEW l \in Lists, Bump(l)
  PROVE  ArenaInv'
  <1> USE DEF Bump, Goto
  <1>0. /\ Slop(l) = 0 /\ Needed(l) = bytes[l] /\ at[l] = "bump"
        /\ Room(alloc_ptr.offset, alloc_bytes_remaining)
        /\ result[l] = alloc_ptr
    BY NoSlop
  <1>1. /\ bytes[l] \in Nat /\ bytes[l] > 0
        /\ bytes[l] <= alloc_bytes_remaining
        /\ remaining[l] = alloc_bytes_remaining - bytes[l]
        /\ \A k \in Lists \ {l} : at[k] = "out"
    BY <1>0 DEF IInv, ArenaInv, MemoryTyped, CallInv, OneInCall, InCall
  <1>2. /\ alloc_ptr' \in Addresses
        /\ alloc_ptr'.block = alloc_ptr.block
        /\ alloc_ptr'.offset = alloc_ptr.offset + bytes[l]
        /\ result'[l] \in Addresses
        /\ result'[l].block = alloc_ptr.block
        /\ result'[l].offset = alloc_ptr.offset
        /\ result' = [result EXCEPT ![l] = result'[l]]
    <2>1. /\ alloc_ptr \in Addresses /\ result \in [Lists -> Addresses]
          /\ alloc_ptr' = Advance(alloc_ptr, bytes[l])
          /\ result' = [result EXCEPT ![l] = Advance(alloc_ptr, 0)]
      BY <1>0 DEF IInv, ArenaInv, MemoryTyped
    <2>2. alloc_ptr.offset + 0 = alloc_ptr.offset
      BY <2>1 DEF Addresses
    <2> QED
      BY <1>1, <2>1, <2>2, Advances
  <1>3. MemoryTyped'
    BY <1>1, <1>2 DEF IInv, ArenaInv, MemoryTyped, Addresses
  <1>4. CallInv'
    BY <1>1, <1>2 DEF IInv, ArenaInv, MemoryTyped, CallInv
  <1>5. RoomInv'
    <2>1. Room(result[l].offset, bytes[l] + remaining[l])'
      BY <1>0, <1>1, <1>2 DEF IInv, ArenaInv, MemoryTyped, Room, Filled, EndsBy
    <2> QED
      <3>1. alloc_ptr.block # 0
        BY <1>0, <1>1 DEF Room, IInv, ArenaInv, MemoryTyped
      <3>2. at'[l] = "shrink" /\ \A k \in Lists \ {l} : at'[k] # "shrink"
        BY <1>1 DEF IInv, ArenaInv, MemoryTyped
      <3> QED
        BY <1>1, <1>2, <2>1, <3>1, <3>2 DEF RoomInv
  <1>6. WasteInv'
    BY <1>2 DEF IInv, ArenaInv, WasteInv, Filled
  <1>7. PiecesDisjoint'
    BY DEF IInv, ArenaInv, PiecesDisjoint, Overlap
  <1> QED
    BY <1>3, <1>4, <1>5, <1>6, <1>7 DEF ArenaInv

\* What is filled stays so when a piece is given out.
LEMMA FilledStays ==
  ASSUME NEW p \in Pieces, allocated \in Seq(Pieces),
         allocated' = Append(allocated, p), NEW b, NEW o, Filled(b, o)
  PROVE  Filled(b, o)'
  <1>1. \A i \in DOMAIN allocated : i \in DOMAIN allocated' /\ allocated'[i] = allocated[i]
    OBVIOUS
  <1> QED
    BY <1>1 DEF Filled

\* A new piece behind those of its block is disjoint from all of them.
LEMMA NewPieceDisjoint ==
  ASSUME NEW p \in Pieces, allocated \in Seq(Pieces), PiecesDisjoint,
         allocated' = Append(allocated, p),
         \A b \in DOMAIN blocks : b \in DOMAIN blocks' /\ blocks'[b] = blocks[b],
         EndsBy(p.address.block, p.address.offset),
         p.address.block \in DOMAIN blocks',
         p.address.offset + p.bytes <= blocks'[p.address.block],
         p.address.offset % Align = 0
  PROVE  PiecesDisjoint'
  <1> DEFINE n == Len(allocated) + 1
  <1>1. /\ DOMAIN allocated' = DOMAIN allocated \cup {n}
        /\ \A i \in DOMAIN allocated : i # n /\ allocated'[i] = allocated[i]
        /\ allocated'[n] = p
    OBVIOUS
  <1> HIDE DEF n
  <1>2. \A i \in DOMAIN allocated : allocated[i] \in Pieces
    OBVIOUS
  <1>3. \A i \in DOMAIN allocated :
          ~Overlap(allocated[i], p) /\ ~Overlap(p, allocated[i])
    BY <1>2 DEF Overlap, EndsBy, Pieces, Addresses
  <1>4. ASSUME NEW i \in DOMAIN allocated', NEW j \in DOMAIN allocated', i # j
        PROVE  ~Overlap(allocated'[i], allocated'[j])
    BY <1>1, <1>3, <1>4 DEF PiecesDisjoint
  <1>5. \A i, j \in DOMAIN allocated' :
          i # j => ~Overlap(allocated'[i], allocated'[j])
    BY <1>4
  <1>6. ASSUME NEW i \in DOMAIN allocated'
        PROVE  /\ allocated'[i].address.block \in DOMAIN blocks'
               /\ allocated'[i].address.offset + allocated'[i].bytes
                    <= blocks'[allocated'[i].address.block]
               /\ allocated'[i].address.offset % Align = 0
    BY <1>1 DEF PiecesDisjoint
  <1> QED
    BY <1>5, <1>6 DEF PiecesDisjoint, Overlap

\* A large piece has a block of its own.
LEMMA LargeStep ==
  ASSUME IInv, NEW l \in Lists, AllocateFallback(l), IsLarge(bytes[l])
  PROVE  ArenaInv'
  <1>b. PICK b0, n : b0 = Len(blocks) + 1 /\ n = bytes[l]
    OBVIOUS
  <1> DEFINE a == [block |-> b0, offset |-> 0]
             p == [address |-> a, bytes |-> n]
  <1>0. /\ at[l] = "fallback" /\ bytes[l] \in Nat
        /\ \A k \in Lists \ {l} : at[k] = "out"
        /\ Room(alloc_ptr.offset, alloc_bytes_remaining)
    BY DEF AllocateFallback, IInv, ArenaInv, MemoryTyped, OneInCall, InCall, RoomInv
  <1>1. /\ blocks' = Append(blocks, bytes[l])
        /\ memory_usage' = memory_usage + bytes[l] + PointerSize
        /\ result' = [result EXCEPT ![l] = a]
        /\ allocated' = Append(allocated, p)
        /\ at' = [at EXCEPT ![l] = "out"]
        /\ UNCHANGED <<alloc_ptr, alloc_bytes_remaining, bytes, remaining>>
    BY <1>b, <1>0 DEF AllocateFallback, AllocateNewBlock, Return, Goto, Address, IInv,
       ArenaInv, MemoryTyped
  <1>2. /\ DOMAIN blocks' = DOMAIN blocks \cup {b0}
        /\ b0 \notin DOMAIN blocks /\ b0 # 0 /\ b0 \in Nat
        /\ \A b \in DOMAIN blocks : blocks'[b] = blocks[b]
        /\ blocks'[b0] = n /\ n \in Nat
    BY <1>b, <1>0, <1>1 DEF IInv, ArenaInv, MemoryTyped
  <1>3. a \in Addresses /\ p \in Pieces /\ p.address = a /\ a.block = b0
        /\ a.offset = 0 /\ p.bytes = n
    BY <1>0, <1>2 DEF Addresses, Pieces
  <1> HIDE DEF a, p
  <1>4. MemoryTyped'
    BY <1>0, <1>1, <1>3, ArenaAssumption DEF IInv, ArenaInv, MemoryTyped
  <1>5. CallInv'
    BY <1>0, <1>1 DEF IInv, ArenaInv, MemoryTyped, CallInv
  <1>6. \A b, o : Filled(b, o) => Filled(b, o)'
    BY <1>1, <1>3, FilledStays DEF IInv, ArenaInv, MemoryTyped
  <1>7. EndsBy(b0, 0)
    BY <1>2 DEF EndsBy, IInv, ArenaInv, PiecesDisjoint
  <1>8. PiecesDisjoint'
    <2>1. 0 % Align = 0 /\ 0 + n <= n
      BY <1>2, ArenaAssumption
    <2> QED
      BY <1>1, <1>2, <1>3, <1>7, <2>1, NewPieceDisjoint
         DEF IInv, ArenaInv, MemoryTyped
  <1>9. RoomInv'
    <2>1. ASSUME alloc_ptr.block \in DOMAIN blocks, NEW o, EndsBy(alloc_ptr.block, o)
          PROVE  EndsBy(alloc_ptr.block, o)'
      <3>1. \A i \in DOMAIN allocated' :
              \/ i \in DOMAIN allocated /\ allocated'[i] = allocated[i]
              \/ allocated'[i] = p
        BY <1>1, <1>3 DEF IInv, ArenaInv, MemoryTyped
      <3> QED
        BY <2>1, <3>1, <1>1, <1>2, <1>3 DEF EndsBy
    <2>2. Room(alloc_ptr.offset, alloc_bytes_remaining)'
      BY <1>0, <1>1, <1>2, <1>6, <2>1 DEF Room
    <2>3. \A k \in Lists : at'[k] # "shrink"
      BY <1>0, <1>1 DEF IInv, ArenaInv, MemoryTyped
    <2> QED
      BY <2>2, <2>3 DEF RoomInv
  <1>10. WasteInv'
    <2>1. Filled(b0, n)'
      <3>1. Len(allocated) + 1 \in DOMAIN allocated' /\ allocated'[Len(allocated) + 1] = p
        BY <1>1, <1>3 DEF IInv, ArenaInv, MemoryTyped
      <3> QED
        BY <1>0, <1>1, <1>2, <1>3, <3>1 DEF Filled
    <2>2. n \in 0 .. blocks'[b0] /\ blocks'[b0] - n <= kBlockSize \div 4
      BY <1>2, ArenaAssumption
    <2>3. ASSUME NEW b \in DOMAIN blocks, b # alloc_ptr.block
          PROVE  \E o \in 0 .. blocks'[b] :
                   Filled(b, o)' /\ blocks'[b] - o <= kBlockSize \div 4
      BY <1>2, <1>6, <2>3 DEF IInv, ArenaInv, WasteInv
    <2>4. alloc_ptr' = alloc_ptr
      BY <1>1
    <2>5. ASSUME NEW b \in DOMAIN blocks', b # alloc_ptr'.block
          PROVE  \E o \in 0 .. blocks'[b] :
                   Filled(b, o)' /\ blocks'[b] - o <= kBlockSize \div 4
      <3>1. CASE b = b0
        BY <3>1, <2>1, <2>2
      <3>2. CASE b \in DOMAIN blocks
        BY <3>2, <2>3, <2>4, <2>5
      <3> QED
        BY <3>1, <3>2, <1>2
    <2> QED
      BY <2>5 DEF WasteInv
  <1> QED
    BY <1>4, <1>5, <1>8, <1>9, <1>10 DEF ArenaInv

\* For a piece that is not large the rest of the current block is wasted: it is
\* smaller than the piece.
LEMMA NewBlockStep ==
  ASSUME IInv, NEW l \in Lists, AllocateFallback(l), ~IsLarge(bytes[l])
  PROVE  ArenaInv'
  <1>b. PICK b0 : b0 = Len(blocks) + 1
    OBVIOUS
  <1> DEFINE a == [block |-> b0, offset |-> 0]
  <1>0. /\ at[l] = "fallback" /\ bytes[l] \in Nat
        /\ bytes[l] > alloc_bytes_remaining
        /\ bytes[l] > 0 /\ bytes[l] % Align = 0
        /\ \A k \in Lists \ {l} : at[k] = "out"
        /\ Room(alloc_ptr.offset, alloc_bytes_remaining)
    BY DEF AllocateFallback, IInv, ArenaInv, MemoryTyped, OneInCall, InCall,
       RoomInv, CallInv
  <1>1. /\ blocks' = Append(blocks, kBlockSize)
        /\ memory_usage' = memory_usage + kBlockSize + PointerSize
        /\ result' = [result EXCEPT ![l] = a]
        /\ alloc_ptr' = Advance(a, bytes[l])
        /\ remaining' = [remaining EXCEPT ![l] = kBlockSize - bytes[l]]
        /\ at' = [at EXCEPT ![l] = "shrink"]
        /\ UNCHANGED <<alloc_bytes_remaining, bytes, allocated>>
    BY <1>b, <1>0 DEF AllocateFallback, AllocateNewBlock, Goto, Address, IInv,
       ArenaInv, MemoryTyped
  <1>k. kBlockSize \in Nat /\ PointerSize \in Nat /\ Align \in Nat \ {0}
    BY ArenaAssumption
  <1>2. /\ DOMAIN blocks' = DOMAIN blocks \cup {b0}
        /\ b0 \notin DOMAIN blocks /\ b0 # 0 /\ b0 \in Nat
        /\ \A b \in DOMAIN blocks : blocks'[b] = blocks[b]
        /\ blocks'[b0] = kBlockSize
    BY <1>b, <1>k, <1>1 DEF IInv, ArenaInv, MemoryTyped
  <1>3. a \in Addresses /\ a.block = b0 /\ a.offset = 0
    BY <1>2 DEF Addresses
  <1>4. /\ alloc_ptr' \in Addresses
        /\ alloc_ptr'.block = b0
        /\ alloc_ptr'.offset = 0 + bytes[l]
    BY <1>0, <1>1, <1>3, Advances
  <1> HIDE DEF a
  <1>5. bytes[l] <= kBlockSize \div 4 /\ kBlockSize - bytes[l] \in 0 .. kBlockSize
    BY <1>0, <1>k DEF IsLarge
  <1>6. MemoryTyped'
    <2>1. remaining' \in [Lists -> 0 .. kBlockSize]
      BY <1>1, <1>5 DEF IInv, ArenaInv, MemoryTyped
    <2>2. memory_usage' \in Nat /\ blocks' \in Seq(Nat)
      BY <1>1, <1>k DEF IInv, ArenaInv, MemoryTyped
    <2> QED
      BY <1>1, <1>3, <1>4, <2>1, <2>2 DEF IInv, ArenaInv, MemoryTyped
  <1>7. CallInv'
    BY <1>0, <1>1 DEF IInv, ArenaInv, MemoryTyped, CallInv
  <1>8. PiecesDisjoint'
    BY <1>1, <1>2 DEF IInv, ArenaInv, PiecesDisjoint, Overlap
  <1>9. RoomInv'
    <2>1. Filled(b0, 0)' /\ EndsBy(b0, 0)'
      BY <1>1, <1>2 DEF Filled, EndsBy, IInv, ArenaInv, PiecesDisjoint
    <2>2. 0 % Align = 0 /\ bytes[l] + (kBlockSize - bytes[l]) = kBlockSize
      BY <1>0, <1>k
    <2>3. /\ at'[l] = "shrink" /\ \A k \in Lists \ {l} : at'[k] # "shrink"
          /\ result'[l] = a /\ remaining'[l] = kBlockSize - bytes[l]
          /\ bytes'[l] = bytes[l]
      BY <1>0, <1>1 DEF IInv, ArenaInv, MemoryTyped
    <2>4. Room(result[l].offset, bytes[l] + remaining[l])'
      BY <1>2, <1>3, <1>4, <1>k, <2>1, <2>2, <2>3 DEF Room, Filled, EndsBy
    <2> QED
      BY <1>2, <1>3, <1>4, <2>3, <2>4 DEF RoomInv
  <1>10. WasteInv'
    <2>1. ASSUME NEW b \in DOMAIN blocks
          PROVE  \E o \in 0 .. blocks[b] :
                   Filled(b, o) /\ blocks[b] - o <= kBlockSize \div 4
      <3>1. CASE b # alloc_ptr.block
        BY <3>1 DEF IInv, ArenaInv, WasteInv
      <3>2. CASE b = alloc_ptr.block
        <4>1. /\ blocks[b] = kBlockSize /\ Filled(b, alloc_ptr.offset)
              /\ alloc_ptr.offset + alloc_bytes_remaining = kBlockSize
          BY <1>0, <3>2 DEF Room, IInv, ArenaInv, MemoryTyped
        <4>2. alloc_ptr.offset \in 0 .. kBlockSize
              /\ kBlockSize - alloc_ptr.offset <= kBlockSize \div 4
          <5>1. alloc_ptr.offset \in Nat /\ alloc_bytes_remaining \in Nat
            BY DEF IInv, ArenaInv, MemoryTyped, Addresses
          <5>2. kBlockSize \div 4 \in Nat
            BY <1>k
          <5> QED
            BY <4>1, <1>0, <1>5, <1>k, <5>1, <5>2
        <4> QED
          BY <4>1, <4>2
      <3> QED
        BY <3>1, <3>2
    <2> QED
      BY <2>1, <1>1, <1>2, <1>4 DEF WasteInv, Filled
  <1> QED
    BY <1>6, <1>7, <1>8, <1>9, <1>10 DEF ArenaInv

\* The last store of a call: its piece is behind those of the current block, and
\* what is left of the block is behind the piece.
LEMMA ShrinkStep ==
  ASSUME IInv, NEW l \in Lists, Shrink(l)
  PROVE  ArenaInv'
  <1> DEFINE p == [address |-> result[l], bytes |-> bytes[l]]
  <1>0. /\ at[l] = "shrink" /\ bytes[l] \in Nat /\ bytes[l] % Align = 0
        /\ remaining[l] \in 0 .. kBlockSize
        /\ result[l] \in Addresses /\ alloc_ptr \in Addresses
        /\ \A k \in Lists \ {l} : at[k] = "out"
        /\ result[l].block = alloc_ptr.block /\ alloc_ptr.block # 0
        /\ alloc_ptr.offset = result[l].offset + bytes[l]
        /\ Room(result[l].offset, bytes[l] + remaining[l])
    BY DEF Shrink, IInv, ArenaInv, MemoryTyped, OneInCall, InCall, RoomInv, CallInv
  <1>1. /\ alloc_bytes_remaining' = remaining[l]
        /\ allocated' = Append(allocated, p)
        /\ at' = [at EXCEPT ![l] = "out"]
        /\ UNCHANGED <<alloc_ptr, blocks, memory_usage, bytes, result, remaining>>
    BY DEF Shrink, Return, Goto
  <1>2. p \in Pieces /\ p.address = result[l] /\ p.bytes = bytes[l]
    BY <1>0 DEF Pieces
  <1> HIDE DEF p
  <1>3. /\ result[l].offset % Align = 0 /\ result[l].offset \in Nat
        /\ alloc_ptr.block \in DOMAIN blocks
        /\ blocks[alloc_ptr.block] = kBlockSize
        /\ result[l].offset + (bytes[l] + remaining[l]) = kBlockSize
        /\ Filled(alloc_ptr.block, result[l].offset)
        /\ EndsBy(alloc_ptr.block, result[l].offset)
    BY <1>0 DEF Room, Addresses
  <1>4. MemoryTyped'
    BY <1>0, <1>1, <1>2 DEF IInv, ArenaInv, MemoryTyped
  <1>5. CallInv'
    BY <1>0, <1>1 DEF IInv, ArenaInv, MemoryTyped, CallInv
  <1>6. \A b, o : Filled(b, o) => Filled(b, o)'
    BY <1>1, <1>2, FilledStays DEF IInv, ArenaInv, MemoryTyped
  <1>7. PiecesDisjoint'
    <2>1. result[l].offset + bytes[l] <= kBlockSize
      BY <1>0, <1>3, ArenaAssumption
    <2> QED
      BY <1>0, <1>1, <1>2, <1>3, <2>1, NewPieceDisjoint
         DEF IInv, ArenaInv, MemoryTyped
  <1>8. WasteInv'
    BY <1>1, <1>6 DEF IInv, ArenaInv, WasteInv
  <1>9. RoomInv'
    <2>1. alloc_ptr.offset % Align = 0
      BY <1>0, <1>3, ModSum, ArenaAssumption
    <2>2. alloc_ptr.offset + remaining[l] = kBlockSize
      BY <1>0, <1>3, ArenaAssumption
    <2>3. Len(allocated) + 1 \in DOMAIN allocated' /\ allocated'[Len(allocated) + 1] = p
      BY <1>1, <1>2 DEF IInv, ArenaInv, MemoryTyped
    <2>4. Filled(alloc_ptr.block, alloc_ptr.offset)'
      <3>1. Filled(alloc_ptr.block, result[l].offset)'
        BY <1>1, <1>3, <1>6
      <3>2. ASSUME NEW x \in 0 .. alloc_ptr.offset - 1
            PROVE  \E i \in DOMAIN allocated' :
                     /\ allocated'[i].address.block = alloc_ptr.block
                     /\ allocated'[i].address.offset <= x
                     /\ x < allocated'[i].address.offset + allocated'[i].bytes
        <4>1. CASE x < result[l].offset
          BY <4>1, <3>1, <1>1, <1>3 DEF Filled
        <4>2. CASE x >= result[l].offset
          BY <4>2, <2>3, <1>0, <1>2, <1>3
        <4> QED
          BY <4>1, <4>2, <1>3, <1>0
      <3> QED
        BY <3>2, <1>1 DEF Filled
    <2>5. EndsBy(alloc_ptr.block, alloc_ptr.offset)'
      <3>1. \A i \in DOMAIN allocated' :
              \/ /\ i \in DOMAIN allocated /\ allocated'[i] = allocated[i]
                 /\ allocated[i] \in Pieces
              \/ allocated'[i] = p
        BY <1>1, <1>2 DEF IInv, ArenaInv, MemoryTyped
      <3> QED
        <4>1. ASSUME NEW i \in DOMAIN allocated',
                     allocated'[i].address.block = alloc_ptr.block
              PROVE  allocated'[i].address.offset + allocated'[i].bytes
                       <= alloc_ptr.offset
          <5>1. CASE allocated'[i] = p
            BY <5>1, <1>0, <1>2, <1>3
          <5>2. CASE i \in DOMAIN allocated /\ allocated'[i] = allocated[i]
                     /\ allocated[i] \in Pieces
            BY <5>2, <4>1, <1>0, <1>3 DEF EndsBy, Pieces, Addresses
          <5> QED
            BY <5>1, <5>2, <3>1
        <4> QED
          BY <4>1, <1>1 DEF EndsBy
    <2>6. Room(alloc_ptr.offset, alloc_bytes_remaining)'
      BY <1>1, <1>3, <2>1, <2>2, <2>4, <2>5 DEF Room
    <2>7. \A k \in Lists : at'[k] # "shrink"
      BY <1>0, <1>1 DEF IInv, ArenaInv, MemoryTyped
    <2> QED
      BY <2>6, <2>7 DEF RoomInv
  <1> QED
    BY <1>4, <1>5, <1>7, <1>8, <1>9 DEF ArenaInv

(***************************************************************************)
(* The steps of the lists, and the theorems.                               *)
(***************************************************************************)
\* The heads and the nodes are asked for with heights in 1 .. kMaxHeight.
LEMMA NewNodeStep ==
  ASSUME IInv, NEW l \in Lists, NEW h \in 1 .. kMaxHeight,
         \A k \in Lists : at[k] = "out", NewNode(l, h)
  PROVE  ArenaInv'
  BY NodeBytes, StartStep DEF NewNode

\* One draw of RandomHeight moves the seed of its list to the next one.
LEMMA SeedStep ==
  ASSUME SeedInv, [Next]_vars
  PROVE  /\ SeedInv'
         /\ \A l \in Lists :
              seed'[l] # seed[l] => /\ seed'[l] = (seed[l] * A) % M
                                    /\ seed'[l] \in 1 .. M - 1
  <1>1. CASE UNCHANGED seed
    BY <1>1 DEF SeedInv
  <1>2. ASSUME NEW l \in Lists, seed' = [seed EXCEPT ![l] = NextSeed(@)]
        PROVE  /\ SeedInv'
               /\ \A k \in Lists :
                    seed'[k] # seed[k] => /\ seed'[k] = (seed[k] * A) % M
                                          /\ seed'[k] \in 1 .. M - 1
    BY <1>2, NextSeedMultiplies DEF SeedInv
  <1>3. UNCHANGED seed \/ \E l \in Lists : seed' = [seed EXCEPT ![l] = NextSeed(@)]
    BY DEF Next, vars, listVars, NewList, Insert, RandomHeight
  <1> QED
    BY <1>1, <1>2, <1>3

\* DrawsMultiply: each draw of Random::Next is (seed_ * A) % M, and 0 and M are
\* never reached, however many lists are in a call.
THEOREM DrawsAreProducts == Spec => DrawsMultiply
  <1>1. Init => SeedInv
    BY SeededGood, NodeAssumption DEF Init, SeedInv
  <1>2. SeedInv /\ [Next]_vars => SeedInv'
    BY SeedStep
  <1>3. SeedInv /\ [Next]_vars =>
          [\A l \in Lists :
             seed'[l] # seed[l] => /\ seed'[l] = (seed[l] * A) % M
                                   /\ seed'[l] \in 1 .. M - 1]_vars
    BY SeedStep
  <1> QED
    BY <1>1, <1>2, <1>3, PTL DEF Spec, DrawsMultiply

\* Every step keeps the inductive invariant when one list allocates at a time.
LEMMA Step ==
  ASSUME MaxCallers = 1, IInv, [Next]_vars
  PROVE  IInv'
  <1>1. CASE UNCHANGED vars
    <2>1. ArenaInv'
      BY <1>1, IdleStep DEF vars
    <2>2. ListTyped' /\ OneInCall'
      BY <1>1 DEF IInv, vars, listVars, arenaVars, ListTyped, OneInCall, InCall
    <2> QED
      BY <2>1, <2>2 DEF IInv
  <1>2. ASSUME NEW l \in Lists, NewList(l) PROVE IInv'
    <2>1. \A k \in Lists : ~InCall(k)
      BY <1>2, NobodyInCall DEF NewList
    <2>2. ArenaInv'
      BY <1>2, <2>1, NewNodeStep, NodeAssumption, kMaxHeight \in 1 .. kMaxHeight
         DEF NewList, InCall, IInv, ArenaInv, MemoryTyped
    <2>3. ListTyped'
      BY <1>2 DEF IInv, ListTyped, NewList
    <2>4. OneInCall'
      BY <1>2, <2>1 DEF IInv, ArenaInv, MemoryTyped, ListTyped, OneInCall, InCall,
         NewList, NewNode, AllocateAligned, Goto
    <2> QED
      BY <2>2, <2>3, <2>4 DEF IInv
  <1>3. ASSUME NEW l \in Lists, Insert(l) PROVE IInv'
    <2>1. \A k \in Lists : ~InCall(k)
      BY <1>3, NobodyInCall DEF Insert
    <2>2. ArenaInv'
      BY <1>3, IdleStep DEF Insert
    <2>3. ListTyped'
      <3>1. 1 \in 0 .. kMaxHeight
        BY NodeAssumption
      <3> QED
        BY <1>3, <3>1 DEF IInv, ListTyped, Insert
    <2>4. OneInCall'
      BY <1>3, <2>1 DEF IInv, ListTyped, OneInCall, InCall, Insert, arenaVars
    <2> QED
      BY <2>2, <2>3, <2>4 DEF IInv
  <1>4. ASSUME NEW l \in Lists, RandomHeight(l) PROVE IInv'
    <2>0. /\ pc[l] = "draw" /\ height[l] \in 1 .. kMaxHeight
          /\ \A k \in Lists \ {l} : ~InCall(k)
      BY <1>4, NodeAssumption DEF RandomHeight, IInv, ListTyped, OneInCall, InCall
    <2>1. CASE /\ MayGrow(l)
               /\ height' = [height EXCEPT ![l] = @ + 1]
               /\ UNCHANGED <<pc, arenaVars>>
      <3>1. ArenaInv'
        BY <2>1, IdleStep
      <3>2. ListTyped'
        BY <2>0, <2>1, NodeAssumption DEF IInv, ListTyped, MayGrow
      <3>3. OneInCall'
        BY <2>1 DEF IInv, OneInCall, InCall, arenaVars
      <3> QED
        BY <3>1, <3>2, <3>3 DEF IInv
    <2>2. CASE /\ NewNode(l, height[l])
               /\ pc' = [pc EXCEPT ![l] = "ready"]
               /\ UNCHANGED height
      <3>1. ArenaInv'
        <4>1. at[l] = "out"
          BY <2>2 DEF NewNode, AllocateAligned
        <4> QED
          BY <2>0, <2>2, <4>1, NewNodeStep DEF InCall, IInv, ArenaInv, MemoryTyped
      <3>2. ListTyped'
        BY <2>2 DEF IInv, ListTyped
      <3>3. OneInCall'
        BY <2>0, <2>2 DEF IInv, ArenaInv, MemoryTyped, ListTyped, OneInCall, InCall,
           NewNode, AllocateAligned, Goto
      <3> QED
        BY <3>1, <3>2, <3>3 DEF IInv
    <2> QED
      BY <1>4, <2>1, <2>2 DEF RandomHeight
  <1>5. ASSUME NEW l \in Lists, ArenaStep(l), UNCHANGED listVars PROVE IInv'
    <2>1. ArenaInv'
      BY <1>5, CompareStep, BumpStep, LargeStep, NewBlockStep, ShrinkStep
         DEF ArenaStep
    <2>2. ListTyped'
      BY <1>5 DEF IInv, ListTyped, listVars
    <2>3. OneInCall'
      <3>1. at[l] # "out" /\ \A k \in Lists \ {l} : at'[k] = at[k]
        BY <1>5 DEF IInv, ArenaInv, MemoryTyped, ArenaStep, Compare, Bump,
           AllocateFallback, Shrink, Return, Goto
      <3> QED
        BY <1>5, <3>1 DEF IInv, OneInCall, InCall, listVars
    <2> QED
      BY <2>1, <2>2, <2>3 DEF IInv
  <1> QED
    BY <1>1, <1>2, <1>3, <1>4, <1>5 DEF Next

\* The inductive invariant holds when one list allocates at a time.
THEOREM Invariant ==
  ASSUME MaxCallers = 1
  PROVE  Spec => []IInv
  <1>1. Init => IInv
    <2> SUFFICES ASSUME Init PROVE IInv
      OBVIOUS
    <2> USE DEF Init, ArenaInit, Address
    <2>1. 0 % Align = 0
      BY ArenaAssumption
    <2>2. MemoryTyped
      BY ArenaAssumption, NodeAssumption DEF MemoryTyped, Addresses
    <2>3. RoomInv
      BY <2>1, NodeAssumption DEF RoomInv, Room
    <2>4. CallInv /\ WasteInv /\ PiecesDisjoint
      BY NodeAssumption DEF CallInv, WasteInv, PiecesDisjoint
    <2>5. ListTyped /\ OneInCall
      BY NodeAssumption DEF ListTyped, OneInCall, InCall
    <2> QED
      BY <2>2, <2>3, <2>4, <2>5 DEF IInv, ArenaInv
  <1>2. IInv /\ [Next]_vars => IInv'
    BY Step
  <1> QED
    BY <1>1, <1>2, PTL DEF Spec

\* TypeOK, with the asserts on height in RandomHeight.
THEOREM TypeCorrect ==
  ASSUME MaxCallers = 1
  PROVE  Spec => []TypeOK
  <1>1. IInv => ArenaTypeOK
    <2> SUFFICES ASSUME IInv PROVE ArenaTypeOK
      OBVIOUS
    <2>1. alloc_ptr.block \in 0 .. Len(blocks) /\ alloc_ptr.offset \in 0 .. kBlockSize
      <3>1. CASE \A l \in Lists : at[l] # "shrink"
        BY <3>1, ArenaAssumption DEF IInv, ArenaInv, RoomInv, Room, MemoryTyped,
           Addresses
      <3>2. ASSUME NEW l \in Lists, at[l] = "shrink"
            PROVE  alloc_ptr.block \in 0 .. Len(blocks)
                   /\ alloc_ptr.offset \in 0 .. kBlockSize
        <4>1. /\ alloc_ptr.block # 0 /\ alloc_ptr.offset = result[l].offset + bytes[l]
              /\ Room(result[l].offset, bytes[l] + remaining[l])
          BY <3>2 DEF IInv, ArenaInv, RoomInv
        <4>2. /\ result[l].offset \in Nat /\ bytes[l] \in Nat
              /\ remaining[l] \in Nat /\ kBlockSize \in Nat
          BY ArenaAssumption DEF IInv, ArenaInv, MemoryTyped, Addresses
        <4> QED
          <5>1. /\ alloc_ptr.block \in DOMAIN blocks
                /\ result[l].offset + (bytes[l] + remaining[l]) = kBlockSize
            BY <4>1 DEF Room
          <5>2. alloc_ptr.block \in 0 .. Len(blocks)
            BY <5>1 DEF IInv, ArenaInv, MemoryTyped
          <5> QED
            BY <4>1, <4>2, <5>1, <5>2
      <3> QED
        BY <3>1, <3>2
    <2> QED
      BY <2>1, NodeAssumption
         DEF ArenaTypeOK, IInv, ArenaInv, MemoryTyped, Addresses
  <1>2. IInv /\ SeedInv => TypeOK
    BY <1>1, RandomAssumption DEF TypeOK, IInv, ListTyped, SeedInv
  <1>3. Init => SeedInv
    BY SeededGood, NodeAssumption DEF Init, SeedInv
  <1>4. SeedInv /\ [Next]_vars => SeedInv'
    BY SeedStep
  <1> QED
    BY <1>2, <1>3, <1>4, Invariant, PTL DEF Spec

\* PiecesDisjoint: AllocateAligned gives out disjoint, aligned pieces inside the
\* blocks, for ever.
THEOREM PiecesAreDisjoint ==
  ASSUME MaxCallers = 1
  PROVE  Spec => []PiecesDisjoint
  <1>1. IInv => PiecesDisjoint
    BY DEF IInv, ArenaInv
  <1> QED
    BY <1>1, Invariant, PTL

\* WasteBounded: AllocateFallback leaves at most a quarter of a block unused.
THEOREM WasteIsBounded ==
  ASSUME MaxCallers = 1
  PROVE  Spec => []WasteBounded
  <1>1. ASSUME IInv PROVE WasteBounded
    <2> SUFFICES ASSUME NEW b \in DOMAIN blocks, b < alloc_ptr.block
                 PROVE  Cardinality(Unused(b)) <= kBlockSize \div 4
      BY DEF WasteBounded
    <2>1. /\ blocks[b] \in Nat /\ b # alloc_ptr.block /\ kBlockSize \div 4 \in Nat
          /\ allocated \in Seq(Pieces)
      BY <1>1, ArenaAssumption DEF IInv, ArenaInv, MemoryTyped, Addresses
    <2>2. PICK o \in 0 .. blocks[b] :
            Filled(b, o) /\ blocks[b] - o <= kBlockSize \div 4
      BY <1>1, <2>1 DEF IInv, ArenaInv, WasteInv
    <2>3. Unused(b) \subseteq o .. blocks[b] - 1
      <3> SUFFICES ASSUME NEW x \in Unused(b) PROVE x >= o
        BY <2>1, <2>2 DEF Unused
      <3> SUFFICES ASSUME x < o PROVE FALSE
        BY <2>1, <2>2 DEF Unused
      <3>1. x \in 0 .. o - 1
        BY <2>1, <2>2 DEF Unused
      <3>2. PICK i \in DOMAIN allocated :
              /\ allocated[i].address.block = b
              /\ allocated[i].address.offset <= x
              /\ x < allocated[i].address.offset + allocated[i].bytes
        BY <3>1, <2>2 DEF Filled
      <3>3. allocated[i].address.offset \in Nat /\ allocated[i].bytes \in Nat
        <4>1. allocated[i] \in Pieces
          BY <2>1
        <4> QED
          BY <4>1 DEF Pieces, Addresses
      <3> QED
        BY <3>1, <3>2, <3>3, <2>2 DEF Unused
    <2>4. /\ IsFiniteSet(o .. blocks[b] - 1)
          /\ Cardinality(o .. blocks[b] - 1) = blocks[b] - o
      <3>1. o \in Int /\ blocks[b] - 1 \in Int
        BY <2>1, <2>2
      <3>2. /\ IsFiniteSet(o .. blocks[b] - 1)
            /\ Cardinality(o .. blocks[b] - 1) =
                 IF o > blocks[b] - 1 THEN 0 ELSE (blocks[b] - 1) - o + 1
        BY <3>1, FS_Interval
      <3> QED
        BY <3>2, <2>1, <2>2
    <2>5. Cardinality(Unused(b)) <= Cardinality(o .. blocks[b] - 1)
          /\ Cardinality(Unused(b)) \in Nat
      BY <2>3, <2>4, FS_Subset, FS_CardinalityType
    <2> QED
      BY <2>1, <2>2, <2>4, <2>5
  <1>2. IInv => WasteBounded
    BY <1>1
  <1> QED
    BY <1>2, Invariant, PTL
===============================================================================
