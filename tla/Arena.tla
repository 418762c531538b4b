-------------------------------- MODULE Arena --------------------------------
(***************************************************************************)
(* The arena of src/cache/utils/arena.{h,cc}: memory is cut from the front *)
(* of the current block, and a new block is taken when that is used up.    *)
(* ZsetManager has one arena, which the skip lists of all zsets share, and *)
(* nothing serializes their calls; each call works on alloc_ptr_ and       *)
(* alloc_bytes_remaining_ with plain loads and stores, which are the steps *)
(* of this module (each member is loaded and stored once in a call).       *)
(*                                                                         *)
(* An address is a block and an offset in it; new[] returns a block of its *)
(* own, aligned.  Allocate, which nobody calls, is not modelled.           *)
(***************************************************************************)
EXTENDS Integers, Sequences, FiniteSets

CONSTANTS
  Callers,      \* who allocates: the skip lists that share the arena
  kBlockSize,
  Align,        \* align in AllocateAligned
  PointerSize   \* sizeof(char*)

ASSUME ArenaAssumption ==
  {kBlockSize, Align, PointerSize} \subseteq Nat \ {0} /\ kBlockSize % Align = 0

VARIABLES
  alloc_ptr,              \* alloc_ptr_; block 0 stands for nullptr
  alloc_bytes_remaining,  \* alloc_bytes_remaining_
  blocks,                 \* blocks_: the size of each block
  memory_usage,           \* memory_usage_
  at,                     \* where each caller is in AllocateAligned
  bytes,                  \* its argument
  result,                 \* the alloc_ptr_ it has loaded, then its result
  remaining,              \* the alloc_bytes_remaining_ it will store
  allocated               \* history: every piece of memory given out

arenaVars == <<alloc_ptr, alloc_bytes_remaining, blocks, memory_usage, at, bytes,
               result, remaining, allocated>>

Address(b, o) == [block |-> b, offset |-> o]

ArenaInit ==
  /\ alloc_ptr = Address(0, 0)
  /\ alloc_bytes_remaining = 0
  /\ blocks = <<>>
  /\ memory_usage = 0
  /\ at = [c \in Callers |-> "out"]
  /\ bytes = [c \in Callers |-> 0]
  /\ result = [c \in Callers |-> Address(0, 0)]
  /\ remaining = [c \in Callers |-> 0]
  /\ allocated = <<>>

Goto(c, label) == at' = [at EXCEPT ![c] = label]

Advance(address, n) == [address EXCEPT !.offset = @ + n]

Slop(c) ==
  LET current_mod == result[c].offset % Align
  IN  IF current_mod = 0 THEN 0 ELSE Align - current_mod

Needed(c) == bytes[c] + Slop(c)

-----------------------------------------------------------------------------
AllocateAligned(c, n) ==
  /\ at[c] = "out"
  /\ bytes' = [bytes EXCEPT ![c] = n]
  /\ result' = [result EXCEPT ![c] = alloc_ptr]
  /\ Goto(c, "compare")
  /\ UNCHANGED <<alloc_ptr, alloc_bytes_remaining, blocks, memory_usage,
                 remaining, allocated>>

\* Mutant: an off-by-one in needed <= alloc_bytes_remaining_.
FitsOver(c) == Needed(c) <= alloc_bytes_remaining + Align

Fits(c) == Needed(c) <= alloc_bytes_remaining

Compare(c) ==
  /\ at[c] = "compare"
  /\ \/ /\ Fits(c)
        /\ remaining' =
             [remaining EXCEPT ![c] = alloc_bytes_remaining - Needed(c)]
        /\ Goto(c, "bump")
     \/ /\ ~Fits(c)
        /\ Goto(c, "fallback")
        /\ UNCHANGED remaining
  /\ UNCHANGED <<alloc_ptr, alloc_bytes_remaining, blocks, memory_usage, bytes,
                 result, allocated>>

Bump(c) ==
  /\ at[c] = "bump"
  /\ alloc_ptr' = Advance(result[c], Needed(c))
  /\ result' = [result EXCEPT ![c] = Advance(@, Slop(c))]
  /\ Goto(c, "shrink")
  /\ UNCHANGED <<alloc_bytes_remaining, blocks, memory_usage, bytes, remaining,
                 allocated>>

\* AllocateNewBlock; the block's address is left in result.
AllocateNewBlock(c, n) ==
  /\ blocks' = Append(blocks, n)
  /\ memory_usage' = memory_usage + n + PointerSize
  /\ result' = [result EXCEPT ![c] = Address(Len(blocks'), 0)]

Return(c) ==
  /\ allocated' = Append(allocated, [address |-> result'[c], bytes |-> bytes[c]])
  /\ Goto(c, "out")

\* Mutant: half a block instead of a quarter.
IsLargeLate(n) == n > kBlockSize \div 2

IsLarge(n) == n > kBlockSize \div 4

\* AllocateFallback: a large piece has a block of its own, for another one the
\* rest of the current block is wasted.
AllocateFallback(c) ==
  /\ at[c] = "fallback"
  /\ \/ /\ IsLarge(bytes[c])
        /\ AllocateNewBlock(c, bytes[c])
        /\ Return(c)
        /\ UNCHANGED <<alloc_ptr, remaining>>
     \/ /\ ~IsLarge(bytes[c])
        /\ AllocateNewBlock(c, kBlockSize)
        /\ alloc_ptr' = Advance(result'[c], bytes[c])
        /\ remaining' = [remaining EXCEPT ![c] = kBlockSize - bytes[c]]
        /\ Goto(c, "shrink")
        /\ UNCHANGED allocated
  /\ UNCHANGED <<alloc_bytes_remaining, bytes>>

\* alloc_bytes_remaining_ -= ..., the last store, and the return.
Shrink(c) ==
  /\ at[c] = "shrink"
  /\ alloc_bytes_remaining' = remaining[c]
  /\ result' = result
  /\ Return(c)
  /\ UNCHANGED <<alloc_ptr, blocks, memory_usage, bytes, remaining>>

ArenaStep(c) == Compare(c) \/ Bump(c) \/ AllocateFallback(c) \/ Shrink(c)

-----------------------------------------------------------------------------
ArenaTypeOK ==
  /\ alloc_ptr \in [block : 0 .. Len(blocks), offset : 0 .. kBlockSize]
  /\ alloc_bytes_remaining \in 0 .. kBlockSize
  /\ blocks \in Seq(Nat)
  /\ memory_usage \in Nat
  /\ at \in [Callers -> {"out", "compare", "bump", "fallback", "shrink"}]

Overlap(p, q) ==
  /\ p.address.block = q.address.block
  /\ p.address.offset < q.address.offset + q.bytes
  /\ q.address.offset < p.address.offset + p.bytes

\* AllocateAligned returns new memory each time: no two pieces overlap, each
\* lies inside a block of the arena, and is aligned (the assert of arena.cc:56).
PiecesDisjoint ==
  /\ \A i, j \in DOMAIN allocated :
       i # j => ~Overlap(allocated[i], allocated[j])
  /\ \A i \in DOMAIN allocated :
       LET p == allocated[i]
       IN  /\ p.address.block \in DOMAIN blocks
           /\ p.address.offset + p.bytes <= blocks[p.address.block]
           /\ p.address.offset % Align = 0

\* The bytes of a block that are in no piece.
Unused(b) ==
  {o \in 0 .. blocks[b] - 1 :
     \A i \in DOMAIN allocated :
       LET p == allocated[i]
       IN  ~ /\ p.address.block = b
             /\ o \in p.address.offset .. p.address.offset + p.bytes - 1}

\* What AllocateFallback leaves unused of a block is at most a quarter of it,
\* because a piece that would waste more has a block of its own.
WasteBounded ==
  \A b \in DOMAIN blocks :
    b < alloc_ptr.block => Cardinality(Unused(b)) <= kBlockSize \div 4
=============================================================================
