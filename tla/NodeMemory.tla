------------------------------ MODULE NodeMemory ------------------------------
(***************************************************************************)
(* How the skip lists of ZsetManager's zsets get their nodes: RandomHeight *)
(* and NewNode of src/cache/storage/memory/skip_list.h, on a generator of  *)
(* their own and on the arena they all share.  Each list is used by one    *)
(* fiber at a time here (two on one list are Zset's subject).              *)
(***************************************************************************)
EXTENDS Arena, Random

CONSTANTS
  Lists,        \* the skip lists
  Seeds,        \* the generator's seeds; the code always passes 0xdeadbeef
  kMaxHeight,
  kBranching,
  NodeSize,     \* sizeof(Node), one link included
  LinkSize,     \* sizeof(std::atomic<Node*>)
  MaxCallers,   \* how many lists may be in a call at once
  MaxBlocks     \* bound on the blocks of the arena

ASSUME NodeAssumption ==
  /\ Callers = Lists /\ IsFiniteSet(Lists)
  /\ Seeds \subseteq Nat
  /\ {kMaxHeight, kBranching, NodeSize, LinkSize} \subseteq Nat \ {0}
  /\ NodeSize % Align = 0 /\ LinkSize % Align = 0

VARIABLES
  pc,      \* where each list is
  seed,    \* rnd_.seed_
  height   \* the local of RandomHeight

listVars == <<pc, seed, height>>
vars == <<listVars, arenaVars>>

Init ==
  /\ ArenaInit
  /\ pc = [l \in Lists |-> "none"]
  /\ \E s \in Seeds : seed = [l \in Lists |-> Seeded(s)]
  /\ height = [l \in Lists |-> 0]

InCall(l) == pc[l] = "draw" \/ at[l] # "out"

MayCall(l) ==
  /\ Cardinality({k \in Lists : InCall(k)}) < MaxCallers
  /\ at[l] = "out"
  /\ Len(blocks) < MaxBlocks

\* NewNode: room for the node and the links above the lowest one.
NewNode(l, h) == AllocateAligned(l, NodeSize + LinkSize * (h - 1))

\* The constructor of SkipList, in the first Add to a zset.
NewList(l) ==
  /\ pc[l] = "none"
  /\ MayCall(l)
  /\ NewNode(l, kMaxHeight)
  /\ pc' = [pc EXCEPT ![l] = "ready"]
  /\ UNCHANGED <<seed, height>>

Insert(l) ==
  /\ pc[l] = "ready"
  /\ MayCall(l)
  /\ pc' = [pc EXCEPT ![l] = "draw"]
  /\ height' = [height EXCEPT ![l] = 1]
  /\ UNCHANGED <<seed, arenaVars>>

\* Mutant: a draw more than kMaxHeight allows.
MayGrowOver(l) == height[l] <= kMaxHeight

MayGrow(l) == height[l] < kMaxHeight

\* RandomHeight, one draw at a time, and the NewNode of Insert.
RandomHeight(l) ==
  /\ pc[l] = "draw"
  /\ IF MayGrow(l) THEN seed' = [seed EXCEPT ![l] = NextSeed(@)]
                   ELSE UNCHANGED seed
  /\ \/ /\ MayGrow(l) /\ seed'[l] % kBranching = 0
        /\ height' = [height EXCEPT ![l] = @ + 1]
        /\ UNCHANGED <<pc, arenaVars>>
     \/ /\ ~(MayGrow(l) /\ seed'[l] % kBranching = 0)
        /\ NewNode(l, height[l])
        /\ pc' = [pc EXCEPT ![l] = "ready"]
        /\ UNCHANGED height

Next ==
  \E l \in Lists :
    \/ NewList(l) \/ Insert(l) \/ RandomHeight(l)
    \/ ArenaStep(l) /\ UNCHANGED listVars

Spec == Init /\ [][Next]_vars

-----------------------------------------------------------------------------
\* Every variable has its type; the asserts on height in RandomHeight hold.
TypeOK ==
  /\ ArenaTypeOK
  /\ pc \in [Lists -> {"none", "ready", "draw"}]
  /\ seed \in [Lists -> 0 .. 2 * M + 1]
  /\ height \in [Lists -> 0 .. kMaxHeight]

\* Next computes (seed_ * A) % M, as random.h:29 says, without ever reaching the
\* seeds 0 and M.
DrawsMultiply ==
  [][\A l \in Lists :
       seed'[l] # seed[l] => /\ seed'[l] = (seed[l] * A) % M
                             /\ seed'[l] \in 1 .. M - 1]_vars

\* Whatever the seed, the draws of a list go through every number below M before
\* one comes again (random.h:31-33), so no list gets stuck at one height.
DrawsCycle ==
  \A l \in Lists :
    LET \* what 2^k draws make of a seed, and the first 2^k numbers drawn
        jump[k \in 0 .. Bits - 1] ==
          [s \in 0 .. M |-> IF k = 0 THEN NextSeed(s)
                            ELSE jump[k - 1][jump[k - 1][s]]]
        drawn[k \in 0 .. Bits] ==
          IF k = 0 THEN {seed[l]}
          ELSE drawn[k - 1] \cup {jump[k - 1][s] : s \in drawn[k - 1]}
    IN  drawn[Bits] = 1 .. M - 1
===============================================================================
