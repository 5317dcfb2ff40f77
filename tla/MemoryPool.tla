----------------------------- MODULE MemoryPool -----------------------------
(***************************************************************************)
(* MemoryPool of packages/core/src/memory: best-fit allocation of blocks   *)
(* in one buffer, with splitting, merging, growth and expiry.              *)
(*                                                                         *)
(* blocks and freeBlocks keep their insertion order, on which merging and  *)
(* the choice among equal fits depend.  A block is named by its offset,    *)
(* which never changes and which, by BlocksDisjoint, no two blocks share.  *)
(* Every operation is synchronous, and pure up to the new state.           *)
(***************************************************************************)
EXTENDS Integers, Functions, Selections

CONSTANTS InitialSize, MaxSize, GrowthFactor,
          BlockSize,     \* the smallest remainder that is split off
          Request        \* sizes that are asked for

ASSUME MemoryAssumption ==
    /\ InitialSize \in Nat \ {0} /\ MaxSize \in Nat /\ InitialSize <= MaxSize
    /\ GrowthFactor \in Nat \ {0} /\ BlockSize \in Nat \ {0}
    /\ Request \subseteq Nat \ {0}

Block == [offset: 0..(MaxSize - 1), size: 1..MaxSize,
          status: {"free", "allocated", "reserved"}]

VARIABLE memory    \* [blocks, freeBlocks, size]: size is the buffer's length

BlockNamed(m, o) == CHOOSE b \in Elements(m.blocks) : b.offset = o

FreeBlock(o, n) == [offset |-> o, size |-> n, status |-> "free"]

MemoryInit ==
    memory = [blocks |-> <<FreeBlock(0, InitialSize)>>, freeBlocks |-> <<0>>,
              size |-> InitialSize]

Fits(m, n) == {i \in DOMAIN m.freeBlocks : BlockNamed(m, m.freeBlocks[i]).size >= n}

\* findFreeBlock: the smallest that fits, among equals the one freed first.
BestFit(m, n) ==
    LET sizeOf(i) == BlockNamed(m, m.freeBlocks[i]).size
        i == CHOOSE i \in Fits(m, n) : \A j \in Fits(m, n) :
                 sizeOf(i) < sizeOf(j) \/ (sizeOf(i) = sizeOf(j) /\ i <= j)
    IN  m.freeBlocks[i]

Updated(blocks, o, n, status) ==
    [i \in DOMAIN blocks |-> IF blocks[i].offset = o
                             THEN [offset |-> o, size |-> n, status |-> status] ELSE blocks[i]]

SplitAndAllocate(m, o, n, status) ==
    LET rest == BlockNamed(m, o).size - n
        others == Select(m.freeBlocks, Elements(m.freeBlocks) \ {o})
    IN  IF rest >= BlockSize
        THEN [m EXCEPT !.blocks = Append(Updated(@, o, n, status), FreeBlock(o + n, rest)),
                       !.freeBlocks = Append(others, o + n)]
        ELSE [m EXCEPT !.blocks = Updated(@, o, n + rest, status), !.freeBlocks = others]

GrownSize(m) == IF m.size * GrowthFactor < MaxSize THEN m.size * GrowthFactor ELSE MaxSize

\* The new memory is a block of its own, whatever free block ends before it.
Grown(m) ==
    [blocks |-> Append(m.blocks, FreeBlock(m.size, GrownSize(m) - m.size)),
     freeBlocks |-> Append(m.freeBlocks, m.size), size |-> GrownSize(m)]

\* allocate, or reserve, whose blocks can never be freed.  The pool grows once
\* at most; when that is not enough it throws, and has grown.
Allocate(n, status) ==
    \/ /\ Fits(memory, n) # {}
       /\ memory' = SplitAndAllocate(memory, BestFit(memory, n), n, status)
    \/ /\ Fits(memory, n) = {} /\ memory.size # 0 /\ GrownSize(memory) # memory.size
       /\ LET m == Grown(memory)
          IN  memory' = IF Fits(m, n) # {} THEN SplitAndAllocate(m, BestFit(m, n), n, status)
                        ELSE m

\* Mutation: neighbours are absorbed whether they are free or not.
MergeAny(acc, other) ==
    IF other.offset = acc.offset THEN acc
    ELSE IF acc.offset + acc.size = other.offset
    THEN [acc EXCEPT !.size = @ + other.size, !.deleted = @ \cup {other.offset}]
    ELSE IF other.offset + other.size = acc.offset
    THEN [acc EXCEPT !.joined = other.size + acc.size, !.host = other.offset,
                     !.deleted = @ \cup {acc.offset}]
    ELSE acc

\* One turn of the loop of mergeAdjacentBlocks.  acc is the block that was freed:
\* it goes on absorbing what follows it after it has itself been absorbed (by
\* host, whose size is joined).
MergeWith(acc, other) ==
    IF other.offset = acc.offset \/ other.status # "free" THEN acc
    ELSE IF acc.offset + acc.size = other.offset
    THEN [acc EXCEPT !.size = @ + other.size, !.deleted = @ \cup {other.offset}]
    ELSE IF other.offset + other.size = acc.offset
    THEN [acc EXCEPT !.joined = other.size + acc.size, !.host = other.offset,
                     !.deleted = @ \cup {acc.offset}]
    ELSE acc

Accumulator(o, n) == [offset |-> o, size |-> n, host |-> -1, joined |-> 0, deleted |-> {}]

\* The whole loop.
Merged(m, o) ==
    LET after[i \in 0..Len(m.blocks)] ==
            IF i = 0 THEN Accumulator(o, BlockNamed(m, o).size)
            ELSE MergeWith(after[i - 1], m.blocks[i])
    IN  after[Len(m.blocks)]

\* What acc changed: the sizes of the block and of its host, and the two Maps.
Absorbed(m, o, acc) ==
    LET own == Updated(m.blocks, o, acc.size, "free")
        all == IF acc.host = -1 THEN own ELSE Updated(own, acc.host, acc.joined, "free")
        free == Append(m.freeBlocks, o)
    IN  [m EXCEPT !.blocks = Select(all, {b \in Elements(all) : b.offset \notin acc.deleted}),
                  !.freeBlocks = Select(free, Elements(free) \ acc.deleted)]

\* free, for a block that is allocated.
Freed(m, o) == Absorbed(m, o, Merged(m, o))

Allocated(m) == {b \in Elements(m.blocks) : b.status = "allocated"}

Free(b) == b \in Allocated(memory) /\ memory' = Freed(memory, b.offset)

\* cleanup frees the blocks that are too old, in the order of the Map.
Expired(m, old) ==
    LET after[i \in 0..Len(m.blocks)] ==
            IF i = 0 THEN m
            ELSE LET b == m.blocks[i] IN
                 IF b \in old \cap Allocated(after[i - 1]) THEN Freed(after[i - 1], b.offset)
                 ELSE after[i - 1]
    IN  after[Len(m.blocks)]

Cleanup == \E old \in (SUBSET Allocated(memory)) \ {{}} : memory' = Expired(memory, old)

Close ==
    /\ memory.size # 0
    /\ memory' = [blocks |-> <<>>, freeBlocks |-> <<>>, size |-> 0]

MemoryNext ==
    \/ \E n \in Request : Allocate(n, "allocated") \/ Allocate(n, "reserved")
    \/ \E b \in Allocated(memory) : Free(b)
    \/ Cleanup \/ Close

MemorySpec == MemoryInit /\ [][MemoryNext]_memory
-----------------------------------------------------------------------------
MemoryTypeOK ==
    /\ memory.blocks \in Seq(Block)
    /\ memory.freeBlocks \in Seq(0..(MaxSize - 1))
    /\ memory.size \in 0..MaxSize

Cells(b) == b.offset..(b.offset + b.size - 1)

\* Splits, merges, growth and expiry never let two blocks overlap or reach past
\* the buffer, and freeBlocks lists each free block once and no other.
BlocksDisjoint ==
    /\ \A i, j \in DOMAIN memory.blocks :
         i # j => Cells(memory.blocks[i]) \cap Cells(memory.blocks[j]) = {}
    /\ \A b \in Elements(memory.blocks) : Cells(b) \subseteq 0..(memory.size - 1)
    /\ IsInjective(memory.freeBlocks)
    /\ Elements(memory.freeBlocks) = {b.offset : b \in {c \in Elements(memory.blocks) : c.status = "free"}}

\* getStats calls everything free that is not used (pool.ts:418): that much can
\* be allocated again.
FreeMemoryIsUsable ==
    memory.size = Cardinality(UNION {Cells(b) : b \in Elements(memory.blocks)})
=============================================================================
