----------------------- MODULE MemoryCollectorProofs -----------------------
(***************************************************************************)
(* The two managers whose proofs are the longest: the memory pool and the  *)
(* data collector.                                                         *)
(***************************************************************************)
EXTENDS MemoryPool, DataCollector, DataLemmas
-----------------------------------------------------------------------------
(***************************************************************************)
(* MemoryTypeOK and BlocksDisjoint for any sizes, growth and requests.     *)
(*                                                                         *)
(* The loop of mergeAdjacentBlocks and the one of cleanup are iterations:  *)
(* what a turn keeps, the loop keeps (KeptByIteration).  While blocks are  *)
(* merged, what overlaps nothing is not the state but the accumulator,     *)
(* with the blocks that are not going to be deleted (Absorbing).           *)
(***************************************************************************)

MemoryState == [blocks: Seq(Block), freeBlocks: Seq(0..(MaxSize - 1)), size: 0..MaxSize]

\* One ends before the other begins.
Apart(a, b) == a.offset + a.size <= b.offset \/ b.offset + b.size <= a.offset

Tiled(blocks, n) ==
    /\ \A i, j \in DOMAIN blocks : i # j => Apart(blocks[i], blocks[j])
    /\ \A i \in DOMAIN blocks : blocks[i].offset + blocks[i].size <= n

FreeOffsets(blocks) ==
    {blocks[i].offset : i \in {j \in DOMAIN blocks : blocks[j].status = "free"}}

Listed(m) == IsInjective(m.freeBlocks) /\ Elements(m.freeBlocks) = FreeOffsets(m.blocks)

MemoryFine(m) == m \in MemoryState /\ Tiled(m.blocks, m.size) /\ Listed(m)

MemoryInv == MemoryFine(memory)

LEMMA BlockFields ==
    ASSUME NEW b \in Block
    PROVE  /\ b.offset \in Nat /\ b.size \in Nat /\ b.size >= 1
           /\ b.offset \in 0..(MaxSize - 1) /\ b.size \in 1..MaxSize
           /\ b.status \in {"free", "allocated", "reserved"}
<1>1. MaxSize \in Nat
  BY MemoryAssumption DEF MemoryAssumption
<1>. QED  BY <1>1 DEF Block

\* A position of the Map holds a block, and no other one begins where it does.
LEMMA BlocksAt ==
    ASSUME NEW blocks \in Seq(Block), NEW n \in Nat, Tiled(blocks, n)
    PROVE  /\ \A i \in DOMAIN blocks :
                /\ blocks[i] \in Block /\ blocks[i].offset \in Nat /\ blocks[i].size \in Nat
                /\ blocks[i].size >= 1
           /\ \A i, j \in DOMAIN blocks : blocks[i].offset = blocks[j].offset => i = j
<1>1. \A i \in DOMAIN blocks :
          /\ blocks[i] \in Block /\ blocks[i].offset \in Nat /\ blocks[i].size \in Nat
          /\ blocks[i].size >= 1
  <2>1. \A i \in DOMAIN blocks : blocks[i] \in Block
    OBVIOUS
  <2>2. \A b \in Block : b.offset \in Nat /\ b.size \in Nat /\ b.size >= 1
    BY BlockFields
  <2>. QED  BY <2>1, <2>2
<1>2. ASSUME NEW i \in DOMAIN blocks, NEW j \in DOMAIN blocks, i # j
      PROVE  blocks[i].offset # blocks[j].offset
  <2>1. Apart(blocks[i], blocks[j])
    BY <1>2 DEF Tiled
  <2>. QED  BY <1>1, <2>1 DEF Apart
<1>. QED  BY <1>1, <1>2

LEMMA NamedBlock ==
    ASSUME NEW m, m.blocks \in Seq(Block), NEW n \in Nat, Tiled(m.blocks, n),
           NEW i \in DOMAIN m.blocks
    PROVE  BlockNamed(m, m.blocks[i].offset) = m.blocks[i]
<1>1. \A b \in Elements(m.blocks) : b.offset = m.blocks[i].offset => b = m.blocks[i]
  BY BlocksAt DEF Elements
<1>2. m.blocks[i] \in Elements(m.blocks)
  BY DEF Elements
<1>. QED  BY <1>1, <1>2 DEF BlockNamed

\* A selection of blocks that are apart.
LEMMA SelectTiled ==
    ASSUME NEW blocks \in Seq(Block), NEW K, NEW n,
           \A i, j \in DOMAIN blocks :
               i # j /\ blocks[i] \in K /\ blocks[j] \in K => Apart(blocks[i], blocks[j]),
           \A i \in DOMAIN blocks : blocks[i] \in K => blocks[i].offset + blocks[i].size <= n
    PROVE  Tiled(Select(blocks, K), n)
<1>. DEFINE c == Cardinality(Positions(blocks, K))
            f == [k \in 1..c |-> Nth(Positions(blocks, K), k)]
            s == Select(blocks, K)
<1>1. /\ c \in Nat /\ s \in [1..c -> Block \cap K]
      /\ f \in [1..c -> DOMAIN blocks]
      /\ \A k \in 1..c : s[k] = blocks[f[k]]
      /\ \A k, l \in 1..c : k < l <=> f[k] < f[l]
  BY SelectOrder
<1>2. \A k \in 1..c : f[k] \in DOMAIN blocks /\ f[k] \in Int /\ blocks[f[k]] \in K /\ s[k] = blocks[f[k]]
  <2>. HIDE DEF f, s
  <2>1. \A i \in DOMAIN blocks : i \in Int
    OBVIOUS
  <2>. QED  BY <1>1, <2>1
<1>3. \A k, l \in 1..c : k # l => f[k] # f[l]
  <2>. HIDE DEF f, c, s
  <2>. QED  BY <1>1, <1>2
<1>4. DOMAIN s = 1..c
  BY <1>1
<1>. HIDE DEF f, c, s
<1>5. Tiled(s, n)
  BY <1>2, <1>3, <1>4 DEF Tiled
<1>. QED  BY <1>5 DEF s

-----------------------------------------------------------------------------
Accumulators == [offset: Nat, size: Nat, host: Int, joined: Nat, deleted: SUBSET Nat]

\* acc is the block at position a with what it has absorbed: nothing that is not
\* deleted overlaps it, and its host, if any, ends where it begins.
Absorbing(m, a, acc) ==
    /\ acc \in Accumulators
    /\ acc.offset = m.blocks[a].offset /\ acc.size >= 1 /\ acc.offset + acc.size <= m.size
    /\ \A x \in acc.deleted : x >= acc.offset
    /\ acc.offset \in acc.deleted <=> acc.host # -1
    /\ \A i \in DOMAIN m.blocks :
         i # a /\ m.blocks[i].offset \notin acc.deleted => Apart(acc, m.blocks[i])
    /\ acc.host # -1 =>
         \E h \in DOMAIN m.blocks :
             /\ h # a /\ m.blocks[h].offset = acc.host /\ m.blocks[h].status = "free"
             /\ acc.host + m.blocks[h].size = acc.offset
             /\ acc.joined >= 1 /\ acc.joined <= m.blocks[h].size + acc.size

\* acc absorbs what follows it, or is absorbed by what precedes it.
Longer(acc, b) == [acc EXCEPT !.size = @ + b.size, !.deleted = @ \cup {b.offset}]

Hosted(acc, b) ==
    [acc EXCEPT !.joined = b.size + acc.size, !.host = b.offset, !.deleted = @ \cup {acc.offset}]

LEMMA LongerFields ==
    ASSUME NEW acc \in Accumulators, NEW b, b.size \in Nat, b.offset \in Nat
    PROVE  /\ Longer(acc, b) \in Accumulators
           /\ Longer(acc, b).offset = acc.offset
           /\ Longer(acc, b).size = acc.size + b.size
           /\ Longer(acc, b).host = acc.host
           /\ Longer(acc, b).joined = acc.joined
           /\ \A y : y \in Longer(acc, b).deleted <=> y \in acc.deleted \/ y = b.offset
<1>. DEFINE r == Longer(acc, b)
            d == acc.deleted \cup {b.offset}
            e == acc.size + b.size
<1>1. d \in SUBSET Nat /\ e \in Nat
  BY DEF Accumulators
<1>2. r = [acc EXCEPT !.size = e, !.deleted = d]
  BY DEF Longer
<1>. HIDE DEF d, e, r
<1>3. r \in Accumulators
  BY <1>1, <1>2 DEF Accumulators
<1>4. /\ r.offset = acc.offset /\ r.size = e
      /\ r.host = acc.host /\ r.joined = acc.joined /\ r.deleted = d
  BY <1>2 DEF Accumulators
<1>. QED  BY <1>3, <1>4 DEF d, e, r

LEMMA HostedFields ==
    ASSUME NEW acc \in Accumulators, NEW b, b.size \in Nat, b.offset \in Nat
    PROVE  /\ Hosted(acc, b) \in Accumulators
           /\ Hosted(acc, b).offset = acc.offset
           /\ Hosted(acc, b).size = acc.size
           /\ Hosted(acc, b).host = b.offset
           /\ Hosted(acc, b).joined = b.size + acc.size
           /\ \A y : y \in Hosted(acc, b).deleted <=> y \in acc.deleted \/ y = acc.offset
<1>. DEFINE r == Hosted(acc, b)
            d == acc.deleted \cup {acc.offset}
            e == b.size + acc.size
            h == b.offset
<1>1. d \in SUBSET Nat /\ e \in Nat /\ h \in Int
  BY DEF Accumulators
<1>2. r = [acc EXCEPT !.joined = e, !.host = h, !.deleted = d]
  BY DEF Hosted
<1>. HIDE DEF d, e, h, r
<1>3. r \in Accumulators
  BY <1>1, <1>2 DEF Accumulators
<1>4. /\ r.offset = acc.offset /\ r.size = acc.size
      /\ r.host = h /\ r.joined = e /\ r.deleted = d
  BY <1>2 DEF Accumulators
<1>. QED  BY <1>3, <1>4 DEF d, e, h, r

LEMMA MergeWithKeeps ==
    ASSUME NEW m, MemoryFine(m), NEW a \in DOMAIN m.blocks, NEW acc, Absorbing(m, a, acc),
           NEW i \in DOMAIN m.blocks
    PROVE  Absorbing(m, a, MergeWith(acc, m.blocks[i]))
<1>. DEFINE other == m.blocks[i]
<1>1. /\ m.blocks \in Seq(Block) /\ m.size \in Nat /\ Tiled(m.blocks, m.size)
  <2>1. MaxSize \in Nat
    BY MemoryAssumption DEF MemoryAssumption
  <2>. QED  BY <2>1 DEF MemoryFine, MemoryState
<1>2. /\ \A j \in DOMAIN m.blocks :
           /\ m.blocks[j] \in Block /\ m.blocks[j].offset \in Nat /\ m.blocks[j].size \in Nat
           /\ m.blocks[j].size >= 1
      /\ \A j, k \in DOMAIN m.blocks : m.blocks[j].offset = m.blocks[k].offset => j = k
  BY <1>1, BlocksAt
<1>3. /\ acc \in Accumulators /\ acc.offset \in Nat /\ acc.size \in Nat /\ acc.host \in Int
      /\ acc.joined \in Nat /\ acc.deleted \in SUBSET Nat
  BY DEF Absorbing, Accumulators
<1>4. CASE other.offset = acc.offset \/ other.status # "free"
  BY <1>4 DEF MergeWith
<1>5. ASSUME other.offset # acc.offset, other.status = "free", acc.offset + acc.size = other.offset
      PROVE  Absorbing(m, a, MergeWith(acc, other))
  <2>. DEFINE r == Longer(acc, other)
  <2>1. MergeWith(acc, other) = r
    BY <1>5 DEF MergeWith, Longer
  <2>2. /\ r \in Accumulators /\ r.offset = acc.offset /\ r.size = acc.size + other.size
        /\ r.host = acc.host /\ r.joined = acc.joined
        /\ \A y : y \in r.deleted <=> y \in acc.deleted \/ y = other.offset
    <3>1. other.size \in Nat /\ other.offset \in Nat 
      BY <1>2
    <3>. QED  BY <1>3, <3>1, LongerFields
  <2>. HIDE DEF r
  <2>3. i # a /\ other.offset > acc.offset
    BY <1>2, <1>3, <1>5 DEF Absorbing
  <2>4. r.offset = m.blocks[a].offset /\ r.size >= 1 /\ r.offset + r.size <= m.size
    <3>1. other.offset + other.size <= m.size /\ other.size \in Nat /\ other.offset \in Nat
      BY <1>1, <1>2 DEF Tiled
    <3>2. acc.offset = m.blocks[a].offset /\ acc.size >= 1
      BY DEF Absorbing
    <3>. HIDE DEF other
    <3>. QED  BY <1>3, <1>5, <2>2, <3>1, <3>2
  <2>5. \A x \in r.deleted : x >= r.offset
    BY <1>2, <1>3, <2>2, <2>3 DEF Absorbing
  <2>6. r.offset \in r.deleted <=> r.host # -1
    BY <2>2, <2>3, <1>2, <1>3 DEF Absorbing
  <2>7. ASSUME NEW j \in DOMAIN m.blocks, j # a, m.blocks[j].offset \notin r.deleted
        PROVE  Apart(r, m.blocks[j])
    <3>1. j # i /\ m.blocks[j].offset \notin acc.deleted
      BY <2>2, <2>7
    <3>2. Apart(acc, m.blocks[j]) /\ Apart(other, m.blocks[j])
      BY <1>1, <2>7, <3>1 DEF Absorbing, Tiled
    <3>. QED  BY <1>2, <1>3, <1>5, <2>2, <3>2 DEF Apart
  <2>8. ASSUME r.host # -1
        PROVE  \E h \in DOMAIN m.blocks :
                   /\ h # a /\ m.blocks[h].offset = r.host /\ m.blocks[h].status = "free"
                   /\ r.host + m.blocks[h].size = r.offset
                   /\ r.joined >= 1 /\ r.joined <= m.blocks[h].size + r.size
    <3>1. PICK h \in DOMAIN m.blocks :
                   /\ h # a /\ m.blocks[h].offset = acc.host /\ m.blocks[h].status = "free"
                   /\ acc.host + m.blocks[h].size = acc.offset
                   /\ acc.joined >= 1 /\ acc.joined <= m.blocks[h].size + acc.size
      BY <2>2, <2>8 DEF Absorbing
    <3>2. r.joined <= m.blocks[h].size + r.size
      BY <1>2, <1>3, <2>2, <3>1
    <3>. QED  BY <2>2, <3>1, <3>2
  <2>9. Absorbing(m, a, r)
    BY <2>2, <2>4, <2>5, <2>6, <2>7, <2>8 DEF Absorbing
  <2>. QED  BY <2>1, <2>9
<1>6. ASSUME other.offset # acc.offset, other.status = "free", acc.offset + acc.size # other.offset,
             other.offset + other.size = acc.offset
      PROVE  Absorbing(m, a, MergeWith(acc, other))
  <2>. DEFINE r == Hosted(acc, other)
  <2>1. MergeWith(acc, other) = r
    BY <1>6 DEF MergeWith, Hosted
  <2>2. /\ r \in Accumulators /\ r.offset = acc.offset /\ r.size = acc.size
        /\ r.host = other.offset /\ r.joined = other.size + acc.size
        /\ \A y : y \in r.deleted <=> y \in acc.deleted \/ y = acc.offset
    <3>1. other.size \in Nat /\ other.offset \in Nat
      BY <1>2
    <3>. QED  BY <1>3, <3>1, HostedFields
  <2>. HIDE DEF r
  <2>3. i # a /\ r.host # -1
    BY <1>2, <1>3, <1>6, <2>2 DEF Absorbing
  <2>4. \A x \in r.deleted : x >= r.offset
    BY <1>3, <2>2 DEF Absorbing
  <2>5. \A j \in DOMAIN m.blocks :
           j # a /\ m.blocks[j].offset \notin r.deleted => Apart(r, m.blocks[j])
    BY <2>2 DEF Absorbing, Apart
  <2>6. /\ i # a /\ m.blocks[i].offset = r.host /\ m.blocks[i].status = "free"
        /\ r.host + m.blocks[i].size = r.offset
        /\ r.joined >= 1 /\ r.joined <= m.blocks[i].size + r.size
    BY <1>2, <1>3, <1>6, <2>2, <2>3
  <2>7. r.offset = m.blocks[a].offset /\ r.size >= 1 /\ r.offset + r.size <= m.size
        /\ (r.offset \in r.deleted <=> r.host # -1)
    BY <2>2, <2>3 DEF Absorbing
  <2>8. Absorbing(m, a, r)
    BY <2>2, <2>4, <2>5, <2>6, <2>7 DEF Absorbing
  <2>. QED  BY <2>1, <2>8
<1>7. CASE /\ other.offset # acc.offset /\ other.status = "free"
           /\ acc.offset + acc.size # other.offset /\ other.offset + other.size # acc.offset
  BY <1>7 DEF MergeWith
<1>. QED  BY <1>4, <1>5, <1>6, <1>7

\* The loop keeps what each turn keeps.
LEMMA MergedAbsorbing ==
    ASSUME NEW m, MemoryFine(m), NEW a \in DOMAIN m.blocks
    PROVE  Absorbing(m, a, Merged(m, m.blocks[a].offset))
<1>. DEFINE T == {x \in Accumulators : Absorbing(m, a, x)}
            n == Len(m.blocks)
            o == m.blocks[a].offset
            first == Accumulator(o, BlockNamed(m, o).size)
            Loop(g) == [i \in 0..n |-> IF i = 0 THEN first ELSE MergeWith(g[i - 1], m.blocks[i])]
            after == CHOOSE g : g = Loop(g)
            step == [i \in 1..n |-> [x \in T |-> MergeWith(x, m.blocks[i])]]
<1>1. /\ m.blocks \in Seq(Block) /\ m.size \in Nat /\ Tiled(m.blocks, m.size)
      /\ n \in Nat /\ DOMAIN m.blocks = 1..n
  <2>1. MaxSize \in Nat
    BY MemoryAssumption DEF MemoryAssumption
  <2>. QED  BY <2>1 DEF MemoryFine, MemoryState
<1>2. first \in T
  <2>. DEFINE b == m.blocks[a]
  <2>1. b.offset \in Nat /\ b.size \in Nat /\ b.size >= 1
    BY <1>1, BlocksAt
  <2>2. first = Accumulator(b.offset, b.size)
    BY <1>1, NamedBlock
  <2>3. /\ first \in Accumulators /\ first.offset = b.offset /\ first.size = b.size
        /\ first.host = -1 /\ first.deleted = {}
    BY <2>1, <2>2 DEF Accumulator, Accumulators
  <2>4. \A i \in DOMAIN m.blocks : i # a => Apart(b, m.blocks[i])
    BY <1>1 DEF Tiled
  <2>5. b.offset + b.size <= m.size
    BY <1>1 DEF Tiled
  <2>. HIDE DEF first
  <2>6. Absorbing(m, a, first)
    BY <2>1, <2>3, <2>4, <2>5 DEF Absorbing, Apart
  <2>. QED  BY <2>3, <2>6
<1>3. \A x \in T : \A i \in 1..n : MergeWith(x, m.blocks[i]) \in T
  BY <1>1, MergeWithKeeps DEF Absorbing
<1>. HIDE DEF first, T
<1>4. step \in [1..n -> [T -> T]]
  BY <1>3
<1>5. PICK g : Records(g, n, T, first, step)
  <2>. HIDE DEF step, n
  <2>. QED  BY <1>1, <1>2, <1>4, IterationExists
<1>6. g = Loop(g)
  <2>1. \A i \in 1..n : i - 1 \in 0..n
    BY <1>1
  <2>2. \A i \in 1..n : g[i] = MergeWith(g[i - 1], m.blocks[i])
    BY <1>5, <2>1 DEF Records
  <2>3. \A i \in 0..n : i = 0 \/ i \in 1..n
    BY <1>1
  <2>. HIDE DEF step, n
  <2>4. \A i \in 0..n : g[i] = IF i = 0 THEN first ELSE MergeWith(g[i - 1], m.blocks[i])
    BY <1>5, <2>2, <2>3 DEF Records
  <2>5. g = [i \in 0..n |-> g[i]]
    BY <1>5 DEF Records
  <2>. QED  BY <2>4, <2>5
<1>7. after = Loop(after)
  <2>. HIDE DEF Loop
  <2>. QED  BY <1>6
<1>8. after[0] = first /\ \A i \in 1..n : after[i] = MergeWith(after[i - 1], m.blocks[i])
  <2>. HIDE DEF after
  <2>1. 0 \in 0..n /\ \A i \in 1..n : i \in 0..n /\ i # 0
    BY <1>1
  <2>. QED  BY <1>7, <2>1
<1>9. \A i \in 0..n : after[i] \in T
  <2>. HIDE DEF after, n
  <2>1. \A i \in 1..n : after[i - 1] \in T => after[i] \in T
    BY <1>3, <1>8
  <2>. QED  BY <1>1, <1>2, <1>8, <2>1, KeptByIteration
<1>10. Merged(m, o) = after[n]
  BY DEF Merged, first
<1>11. after[n] \in T
  <2>. HIDE DEF after, n
  <2>. QED  BY <1>1, <1>9
<1>. QED  BY <1>10, <1>11 DEF T

\* A block that is given a size and a status.
LEMMA UpdatedBlocks ==
    ASSUME NEW blocks \in Seq(Block), NEW o \in Nat, NEW n \in 1..MaxSize,
           NEW status \in {"free", "allocated", "reserved"}, o \in 0..(MaxSize - 1),
           NEW r, r = Updated(blocks, o, n, status)
    PROVE  /\ r \in Seq(Block) /\ DOMAIN r = DOMAIN blocks
           /\ \A i \in DOMAIN blocks :
                /\ r[i].offset = blocks[i].offset
                /\ blocks[i].offset = o => r[i].size = n /\ r[i].status = status
                /\ blocks[i].offset # o => r[i] = blocks[i]
<1>. DEFINE b == [offset |-> o, size |-> n, status |-> status]
<1>1. b \in Block /\ b.offset = o /\ b.size = n /\ b.status = status
  BY DEF Block
<1>2. r = [i \in DOMAIN blocks |-> IF blocks[i].offset = o THEN b ELSE blocks[i]]
  BY DEF Updated
<1>. HIDE DEF b
<1>3. DOMAIN r = DOMAIN blocks
  BY <1>2
<1>4. r \in Seq(Block)
  <2>1. DOMAIN blocks = 1..Len(blocks) /\ Len(blocks) \in Nat /\ \A i \in DOMAIN blocks : blocks[i] \in Block
    OBVIOUS
  <2>2. r \in [1..Len(blocks) -> Block]
    BY <1>1, <1>2, <2>1
  <2>. QED  BY <2>1, <2>2
<1>5. \A i \in DOMAIN blocks : r[i] = IF blocks[i].offset = o THEN b ELSE blocks[i]
  BY <1>2
<1>6. \A i \in DOMAIN blocks :
          /\ r[i].offset = blocks[i].offset
          /\ blocks[i].offset = o => r[i].size = n /\ r[i].status = status
          /\ blocks[i].offset # o => r[i] = blocks[i]
  BY <1>1, <1>5
<1>. QED  BY <1>3, <1>4, <1>6

Lengthened(m, o, acc) ==
    LET own == Updated(m.blocks, o, acc.size, "free")
    IN  IF acc.host = -1 THEN own ELSE Updated(own, acc.host, acc.joined, "free")

LEMMA LengthenedBlocks ==
    ASSUME NEW m, MemoryFine(m), NEW a \in DOMAIN m.blocks, m.blocks[a].status = "allocated",
           NEW acc, Absorbing(m, a, acc),
           NEW all, all = Lengthened(m, m.blocks[a].offset, acc)
    PROVE  /\ all \in Seq(Block) /\ DOMAIN all = DOMAIN m.blocks
           /\ \A i \in DOMAIN m.blocks : all[i].offset = m.blocks[i].offset
           /\ \A i \in DOMAIN m.blocks : all[i].offset \notin acc.deleted =>
                /\ all[i].offset + all[i].size <= m.size
                /\ all[i].status = "free" <=> i = a \/ m.blocks[i].status = "free"
           /\ \A i, j \in DOMAIN m.blocks :
                i # j /\ all[i].offset \notin acc.deleted /\ all[j].offset \notin acc.deleted =>
                    Apart(all[i], all[j])
<1>. DEFINE B == m.blocks
            o == B[a].offset
<1>1. B \in Seq(Block) /\ m.size \in 0..MaxSize /\ m.size \in Nat /\ Tiled(B, m.size) /\ MaxSize \in Nat
  <2>1. MaxSize \in Nat
    BY MemoryAssumption DEF MemoryAssumption
  <2>. QED  BY <2>1 DEF MemoryFine, MemoryState
<1>2. /\ \A i \in DOMAIN B :
           /\ B[i] \in Block /\ B[i].offset \in Nat /\ B[i].size \in Nat /\ B[i].size >= 1
           /\ B[i].offset \in 0..(MaxSize - 1) /\ B[i].offset + B[i].size <= m.size
      /\ \A i, j \in DOMAIN B : B[i].offset = B[j].offset => i = j
      /\ \A i, j \in DOMAIN B : i # j => Apart(B[i], B[j])
  <2>1. \A i \in DOMAIN B : B[i] \in Block
    BY <1>1
  <2>2. \A i \in DOMAIN B : B[i].offset \in 0..(MaxSize - 1)
    BY <2>1, BlockFields
  <2>. QED  BY <1>1, <2>1, <2>2, BlocksAt DEF Tiled
<1>3. /\ acc.offset = o /\ acc.size \in Nat /\ acc.host \in Int /\ acc.joined \in Nat
      /\ acc.size >= 1 /\ acc.offset + acc.size <= m.size
      /\ \A x \in acc.deleted : x >= acc.offset
      /\ acc.offset \in acc.deleted <=> acc.host # -1
      /\ \A i \in DOMAIN B : i # a /\ B[i].offset \notin acc.deleted => Apart(acc, B[i])
  BY DEF Absorbing, Accumulators
<1>a. PICK own : own = Updated(B, acc.offset, acc.size, "free")
  OBVIOUS
<1>4. /\ own \in Seq(Block) /\ DOMAIN own = DOMAIN B
      /\ \A i \in DOMAIN B :
           /\ own[i].offset = B[i].offset
           /\ i = a => own[i].size = acc.size /\ own[i].status = "free"
           /\ i # a => own[i] = B[i]
  <2>1. acc.size \in 1..MaxSize /\ acc.offset \in Nat /\ acc.offset \in 0..(MaxSize - 1)
    BY <1>1, <1>2, <1>3
  <2>2. /\ own \in Seq(Block) /\ DOMAIN own = DOMAIN B
        /\ \A i \in DOMAIN B :
             /\ own[i].offset = B[i].offset
             /\ B[i].offset = acc.offset => own[i].size = acc.size /\ own[i].status = "free"
             /\ B[i].offset # acc.offset => own[i] = B[i]
    <3>1. PICK blocks : blocks = B
      OBVIOUS
    <3>2. blocks \in Seq(Block) /\ own = Updated(blocks, acc.offset, acc.size, "free")
      BY <1>1, <1>a, <3>1
    <3>3. /\ own \in Seq(Block) /\ DOMAIN own = DOMAIN blocks
          /\ \A i \in DOMAIN blocks :
               /\ own[i].offset = blocks[i].offset
               /\ blocks[i].offset = acc.offset => own[i].size = acc.size /\ own[i].status = "free"
               /\ blocks[i].offset # acc.offset => own[i] = blocks[i]
      BY <2>1, <3>2, UpdatedBlocks
    <3>. QED  BY <3>1, <3>3
  <2>3. \A i \in DOMAIN B : B[i].offset = acc.offset <=> i = a
    BY <1>2, <1>3
  <2>. QED  BY <2>2, <2>3
<1>5. CASE acc.host = -1
  <2>1. all = own
    BY <1>3, <1>5, <1>a DEF Lengthened
  <2>2. \A i \in DOMAIN B :
            /\ all[i].offset + all[i].size <= m.size
            /\ all[i].status = "free" <=> i = a \/ B[i].status = "free"
    <3>1. ASSUME NEW i \in DOMAIN B, i = a
          PROVE  all[i].offset + all[i].size <= m.size /\ all[i].status = "free"
      BY <1>3, <1>4, <2>1, <3>1
    <3>2. ASSUME NEW i \in DOMAIN B, i # a
          PROVE  /\ all[i].offset + all[i].size <= m.size
                 /\ all[i].status = "free" <=> B[i].status = "free"
      BY <1>2, <1>4, <2>1, <3>2
    <3>. QED  BY <3>1, <3>2
  <2>3. ASSUME NEW i \in DOMAIN B, NEW j \in DOMAIN B, i # j,
               all[i].offset \notin acc.deleted, all[j].offset \notin acc.deleted
        PROVE  Apart(all[i], all[j])
    <3>1. CASE i = a
      <4>1. Apart(acc, B[j]) /\ all[j] = B[j]
        BY <1>3, <1>4, <2>1, <2>3, <3>1
      <4>2. all[i].offset = acc.offset /\ all[i].size = acc.size
        BY <1>3, <1>4, <2>1, <3>1
      <4>. QED  BY <4>1, <4>2 DEF Apart
    <3>2. CASE j = a
      <4>1. Apart(acc, B[i]) /\ all[i] = B[i]
        BY <1>3, <1>4, <2>1, <2>3, <3>2
      <4>2. all[j].offset = acc.offset /\ all[j].size = acc.size
        BY <1>3, <1>4, <2>1, <3>2
      <4>. QED  BY <4>1, <4>2 DEF Apart
    <3>3. CASE i # a /\ j # a
      BY <1>2, <1>4, <2>1, <2>3, <3>3
    <3>. QED  BY <3>1, <3>2, <3>3
  <2>. QED  BY <1>4, <2>1, <2>2, <2>3
<1>6. CASE acc.host # -1
  <2>1. PICK h \in DOMAIN B :
            /\ h # a /\ B[h].offset = acc.host /\ B[h].status = "free"
            /\ acc.host + B[h].size = acc.offset
            /\ acc.joined >= 1 /\ acc.joined <= B[h].size + acc.size
    BY <1>6 DEF Absorbing
  <2>2. all = Updated(own, acc.host, acc.joined, "free")
    BY <1>3, <1>6, <1>a DEF Lengthened
  <2>3. acc.joined \in 1..MaxSize /\ acc.host \in Nat /\ acc.host \in 0..(MaxSize - 1)
    <3>1. B[h].offset \in Nat /\ B[h].size \in Nat /\ B[h].offset \in 0..(MaxSize - 1)
      BY <1>2, <2>1
    <3>2. acc.joined <= MaxSize
      BY <1>1, <1>3, <2>1, <3>1
    <3>. QED  BY <1>1, <1>3, <2>1, <3>1, <3>2
  <2>4. /\ all \in Seq(Block) /\ DOMAIN all = DOMAIN own
        /\ \A i \in DOMAIN own :
               /\ all[i].offset = own[i].offset
               /\ own[i].offset = acc.host => all[i].size = acc.joined /\ all[i].status = "free"
               /\ own[i].offset # acc.host => all[i] = own[i]
    BY <1>4, <2>2, <2>3, UpdatedBlocks
  <2>5. /\ \A i \in DOMAIN B : all[i].offset = B[i].offset
        /\ \A i \in DOMAIN B : i # a /\ i # h => all[i] = B[i]
        /\ all[h].size = acc.joined /\ all[h].status = "free" /\ all[h].offset = acc.host
        /\ all[a].offset \in acc.deleted
    BY <1>2, <1>3, <1>4, <1>6, <2>1, <2>4
  <2>6. \A i \in DOMAIN B : all[i].offset \notin acc.deleted =>
            /\ all[i].offset + all[i].size <= m.size
            /\ all[i].status = "free" <=> i = a \/ B[i].status = "free"
    <3>1. ASSUME NEW i \in DOMAIN B, all[i].offset \notin acc.deleted, i # h
          PROVE  i # a /\ all[i] = B[i]
      BY <2>5, <3>1
    <3>2. B[h].offset \in Nat /\ B[h].size \in Nat
      BY <1>2, <2>1
    <3>3. all[h].offset + all[h].size <= m.size
      BY <1>1, <1>3, <2>1, <2>5, <3>2
    <3>. QED  BY <1>2, <2>1, <2>5, <3>1, <3>3
  <2>7. ASSUME NEW j \in DOMAIN B, j # h, all[j].offset \notin acc.deleted
        PROVE  Apart(all[h], all[j]) /\ Apart(all[j], all[h])
    <3>1. j # a /\ all[j] = B[j]
      BY <2>5, <2>7
    <3>2. Apart(B[h], B[j]) /\ Apart(acc, B[j])
      BY <1>2, <1>3, <2>5, <2>7, <3>1
    <3>. QED  BY <1>2, <1>3, <2>1, <2>5, <3>1, <3>2 DEF Apart
  <2>8. ASSUME NEW i \in DOMAIN B, NEW j \in DOMAIN B, i # j,
               all[i].offset \notin acc.deleted, all[j].offset \notin acc.deleted
        PROVE  Apart(all[i], all[j])
    <3>1. CASE i = h \/ j = h
      BY <2>7, <2>8, <3>1
    <3>2. CASE i # h /\ j # h
      BY <1>2, <2>5, <2>8, <3>2
    <3>. QED  BY <3>1, <3>2
  <2>. QED  BY <1>4, <2>4, <2>5, <2>6, <2>8
<1>. QED  BY <1>5, <1>6

LEMMA WithoutElements ==
    ASSUME NEW S, NEW s \in Seq(S), Distinct(s), NEW D
    PROVE  LET r == Select(s, Elements(s) \ D)
           IN  /\ r \in Seq(S) /\ Distinct(r)
               /\ \A x : x \in Elements(r) <=> x \in Elements(s) /\ x \notin D
<1>. DEFINE r == Select(s, Elements(s) \ D)
<1>1. PICK K : K = Elements(s) \ D
  OBVIOUS
<1>2. r = Select(s, K)
  BY <1>1
<1>3. r \in Seq(S) /\ Elements(r) = Elements(s) \cap K
  <2>1. /\ Select(s, K) \in Seq(S) /\ Len(Select(s, K)) <= Len(s)
        /\ Elements(Select(s, K)) = Elements(s) \cap K
    BY SelectValues
  <2>. QED  BY <1>2, <2>1
<1>4. Distinct(r)
  BY <1>2, SelectDistinct
<1>. QED  BY <1>1, <1>3, <1>4

\* No two blocks begin at the same place.
OneEach(blocks) == \A i, j \in DOMAIN blocks : blocks[i].offset = blocks[j].offset => i = j

\* Among those that are not in D the block at a is free as well.
FreedAt(all, blocks, a, D) ==
    /\ DOMAIN all = DOMAIN blocks
    /\ \A i \in DOMAIN blocks : all[i].offset = blocks[i].offset
    /\ \A i \in DOMAIN blocks : all[i].offset \notin D =>
         (all[i].status = "free" <=> i = a \/ blocks[i].status = "free")

\* The block at a, which is called o, is freed, and blocks and list lose what is
\* in D: left and free are what remains.
Losing(blocks, list, all, a, o, D, left, free) ==
    /\ blocks \in Seq(Block) /\ OneEach(blocks)
    /\ a \in DOMAIN blocks /\ blocks[a].offset = o /\ blocks[a].status # "free"
    /\ list \in Seq(0..(MaxSize - 1)) /\ IsInjective(list) /\ Elements(list) = FreeOffsets(blocks)
    /\ all \in Seq(Block) /\ FreedAt(all, blocks, a, D)
    /\ left = Select(all, {b \in Elements(all) : b.offset \notin D})
    /\ free = Select(Append(list, o), Elements(Append(list, o)) \ D)

LEMMA ListedAfter ==
    ASSUME NEW blocks, NEW list, NEW all, NEW a, NEW o, NEW D, NEW left, NEW free,
           Losing(blocks, list, all, a, o, D, left, free)
    PROVE  free \in Seq(0..(MaxSize - 1)) /\ IsInjective(free) /\ Elements(free) = FreeOffsets(left)
<1>. DEFINE S == 0..(MaxSize - 1)
<1>a. left = Select(all, {b \in Elements(all) : b.offset \notin D})
  BY DEF Losing
<1>b. PICK longer : longer = Append(list, o)
  OBVIOUS
<1>c. free = Select(longer, Elements(longer) \ D)
  BY <1>b DEF Losing
<1>d. /\ blocks \in Seq(Block) /\ OneEach(blocks)
      /\ a \in DOMAIN blocks /\ blocks[a].offset = o /\ blocks[a].status # "free"
      /\ list \in Seq(S) /\ IsInjective(list) /\ Elements(list) = FreeOffsets(blocks)
      /\ all \in Seq(Block) /\ FreedAt(all, blocks, a, D)
  BY DEF Losing
<1>e. o \in S
  <2>1. blocks[a] \in Block
    BY <1>d
  <2>2. blocks[a].offset \in S
    BY <2>1, BlockFields
  <2>. QED  BY <1>d, <2>2
<1>. HIDE DEF S
<1>1. /\ longer \in Seq(S) /\ Elements(longer) = Elements(list) \cup {o}
      /\ Distinct(longer)
  <2>1. o \notin Elements(list)
    BY <1>d DEF FreeOffsets, OneEach
  <2>2. PICK one : one = <<o>>
    OBVIOUS
  <2>3. one \in Seq(S) /\ Elements(one) = {o} /\ Distinct(one)
    BY <1>e, <2>2, SingletonSeq
  <2>4. Distinct(list)
    BY <1>d DEF Distinct, IsInjective
  <2>5. longer = list \o one
    BY <1>b, <1>d, <1>e, <2>2
  <2>6. longer \in Seq(S) /\ Elements(longer) = Elements(list) \cup Elements(one)
    BY <1>d, <2>3, <2>5, ConcatElements
  <2>7. Distinct(longer)
    <3>1. Elements(list) \cap Elements(one) = {}
      BY <2>1, <2>3
    <3>. QED  BY <1>d, <2>3, <2>4, <2>5, <3>1, ConcatDistinct
  <2>. QED  BY <2>3, <2>6, <2>7
<1>2. free \in Seq(S) /\ Distinct(free) /\ \A x : x \in Elements(free) <=> x \in Elements(longer) /\ x \notin D
  <2>1. longer \in Seq(S) /\ Distinct(longer)
    BY <1>1
  <2>2. /\ Select(longer, Elements(longer) \ D) \in Seq(S)
        /\ Distinct(Select(longer, Elements(longer) \ D))
        /\ \A x : x \in Elements(Select(longer, Elements(longer) \ D)) <=>
                    x \in Elements(longer) /\ x \notin D
    BY <2>1, WithoutElements
  <2>. QED  BY <1>c, <2>2
<1>3. \A b : b \in Elements(left) <=> b \in Elements(all) /\ b.offset \notin D
  <2>1. PICK K : K = {b \in Elements(all) : b.offset \notin D}
    OBVIOUS
  <2>2. left = Select(all, K)
    BY <1>a, <2>1
  <2>3. Elements(Select(all, K)) = Elements(all) \cap K
    BY <1>d, SelectValues
  <2>. QED  BY <2>1, <2>2, <2>3
<1>4. ASSUME NEW x
      PROVE  x \in FreeOffsets(left) <=>
                 \E i \in DOMAIN all : x = all[i].offset /\ all[i].offset \notin D /\ all[i].status = "free"
  <2>1. x \in FreeOffsets(left) <=> \E i \in DOMAIN left : x = left[i].offset /\ left[i].status = "free"
    BY DEF FreeOffsets
  <2>2. (\E i \in DOMAIN left : x = left[i].offset /\ left[i].status = "free") <=>
            \E b \in Elements(left) : x = b.offset /\ b.status = "free"
    BY DEF Elements
  <2>3. (\E b \in Elements(left) : x = b.offset /\ b.status = "free") <=>
            \E b \in Elements(all) : x = b.offset /\ b.offset \notin D /\ b.status = "free"
    BY <1>3
  <2>4. (\E b \in Elements(all) : x = b.offset /\ b.offset \notin D /\ b.status = "free") <=>
            \E i \in DOMAIN all : x = all[i].offset /\ all[i].offset \notin D /\ all[i].status = "free"
    BY DEF Elements
  <2>. QED  BY <2>1, <2>2, <2>3, <2>4
<1>5. ASSUME NEW x  PROVE x \in FreeOffsets(left) <=> x \notin D /\ (x = o \/ x \in FreeOffsets(blocks))
  <2>1. x \in FreeOffsets(blocks) <=>
            \E i \in DOMAIN blocks : x = blocks[i].offset /\ blocks[i].status = "free"
    BY DEF FreeOffsets
  <2>2. ASSUME NEW i \in DOMAIN all, x = all[i].offset, all[i].offset \notin D, all[i].status = "free"
        PROVE  x \notin D /\ (x = o \/ x \in FreeOffsets(blocks))
    <3>1. i \in DOMAIN blocks /\ x = blocks[i].offset
      BY <1>d, <2>2 DEF FreedAt
    <3>2. CASE i = a
      BY <1>d, <2>2, <3>1, <3>2
    <3>3. CASE i # a
      <4>1. blocks[i].status = "free"
        BY <1>d, <2>2, <3>1, <3>3 DEF FreedAt
      <4>. QED  BY <2>1, <2>2, <3>1, <4>1
    <3>. QED  BY <3>2, <3>3
  <2>3. ASSUME x \notin D, x = o
        PROVE  \E i \in DOMAIN all : x = all[i].offset /\ all[i].offset \notin D /\ all[i].status = "free"
    <3>1. a \in DOMAIN all /\ all[a].offset = x
      BY <1>d, <2>3 DEF FreedAt
    <3>2. all[a].status = "free"
      BY <1>d, <2>3, <3>1 DEF FreedAt
    <3>. QED  BY <2>3, <3>1, <3>2
  <2>4. ASSUME x \notin D, x \in FreeOffsets(blocks)
        PROVE  \E i \in DOMAIN all : x = all[i].offset /\ all[i].offset \notin D /\ all[i].status = "free"
    <3>1. PICK i \in DOMAIN blocks : x = blocks[i].offset /\ blocks[i].status = "free"
      BY <2>1, <2>4
    <3>2. i \in DOMAIN all /\ all[i].offset = x
      BY <1>d, <3>1 DEF FreedAt
    <3>3. all[i].status = "free"
      BY <1>d, <2>4, <3>1, <3>2 DEF FreedAt
    <3>. QED  BY <2>4, <3>2, <3>3
  <2>. QED  BY <1>4, <2>2, <2>3, <2>4
<1>6. Elements(free) = FreeOffsets(left)
  <2>1. \A x : x \in Elements(longer) <=> x = o \/ x \in FreeOffsets(blocks)
    BY <1>1, <1>d
  <2>2. \A x : x \in Elements(free) <=> x \in FreeOffsets(left)
    BY <1>2, <1>5, <2>1
  <2>. QED  BY <2>2
<1>7. IsInjective(free)
  BY <1>2 DEF Distinct, IsInjective
<1>. QED  BY <1>2, <1>6, <1>7 DEF S

LEMMA AbsorbedFine ==
    ASSUME NEW m, MemoryFine(m), NEW a \in DOMAIN m.blocks, m.blocks[a].status = "allocated",
           NEW acc, Absorbing(m, a, acc)
    PROVE  MemoryFine(Absorbed(m, m.blocks[a].offset, acc))
<1>. DEFINE o == m.blocks[a].offset
<1>1. /\ m.blocks \in Seq(Block) /\ m.size \in 0..MaxSize /\ m.size \in Nat /\ Tiled(m.blocks, m.size)
      /\ m.freeBlocks \in Seq(0..(MaxSize - 1)) /\ Listed(m) /\ m \in MemoryState
  <2>1. MaxSize \in Nat
    BY MemoryAssumption DEF MemoryAssumption
  <2>. QED  BY <2>1 DEF MemoryFine, MemoryState
<1>2. PICK blocks : blocks = m.blocks
  OBVIOUS
<1>3. PICK list : list = m.freeBlocks
  OBVIOUS
<1>4. PICK all : all = Lengthened(m, o, acc)
  OBVIOUS
<1>5. PICK longer : longer = Append(list, o)
  OBVIOUS
<1>6. PICK left : left = Select(all, {b \in Elements(all) : b.offset \notin acc.deleted})
  OBVIOUS
<1>7. PICK free : free = Select(longer, Elements(longer) \ acc.deleted)
  OBVIOUS
<1>8. Absorbed(m, o, acc) = [m EXCEPT !.blocks = left, !.freeBlocks = free]
  BY <1>3, <1>4, <1>5, <1>6, <1>7 DEF Absorbed, Lengthened
<1>9. /\ all \in Seq(Block) /\ DOMAIN all = DOMAIN blocks
      /\ \A i \in DOMAIN blocks : all[i].offset = blocks[i].offset
      /\ \A i \in DOMAIN blocks : all[i].offset \notin acc.deleted =>
           /\ all[i].offset + all[i].size <= m.size
           /\ all[i].status = "free" <=> i = a \/ blocks[i].status = "free"
      /\ \A i, j \in DOMAIN blocks :
           i # j /\ all[i].offset \notin acc.deleted /\ all[j].offset \notin acc.deleted =>
               Apart(all[i], all[j])
  BY <1>2, <1>4, LengthenedBlocks
<1>10. Tiled(left, m.size) /\ left \in Seq(Block)
  <2>. DEFINE K == {b \in Elements(all) : b.offset \notin acc.deleted}
  <2>1. \A i \in DOMAIN all : all[i] \in K <=> all[i].offset \notin acc.deleted
    BY DEF Elements
  <2>2. left = Select(all, K)
    BY <1>6
  <2>. HIDE DEF K
  <2>3. Tiled(left, m.size)
    BY <1>9, <2>1, <2>2, SelectTiled
  <2>. QED  BY <1>9, <2>2, <2>3, SelectValues
<1>11. free \in Seq(0..(MaxSize - 1)) /\ IsInjective(free) /\ Elements(free) = FreeOffsets(left)
  <2>1. blocks \in Seq(Block) /\ list \in Seq(0..(MaxSize - 1)) /\ a \in DOMAIN blocks
    BY <1>1, <1>2, <1>3
  <2>2. OneEach(blocks)
    BY <1>1, <1>2, BlocksAt DEF OneEach
  <2>3. IsInjective(list) /\ Elements(list) = FreeOffsets(blocks)
    BY <1>1, <1>2, <1>3 DEF Listed
  <2>4. FreedAt(all, blocks, a, acc.deleted)
    BY <1>9 DEF FreedAt
  <2>5. blocks[a].offset = o /\ blocks[a].status # "free"
    BY <1>2
  <2>6. Losing(blocks, list, all, a, o, acc.deleted, left, free)
    BY <1>5, <1>6, <1>7, <1>9, <2>1, <2>2, <2>3, <2>4, <2>5 DEF Losing
  <2>. QED  BY <2>6, ListedAfter
<1>12. PICK r : r = Absorbed(m, o, acc)
  OBVIOUS
<1>13. r.blocks = left /\ r.freeBlocks = free /\ r.size = m.size /\ r \in MemoryState
  BY <1>1, <1>8, <1>10, <1>11, <1>12 DEF MemoryState
<1>14. MemoryFine(r)
  BY <1>10, <1>11, <1>13 DEF MemoryFine, Listed
<1>. QED  BY <1>12, <1>14

LEMMA FreedFine ==
    ASSUME NEW m, MemoryFine(m), NEW b \in Allocated(m)
    PROVE  MemoryFine(Freed(m, b.offset))
<1>1. PICK a \in DOMAIN m.blocks : m.blocks[a] = b /\ m.blocks[a].status = "allocated"
  BY DEF Allocated, Elements
<1>. QED  BY <1>1, MergedAbsorbing, AbsorbedFine DEF Freed

\* One turn of cleanup, and all of them.
LEMMA ExpiredFine ==
    ASSUME NEW m, MemoryFine(m), NEW old
    PROVE  MemoryFine(Expired(m, old))
<1>. DEFINE T == {x \in MemoryState : MemoryFine(x)}
            n == Len(m.blocks)
            Turn(x, i) == IF m.blocks[i] \in old \cap Allocated(x) THEN Freed(x, m.blocks[i].offset) ELSE x
            Loop(g) == [i \in 0..n |-> IF i = 0 THEN m
                                       ELSE LET b == m.blocks[i] IN
                                            IF b \in old \cap Allocated(g[i - 1])
                                            THEN Freed(g[i - 1], b.offset) ELSE g[i - 1]]
            after == CHOOSE g : g = Loop(g)
            step == [i \in 1..n |-> [x \in T |-> Turn(x, i)]]
<1>1. m \in T /\ n \in Nat
  BY DEF MemoryFine, MemoryState
<1>2. \A x \in T : \A i \in 1..n : Turn(x, i) \in T
  <2>1. \A x \in T : \A b \in Allocated(x) : Freed(x, b.offset) \in T
    BY FreedFine DEF MemoryFine
  <2>. HIDE DEF T
  <2>. QED  BY <2>1
<1>. HIDE DEF T
<1>3. step \in [1..n -> [T -> T]]
  BY <1>2
<1>4. PICK g : Records(g, n, T, m, step)
  <2>. HIDE DEF step, n
  <2>. QED  BY <1>1, <1>3, IterationExists
<1>5. g = Loop(g)
  <2>1. \A i \in 1..n : i - 1 \in 0..n
    BY <1>1
  <2>2. \A i \in 1..n : g[i] = Turn(g[i - 1], i)
    BY <1>4, <2>1 DEF Records
  <2>3. \A i \in 0..n : i = 0 \/ i \in 1..n
    BY <1>1
  <2>. HIDE DEF step, n
  <2>4. \A i \in 0..n : g[i] = IF i = 0 THEN m ELSE Turn(g[i - 1], i)
    BY <1>4, <2>2, <2>3 DEF Records
  <2>5. g = [i \in 0..n |-> g[i]]
    BY <1>4 DEF Records
  <2>. QED  BY <2>4, <2>5
<1>6. after = Loop(after)
  <2>. HIDE DEF Loop
  <2>. QED  BY <1>5
<1>7. after[0] = m /\ \A i \in 1..n : after[i] = Turn(after[i - 1], i)
  <2>. HIDE DEF after
  <2>1. 0 \in 0..n /\ \A i \in 1..n : i \in 0..n /\ i # 0
    BY <1>1
  <2>. QED  BY <1>6, <2>1
<1>8. \A i \in 0..n : after[i] \in T
  <2>. HIDE DEF after, n, Turn
  <2>1. \A i \in 1..n : after[i - 1] \in T => after[i] \in T
    BY <1>2, <1>7
  <2>. QED  BY <1>1, <1>7, <2>1, KeptByIteration
<1>9. Expired(m, old) = after[n]
  BY DEF Expired
<1>10. after[n] \in T
  <2>. HIDE DEF after, n
  <2>. QED  BY <1>1, <1>8
<1>. QED  BY <1>9, <1>10 DEF T
-----------------------------------------------------------------------------
\* The two Maps of a pool of n cells.
Arranged(blocks, list, n) ==
    /\ blocks \in Seq(Block) /\ list \in Seq(0..(MaxSize - 1)) /\ Tiled(blocks, n)
    /\ IsInjective(list) /\ Elements(list) = FreeOffsets(blocks)

LEMMA FineParts ==
    ASSUME NEW m \in MemoryState
    PROVE  MemoryFine(m) <=> Arranged(m.blocks, m.freeBlocks, m.size)
BY DEF MemoryFine, MemoryState, Arranged, Listed

\* A free block is added that overlaps none.
LEMMA AddedFree ==
    ASSUME NEW blocks, NEW list, NEW n \in Nat, Arranged(blocks, list, n),
           NEW k \in Nat, n <= k, NEW b \in Block, b.status = "free", b.offset + b.size <= k,
           \A i \in DOMAIN blocks : Apart(blocks[i], b)
    PROVE  Arranged(Append(blocks, b), Append(list, b.offset), k)
<1>1. /\ blocks \in Seq(Block) /\ list \in Seq(0..(MaxSize - 1)) /\ Tiled(blocks, n)
      /\ IsInjective(list) /\ Elements(list) = FreeOffsets(blocks)
  BY DEF Arranged
<1>2. /\ b.offset \in Nat /\ b.size \in Nat /\ b.size >= 1 /\ b.offset \in 0..(MaxSize - 1)
      /\ \A i \in DOMAIN blocks : blocks[i].offset \in Nat /\ blocks[i].size \in Nat /\ blocks[i].size >= 1
  BY <1>1, BlockFields, BlocksAt
<1>3. PICK more : more = Append(blocks, b)
  OBVIOUS
<1>4. PICK longer : longer = Append(list, b.offset)
  OBVIOUS
<1>5. PICK l : l = Len(blocks) + 1
  OBVIOUS
<1>6. /\ more \in Seq(Block) /\ DOMAIN more = DOMAIN blocks \cup {l} /\ l \notin DOMAIN blocks
      /\ more[l] = b /\ \A i \in DOMAIN blocks : more[i] = blocks[i]
  BY <1>1, <1>3, <1>5
<1>7. Tiled(more, k)
  <2>1. ASSUME NEW i \in DOMAIN more, NEW j \in DOMAIN more, i # j
        PROVE  Apart(more[i], more[j])
    <3>1. CASE i = l
      BY <1>6, <2>1, <3>1 DEF Apart
    <3>2. CASE j = l
      BY <1>6, <2>1, <3>2 DEF Apart
    <3>3. CASE i # l /\ j # l
      BY <1>1, <1>6, <2>1, <3>3 DEF Tiled
    <3>. QED  BY <3>1, <3>2, <3>3
  <2>2. ASSUME NEW i \in DOMAIN more
        PROVE  more[i].offset + more[i].size <= k
    <3>1. CASE i = l
      BY <1>6, <3>1
    <3>2. CASE i # l
      <4>1. i \in DOMAIN blocks /\ more[i] = blocks[i]
        BY <1>6, <3>2
      <4>2. blocks[i].offset + blocks[i].size <= n
        BY <1>1, <4>1 DEF Tiled
      <4>. QED  BY <1>2, <4>1, <4>2
    <3>. QED  BY <3>1, <3>2
  <2>. QED  BY <2>1, <2>2 DEF Tiled
<1>8. ASSUME NEW x
      PROVE  x \in FreeOffsets(more) <=> x = b.offset \/ x \in FreeOffsets(blocks)
  <2>1. x \in FreeOffsets(more) <=> \E i \in DOMAIN more : x = more[i].offset /\ more[i].status = "free"
    BY DEF FreeOffsets
  <2>2. x \in FreeOffsets(blocks) <=> \E i \in DOMAIN blocks : x = blocks[i].offset /\ blocks[i].status = "free"
    BY DEF FreeOffsets
  <2>. QED  BY <1>6, <2>1, <2>2
<1>9. b.offset \notin FreeOffsets(blocks)
  <2>1. \A i \in DOMAIN blocks : blocks[i].offset # b.offset
    BY <1>2 DEF Apart
  <2>. QED  BY <2>1 DEF FreeOffsets
<1>10. /\ longer \in Seq(0..(MaxSize - 1)) /\ Distinct(longer)
       /\ \A x : x \in Elements(longer) <=> x = b.offset \/ x \in Elements(list)
  <2>. DEFINE S == 0..(MaxSize - 1)
  <2>0. list \in Seq(S) /\ b.offset \in S
    BY <1>1, <1>2
  <2>1. PICK o, one : o = b.offset /\ one = <<o>>
    OBVIOUS
  <2>. HIDE DEF S
  <2>2. one \in Seq(S) /\ Elements(one) = {o} /\ Distinct(one)
    BY <2>0, <2>1, SingletonSeq
  <2>3. Distinct(list)
    BY <1>1 DEF Distinct, IsInjective
  <2>4. longer = list \o one
    BY <1>4, <2>0, <2>1
  <2>5. longer \in Seq(S) /\ Elements(longer) = Elements(list) \cup Elements(one)
    BY <2>0, <2>2, <2>4, ConcatElements
  <2>6. Distinct(longer)
    <3>1. Elements(list) \cap Elements(one) = {}
      BY <1>1, <1>9, <2>1, <2>2
    <3>. QED  BY <2>0, <2>2, <2>3, <2>4, <3>1, ConcatDistinct
  <2>. QED  BY <2>1, <2>2, <2>5, <2>6 DEF S
<1>11. IsInjective(longer)
  BY <1>10 DEF Distinct, IsInjective
<1>12. Elements(longer) = FreeOffsets(more)
  <2>1. \A x : x \in Elements(list) <=> x \in FreeOffsets(blocks)
    BY <1>1
  <2>2. \A x : x \in Elements(longer) <=> x \in FreeOffsets(more)
    BY <1>8, <1>10, <2>1
  <2>. QED  BY <2>2
<1>13. Arranged(more, longer, k)
  BY <1>6, <1>7, <1>10, <1>11, <1>12 DEF Arranged
<1>. QED  BY <1>3, <1>4, <1>13

\* A free block is given away, in part or as a whole.
Taking(blocks, list, n, f, s, status, o, up) ==
    /\ n \in Nat /\ Arranged(blocks, list, n)
    /\ f \in DOMAIN blocks /\ blocks[f].status = "free" /\ o = blocks[f].offset
    /\ s \in Nat \ {0} /\ s <= blocks[f].size /\ status \in {"allocated", "reserved"}
    /\ up = Updated(blocks, o, s, status)

LEMMA TakenFree ==
    ASSUME NEW blocks, NEW list, NEW n, NEW f, NEW s, NEW status, NEW o, NEW up,
           Taking(blocks, list, n, f, s, status, o, up)
    PROVE  /\ Arranged(up, Select(list, Elements(list) \ {o}), n)
           /\ DOMAIN up = DOMAIN blocks /\ up[f].offset = o /\ up[f].size = s
           /\ \A i \in DOMAIN blocks : i # f => up[i] = blocks[i]
<1>. USE DEF Taking
<1>1. /\ blocks \in Seq(Block) /\ list \in Seq(0..(MaxSize - 1)) /\ Tiled(blocks, n)
      /\ IsInjective(list) /\ Elements(list) = FreeOffsets(blocks)
  BY DEF Arranged
<1>2. /\ \A i \in DOMAIN blocks :
           /\ blocks[i] \in Block /\ blocks[i].offset \in Nat /\ blocks[i].size \in Nat
           /\ blocks[i].size >= 1
      /\ \A i, j \in DOMAIN blocks : blocks[i].offset = blocks[j].offset => i = j
  BY <1>1, BlocksAt
<1>3. o \in Nat /\ o \in 0..(MaxSize - 1) /\ s \in 1..MaxSize
  <2>1. MaxSize \in Nat
    BY MemoryAssumption DEF MemoryAssumption
  <2>2. blocks[f].offset \in 0..(MaxSize - 1) /\ blocks[f].size \in 1..MaxSize
    BY <1>2, BlockFields
  <2>. QED  BY <2>1, <2>2
<1>4. /\ up \in Seq(Block) /\ DOMAIN up = DOMAIN blocks
      /\ \A i \in DOMAIN blocks :
           /\ up[i].offset = blocks[i].offset
           /\ blocks[i].offset = o => up[i].size = s /\ up[i].status = status
           /\ blocks[i].offset # o => up[i] = blocks[i]
  <2>1. status \in {"free", "allocated", "reserved"}
    OBVIOUS
  <2>. QED  BY <1>1, <1>3, <2>1, UpdatedBlocks
<1>5. /\ up[f].offset = o /\ up[f].size = s /\ up[f].status # "free"
      /\ \A i \in DOMAIN blocks : i # f => up[i] = blocks[i]
  BY <1>2, <1>4
<1>6. Tiled(up, n)
  <2>1. ASSUME NEW j \in DOMAIN blocks, j # f
        PROVE  Apart(up[f], up[j]) /\ Apart(up[j], up[f])
    <3>1. Apart(blocks[f], blocks[j])
      BY <1>1, <2>1 DEF Tiled
    <3>. QED  BY <1>2, <1>5, <2>1, <3>1 DEF Apart
  <2>2. ASSUME NEW i \in DOMAIN blocks, NEW j \in DOMAIN blocks, i # j
        PROVE  Apart(up[i], up[j])
    <3>1. CASE i = f \/ j = f
      BY <2>1, <2>2, <3>1
    <3>2. CASE i # f /\ j # f
      BY <1>1, <1>5, <2>2, <3>2 DEF Tiled
    <3>. QED  BY <3>1, <3>2
  <2>3. ASSUME NEW i \in DOMAIN blocks
        PROVE  up[i].offset + up[i].size <= n
    <3>1. blocks[i].offset + blocks[i].size <= n
      BY <1>1 DEF Tiled
    <3>. QED  BY <1>2, <1>5, <3>1
  <2>. QED  BY <1>4, <2>2, <2>3 DEF Tiled
<1>7. ASSUME NEW x
      PROVE  x \in FreeOffsets(up) <=> x # o /\ x \in FreeOffsets(blocks)
  <2>1. x \in FreeOffsets(up) <=> \E i \in DOMAIN up : x = up[i].offset /\ up[i].status = "free"
    BY DEF FreeOffsets
  <2>2. x \in FreeOffsets(blocks) <=> \E i \in DOMAIN blocks : x = blocks[i].offset /\ blocks[i].status = "free"
    BY DEF FreeOffsets
  <2>3. \A i \in DOMAIN blocks : blocks[i].offset = o <=> i = f
    BY <1>2
  <2>. QED  BY <1>4, <1>5, <2>1, <2>2, <2>3
<1>8. PICK left : left = Select(list, Elements(list) \ {o})
  OBVIOUS
<1>9. /\ left \in Seq(0..(MaxSize - 1)) /\ Distinct(left)
      /\ \A x : x \in Elements(left) <=> x \in Elements(list) /\ x # o
  <2>. DEFINE S == 0..(MaxSize - 1)
              D == {o}
  <2>1. list \in Seq(S) /\ Distinct(list)
    BY <1>1 DEF Distinct, IsInjective
  <2>. HIDE DEF S, D
  <2>2. /\ Select(list, Elements(list) \ D) \in Seq(S)
        /\ Distinct(Select(list, Elements(list) \ D))
        /\ \A x : x \in Elements(Select(list, Elements(list) \ D)) <=> x \in Elements(list) /\ x \notin D
    BY <2>1, WithoutElements
  <2>. QED  BY <1>8, <2>2 DEF S, D
<1>10. IsInjective(left)
  BY <1>9 DEF Distinct, IsInjective
<1>11. Elements(left) = FreeOffsets(up)
  <2>1. \A x : x \in Elements(list) <=> x \in FreeOffsets(blocks)
    BY <1>1
  <2>2. \A x : x \in Elements(left) <=> x \in FreeOffsets(up)
    BY <1>7, <1>9, <2>1
  <2>. QED  BY <2>2
<1>12. Arranged(up, left, n)
  BY <1>4, <1>6, <1>9, <1>10, <1>11 DEF Arranged
<1>. QED  BY <1>4, <1>5, <1>8, <1>12

\* The best of the free blocks that fit is one of them.
LEMMA BestFitFound ==
    ASSUME NEW m, MemoryFine(m), NEW n \in Nat, Fits(m, n) # {}
    PROVE  \E i \in Fits(m, n) : BestFit(m, n) = m.freeBlocks[i]
<1>. DEFINE sizeOf(i) == BlockNamed(m, m.freeBlocks[i]).size
            F == Fits(m, n)
<1>1. F \in SUBSET (1..Len(m.freeBlocks)) /\ Len(m.freeBlocks) \in Nat
  BY DEF Fits, MemoryFine, MemoryState
<1>2. \A i \in F : sizeOf(i) \in 1..MaxSize
  <2>1. m.blocks \in Seq(Block) /\ m.size \in Nat /\ Tiled(m.blocks, m.size) /\ Listed(m)
    <3>1. MaxSize \in Nat
      BY MemoryAssumption DEF MemoryAssumption
    <3>. QED  BY <3>1 DEF MemoryFine, MemoryState
  <2>2. ASSUME NEW i \in F
        PROVE  sizeOf(i) \in 1..MaxSize
    <3>1. m.freeBlocks[i] \in FreeOffsets(m.blocks)
      BY <2>1 DEF Listed, Elements, Fits
    <3>2. PICK j \in DOMAIN m.blocks : m.freeBlocks[i] = m.blocks[j].offset
      BY <3>1 DEF FreeOffsets
    <3>3. m.blocks[j] \in Block
      BY <2>1
    <3>4. BlockNamed(m, m.blocks[j].offset) = m.blocks[j]
      BY <2>1, NamedBlock
    <3>5. m.blocks[j].size \in 1..MaxSize
      BY <3>3, BlockFields
    <3>. QED  BY <3>2, <3>4, <3>5
  <2>. QED  BY <2>2
<1>. DEFINE Z == {sizeOf(i) : i \in F}
<1>. HIDE DEF sizeOf, F
<1>3. PICK z \in Z : \A y \in Z : z <= y
  <2>1. Z \in SUBSET (1..MaxSize) /\ Z # {} /\ MaxSize \in Nat
    BY <1>2, MemoryAssumption DEF F, MemoryAssumption
  <2>. HIDE DEF Z
  <2>. QED  BY <2>1, LeastElement
<1>. DEFINE J == {i \in F : sizeOf(i) = z}
<1>4. PICK k \in J : \A j \in J : k <= j
  <2>1. J \in SUBSET (1..Len(m.freeBlocks)) /\ J # {}
    BY <1>1
  <2>. HIDE DEF J
  <2>. QED  BY <1>1, <2>1, LeastElement
<1>5. k \in F /\ \A j \in F : sizeOf(k) < sizeOf(j) \/ (sizeOf(k) = sizeOf(j) /\ k <= j)
  <2>1. k \in F /\ sizeOf(k) = z
    OBVIOUS
  <2>2. ASSUME NEW j \in F
        PROVE  sizeOf(k) < sizeOf(j) \/ (sizeOf(k) = sizeOf(j) /\ k <= j)
    <3>1. z <= sizeOf(j) /\ z \in Int /\ sizeOf(j) \in Int
      BY <1>2, <1>3, <2>1
    <3>2. sizeOf(j) = z => k <= j
      BY <1>4
    <3>. QED  BY <2>1, <3>1, <3>2
  <2>. QED  BY <2>1, <2>2
<1>. DEFINE best == CHOOSE i \in F : \A j \in F : sizeOf(i) < sizeOf(j) \/ (sizeOf(i) = sizeOf(j) /\ i <= j)
<1>6. best \in F
  BY <1>5
<1>7. BestFit(m, n) = m.freeBlocks[best]
  BY DEF BestFit, F, sizeOf
<1>. QED  BY <1>6, <1>7 DEF F

LEMMA SplitFine ==
    ASSUME NEW m, MemoryFine(m), NEW n \in Nat \ {0}, NEW i \in Fits(m, n),
           NEW status \in {"allocated", "reserved"}
    PROVE  MemoryFine(SplitAndAllocate(m, m.freeBlocks[i], n, status))
<1>1. PICK blocks, list : blocks = m.blocks /\ list = m.freeBlocks
  OBVIOUS
<1>2. /\ MaxSize \in Nat /\ m.size \in 0..MaxSize /\ m \in MemoryState /\ BlockSize \in Nat \ {0}
      /\ Arranged(blocks, list, m.size) /\ blocks \in Seq(Block) /\ Tiled(blocks, m.size)
  <2>1. MaxSize \in Nat /\ BlockSize \in Nat \ {0} /\ m \in MemoryState
    BY MemoryAssumption DEF MemoryAssumption, MemoryFine
  <2>2. Arranged(blocks, list, m.size)
    BY <1>1, <2>1, FineParts
  <2>. QED  BY <2>1, <2>2 DEF Arranged, MemoryState
<1>3. PICK f \in DOMAIN blocks : list[i] = blocks[f].offset /\ blocks[f].status = "free"
  <2>1. list[i] \in FreeOffsets(blocks)
    BY <1>1, <1>2 DEF Arranged, Elements, Fits
  <2>. QED  BY <2>1 DEF FreeOffsets
<1>4. BlockNamed(m, list[i]) = blocks[f]
  BY <1>1, <1>2, <1>3, NamedBlock
<1>5. n <= blocks[f].size
  <2>1. BlockNamed(m, list[i]).size >= n
    BY <1>1 DEF Fits
  <2>. QED  BY <1>4, <2>1
<1>6. PICK o, size, rest : o = list[i] /\ size = blocks[f].size /\ rest = size - n
  OBVIOUS
<1>7. PICK others : others = Select(list, Elements(list) \ {o})
  OBVIOUS
<1>8. /\ \A j \in DOMAIN blocks : /\ blocks[j] \in Block /\ blocks[j].offset \in Nat
                                 /\ blocks[j].size \in Nat /\ blocks[j].size >= 1
      /\ o \in Nat /\ size \in Nat /\ rest \in Nat /\ size >= 1 /\ o + size <= m.size /\ m.size \in Nat
  <2>1. \A j \in DOMAIN blocks : /\ blocks[j] \in Block /\ blocks[j].offset \in Nat
                                  /\ blocks[j].size \in Nat /\ blocks[j].size >= 1
    BY <1>2, BlocksAt
  <2>2. blocks[f].offset + blocks[f].size <= m.size
    BY <1>2 DEF Tiled
  <2>. QED  BY <1>2, <1>3, <1>5, <1>6, <2>1, <2>2
<1>9. CASE rest >= BlockSize
  <2>1. PICK up, b : up = Updated(blocks, o, n, status) /\ b = FreeBlock(o + n, rest)
    OBVIOUS
  <2>2. /\ Arranged(up, others, m.size)
        /\ DOMAIN up = DOMAIN blocks /\ up[f].offset = o /\ up[f].size = n
        /\ \A j \in DOMAIN blocks : j # f => up[j] = blocks[j]
    <3>1. Taking(blocks, list, m.size, f, n, status, o, up)
      BY <1>2, <1>3, <1>5, <1>6, <1>8, <2>1 DEF Taking
    <3>2. /\ Arranged(up, Select(list, Elements(list) \ {o}), m.size)
          /\ DOMAIN up = DOMAIN blocks /\ up[f].offset = o /\ up[f].size = n
          /\ \A j \in DOMAIN blocks : j # f => up[j] = blocks[j]
      BY <3>1, TakenFree
    <3>. QED  BY <1>7, <3>2
  <2>3. /\ b \in Block /\ b.status = "free" /\ b.offset = o + n /\ b.size = rest
        /\ b.offset + b.size <= m.size
    <3>1. rest >= 1 /\ n + rest = size /\ n \in Nat
      BY <1>2, <1>6, <1>8, <1>9
    <3>2. o + n \in 0..(MaxSize - 1) /\ rest \in 1..MaxSize
      BY <1>2, <1>8, <3>1
    <3>3. b \in Block /\ b.status = "free" /\ b.offset = o + n /\ b.size = rest
      BY <2>1, <3>2 DEF FreeBlock, Block
    <3>. QED  BY <1>8, <3>1, <3>3
  <2>4. ASSUME NEW j \in DOMAIN up
        PROVE  Apart(up[j], b)
    <3>1. CASE j = f
      BY <1>8, <2>2, <2>3, <3>1 DEF Apart
    <3>2. CASE j # f
      <4>1. Apart(blocks[f], blocks[j]) /\ up[j] = blocks[j]
        BY <1>2, <2>2, <2>4, <3>2 DEF Tiled
      <4>2. blocks[f].offset = o /\ blocks[f].size = size
        BY <1>3, <1>6
      <4>. QED  BY <1>6, <1>8, <2>2, <2>3, <2>4, <4>1, <4>2 DEF Apart
    <3>. QED  BY <3>1, <3>2
  <2>5. Arranged(Append(up, b), Append(others, b.offset), m.size)
    BY <1>8, <2>2, <2>3, <2>4, AddedFree
  <2>6. PICK more, longer : more = Append(up, b) /\ longer = Append(others, b.offset)
    OBVIOUS
  <2>7. PICK r : r = SplitAndAllocate(m, list[i], n, status)
    OBVIOUS
  <2>8. r = [m EXCEPT !.blocks = more, !.freeBlocks = longer]
    BY <1>1, <1>4, <1>6, <1>7, <1>9, <2>1, <2>3, <2>6, <2>7 DEF SplitAndAllocate
  <2>9. Arranged(more, longer, m.size)
    BY <2>5, <2>6
  <2>10. r \in MemoryState /\ r.blocks = more /\ r.freeBlocks = longer /\ r.size = m.size
    BY <1>2, <2>8, <2>9 DEF MemoryState, Arranged
  <2>11. MemoryFine(r)
    BY <2>9, <2>10, FineParts
  <2>. QED  BY <1>1, <2>7, <2>11
<1>10. CASE ~(rest >= BlockSize)
  <2>1. PICK up : up = Updated(blocks, o, n + rest, status)
    OBVIOUS
  <2>2. Arranged(up, others, m.size)
    <3>1. n + rest = size /\ size \in Nat \ {0}
      BY <1>6, <1>8
    <3>2. Taking(blocks, list, m.size, f, n + rest, status, o, up)
      BY <1>2, <1>3, <1>6, <1>8, <2>1, <3>1 DEF Taking
    <3>. QED  BY <1>7, <3>2, TakenFree
  <2>3. PICK r : r = SplitAndAllocate(m, list[i], n, status)
    OBVIOUS
  <2>4. r = [m EXCEPT !.blocks = up, !.freeBlocks = others]
    BY <1>1, <1>4, <1>6, <1>7, <1>10, <2>1, <2>3 DEF SplitAndAllocate
  <2>5. r \in MemoryState /\ r.blocks = up /\ r.freeBlocks = others /\ r.size = m.size
    BY <1>2, <2>2, <2>4 DEF MemoryState, Arranged
  <2>6. MemoryFine(r)
    BY <2>2, <2>5, FineParts
  <2>. QED  BY <1>1, <2>3, <2>6
<1>. QED  BY <1>9, <1>10

\* A pool that is open grows by what it can.
LEMMA GrownFine ==
    ASSUME NEW m, MemoryFine(m), m.size # 0, GrownSize(m) # m.size
    PROVE  MemoryFine(Grown(m))
<1>1. /\ MaxSize \in Nat /\ GrowthFactor \in Nat /\ GrowthFactor >= 1 /\ m \in MemoryState
      /\ Arranged(m.blocks, m.freeBlocks, m.size) /\ m.size \in 0..MaxSize /\ m.size \in Nat
  <2>1. m \in MemoryState
    BY DEF MemoryFine
  <2>. QED  BY <2>1, FineParts, MemoryAssumption DEF MemoryAssumption, MemoryState
<1>2. PICK k, g : k = m.size /\ g = GrownSize(m)
  OBVIOUS
<1>3. g \in Nat /\ k < g /\ g <= MaxSize
  <2>1. k * GrowthFactor \in Nat /\ k * GrowthFactor >= k
    BY <1>1, <1>2
  <2>2. g = IF k * GrowthFactor < MaxSize THEN k * GrowthFactor ELSE MaxSize
    BY <1>2 DEF GrownSize
  <2>. QED  BY <1>1, <1>2, <2>1, <2>2
<1>4. PICK b : b = FreeBlock(k, g - k)
  OBVIOUS
<1>5. b \in Block /\ b.status = "free" /\ b.offset = k /\ b.size = g - k /\ b.offset + b.size <= g
  <2>1. k \in 0..(MaxSize - 1) /\ g - k \in 1..MaxSize
    BY <1>1, <1>2, <1>3
  <2>. QED  BY <1>1, <1>2, <1>3, <1>4, <2>1 DEF FreeBlock, Block
<1>6. PICK blocks, list : blocks = m.blocks /\ list = m.freeBlocks
  OBVIOUS
<1>7. Arranged(blocks, list, k) /\ k \in Nat
  BY <1>1, <1>2, <1>6
<1>8. \A i \in DOMAIN blocks : Apart(blocks[i], b)
  <2>1. \A i \in DOMAIN blocks : blocks[i].offset + blocks[i].size <= k
    BY <1>7 DEF Arranged, Tiled
  <2>. QED  BY <1>5, <2>1 DEF Apart
<1>9. Arranged(Append(blocks, b), Append(list, b.offset), g)
  BY <1>3, <1>5, <1>7, <1>8, AddedFree
<1>10. PICK more, longer : more = Append(blocks, b) /\ longer = Append(list, b.offset)
  OBVIOUS
<1>11. PICK r : r = Grown(m)
  OBVIOUS
<1>12. r = [blocks |-> more, freeBlocks |-> longer, size |-> g]
  BY <1>2, <1>4, <1>5, <1>6, <1>10, <1>11 DEF Grown
<1>13. r \in MemoryState /\ r.blocks = more /\ r.freeBlocks = longer /\ r.size = g
  BY <1>1, <1>3, <1>9, <1>10, <1>12 DEF MemoryState, Arranged
<1>14. MemoryFine(r)
  BY <1>9, <1>10, <1>13, FineParts
<1>. QED  BY <1>11, <1>14
-----------------------------------------------------------------------------
LEMMA MemoryInitHolds == ASSUME MemoryInit  PROVE MemoryInv
<1>1. /\ MaxSize \in Nat /\ InitialSize \in 1..MaxSize
  BY MemoryAssumption DEF MemoryAssumption
<1>2. PICK b : b = FreeBlock(0, InitialSize)
  OBVIOUS
<1>3. b \in Block /\ b.status = "free" /\ b.offset = 0 /\ b.size = InitialSize
  <2>1. 0 \in 0..(MaxSize - 1)
    BY <1>1
  <2>. QED  BY <1>1, <1>2, <2>1 DEF FreeBlock, Block
<1>4. PICK blocks, list : blocks = <<b>> /\ list = <<0>>
  OBVIOUS
<1>5. /\ blocks \in Seq(Block) /\ DOMAIN blocks = {1} /\ blocks[1] = b
      /\ list \in Seq(0..(MaxSize - 1)) /\ DOMAIN list = {1} /\ list[1] = 0
  BY <1>1, <1>3, <1>4
<1>6. Tiled(blocks, InitialSize)
  BY <1>1, <1>3, <1>5 DEF Tiled
<1>7. IsInjective(list)
  BY <1>5 DEF IsInjective
<1>8. Elements(list) = FreeOffsets(blocks)
  BY <1>3, <1>5 DEF Elements, FreeOffsets
<1>9. memory = [blocks |-> blocks, freeBlocks |-> list, size |-> InitialSize]
  BY <1>2, <1>4 DEF MemoryInit
<1>10. memory \in MemoryState /\ memory.blocks = blocks /\ memory.freeBlocks = list /\ memory.size = InitialSize
  BY <1>1, <1>5, <1>9 DEF MemoryState
<1>11. MemoryFine(memory)
  BY <1>5, <1>6, <1>7, <1>8, <1>10, FineParts DEF Arranged
<1>. QED  BY <1>11 DEF MemoryInv

LEMMA AllocateFine ==
    ASSUME MemoryInv, NEW n \in Request, NEW status \in {"allocated", "reserved"}, Allocate(n, status)
    PROVE  MemoryInv'
<1>1. n \in Nat \ {0} /\ MemoryFine(memory)
  BY MemoryAssumption DEF MemoryAssumption, MemoryInv
<1>2. \A m : MemoryFine(m) /\ Fits(m, n) # {} => MemoryFine(SplitAndAllocate(m, BestFit(m, n), n, status))
  BY <1>1, BestFitFound, SplitFine
<1>3. CASE /\ Fits(memory, n) # {} /\ memory' = SplitAndAllocate(memory, BestFit(memory, n), n, status)
  BY <1>1, <1>2, <1>3 DEF MemoryInv
<1>4. CASE /\ memory.size # 0 /\ GrownSize(memory) # memory.size
           /\ LET m == Grown(memory)
              IN  memory' = IF Fits(m, n) # {} THEN SplitAndAllocate(m, BestFit(m, n), n, status) ELSE m
  <2>1. PICK m : m = Grown(memory)
    OBVIOUS
  <2>2. MemoryFine(m)
    BY <1>1, <1>4, <2>1, GrownFine
  <2>3. memory' = IF Fits(m, n) # {} THEN SplitAndAllocate(m, BestFit(m, n), n, status) ELSE m
    BY <1>4, <2>1
  <2>. QED  BY <1>2, <2>2, <2>3 DEF MemoryInv
<1>. QED  BY <1>3, <1>4 DEF Allocate

LEMMA CloseFine == ASSUME MemoryInv, Close  PROVE MemoryInv'
<1>1. PICK r : r = memory'
  OBVIOUS
<1>2. r = [blocks |-> <<>>, freeBlocks |-> <<>>, size |-> 0]
  BY <1>1 DEF Close
<1>3. r \in MemoryState /\ r.blocks = <<>> /\ r.freeBlocks = <<>> /\ r.size = 0
  <2>1. MaxSize \in Nat
    BY MemoryAssumption DEF MemoryAssumption
  <2>. QED  BY <1>2, <2>1 DEF MemoryState
<1>4. MemoryFine(r)
  BY <1>3 DEF MemoryFine, Tiled, Listed, IsInjective, Elements, FreeOffsets
<1>. QED  BY <1>1, <1>4 DEF MemoryInv

LEMMA MemoryStepKeeps == ASSUME MemoryInv, [MemoryNext]_memory  PROVE MemoryInv'
<1>1. CASE \E n \in Request : Allocate(n, "allocated") \/ Allocate(n, "reserved")
  BY <1>1, AllocateFine
<1>2. CASE \E b \in Allocated(memory) : Free(b)
  BY <1>2, FreedFine DEF Free, MemoryInv
<1>3. CASE Cleanup
  BY <1>3, ExpiredFine DEF Cleanup, MemoryInv
<1>4. CASE Close
  BY <1>4, CloseFine
<1>5. CASE UNCHANGED memory
  BY <1>5 DEF MemoryInv
<1>. QED  BY <1>1, <1>2, <1>3, <1>4, <1>5 DEF MemoryNext

\* Every allocation, reservation, release, expiry and growth keeps the blocks apart,
\* within the buffer, and the free ones listed.
THEOREM MemoryInvariance == MemorySpec => []MemoryInv
<1>1. MemoryInit => MemoryInv
  BY MemoryInitHolds
<1>2. MemoryInv /\ [MemoryNext]_memory => MemoryInv'
  BY MemoryStepKeeps
<1>. QED  BY <1>1, <1>2, PTL DEF MemorySpec

\* Every reachable state of the memory pool is well typed: no block is empty, begins
\* before the buffer or is longer than it may grow.
THEOREM MemoryTypeCorrect == MemorySpec => []MemoryTypeOK
<1>1. MemoryInv => MemoryTypeOK
  BY DEF MemoryInv, MemoryFine, MemoryState, MemoryTypeOK
<1>. QED  BY <1>1, MemoryInvariance, PTL

\* No two blocks overlap or reach past the buffer, and freeBlocks lists each free block
\* once, however blocks were split, merged, expired and grown.
THEOREM BlocksStayDisjoint == MemorySpec => []BlocksDisjoint
<1>1. ASSUME MemoryInv  PROVE BlocksDisjoint
  <2>1. PICK blocks, list, n : blocks = memory.blocks /\ list = memory.freeBlocks /\ n = memory.size
    OBVIOUS
  <2>2. /\ blocks \in Seq(Block) /\ n \in Nat /\ Tiled(blocks, n) /\ IsInjective(list)
        /\ Elements(list) = FreeOffsets(blocks)
    <3>1. MaxSize \in Nat
      BY MemoryAssumption DEF MemoryAssumption
    <3>. QED  BY <1>1, <2>1, <3>1 DEF MemoryInv, MemoryFine, MemoryState, Listed
  <2>3. \A i \in DOMAIN blocks : blocks[i].offset \in Nat /\ blocks[i].size \in Nat /\ blocks[i].size >= 1
    BY <2>2, BlocksAt
  <2>4. ASSUME NEW i \in DOMAIN blocks, NEW j \in DOMAIN blocks, i # j
        PROVE  Cells(blocks[i]) \cap Cells(blocks[j]) = {}
    <3>1. Apart(blocks[i], blocks[j])
      BY <2>2, <2>4 DEF Tiled
    <3>2. PICK p, q, r, s : p = blocks[i].offset /\ q = blocks[i].size /\ r = blocks[j].offset /\ s = blocks[j].size
      OBVIOUS
    <3>3. p \in Nat /\ q \in Nat /\ r \in Nat /\ s \in Nat /\ (p + q <= r \/ r + s <= p)
      BY <2>3, <3>1, <3>2 DEF Apart
    <3>4. (p..(p + q - 1)) \cap (r..(r + s - 1)) = {}
      BY <3>3
    <3>. QED  BY <3>2, <3>4 DEF Cells
  <2>5. \A b \in Elements(blocks) : Cells(b) \subseteq 0..(n - 1)
    <3>1. \A i \in DOMAIN blocks : Cells(blocks[i]) \subseteq 0..(n - 1)
      BY <2>2, <2>3 DEF Cells, Tiled
    <3>. QED  BY <3>1 DEF Elements
  <2>6. FreeOffsets(blocks) = {b.offset : b \in {c \in Elements(blocks) : c.status = "free"}}
    BY DEF FreeOffsets, Elements
  <2>. QED  BY <2>1, <2>2, <2>4, <2>5, <2>6 DEF BlocksDisjoint
<1>. QED  BY <1>1, MemoryInvariance, PTL
-----------------------------------------------------------------------------
(***************************************************************************)
(* DataCollector: SteadySourcesCountedOnce and CollectorTypeOK for any     *)
(* sources, collections, limits and number of edits.  A steady source is   *)
(* in one place: ahead of the cursor, held, asked by one task, or answered *)
(* once; every turn of the loop and every answer moves it from one to the  *)
(* next, and what happens around it to others leaves it where it is.       *)
(***************************************************************************)

Unvisited(k, q, s) == k.stage = "looping" /\ \E i \in k.cursor..Len(q) : q[i] = s

Asked(k, s) == \E t \in k.tasks : t.source = s

Answered(k, s) == k.dataPoints[s] + k.failed[s]

AskedOnce(k, s) == \A t, u \in k.tasks : t.source = s /\ u.source = s => t = u

\* The loop holds s in its hand: it is in none of the places.
InHand(k, q, s) == Answered(k, s) = 0 /\ ~Asked(k, s) /\ k.held # s /\ ~Unvisited(k, q, s)

InOnePlace(k, q, s) ==
    /\ AskedOnce(k, s)
    /\ \/ Answered(k, s) = 1 /\ ~Asked(k, s) /\ k.held # s /\ ~Unvisited(k, q, s)
       \/ Answered(k, s) = 0 /\ Asked(k, s) /\ k.held # s /\ ~Unvisited(k, q, s)
       \/ Answered(k, s) = 0 /\ ~Asked(k, s) /\ k.held = s /\ ~Unvisited(k, q, s)
       \/ Answered(k, s) = 0 /\ ~Asked(k, s) /\ k.held # s /\ Unvisited(k, q, s)

\* Requests begun, the one that waits and those to come: never more than edits.
Begun(k, q) ==
    k.started + (IF k.held = NoSource THEN 0 ELSE 1) + (Len(q) + 1 - k.cursor)

Looping(k, q, e) ==
    /\ k.cursor <= Len(q) + 1 /\ Begun(k, q) <= e
    /\ \A s \in k.steady : \E i \in DOMAIN q : q[i] = s

CollectFine(k, q, e) ==
    /\ k \in CollectState
    /\ k.stage = "looping" => Looping(k, q, e)
    /\ k.stage = "awaiting" => k.held = NoSource
    /\ \A s \in k.steady : InOnePlace(k, q, s)

Injective(q) == \A i, j \in DOMAIN q : q[i] = q[j] => i = j

CollectorInv ==
    /\ CollectorTypeOK /\ Injective(sources) /\ Len(sources) <= edits
    /\ \A c \in Collection :
           collects[c] # NoCollect => CollectFine(collects[c], sources, edits)
-----------------------------------------------------------------------------
(***************************************************************************)
(* Places: what a change of a collection does to the place of each source. *)
(***************************************************************************)
AllPlaced(k, q) == \A u \in k.steady : InOnePlace(k, q, u)

OthersPlaced(k, q, s) ==
    \A u \in k.steady : IF u = s THEN InHand(k, q, u) ELSE InOnePlace(k, q, u)

\* u is where it was.
Kept(k, r, q, u) ==
    /\ Answered(r, u) = Answered(k, u) /\ (Asked(r, u) <=> Asked(k, u))
    /\ (r.held = u <=> k.held = u) /\ (Unvisited(r, q, u) <=> Unvisited(k, q, u))
    /\ AskedOnce(k, u) => AskedOnce(r, u)

LEMMA KeptInPlace ==
    ASSUME NEW k, NEW r, NEW q, NEW u, Kept(k, r, q, u)
    PROVE  /\ InOnePlace(k, q, u) => InOnePlace(r, q, u)
           /\ InHand(k, q, u) => InHand(r, q, u)
BY Zenon DEF Kept, InOnePlace, InHand

\* The source in hand is answered.
LEMMA HandAnswered ==
    ASSUME NEW k, NEW r, NEW q, NEW s, OthersPlaced(k, q, s),
           r.stage = k.stage, r.cursor = k.cursor, r.held = k.held, r.tasks = k.tasks,
           r.steady = k.steady, s \in k.steady => Answered(r, s) = Answered(k, s) + 1,
           \A u \in k.steady : u # s => Answered(r, u) = Answered(k, u)
    PROVE  AllPlaced(r, q)
<1>. SUFFICES ASSUME NEW u \in k.steady  PROVE InOnePlace(r, q, u)
  BY DEF AllPlaced
<1>1. /\ (Asked(r, u) <=> Asked(k, u)) /\ (Unvisited(r, q, u) <=> Unvisited(k, q, u))
      /\ AskedOnce(k, u) => AskedOnce(r, u)
  BY DEF Asked, Unvisited, AskedOnce
<1>2. CASE u # s
  <2>1. InOnePlace(k, q, u) /\ Kept(k, r, q, u)
    BY <1>1, <1>2 DEF OthersPlaced, Kept
  <2>. QED  BY <2>1, KeptInPlace
<1>3. CASE u = s
  <2>1. InHand(k, q, u)
    BY <1>3 DEF OthersPlaced
  <2>2. Answered(k, u) = 0 /\ Answered(r, u) = Answered(k, u) + 1
    BY <1>3, <2>1 DEF InHand
  <2>3. Answered(r, u) = 1
    BY <2>2
  <2>4. AskedOnce(r, u)
    BY <1>1, <2>1 DEF InHand, Asked, AskedOnce
  <2>. QED  BY <1>1, <2>1, <2>3, <2>4, Zenon DEF InOnePlace, InHand
<1>. QED  BY <1>2, <1>3

\* The source in hand is asked.
LEMMA HandAsked ==
    ASSUME NEW k, NEW r, NEW q, NEW s, NEW t, OthersPlaced(k, q, s), t.source = s,
           r.stage = k.stage, r.cursor = k.cursor, r.held = k.held,
           r.tasks = k.tasks \cup {t}, r.steady = k.steady,
           \A u \in k.steady : Answered(r, u) = Answered(k, u)
    PROVE  AllPlaced(r, q)
<1>. SUFFICES ASSUME NEW u \in k.steady  PROVE InOnePlace(r, q, u)
  BY DEF AllPlaced
<1>1. Unvisited(r, q, u) <=> Unvisited(k, q, u)
  BY DEF Unvisited
<1>2. CASE u # s
  <2>1. (Asked(r, u) <=> Asked(k, u)) /\ (AskedOnce(k, u) => AskedOnce(r, u))
    BY <1>2 DEF Asked, AskedOnce
  <2>2. InOnePlace(k, q, u) /\ Kept(k, r, q, u)
    BY <1>1, <1>2, <2>1 DEF OthersPlaced, Kept
  <2>. QED  BY <2>2, KeptInPlace
<1>3. CASE u = s
  <2>1. InHand(k, q, u)
    BY <1>3 DEF OthersPlaced
  <2>2. Asked(r, u) /\ AskedOnce(r, u)
    BY <1>3, <2>1 DEF InHand, Asked, AskedOnce
  <2>. QED  BY <1>1, <2>1, <2>2, Zenon DEF InOnePlace, InHand
<1>. QED  BY <1>2, <1>3

\* The source in hand is held until a slot is free.
LEMMA HandHeld ==
    ASSUME NEW k, NEW r, NEW q, NEW s, OthersPlaced(k, q, s),
           k.held \notin k.steady, r.held = s,
           r.stage = k.stage, r.cursor = k.cursor, r.tasks = k.tasks, r.steady = k.steady,
           \A u \in k.steady : Answered(r, u) = Answered(k, u)
    PROVE  AllPlaced(r, q)
<1>. SUFFICES ASSUME NEW u \in k.steady  PROVE InOnePlace(r, q, u)
  BY DEF AllPlaced
<1>1. /\ (Asked(r, u) <=> Asked(k, u)) /\ (Unvisited(r, q, u) <=> Unvisited(k, q, u))
      /\ AskedOnce(k, u) => AskedOnce(r, u)
  BY DEF Asked, Unvisited, AskedOnce
<1>2. CASE u # s
  <2>1. InOnePlace(k, q, u) /\ Kept(k, r, q, u)
    BY <1>1, <1>2 DEF OthersPlaced, Kept
  <2>. QED  BY <2>1, KeptInPlace
<1>3. CASE u = s
  <2>1. InHand(k, q, u)
    BY <1>3 DEF OthersPlaced
  <2>2. AskedOnce(r, u)
    BY <1>1, <2>1 DEF InHand, Asked, AskedOnce
  <2>. QED  BY <1>1, <1>3, <2>1, <2>2, Zenon DEF InOnePlace, InHand
<1>. QED  BY <1>2, <1>3

\* The loop takes the next source of the Map into its hand.
LEMMA NextTaken ==
    ASSUME NEW k, NEW r, NEW q \in Seq(Source), AllPlaced(k, q), Injective(q),
           k.cursor \in DOMAIN q, k.stage = "looping", k.held \notin k.steady,
           r.cursor = k.cursor + 1,
           r.stage = k.stage, r.held = k.held, r.tasks = k.tasks, r.steady = k.steady,
           \A u \in k.steady : Answered(r, u) = Answered(k, u)
    PROVE  OthersPlaced(r, q, q[k.cursor])
<1>. DEFINE s == q[k.cursor]
<1>. SUFFICES ASSUME NEW u \in k.steady
              PROVE  IF u = s THEN InHand(r, q, u) ELSE InOnePlace(r, q, u)
  BY DEF OthersPlaced
<1>1. (Asked(r, u) <=> Asked(k, u)) /\ (AskedOnce(k, u) => AskedOnce(r, u))
  BY DEF Asked, AskedOnce
<1>2. InOnePlace(k, q, u)
  BY DEF AllPlaced
<1>3. Len(q) \in Nat /\ DOMAIN q = 1..Len(q) /\ k.cursor \in 1..Len(q)
  BY LenProperties
<1>4. CASE u # s
  <2>1. Unvisited(r, q, u) <=> Unvisited(k, q, u)
    <3>1. \A i \in (k.cursor + 1)..Len(q) : i \in k.cursor..Len(q)
      BY <1>3
    <3>2. \A i \in k.cursor..Len(q) : i = k.cursor \/ i \in (k.cursor + 1)..Len(q)
      BY <1>3
    <3>. QED  BY <1>4, <3>1, <3>2 DEF Unvisited
  <2>2. Kept(k, r, q, u)
    BY <1>1, <2>1 DEF Kept
  <2>. QED  BY <1>2, <1>4, <2>2, KeptInPlace
<1>5. CASE u = s
  <2>1. Unvisited(k, q, u)
    <3>1. k.cursor \in k.cursor..Len(q)
      BY <1>3
    <3>. QED  BY <1>5, <3>1 DEF Unvisited
  <2>2. ~Unvisited(r, q, u)
    <3>1. ASSUME NEW i \in (k.cursor + 1)..Len(q)  PROVE q[i] # u
      <4>1. i \in DOMAIN q /\ i # k.cursor
        BY <1>3
      <4>. QED  BY <1>5, <4>1 DEF Injective
    <3>. QED  BY <3>1 DEF Unvisited
  <2>3. Answered(k, u) = 0 /\ ~Asked(k, u) /\ k.held # u
    BY <1>2, <2>1, Zenon DEF InOnePlace
  <2>4. InHand(r, q, u)
    BY <1>1, <2>2, <2>3 DEF InHand
  <2>. QED  BY <1>5, <2>4
<1>. QED  BY <1>4, <1>5

\* The source that was held is taken into the hand.
LEMMA HeldTaken ==
    ASSUME NEW k, NEW r, NEW q, AllPlaced(k, q), r.held \notin k.steady,
           r.stage = k.stage, r.cursor = k.cursor, r.tasks = k.tasks, r.steady = k.steady,
           \A u \in k.steady : Answered(r, u) = Answered(k, u)
    PROVE  OthersPlaced(r, q, k.held)
<1>. SUFFICES ASSUME NEW u \in k.steady
              PROVE  IF u = k.held THEN InHand(r, q, u) ELSE InOnePlace(r, q, u)
  BY DEF OthersPlaced
<1>1. /\ (Asked(r, u) <=> Asked(k, u)) /\ (Unvisited(r, q, u) <=> Unvisited(k, q, u))
      /\ AskedOnce(k, u) => AskedOnce(r, u)
  BY DEF Asked, Unvisited, AskedOnce
<1>2. InOnePlace(k, q, u)
  BY DEF AllPlaced
<1>3. CASE u # k.held
  <2>1. Kept(k, r, q, u)
    BY <1>1, <1>3 DEF Kept
  <2>. QED  BY <1>2, <1>3, <2>1, KeptInPlace
<1>4. CASE u = k.held
  <2>1. Answered(k, u) = 0 /\ ~Asked(k, u) /\ ~Unvisited(k, q, u)
    BY <1>2, <1>4, Zenon DEF InOnePlace
  <2>2. InHand(r, q, u)
    BY <1>1, <2>1 DEF InHand
  <2>. QED  BY <1>4, <2>2
<1>. QED  BY <1>3, <1>4

\* The source of a task that ends is taken into the hand.
LEMMA TaskTaken ==
    ASSUME NEW k, NEW r, NEW q, AllPlaced(k, q), NEW t \in k.tasks, r.tasks = k.tasks \ {t},
           r.stage = k.stage, r.cursor = k.cursor, r.held = k.held, r.steady = k.steady,
           \A u \in k.steady : Answered(r, u) = Answered(k, u)
    PROVE  OthersPlaced(r, q, t.source)
<1>. SUFFICES ASSUME NEW u \in k.steady
              PROVE  IF u = t.source THEN InHand(r, q, u) ELSE InOnePlace(r, q, u)
  BY DEF OthersPlaced
<1>1. Unvisited(r, q, u) <=> Unvisited(k, q, u)
  BY DEF Unvisited
<1>2. InOnePlace(k, q, u)
  BY DEF AllPlaced
<1>3. CASE u # t.source
  <2>1. (Asked(r, u) <=> Asked(k, u)) /\ (AskedOnce(k, u) => AskedOnce(r, u))
    BY <1>3 DEF Asked, AskedOnce
  <2>2. Kept(k, r, q, u)
    BY <1>1, <1>3, <2>1 DEF Kept
  <2>. QED  BY <1>2, <1>3, <2>2, KeptInPlace
<1>4. CASE u = t.source
  <2>1. Asked(k, u)
    BY <1>4 DEF Asked
  <2>2. Answered(k, u) = 0 /\ k.held # u /\ ~Unvisited(k, q, u) /\ AskedOnce(k, u)
    BY <1>2, <2>1, Zenon DEF InOnePlace
  <2>3. ~Asked(r, u)
    BY <1>4, <2>2 DEF Asked, AskedOnce
  <2>4. InHand(r, q, u)
    BY <1>1, <2>2, <2>3 DEF InHand
  <2>. QED  BY <1>4, <2>4
<1>. QED  BY <1>3, <1>4
-----------------------------------------------------------------------------
(***************************************************************************)
(* Turns: what a visit of the loop changes, field by field.                *)
(***************************************************************************)
\* The fields of a collection, with any sets for the numbers in it.
CallType(C, T, N) ==
    [stage: {"looping", "awaiting"}, cursor: C, held: Source \cup {NoSource},
     tasks: SUBSET T, started: N,
     dataPoints: [Source -> Nat], failed: [Source -> Nat], steady: SUBSET Source]

AccType(L, C, T, N) == [limiter: L, call: CallType(C, T, N)]

FirstTask(k, s) == [source |-> s, number |-> k.started + 1, attempt |-> 1]

LEMMA CallFields ==
    ASSUME NEW C, NEW T, NEW N, NEW k \in CallType(C, T, N)
    PROVE  /\ k.stage \in {"looping", "awaiting"} /\ k.cursor \in C
           /\ k.held \in Source \cup {NoSource} /\ k.tasks \in SUBSET T /\ k.started \in N
           /\ k.dataPoints \in [Source -> Nat] /\ k.failed \in [Source -> Nat]
           /\ k.steady \in SUBSET Source
BY DEF CallType

\* One more in a count of each source.
LEMMA AnswerMore ==
    ASSUME NEW f \in [Source -> Nat], NEW s \in Source
    PROVE  /\ [f EXCEPT ![s] = @ + 1] \in [Source -> Nat]
           /\ \A u \in Source : [f EXCEPT ![s] = @ + 1][u] = IF u = s THEN f[u] + 1 ELSE f[u]
OBVIOUS

\* What a fetch does to a collection: a request more, or a failure more.
FetchResult(k, r, s) ==
    /\ r.stage = k.stage /\ r.cursor = k.cursor /\ r.held = k.held
    /\ r.steady = k.steady /\ r.dataPoints = k.dataPoints
    /\ \/ /\ r.started = k.started + 1 /\ r.tasks = k.tasks \cup {FirstTask(k, s)}
          /\ r.failed = k.failed
       \/ /\ r.started = k.started /\ r.tasks = k.tasks
          /\ r.failed = [k.failed EXCEPT ![s] = @ + 1]

LEMMA FetchEffect ==
    ASSUME NEW L, NEW C, NEW T, NEW N, NEW acc \in AccType(L, C, T, N), NEW s \in Source, NEW over,
           acc.call.started + 1 \in N, FirstTask(acc.call, s) \in T,
           WithinRate(acc.limiter, s, over) => Counted(acc.limiter, s, over) \in L
    PROVE  /\ Fetch(acc, s, over) \in AccType(L, C, T, N)
           /\ FetchResult(acc.call, Fetch(acc, s, over).call, s)
<1>. DEFINE k == acc.call
            r == Fetch(acc, s, over).call
            started == k.started + 1
            tasks == k.tasks \cup {FirstTask(k, s)}
            failed == [k.failed EXCEPT ![s] = @ + 1]
            asked == [k EXCEPT !.started = started, !.tasks = tasks]
            refused == [k EXCEPT !.failed = failed]
<1>1. k \in CallType(C, T, N) /\ acc.limiter \in L
  BY DEF AccType
<1>2. failed \in [Source -> Nat]
  BY <1>1, CallFields, AnswerMore
<1>3. started \in N /\ tasks \in SUBSET T
  BY <1>1, CallFields
<1>4. WithinRate(acc.limiter, s, over) =>
          Fetch(acc, s, over) = [limiter |-> Counted(acc.limiter, s, over), call |-> asked]
  BY DEF Fetch, FirstTask
<1>5. ~WithinRate(acc.limiter, s, over) =>
          Fetch(acc, s, over) = [limiter |-> acc.limiter, call |-> refused]
  BY DEF Fetch, AccType
<1>. HIDE DEF k, started, tasks, failed
<1>6. /\ asked \in CallType(C, T, N)
      /\ asked.stage = k.stage /\ asked.cursor = k.cursor /\ asked.held = k.held
      /\ asked.steady = k.steady /\ asked.dataPoints = k.dataPoints
      /\ asked.started = started /\ asked.tasks = tasks /\ asked.failed = k.failed
  BY <1>1, <1>3 DEF CallType
<1>7. /\ refused \in CallType(C, T, N)
      /\ refused.stage = k.stage /\ refused.cursor = k.cursor /\ refused.held = k.held
      /\ refused.steady = k.steady /\ refused.dataPoints = k.dataPoints
      /\ refused.started = k.started /\ refused.tasks = k.tasks /\ refused.failed = failed
  BY <1>1, <1>2 DEF CallType
<1>. HIDE DEF asked, refused
<1>8. CASE WithinRate(acc.limiter, s, over)
  <2>1. r = asked /\ Fetch(acc, s, over) \in AccType(L, C, T, N)
    BY <1>4, <1>6, <1>8 DEF AccType
  <2>. HIDE DEF r
  <2>2. /\ Fetch(acc, s, over) \in AccType(L, C, T, N)
        /\ r.stage = k.stage /\ r.cursor = k.cursor /\ r.held = k.held
        /\ r.steady = k.steady /\ r.dataPoints = k.dataPoints
        /\ r.started = started /\ r.tasks = tasks /\ r.failed = k.failed
    BY <1>6, <2>1, Zenon
  <2>. QED  BY <2>2 DEF r, k, started, tasks, FetchResult
<1>9. CASE ~WithinRate(acc.limiter, s, over)
  <2>1. r = refused /\ Fetch(acc, s, over) \in AccType(L, C, T, N)
    BY <1>1, <1>5, <1>7, <1>9 DEF AccType
  <2>. HIDE DEF r
  <2>2. /\ Fetch(acc, s, over) \in AccType(L, C, T, N)
        /\ r.stage = k.stage /\ r.cursor = k.cursor /\ r.held = k.held
        /\ r.steady = k.steady /\ r.dataPoints = k.dataPoints
        /\ r.started = k.started /\ r.tasks = k.tasks /\ r.failed = failed
    BY <1>7, <2>1, Zenon
  <2>. QED  BY <2>2 DEF r, k, failed, FetchResult
<1>. QED  BY <1>8, <1>9

\* What a turn does before it fetches: the cursor goes on, and a source that is
\* in the cache, or finds no slot, ends the turn.
Onward(acc) == [acc EXCEPT !.call.cursor = @ + 1]

OnwardResult(k, r) ==
    /\ r.cursor = k.cursor + 1
    /\ r.stage = k.stage /\ r.held = k.held /\ r.tasks = k.tasks
    /\ r.started = k.started /\ r.steady = k.steady
    /\ r.dataPoints = k.dataPoints /\ r.failed = k.failed

LEMMA OnwardEffect ==
    ASSUME NEW L, NEW C, NEW T, NEW N, NEW acc \in AccType(L, C, T, N), NEW s \in Source, NEW over,
           acc.call.cursor + 1 \in C
    PROVE  /\ Onward(acc) \in AccType(L, C, T, N) /\ Onward(acc).limiter = acc.limiter
           /\ OnwardResult(acc.call, Onward(acc).call)
<1>. DEFINE k == acc.call
            c == k.cursor + 1
            a == [k EXCEPT !.cursor = c]
<1>1. k \in CallType(C, T, N) /\ acc.limiter \in L /\ c \in C
  BY DEF AccType
<1>2. Onward(acc) = [limiter |-> acc.limiter, call |-> a]
  BY DEF Onward, AccType
<1>. HIDE DEF k, c
<1>3. /\ a \in CallType(C, T, N) /\ a.cursor = c
      /\ a.stage = k.stage /\ a.held = k.held /\ a.tasks = k.tasks
      /\ a.started = k.started /\ a.steady = k.steady
      /\ a.dataPoints = k.dataPoints /\ a.failed = k.failed
  BY <1>1 DEF CallType
<1>. HIDE DEF a
<1>4. Onward(acc) \in AccType(L, C, T, N) /\ Onward(acc).call = a
      /\ Onward(acc).limiter = acc.limiter
  BY <1>1, <1>2, <1>3 DEF AccType
<1>5. c = acc.call.cursor + 1 /\ k = acc.call
  BY DEF c, k
<1>. QED  BY <1>3, <1>4, <1>5, Zenon DEF OnwardResult

CachedResult(k, r, s) ==
    /\ r.dataPoints = [k.dataPoints EXCEPT ![s] = @ + 1]
    /\ r.stage = k.stage /\ r.cursor = k.cursor /\ r.held = k.held
    /\ r.tasks = k.tasks /\ r.started = k.started
    /\ r.steady = k.steady /\ r.failed = k.failed

LEMMA CachedEffect ==
    ASSUME NEW L, NEW C, NEW T, NEW N, NEW acc \in AccType(L, C, T, N), NEW s \in Source
    PROVE  /\ [acc EXCEPT !.call.dataPoints[s] = @ + 1] \in AccType(L, C, T, N)
           /\ CachedResult(acc.call, [acc EXCEPT !.call.dataPoints[s] = @ + 1].call, s)
<1>. DEFINE k == acc.call
            d == [k.dataPoints EXCEPT ![s] = @ + 1]
            r == [k EXCEPT !.dataPoints = d]
            m == [acc EXCEPT !.call.dataPoints[s] = @ + 1]
<1>1. k \in CallType(C, T, N) /\ acc.limiter \in L
  BY DEF AccType
<1>2. d \in [Source -> Nat]
  BY <1>1, CallFields, AnswerMore
<1>3. m = [limiter |-> acc.limiter, call |-> r]
  BY DEF AccType
<1>. HIDE DEF k, d, m
<1>4. /\ r \in CallType(C, T, N) /\ r.dataPoints = d
      /\ r.stage = k.stage /\ r.cursor = k.cursor /\ r.held = k.held /\ r.tasks = k.tasks
      /\ r.started = k.started /\ r.steady = k.steady /\ r.failed = k.failed
  BY <1>1, <1>2 DEF CallType
<1>. HIDE DEF r
<1>5. m \in AccType(L, C, T, N) /\ m.call = r
  BY <1>1, <1>3, <1>4 DEF AccType
<1>6. CachedResult(k, m.call, s)
  BY <1>4, <1>5 DEF d, CachedResult
<1>. QED  BY <1>5, <1>6 DEF m, k

HeldResult(k, r, s) ==
    /\ r.held = s /\ r.stage = k.stage /\ r.cursor = k.cursor
    /\ r.tasks = k.tasks /\ r.started = k.started
    /\ r.steady = k.steady /\ r.dataPoints = k.dataPoints /\ r.failed = k.failed

LEMMA HeldEffect ==
    ASSUME NEW L, NEW C, NEW T, NEW N, NEW acc \in AccType(L, C, T, N), NEW s \in Source \cup {NoSource}
    PROVE  /\ [acc EXCEPT !.call.held = s] \in AccType(L, C, T, N)
           /\ HeldResult(acc.call, [acc EXCEPT !.call.held = s].call, s)
<1>. DEFINE k == acc.call
            r == [k EXCEPT !.held = s]
            m == [acc EXCEPT !.call.held = s]
<1>1. k \in CallType(C, T, N) /\ acc.limiter \in L
  BY DEF AccType
<1>2. m = [limiter |-> acc.limiter, call |-> r]
  BY DEF AccType
<1>. HIDE DEF k, m
<1>3. /\ r \in CallType(C, T, N) /\ r.held = s
      /\ r.stage = k.stage /\ r.cursor = k.cursor /\ r.tasks = k.tasks
      /\ r.started = k.started /\ r.steady = k.steady /\ r.dataPoints = k.dataPoints
      /\ r.failed = k.failed
  BY <1>1 DEF CallType
<1>. HIDE DEF r
<1>4. m \in AccType(L, C, T, N) /\ m.call = r
  BY <1>1, <1>2, <1>3 DEF AccType
<1>5. HeldResult(k, m.call, s)
  BY <1>3, <1>4 DEF HeldResult
<1>. QED  BY <1>4, <1>5 DEF m, k

\* The four ends of a turn.
LEMMA VisitCases ==
    ASSUME NEW acc, NEW s, NEW over
    PROVE  \/ acc.call.held # NoSource /\ Visit(acc, s, over) = acc
           \/ /\ acc.call.held = NoSource
              /\ \/ /\ s \in fresh
                    /\ Visit(acc, s, over) = [Onward(acc) EXCEPT !.call.dataPoints[s] = @ + 1]
                 \/ Visit(acc, s, over) = [Onward(acc) EXCEPT !.call.held = s]
                 \/ Visit(acc, s, over) = Fetch(Onward(acc), s, over)
BY DEF Visit, Onward

\* A turn stays within sets that its numbers cannot leave.
LEMMA VisitType ==
    ASSUME NEW L, NEW C, NEW T, NEW N, NEW acc \in AccType(L, C, T, N), NEW s \in Source, NEW over,
           acc.call.cursor + 1 \in C, acc.call.started + 1 \in N, FirstTask(acc.call, s) \in T,
           WithinRate(acc.limiter, s, over) => Counted(acc.limiter, s, over) \in L
    PROVE  Visit(acc, s, over) \in AccType(L, C, T, N)
<1>. DEFINE at == Onward(acc)
<1>1. /\ at \in AccType(L, C, T, N) /\ at.limiter = acc.limiter
      /\ at.call.started = acc.call.started
  BY OnwardEffect DEF OnwardResult
<1>2. FirstTask(at.call, s) \in T /\ at.call.started + 1 \in N
  BY <1>1 DEF FirstTask
<1>. HIDE DEF at
<1>3. Fetch(at, s, over) \in AccType(L, C, T, N)
  BY <1>1, <1>2, FetchEffect
<1>4. [at EXCEPT !.call.dataPoints[s] = @ + 1] \in AccType(L, C, T, N)
  BY <1>1, CachedEffect
<1>5. [at EXCEPT !.call.held = s] \in AccType(L, C, T, N)
  BY <1>1, HeldEffect
<1>. QED  BY <1>3, <1>4, <1>5, VisitCases DEF at
-----------------------------------------------------------------------------
(***************************************************************************)
(* A turn keeps every steady source in one place.                          *)
(***************************************************************************)
Counters == [Source -> 0..RateLimit]

AccState == AccType(Counters, 1..(MaxEdits + 1), Task, 0..MaxEdits)

AccFine(acc, q, e) ==
    /\ acc \in AccState /\ acc.call.stage = "looping"
    /\ Looping(acc.call, q, e) /\ AllPlaced(acc.call, q)

\* s is in hand, and one request more may be begun for it.
HandFine(acc, q, e, s) ==
    /\ acc \in AccState /\ acc.call.stage = "looping" /\ acc.call.held = NoSource
    /\ acc.call.cursor <= Len(q) + 1 /\ Begun(acc.call, q) + 1 <= e
    /\ \A u \in acc.call.steady : \E i \in DOMAIN q : q[i] = u
    /\ OthersPlaced(acc.call, q, s)

LEMMA CollectStateIsCallType ==
    CollectState = CallType(1..(MaxEdits + 1), Task, 0..MaxEdits)
BY DEF CollectState, CallType

LEMMA AccFields ==
    ASSUME NEW acc \in AccState
    PROVE  /\ acc.call \in CollectState /\ acc.limiter \in Counters
           /\ acc.call.cursor \in 1..(MaxEdits + 1) /\ acc.call.started \in 0..MaxEdits
           /\ acc.call.steady \in SUBSET Source /\ acc.call.tasks \in SUBSET Task
           /\ acc.call.dataPoints \in [Source -> Nat] /\ acc.call.failed \in [Source -> Nat]
           /\ acc.call.held \in Source \cup {NoSource}
<1>1. acc.call \in CallType(1..(MaxEdits + 1), Task, 0..MaxEdits) /\ acc.limiter \in Counters
  <2>. DEFINE C == 1..(MaxEdits + 1)
              N == 0..MaxEdits
  <2>1. acc \in AccType(Counters, C, Task, N)
    BY DEF AccState
  <2>. HIDE DEF C, N
  <2>2. acc.call \in CallType(C, Task, N) /\ acc.limiter \in Counters
    BY <2>1 DEF AccType
  <2>. QED  BY <2>2 DEF C, N
<1>2. acc.call \in CollectState
  BY <1>1, CollectStateIsCallType, Zenon
<1>3. /\ acc.call.cursor \in 1..(MaxEdits + 1) /\ acc.call.started \in 0..MaxEdits
      /\ acc.call.steady \in SUBSET Source /\ acc.call.tasks \in SUBSET Task
      /\ acc.call.dataPoints \in [Source -> Nat] /\ acc.call.failed \in [Source -> Nat]
      /\ acc.call.held \in Source \cup {NoSource}
  <2>. DEFINE C == 1..(MaxEdits + 1)
              N == 0..MaxEdits
  <2>1. acc.call \in CallType(C, Task, N)
    BY <1>1
  <2>. HIDE DEF C, N
  <2>2. /\ acc.call.cursor \in C /\ acc.call.started \in N
        /\ acc.call.steady \in SUBSET Source /\ acc.call.tasks \in SUBSET Task
        /\ acc.call.dataPoints \in [Source -> Nat] /\ acc.call.failed \in [Source -> Nat]
        /\ acc.call.held \in Source \cup {NoSource}
    BY <2>1, CallFields
  <2>. QED  BY <2>2 DEF C, N
<1>. QED  BY <1>1, <1>2, <1>3, Zenon

\* The limiter counts up to the limit.
LEMMA CountedType ==
    ASSUME CollectorAssumption, NEW count \in Counters, NEW s \in Source, NEW over,
           WithinRate(count, s, over)
    PROVE  Counted(count, s, over) \in Counters
<1>1. RateLimit \in Nat \ {0} /\ count[s] \in 0..RateLimit
  BY DEF CollectorAssumption, Counters
<1>. DEFINE v == IF s \in over THEN 1 ELSE count[s] + 1
<1>2. v \in 0..RateLimit
  BY <1>1 DEF WithinRate
<1>3. Counted(count, s, over) = [count EXCEPT ![s] = v]
  BY DEF Counted
<1>. HIDE DEF v
<1>. QED  BY <1>2, <1>3 DEF Counters

\* A request more is begun while there is one left.
LEMMA FirstTaskType ==
    ASSUME CollectorAssumption, NEW k \in CollectState, NEW s \in Source, k.started + 1 <= MaxEdits
    PROVE  FirstTask(k, s) \in Task /\ k.started + 1 \in 0..MaxEdits
<1>1. k.started \in 0..MaxEdits /\ MaxEdits \in Nat /\ MaxAttempts \in Nat \ {0}
  BY CollectStateIsCallType, CallFields DEF CollectorAssumption
<1>2. k.started + 1 \in 1..MaxEdits /\ k.started + 1 \in 0..MaxEdits /\ 1 \in 1..MaxAttempts
  BY <1>1
<1>. QED  BY <1>2 DEF FirstTask, Task

LEMMA FetchFine ==
    ASSUME CollectorAssumption, NEW q \in Seq(Source), NEW e \in 0..MaxEdits,
           NEW s \in Source, NEW acc, HandFine(acc, q, e, s), NEW over
    PROVE  LET m == Fetch(acc, s, over)
           IN  AccFine(m, q, e) /\ m.call.held = NoSource /\ m.call.cursor = acc.call.cursor
<1>. DEFINE k == acc.call
            r == Fetch(acc, s, over).call
<1>1. /\ acc \in AccState /\ k.stage = "looping" /\ k.held = NoSource
      /\ k.cursor <= Len(q) + 1 /\ Begun(k, q) + 1 <= e
      /\ \A u \in k.steady : \E i \in DOMAIN q : q[i] = u
      /\ OthersPlaced(k, q, s)
  BY DEF HandFine
<1>2. /\ k \in CollectState /\ acc.limiter \in Counters
      /\ k.cursor \in 1..(MaxEdits + 1) /\ k.started \in 0..MaxEdits /\ k.steady \in SUBSET Source
      /\ k.dataPoints \in [Source -> Nat] /\ k.failed \in [Source -> Nat]
  BY <1>1, AccFields
<1>3. Len(q) \in Nat /\ MaxEdits \in Nat
  BY LenProperties DEF CollectorAssumption
<1>. HIDE DEF k
<1>4. Begun(k, q) = k.started + 0 + (Len(q) + 1 - k.cursor)
  BY <1>1 DEF Begun
<1>5. k.started + 1 <= MaxEdits /\ k.started + 1 <= e
  <2>1. k.started \in Nat /\ k.cursor \in Nat /\ e \in Nat /\ e <= MaxEdits
    BY <1>2, <1>3
  <2>2. k.cursor <= Len(q) + 1 /\ (k.started + 0 + (Len(q) + 1 - k.cursor)) + 1 <= e
    BY <1>1, <1>4
  <2>. QED  BY <1>3, <2>1, <2>2
<1>6. FirstTask(k, s) \in Task /\ k.started + 1 \in 0..MaxEdits
  BY <1>2, <1>5, FirstTaskType
<1>7. WithinRate(acc.limiter, s, over) => Counted(acc.limiter, s, over) \in Counters
  BY <1>2, CountedType
<1>8. /\ Fetch(acc, s, over) \in AccState
      /\ r.stage = k.stage /\ r.cursor = k.cursor /\ r.held = k.held
      /\ r.steady = k.steady /\ r.dataPoints = k.dataPoints
      /\ \/ /\ r.started = k.started + 1 /\ r.tasks = k.tasks \cup {FirstTask(k, s)}
            /\ r.failed = k.failed
         \/ /\ r.started = k.started /\ r.tasks = k.tasks
            /\ r.failed = [k.failed EXCEPT ![s] = @ + 1]
  <2>. DEFINE C == 1..(MaxEdits + 1)
              N == 0..MaxEdits
  <2>1. acc \in AccType(Counters, C, Task, N)
    BY <1>1 DEF AccState
  <2>2. k.started + 1 \in N
    BY <1>6
  <2>. HIDE DEF C, N
  <2>3. acc.call.started + 1 \in N /\ FirstTask(acc.call, s) \in Task
    BY <1>6, <2>2 DEF k
  <2>4. /\ Fetch(acc, s, over) \in AccType(Counters, C, Task, N)
        /\ FetchResult(acc.call, Fetch(acc, s, over).call, s)
    BY <1>7, <2>1, <2>3, FetchEffect
  <2>5. Fetch(acc, s, over) \in AccState
    BY <2>4 DEF AccState, C, N
  <2>. QED  BY <2>4, <2>5 DEF FetchResult, k
<1>. HIDE DEF r
<1>9. Looping(r, q, e)
  <2>1. Begun(r, q) = r.started + 0 + (Len(q) + 1 - r.cursor)
    BY <1>1, <1>8 DEF Begun
  <2>2. r.started = k.started \/ r.started = k.started + 1
    BY <1>8
  <2>3. r.cursor = k.cursor /\ r.steady = k.steady
    BY <1>8
  <2>4. r.started + 0 + (Len(q) + 1 - r.cursor) <= e
    BY <1>1, <1>2, <1>3, <1>4, <2>2, <2>3
  <2>. QED  BY <1>1, <2>1, <2>3, <2>4 DEF Looping
<1>10. AllPlaced(r, q)
  <2>1. CASE r.tasks = k.tasks \cup {FirstTask(k, s)} /\ r.failed = k.failed
    <3>1. \A u \in k.steady : Answered(r, u) = Answered(k, u)
      BY <1>8, <2>1 DEF Answered
    <3>2. FirstTask(k, s).source = s
      BY DEF FirstTask
    <3>. QED  BY <1>1, <1>8, <2>1, <3>1, <3>2, HandAsked
  <2>2. CASE r.tasks = k.tasks /\ r.failed = [k.failed EXCEPT ![s] = @ + 1]
    <3>1. \A u \in Source : r.failed[u] = IF u = s THEN k.failed[u] + 1 ELSE k.failed[u]
      BY <1>2, <2>2
    <3>2. \A u \in Source : k.dataPoints[u] \in Nat /\ k.failed[u] \in Nat
      BY <1>2
    <3>3. Answered(r, s) = Answered(k, s) + 1
      <4>1. r.failed[s] = k.failed[s] + 1 /\ r.dataPoints[s] = k.dataPoints[s]
        BY <1>8, <3>1
      <4>. QED  BY <3>2, <4>1 DEF Answered
    <3>4. \A u \in k.steady : u # s => Answered(r, u) = Answered(k, u)
      BY <1>2, <1>8, <3>1 DEF Answered
    <3>. QED  BY <1>1, <1>8, <2>2, <3>3, <3>4, HandAnswered
  <2>. QED  BY <1>8, <2>1, <2>2
<1>11. Fetch(acc, s, over) \in AccState /\ r.stage = "looping"
  BY <1>1, <1>8
<1>12. AccFine(Fetch(acc, s, over), q, e)
  BY <1>9, <1>10, <1>11 DEF AccFine, r
<1>13. r.held = NoSource /\ r.cursor = k.cursor
  BY <1>1, <1>8
<1>. QED  BY <1>12, <1>13 DEF r, k

\* One turn of the loop.
LEMMA TurnFine ==
    ASSUME CollectorAssumption, NEW q \in Seq(Source), Injective(q),
           NEW e \in 0..MaxEdits, Len(q) <= e, NEW acc, AccFine(acc, q, e), acc.call.held = NoSource, acc.call.cursor \in DOMAIN q,
           NEW over
    PROVE  LET m == Visit(acc, q[acc.call.cursor], over)
           IN  /\ AccFine(m, q, e)
               /\ m.call.held = NoSource => m.call.cursor = acc.call.cursor + 1
<1>. DEFINE k == acc.call
            s == q[acc.call.cursor]
            at == Onward(acc)
            a == at.call
            C == 1..(MaxEdits + 1)
            N == 0..MaxEdits
<1>1. acc \in AccState /\ k.stage = "looping" /\ Looping(k, q, e) /\ AllPlaced(k, q)
  BY DEF AccFine
<1>2. /\ k \in CollectState /\ k.cursor \in 1..(MaxEdits + 1) /\ k.started \in 0..MaxEdits
      /\ k.steady \in SUBSET Source
      /\ k.dataPoints \in [Source -> Nat] /\ k.failed \in [Source -> Nat]
  BY <1>1, AccFields
<1>3. Len(q) \in Nat /\ DOMAIN q = 1..Len(q) /\ MaxEdits \in Nat /\ s \in Source
  BY LenProperties, ElementOfSeq DEF CollectorAssumption
<1>4. /\ k.cursor <= Len(q) + 1 /\ Begun(k, q) <= e
      /\ \A u \in k.steady : \E i \in DOMAIN q : q[i] = u
  BY <1>1 DEF Looping
<1>5. k.held = NoSource /\ k.cursor \in 1..Len(q) /\ NoSource \notin Source
  BY <1>3 DEF CollectorAssumption
<1>6. acc \in AccType(Counters, C, Task, N)
  BY <1>1 DEF AccState
<1>. HIDE DEF k, s
<1>7. Begun(k, q) = k.started + 0 + (Len(q) + 1 - k.cursor)
  BY <1>5 DEF Begun
<1>8. k.started + 1 <= e /\ k.cursor + 1 \in 1..(MaxEdits + 1) /\ k.cursor + 1 <= Len(q) + 1
  <2>. DEFINE x == k.started
              y == k.cursor
              n == Len(q)
  <2>1. x \in Nat /\ y \in Nat /\ e \in Nat /\ e <= MaxEdits /\ n \in Nat /\ MaxEdits \in Nat
    BY <1>2, <1>3
  <2>2. y <= n /\ x + 0 + (n + 1 - y) <= e
    BY <1>4, <1>5, <1>7
  <2>3. n <= e
    OBVIOUS
  <2>. HIDE DEF x, y, n
  <2>4. x + 1 <= e /\ y + 1 <= n + 1
    BY <2>1, <2>2
  <2>5. y + 1 \in 1..(MaxEdits + 1)
    BY <2>1, <2>2, <2>3
  <2>. QED  BY <2>4, <2>5 DEF x, y, n
<1>9. /\ at \in AccType(Counters, C, Task, N)
      /\ a.cursor = k.cursor + 1
      /\ a.stage = k.stage /\ a.held = k.held /\ a.tasks = k.tasks
      /\ a.started = k.started /\ a.steady = k.steady
      /\ a.dataPoints = k.dataPoints /\ a.failed = k.failed
  <2>1. k.cursor + 1 \in C
    BY <1>8
  <2>. HIDE DEF C, N
  <2>2. acc.call.cursor + 1 \in C
    BY <2>1 DEF k
  <2>3. at \in AccType(Counters, C, Task, N) /\ OnwardResult(k, a)
    BY <1>6, <2>2, OnwardEffect DEF k
  <2>. QED  BY <2>3 DEF OnwardResult
<1>. HIDE DEF at
<1>10. \A u \in k.steady : Answered(a, u) = Answered(k, u)
  BY <1>9 DEF Answered
<1>11. OthersPlaced(a, q, s)
  <2>1. k.cursor \in DOMAIN q /\ k.held \notin k.steady
    BY <1>2, <1>3, <1>5
  <2>2. OthersPlaced(a, q, q[k.cursor])
    BY <1>1, <1>9, <1>10, <2>1, NextTaken
  <2>. QED  BY <2>2 DEF s, k
<1>12. Begun(a, q) + 1 <= e /\ a.cursor <= Len(q) + 1
  <2>1. Begun(a, q) = a.started + 0 + (Len(q) + 1 - a.cursor)
    BY <1>5, <1>9 DEF Begun
  <2>2. a.started = k.started /\ a.cursor = k.cursor + 1
    BY <1>9
  <2>3. (a.started + 0 + (Len(q) + 1 - a.cursor)) + 1 <= e
    BY <1>2, <1>3, <1>4, <1>7, <2>2
  <2>. QED  BY <1>8, <2>1, <2>2, <2>3
<1>13. \A u \in a.steady : \E i \in DOMAIN q : q[i] = u
  BY <1>4, <1>9
<1>14. at \in AccState
  BY <1>9 DEF AccState
<1>15. HandFine(at, q, e, s)
  BY <1>1, <1>5, <1>9, <1>11, <1>12, <1>13, <1>14 DEF HandFine
<1>16. ASSUME s \in fresh, NEW m, m = [at EXCEPT !.call.dataPoints[s] = @ + 1]
       PROVE  AccFine(m, q, e) /\ m.call.cursor = k.cursor + 1
  <2>. DEFINE r == m.call
  <2>1. m \in AccType(Counters, C, Task, N) /\ CachedResult(a, r, s)
    <3>. HIDE DEF C, N
    <3>. QED  BY <1>3, <1>9, <1>16, CachedEffect
  <2>2. /\ r.dataPoints = [a.dataPoints EXCEPT ![s] = @ + 1]
        /\ r.stage = a.stage /\ r.cursor = a.cursor /\ r.held = a.held
        /\ r.tasks = a.tasks /\ r.started = a.started
        /\ r.steady = a.steady /\ r.failed = a.failed
    BY <2>1 DEF CachedResult
  <2>. HIDE DEF r
  <2>3. \A u \in Source : r.dataPoints[u] = IF u = s THEN a.dataPoints[u] + 1 ELSE a.dataPoints[u]
    BY <1>2, <1>9, <2>2
  <2>4. \A u \in Source : a.dataPoints[u] \in Nat /\ a.failed[u] \in Nat
    BY <1>2, <1>9
  <2>5. Answered(r, s) = Answered(a, s) + 1
    <3>1. r.dataPoints[s] = a.dataPoints[s] + 1 /\ r.failed[s] = a.failed[s]
      BY <1>3, <2>2, <2>3
    <3>2. a.dataPoints[s] \in Nat /\ a.failed[s] \in Nat
      BY <1>3, <2>4
    <3>. DEFINE x == a.dataPoints[s]
                y == a.failed[s]
                before == Answered(a, s)
                after == Answered(r, s)
    <3>3. x \in Nat /\ y \in Nat /\ before = x + y /\ after = x + 1 + y
      BY <3>1, <3>2 DEF Answered
    <3>. HIDE DEF x, y, before, after
    <3>4. after = before + 1
      BY <3>3
    <3>. QED  BY <3>4 DEF before, after
  <2>6. \A u \in a.steady : u # s => Answered(r, u) = Answered(a, u)
    BY <1>2, <1>9, <2>2, <2>3 DEF Answered
  <2>7. AllPlaced(r, q)
    BY <1>11, <2>2, <2>5, <2>6, HandAnswered
  <2>8. Looping(r, q, e)
    <3>1. Begun(r, q) = r.started + 0 + (Len(q) + 1 - r.cursor)
          /\ Begun(a, q) = a.started + 0 + (Len(q) + 1 - a.cursor)
      BY <1>5, <1>9, <2>2 DEF Begun
    <3>2. Begun(r, q) = Begun(a, q)
      BY <2>2, <3>1
    <3>3. Begun(a, q) \in Int /\ e \in Int
      BY <1>2, <1>3, <1>9, <3>1
    <3>4. Begun(r, q) <= e
      BY <1>12, <3>2, <3>3
    <3>. QED  BY <1>12, <1>13, <2>2, <3>4 DEF Looping
  <2>9. m \in AccState /\ r.stage = "looping"
    BY <1>1, <1>9, <2>1, <2>2 DEF AccState
  <2>10. AccFine(m, q, e)
    BY <2>7, <2>8, <2>9 DEF AccFine, r
  <2>11. r.cursor = k.cursor + 1
    BY <1>9, <2>2
  <2>. QED  BY <2>10, <2>11 DEF r
<1>17. ASSUME NEW m, m = [at EXCEPT !.call.held = s]
       PROVE  AccFine(m, q, e) /\ m.call.held # NoSource
  <2>. DEFINE r == m.call
  <2>1. m \in AccType(Counters, C, Task, N) /\ HeldResult(a, r, s)
    <3>. HIDE DEF C, N
    <3>1. s \in Source \cup {NoSource}
      BY <1>3
    <3>. QED  BY <1>9, <1>17, <3>1, HeldEffect
  <2>2. /\ r.held = s /\ r.stage = a.stage /\ r.cursor = a.cursor
        /\ r.tasks = a.tasks /\ r.started = a.started
        /\ r.steady = a.steady /\ r.dataPoints = a.dataPoints /\ r.failed = a.failed
    BY <2>1 DEF HeldResult
  <2>. HIDE DEF r
  <2>3. \A u \in a.steady : Answered(r, u) = Answered(a, u)
    BY <2>2 DEF Answered
  <2>4. a.held \notin a.steady
    BY <1>2, <1>5, <1>9
  <2>5. AllPlaced(r, q)
    BY <1>11, <2>2, <2>3, <2>4, HandHeld
  <2>6. s # NoSource
    BY <1>3, <1>5
  <2>7. Looping(r, q, e)
    <3>1. Begun(r, q) = r.started + 1 + (Len(q) + 1 - r.cursor)
          /\ Begun(a, q) = a.started + 0 + (Len(q) + 1 - a.cursor)
      BY <1>5, <1>9, <2>2, <2>6 DEF Begun
    <3>2. Begun(r, q) = Begun(a, q) + 1
      <4>1. r.started = a.started /\ r.cursor = a.cursor
        BY <2>2
      <4>2. a.started \in Int /\ a.cursor \in Int
        BY <1>2, <1>3, <1>9
      <4>3. Begun(r, q) = a.started + 1 + (Len(q) + 1 - a.cursor)
        BY <3>1, <4>1, Zenon
      <4>4. Begun(a, q) = a.started + 0 + (Len(q) + 1 - a.cursor)
        BY <3>1, Zenon
      <4>5. Len(q) \in Int
        BY <1>3
      <4>. QED  BY <4>2, <4>3, <4>4, <4>5
    <3>3. Begun(r, q) <= e
      BY <1>12, <3>2
    <3>. QED  BY <1>12, <1>13, <2>2, <3>3 DEF Looping
  <2>8. m \in AccState /\ r.stage = "looping"
    BY <1>1, <1>9, <2>1, <2>2 DEF AccState
  <2>9. AccFine(m, q, e)
    BY <2>5, <2>7, <2>8 DEF AccFine, r
  <2>. QED  BY <2>2, <2>6, <2>9 DEF r
<1>18. ASSUME NEW m, m = Fetch(at, s, over)
       PROVE  AccFine(m, q, e) /\ m.call.cursor = k.cursor + 1
  <2>1. AccFine(m, q, e) /\ m.call.cursor = a.cursor
    BY <1>3, <1>15, <1>18, FetchFine
  <2>. QED  BY <1>9, <2>1
<1>. DEFINE m == Visit(acc, s, over)
<1>19. \/ s \in fresh /\ m = [at EXCEPT !.call.dataPoints[s] = @ + 1]
       \/ m = [at EXCEPT !.call.held = s]
       \/ m = Fetch(at, s, over)
  BY <1>5, VisitCases DEF at, k
<1>. HIDE DEF m
<1>20. AccFine(m, q, e) /\ (m.call.held = NoSource => m.call.cursor = k.cursor + 1)
  BY <1>16, <1>17, <1>18, <1>19
<1>. QED  BY <1>20 DEF m, s, k
-----------------------------------------------------------------------------
(***************************************************************************)
(* The turns one after the other, up to one that waits or the end of the Map. *)
(***************************************************************************)
Turns(g, acc, over) ==
    [i \in 0..Len(sources) |->
        IF i < acc.call.cursor THEN acc ELSE Visit(g[i - 1], sources[i], over)]

\* Sets that no turn leaves, whatever it counts.
WideState ==
    AccType([Source -> Nat], Nat, [source: Source, number: Nat, attempt: Nat], Nat)

LEMMA VisitStaysWide ==
    ASSUME NEW acc \in WideState, NEW s \in Source, NEW over
    PROVE  Visit(acc, s, over) \in WideState
<1>. DEFINE L == [Source -> Nat]
            T == [source: Source, number: Nat, attempt: Nat]
<1>1. acc \in AccType(L, Nat, T, Nat)
  BY DEF WideState
<1>2. acc.call \in CallType(Nat, T, Nat) /\ acc.limiter \in L
  <2>. HIDE DEF L, T
  <2>. QED  BY <1>1 DEF AccType
<1>3. acc.call.cursor \in Nat /\ acc.call.started \in Nat
  <2>. HIDE DEF T
  <2>. QED  BY <1>2, CallFields
<1>4. acc.call.cursor + 1 \in Nat /\ acc.call.started + 1 \in Nat
  BY <1>3
<1>5. FirstTask(acc.call, s) \in T
  BY <1>4 DEF FirstTask
<1>6. Counted(acc.limiter, s, over) \in L
  <2>1. \A u \in Source : acc.limiter[u] \in Nat
    BY <1>2
  <2>. DEFINE v == IF s \in over THEN 1 ELSE acc.limiter[s] + 1
  <2>2. v \in Nat
    BY <2>1
  <2>3. Counted(acc.limiter, s, over) = [acc.limiter EXCEPT ![s] = v]
    BY DEF Counted
  <2>. HIDE DEF v
  <2>. QED  BY <1>2, <2>2, <2>3
<1>7. Visit(acc, s, over) \in AccType(L, Nat, T, Nat)
  <2>. HIDE DEF L, T
  <2>. QED  BY <1>1, <1>4, <1>5, <1>6, VisitType
<1>. QED  BY <1>7 DEF WideState

LEMMA StateIsWide ==
    ASSUME CollectorAssumption, NEW acc \in AccState
    PROVE  acc \in WideState
<1>1. acc.call \in CollectState /\ acc.limiter \in Counters /\ MaxEdits \in Nat /\ RateLimit \in Nat
  BY AccFields DEF CollectorAssumption
<1>. DEFINE T == [source: Source, number: Nat, attempt: Nat]
<1>2. Task \subseteq T
  <2>1. 1..MaxEdits \subseteq Nat /\ 1..MaxAttempts \subseteq Nat
    OBVIOUS
  <2>. QED  BY <2>1 DEF Task
<1>3. 1..(MaxEdits + 1) \subseteq Nat /\ 0..MaxEdits \subseteq Nat /\ 0..RateLimit \subseteq Nat
  OBVIOUS
<1>4. acc.limiter \in [Source -> Nat]
  BY <1>1, <1>3 DEF Counters
<1>5. acc.call \in CallType(Nat, T, Nat)
  <2>. DEFINE C == 1..(MaxEdits + 1)
              N == 0..MaxEdits
  <2>1. acc.call \in CallType(C, Task, N) /\ C \subseteq Nat /\ N \subseteq Nat
    BY <1>1, <1>3, CollectStateIsCallType
  <2>. HIDE DEF C, N, T
  <2>. QED  BY <1>2, <2>1 DEF CallType
<1>6. acc = [limiter |-> acc.limiter, call |-> acc.call]
  <2>. DEFINE C == 1..(MaxEdits + 1)
              N == 0..MaxEdits
  <2>1. acc \in AccType(Counters, C, Task, N)
    BY DEF AccState
  <2>. HIDE DEF C, N
  <2>. QED  BY <2>1 DEF AccType
<1>. HIDE DEF T
<1>7. acc \in AccType([Source -> Nat], Nat, T, Nat)
  BY <1>4, <1>5, <1>6 DEF AccType
<1>. QED  BY <1>7 DEF WideState, T

\* The turns can be taken one after the other.
LEMMA TurnsExist ==
    ASSUME CollectorAssumption, sources \in Seq(Source), NEW acc \in AccState, NEW over
    PROVE  \E g : g = Turns(g, acc, over)
<1>. DEFINE n == Len(sources)
            step == [i \in 1..n |-> [x \in WideState |->
                        IF i < acc.call.cursor THEN acc ELSE Visit(x, sources[i], over)]]
<1>1. n \in Nat /\ acc.call.cursor \in 1..(MaxEdits + 1)
  BY LenProperties, AccFields
<1>2. acc \in WideState
  BY StateIsWide
<1>3. step \in [1..n -> [WideState -> WideState]]
  <2>1. ASSUME NEW i \in 1..n, NEW x \in WideState
        PROVE  (IF i < acc.call.cursor THEN acc ELSE Visit(x, sources[i], over)) \in WideState
    <3>1. sources[i] \in Source
      BY ElementOfSeq
    <3>. QED  BY <1>2, <3>1, VisitStaysWide
  <2>. QED  BY <2>1
<1>4. PICK g : Records(g, n, WideState, acc, step)
  <2>. HIDE DEF step, n
  <2>. QED  BY <1>1, <1>2, <1>3, IterationExists
<1>5. g = Turns(g, acc, over)
  <2>1. \A i \in 1..n : i - 1 \in 0..n
    BY <1>1
  <2>2. \A i \in 1..n : g[i] = IF i < acc.call.cursor THEN acc ELSE Visit(g[i - 1], sources[i], over)
    BY <1>4, <2>1 DEF Records
  <2>3. \A i \in 0..n : i = 0 \/ i \in 1..n
    BY <1>1
  <2>4. 0 < acc.call.cursor
    BY <1>1
  <2>. HIDE DEF step
  <2>5. \A i \in 0..n : g[i] = IF i < acc.call.cursor THEN acc ELSE Visit(g[i - 1], sources[i], over)
    BY <1>4, <2>2, <2>3, <2>4 DEF Records
  <2>6. g = [i \in 0..n |-> g[i]]
    BY <1>4 DEF Records
  <2>. QED  BY <2>5, <2>6 DEF Turns
<1>. QED  BY <1>5

LastTurn(acc, over) == (CHOOSE g : g = Turns(g, acc, over))[Len(sources)]

\* The turns from the cursor on keep every steady source in one place, and end
\* with a source that waits or behind the last one.
LEMMA TurnsFine ==
    ASSUME CollectorAssumption, sources \in Seq(Source), Injective(sources),
           NEW e \in 0..MaxEdits, Len(sources) <= e,
           NEW acc, AccFine(acc, sources, e), acc.call.held = NoSource, NEW over
    PROVE  LET end == LastTurn(acc, over)
           IN  /\ AccFine(end, sources, e)
               /\ end.call.held = NoSource => end.call.cursor = Len(sources) + 1
<1>. DEFINE n == Len(sources)
            after == CHOOSE g : g = Turns(g, acc, over)
            first == acc.call.cursor
            Good(i) == /\ AccFine(after[i], sources, e)
                       /\ after[i].call.held = NoSource =>
                              after[i].call.cursor = IF i < first THEN first ELSE i + 1
            f == [i \in 0..n |-> Good(i)]
<1>1. n \in Nat /\ DOMAIN sources = 1..n
  BY LenProperties
<1>2. acc \in AccState /\ first \in 1..(MaxEdits + 1) /\ first <= n + 1
  <2>1. acc \in AccState /\ acc.call.cursor <= Len(sources) + 1
    BY DEF AccFine, Looping
  <2>. QED  BY <2>1, AccFields
<1>3. after = Turns(after, acc, over)
  BY <1>2, TurnsExist
<1>4. /\ after[0] = acc
      /\ \A i \in 1..n : i < first => after[i] = acc
      /\ \A i \in 1..n : ~(i < first) => after[i] = Visit(after[i - 1], sources[i], over)
  <2>. HIDE DEF after
  <2>1. \A i \in 0..n : after[i] = IF i < first THEN acc ELSE Visit(after[i - 1], sources[i], over)
    BY <1>3 DEF Turns
  <2>2. 0 \in 0..n /\ 0 < first /\ \A i \in 1..n : i \in 0..n
    BY <1>1, <1>2
  <2>. QED  BY <2>1, <2>2
<1>. HIDE DEF after
<1>5. Good(0)
  <2>1. 0 < first
    BY <1>2
  <2>. QED  BY <1>4, <2>1
<1>6. ASSUME NEW i \in 1..n, Good(i - 1)  PROVE Good(i)
  <2>1. CASE i < first
    BY <1>4, <2>1
  <2>2. CASE ~(i < first)
    <3>. DEFINE b == after[i - 1]
    <3>1. after[i] = Visit(b, sources[i], over) /\ AccFine(b, sources, e)
      BY <1>4, <1>6, <2>2
    <3>2. CASE b.call.held # NoSource
      <4>1. Visit(b, sources[i], over) = b
        BY <3>2, VisitCases
      <4>. QED  BY <3>1, <3>2, <4>1
    <3>3. CASE b.call.held = NoSource
      <4>1. b.call.cursor = i
        <5>1. b.call.cursor = IF i - 1 < first THEN first ELSE (i - 1) + 1
          BY <1>6, <3>3
        <5>. QED  BY <1>2, <2>2, <5>1
      <4>2. b.call.cursor \in DOMAIN sources
        BY <1>1, <4>1
      <4>. HIDE DEF b
      <4>3. /\ AccFine(Visit(b, sources[i], over), sources, e)
            /\ Visit(b, sources[i], over).call.held = NoSource =>
                   Visit(b, sources[i], over).call.cursor = i + 1
        BY <3>1, <3>3, <4>1, <4>2, TurnFine
      <4>. QED  BY <2>2, <3>1, <4>3
    <3>. QED  BY <3>2, <3>3
  <2>. QED  BY <2>1, <2>2
<1>7. \A i \in 0..n : f[i] \in {TRUE}
  <2>. HIDE DEF Good
  <2>1. f[0] \in {TRUE}
    <3>1. 0 \in 0..n
      BY <1>1
    <3>2. Good(0) = TRUE
      BY <1>5
    <3>3. f[0] = Good(0)
      BY <3>1, Zenon
    <3>. QED  BY <3>2, <3>3, Zenon
  <2>2. ASSUME NEW i \in 1..n, f[i - 1] \in {TRUE}  PROVE f[i] \in {TRUE}
    <3>1. i - 1 \in 0..n /\ i \in 0..n
      BY <1>1
    <3>2. Good(i - 1)
      BY <2>2, <3>1
    <3>3. Good(i)
      BY <1>6, <3>2
    <3>. QED  BY <3>1, <3>3
  <2>. HIDE DEF f, n
  <2>. QED  BY <1>1, <2>1, <2>2, KeptByIteration
<1>8. Good(n)
  <2>1. n \in 0..n
    BY <1>1
  <2>2. f[n] = TRUE
    <3>. HIDE DEF f
    <3>. QED  BY <1>7, <2>1
  <2>. HIDE DEF Good
  <2>. QED  BY <2>1, <2>2
<1>9. LastTurn(acc, over) = after[n]
  BY DEF LastTurn, after
<1>10. after[n].call.held = NoSource => after[n].call.cursor = n + 1
  BY <1>1, <1>2, <1>8
<1>. QED  BY <1>8, <1>9, <1>10
-----------------------------------------------------------------------------
(***************************************************************************)
(* The actions.                                                            *)
(***************************************************************************)
ProceedResult(c, last) ==
    /\ collects' = [collects EXCEPT ![c] = [last.call EXCEPT !.stage =
                        IF last.call.held = NoSource THEN "awaiting" ELSE "looping"]]
    /\ limiter' = last.limiter
    /\ UNCHANGED <<sources, fresh, edits>>

LEMMA ProceedUnfolds ==
    ASSUME NEW c, NEW acc, NEW over, Proceed(c, acc, over)
    PROVE  ProceedResult(c, LastTurn(acc, over))
BY DEF Proceed, ProceedResult, LastTurn, Turns

\* Behind the last source the loop awaits its tasks; before it, it awaits a slot.
LEMMA LoopSuspended ==
    ASSUME CollectorAssumption, NEW q \in Seq(Source), NEW e \in 0..MaxEdits,
           NEW acc, AccFine(acc, q, e),
           acc.call.held = NoSource => acc.call.cursor = Len(q) + 1
    PROVE  CollectFine([acc.call EXCEPT !.stage =
               IF acc.call.held = NoSource THEN "awaiting" ELSE "looping"], q, e)
<1>. DEFINE k == acc.call
            stage == IF k.held = NoSource THEN "awaiting" ELSE "looping"
            r == [k EXCEPT !.stage = stage]
<1>1. k \in CollectState /\ k.stage = "looping" /\ Looping(k, q, e) /\ AllPlaced(k, q)
  BY AccFields DEF AccFine
<1>2. Len(q) \in Nat
  BY LenProperties
<1>3. k.held = NoSource => k.cursor = Len(q) + 1
  OBVIOUS
<1>4. stage \in {"looping", "awaiting"}
  OBVIOUS
<1>5. (k.held = NoSource => stage = "awaiting") /\ (k.held # NoSource => stage = "looping")
  OBVIOUS
<1>. HIDE DEF k, stage
<1>6. /\ r \in CollectState
      /\ r.stage = stage /\ r.cursor = k.cursor /\ r.held = k.held /\ r.tasks = k.tasks
      /\ r.started = k.started /\ r.steady = k.steady
      /\ r.dataPoints = k.dataPoints /\ r.failed = k.failed
  <2>. DEFINE C == 1..(MaxEdits + 1)
              N == 0..MaxEdits
  <2>1. k \in CallType(C, Task, N)
    BY <1>1, CollectStateIsCallType
  <2>. HIDE DEF C, N
  <2>2. /\ r \in CallType(C, Task, N)
        /\ r.stage = stage /\ r.cursor = k.cursor /\ r.held = k.held /\ r.tasks = k.tasks
        /\ r.started = k.started /\ r.steady = k.steady
        /\ r.dataPoints = k.dataPoints /\ r.failed = k.failed
    BY <1>4, <2>1 DEF CallType
  <2>. QED  BY <2>2, CollectStateIsCallType DEF C, N
<1>. HIDE DEF r
<1>7. ASSUME NEW u \in k.steady  PROVE InOnePlace(r, q, u)
  <2>1. Unvisited(r, q, u) <=> Unvisited(k, q, u)
    <3>1. ASSUME k.held = NoSource  PROVE ~Unvisited(k, q, u) /\ ~Unvisited(r, q, u)
      <4>1. k.cursor..Len(q) = {}
        BY <1>2, <1>3, <3>1
      <4>. QED  BY <1>5, <1>6, <3>1, <4>1 DEF Unvisited
    <3>2. ASSUME k.held # NoSource  PROVE Unvisited(r, q, u) <=> Unvisited(k, q, u)
      BY <1>1, <1>5, <1>6, <3>2 DEF Unvisited
    <3>. QED  BY <3>1, <3>2
  <2>2. Kept(k, r, q, u)
    BY <1>6, <2>1 DEF Kept, Answered, Asked, AskedOnce
  <2>. QED  BY <1>1, <2>2, KeptInPlace DEF AllPlaced
<1>8. Looping(r, q, e)
  BY <1>1, <1>6 DEF Looping, Begun
<1>9. r.stage = "awaiting" => r.held = NoSource
  BY <1>5, <1>6
<1>10. CollectFine(r, q, e)
  BY <1>6, <1>7, <1>8, <1>9 DEF CollectFine
<1>. QED  BY <1>10 DEF r, stage, k

\* One collection changes, the sources and the edits do not.
LEMMA EntryReplaced ==
    ASSUME CollectorAssumption, CollectorInv, NEW c \in Collection, NEW k,
           CollectFine(k, sources, edits) \/ k = NoCollect,
           collects' = [collects EXCEPT ![c] = k],
           limiter' \in Counters, fresh' \in SUBSET Source, UNCHANGED <<sources, edits>>
    PROVE  CollectorInv'
<1>1. k \in CollectState \cup {NoCollect}
  BY DEF CollectFine
<1>. DEFINE S == CollectState \cup {NoCollect}
<1>2. collects \in [Collection -> S]
  BY DEF CollectorInv, CollectorTypeOK
<1>. HIDE DEF S
<1>3. collects' \in [Collection -> S]
      /\ \A d \in Collection : collects'[d] = IF d = c THEN k ELSE collects[d]
  BY <1>1, <1>2 DEF S
<1>4. CollectorTypeOK'
  BY <1>3 DEF CollectorInv, CollectorTypeOK, Counters, S
<1>5. ASSUME NEW d \in Collection, collects'[d] # NoCollect
      PROVE  CollectFine(collects'[d], sources, edits)
  BY <1>3, <1>5 DEF CollectorInv
<1>6. Injective(sources)' /\ (Len(sources) <= edits)'
  BY DEF CollectorInv, Injective
<1>. QED  BY <1>4, <1>5, <1>6 DEF CollectorInv

\* The loop goes on from a state that is fine.
LEMMA ProceedKeeps ==
    ASSUME CollectorAssumption, CollectorInv, NEW c \in Collection, NEW acc, NEW over,
           AccFine(acc, sources, edits), acc.call.held = NoSource, Proceed(c, acc, over)
    PROVE  CollectorInv'
<1>. DEFINE last == LastTurn(acc, over)
            k == [last.call EXCEPT !.stage =
                    IF last.call.held = NoSource THEN "awaiting" ELSE "looping"]
<1>1. ProceedResult(c, last)
  BY ProceedUnfolds
<1>2. /\ sources \in Seq(Source) /\ Injective(sources) /\ edits \in 0..MaxEdits
      /\ Len(sources) <= edits /\ fresh \in SUBSET Source
  BY DEF CollectorInv, CollectorTypeOK
<1>3. /\ AccFine(last, sources, edits)
      /\ last.call.held = NoSource => last.call.cursor = Len(sources) + 1
  BY <1>2, TurnsFine
<1>. HIDE DEF last
<1>4. CollectFine(k, sources, edits)
  BY <1>2, <1>3, LoopSuspended
<1>5. last.limiter \in Counters
  BY <1>3, AccFields DEF AccFine
<1>6. /\ collects' = [collects EXCEPT ![c] = k]
      /\ limiter' \in Counters /\ fresh' \in SUBSET Source /\ UNCHANGED <<sources, edits>>
  BY <1>1, <1>2, <1>5 DEF ProceedResult
<1>. HIDE DEF k
<1>. QED  BY <1>4, <1>6, EntryReplaced

LEMMA CollectDataKeeps ==
    ASSUME CollectorAssumption, CollectorInv, NEW c \in Collection, NEW over, CollectData(c, over)
    PROVE  CollectorInv'
<1>. DEFINE k == [stage |-> "looping", cursor |-> 1, held |-> NoSource,
                  tasks |-> {}, started |-> 0, steady |-> ToSet(sources),
                  dataPoints |-> [s \in Source |-> 0], failed |-> [s \in Source |-> 0]]
            acc == [limiter |-> limiter, call |-> k]
<1>1. /\ sources \in Seq(Source) /\ Len(sources) <= edits /\ limiter \in Counters
      /\ edits \in 0..MaxEdits
  BY DEF CollectorInv, CollectorTypeOK, Counters
<1>2. Len(sources) \in Nat /\ DOMAIN sources = 1..Len(sources) /\ MaxEdits \in Nat
  BY <1>1, LenProperties DEF CollectorAssumption
<1>3. k.steady \in SUBSET Source /\ \A u \in k.steady : \E i \in DOMAIN sources : sources[i] = u
  BY <1>1, <1>2, ElementOfSeq DEF ToSet
<1>4. acc \in AccState
  <2>. DEFINE C == 1..(MaxEdits + 1)
              N == 0..MaxEdits
              zero == [s \in Source |-> 0]
              steady == ToSet(sources)
  <2>1. 1 \in C /\ 0 \in N /\ zero \in [Source -> Nat] /\ steady \in SUBSET Source
    BY <1>2, <1>3
  <2>. HIDE DEF C, N, zero, steady
  <2>2. [stage |-> "looping", cursor |-> 1, held |-> NoSource, tasks |-> {}, started |-> 0,
         steady |-> steady, dataPoints |-> zero, failed |-> zero] \in CallType(C, Task, N)
    BY <2>1 DEF CallType
  <2>3. k \in CallType(C, Task, N)
    BY <2>2 DEF steady, zero
  <2>. HIDE DEF k
  <2>4. acc \in AccType(Counters, C, Task, N)
    BY <1>1, <2>3 DEF AccType
  <2>. QED  BY <2>4 DEF AccState, C, N
<1>5. Looping(k, sources, edits)
  <2>1. Begun(k, sources) = 0 + 0 + (Len(sources) + 1 - 1)
    BY DEF Begun
  <2>2. Begun(k, sources) <= edits /\ 1 <= Len(sources) + 1
    BY <1>1, <1>2, <2>1
  <2>. QED  BY <1>3, <2>2 DEF Looping
<1>6. ASSUME NEW u \in k.steady  PROVE InOnePlace(k, sources, u)
  <2>1. Unvisited(k, sources, u)
    BY <1>2, <1>3, <1>6 DEF Unvisited
  <2>2. ~Asked(k, u) /\ AskedOnce(k, u)
    BY DEF Asked, AskedOnce
  <2>3. Answered(k, u) = 0 /\ k.held # u
    <3>1. u \in Source /\ NoSource \notin Source
      BY <1>3, <1>6 DEF CollectorAssumption
    <3>2. k.dataPoints[u] = 0 /\ k.failed[u] = 0 /\ k.held = NoSource
      BY <3>1
    <3>. QED  BY <3>1, <3>2 DEF Answered
  <2>. HIDE DEF k
  <2>. QED  BY <2>1, <2>2, <2>3 DEF InOnePlace
<1>7. acc.call = k /\ k.stage = "looping" /\ k.held = NoSource
  OBVIOUS
<1>8. Proceed(c, acc, over)
  BY DEF CollectData
<1>. HIDE DEF k, acc
<1>9. AccFine(acc, sources, edits) /\ acc.call.held = NoSource
  BY <1>4, <1>5, <1>6, <1>7 DEF AccFine, AllPlaced
<1>. QED  BY <1>8, <1>9, ProceedKeeps

LEMMA SlotFreeKeeps ==
    ASSUME CollectorAssumption, CollectorInv, NEW c \in Collection, NEW over, SlotFree(c, over)
    PROVE  CollectorInv'
<1>. DEFINE k == collects[c]
            s == k.held
            r == [k EXCEPT !.held = NoSource]
            acc == [limiter |-> limiter, call |-> r]
            m == Fetch(acc, s, over)
<1>1. k # NoCollect /\ s # NoSource /\ Proceed(c, m, over)
  BY DEF SlotFree
<1>2. /\ sources \in Seq(Source) /\ limiter \in Counters /\ edits \in 0..MaxEdits
      /\ CollectFine(k, sources, edits)
  BY <1>1 DEF CollectorInv, CollectorTypeOK, Counters
<1>. HIDE DEF k
<1>3. /\ k \in CollectState /\ k.stage # "awaiting" /\ AllPlaced(k, sources)
      /\ k.stage = "looping" => Looping(k, sources, edits)
  BY <1>1, <1>2 DEF CollectFine, AllPlaced
<1>4. /\ r \in CollectState
      /\ r.held = NoSource
      /\ r.stage = k.stage /\ r.cursor = k.cursor /\ r.tasks = k.tasks
      /\ r.started = k.started /\ r.steady = k.steady
      /\ r.dataPoints = k.dataPoints /\ r.failed = k.failed
      /\ k.stage \in {"looping", "awaiting"} /\ k.held \in Source \cup {NoSource}
      /\ k.cursor \in 1..(MaxEdits + 1) /\ k.started \in 0..MaxEdits
      /\ k.steady \in SUBSET Source
      /\ acc \in AccState
  <2>. DEFINE C == 1..(MaxEdits + 1)
              N == 0..MaxEdits
  <2>1. k \in CallType(C, Task, N)
    BY <1>3, CollectStateIsCallType
  <2>. HIDE DEF C, N
  <2>2. /\ r \in CallType(C, Task, N)
        /\ r.held = NoSource
        /\ r.stage = k.stage /\ r.cursor = k.cursor /\ r.tasks = k.tasks
        /\ r.started = k.started /\ r.steady = k.steady
        /\ r.dataPoints = k.dataPoints /\ r.failed = k.failed
    BY <2>1 DEF CallType
  <2>3. /\ k.stage \in {"looping", "awaiting"} /\ k.held \in Source \cup {NoSource}
        /\ k.cursor \in C /\ k.started \in N /\ k.steady \in SUBSET Source
    BY <2>1, CallFields
  <2>. HIDE DEF r
  <2>4. acc \in AccType(Counters, C, Task, N)
    BY <1>2, <2>2 DEF AccType
  <2>5. acc \in AccState
    BY <2>4 DEF AccState, C, N
  <2>6. r \in CollectState
    BY <2>2, CollectStateIsCallType DEF C, N
  <2>. QED  BY <2>2, <2>3, <2>5, <2>6 DEF C, N
<1>5. s \in Source /\ k.stage = "looping" /\ Looping(k, sources, edits)
  BY <1>1, <1>3, <1>4
<1>6. NoSource \notin k.steady
  BY <1>4 DEF CollectorAssumption
<1>7. acc.call = r
  OBVIOUS
<1>. HIDE DEF r, acc
<1>8. OthersPlaced(r, sources, s)
  <2>1. \A u \in k.steady : Answered(r, u) = Answered(k, u)
    BY <1>4 DEF Answered
  <2>2. r.held \notin k.steady
    BY <1>4, <1>6
  <2>. QED  BY <1>3, <1>4, <2>1, <2>2, HeldTaken
<1>9. Begun(r, sources) + 1 <= edits
  <2>1. Len(sources) \in Nat
    BY <1>2, LenProperties
  <2>2. Begun(k, sources) <= edits
    BY <1>5 DEF Looping
  <2>3. Begun(k, sources) = k.started + 1 + (Len(sources) + 1 - k.cursor)
    BY <1>1 DEF Begun
  <2>4. Begun(r, sources) = k.started + 0 + (Len(sources) + 1 - k.cursor)
    BY <1>4 DEF Begun
  <2>5. k.started \in Int /\ k.cursor \in Int /\ edits \in Int
    BY <1>2, <1>4
  <2>. QED  BY <2>1, <2>2, <2>3, <2>4, <2>5
<1>10. HandFine(acc, sources, edits, s)
  BY <1>4, <1>5, <1>7, <1>8, <1>9 DEF HandFine, Looping
<1>11. AccFine(m, sources, edits) /\ m.call.held = NoSource
  BY <1>2, <1>5, <1>10, FetchFine
<1>. HIDE DEF m
<1>. QED  BY <1>1, <1>11, ProceedKeeps

\* A task ends: its source is in hand.
LEMMA TaskEnded ==
    ASSUME CollectorAssumption, CollectorInv, NEW c \in Collection, collects[c] # NoCollect,
           NEW t \in collects[c].tasks
    PROVE  LET k == Ends(c, t)
           IN  /\ k \in CollectState
               /\ k.stage = "looping" => Looping(k, sources, edits)
               /\ k.stage = "awaiting" => k.held = NoSource
               /\ OthersPlaced(k, sources, t.source)
               /\ t \in Task /\ t.source \in Source
<1>. DEFINE k == collects[c]
            tasks == k.tasks \ {t}
            r == [k EXCEPT !.tasks = tasks]
<1>1. CollectFine(k, sources, edits)
  BY DEF CollectorInv
<1>2. Ends(c, t) = r /\ t \in k.tasks
  BY DEF Ends
<1>. HIDE DEF k
<1>3. /\ k \in CollectState /\ AllPlaced(k, sources)
      /\ k.stage = "looping" => Looping(k, sources, edits)
      /\ k.stage = "awaiting" => k.held = NoSource
  BY <1>1 DEF CollectFine, AllPlaced
<1>4. /\ r \in CollectState /\ t \in Task
      /\ r.tasks = tasks
      /\ r.stage = k.stage /\ r.cursor = k.cursor /\ r.held = k.held
      /\ r.started = k.started /\ r.steady = k.steady
      /\ r.dataPoints = k.dataPoints /\ r.failed = k.failed
  <2>. DEFINE C == 1..(MaxEdits + 1)
              N == 0..MaxEdits
  <2>1. k \in CallType(C, Task, N)
    BY <1>3, CollectStateIsCallType
  <2>. HIDE DEF C, N, tasks
  <2>2. k.tasks \in SUBSET Task
    BY <2>1, CallFields
  <2>3. tasks \in SUBSET Task
    BY <2>2 DEF tasks
  <2>4. /\ r \in CallType(C, Task, N)
        /\ r.tasks = tasks
        /\ r.stage = k.stage /\ r.cursor = k.cursor /\ r.held = k.held
        /\ r.started = k.started /\ r.steady = k.steady
        /\ r.dataPoints = k.dataPoints /\ r.failed = k.failed
    BY <2>1, <2>3 DEF CallType
  <2>. QED  BY <1>2, <2>2, <2>4, CollectStateIsCallType DEF C, N
<1>5. t.source \in Source
  BY <1>4 DEF Task
<1>. HIDE DEF r
<1>6. OthersPlaced(r, sources, t.source)
  <2>1. \A u \in k.steady : Answered(r, u) = Answered(k, u)
    BY <1>4 DEF Answered
  <2>2. r.tasks = k.tasks \ {t}
    BY <1>4
  <2>. QED  BY <1>2, <1>3, <1>4, <2>1, <2>2, TaskTaken
<1>7. Looping(k, sources, edits) => Looping(r, sources, edits)
  BY <1>4 DEF Looping, Begun
<1>. QED  BY <1>2, <1>3, <1>4, <1>5, <1>6, <1>7

\* What is not about one source in hand stays as it was.
LEMMA FineWhenPlaced ==
    ASSUME NEW k, NEW r \in CollectState, NEW q, NEW e,
           k.stage = "looping" => Looping(k, q, e),
           k.stage = "awaiting" => k.held = NoSource,
           r.stage = k.stage, r.cursor = k.cursor, r.held = k.held,
           r.started = k.started, r.steady = k.steady, AllPlaced(r, q)
    PROVE  CollectFine(r, q, e)
<1>1. Looping(k, q, e) => Looping(r, q, e)
  BY DEF Looping, Begun
<1>. QED  BY <1>1 DEF CollectFine, AllPlaced

\* One more answer for the source in hand, as a data point or as a failure.
AnsweredResult(k, r, s) ==
    /\ r.stage = k.stage /\ r.cursor = k.cursor /\ r.held = k.held /\ r.tasks = k.tasks
    /\ r.started = k.started /\ r.steady = k.steady
    /\ \/ r.dataPoints = [k.dataPoints EXCEPT ![s] = @ + 1] /\ r.failed = k.failed
       \/ r.dataPoints = k.dataPoints /\ r.failed = [k.failed EXCEPT ![s] = @ + 1]

LEMMA AnswerFine ==
    ASSUME NEW q, NEW e, NEW s \in Source, NEW k \in CollectState,
           k.stage = "looping" => Looping(k, q, e),
           k.stage = "awaiting" => k.held = NoSource,
           OthersPlaced(k, q, s), NEW r \in CollectState, AnsweredResult(k, r, s)
    PROVE  CollectFine(r, q, e)
<1>1. k.dataPoints \in [Source -> Nat] /\ k.failed \in [Source -> Nat] /\ k.steady \in SUBSET Source
  <2>. DEFINE C == 1..(MaxEdits + 1)
              N == 0..MaxEdits
  <2>1. k \in CallType(C, Task, N)
    BY CollectStateIsCallType
  <2>. HIDE DEF C, N
  <2>. QED  BY <2>1, CallFields
<1>2. /\ r.stage = k.stage /\ r.cursor = k.cursor /\ r.held = k.held /\ r.tasks = k.tasks
      /\ r.started = k.started /\ r.steady = k.steady
      /\ \/ r.dataPoints = [k.dataPoints EXCEPT ![s] = @ + 1] /\ r.failed = k.failed
         \/ r.dataPoints = k.dataPoints /\ r.failed = [k.failed EXCEPT ![s] = @ + 1]
  BY DEF AnsweredResult
<1>3. ASSUME NEW x \in [Source -> Nat], NEW y \in [Source -> Nat]
      PROVE  LET z == [x EXCEPT ![s] = @ + 1]
             IN  /\ z[s] + y[s] = x[s] + y[s] + 1 /\ y[s] + z[s] = y[s] + x[s] + 1
                 /\ \A u \in Source : u # s => z[u] = x[u]
  <2>1. /\ \A u \in Source : u # s => [x EXCEPT ![s] = @ + 1][u] = x[u]
        /\ [x EXCEPT ![s] = @ + 1][s] = x[s] + 1
    OBVIOUS
  <2>2. x[s] \in Nat /\ y[s] \in Nat
    OBVIOUS
  <2>. DEFINE a == x[s]
              b == y[s]
              d == [x EXCEPT ![s] = @ + 1][s]
  <2>3. a \in Nat /\ b \in Nat /\ d = a + 1
    BY <2>1, <2>2
  <2>. HIDE DEF a, b, d
  <2>4. d + b = a + b + 1 /\ b + d = b + a + 1
    BY <2>3
  <2>. QED  BY <2>1, <2>4 DEF a, b, d
<1>4. Answered(r, s) = Answered(k, s) + 1
  <2>1. CASE r.dataPoints = [k.dataPoints EXCEPT ![s] = @ + 1] /\ r.failed = k.failed
    <3>1. [k.dataPoints EXCEPT ![s] = @ + 1][s] + k.failed[s] = k.dataPoints[s] + k.failed[s] + 1
      BY <1>1, <1>3
    <3>2. r.dataPoints[s] + r.failed[s] = k.dataPoints[s] + k.failed[s] + 1
      BY <2>1, <3>1, Zenon
    <3>. QED  BY <3>2, Zenon DEF Answered
  <2>2. CASE r.dataPoints = k.dataPoints /\ r.failed = [k.failed EXCEPT ![s] = @ + 1]
    <3>1. k.dataPoints[s] + [k.failed EXCEPT ![s] = @ + 1][s] = k.dataPoints[s] + k.failed[s] + 1
      BY <1>1, <1>3
    <3>2. r.dataPoints[s] + r.failed[s] = k.dataPoints[s] + k.failed[s] + 1
      BY <2>2, <3>1, Zenon
    <3>. QED  BY <3>2, Zenon DEF Answered
  <2>. QED  BY <1>2, <2>1, <2>2
<1>5. ASSUME NEW u \in k.steady, u # s  PROVE Answered(r, u) = Answered(k, u)
  <2>1. r.dataPoints[u] = k.dataPoints[u] /\ r.failed[u] = k.failed[u]
    BY <1>1, <1>2, <1>5
  <2>. QED  BY <2>1 DEF Answered
<1>6. AllPlaced(r, q)
  BY <1>2, <1>4, <1>5, HandAnswered
<1>. QED  BY <1>2, <1>6, FineWhenPlaced

LEMMA FetchSucceedsKeeps ==
    ASSUME CollectorAssumption, CollectorInv, NEW c \in Collection, collects[c] # NoCollect,
           NEW t \in collects[c].tasks, FetchSucceeds(c, t)
    PROVE  CollectorInv'
<1>. DEFINE k == Ends(c, t)
            s == t.source
            d == [k.dataPoints EXCEPT ![s] = @ + 1]
            r == [k EXCEPT !.dataPoints = d]
<1>1. /\ k \in CollectState
      /\ k.stage = "looping" => Looping(k, sources, edits)
      /\ k.stage = "awaiting" => k.held = NoSource
      /\ OthersPlaced(k, sources, s) /\ s \in Source
  BY TaskEnded
<1>2. /\ collects' = [collects EXCEPT ![c] = r] /\ fresh' = fresh \cup {s}
      /\ UNCHANGED <<sources, limiter, edits>>
  BY DEF FetchSucceeds
<1>. HIDE DEF k, s
<1>3. r \in CollectState /\ AnsweredResult(k, r, s)
  <2>. DEFINE C == 1..(MaxEdits + 1)
              N == 0..MaxEdits
  <2>1. k \in CallType(C, Task, N)
    BY <1>1, CollectStateIsCallType
  <2>. HIDE DEF C, N
  <2>2. d \in [Source -> Nat]
    BY <1>1, <2>1, CallFields, AnswerMore
  <2>3. d = [k.dataPoints EXCEPT ![s] = @ + 1]
    OBVIOUS
  <2>. HIDE DEF d
  <2>4. /\ r \in CallType(C, Task, N) /\ r.dataPoints = d
        /\ r.stage = k.stage /\ r.cursor = k.cursor /\ r.held = k.held /\ r.tasks = k.tasks
        /\ r.started = k.started /\ r.steady = k.steady /\ r.failed = k.failed
    BY <2>1, <2>2 DEF CallType
  <2>5. r \in CollectState
    BY <2>4, CollectStateIsCallType DEF C, N
  <2>. HIDE DEF r
  <2>. QED  BY <2>3, <2>4, <2>5 DEF AnsweredResult
<1>. HIDE DEF r
<1>4. CollectFine(r, sources, edits)
  BY <1>1, <1>3, AnswerFine
<1>5. limiter' \in Counters /\ fresh' \in SUBSET Source
  BY <1>1, <1>2 DEF CollectorInv, CollectorTypeOK, Counters
<1>. QED  BY <1>2, <1>4, <1>5, EntryReplaced

\* The task that is tried again.
Again(t) == [t EXCEPT !.attempt = @ + 1]

LEMMA AgainType ==
    ASSUME CollectorAssumption, NEW t \in Task, t.attempt < MaxAttempts
    PROVE  Again(t) \in Task /\ Again(t).source = t.source
<1>1. t.attempt \in 1..MaxAttempts /\ MaxAttempts \in Nat
  BY DEF Task, CollectorAssumption
<1>. DEFINE a == t.attempt + 1
<1>2. a \in 1..MaxAttempts
  BY <1>1
<1>3. Again(t) = [t EXCEPT !.attempt = a]
  BY DEF Again
<1>. HIDE DEF a
<1>. QED  BY <1>2, <1>3 DEF Task

LEMMA FetchFailsKeeps ==
    ASSUME CollectorAssumption, CollectorInv, NEW c \in Collection, collects[c] # NoCollect,
           NEW t \in collects[c].tasks, FetchFails(c, t)
    PROVE  CollectorInv'
<1>. DEFINE k == Ends(c, t)
            s == t.source
<1>1. /\ k \in CollectState
      /\ k.stage = "looping" => Looping(k, sources, edits)
      /\ k.stage = "awaiting" => k.held = NoSource
      /\ OthersPlaced(k, sources, s) /\ s \in Source /\ t \in Task
  BY TaskEnded
<1>2. /\ \/ /\ t.attempt < MaxAttempts
            /\ collects' = [collects EXCEPT ![c] = [k EXCEPT !.tasks = @ \cup {Again(t)}]]
         \/ collects' = [collects EXCEPT ![c] = [k EXCEPT !.failed[s] = @ + 1]]
      /\ UNCHANGED <<sources, limiter, fresh, edits>>
  BY DEF FetchFails, Again
<1>3. limiter' \in Counters /\ fresh' \in SUBSET Source
  BY <1>2 DEF CollectorInv, CollectorTypeOK, Counters
<1>. HIDE DEF k
<1>4. k \in CallType(1..(MaxEdits + 1), Task, 0..MaxEdits)
  BY <1>1, CollectStateIsCallType
<1>5. ASSUME t.attempt < MaxAttempts,
             collects' = [collects EXCEPT ![c] = [k EXCEPT !.tasks = @ \cup {Again(t)}]]
      PROVE  CollectorInv'
  <2>. DEFINE tasks == k.tasks \cup {Again(t)}
              r == [k EXCEPT !.tasks = tasks]
  <2>1. Again(t) \in Task /\ Again(t).source = s
    BY <1>1, <1>5, AgainType
  <2>2. /\ r \in CollectState
        /\ r.tasks = k.tasks \cup {Again(t)}
        /\ r.stage = k.stage /\ r.cursor = k.cursor /\ r.held = k.held
        /\ r.started = k.started /\ r.steady = k.steady
        /\ r.dataPoints = k.dataPoints /\ r.failed = k.failed
    <3>. DEFINE C == 1..(MaxEdits + 1)
                N == 0..MaxEdits
    <3>1. k \in CallType(C, Task, N)
      BY <1>4
    <3>. HIDE DEF C, N
    <3>2. tasks \in SUBSET Task
      BY <2>1, <3>1, CallFields
    <3>3. tasks = k.tasks \cup {Again(t)}
      OBVIOUS
    <3>. HIDE DEF tasks
    <3>4. /\ r \in CallType(C, Task, N) /\ r.tasks = tasks
          /\ r.stage = k.stage /\ r.cursor = k.cursor /\ r.held = k.held
          /\ r.started = k.started /\ r.steady = k.steady
          /\ r.dataPoints = k.dataPoints /\ r.failed = k.failed
      BY <3>1, <3>2 DEF CallType
    <3>. QED  BY <3>3, <3>4, CollectStateIsCallType DEF C, N
  <2>3. collects' = [collects EXCEPT ![c] = r]
    BY <1>5
  <2>. HIDE DEF r, tasks, s
  <2>4. \A u \in k.steady : Answered(r, u) = Answered(k, u)
    BY <2>2 DEF Answered
  <2>5. AllPlaced(r, sources)
    BY <1>1, <2>1, <2>2, <2>4, HandAsked
  <2>6. CollectFine(r, sources, edits)
    BY <1>1, <2>2, <2>5, FineWhenPlaced
  <2>. QED  BY <1>2, <1>3, <2>3, <2>6, EntryReplaced
<1>6. ASSUME collects' = [collects EXCEPT ![c] = [k EXCEPT !.failed[s] = @ + 1]]
      PROVE  CollectorInv'
  <2>. DEFINE d == [k.failed EXCEPT ![s] = @ + 1]
              r == [k EXCEPT !.failed = d]
  <2>. HIDE DEF s
  <2>1. collects' = [collects EXCEPT ![c] = r]
    BY <1>6
  <2>2. r \in CollectState /\ AnsweredResult(k, r, s)
    <3>. DEFINE C == 1..(MaxEdits + 1)
                N == 0..MaxEdits
    <3>1. k \in CallType(C, Task, N)
      BY <1>4
    <3>. HIDE DEF C, N
    <3>2. d \in [Source -> Nat]
      BY <1>1, <3>1, CallFields, AnswerMore
    <3>3. d = [k.failed EXCEPT ![s] = @ + 1]
      OBVIOUS
    <3>. HIDE DEF d
    <3>4. /\ r \in CallType(C, Task, N) /\ r.failed = d
          /\ r.stage = k.stage /\ r.cursor = k.cursor /\ r.held = k.held /\ r.tasks = k.tasks
          /\ r.started = k.started /\ r.steady = k.steady /\ r.dataPoints = k.dataPoints
      BY <3>1, <3>2 DEF CallType
    <3>5. r \in CollectState
      BY <3>4, CollectStateIsCallType DEF C, N
    <3>. HIDE DEF r
    <3>. QED  BY <3>3, <3>4, <3>5 DEF AnsweredResult
  <2>. HIDE DEF r, d
  <2>3. CollectFine(r, sources, edits)
    BY <1>1, <2>2, AnswerFine
  <2>. QED  BY <1>2, <1>3, <2>1, <2>3, EntryReplaced
<1>. QED  BY <1>2, <1>5, <1>6

\* The sources change: what each collection is after it, is fine.
LEMMA SourcesChanged ==
    ASSUME CollectorAssumption, CollectorInv, edits' \in 0..MaxEdits,
           sources' \in Seq(Source), Injective(sources'), Len(sources') <= edits',
           limiter' \in Counters, fresh' = fresh,
           \A c \in Collection : collects[c] = NoCollect => collects'[c] = NoCollect,
           \A c \in Collection : collects[c] # NoCollect =>
               CollectFine(collects'[c], sources', edits'),
           collects' = [c \in Collection |-> collects'[c]]
    PROVE  CollectorInv'
<1>1. \A c \in Collection : collects'[c] \in CollectState \cup {NoCollect}
  BY DEF CollectFine
<1>. DEFINE S == CollectState \cup {NoCollect}
<1>2. collects' \in [Collection -> S]
  <2>. HIDE DEF S
  <2>1. \A c \in Collection : collects'[c] \in S
    BY <1>1 DEF S
  <2>. QED  BY <2>1
<1>3. CollectorTypeOK'
  BY <1>2 DEF CollectorInv, CollectorTypeOK, Counters
<1>4. \A c \in Collection :
          collects'[c] # NoCollect => CollectFine(collects'[c], sources', edits')
  OBVIOUS
<1>. QED  BY <1>3, <1>4 DEF CollectorInv

\* The limiter forgets a source.
LEMMA LimiterReset ==
    ASSUME CollectorAssumption, NEW count \in Counters, NEW s
    PROVE  [count EXCEPT ![s] = 0] \in Counters
<1>1. 0 \in 0..RateLimit
  BY DEF CollectorAssumption
<1>. DEFINE N == 0..RateLimit
<1>2. count \in [Source -> N] /\ 0 \in N
  BY <1>1 DEF Counters
<1>. HIDE DEF N
<1>3. [count EXCEPT ![s] = 0] \in [Source -> N]
  BY <1>2
<1>. QED  BY <1>3 DEF Counters, N

\* An edit that leaves the Map alone.
LEMMA EditFine ==
    ASSUME CollectorAssumption, NEW k, NEW q \in Seq(Source), NEW e \in Nat, CollectFine(k, q, e)
    PROVE  CollectFine(k, q, e + 1)
<1>1. k \in CollectState
  BY DEF CollectFine
<1>2. k.started \in 0..MaxEdits /\ k.cursor \in 1..(MaxEdits + 1)
  <2>. DEFINE C == 1..(MaxEdits + 1)
              N == 0..MaxEdits
  <2>1. k \in CallType(C, Task, N)
    BY <1>1, CollectStateIsCallType
  <2>. HIDE DEF C, N
  <2>2. k.started \in N /\ k.cursor \in C
    BY <2>1, CallFields
  <2>. QED  BY <2>2 DEF C, N
<1>3. Begun(k, q) \in Int
  <2>1. k.started \in Int /\ k.cursor \in Int /\ Len(q) \in Int
    BY <1>2, LenProperties
  <2>2. (IF k.held = NoSource THEN 0 ELSE 1) \in Int
    OBVIOUS
  <2>. DEFINE h == IF k.held = NoSource THEN 0 ELSE 1
              x == k.started
              y == k.cursor
              n == Len(q)
  <2>3. Begun(k, q) = x + h + (n + 1 - y) /\ h \in Int /\ x \in Int /\ y \in Int /\ n \in Int
    BY <2>1, <2>2 DEF Begun
  <2>. HIDE DEF h, x, y, n
  <2>4. x + h + (n + 1 - y) \in Int
    BY <2>3
  <2>. QED  BY <2>3, <2>4
<1>4. Looping(k, q, e) => Looping(k, q, e + 1)
  <2>. DEFINE b == Begun(k, q)
  <2>1. b \in Int /\ b = Begun(k, q)
    BY <1>3
  <2>. HIDE DEF b
  <2>2. b <= e => b <= e + 1
    BY <2>1
  <2>. QED  BY <2>1, <2>2 DEF Looping
<1>. QED  BY <1>4 DEF CollectFine

\* A source more behind the others: a loop comes to it, or ended before.
LEMMA AppendFine ==
    ASSUME CollectorAssumption, NEW k, NEW q \in Seq(Source), NEW e \in Nat,
           CollectFine(k, q, e), NEW s \in Source, \A i \in DOMAIN q : q[i] # s
    PROVE  CollectFine(k, Append(q, s), e + 1)
<1>. DEFINE p == Append(q, s)
<1>1. /\ p \in Seq(Source) /\ Len(p) = Len(q) + 1 /\ Len(q) \in Nat
      /\ DOMAIN q = 1..Len(q) /\ DOMAIN p = 1..(Len(q) + 1)
      /\ p[Len(q) + 1] = s /\ \A i \in 1..Len(q) : p[i] = q[i]
  BY AppendProperties, LenProperties
<1>. HIDE DEF p
<1>2. k \in CollectState
  BY DEF CollectFine
<1>3. k.started \in 0..MaxEdits /\ k.cursor \in 1..(MaxEdits + 1)
  <2>. DEFINE C == 1..(MaxEdits + 1)
              N == 0..MaxEdits
  <2>1. k \in CallType(C, Task, N)
    BY <1>2, CollectStateIsCallType
  <2>. HIDE DEF C, N
  <2>2. k.started \in N /\ k.cursor \in C
    BY <2>1, CallFields
  <2>. QED  BY <2>2 DEF C, N
<1>4. ASSUME Looping(k, q, e)  PROVE Looping(k, p, e + 1)
  <2>1. k.cursor <= Len(p) + 1
    BY <1>1, <1>3, <1>4 DEF Looping
  <2>2. Begun(k, p) <= e + 1
    <3>. DEFINE h == IF k.held = NoSource THEN 0 ELSE 1
                x == k.started
                y == k.cursor
    <3>1. x \in Int /\ y \in Int /\ h \in Int /\ Begun(k, q) <= e
      BY <1>3, <1>4 DEF Looping
    <3>2. Begun(k, q) = x + h + (Len(q) + 1 - y) /\ Begun(k, p) = x + h + (Len(p) + 1 - y)
      BY DEF Begun
    <3>. HIDE DEF h, x, y
    <3>. QED  BY <1>1, <3>1, <3>2
  <2>3. \A u \in k.steady : \E i \in DOMAIN p : p[i] = u
    BY <1>1, <1>4 DEF Looping
  <2>. QED  BY <2>1, <2>2, <2>3 DEF Looping
<1>5. ASSUME NEW u \in k.steady  PROVE InOnePlace(k, p, u)
  <2>1. Unvisited(k, p, u) <=> Unvisited(k, q, u)
    <3>1. ASSUME k.stage = "looping"  PROVE Unvisited(k, p, u) <=> Unvisited(k, q, u)
      <4>1. u # s
        BY <3>1 DEF CollectFine, Looping
      <4>2. \A i \in k.cursor..Len(q) : i \in k.cursor..Len(p) /\ p[i] = q[i]
        BY <1>1, <1>3
      <4>3. \A i \in k.cursor..Len(p) : i = Len(q) + 1 \/ (i \in k.cursor..Len(q) /\ p[i] = q[i])
        BY <1>1, <1>3
      <4>. QED  BY <1>1, <4>1, <4>2, <4>3 DEF Unvisited
    <3>. QED  BY <3>1 DEF Unvisited
  <2>2. InOnePlace(k, q, u)
    BY DEF CollectFine
  <2>. QED  BY <2>1, <2>2, Zenon DEF InOnePlace
<1>6. CollectFine(k, p, e + 1)
  BY <1>4, <1>5 DEF CollectFine
<1>. QED  BY <1>6 DEF p

LEMMA AddSourceKeeps ==
    ASSUME CollectorAssumption, CollectorInv, NEW s \in Source, NEW limited \in BOOLEAN,
           AddSource(s, limited)
    PROVE  CollectorInv'
<1>1. /\ sources \in Seq(Source) /\ Injective(sources) /\ Len(sources) <= edits
      /\ edits \in 0..MaxEdits /\ limiter \in Counters
      /\ collects \in [Collection -> CollectState \cup {NoCollect}]
      /\ \A c \in Collection :
             collects[c] # NoCollect => CollectFine(collects[c], sources, edits)
  BY DEF CollectorInv, CollectorTypeOK, Counters
<1>2. /\ edits < MaxEdits /\ edits' = edits + 1 /\ fresh' = fresh /\ collects' = collects
      /\ sources' = IF s \in ToSet(sources) THEN sources ELSE Append(sources, s)
      /\ limiter' = IF limited THEN [limiter EXCEPT ![s] = 0] ELSE limiter
  BY DEF AddSource, Edited
<1>3. edits \in Nat /\ MaxEdits \in Nat /\ edits' \in 0..MaxEdits /\ Len(sources) \in Nat
  BY <1>1, <1>2, LenProperties DEF CollectorAssumption
<1>4. limiter' \in Counters
  BY <1>1, <1>2, LimiterReset
<1>5. /\ \A c \in Collection : collects'[c] = collects[c]
      /\ collects' = [c \in Collection |-> collects'[c]]
  <2>. DEFINE S == CollectState \cup {NoCollect}
  <2>1. collects \in [Collection -> S]
    BY <1>1
  <2>. HIDE DEF S
  <2>. QED  BY <1>2, <2>1
<1>6. /\ sources' \in Seq(Source) /\ Injective(sources') /\ Len(sources') <= edits'
      /\ \A c \in Collection :
             collects[c] # NoCollect => CollectFine(collects'[c], sources', edits')
  <2>1. CASE s \in ToSet(sources)
    <3>1. sources' = sources /\ Len(sources) <= edits + 1
      BY <1>1, <1>2, <1>3, <2>1
    <3>. QED  BY <1>1, <1>2, <1>3, <1>5, <3>1, EditFine
  <2>2. CASE s \notin ToSet(sources)
    <3>. DEFINE q == sources
                p == Append(q, s)
    <3>1. /\ p \in Seq(Source) /\ Len(p) = Len(q) + 1 /\ DOMAIN q = 1..Len(q)
          /\ DOMAIN p = 1..(Len(q) + 1)
          /\ p[Len(q) + 1] = s /\ \A i \in 1..Len(q) : p[i] = q[i]
      BY <1>1, AppendProperties, LenProperties
    <3>2. \A i \in DOMAIN q : q[i] # s
      BY <2>2 DEF ToSet
    <3>3. sources' = p
      BY <1>2, <2>2
    <3>4. \A c \in Collection : collects[c] # NoCollect => CollectFine(collects[c], p, edits + 1)
      BY <1>1, <1>3, <3>2, AppendFine
    <3>. HIDE DEF p
    <3>5. Injective(p)
      <4>1. ASSUME NEW i \in DOMAIN p, NEW j \in DOMAIN p, p[i] = p[j]  PROVE i = j
        <5>1. \A m \in DOMAIN p : m = Len(q) + 1 \/ m \in 1..Len(q)
          BY <1>3, <3>1
        <5>. QED  BY <1>1, <3>1, <3>2, <4>1, <5>1 DEF Injective
      <4>. QED  BY <4>1 DEF Injective
    <3>6. Len(p) <= edits'
      BY <1>1, <1>2, <1>3, <3>1
    <3>. QED  BY <1>2, <1>5, <3>1, <3>3, <3>4, <3>5, <3>6
  <2>. QED  BY <2>1, <2>2
<1>. QED  BY <1>2, <1>3, <1>4, <1>5, <1>6, SourcesChanged

\* A sequence without its i-th element.
LEMMA ElementRemoved ==
    ASSUME NEW q \in Seq(Source), NEW i \in DOMAIN q
    PROVE  LET p == RemoveAt(q, i)
           IN  /\ p \in Seq(Source) /\ Len(p) = Len(q) - 1
               /\ DOMAIN p = 1..(Len(q) - 1)
               /\ \A j \in 1..(Len(q) - 1) : p[j] = IF j < i THEN q[j] ELSE q[j + 1]
<1>. DEFINE n == Len(q)
            a == SubSeq(q, 1, i - 1)
            b == SubSeq(q, i + 1, n)
            p == a \o b
<1>1. n \in Nat /\ DOMAIN q = 1..n /\ i \in 1..n
  BY LenProperties
<1>2. a \in Seq(Source) /\ Len(a) = i - 1 /\ \A j \in 1..(i - 1) : a[j] = q[j]
  <2>1. 1 \in Int /\ i - 1 \in Int /\ \A j \in 1..(i - 1) : j \in 1..n
    BY <1>1
  <2>2. \A j \in 1..(i - 1) : q[j] \in Source
    BY <1>1, <2>1, ElementOfSeq
  <2>3. /\ a \in Seq(Source) /\ Len(a) = IF 1 <= i - 1 THEN (i - 1) - 1 + 1 ELSE 0
        /\ \A j \in 1..((i - 1) - 1 + 1) : a[j] = q[1 + j - 1]
    <3>. HIDE DEF n
    <3>. QED  BY <2>1, <2>2, SubSeqProperties
  <2>4. \A j \in 1..(i - 1) : j \in 1..((i - 1) - 1 + 1) /\ 1 + j - 1 = j
    BY <1>1
  <2>5. (IF 1 <= i - 1 THEN (i - 1) - 1 + 1 ELSE 0) = i - 1
    BY <1>1
  <2>. HIDE DEF a
  <2>. QED  BY <2>3, <2>4, <2>5
<1>3. b \in Seq(Source) /\ Len(b) = n - i /\ \A j \in 1..(n - i) : b[j] = q[i + j]
  <2>1. i + 1 \in Int /\ n \in Int /\ \A j \in (i + 1)..n : j \in 1..n
    BY <1>1
  <2>2. \A j \in (i + 1)..n : q[j] \in Source
    BY <1>1, <2>1, ElementOfSeq
  <2>3. /\ b \in Seq(Source) /\ Len(b) = IF i + 1 <= n THEN n - (i + 1) + 1 ELSE 0
        /\ \A j \in 1..(n - (i + 1) + 1) : b[j] = q[(i + 1) + j - 1]
    <3>. HIDE DEF n
    <3>. QED  BY <2>1, <2>2, SubSeqProperties
  <2>4. \A j \in 1..(n - i) : j \in 1..(n - (i + 1) + 1) /\ (i + 1) + j - 1 = i + j
    BY <1>1
  <2>5. (IF i + 1 <= n THEN n - (i + 1) + 1 ELSE 0) = n - i
    BY <1>1
  <2>. HIDE DEF b, n
  <2>. QED  BY <2>3, <2>4, <2>5
<1>4. /\ p \in Seq(Source) /\ Len(p) = Len(a) + Len(b)
      /\ \A j \in 1..(Len(a) + Len(b)) : p[j] = IF j <= Len(a) THEN a[j] ELSE b[j - Len(a)]
  <2>. HIDE DEF a, b
  <2>. QED  BY <1>2, <1>3, ConcatProperties
<1>. HIDE DEF a, b, p
<1>5. Len(p) = n - 1 /\ DOMAIN p = 1..(n - 1)
  <2>1. Len(p) = n - 1
    BY <1>1, <1>2, <1>3, <1>4
  <2>. QED  BY <1>4, <2>1, LenProperties
<1>6. ASSUME NEW j \in 1..(n - 1)  PROVE p[j] = IF j < i THEN q[j] ELSE q[j + 1]
  <2>1. j \in 1..(Len(a) + Len(b)) /\ Len(a) = i - 1
    BY <1>1, <1>2, <1>3
  <2>2. p[j] = IF j <= i - 1 THEN a[j] ELSE b[j - (i - 1)]
    BY <1>4, <2>1
  <2>3. ASSUME j < i  PROVE p[j] = q[j]
    <3>1. j \in 1..(i - 1) /\ j <= i - 1
      BY <1>1, <2>3
    <3>. QED  BY <1>2, <2>2, <3>1
  <2>4. ASSUME ~(j < i)  PROVE p[j] = q[j + 1]
    <3>1. j - (i - 1) \in 1..(n - i) /\ ~(j <= i - 1) /\ i + (j - (i - 1)) = j + 1
      BY <1>1, <2>4
    <3>. QED  BY <1>3, <2>2, <3>1
  <2>. QED  BY <2>3, <2>4
<1>7. p = RemoveAt(q, i)
  BY DEF p, a, b, n, RemoveAt
<1>. QED  BY <1>4, <1>5, <1>6, <1>7 DEF n

\* What a source that leaves does to a loop that is under way.
Shifted(k, i, s) ==
    [k EXCEPT !.steady = @ \ {s}, !.cursor = IF i < @ THEN @ - 1 ELSE @]

\* The others keep their order, and those ahead of the cursor stay ahead of it.
LEMMA RemovalFine ==
    ASSUME CollectorAssumption, NEW q \in Seq(Source), NEW e \in Nat, Injective(q), Len(q) <= e,
           NEW i \in DOMAIN q, NEW k, CollectFine(k, q, e), k.stage = "looping"
    PROVE  CollectFine(Shifted(k, i, q[i]), RemoveAt(q, i), e + 1)
<1>. DEFINE p == RemoveAt(q, i)
            s == q[i]
            n == Len(q)
            cursor == IF i < k.cursor THEN k.cursor - 1 ELSE k.cursor
            steady == k.steady \ {s}
            r == [k EXCEPT !.steady = steady, !.cursor = cursor]
<1>1. /\ p \in Seq(Source) /\ Len(p) = n - 1 /\ DOMAIN p = 1..(n - 1)
      /\ \A j \in 1..(n - 1) : p[j] = IF j < i THEN q[j] ELSE q[j + 1]
  BY ElementRemoved
<1>2. n \in Nat /\ DOMAIN q = 1..n /\ i \in 1..n /\ MaxEdits \in Nat
  BY LenProperties DEF CollectorAssumption
<1>3. Shifted(k, i, s) = r
  BY DEF Shifted
<1>4. k \in CollectState /\ Looping(k, q, e) /\ \A u \in k.steady : InOnePlace(k, q, u)
  BY DEF CollectFine
<1>. HIDE DEF p
<1>5. k.started \in 0..MaxEdits /\ k.cursor \in 1..(MaxEdits + 1) /\ k.steady \in SUBSET Source
  <2>. DEFINE C == 1..(MaxEdits + 1)
              N == 0..MaxEdits
  <2>1. k \in CallType(C, Task, N)
    BY <1>4, CollectStateIsCallType
  <2>. HIDE DEF C, N
  <2>2. k.started \in N /\ k.cursor \in C /\ k.steady \in SUBSET Source
    BY <2>1, CallFields
  <2>. QED  BY <2>2 DEF C, N
<1>6. k.cursor <= n + 1 /\ Begun(k, q) <= e /\ \A u \in k.steady : \E j \in DOMAIN q : q[j] = u
  BY <1>4 DEF Looping
<1>7. /\ cursor \in 1..(MaxEdits + 1) /\ cursor <= n
      /\ (n - 1) + 1 - cursor <= n + 1 - k.cursor
      /\ i < k.cursor => cursor = k.cursor - 1
      /\ ~(i < k.cursor) => cursor = k.cursor
  BY <1>2, <1>5, <1>6
<1>. HIDE DEF cursor
<1>8. /\ r \in CollectState
      /\ r.cursor = cursor /\ r.steady = steady
      /\ r.stage = k.stage /\ r.held = k.held /\ r.tasks = k.tasks /\ r.started = k.started
      /\ r.dataPoints = k.dataPoints /\ r.failed = k.failed
  <2>. DEFINE C == 1..(MaxEdits + 1)
              N == 0..MaxEdits
  <2>1. k \in CallType(C, Task, N) /\ cursor \in C
    BY <1>4, <1>7, CollectStateIsCallType
  <2>. HIDE DEF C, N
  <2>2. steady \in SUBSET Source
    BY <1>5
  <2>. HIDE DEF steady
  <2>3. /\ r \in CallType(C, Task, N)
        /\ r.cursor = cursor /\ r.steady = steady
        /\ r.stage = k.stage /\ r.held = k.held /\ r.tasks = k.tasks /\ r.started = k.started
        /\ r.dataPoints = k.dataPoints /\ r.failed = k.failed
    BY <2>1, <2>2 DEF CallType
  <2>. QED  BY <2>3, CollectStateIsCallType DEF C, N
<1>. HIDE DEF r, n
\* Where a source of q is in p.
<1>9. ASSUME NEW j \in 1..n, j # i
      PROVE  LET m == IF j < i THEN j ELSE j - 1
             IN  /\ m \in 1..(n - 1) /\ p[m] = q[j]
                 /\ cursor <= m <=> k.cursor <= j
  <2>1. ASSUME j < i  PROVE j \in 1..(n - 1) /\ (cursor <= j <=> k.cursor <= j)
    BY <1>2, <1>5, <1>7, <2>1
  <2>2. ASSUME ~(j < i)
        PROVE  /\ j - 1 \in 1..(n - 1) /\ ~(j - 1 < i) /\ (j - 1) + 1 = j
               /\ (cursor <= j - 1 <=> k.cursor <= j)
    BY <1>2, <1>5, <1>7, <1>9, <2>2
  <2>3. ASSUME j < i  PROVE p[j] = q[j]
    BY <1>1, <2>1, <2>3
  <2>4. ASSUME ~(j < i)  PROVE p[j - 1] = q[j]
    BY <1>1, <2>2, <2>4
  <2>. QED  BY <2>1, <2>2, <2>3, <2>4
<1>10. ASSUME NEW m \in 1..(n - 1)
       PROVE  \E j \in 1..n : /\ j # i /\ p[m] = q[j]
                              /\ cursor <= m <=> k.cursor <= j
  <2>1. CASE m < i
    <3>1. m \in 1..n /\ m # i /\ (cursor <= m <=> k.cursor <= m)
      BY <1>2, <1>5, <1>7, <2>1
    <3>. QED  BY <1>1, <2>1, <3>1 DEF n
  <2>2. CASE ~(m < i)
    <3>1. m + 1 \in 1..n /\ m + 1 # i /\ (cursor <= m <=> k.cursor <= m + 1)
      BY <1>2, <1>5, <1>7, <2>2
    <3>. QED  BY <1>1, <2>2, <3>1 DEF n
  <2>. QED  BY <2>1, <2>2
<1>11. ASSUME NEW u \in steady  PROVE InOnePlace(r, p, u)
  <2>1. u \in k.steady /\ u # s
    BY <1>11
  <2>2. Unvisited(r, p, u) <=> Unvisited(k, q, u)
    <3>1. Unvisited(r, p, u) <=> \E m \in 1..(n - 1) : cursor <= m /\ p[m] = u
      <4>1. Unvisited(r, p, u) <=> \E m \in cursor..(n - 1) : p[m] = u
        BY <1>1, <1>8 DEF Unvisited, n
      <4>2. /\ \A m \in cursor..(n - 1) : m \in 1..(n - 1) /\ cursor <= m
            /\ \A m \in 1..(n - 1) : cursor <= m => m \in cursor..(n - 1)
        BY <1>2, <1>7
      <4>. QED  BY <4>1, <4>2
    <3>2. Unvisited(k, q, u) <=> \E j \in 1..n : k.cursor <= j /\ q[j] = u
      <4>1. Unvisited(k, q, u) <=> \E j \in k.cursor..n : q[j] = u
        BY DEF Unvisited, n
      <4>2. /\ \A j \in k.cursor..n : j \in 1..n /\ k.cursor <= j
            /\ \A j \in 1..n : k.cursor <= j => j \in k.cursor..n
        BY <1>2, <1>5
      <4>. QED  BY <4>1, <4>2
    <3>3. ASSUME NEW j \in 1..n, k.cursor <= j, q[j] = u
          PROVE  \E m \in 1..(n - 1) : cursor <= m /\ p[m] = u
      <4>1. j # i
        BY <2>1, <3>3
      <4>. QED  BY <1>9, <3>3, <4>1
    <3>. QED  BY <1>10, <3>1, <3>2, <3>3
  <2>3. InOnePlace(k, q, u)
    BY <1>4, <2>1
  <2>5. /\ Answered(r, u) = Answered(k, u) /\ (Asked(r, u) <=> Asked(k, u))
        /\ (r.held = u <=> k.held = u) /\ (AskedOnce(r, u) <=> AskedOnce(k, u))
    BY <1>8 DEF Answered, Asked, AskedOnce
  <2>. QED  BY <2>2, <2>3, <2>5, Zenon DEF InOnePlace
<1>12. Looping(r, p, e + 1)
  <2>1. r.cursor <= Len(p) + 1
    BY <1>1, <1>2, <1>7, <1>8 DEF n
  <2>2. Begun(r, p) <= e + 1
    <3>. DEFINE h == IF k.held = NoSource THEN 0 ELSE 1
                x == k.started
                y == k.cursor
    <3>1. x \in Int /\ y \in Int /\ h \in Int /\ n \in Int /\ cursor \in Int
      BY <1>2, <1>5, <1>7
    <3>2. Begun(k, q) = x + h + (n + 1 - y)
      BY DEF Begun, n
    <3>3. Begun(r, p) = x + h + ((n - 1) + 1 - cursor)
      BY <1>1, <1>8 DEF Begun, n
    <3>4. (n - 1) + 1 - cursor <= n + 1 - y
      BY <1>7
    <3>. HIDE DEF h, x, y
    <3>. QED  BY <1>6, <3>1, <3>2, <3>3, <3>4
  <2>3. \A u \in steady : \E j \in DOMAIN p : p[j] = u
    <3>1. ASSUME NEW u \in steady  PROVE \E j \in DOMAIN p : p[j] = u
      <4>1. PICK j \in 1..n : q[j] = u
        BY <1>2, <1>6, <3>1 DEF n
      <4>2. j # i
        BY <3>1, <4>1
      <4>. QED  BY <1>1, <1>9, <4>1, <4>2 DEF n
    <3>. QED  BY <3>1
  <2>. QED  BY <1>8, <2>1, <2>2, <2>3 DEF Looping
<1>13. CollectFine(r, p, e + 1)
  <2>1. r.stage # "awaiting"
    BY <1>8
  <2>. QED  BY <1>8, <1>11, <1>12, <2>1 DEF CollectFine
<1>. QED  BY <1>3, <1>13 DEF p

\* The others that wait for their answers do not look at the Map again.
LEMMA AwaitingFine ==
    ASSUME NEW k, NEW q, NEW p, NEW e, NEW f, CollectFine(k, q, e), k.stage = "awaiting"
    PROVE  CollectFine(k, p, f)
<1>1. \A u : ~Unvisited(k, q, u) /\ ~Unvisited(k, p, u)
  BY DEF Unvisited
<1>2. \A u \in k.steady : InOnePlace(k, p, u)
  BY <1>1, Zenon DEF CollectFine, InOnePlace
<1>3. k.stage # "looping"
  OBVIOUS
<1>. QED  BY <1>2, <1>3 DEF CollectFine

LEMMA RemoveSourceKeeps ==
    ASSUME CollectorAssumption, CollectorInv, NEW s \in Source, RemoveSource(s)
    PROVE  CollectorInv'
<1>1. /\ sources \in Seq(Source) /\ Injective(sources) /\ Len(sources) <= edits
      /\ edits \in 0..MaxEdits /\ limiter \in Counters
      /\ collects \in [Collection -> CollectState \cup {NoCollect}]
      /\ \A c \in Collection :
             collects[c] # NoCollect => CollectFine(collects[c], sources, edits)
  BY DEF CollectorInv, CollectorTypeOK, Counters
<1>2. /\ edits < MaxEdits /\ edits' = edits + 1 /\ fresh' = fresh
      /\ limiter' = [limiter EXCEPT ![s] = 0]
  BY Zenon DEF RemoveSource, Edited
<1>3. edits \in Nat /\ MaxEdits \in Nat /\ edits' \in 0..MaxEdits /\ Len(sources) \in Nat
  BY <1>1, <1>2, LenProperties DEF CollectorAssumption
<1>4. limiter' \in Counters
  BY <1>1, <1>2, LimiterReset
<1>5. CASE sources' = sources /\ collects' = collects
  <2>1. /\ \A c \in Collection : collects'[c] = collects[c]
        /\ collects' = [c \in Collection |-> collects'[c]]
    <3>. DEFINE S == CollectState \cup {NoCollect}
    <3>1. collects \in [Collection -> S]
      BY <1>1
    <3>. HIDE DEF S
    <3>. QED  BY <1>5, <3>1
  <2>2. \A c \in Collection :
            collects[c] # NoCollect => CollectFine(collects'[c], sources', edits')
    BY <1>1, <1>2, <1>3, <1>5, <2>1, EditFine
  <2>3. Len(sources') <= edits'
    BY <1>1, <1>2, <1>3, <1>5
  <2>. QED  BY <1>1, <1>2, <1>3, <1>4, <1>5, <2>1, <2>2, <2>3, SourcesChanged
<1>6. ASSUME NEW i \in DOMAIN sources, sources[i] = s, sources' = RemoveAt(sources, i),
             collects' = [c \in Collection |->
                   IF collects[c] = NoCollect \/ collects[c].stage = "awaiting" THEN collects[c]
                   ELSE Shifted(collects[c], i, s)]
      PROVE  CollectorInv'
  <2>. DEFINE q == sources
              p == RemoveAt(q, i)
              n == Len(q)
  <2>1. /\ p \in Seq(Source) /\ Len(p) = n - 1 /\ DOMAIN p = 1..(n - 1)
        /\ \A j \in 1..(n - 1) : p[j] = IF j < i THEN q[j] ELSE q[j + 1]
    BY <1>1, <1>6, ElementRemoved
  <2>2. n \in Nat /\ DOMAIN q = 1..n /\ i \in 1..n
    BY <1>1, <1>6, LenProperties
  <2>3. sources' = p
    BY <1>6
  <2>. HIDE DEF p
  <2>4. Injective(p)
    <3>1. ASSUME NEW j \in 1..(n - 1), NEW m \in 1..(n - 1), p[j] = p[m]  PROVE j = m
      <4>. DEFINE x == IF j < i THEN j ELSE j + 1
                  y == IF m < i THEN m ELSE m + 1
      <4>1. x \in 1..n /\ y \in 1..n /\ (x = y => j = m)
        BY <2>2
      <4>2. p[j] = q[x] /\ p[m] = q[y]
        BY <2>1
      <4>. HIDE DEF x, y
      <4>3. x = y
        BY <1>1, <2>2, <3>1, <4>1, <4>2 DEF Injective
      <4>. QED  BY <4>1, <4>3
    <3>. QED  BY <2>1, <3>1 DEF Injective
  <2>5. Len(p) <= edits'
    BY <1>1, <1>2, <1>3, <2>1, <2>2
  <2>6. ASSUME NEW c \in Collection
        PROVE  /\ collects[c] = NoCollect => collects'[c] = NoCollect
               /\ collects[c] # NoCollect => CollectFine(collects'[c], p, edits + 1)
    <3>. DEFINE k == collects[c]
                r == collects'[c]
    <3>1. r = IF k = NoCollect \/ k.stage = "awaiting" THEN k ELSE Shifted(k, i, s)
      BY <1>6
    <3>2. k # NoCollect => CollectFine(k, q, edits)
      BY <1>1
    <3>. HIDE DEF k, r
    <3>3. CASE k # NoCollect /\ k.stage = "awaiting"
      <4>1. r = k
        BY <3>1, <3>3
      <4>. QED  BY <3>2, <3>3, <4>1, AwaitingFine DEF k, r
    <3>4. CASE k # NoCollect /\ k.stage # "awaiting"
      <4>1. k.stage = "looping"
        <5>1. k \in CollectState
          BY <3>2, <3>4 DEF CollectFine
        <5>. DEFINE C == 1..(MaxEdits + 1)
                    N == 0..MaxEdits
        <5>2. k \in CallType(C, Task, N)
          BY <5>1, CollectStateIsCallType
        <5>. HIDE DEF C, N
        <5>3. k.stage \in {"looping", "awaiting"}
          BY <5>2, CallFields
        <5>. QED  BY <3>4, <5>3
      <4>2. r = Shifted(k, i, q[i])
        BY <1>6, <3>1, <3>4
      <4>3. CollectFine(r, p, edits + 1)
        BY <1>1, <1>3, <1>6, <3>2, <3>4, <4>1, <4>2, RemovalFine DEF p
      <4>. QED  BY <3>4, <4>3 DEF k, r
    <3>5. CASE k = NoCollect
      BY <3>1, <3>5 DEF k, r
    <3>. QED  BY <3>3, <3>4, <3>5
  <2>7. collects' = [c \in Collection |-> collects'[c]]
    BY <1>6
  <2>. QED  BY <1>2, <1>3, <1>4, <2>1, <2>3, <2>4, <2>5, <2>6, <2>7, SourcesChanged
<1>7. \/ sources' = sources /\ collects' = collects
      \/ \E i \in DOMAIN sources :
            /\ sources[i] = s /\ sources' = RemoveAt(sources, i)
            /\ collects' = [c \in Collection |->
                   IF collects[c] = NoCollect \/ collects[c].stage = "awaiting" THEN collects[c]
                   ELSE Shifted(collects[c], i, s)]
  BY Zenon DEF RemoveSource, Shifted
<1>. QED  BY <1>5, <1>6, <1>7

LEMMA CollectorInitInv == CollectorInit => CollectorInv
<1>. SUFFICES ASSUME CollectorInit  PROVE CollectorInv
  OBVIOUS
<1>1. MaxEdits \in Nat /\ RateLimit \in Nat
  BY CollectorAssumption DEF CollectorAssumption
<1>2. /\ sources = <<>> /\ limiter = [s \in Source |-> 0] /\ fresh = {} /\ edits = 0
      /\ collects = [c \in Collection |-> NoCollect]
  BY DEF CollectorInit
<1>3. sources \in Seq(Source) /\ Len(sources) = 0 /\ DOMAIN sources = {}
  BY <1>2
<1>4. edits \in 0..MaxEdits /\ limiter \in [Source -> 0..RateLimit] /\ fresh \in SUBSET Source
  BY <1>1, <1>2
<1>5. collects \in [Collection -> CollectState \cup {NoCollect}]
  <2>. DEFINE S == CollectState \cup {NoCollect}
  <2>1. NoCollect \in S
    OBVIOUS
  <2>. HIDE DEF S
  <2>2. collects \in [Collection -> S]
    BY <1>2, <2>1
  <2>. QED  BY <2>2 DEF S
<1>6. Injective(sources) /\ Len(sources) <= edits
  BY <1>2, <1>3 DEF Injective
<1>7. \A c \in Collection : collects[c] = NoCollect
  BY <1>2
<1>. QED  BY <1>3, <1>4, <1>5, <1>6, <1>7 DEF CollectorInv, CollectorTypeOK

LEMMA CollectorStepInv == CollectorInv /\ [CollectorNext]_collectorVars => CollectorInv'
<1>. SUFFICES ASSUME CollectorInv, [CollectorNext]_collectorVars  PROVE CollectorInv'
  OBVIOUS
<1>. USE CollectorAssumption
<1>1. ASSUME NEW s \in Source, NEW limited \in BOOLEAN, AddSource(s, limited)
      PROVE  CollectorInv'
  BY <1>1, AddSourceKeeps
<1>2. ASSUME NEW s \in Source, RemoveSource(s)  PROVE CollectorInv'
  BY <1>2, RemoveSourceKeeps
<1>3. ASSUME NEW c \in Collection, NEW over, CollectData(c, over)  PROVE CollectorInv'
  BY <1>3, CollectDataKeeps
<1>4. ASSUME NEW c \in Collection, NEW over, SlotFree(c, over)  PROVE CollectorInv'
  BY <1>4, SlotFreeKeeps
<1>5. ASSUME NEW c \in Collection, collects[c] # NoCollect, NEW t \in collects[c].tasks,
             FetchSucceeds(c, t)
      PROVE  CollectorInv'
  BY <1>5, FetchSucceedsKeeps
<1>6. ASSUME NEW c \in Collection, collects[c] # NoCollect, NEW t \in collects[c].tasks,
             FetchFails(c, t)
      PROVE  CollectorInv'
  BY <1>6, FetchFailsKeeps
<1>7. limiter \in Counters /\ fresh \in SUBSET Source
  BY DEF CollectorInv, CollectorTypeOK, Counters
<1>8. ASSUME NEW c \in Collection, CollectReturns(c)  PROVE CollectorInv'
  <2>1. /\ collects' = [collects EXCEPT ![c] = NoCollect]
        /\ UNCHANGED <<sources, limiter, fresh, edits>>
    BY <1>8 DEF CollectReturns
  <2>2. limiter' \in Counters /\ fresh' \in SUBSET Source
    BY <1>7, <2>1
  <2>. QED  BY <2>1, <2>2, EntryReplaced
<1>9. ASSUME UNCHANGED <<sources, limiter, collects, edits>>, fresh' \in SUBSET Source
      PROVE  CollectorInv'
  <2>1. CollectorTypeOK'
    BY <1>9 DEF CollectorInv, CollectorTypeOK
  <2>. QED  BY <1>9, <2>1 DEF CollectorInv
<1>10. ASSUME NEW s \in Source, CacheExpires(s)  PROVE CollectorInv'
  BY <1>7, <1>9, <1>10 DEF CacheExpires
<1>11. CASE UNCHANGED collectorVars
  BY <1>7, <1>9, <1>11 DEF collectorVars
<1>. QED  BY <1>1, <1>2, <1>3, <1>4, <1>5, <1>6, <1>8, <1>10, <1>11 DEF CollectorNext

LEMMA CollectorInductive == CollectorSpec => []CollectorInv
BY CollectorInitInv, CollectorStepInv, PTL DEF CollectorSpec

\* The collector's state is well typed: no count of requests, and no cursor,
\* leaves its range.
THEOREM CollectorTypeCorrect == CollectorSpec => []CollectorTypeOK
BY CollectorInductive, PTL DEF CollectorInv

\* In one place, a source is answered at most once; when the collection is done it
\* is behind the cursor, not held and not asked, and so it is answered.
LEMMA InvCountsOnce == CollectorInv => SteadySourcesCountedOnce
<1>. SUFFICES ASSUME CollectorInv, NEW c \in Collection, collects[c] # NoCollect,
                     NEW s \in collects[c].steady
              PROVE  /\ Answers(c, s) <= 1
                     /\ CollectionDone(c) => Answers(c, s) = 1
  BY DEF SteadySourcesCountedOnce
<1>. DEFINE k == collects[c]
<1>1. CollectFine(k, sources, edits)
  BY DEF CollectorInv
<1>2. Answers(c, s) = Answered(k, s)
  BY DEF Answers, Answered
<1>3. InOnePlace(k, sources, s)
  BY <1>1 DEF CollectFine
<1>4. Answered(k, s) = 0 \/ Answered(k, s) = 1
  BY <1>3, Zenon DEF InOnePlace
<1>5. ASSUME CollectionDone(c)  PROVE Answered(k, s) = 1
  <2>1. k.stage = "awaiting" /\ k.tasks = {}
    BY <1>5 DEF CollectionDone
  <2>2. ~Asked(k, s) /\ ~Unvisited(k, sources, s)
    BY <2>1 DEF Asked, Unvisited
  <2>3. k.held # s
    <3>1. k.held = NoSource
      BY <1>1, <2>1 DEF CollectFine
    <3>2. s \in Source /\ NoSource \notin Source
      <4>1. k \in CollectState
        BY <1>1 DEF CollectFine
      <4>. DEFINE C == 1..(MaxEdits + 1)
                  N == 0..MaxEdits
      <4>2. k \in CallType(C, Task, N)
        BY <4>1, CollectStateIsCallType
      <4>. HIDE DEF C, N, k
      <4>3. k.steady \in SUBSET Source
        BY <4>2, CallFields
      <4>. QED  BY <4>3, CollectorAssumption DEF CollectorAssumption, k
    <3>. QED  BY <3>1, <3>2
  <2>. HIDE DEF k
  <2>. QED  BY <1>3, <2>2, <2>3, Zenon DEF InOnePlace
<1>. HIDE DEF k
<1>6. Answered(k, s) <= 1
  BY <1>4
<1>. QED  BY <1>2, <1>5, <1>6

\* A source that stays in the Map is answered exactly once, whatever is edited and
\* collected around it.
THEOREM SteadyCorrect == CollectorSpec => []SteadySourcesCountedOnce
BY CollectorInductive, InvCountsOnce, PTL
=============================================================================
