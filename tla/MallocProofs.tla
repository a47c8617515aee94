----------------------------- MODULE MallocProofs -----------------------------
(***************************************************************************)
(* The allocator's blocks tile the heap, no two free ones are neighbours   *)
(* and every allocated one has one owner, for all sizes of the heap and    *)
(* all requests, as long as no realloc expands a block backwards.          *)
(***************************************************************************)
EXTENDS Malloc, QueueLemmas

-----------------------------------------------------------------------------
(* Multiples of the alignment.                                             *)

\* The remainder by Align, and what is left when it is taken off.
LEMMA Multiple ==
    ASSUME NEW x \in Int
    PROVE  /\ x % Align \in 0 .. Align - 1
           /\ x % Align = 0 <=> \E k \in Int : x = k * Align
           /\ (x - (x % Align)) % Align = 0
<1>1. Align \in Nat \ {0}
  BY MallocAssumption
<1>2. x \div Align \in Int /\ x % Align \in 0 .. Align - 1 /\ x = (x \div Align) * Align + (x % Align)
  BY <1>1
<1>3. ASSUME NEW k \in Int PROVE (k * Align) % Align = 0 /\ k * Align \in Int
  BY <1>1
<1>4. x % Align = 0 => x = (x \div Align) * Align
  BY <1>2, <1>3
<1>5. x - (x % Align) = (x \div Align) * Align
  BY <1>2, <1>3
<1> QED BY <1>2, <1>3, <1>4, <1>5

\* Kept as a predicate of its own, for the sake of the provers.
OnGrid(x) == x % Align = 0

\* Sums and differences of multiples.
LEMMA Multiples ==
    ASSUME NEW x \in Int, NEW y \in Int, OnGrid(x), OnGrid(y)
    PROVE  OnGrid(x + y) /\ OnGrid(x - y)
<1>1. Align \in Nat \ {0}
  BY MallocAssumption
<1>2. PICK a \in Int, b \in Int : x = a * Align /\ y = b * Align
  BY Multiple DEF OnGrid
<1>3. x + y = (a + b) * Align /\ x - y = (a - b) * Align
  BY <1>1, <1>2
<1>4. x + y \in Int /\ x - y \in Int /\ a + b \in Int /\ a - b \in Int
  OBVIOUS
<1> QED BY <1>3, <1>4, Multiple DEF OnGrid

\* The header and the chunk are multiples.
LEMMA Grid == OnGrid(Header) /\ OnGrid(Chunk)
BY MallocAssumption DEF OnGrid

\* The size that malloc works with: aligned, and no smaller than the one asked
\* for unless the sum overflows.
LEMMA AlignedSize ==
    ASSUME NEW size \in Nat
    PROVE  /\ Aligned(size) \in Nat
           /\ OnGrid(Aligned(size))
           /\ size <= Word - Align => Aligned(size) >= size
<1> DEFINE s == (size + Align - 1) % Word
<1>1. Align \in Nat \ {0} /\ Word \in Nat \ {0}
  BY MallocAssumption
<1>2. s \in Nat
  BY <1>1
<1>3. size <= Word - Align => s = size + Align - 1
  BY <1>1
<1>4. Aligned(size) = s - (s % Align)
  BY DEF Aligned
<1> HIDE DEF s
<1>5. s % Align \in 0 .. Align - 1 /\ s % Align <= s /\ (s - (s % Align)) % Align = 0
  <2>1. s % Align <= s
    BY <1>1, <1>2
  <2> QED BY <2>1, <1>2, Multiple
<1> QED BY <1>1, <1>2, <1>3, <1>4, <1>5 DEF OnGrid

-----------------------------------------------------------------------------
(* Heaps.                                                                  *)

Block == [addr : Nat, size : Nat, free : BOOLEAN]
Heap == [brk : Nat, blocks : Seq(Block)]

Tiled(h) ==
    LET b == h.blocks
    IN  b # <<>> =>
          /\ \A i \in 1 .. Len(b) - 1 : End(b[i]) = b[i + 1].addr
          /\ End(b[Len(b)]) = h.brk
          /\ \A i \in DOMAIN b : OnGrid(b[i].addr)
          /\ OnGrid(h.brk)

Merged(h) == \A i \in 1 .. Len(h.blocks) - 1 : ~(h.blocks[i].free /\ h.blocks[i + 1].free)

Sound(h) == h \in Heap /\ Tiled(h) /\ Merged(h)

\* The memory that is given out: where, and how much.
Room(b) == <<Pointer(b), b.size>>
Used(h) == {Room(h.blocks[i]) : i \in {j \in DOMAIN h.blocks : ~h.blocks[j].free}}

\* The constants as numbers.
LEMMA Layout ==
    /\ Header \in Nat /\ Chunk \in Nat /\ Align \in Nat
    /\ Header > 0 /\ Chunk > Header /\ Align > 0
BY MallocAssumption

\* Where a block's memory begins and ends.
LEMMA Places ==
    ASSUME NEW b \in Block
    PROVE  /\ b.addr \in Nat /\ b.size \in Nat /\ b.free \in BOOLEAN
           /\ Pointer(b) \in Nat \ {0} /\ Pointer(b) = b.addr + Header
           /\ End(b) \in Nat /\ End(b) = Pointer(b) + b.size
           /\ b.addr < Pointer(b) /\ Pointer(b) <= End(b) /\ b.addr < End(b)
<1>1. b.addr \in Nat /\ b.size \in Nat /\ b.free \in BOOLEAN
  BY DEF Block
<1> QED BY <1>1, Layout DEF Pointer, End

\* The blocks of a heap.
LEMMA Blocks ==
    ASSUME NEW h \in Heap
    PROVE  /\ h.brk \in Nat /\ h.blocks \in Seq(Block)
           /\ Len(h.blocks) \in Nat /\ DOMAIN h.blocks = 1 .. Len(h.blocks)
           /\ h.blocks # <<>> <=> Len(h.blocks) > 0
           /\ \A i \in 1 .. Len(h.blocks) : h.blocks[i] \in Block
<1>1. h.brk \in Nat /\ h.blocks \in Seq(Block)
  BY DEF Heap
<1>2. /\ Len(h.blocks) \in Nat /\ DOMAIN h.blocks = 1 .. Len(h.blocks)
      /\ \A i \in 1 .. Len(h.blocks) : h.blocks[i] \in Block
  BY <1>1, LenProperties, ElementOfSeq
<1>3. h.blocks # <<>> <=> Len(h.blocks) > 0
  BY <1>1, <1>2, EmptySeq
<1> QED BY <1>1, <1>2, <1>3

\* Of the blocks of a heap each lies behind all that come before it.
LEMMA Apart ==
    ASSUME NEW h \in Heap, Tiled(h), NEW i \in 1 .. Len(h.blocks), NEW j \in 1 .. Len(h.blocks),
           i < j
    PROVE  End(h.blocks[i]) <= h.blocks[j].addr
<1> DEFINE b == h.blocks
           Bad == {k \in 1 .. Len(b) : i < k /\ ~(End(b[i]) <= b[k].addr)}
<1> SUFFICES ASSUME Bad # {} PROVE FALSE
  OBVIOUS
<1>1. Len(b) \in Nat /\ \A k \in 1 .. Len(b) : b[k] \in Block
  BY Blocks
<1>2. Bad \in SUBSET Nat
  BY <1>1
<1>3. PICK k \in Bad : \A l \in Bad : k <= l
  <2> HIDE DEF Bad
  <2> QED BY <1>2, LeastNat
<1>4. /\ k \in 1 .. Len(b) /\ k - 1 \in 1 .. Len(b) - 1 /\ (k - 1) + 1 = k
      /\ k - 1 \in 1 .. Len(b) /\ i <= k - 1
  BY <1>1, <1>3
<1>5. End(b[k - 1]) = b[k].addr
  <2>1. b # <<>>
    BY <1>4, Blocks
  <2> QED BY <1>4, <2>1 DEF Tiled
<1>6. /\ b[k - 1].addr < End(b[k - 1]) /\ b[k - 1].addr \in Nat /\ End(b[k - 1]) \in Nat
      /\ End(b[i]) \in Nat
  BY <1>1, <1>4, Places
<1>7. k - 1 \notin Bad
  <2>1. k - 1 < k
    BY <1>4
  <2> HIDE DEF Bad
  <2> QED BY <1>2, <1>3, <2>1
<1>8. End(b[i]) <= b[k - 1].addr \/ i = k - 1
  BY <1>4, <1>7
<1>9. ~(End(b[i]) <= b[k].addr)
  BY <1>3
<1> HIDE DEF Bad, b
<1> QED BY <1>5, <1>6, <1>8, <1>9

\* No two blocks have the same pointer.
LEMMA OnePointer ==
    ASSUME NEW h \in Heap, Tiled(h), NEW i \in 1 .. Len(h.blocks), NEW j \in 1 .. Len(h.blocks),
           Pointer(h.blocks[i]) = Pointer(h.blocks[j])
    PROVE  i = j
<1>1. Len(h.blocks) \in Nat /\ \A k \in 1 .. Len(h.blocks) : h.blocks[k] \in Block
  BY Blocks
<1>2. ASSUME NEW k \in 1 .. Len(h.blocks), NEW l \in 1 .. Len(h.blocks), k < l
      PROVE  Pointer(h.blocks[k]) # Pointer(h.blocks[l])
  <2> DEFINE x == h.blocks[k]
             y == h.blocks[l]
  <2>1. End(x) <= y.addr
    BY <1>2, Apart
  <2>2. x \in Block /\ y \in Block
    BY <1>1
  <2> HIDE DEF x, y
  <2>3. Pointer(x) # Pointer(y)
    BY <2>1, <2>2, Places
  <2> QED BY <2>3 DEF x, y
<1>3. i < j \/ j < i \/ i = j
  BY <1>1
<1> QED BY <1>2, <1>3

-----------------------------------------------------------------------------
(* Two blocks become one.                                                  *)

Grown(b, c) == [b EXCEPT !.size = @ + c.size + Header]

\* A block that has taken in the next one.
LEMMA JoinedBlock ==
    ASSUME NEW b \in Block, NEW c \in Block
    PROVE  /\ Grown(b, c) \in Block
           /\ Grown(b, c).addr = b.addr /\ Grown(b, c).free = b.free
           /\ Grown(b, c).size = b.size + c.size + Header
           /\ Pointer(Grown(b, c)) = Pointer(b)
           /\ End(b) = c.addr => End(Grown(b, c)) = End(c)
<1>1. /\ Grown(b, c).addr = b.addr /\ Grown(b, c).free = b.free
      /\ Grown(b, c).size = b.size + c.size + Header
  BY DEF Block, Grown
<1>2. b.size + c.size + Header \in Nat
  BY Places, Layout
<1>3. Grown(b, c) \in Block
  BY <1>2 DEF Block, Grown
<1>4. Pointer(Grown(b, c)) = Pointer(b)
  BY <1>1, <1>3, Places
<1>5. End(b) = c.addr => End(Grown(b, c)) = End(c)
  <2> DEFINE m == Grown(b, c)
  <2>1. m \in Block /\ m.size = b.size + c.size + Header /\ Pointer(m) = Pointer(b)
    BY <1>1, <1>3, <1>4
  <2> HIDE DEF m
  <2>2. End(b) = c.addr => End(m) = End(c)
    BY <2>1, Places, Layout
  <2> QED BY <2>2 DEF m
<1> QED BY <1>1, <1>3, <1>4, <1>5

\* Joined, block by block.
LEMMA JoinedFacts ==
    ASSUME NEW h \in Heap, NEW i \in 1 .. Len(h.blocks) - 1
    PROVE  /\ Joined(h, i) \in Heap
           /\ Joined(h, i).brk = h.brk
           /\ Len(Joined(h, i).blocks) = Len(h.blocks) - 1
           /\ \A j \in 1 .. Len(h.blocks) - 1 :
                Joined(h, i).blocks[j] = IF j < i THEN h.blocks[j]
                                         ELSE IF j = i THEN Grown(h.blocks[i], h.blocks[i + 1])
                                         ELSE h.blocks[j + 1]
<1> DEFINE b == h.blocks
           m == Grown(b[i], b[i + 1])
           t == [b EXCEPT ![i] = m]
<1>1. /\ b \in Seq(Block) /\ Len(b) \in Nat /\ DOMAIN b = 1 .. Len(b)
      /\ i \in 1 .. Len(b) /\ i + 1 \in 1 .. Len(b)
      /\ b[i] \in Block /\ b[i + 1] \in Block
  BY Blocks
<1>2. m \in Block
  BY <1>1, JoinedBlock
<1>3. /\ t \in Seq(Block) /\ Len(t) = Len(b)
      /\ \A j \in 1 .. Len(b) : t[j] = IF j = i THEN m ELSE b[j]
  <2> HIDE DEF b, m
  <2>1. t \in Seq(Block)
    BY <1>1, <1>2, ExceptSeq
  <2> QED BY <2>1, <1>1, <1>2, ExceptSeq
<1>4. Joined(h, i) = [h EXCEPT !.blocks = RemoveAt(t, i + 1)]
  <2>1. [b EXCEPT ![i].size = @ + b[i + 1].size + Header] = t
    BY DEF Grown
  <2> QED BY <2>1 DEF Joined
<1>5. /\ RemoveAt(t, i + 1) \in Seq(Block)
      /\ Len(RemoveAt(t, i + 1)) = Len(b) - 1
      /\ \A j \in 1 .. Len(b) - 1 : RemoveAt(t, i + 1)[j] = IF j < i + 1 THEN t[j] ELSE t[j + 1]
  <2> DEFINE k == i + 1
  <2>1. t \in Seq(Block) /\ Len(t) = Len(b) /\ k \in 1 .. Len(t)
    BY <1>1, <1>3
  <2> HIDE DEF t, b, m, k
  <2>2. /\ RemoveAt(t, k) \in Seq(Block) /\ Len(RemoveAt(t, k)) = Len(t) - 1
        /\ \A j \in 1 .. Len(t) - 1 : RemoveAt(t, k)[j] = IF j < k THEN t[j] ELSE t[j + 1]
    BY <2>1, RemoveAtFacts
  <2> QED BY <2>1, <2>2 DEF k
<1>6. /\ Joined(h, i) \in Heap /\ Joined(h, i).brk = h.brk
      /\ Joined(h, i).blocks = RemoveAt(t, i + 1)
  <2> HIDE DEF t
  <2> QED BY <1>4, <1>5 DEF Heap
<1>7. ASSUME NEW j \in 1 .. Len(b) - 1
      PROVE  RemoveAt(t, i + 1)[j] = IF j < i THEN b[j] ELSE IF j = i THEN m ELSE b[j + 1]
  <2> HIDE DEF t, b, m
  <2>1. j \in 1 .. Len(b) /\ j + 1 \in 1 .. Len(b) /\ (j < i + 1 <=> j < i \/ j = i) /\ ~(j < i /\ j = i)
    BY <1>1
  <2>2. ~(j < i + 1) => j + 1 # i
    BY <1>1
  <2> QED BY <2>1, <2>2, <1>3, <1>5
<1> QED BY <1>5, <1>6, <1>7

\* Taking in the next block leaves no gap.
LEMMA JoinedTiled ==
    ASSUME NEW h \in Heap, Tiled(h), NEW i \in 1 .. Len(h.blocks) - 1
    PROVE  Tiled(Joined(h, i))
<1> DEFINE b == h.blocks
           m == Grown(b[i], b[i + 1])
           c == Joined(h, i).blocks
<1>1. /\ Len(b) \in Nat /\ DOMAIN b = 1 .. Len(b) /\ b # <<>>
      /\ i \in 1 .. Len(b) /\ i + 1 \in 1 .. Len(b)
      /\ b[i] \in Block /\ b[i + 1] \in Block
  BY Blocks
<1>2. /\ \A j \in 1 .. Len(b) - 1 : End(b[j]) = b[j + 1].addr
      /\ End(b[Len(b)]) = h.brk
      /\ \A j \in 1 .. Len(b) : OnGrid(b[j].addr)
      /\ OnGrid(h.brk)
  BY <1>1 DEF Tiled
<1>3. /\ Joined(h, i).brk = h.brk /\ Len(c) = Len(b) - 1 /\ DOMAIN c = 1 .. Len(c)
      /\ \A j \in 1 .. Len(b) - 1 :
            c[j] = IF j < i THEN b[j] ELSE IF j = i THEN m ELSE b[j + 1]
  <2>1. DOMAIN c = 1 .. Len(c)
    BY JoinedFacts, Blocks
  <2> QED BY <2>1, JoinedFacts
<1>4. m.addr = b[i].addr /\ End(m) = End(b[i + 1])
  BY <1>1, <1>2, JoinedBlock
<1> HIDE DEF b, c, m
<1>5. ASSUME NEW j \in 1 .. Len(c) - 1 PROVE End(c[j]) = c[j + 1].addr
  <2>1. /\ j \in 1 .. Len(b) - 1 /\ j + 1 \in 1 .. Len(b) - 1
        /\ (j < i \/ j = i \/ j > i) /\ (j < i => j + 1 < i \/ j + 1 = i)
        /\ (j >= i => j + 1 > i)
    BY <1>1, <1>3
  <2>2. CASE j < i
    BY <1>2, <1>3, <1>4, <2>1, <2>2
  <2>3. CASE j = i
    <3>1. c[j] = m /\ c[j + 1] = b[i + 1 + 1]
      BY <1>1, <1>3, <2>1, <2>3
    <3> QED BY <1>2, <1>4, <2>1, <2>3, <3>1
  <2>4. CASE j > i
    <3>1. c[j] = b[j + 1] /\ c[j + 1] = b[j + 1 + 1]
      BY <1>1, <1>3, <2>1, <2>4
    <3> QED BY <1>2, <2>1, <3>1
  <2> QED BY <2>1, <2>2, <2>3, <2>4
<1>6. End(c[Len(c)]) = h.brk
  <2> DEFINE j == Len(b) - 1
  <2>0. Len(b) \in Nat /\ i \in Nat /\ i >= 1 /\ i + 1 <= Len(b)
    BY <1>1
  <2>1. /\ j \in 1 .. Len(b) - 1 /\ j + 1 = Len(b) /\ (j = i \/ (j > i /\ ~(j < i) /\ j # i))
        /\ ~(i < i)
    BY <2>0
  <2>2. Len(c) = j
    BY <1>3
  <2> HIDE DEF j
  <2>3. c[j] = IF j < i THEN b[j] ELSE IF j = i THEN m ELSE b[j + 1]
    BY <2>1, <1>3
  <2>4. CASE j = i
    BY <2>1, <2>2, <2>3, <2>4, <1>2, <1>4
  <2>5. CASE j > i /\ ~(j < i) /\ j # i
    BY <2>1, <2>2, <2>3, <2>5, <1>2
  <2> QED BY <2>1, <2>4, <2>5
<1>7. ASSUME NEW j \in DOMAIN c PROVE OnGrid(c[j].addr)
  <2>1. j \in 1 .. Len(b) - 1 /\ j \in 1 .. Len(b) /\ j + 1 \in 1 .. Len(b)
    BY <1>1, <1>3
  <2> QED BY <2>1, <1>1, <1>2, <1>3, <1>4
<1> QED BY <1>2, <1>3, <1>5, <1>6, <1>7 DEF Tiled, c

\* What a join does to the memory that is given out, when the second block is
\* free: nothing, if the first one is free too.
LEMMA InUsed ==
    ASSUME NEW h \in Heap, NEW u
    PROVE  u \in Used(h) <=> \E i \in 1 .. Len(h.blocks) : ~h.blocks[i].free /\ u = Room(h.blocks[i])
BY Blocks DEF Used

\* What is given out after a free block is taken in.
LEMMA JoinedUsed ==
    ASSUME NEW h \in Heap, NEW i \in 1 .. Len(h.blocks) - 1, h.blocks[i + 1].free
    PROVE  LET b == h.blocks[i]
               others == {Room(h.blocks[j]) : j \in {k \in 1 .. Len(h.blocks) :
                                                        k # i /\ ~h.blocks[k].free}}
           IN  Used(Joined(h, i)) =
                   others \cup IF b.free THEN {} ELSE {Room(Grown(b, h.blocks[i + 1]))}
<1> DEFINE b == h.blocks
           m == Grown(b[i], b[i + 1])
           c == Joined(h, i).blocks
           others == {Room(b[j]) : j \in {k \in 1 .. Len(b) : k # i /\ ~b[k].free}}
<1>1. /\ Len(b) \in Nat /\ i \in 1 .. Len(b) /\ i + 1 \in 1 .. Len(b)
      /\ i \in Nat /\ i >= 1 /\ i + 1 <= Len(b)
      /\ b[i] \in Block /\ b[i + 1] \in Block
  BY Blocks
<1>2. /\ Joined(h, i) \in Heap /\ Len(c) = Len(b) - 1
      /\ \A j \in 1 .. Len(b) - 1 :
            c[j] = IF j < i THEN b[j] ELSE IF j = i THEN m ELSE b[j + 1]
  BY JoinedFacts
<1>3. m.free = b[i].free
  BY <1>1, JoinedBlock
<1>4. \A u : u \in Used(Joined(h, i)) <=> \E j \in 1 .. Len(b) - 1 : ~c[j].free /\ u = Room(c[j])
  BY <1>2, InUsed
<1>5. b[i + 1].free
  OBVIOUS
<1> HIDE DEF b, m, c
<1>6. ASSUME NEW u, NEW j \in 1 .. Len(b) - 1, ~c[j].free, u = Room(c[j])
      PROVE  u \in others \/ (~b[i].free /\ u = Room(m))
  <2>1. /\ j < i => j \in 1 .. Len(b) /\ j # i
        /\ j > i => j + 1 \in 1 .. Len(b) /\ j + 1 # i /\ ~(j < i) /\ j # i
        /\ j = i => ~(j < i)
        /\ j < i \/ j = i \/ j > i
    BY <1>1
  <2>2. CASE j < i
    BY <1>2, <1>6, <2>1, <2>2
  <2>3. CASE j = i
    BY <1>2, <1>3, <1>6, <2>1, <2>3
  <2>4. CASE j > i
    BY <1>2, <1>6, <2>1, <2>4
  <2> QED BY <2>1, <2>2, <2>3, <2>4
<1>7. ASSUME NEW u, NEW k \in 1 .. Len(b), k # i, ~b[k].free, u = Room(b[k])
      PROVE  \E j \in 1 .. Len(b) - 1 : ~c[j].free /\ u = Room(c[j])
  <2>1. k # i + 1
    BY <1>5, <1>7
  <2>2. /\ k < i => k \in 1 .. Len(b) - 1
        /\ k > i => k - 1 \in 1 .. Len(b) - 1 /\ ~(k - 1 < i) /\ k - 1 # i /\ (k - 1) + 1 = k
        /\ k < i \/ k > i
    BY <1>1, <1>7, <2>1
  <2>3. CASE k < i
    BY <1>2, <1>7, <2>2, <2>3
  <2>4. CASE k > i
    <3>1. c[k - 1] = b[k]
      BY <1>2, <2>2, <2>4
    <3> QED BY <1>7, <2>2, <2>4, <3>1
  <2> QED BY <2>2, <2>3, <2>4
<1>8. ~b[i].free => \E j \in 1 .. Len(b) - 1 : ~c[j].free /\ Room(m) = Room(c[j])
  <2>1. i \in 1 .. Len(b) - 1 /\ ~(i < i)
    BY <1>1
  <2> QED BY <1>2, <1>3, <2>1
<1>9. \A u : u \in Used(Joined(h, i)) <=> u \in others \/ (~b[i].free /\ u = Room(m))
  <2>1. ASSUME NEW u \in others PROVE u \in Used(Joined(h, i))
    BY <1>4, <1>7
  <2> HIDE DEF others
  <2> QED BY <1>4, <1>6, <1>8, <2>1
<1>10. Used(Joined(h, i)) = others \cup IF b[i].free THEN {} ELSE {Room(m)}
  <2> HIDE DEF others
  <2> QED BY <1>9
<1> QED BY <1>10 DEF b, m

\* Two free blocks hold nothing that is given out.
LEMMA JoinedFree ==
    ASSUME NEW h \in Heap, NEW i \in 1 .. Len(h.blocks) - 1,
           h.blocks[i].free, h.blocks[i + 1].free
    PROVE  Used(Joined(h, i)) = Used(h)
<1> DEFINE others == {Room(h.blocks[j]) : j \in {k \in 1 .. Len(h.blocks) :
                                                    k # i /\ ~h.blocks[k].free}}
<1>1. Used(Joined(h, i)) = others
  BY JoinedUsed
<1>2. Used(h) = others
  BY Blocks DEF Used
<1> QED BY <1>1, <1>2

\* Free neighbours are only where they were.
LEMMA JoinedMerged ==
    ASSUME NEW h \in Heap, NEW i \in 1 .. Len(h.blocks) - 1, h.blocks[i + 1].free,
           \A j \in 1 .. Len(h.blocks) - 1 :
               h.blocks[j].free /\ h.blocks[j + 1].free => j = i \/ j + 1 = i,
           NEW j \in 1 .. Len(h.blocks) - 2,
           Joined(h, i).blocks[j].free /\ Joined(h, i).blocks[j + 1].free
    PROVE  j + 1 = i /\ h.blocks[j].free /\ h.blocks[i].free
<1> DEFINE b == h.blocks
           m == Grown(b[i], b[i + 1])
           c == Joined(h, i).blocks
<1>1. /\ Len(b) \in Nat /\ i \in 1 .. Len(b) /\ i + 1 \in 1 .. Len(b)
      /\ i \in Nat /\ i >= 1 /\ i + 1 <= Len(b) /\ j \in Nat /\ j >= 1 /\ j + 2 <= Len(b)
      /\ b[i] \in Block /\ b[i + 1] \in Block
  BY Blocks
<1>2. \A k \in 1 .. Len(b) - 1 : c[k] = IF k < i THEN b[k] ELSE IF k = i THEN m ELSE b[k + 1]
  BY JoinedFacts
<1>3. m.free = b[i].free
  BY <1>1, JoinedBlock
<1>4. /\ b[i + 1].free /\ c[j].free /\ c[j + 1].free
      /\ \A k \in 1 .. Len(b) - 1 : b[k].free /\ b[k + 1].free => k = i \/ k + 1 = i
  OBVIOUS
<1> HIDE DEF b, m, c
<1>5. /\ j \in 1 .. Len(b) - 1 /\ j + 1 \in 1 .. Len(b) - 1
      /\ j < i => j + 1 < i \/ j + 1 = i
      /\ j < i \/ j = i \/ j > i
      /\ j >= i => ~(j + 1 < i) /\ j + 1 # i /\ ~(j < i)
      /\ j > i => j # i /\ j + 1 # i /\ j + 1 + 1 # i
  BY <1>1
<1>6. CASE j < i
  <2>1. c[j] = b[j]
    BY <1>2, <1>5, <1>6
  <2>2. CASE j + 1 < i
    <3>1. c[j + 1] = b[j + 1] /\ j # i /\ j + 1 # i
      BY <1>1, <1>2, <1>5, <2>2
    <3> QED BY <1>4, <1>5, <2>1, <3>1
  <2>3. CASE j + 1 = i
    <3>1. c[j + 1] = m
      BY <1>1, <1>2, <1>5, <2>3
    <3> QED BY <1>3, <1>4, <2>1, <2>3, <3>1 DEF b
  <2> QED BY <1>5, <1>6, <2>2, <2>3
<1>7. CASE j >= i
  <2>1. c[j + 1] = b[j + 1 + 1] /\ (j > i => c[j] = b[j + 1])
    BY <1>2, <1>5, <1>7
  <2>2. b[j + 1].free /\ b[j + 1 + 1].free
    BY <1>1, <1>4, <1>5, <1>7, <2>1
  <2> QED BY <1>1, <1>4, <1>5, <1>7, <2>2
<1> QED BY <1>1, <1>6, <1>7 DEF b

-----------------------------------------------------------------------------
(* free.                                                                   *)

Marked(h, i) == [h EXCEPT !.blocks[i].free = TRUE]

\* A block that is marked as free, block by block.
LEMMA MarkedFacts ==
    ASSUME NEW h \in Heap, NEW i \in 1 .. Len(h.blocks)
    PROVE  /\ Marked(h, i) \in Heap
           /\ Marked(h, i).brk = h.brk
           /\ Len(Marked(h, i).blocks) = Len(h.blocks)
           /\ \A j \in 1 .. Len(h.blocks) : j # i => Marked(h, i).blocks[j] = h.blocks[j]
           /\ Marked(h, i).blocks[i].free
           /\ \A j \in 1 .. Len(h.blocks) :
                /\ Marked(h, i).blocks[j].addr = h.blocks[j].addr
                /\ Marked(h, i).blocks[j].size = h.blocks[j].size
                /\ End(Marked(h, i).blocks[j]) = End(h.blocks[j])
<1> DEFINE b == h.blocks
           m == [b[i] EXCEPT !.free = TRUE]
           t == [b EXCEPT ![i] = m]
<1>1. /\ b \in Seq(Block) /\ Len(b) \in Nat /\ \A j \in 1 .. Len(b) : b[j] \in Block
      /\ i \in 1 .. Len(b)
  BY Blocks
<1>2. m \in Block /\ m.addr = b[i].addr /\ m.size = b[i].size /\ m.free
  BY <1>1 DEF Block
<1>3. End(m) = End(b[i])
  BY <1>2 DEF End
<1>4. /\ t \in Seq(Block) /\ Len(t) = Len(b)
      /\ \A j \in 1 .. Len(b) : t[j] = IF j = i THEN m ELSE b[j]
  <2> HIDE DEF b, m
  <2>1. t \in Seq(Block)
    BY <1>1, <1>2, ExceptSeq
  <2> QED BY <2>1, <1>1, <1>2, ExceptSeq
<1>5. Marked(h, i) = [h EXCEPT !.blocks = t]
  BY DEF Marked
<1>6. Marked(h, i) \in Heap /\ Marked(h, i).brk = h.brk /\ Marked(h, i).blocks = t
  <2> HIDE DEF t
  <2> QED BY <1>4, <1>5 DEF Heap
<1> HIDE DEF m, t
<1> QED BY <1>2, <1>3, <1>4, <1>6

\* Marking a block takes it from what is given out; only there may free
\* blocks be neighbours now.
LEMMA MarkedSound ==
    ASSUME NEW h \in Heap, Sound(h), NEW i \in 1 .. Len(h.blocks), ~h.blocks[i].free
    PROVE  /\ Tiled(Marked(h, i))
           /\ Used(Marked(h, i)) = Used(h) \ {Room(h.blocks[i])}
           /\ \A j \in 1 .. Len(h.blocks) - 1 :
                Marked(h, i).blocks[j].free /\ Marked(h, i).blocks[j + 1].free =>
                    j = i \/ j + 1 = i
<1> DEFINE b == h.blocks
           c == Marked(h, i).blocks
<1>1. /\ Len(b) \in Nat /\ b # <<>> /\ DOMAIN b = 1 .. Len(b) /\ i \in 1 .. Len(b)
      /\ \A j \in 1 .. Len(b) : b[j] \in Block
  BY Blocks
<1>2. /\ Marked(h, i) \in Heap /\ Marked(h, i).brk = h.brk /\ Len(c) = Len(b)
      /\ \A j \in 1 .. Len(b) : j # i => c[j] = b[j]
      /\ c[i].free
      /\ \A j \in 1 .. Len(b) : c[j].addr = b[j].addr /\ End(c[j]) = End(b[j])
  BY MarkedFacts
<1>3. DOMAIN c = 1 .. Len(b) /\ c # <<>>
  BY <1>1, <1>2, Blocks
<1>4. /\ \A j \in 1 .. Len(b) - 1 : End(b[j]) = b[j + 1].addr
      /\ End(b[Len(b)]) = h.brk
      /\ \A j \in 1 .. Len(b) : OnGrid(b[j].addr)
      /\ OnGrid(h.brk)
      /\ \A j \in 1 .. Len(b) - 1 : ~(b[j].free /\ b[j + 1].free)
  BY <1>1 DEF Sound, Tiled, Merged
<1>5. \A u : u \in Used(h) <=> \E j \in 1 .. Len(b) : ~b[j].free /\ u = Room(b[j])
  BY InUsed
<1>6. \A u : u \in Used(Marked(h, i)) <=> \E j \in 1 .. Len(b) : ~c[j].free /\ u = Room(c[j])
  BY <1>2, InUsed
<1>7. \A j \in 1 .. Len(b) : Room(b[j]) = Room(b[i]) => j = i
  BY OnePointer DEF Sound, Room
<1> HIDE DEF b, c
<1>8. \A u : u \in Used(Marked(h, i)) <=> u \in Used(h) /\ u # Room(b[i])
  BY <1>1, <1>2, <1>5, <1>6, <1>7, SMTT(30)
<1>9. Tiled(Marked(h, i))
  <2>1. \A j \in 1 .. Len(c) - 1 : End(c[j]) = c[j + 1].addr
    BY <1>1, <1>2, <1>4, SMTT(30)
  <2>2. Len(c) \in 1 .. Len(b)
    BY <1>1, <1>2
  <2> QED BY <1>2, <1>3, <1>4, <2>1, <2>2 DEF Tiled, c
<1>10. ASSUME NEW j \in 1 .. Len(b) - 1, c[j].free, c[j + 1].free
       PROVE  j = i \/ j + 1 = i
  <2>1. j \in 1 .. Len(b) /\ j + 1 \in 1 .. Len(b)
    BY <1>1
  <2> QED BY <2>1, <1>2, <1>4, <1>10
<1>11. Used(Marked(h, i)) = Used(h) \ {Room(b[i])}
  BY <1>8
<1> QED BY <1>9, <1>10, <1>11 DEF b, c

\* What free does.
LEMMA FreedFacts ==
    ASSUME NEW h, Sound(h), NEW i \in 1 .. Len(h.blocks), ~h.blocks[i].free
    PROVE  /\ Sound(Freed(h, i))
           /\ Used(Freed(h, i)) = Used(h) \ {Room(h.blocks[i])}
           /\ Freed(h, i).blocks # <<>>
<1> DEFINE n == Len(h.blocks)
           k == Marked(h, i)
           l == IF NextIsFree(k, i) THEN Joined(k, i) ELSE k
           used == Used(h) \ {Room(h.blocks[i])}
<1>0. h \in Heap
  BY DEF Sound
<1>1. n \in Nat /\ i \in 1 .. n /\ i \in Nat /\ i >= 1 /\ i <= n
  BY <1>0, Blocks
<1>2. /\ k \in Heap /\ Len(k.blocks) = n /\ k.blocks[i].free
      /\ \A j \in 1 .. n - 1 : k.blocks[j].free /\ k.blocks[j + 1].free => j = i \/ j + 1 = i
      /\ Tiled(k) /\ Used(k) = used
  BY <1>0, MarkedFacts, MarkedSound
<1>3. Freed(h, i) = IF i > 1 /\ l.blocks[i - 1].free THEN Joined(l, i - 1) ELSE l
  BY DEF Freed, Marked
<1> HIDE DEF n, k, used
\* With the block after it.
<1>4. /\ l \in Heap /\ Tiled(l) /\ Used(l) = used
      /\ Len(l.blocks) \in Nat /\ i <= Len(l.blocks) /\ l.blocks[i].free
      /\ \A j \in 1 .. Len(l.blocks) - 1 : l.blocks[j].free /\ l.blocks[j + 1].free => j + 1 = i
  <2>1. CASE NextIsFree(k, i)
    <3>1. i \in 1 .. Len(k.blocks) - 1 /\ k.blocks[i + 1].free
      BY <1>1, <1>2, <2>1 DEF NextIsFree
    <3>2. /\ Joined(k, i) \in Heap /\ Tiled(Joined(k, i)) /\ Used(Joined(k, i)) = used
          /\ Len(Joined(k, i).blocks) = n - 1
      BY <1>2, <3>1, JoinedFacts, JoinedTiled, JoinedFree
    <3>3. Joined(k, i).blocks[i].free
      <4>1. Joined(k, i).blocks[i] = Grown(k.blocks[i], k.blocks[i + 1])
        BY <1>1, <1>2, <3>1, JoinedFacts
      <4>2. k.blocks[i] \in Block /\ k.blocks[i + 1] \in Block
        BY <1>1, <1>2, <3>1, Blocks
      <4> QED BY <4>1, <4>2, <1>2, JoinedBlock
    <3>4. ASSUME NEW j \in 1 .. n - 2,
                 Joined(k, i).blocks[j].free, Joined(k, i).blocks[j + 1].free
          PROVE  j + 1 = i
      BY <1>2, <3>1, <3>4, JoinedMerged
    <3>5. n - 1 \in Nat /\ i <= n - 1 /\ (n - 1) - 1 = n - 2
      BY <1>1, <1>2, <3>1
    <3> QED BY <2>1, <3>2, <3>3, <3>4, <3>5
  <2>2. CASE ~NextIsFree(k, i)
    <3>1. l = k
      BY <2>2
    <3>2. ASSUME NEW j \in 1 .. n - 1, k.blocks[j].free, k.blocks[j + 1].free PROVE j + 1 = i
      BY <1>1, <1>2, <2>2, <3>2 DEF NextIsFree
    <3> QED BY <1>1, <1>2, <3>1, <3>2
  <2> QED BY <2>1, <2>2
<1> HIDE DEF l
\* And with the block before.
<1>5. CASE i > 1 /\ l.blocks[i - 1].free
  <2>1. /\ i - 1 \in 1 .. Len(l.blocks) - 1 /\ (i - 1) + 1 = i
        /\ \A j \in Nat : j + 1 = i => j = i - 1
    BY <1>1, <1>4, <1>5
  <2>2. /\ Joined(l, i - 1) \in Heap /\ Tiled(Joined(l, i - 1)) /\ Used(Joined(l, i - 1)) = used
        /\ Len(Joined(l, i - 1).blocks) = Len(l.blocks) - 1
    BY <1>4, <1>5, <2>1, JoinedFacts, JoinedTiled, JoinedFree
  <2>3. ASSUME NEW j \in 1 .. Len(l.blocks) - 2,
               Joined(l, i - 1).blocks[j].free, Joined(l, i - 1).blocks[j + 1].free
        PROVE  FALSE
    <3>1. \A q \in 1 .. Len(l.blocks) - 1 :
              l.blocks[q].free /\ l.blocks[q + 1].free => q = i - 1 \/ q + 1 = i - 1
      BY <1>4, <2>1, SMTT(30)
    <3>2. j + 1 = i - 1 /\ l.blocks[j].free /\ l.blocks[i - 1].free
      BY <1>4, <2>1, <2>3, <3>1, JoinedMerged, SMTT(60)
    <3>3. j \in 1 .. Len(l.blocks) - 1 /\ j + 1 # i
      BY <1>1, <1>4, <3>2
    <3> QED BY <1>4, <3>2, <3>3
  <2>4. (Len(l.blocks) - 1) - 1 = Len(l.blocks) - 2 /\ Len(l.blocks) - 1 > 0
    BY <1>4, <2>1
  <2>5. Merged(Joined(l, i - 1)) /\ Joined(l, i - 1).blocks # <<>>
    BY <2>2, <2>3, <2>4, Blocks DEF Merged
  <2> QED BY <1>3, <1>5, <2>2, <2>5 DEF Sound, used
<1>6. CASE ~(i > 1 /\ l.blocks[i - 1].free)
  <2>1. ASSUME NEW j \in 1 .. Len(l.blocks) - 1, l.blocks[j].free, l.blocks[j + 1].free
        PROVE  FALSE
    <3>1. j + 1 = i
      BY <1>4, <2>1
    <3>2. i > 1 /\ j = i - 1
      BY <1>4, <3>1
    <3> QED BY <1>6, <2>1, <3>2
  <2>2. Merged(l) /\ l.blocks # <<>>
    BY <1>1, <1>4, <2>1, Blocks DEF Merged
  <2> QED BY <1>3, <1>4, <1>6, <2>2 DEF Sound, used
<1> QED BY <1>5, <1>6

-----------------------------------------------------------------------------
(* malloc.                                                                 *)

\* h2 is h with memory for n bytes given out at ptr.
GivenOut(h, h2, ptr, n) ==
    /\ Sound(h2) /\ h2.blocks # <<>>
    /\ ptr \in Nat \ {0}
    /\ \A u \in Used(h) : u[1] # ptr
    /\ \E room \in Nat : room >= n /\ Used(h2) = Used(h) \cup {<<ptr, room>>}

\* h2 is h for a client.
SameRoom(h, h2) == Sound(h2) /\ Used(h2) = Used(h)

\* A block that is marked as allocated where it is.
LEMMA TakenFacts ==
    ASSUME NEW h, Sound(h), NEW i \in 1 .. Len(h.blocks), h.blocks[i].free,
           NEW n \in Nat, h.blocks[i].size >= n
    PROVE  GivenOut(h, [h EXCEPT !.blocks[i] = [h.blocks[i] EXCEPT !.free = FALSE]],
                    Pointer(h.blocks[i]), n)
<1> DEFINE b == h.blocks
           m == [b[i] EXCEPT !.free = FALSE]
           c == [b EXCEPT ![i] = m]
           h2 == [h EXCEPT !.blocks[i] = m]
<1>0. h \in Heap
  BY DEF Sound
<1>1. /\ b \in Seq(Block) /\ Len(b) \in Nat /\ b # <<>> /\ DOMAIN b = 1 .. Len(b)
      /\ i \in 1 .. Len(b) /\ \A j \in 1 .. Len(b) : b[j] \in Block
  BY <1>0, Blocks
<1>2. /\ m \in Block /\ m.addr = b[i].addr /\ m.size = b[i].size /\ ~m.free
      /\ b[i].free /\ b[i].size >= n
  BY <1>1 DEF Block
<1>3. End(m) = End(b[i]) /\ Pointer(m) = Pointer(b[i]) /\ Room(m) = Room(b[i])
  BY <1>2 DEF End, Pointer, Room
<1>4. /\ c \in Seq(Block) /\ Len(c) = Len(b)
      /\ \A j \in 1 .. Len(b) : c[j] = IF j = i THEN m ELSE b[j]
  <2> HIDE DEF b, m
  <2>1. c \in Seq(Block)
    BY <1>1, <1>2, ExceptSeq
  <2> QED BY <2>1, <1>1, <1>2, ExceptSeq
<1>5. h2 = [h EXCEPT !.blocks = c]
  OBVIOUS
<1>6. h2 \in Heap /\ h2.brk = h.brk /\ h2.blocks = c
  <2> HIDE DEF c, h2
  <2> QED BY <1>0, <1>4, <1>5 DEF Heap
<1>7. /\ \A j \in 1 .. Len(b) - 1 : End(b[j]) = b[j + 1].addr
      /\ End(b[Len(b)]) = h.brk
      /\ \A j \in 1 .. Len(b) : OnGrid(b[j].addr)
      /\ OnGrid(h.brk)
      /\ \A j \in 1 .. Len(b) - 1 : ~(b[j].free /\ b[j + 1].free)
  BY <1>1 DEF Sound, Tiled, Merged
<1>8. \A u : u \in Used(h) <=> \E j \in 1 .. Len(b) : ~b[j].free /\ u = Room(b[j])
  BY <1>0, InUsed
<1>9. \A j \in 1 .. Len(b) : Pointer(b[j]) = Pointer(b[i]) => j = i
  BY <1>0, OnePointer DEF Sound
<1>10. DOMAIN c = 1 .. Len(c) /\ c # <<>>
  BY <1>1, <1>4, <1>6, Blocks
<1>11. \A u : u \in Used(h2) <=> \E j \in 1 .. Len(c) : ~c[j].free /\ u = Room(c[j])
  <2> HIDE DEF h2, c
  <2> QED BY <1>6, InUsed
<1> HIDE DEF b, m, c, h2
<1>12. Tiled(h2)
  <2>1. \A j \in 1 .. Len(c) - 1 : End(c[j]) = c[j + 1].addr
    <3> SUFFICES ASSUME NEW j \in 1 .. Len(b) - 1 PROVE End(c[j]) = c[j + 1].addr
      BY <1>4
    <3>1. j \in 1 .. Len(b) /\ j + 1 \in 1 .. Len(b)
      BY <1>1
    <3> QED BY <3>1, <1>2, <1>3, <1>4, <1>7
  <2>2. End(c[Len(c)]) = h.brk
    <3>1. Len(b) \in 1 .. Len(b)
      BY <1>1
    <3> QED BY <3>1, <1>3, <1>4, <1>7
  <2>3. \A j \in 1 .. Len(c) : OnGrid(c[j].addr)
    BY <1>1, <1>2, <1>4, <1>7
  <2> QED BY <1>6, <1>7, <1>10, <2>1, <2>2, <2>3 DEF Tiled
<1>13. Merged(h2)
  <2> SUFFICES ASSUME NEW j \in 1 .. Len(b) - 1, c[j].free, c[j + 1].free PROVE FALSE
    BY <1>4, <1>6 DEF Merged
  <2>1. j \in 1 .. Len(b) /\ j + 1 \in 1 .. Len(b)
    BY <1>1
  <2> QED BY <2>1, <1>2, <1>4, <1>7
<1>14. Used(h2) = Used(h) \cup {Room(b[i])}
  <2>1. \A u : u \in Used(h2) <=> u \in Used(h) \/ u = Room(b[i])
    BY <1>1, <1>2, <1>3, <1>4, <1>8, <1>11
  <2> QED BY <2>1
<1>15. \A u \in Used(h) : u[1] # Pointer(b[i])
  <2> SUFFICES ASSUME NEW j \in 1 .. Len(b), ~b[j].free, Room(b[j])[1] = Pointer(b[i]) PROVE FALSE
    BY <1>8
  <2>1. Pointer(b[j]) = Pointer(b[i])
    BY DEF Room
  <2> QED BY <2>1, <1>2, <1>9
<1>16. Pointer(b[i]) \in Nat \ {0} /\ b[i].size \in Nat
  BY <1>1, Places, Layout
<1>17. Room(b[i]) = <<Pointer(b[i]), b[i].size>>
  BY DEF Room
<1>18. Sound(h2) /\ h2.blocks # <<>>
  BY <1>6, <1>10, <1>12, <1>13 DEF Sound
<1> QED BY <1>2, <1>14, <1>15, <1>16, <1>17, <1>18 DEF GivenOut, b, m, h2

\* A block that is split.
Splits(b, n) == b.size >= n + Header + Align

\* The two parts of a block that is split.
LEMMA SplitBlock ==
    ASSUME NEW b \in Block, NEW n \in Nat, Splits(b, n), OnGrid(n), OnGrid(b.addr)
    PROVE  LET used == [b EXCEPT !.free = FALSE, !.size = n]
               rest == [addr |-> b.addr + Header + n, size |-> b.size - n - Header, free |-> TRUE]
           IN  /\ used \in Block /\ used.addr = b.addr /\ ~used.free
               /\ Pointer(used) = Pointer(b) /\ Room(used) = <<Pointer(b), n>>
               /\ rest \in Block /\ rest.free /\ OnGrid(rest.addr)
               /\ End(used) = rest.addr /\ End(rest) = End(b)
<1> DEFINE used == [b EXCEPT !.free = FALSE, !.size = n]
           a == b.addr
           s == b.size
           rest == [addr |-> a + Header + n, size |-> s - n - Header, free |-> TRUE]
<1>1. used \in Block /\ used.addr = a /\ used.size = n /\ ~used.free
  BY DEF Block
<1>2. a \in Nat /\ s \in Nat /\ s >= n + Header + Align /\ OnGrid(a)
  BY DEF Block, Splits
<1>3. /\ a = b.addr /\ s = b.size
      /\ rest = [addr |-> a + Header + n, size |-> s - n - Header, free |-> TRUE]
  OBVIOUS
<1> HIDE DEF a, s, rest, used
<1>4. a + Header + n \in Nat /\ s - n - Header \in Nat
  BY <1>2, Layout
<1>5. rest \in Block /\ rest.addr = a + Header + n /\ rest.size = s - n - Header /\ rest.free
  BY <1>3, <1>4 DEF Block
<1>6. OnGrid(a + Header + n)
  <2>1. OnGrid(a + Header) /\ a + Header \in Int
    BY <1>2, Layout, Grid, Multiples
  <2> QED BY <2>1, Multiples
<1>7. Pointer(used) = Pointer(b) /\ Room(used) = <<Pointer(b), n>>
  BY <1>1, <1>3 DEF Pointer, Room
<1>8. End(used) = a + Header + n
  BY <1>1 DEF End
<1>9. End(rest) = End(b)
  <2>1. End(rest) = (a + Header + n) + Header + (s - n - Header) /\ End(b) = a + Header + s
    BY <1>3, <1>5 DEF End
  <2> QED BY <2>1, <1>2, Layout
<1> QED BY <1>1, <1>3, <1>5, <1>6, <1>7, <1>8, <1>9 DEF used, rest, a, s

\* Splitting a free block gives out its first n bytes.
LEMMA SplitFacts ==
    ASSUME NEW h, Sound(h), NEW i \in 1 .. Len(h.blocks), h.blocks[i].free,
           NEW n \in Nat, OnGrid(n), Splits(h.blocks[i], n)
    PROVE  LET b == h.blocks[i]
               used == [b EXCEPT !.free = FALSE, !.size = n]
               rest == [addr |-> b.addr + Header + n, size |-> b.size - n - Header, free |-> TRUE]
           IN  GivenOut(h, [h EXCEPT !.blocks =
                               InsertAt([h.blocks EXCEPT ![i] = used], i + 1, rest)],
                        Pointer(b), n)
<1> DEFINE b == h.blocks
           m == [b[i] EXCEPT !.free = FALSE, !.size = n]
           rest == [addr |-> b[i].addr + Header + n, size |-> b[i].size - n - Header, free |-> TRUE]
           t == [b EXCEPT ![i] = m]
           c == InsertAt(t, i + 1, rest)
           h2 == [h EXCEPT !.blocks = c]
<1>0. h \in Heap
  BY DEF Sound
<1>1. /\ b \in Seq(Block) /\ Len(b) \in Nat /\ b # <<>> /\ DOMAIN b = 1 .. Len(b)
      /\ i \in 1 .. Len(b) /\ \A j \in 1 .. Len(b) : b[j] \in Block
      /\ i \in Nat /\ i >= 1 /\ i <= Len(b)
  BY <1>0, Blocks
<1>2. /\ m \in Block /\ m.addr = b[i].addr /\ ~m.free /\ b[i].free
      /\ Pointer(m) = Pointer(b[i]) /\ Room(m) = <<Pointer(b[i]), n>>
      /\ rest \in Block /\ rest.free /\ OnGrid(rest.addr)
      /\ End(m) = rest.addr /\ End(rest) = End(b[i])
  <2> DEFINE x == h.blocks[i]
  <2>1. x \in Block /\ Splits(x, n) /\ OnGrid(x.addr)
    BY <1>1 DEF Sound, Tiled
  <2> HIDE DEF x
  <2> QED BY <2>1, SplitBlock DEF x
<1> HIDE DEF m, rest
<1>6. /\ t \in Seq(Block) /\ Len(t) = Len(b)
      /\ \A j \in 1 .. Len(b) : t[j] = IF j = i THEN m ELSE b[j]
  <2> HIDE DEF b
  <2>1. t \in Seq(Block)
    BY <1>1, <1>2, ExceptSeq
  <2> QED BY <2>1, <1>1, <1>2, ExceptSeq
<1>7. /\ c \in Seq(Block) /\ Len(c) = Len(b) + 1
      /\ \A j \in 1 .. Len(b) + 1 :
            c[j] = IF j < i + 1 THEN t[j] ELSE IF j = i + 1 THEN rest ELSE t[j - 1]
  <2> DEFINE k == i + 1
  <2>1. k \in 1 .. Len(t) + 1 /\ c = InsertAt(t, k, rest)
    BY <1>1, <1>6
  <2>2. t \in Seq(Block) /\ rest \in Block /\ Len(t) = Len(b)
    BY <1>2, <1>6
  <2> HIDE DEF t, b, c, k
  <2>3. /\ c \in Seq(Block)
        /\ Len(c) = Len(t) + 1
        /\ \A j \in 1 .. Len(t) + 1 : c[j] = IF j < k THEN t[j] ELSE IF j = k THEN rest ELSE t[j - 1]
    BY <2>1, <2>2, InsertAtFacts
  <2> QED BY <2>2, <2>3 DEF k
<1>8. h2 \in Heap /\ h2.brk = h.brk /\ h2.blocks = c
  <2> HIDE DEF c
  <2> QED BY <1>0, <1>7 DEF Heap
<1>9. /\ \A j \in 1 .. Len(b) - 1 : End(b[j]) = b[j + 1].addr
      /\ End(b[Len(b)]) = h.brk
      /\ \A j \in 1 .. Len(b) : OnGrid(b[j].addr)
      /\ OnGrid(h.brk)
      /\ \A j \in 1 .. Len(b) - 1 : ~(b[j].free /\ b[j + 1].free)
  BY <1>1 DEF Sound, Tiled, Merged
<1>10. \A u : u \in Used(h) <=> \E j \in 1 .. Len(b) : ~b[j].free /\ u = Room(b[j])
  BY <1>0, InUsed
<1>11. \A j \in 1 .. Len(b) : Pointer(b[j]) = Pointer(b[i]) => j = i
  BY <1>0, OnePointer DEF Sound
<1> HIDE DEF b, t, c, h2
<1>12. DOMAIN c = 1 .. Len(b) + 1 /\ c # <<>>
  BY <1>1, <1>7, <1>8, Blocks
<1>13. \A u : u \in Used(h2) <=> \E j \in 1 .. Len(b) + 1 : ~c[j].free /\ u = Room(c[j])
  BY <1>7, <1>8, InUsed
\* The block before, the block itself, what is left of it, and those after it.
<1>14. /\ \A j \in 1 .. Len(b) + 1 : j < i => c[j] = b[j] /\ j \in 1 .. Len(b)
       /\ c[i] = m /\ i \in 1 .. Len(b) + 1
       /\ c[i + 1] = rest /\ i + 1 \in 1 .. Len(b) + 1
       /\ \A j \in 1 .. Len(b) + 1 : j > i + 1 => c[j] = b[j - 1] /\ j - 1 \in 1 .. Len(b)
  <2>1. ASSUME NEW j \in 1 .. Len(b) + 1, j < i PROVE c[j] = b[j] /\ j \in 1 .. Len(b)
    BY <1>1, <1>6, <1>7, <2>1
  <2>2. c[i] = m /\ i \in 1 .. Len(b) + 1
    BY <1>1, <1>6, <1>7
  <2>3. c[i + 1] = rest /\ i + 1 \in 1 .. Len(b) + 1
    <3>1. i + 1 \in 1 .. Len(b) + 1 /\ ~(i + 1 < i + 1)
      BY <1>1
    <3> QED BY <3>1, <1>7
  <2>4. ASSUME NEW j \in 1 .. Len(b) + 1, j > i + 1 PROVE c[j] = b[j - 1] /\ j - 1 \in 1 .. Len(b)
    <3>1. j - 1 \in 1 .. Len(b) /\ ~(j < i + 1) /\ j # i + 1 /\ j - 1 # i
      BY <1>1, <2>4
    <3> QED BY <3>1, <1>6, <1>7
  <2> QED BY <2>1, <2>2, <2>3, <2>4
<1>15. ASSUME NEW j \in 1 .. Len(b)
       PROVE  /\ j < i \/ j = i \/ j = i + 1 \/ j > i + 1
              /\ j \in 1 .. Len(b) + 1 /\ j + 1 \in 1 .. Len(b) + 1
              /\ j < i => j + 1 < i \/ j + 1 = i
              /\ j < i => j \in 1 .. Len(b) - 1
              /\ j > i => j + 1 > i + 1 /\ (j + 1) - 1 = j /\ j - 1 \in 1 .. Len(b) - 1 /\ (j - 1) + 1 = j
  BY <1>1
<1>16. Tiled(h2)
  <2>1. ASSUME NEW j \in 1 .. Len(b) PROVE End(c[j]) = c[j + 1].addr
    <3>1. CASE j < i
      BY <1>2, <1>9, <1>14, <1>15, <3>1
    <3>2. CASE j = i
      BY <1>2, <1>14, <3>2
    <3>3. CASE j = i + 1
      <4>1. c[j] = rest /\ c[j + 1] = b[j] /\ j - 1 = i
        BY <1>1, <1>14, <1>15, <3>3
      <4>2. End(b[i]) = b[j].addr
        <5>1. i \in 1 .. Len(b) - 1
          BY <1>1, <3>3
        <5> QED BY <5>1, <3>3, <1>9
      <4> QED BY <1>2, <4>1, <4>2
    <3>4. CASE j > i + 1
      <4>1. c[j] = b[j - 1] /\ c[j + 1] = b[j]
        BY <1>1, <1>14, <1>15, <3>4
      <4>2. End(b[j - 1]) = b[j].addr
        <5>1. j > i
          BY <1>1, <3>4
        <5> QED BY <5>1, <1>9, <1>15
      <4> QED BY <4>1, <4>2
    <3> QED BY <1>15, <3>1, <3>2, <3>3, <3>4
  <2>2. End(c[Len(b) + 1]) = h.brk
    <3>1. CASE i = Len(b)
      BY <1>2, <1>9, <1>14, <3>1
    <3>2. CASE i < Len(b)
      <4>1. Len(b) + 1 \in 1 .. Len(b) + 1 /\ Len(b) + 1 > i + 1 /\ (Len(b) + 1) - 1 = Len(b)
        BY <1>1, <3>2
      <4> QED BY <4>1, <1>9, <1>14
    <3>3. Len(b) \in Nat /\ i \in Nat /\ i <= Len(b)
      BY <1>1
    <3>4. i = Len(b) \/ i < Len(b)
      BY <3>3
    <3> QED BY <3>1, <3>2, <3>4
  <2>3. ASSUME NEW j \in 1 .. Len(b) + 1 PROVE OnGrid(c[j].addr)
    <3>1. j < i \/ j = i \/ j = i + 1 \/ j > i + 1
      BY <1>1
    <3>2. c[j] = m \/ c[j] = rest \/ \E k \in 1 .. Len(b) : c[j] = b[k]
      BY <1>14, <3>1
    <3> QED BY <1>1, <1>2, <1>9, <3>2
  <2>4. Len(c) - 1 = Len(b)
    BY <1>1, <1>7
  <2> QED BY <1>7, <1>8, <1>9, <1>12, <2>1, <2>2, <2>3, <2>4 DEF Tiled
<1>17. Merged(h2)
  <2> SUFFICES ASSUME NEW j \in 1 .. Len(b), c[j].free, c[j + 1].free PROVE FALSE
    <3>1. Len(c) - 1 = Len(b)
      BY <1>1, <1>7
    <3> QED BY <1>8, <3>1 DEF Merged
  <2>1. CASE j < i
    <3>1. c[j] = b[j] /\ (c[j + 1] = b[j + 1] \/ c[j + 1] = m)
      BY <1>14, <1>15, <2>1
    <3> QED BY <1>2, <1>9, <1>15, <2>1, <3>1
  <2>2. CASE j = i
    BY <1>2, <1>14, <2>2
  <2>3. CASE j = i + 1
    <3>1. c[j + 1] = b[i + 1] /\ i \in 1 .. Len(b) - 1
      BY <1>1, <1>14, <1>15, <2>3
    <3> QED BY <1>2, <1>9, <3>1
  <2>4. CASE j > i + 1
    <3>1. c[j] = b[j - 1] /\ c[j + 1] = b[j] /\ j > i
      BY <1>1, <1>14, <1>15, <2>4
    <3> QED BY <1>9, <1>15, <3>1
  <2> QED BY <1>15, <2>1, <2>2, <2>3, <2>4
<1>18. Used(h2) = Used(h) \cup {<<Pointer(b[i]), n>>}
  <2>1. ASSUME NEW u, NEW j \in 1 .. Len(b) + 1, ~c[j].free, u = Room(c[j])
        PROVE  u \in Used(h) \/ u = Room(m)
    <3>1. j < i \/ j = i \/ j = i + 1 \/ j > i + 1
      BY <1>1
    <3> QED BY <1>2, <1>10, <1>14, <2>1, <3>1
  <2>2. ASSUME NEW u, NEW j \in 1 .. Len(b), ~b[j].free, u = Room(b[j])
        PROVE  u \in Used(h2)
    <3>1. j < i \/ j > i
      BY <1>1, <1>2, <2>2
    <3>2. CASE j < i
      BY <1>13, <1>14, <1>15, <2>2, <3>2
    <3>3. CASE j > i
      <4>1. c[j + 1] = b[j]
        BY <1>14, <1>15, <3>3
      <4> QED BY <4>1, <1>13, <1>15, <2>2
    <3> QED BY <3>1, <3>2, <3>3
  <2>3. Room(m) \in Used(h2)
    BY <1>2, <1>13, <1>14
  <2>4. \A u : u \in Used(h2) <=> u \in Used(h) \/ u = Room(m)
    BY <1>10, <1>13, <2>1, <2>2, <2>3
  <2> QED BY <1>2, <2>4
<1>19. \A u \in Used(h) : u[1] # Pointer(b[i])
  <2> SUFFICES ASSUME NEW j \in 1 .. Len(b), ~b[j].free, Room(b[j])[1] = Pointer(b[i]) PROVE FALSE
    BY <1>10
  <2>1. Pointer(b[j]) = Pointer(b[i])
    BY DEF Room
  <2> QED BY <2>1, <1>2, <1>11
<1>20. Pointer(b[i]) \in Nat \ {0}
  BY <1>1, Places, Layout
<1>21. Sound(h2) /\ h2.blocks # <<>>
  BY <1>8, <1>12, <1>16, <1>17 DEF Sound
<1>22. n >= n
  OBVIOUS
<1> QED BY <1>18, <1>19, <1>20, <1>21, <1>22 DEF GivenOut, b, m, rest, t, c, h2

\* Placed gives out at least n bytes of the block, split or not.
LEMMA PlacedFacts ==
    ASSUME NEW h, Sound(h), NEW i \in 1 .. Len(h.blocks), h.blocks[i].free,
           NEW n \in Nat, OnGrid(n), h.blocks[i].size >= n
    PROVE  GivenOut(h, Placed(h, i, n), Pointer(h.blocks[i]), n)
<1>1. CASE h.blocks[i].size >= n + Header + Align
  BY <1>1, SplitFacts DEF Placed, Splits
<1>2. CASE ~(h.blocks[i].size >= n + Header + Align)
  BY <1>2, TakenFacts DEF Placed
<1> QED BY <1>1, <1>2

\* The first block that fits is given out.
LEMMA GivenFacts ==
    ASSUME NEW h, Sound(h), NEW n \in Nat, OnGrid(n), Fitting(h, n) # {}
    PROVE  GivenOut(h, Given(h, n).heap, Given(h, n).ptr, n)
<1> DEFINE F == Fitting(h, n)
           i == FirstFit(h, n)
<1>1. h \in Heap /\ DOMAIN h.blocks = 1 .. Len(h.blocks) /\ Len(h.blocks) \in Nat
  BY Blocks DEF Sound
<1>2. F \in SUBSET Nat /\ F # {}
  BY <1>1 DEF Fitting
<1>3. i \in F
  <2>1. \E k \in F : \A j \in F : k <= j
    <3> HIDE DEF F
    <3> QED BY <1>2, LeastNat
  <2> QED BY <2>1 DEF FirstFit
<1>4. i \in 1 .. Len(h.blocks) /\ h.blocks[i].free /\ h.blocks[i].size >= n
  BY <1>1, <1>3 DEF Fitting
<1> HIDE DEF i
<1>5. GivenOut(h, Placed(h, i, n), Pointer(h.blocks[i]), n)
  BY <1>4, PlacedFacts
<1> QED BY <1>5 DEF Given, i

\* More memory: the last block is free then.
LEMMA ExtendedFacts ==
    ASSUME NEW h, Sound(h), h.blocks # <<>>, NEW n \in Nat, OnGrid(n)
    PROVE  LET h2 == Extended(h, n)
               last == h2.blocks[Len(h2.blocks)]
           IN  /\ SameRoom(h, h2) /\ h2.blocks # <<>> /\ last.free
               /\ h.blocks[Len(h.blocks)].free => last.size >= n
<1> DEFINE b == h.blocks
           l == Len(b)
           m == Larger(Chunk, n)
           h2 == Extended(h, n)
           c == h2.blocks
<1>0. h \in Heap
  BY DEF Sound
<1>1. /\ b \in Seq(Block) /\ l \in Nat /\ DOMAIN b = 1 .. l /\ l > 0 /\ l \in 1 .. l
      /\ \A j \in 1 .. l : b[j] \in Block
  BY <1>0, Blocks
<1>2. m \in Nat /\ m >= n /\ m > Header /\ OnGrid(m) /\ m \in Int
  BY Layout, Grid DEF Larger
<1>3. /\ \A j \in 1 .. l - 1 : End(b[j]) = b[j + 1].addr
      /\ End(b[l]) = h.brk
      /\ \A j \in 1 .. l : OnGrid(b[j].addr)
      /\ OnGrid(h.brk) /\ h.brk \in Nat
      /\ \A j \in 1 .. l - 1 : ~(b[j].free /\ b[j + 1].free)
  BY <1>0, <1>1, Blocks DEF Sound, Tiled, Merged
<1>4. h.brk + m \in Nat /\ OnGrid(h.brk + m)
  <2> DEFINE x == h.brk
  <2>1. x \in Nat /\ x \in Int /\ OnGrid(x)
    BY <1>3
  <2> HIDE DEF x, m
  <2>2. OnGrid(m) /\ m \in Int /\ m \in Nat
    BY <1>2
  <2>3. OnGrid(x + m)
    BY <2>1, <2>2, Multiples
  <2>4. x + m \in Nat
    BY <2>1, <2>2
  <2> QED BY <2>3, <2>4 DEF x
<1>5. \A u : u \in Used(h) <=> \E j \in 1 .. l : ~b[j].free /\ u = Room(b[j])
  BY <1>0, InUsed
<1>6. CASE b[l].free
  <2> DEFINE x == [b[l] EXCEPT !.size = @ + m]
             t == [b EXCEPT ![l] = x]
  <2>1. /\ x \in Block /\ x.addr = b[l].addr /\ x.free = b[l].free /\ x.size = b[l].size + m
        /\ b[l].size \in Nat
    <3> DEFINE y == b[l]
    <3>1. y \in Block /\ y.size \in Nat
      BY <1>1, Places
    <3> HIDE DEF y
    <3>2. y.size + m \in Nat
      BY <3>1, <1>2
    <3>3. [y EXCEPT !.size = @ + m] \in Block
      BY <3>1, <3>2 DEF Block
    <3>4. /\ [y EXCEPT !.size = @ + m].addr = y.addr /\ [y EXCEPT !.size = @ + m].free = y.free
          /\ [y EXCEPT !.size = @ + m].size = y.size + m
      BY <3>1 DEF Block
    <3> QED BY <3>1, <3>3, <3>4 DEF y
  <2>2. End(x) = h.brk + m /\ x.size >= n
    <3>1. /\ End(x) = Pointer(x) + x.size /\ Pointer(x) = x.addr + Header
          /\ End(b[l]) = Pointer(b[l]) + b[l].size /\ Pointer(b[l]) = b[l].addr + Header
          /\ b[l].addr \in Nat
      BY <1>1, <2>1, Places
    <3> DEFINE z == b[l].size
               o == b[l].addr
    <3>2. End(x) = (o + Header) + (z + m) /\ End(b[l]) = (o + Header) + z /\ x.size = z + m
          /\ z \in Nat /\ o \in Nat
      BY <2>1, <3>1
    <3> HIDE DEF x, z, o
    <3> QED BY <1>2, <1>3, <3>2, Layout
  <2>3. /\ t \in Seq(Block) /\ Len(t) = l
        /\ \A j \in 1 .. l : t[j] = IF j = l THEN x ELSE b[j]
    <3> HIDE DEF b, x
    <3>1. t \in Seq(Block)
      BY <1>1, <2>1, ExceptSeq
    <3> QED BY <3>1, <1>1, <2>1, ExceptSeq
  <2>4. h2 = [brk |-> h.brk + m, blocks |-> t]
    BY <1>6 DEF Extended
  <2> HIDE DEF b, l, x, t, m, h2
  <2>5. h2 \in Heap /\ c = t /\ h2.brk = h.brk + m
    BY <1>4, <2>3, <2>4 DEF Heap
  <2>6. DOMAIN c = 1 .. l /\ c # <<>>
    BY <1>1, <2>3, <2>5, Blocks
  <2>7. Tiled(h2)
    <3>1. ASSUME NEW j \in 1 .. l - 1 PROVE End(c[j]) = c[j + 1].addr
      <4>1. j \in 1 .. l /\ j + 1 \in 1 .. l /\ j # l
        BY <1>1
      <4> QED BY <4>1, <1>3, <2>1, <2>3, <2>5
    <3>2. End(c[l]) = h.brk + m
      BY <1>1, <2>2, <2>3, <2>5
    <3>3. \A j \in 1 .. l : OnGrid(c[j].addr)
      BY <1>3, <2>1, <2>3, <2>5
    <3> QED BY <1>4, <2>3, <2>5, <2>6, <3>1, <3>2, <3>3 DEF Tiled
  <2>8. Merged(h2)
    <3> SUFFICES ASSUME NEW j \in 1 .. l - 1, c[j].free, c[j + 1].free PROVE FALSE
      BY <2>3, <2>5 DEF Merged
    <3>1. j \in 1 .. l /\ j + 1 \in 1 .. l /\ j # l
      BY <1>1
    <3> QED BY <3>1, <1>3, <2>1, <2>3, <2>5
  <2>9. Used(h2) = Used(h)
    <3>1. \A u : u \in Used(h2) <=> \E j \in 1 .. l : ~c[j].free /\ u = Room(c[j])
      BY <2>3, <2>5, InUsed
    <3>2. \A j \in 1 .. l : (c[j].free <=> b[j].free) /\ (~b[j].free => c[j] = b[j])
      BY <1>6, <2>1, <2>3, <2>5
    <3>3. \A u : u \in Used(h2) <=> u \in Used(h)
      BY <1>5, <3>1, <3>2
    <3> QED BY <3>3
  <2>10. c[Len(c)] = x
    BY <1>1, <2>3, <2>5
  <2> QED BY <1>6, <2>1, <2>2, <2>5, <2>6, <2>7, <2>8, <2>9, <2>10 DEF SameRoom, Sound, b, l, h2
<1>7. CASE ~b[l].free
  <2> DEFINE s == m - Header
             x == [addr |-> h.brk, size |-> s, free |-> TRUE]
             t == Append(b, x)
  <2>0. s \in Nat
    <3> HIDE DEF m
    <3> QED BY <1>2, Layout
  <2>1. x \in Block /\ x.addr = h.brk /\ x.free /\ x.size = s
    <3> HIDE DEF s
    <3> QED BY <1>3, <2>0 DEF Block
  <2>2. End(x) = h.brk + m
    <3>1. End(x) = h.brk + Header + s
      <4> HIDE DEF s, x
      <4> QED BY <2>1 DEF End
    <3>2. h.brk \in Nat
      BY <1>3
    <3>3. h.brk + Header + (m - Header) = h.brk + m
      <4> HIDE DEF m
      <4> QED BY <3>2, <1>2, Layout
    <3> QED BY <3>1, <3>3
  <2>3. /\ t \in Seq(Block) /\ Len(t) = l + 1
        /\ \A j \in 1 .. l : t[j] = b[j]
        /\ t[l + 1] = x
    <3> HIDE DEF b, x
    <3> QED BY <1>1, <2>1, AppendFacts
  <2>4. h2 = [brk |-> h.brk + m, blocks |-> t]
    BY <1>7 DEF Extended
  <2> HIDE DEF b, l, x, t, m, h2, s
  <2>5. h2 \in Heap /\ c = t /\ h2.brk = h.brk + m
    BY <1>4, <2>3, <2>4 DEF Heap
  <2>6. DOMAIN c = 1 .. l + 1 /\ c # <<>>
    BY <1>1, <2>3, <2>5, Blocks
  <2>7. \A j \in 1 .. l + 1 : j \in 1 .. l \/ j = l + 1
    BY <1>1
  <2>8. \A j \in 1 .. l : (j \in 1 .. l - 1 /\ j + 1 \in 1 .. l) \/ j = l
    BY <1>1
  <2>9. Tiled(h2)
    <3>1. ASSUME NEW j \in 1 .. l PROVE End(c[j]) = c[j + 1].addr
      BY <1>3, <2>1, <2>3, <2>5, <2>8
    <3>2. End(c[l + 1]) = h.brk + m
      BY <2>2, <2>3, <2>5
    <3>3. \A j \in 1 .. l + 1 : OnGrid(c[j].addr)
      BY <1>3, <2>1, <2>3, <2>5, <2>7
    <3>4. Len(c) = l + 1 /\ Len(c) - 1 = l
      BY <1>1, <2>3, <2>5
    <3> QED BY <1>4, <2>5, <2>6, <3>1, <3>2, <3>3, <3>4 DEF Tiled
  <2>10. Merged(h2)
    <3> SUFFICES ASSUME NEW j \in 1 .. l, c[j].free, c[j + 1].free PROVE FALSE
      <4>1. Len(c) - 1 = l
        BY <1>1, <2>3, <2>5
      <4> QED BY <2>5, <4>1 DEF Merged
    <3> QED BY <1>3, <1>7, <2>3, <2>5, <2>8
  <2>11. Used(h2) = Used(h)
    <3>1. \A u : u \in Used(h2) <=> \E j \in 1 .. l + 1 : ~c[j].free /\ u = Room(c[j])
      BY <2>3, <2>5, InUsed
    <3>2. \A j \in 1 .. l : j \in 1 .. l + 1
      BY <1>1
    <3>3. \A u : u \in Used(h2) <=> u \in Used(h)
      BY <1>5, <2>1, <2>3, <2>5, <2>7, <3>1, <3>2
    <3> QED BY <3>3
  <2>12. c[Len(c)] = x
    BY <2>3, <2>5
  <2> QED BY <1>7, <2>1, <2>5, <2>6, <2>9, <2>10, <2>11, <2>12 DEF SameRoom, Sound, b, l, h2
<1> QED BY <1>6, <1>7

\* The first memory.
LEMMA EmptyHeap ==
    ASSUME NEW h, Sound(h), h.blocks = <<>>
    PROVE  /\ SameRoom(h, AlignedBreak(h)) /\ AlignedBreak(h).blocks = <<>>
           /\ SameRoom(h, init_heap(h)) /\ init_heap(h).blocks # <<>>
<1> DEFINE x == h.brk
           r == (0 - x) % Align
           a == AlignedBreak(h)
           h2 == init_heap(h)
<1>1. h \in Heap /\ x \in Nat
  BY Blocks DEF Sound
<1>2. r \in Nat /\ OnGrid(x + r) /\ x + r \in Nat
  <2>1. 0 - x \in Int
    BY <1>1
  <2>2. r \in 0 .. Align - 1 /\ ((0 - x) - r) % Align = 0 /\ (0 - x) - r \in Int
    BY <2>1, Multiple, Layout
  <2>3. r \in Nat
    BY <2>2, Layout
  <2>4. PICK k \in Int : (0 - x) - r = k * Align
    BY <2>2, Multiple
  <2> HIDE DEF r, x
  <2>5. x + r = (-k) * Align /\ -k \in Int
    <3>1. k * Align \in Int /\ (-k) * Align = -(k * Align)
      BY Layout
    <3> QED BY <2>3, <2>4, <3>1, <1>1
  <2>6. x + r \in Nat /\ x + r \in Int
    BY <1>1, <2>3
  <2> QED BY <2>3, <2>5, <2>6, Multiple DEF OnGrid
<1>3. a \in Heap /\ a.brk = x + r /\ a.blocks = <<>>
  <2>1. a = [h EXCEPT !.brk = x + r]
    BY DEF AlignedBreak
  <2> HIDE DEF a, r, x
  <2> QED BY <1>1, <1>2, <2>1 DEF Heap
<1> HIDE DEF x, r, a
<1>4. Used(h) = {} /\ Used(a) = {}
  BY <1>3 DEF Used
<1>5. Tiled(a) /\ Merged(a)
  BY <1>3 DEF Tiled, Merged
<1> DEFINE y == x + r
           b == [addr |-> y, size |-> Chunk - Header, free |-> TRUE]
<1>6. h2 = [brk |-> y + Chunk, blocks |-> <<b>>]
  BY <1>3 DEF init_heap, a
<1>7. y \in Nat /\ OnGrid(y) /\ y + Chunk \in Nat /\ OnGrid(y + Chunk)
  <2>1. y \in Nat /\ OnGrid(y) /\ y \in Int
    BY <1>2
  <2> HIDE DEF y
  <2> QED BY <2>1, Layout, Grid, Multiples
<1> HIDE DEF y, h2
<1>8. b \in Block /\ b.free /\ b.addr = y /\ b.size = Chunk - Header
  BY <1>7, Layout DEF Block
<1>9. End(b) = y + Chunk
  <2>1. End(b) = y + Header + (Chunk - Header)
    BY <1>8 DEF End
  <2> QED BY <2>1, <1>7, Layout
<1> HIDE DEF b
<1> DEFINE s == <<b>>
<1>10. s \in Seq(Block) /\ Len(s) = 1 /\ s[1] = b /\ DOMAIN s = 1 .. 1 /\ s # <<>>
  BY <1>8
<1>11. h2 = [brk |-> y + Chunk, blocks |-> s]
  BY <1>6
<1> HIDE DEF s
<1>12. h2 \in Heap /\ h2.blocks = s /\ h2.brk = y + Chunk
  BY <1>7, <1>10, <1>11 DEF Heap
<1>13. Tiled(h2) /\ Merged(h2)
  <2>0. 1 .. 1 - 1 = {}
    OBVIOUS
  <2>1. Len(h2.blocks) = 1 /\ 1 .. Len(h2.blocks) - 1 = {}
    BY <1>10, <1>12, <2>0
  <2>2. \A j \in DOMAIN h2.blocks : h2.blocks[j] = b
    BY <1>10, <1>12
  <2> QED BY <1>7, <1>8, <1>9, <1>10, <1>12, <2>1, <2>2 DEF Tiled, Merged
<1>14. Used(h2) = {}
  BY <1>8, <1>10, <1>12 DEF Used
<1> QED BY <1>3, <1>4, <1>5, <1>10, <1>12, <1>13, <1>14 DEF SameRoom, Sound, a, h2

\* What a call of malloc may come to.
Outcome(h, size, result) ==
    \/ result.ptr = NULL /\ SameRoom(h, result.heap)
    \/ result.ptr # NULL /\ GivenOut(h, result.heap, result.ptr, Aligned(size))

\* Giving out memory of a heap that only grew.
LEMMA GivenOutcome ==
    ASSUME NEW h, NEW h1, SameRoom(h, h1), NEW size \in Nat, Fitting(h1, Aligned(size)) # {}
    PROVE  Outcome(h, size, Given(h1, Aligned(size)))
<1> DEFINE n == Aligned(size)
           g == Given(h1, n)
<1>1. n \in Nat /\ OnGrid(n)
  BY AlignedSize
<1>2. GivenOut(h1, g.heap, g.ptr, n)
  BY <1>1, GivenFacts DEF SameRoom
<1>3. g.ptr # NULL
  <2> HIDE DEF g
  <2> QED BY <1>2, MallocAssumption DEF GivenOut
<1> HIDE DEF g, n
<1>4. GivenOut(h, g.heap, g.ptr, n)
  BY <1>2 DEF GivenOut, SameRoom
<1> QED BY <1>3, <1>4 DEF Outcome, g, n

\* Refusing, after the heap may have grown.
LEMMA RefusedOutcome ==
    ASSUME NEW h, NEW h1, SameRoom(h, h1), NEW size
    PROVE  Outcome(h, size, Refused(h1))
BY DEF Outcome, Refused

\* Up to two requests to sbrk before the block is found.
LEMMA RoundsFacts ==
    ASSUME NEW h, NEW h0, SameRoom(h, h0), h0.blocks # <<>>, NEW size \in Nat,
           NEW result \in Rounds(h0, Aligned(size))
    PROVE  Outcome(h, size, result)
<1> DEFINE n == Aligned(size)
           h1 == Extended(h0, n)
           h2 == Extended(h1, n)
<1>1. n \in Nat /\ OnGrid(n)
  BY AlignedSize
<1>2. Sound(h0)
  BY DEF SameRoom
<1> HIDE DEF n
<1>3. SameRoom(h0, h1) /\ h1.blocks # <<>> /\ h1.blocks[Len(h1.blocks)].free
  BY <1>1, <1>2, ExtendedFacts
<1> HIDE DEF h1
<1>4. /\ SameRoom(h1, h2) /\ h2.blocks # <<>> /\ h2.blocks[Len(h2.blocks)].free
      /\ h2.blocks[Len(h2.blocks)].size >= n
  BY <1>1, <1>3, ExtendedFacts DEF SameRoom
<1> HIDE DEF h2
<1>5. SameRoom(h, h1) /\ SameRoom(h, h2)
  BY <1>3, <1>4 DEF SameRoom
<1>6. Fitting(h2, n) # {}
  <2>1. Len(h2.blocks) \in DOMAIN h2.blocks
    <3>1. h2 \in Heap
      BY <1>4 DEF SameRoom, Sound
    <3> QED BY <3>1, <1>4, Blocks
  <2> QED BY <2>1, <1>4 DEF Fitting
<1>7. \/ result = Given(h0, n) /\ Fitting(h0, n) # {}
      \/ result = Refused(h0) \/ result = Refused(h1)
      \/ result = Given(h1, n) /\ Fitting(h1, n) # {}
      \/ result = Given(h2, n)
  BY DEF Rounds, n, h1, h2
<1> QED BY <1>5, <1>6, <1>7, GivenOutcome, RefusedOutcome DEF n

\* A call of malloc on a sound heap, with sbrk failing at any time: it refuses
\* and everything that was given out stays as it is, or it gives out memory of
\* at least the size asked for that nobody had (malloc.c:40-128).
THEOREM MallocFacts ==
    ASSUME NEW h, Sound(h), NEW size \in Nat, NEW result \in malloc(h, size)
    PROVE  Outcome(h, size, result)
<1>1. SameRoom(h, h)
  BY DEF SameRoom
<1>2. CASE h.blocks # <<>>
  BY <1>1, <1>2, RoundsFacts DEF malloc
<1>3. CASE h.blocks = <<>>
  <2>1. \/ result = Refused(h) \/ result = Refused(AlignedBreak(h))
        \/ result \in Rounds(init_heap(h), Aligned(size))
    BY <1>3 DEF malloc
  <2> QED BY <1>1, <1>3, <2>1, EmptyHeap, RefusedOutcome, RoundsFacts
<1> QED BY <1>2, <1>3

-----------------------------------------------------------------------------
(* The blocks of pointers, and owners.                                     *)

\* free finds the block of a pointer to its start or into it.
LEMMA BlockOfPointer ==
    ASSUME NEW h, Sound(h), NEW i \in 1 .. Len(h.blocks), NEW ptr \in Nat,
           \/ ptr = Pointer(h.blocks[i])
           \/ Pointer(h.blocks[i]) <= ptr /\ ptr < End(h.blocks[i])
    PROVE  BlockOf(h, ptr) = i
<1> DEFINE Around == {j \in DOMAIN h.blocks : ptr \in Pointer(h.blocks[j]) .. End(h.blocks[j]) - 1}
<1>1. /\ h \in Heap /\ Tiled(h) /\ DOMAIN h.blocks = 1 .. Len(h.blocks) /\ Len(h.blocks) \in Nat
      /\ \A j \in 1 .. Len(h.blocks) : h.blocks[j] \in Block
  BY Blocks DEF Sound
<1>2. ASSUME NEW j \in Around PROVE j = i
  <2> DEFINE x == h.blocks[i]
             y == h.blocks[j]
  <2>1. j \in 1 .. Len(h.blocks) /\ x \in Block /\ y \in Block
    BY <1>1, <1>2
  <2>2. Pointer(y) <= ptr /\ ptr < End(y)
    <3>1. ptr \in Pointer(y) .. End(y) - 1 /\ Pointer(y) \in Nat /\ End(y) \in Nat
      BY <1>2, <2>1, Places
    <3> HIDE DEF y
    <3> QED BY <3>1
  <2>3. j < i => End(y) <= x.addr
    BY <1>1, <2>1, Apart
  <2>4. i < j => End(x) <= y.addr
    BY <1>1, <2>1, Apart
  <2>5. ptr = Pointer(x) \/ (Pointer(x) <= ptr /\ ptr < End(x))
    OBVIOUS
  <2>6. /\ x.addr \in Nat /\ Pointer(x) \in Nat /\ End(x) \in Nat
        /\ x.addr < Pointer(x) /\ Pointer(x) <= End(x)
        /\ y.addr \in Nat /\ Pointer(y) \in Nat /\ End(y) \in Nat /\ y.addr < Pointer(y)
    BY <2>1, Places
  <2> HIDE DEF x, y
  <2>7. ~(j < i)
    BY <2>2, <2>3, <2>5, <2>6
  <2>8. ~(i < j)
    BY <2>2, <2>4, <2>5, <2>6
  <2> QED BY <1>1, <2>1, <2>7, <2>8
<1>3. CASE Around # {}
  <2>1. Around = {i}
    BY <1>2, <1>3
  <2>2. BlockOf(h, ptr) = CHOOSE k \in Around : \A j \in Around : k <= j
    BY <1>3 DEF BlockOf
  <2>3. i <= i
    BY <1>1
  <2> HIDE DEF Around
  <2> QED BY <2>1, <2>2, <2>3
<1>4. CASE Around = {}
  <2>1. ptr = Pointer(h.blocks[i])
    <3> DEFINE x == h.blocks[i]
    <3>1. Pointer(x) \in Nat /\ End(x) \in Nat
      BY <1>1, Places
    <3>2. ~(ptr \in Pointer(x) .. End(x) - 1)
      BY <1>1, <1>4
    <3>3. ptr = Pointer(x) \/ (Pointer(x) <= ptr /\ ptr < End(x))
      OBVIOUS
    <3> HIDE DEF x
    <3>4. ptr = Pointer(x)
      BY <3>1, <3>2, <3>3
    <3> QED BY <3>4 DEF x
  <2>2. BlockOf(h, ptr) = CHOOSE k \in DOMAIN h.blocks : Pointer(h.blocks[k]) = ptr
    BY <1>4 DEF BlockOf
  <2>3. \A k \in DOMAIN h.blocks : Pointer(h.blocks[k]) = ptr => k = i
    BY <1>1, <2>1, OnePointer
  <2> QED BY <1>1, <2>1, <2>2, <2>3
<1> QED BY <1>3, <1>4

\* The variables o own the memory U: every room is one variable's, and every
\* variable that is in use has one, as large as it needs.
Owns(o, U) ==
    /\ o \in [Vars -> [ptr : Nat \cup {NULL}, size : Nat]]
    /\ \A v \in Vars : o[v] = Unused \/ \E u \in U : u[1] = o[v].ptr /\ o[v].size <= u[2]
    /\ \A u \in U : \E v \in Vars : o[v].ptr = u[1]
    /\ \A v, w \in Vars : o[v].ptr = o[w].ptr /\ o[v] # Unused => v = w

Rooms(U) ==
    /\ \A u \in U : u[1] \in Nat \ {0} /\ u[2] \in Nat
    /\ \A u, w \in U : u[1] = w[1] => u = w

\* Memory that is given out begins at different addresses.
LEMMA UsedRooms ==
    ASSUME NEW h, Sound(h)
    PROVE  Rooms(Used(h))
<1>1. h \in Heap /\ Tiled(h)
  BY DEF Sound
<1>2. ASSUME NEW i \in 1 .. Len(h.blocks)
      PROVE  /\ Room(h.blocks[i])[1] \in Nat \ {0} /\ Room(h.blocks[i])[2] \in Nat
             /\ Room(h.blocks[i])[1] = Pointer(h.blocks[i])
  BY <1>1, Blocks, Places DEF Room
<1>3. \A u : u \in Used(h) <=> \E i \in 1 .. Len(h.blocks) : ~h.blocks[i].free /\ u = Room(h.blocks[i])
  BY <1>1, InUsed
<1>4. \A i, j \in 1 .. Len(h.blocks) : Pointer(h.blocks[i]) = Pointer(h.blocks[j]) => i = j
  BY <1>1, OnePointer
<1> QED BY <1>2, <1>3, <1>4 DEF Rooms

\* A variable gets what malloc gave out.
LEMMA GainOwner ==
    ASSUME NEW o, NEW U, Owns(o, U), Rooms(U), NEW v \in Vars, o[v] = Unused,
           NEW ptr \in Nat \ {0}, \A u \in U : u[1] # ptr,
           NEW room \in Nat, NEW size \in Nat, size <= room
    PROVE  Owns([o EXCEPT ![v] = [ptr |-> ptr, size |-> size]], U \cup {<<ptr, room>>})
<1> DEFINE o2 == [o EXCEPT ![v] = [ptr |-> ptr, size |-> size]]
           x == <<ptr, room>>
           U2 == U \cup {x}
<1>1. /\ o \in [Vars -> [ptr : Nat \cup {NULL}, size : Nat]]
      /\ \A w \in Vars : o[w] = Unused \/ \E u \in U : u[1] = o[w].ptr /\ o[w].size <= u[2]
      /\ \A u \in U : \E w \in Vars : o[w].ptr = u[1]
      /\ \A w, z \in Vars : o[w].ptr = o[z].ptr /\ o[w] # Unused => w = z
  BY DEF Owns
<1>2. /\ o2 \in [Vars -> [ptr : Nat \cup {NULL}, size : Nat]]
      /\ o2[v] = [ptr |-> ptr, size |-> size] /\ o2[v].ptr = ptr /\ o2[v].size = size
      /\ \A w \in Vars : w # v => o2[w] = o[w]
  BY <1>1
<1>3. x[1] = ptr /\ x[2] = room
  OBVIOUS
<1>4. ptr # NULL /\ o[v].ptr = NULL /\ Unused.ptr = NULL
  BY MallocAssumption DEF Unused
<1>5. \A w \in Vars : o[w].ptr # ptr
  BY <1>1, <1>4
<1> HIDE DEF o2, x
<1>6. \A w \in Vars : o2[w] = Unused \/ \E u \in U2 : u[1] = o2[w].ptr /\ o2[w].size <= u[2]
  BY <1>1, <1>2, <1>3
<1>7. \A u \in U2 : \E w \in Vars : o2[w].ptr = u[1]
  <2> SUFFICES ASSUME NEW u \in U PROVE \E w \in Vars : o2[w].ptr = u[1]
    BY <1>2, <1>3
  <2>1. PICK w \in Vars : o[w].ptr = u[1]
    BY <1>1
  <2>2. w # v
    BY <1>4, <2>1, MallocAssumption DEF Rooms
  <2> QED BY <1>2, <2>1, <2>2
<1>8. \A w, z \in Vars : o2[w].ptr = o2[z].ptr /\ o2[w] # Unused => w = z
  BY <1>1, <1>2, <1>5
<1> QED BY <1>2, <1>6, <1>7, <1>8 DEF Owns, o2, x

\* A variable gives its memory back.
LEMMA LoseOwner ==
    ASSUME NEW o, NEW U, Owns(o, U), Rooms(U), NEW v \in Vars, NEW u \in U, o[v].ptr = u[1]
    PROVE  Owns([o EXCEPT ![v] = Unused], U \ {u})
<1> DEFINE o2 == [o EXCEPT ![v] = Unused]
           U2 == U \ {u}
<1>1. /\ o \in [Vars -> [ptr : Nat \cup {NULL}, size : Nat]]
      /\ \A w \in Vars : o[w] = Unused \/ \E q \in U : q[1] = o[w].ptr /\ o[w].size <= q[2]
      /\ \A q \in U : \E w \in Vars : o[w].ptr = q[1]
      /\ \A w, z \in Vars : o[w].ptr = o[z].ptr /\ o[w] # Unused => w = z
      /\ \A q \in U : q[1] = u[1] => q = u
      /\ \A q \in U : q[1] # NULL
  BY MallocAssumption DEF Owns, Rooms
<1>2. /\ o2 \in [Vars -> [ptr : Nat \cup {NULL}, size : Nat]]
      /\ o2[v] = Unused /\ Unused.ptr = NULL
      /\ \A w \in Vars : w # v => o2[w] = o[w]
  BY <1>1 DEF Unused
<1>3. o[v] # Unused
  BY <1>1, <1>2
<1> HIDE DEF o2
<1>4. \A w \in Vars : o2[w] = Unused \/ \E q \in U2 : q[1] = o2[w].ptr /\ o2[w].size <= q[2]
  <2> SUFFICES ASSUME NEW w \in Vars, w # v, o[w] # Unused
               PROVE  \E q \in U2 : q[1] = o[w].ptr /\ o[w].size <= q[2]
    BY <1>2
  <2>1. PICK q \in U : q[1] = o[w].ptr /\ o[w].size <= q[2]
    BY <1>1
  <2>2. q # u
    BY <1>1, <2>1
  <2> QED BY <2>1, <2>2
<1>5. \A q \in U2 : \E w \in Vars : o2[w].ptr = q[1]
  <2> SUFFICES ASSUME NEW q \in U, q # u PROVE \E w \in Vars : o2[w].ptr = q[1]
    OBVIOUS
  <2>1. PICK w \in Vars : o[w].ptr = q[1]
    BY <1>1
  <2>2. w # v
    BY <1>1, <2>1
  <2> QED BY <1>2, <2>1, <2>2
<1>6. \A w, z \in Vars : o2[w].ptr = o2[z].ptr /\ o2[w] # Unused => w = z
  <2> SUFFICES ASSUME NEW w \in Vars, NEW z \in Vars, w # v, o[w] # Unused, o[w].ptr = o2[z].ptr
               PROVE  w = z
    BY <1>2
  <2>1. o[w].ptr # NULL
    BY <1>1
  <2>2. z # v
    BY <1>2, <2>1
  <2> QED BY <1>1, <1>2, <2>2
<1> QED BY <1>2, <1>4, <1>5, <1>6 DEF Owns, o2

\* The block of a variable in use, and how free and realloc come to it.
LEMMA OwnedBlock ==
    ASSUME NEW h, Sound(h), NEW o, Owns(o, Used(h)), NEW v \in Vars, o[v] # Unused,
           NEW inside \in Nat, inside = 0 \/ inside < o[v].size
    PROVE  LET i == BlockOf(h, o[v].ptr + inside)
           IN  /\ i \in 1 .. Len(h.blocks) /\ ~h.blocks[i].free
               /\ Pointer(h.blocks[i]) = o[v].ptr
               /\ Room(h.blocks[i]) \in Used(h)
<1> DEFINE ptr == o[v].ptr
           size == o[v].size
<1>1. h \in Heap /\ \A j \in 1 .. Len(h.blocks) : h.blocks[j] \in Block
  BY Blocks DEF Sound
<1>2. PICK u \in Used(h) : u[1] = ptr /\ size <= u[2]
  BY DEF Owns
<1>3. PICK i \in 1 .. Len(h.blocks) : ~h.blocks[i].free /\ u = Room(h.blocks[i])
  BY <1>1, InUsed
<1> DEFINE b == h.blocks[i]
<1>4. /\ Pointer(b) = ptr /\ size <= b.size /\ Room(b) \in Used(h)
      /\ size \in Nat /\ b.size \in Nat /\ Pointer(b) \in Nat /\ End(b) = Pointer(b) + b.size
      /\ inside = 0 \/ inside < size
  <2>1. Room(b)[1] = Pointer(b) /\ Room(b)[2] = b.size
    BY DEF Room
  <2>2. size \in Nat
    BY DEF Owns
  <2>3. b \in Block
    BY <1>1
  <2> QED BY <1>2, <1>3, <2>1, <2>2, <2>3, Places
<1> HIDE DEF ptr, size, b
<1>5. ptr + inside \in Nat
  BY <1>4
<1>6. ptr + inside = Pointer(b) \/ (Pointer(b) <= ptr + inside /\ ptr + inside < End(b))
  BY <1>4
<1>7. BlockOf(h, ptr + inside) = i
  BY <1>5, <1>6, BlockOfPointer DEF b
<1> QED BY <1>3, <1>4, <1>7 DEF ptr, b

-----------------------------------------------------------------------------
(* The invariant.                                                          *)

HeapInv == Sound(heap) /\ Owns(owned, Used(heap))

\* What a variable that was not in use gets from malloc.
LEMMA Kept ==
    ASSUME NEW h, Sound(h), NEW o, Owns(o, Used(h)), NEW v \in Vars, o[v] = Unused,
           NEW size \in Nat, size <= Word - Align,
           NEW result, Outcome(h, size, result)
    PROVE  /\ Sound(result.heap)
           /\ Owns([o EXCEPT ![v] = IF result.ptr = NULL THEN @
                                    ELSE [ptr |-> result.ptr, size |-> size]],
                   Used(result.heap))
<1>1. CASE result.ptr = NULL /\ SameRoom(h, result.heap)
  <2>1. [o EXCEPT ![v] = o[v]] = o
    BY DEF Owns
  <2> QED BY <1>1, <2>1 DEF SameRoom
<1>2. CASE result.ptr # NULL /\ GivenOut(h, result.heap, result.ptr, Aligned(size))
  <2>1. PICK room \in Nat : /\ room >= Aligned(size)
                            /\ Used(result.heap) = Used(h) \cup {<<result.ptr, room>>}
    BY <1>2 DEF GivenOut
  <2>2. size <= room
    BY <2>1, AlignedSize
  <2>3. /\ Sound(result.heap) /\ result.ptr \in Nat \ {0}
        /\ \A u \in Used(h) : u[1] # result.ptr
    BY <1>2 DEF GivenOut
  <2>4. Owns([o EXCEPT ![v] = [ptr |-> result.ptr, size |-> size]], Used(result.heap))
    BY <2>1, <2>2, <2>3, GainOwner, UsedRooms
  <2> QED BY <1>2, <2>3, <2>4
<1> QED BY <1>1, <1>2 DEF Outcome

\* No size of a malloc or calloc of the client overflows when it is rounded.
LEMMA Requests ==
    ASSUME NEW size \in Sizes
    PROVE  /\ size \in Nat /\ size <= Word - Align
           /\ \A nmemb \in Counts : nmemb <= (Word - 1) \div size /\ size > 0 =>
                nmemb * size \in Nat /\ nmemb * size <= Word - Align
<1>1. size \in Nat /\ size <= Word - Align /\ Word \in Nat \ {0} /\ Align \in Nat
  BY MallocAssumption
<1>2. ASSUME NEW nmemb \in Counts, nmemb <= (Word - 1) \div size, size > 0
      PROVE  nmemb * size \in Nat /\ nmemb * size <= Word - Align
  <2> DEFINE q == (Word - 1) \div size
             r == (Word - 1) % size
  <2>1. nmemb \in Nat
    BY MallocAssumption
  <2>2. q \in Nat /\ r \in Nat /\ Word - 1 = q * size + r
    BY <1>1, <1>2
  <2>3. nmemb <= q
    BY <1>2
  <2> HIDE DEF q, r
  <2>4. nmemb * size \in Nat /\ q * size \in Nat
    BY <1>1, <2>1, <2>2
  <2>5. nmemb * size <= q * size
    <3>1. q - nmemb \in Nat /\ (q - nmemb) * size >= 0
      BY <1>1, <2>1, <2>2, <2>3
    <3>2. (q - nmemb) * size = q * size - nmemb * size
      BY <1>1, <2>1, <2>2
    <3> QED BY <2>4, <3>1, <3>2
  <2>6. nmemb * size < Word
    BY <1>1, <2>2, <2>4, <2>5
  <2> QED BY <2>4, <2>6, MallocAssumption
<1> QED BY <1>1, <1>2

\* There is no heap at first and nobody owns anything.
LEMMA InitHeap == Init => HeapInv
<1> SUFFICES ASSUME Init PROVE HeapInv
  OBVIOUS
<1>1. PICK brk \in 0 .. Align - 1 : heap = [brk |-> brk, blocks |-> <<>>]
  BY DEF Init
<1>2. brk \in Nat
  BY Layout
<1>3. heap \in Heap /\ heap.blocks = <<>>
  BY <1>1, <1>2 DEF Heap
<1>4. Len(heap.blocks) = 0 /\ DOMAIN heap.blocks = {} /\ 1 .. 0 - 1 = {}
  BY <1>3
<1>5. Sound(heap) /\ Used(heap) = {}
  BY <1>3, <1>4 DEF Sound, Tiled, Merged, Used
<1>6. owned = [v \in Vars |-> Unused] /\ Unused.ptr = NULL
  BY DEF Init, Unused
<1>7. Owns(owned, {})
  BY <1>6 DEF Owns, Unused
<1> QED BY <1>5, <1>7 DEF HeapInv

\* malloc keeps the invariant.
LEMMA MallocStep ==
    ASSUME HeapInv, NEW v \in Vars, NEW size \in Sizes, Malloc(v, size)
    PROVE  HeapInv'
<1>1. owned[v] = Unused
  BY DEF Malloc
<1>2. PICK result \in malloc(heap, size) : Keep(v, result, size)
  BY DEF Malloc
<1>3. size \in Nat /\ size <= Word - Align
  BY Requests
<1>4. Outcome(heap, size, result)
  BY <1>2, <1>3, MallocFacts DEF HeapInv
<1> QED BY <1>1, <1>2, <1>3, <1>4, Kept DEF HeapInv, Keep

\* So does calloc.
LEMMA CallocStep ==
    ASSUME HeapInv, NEW v \in Vars, NEW size \in Sizes, NEW nmemb \in Counts,
           Calloc(v, nmemb, size)
    PROVE  HeapInv'
<1>1. owned[v] = Unused
  BY DEF Calloc
<1>2. PICK result \in malloc(heap, nmemb * size) : Keep(v, result, nmemb * size)
  BY DEF Calloc
<1>3. nmemb * size \in Nat /\ nmemb * size <= Word - Align
  BY Requests DEF Calloc
<1> DEFINE bytes == nmemb * size
<1> HIDE DEF bytes
<1>4. bytes \in Nat /\ bytes <= Word - Align /\ result \in malloc(heap, bytes) /\ Keep(v, result, bytes)
  BY <1>2, <1>3 DEF bytes
<1>5. Outcome(heap, bytes, result)
  BY <1>4, MallocFacts DEF HeapInv
<1> QED BY <1>1, <1>4, <1>5, Kept DEF HeapInv, Keep

\* So does free, with any pointer into the block.
LEMMA FreeStep ==
    ASSUME HeapInv, NEW v \in Vars, NEW inside \in Sizes, Free(v, inside)
    PROVE  HeapInv'
<1> DEFINE i == BlockOf(heap, owned[v].ptr + inside)
           u == Room(heap.blocks[i])
<1>1. /\ i \in 1 .. Len(heap.blocks) /\ ~heap.blocks[i].free
      /\ Pointer(heap.blocks[i]) = owned[v].ptr
      /\ u \in Used(heap)
  BY Requests, OwnedBlock DEF Free, HeapInv
<1>2. heap' = Freed(heap, i) /\ owned' = [owned EXCEPT ![v] = Unused]
  BY DEF Free
<1>3. u[1] = Pointer(heap.blocks[i])
  BY DEF Room
<1> HIDE DEF i
<1>4. Sound(Freed(heap, i)) /\ Used(Freed(heap, i)) = Used(heap) \ {u}
  BY <1>1, FreedFacts DEF HeapInv
<1> HIDE DEF u
<1>5. Owns([owned EXCEPT ![v] = Unused], Used(heap) \ {u})
  BY <1>1, <1>3, LoseOwner, UsedRooms DEF HeapInv
<1> QED BY <1>2, <1>4, <1>5 DEF HeapInv

\* A variable in use gets other memory, in which its block has become part of
\* U, the rest of what is given out.
LEMMA Moved ==
    ASSUME NEW o, NEW U, Owns(o, U), Rooms(U), NEW v \in Vars, NEW u \in U, o[v].ptr = u[1],
           NEW ptr \in Nat \ {0}, \A w \in U \ {u} : w[1] # ptr,
           NEW room \in Nat, NEW size \in Nat, size <= room
    PROVE  Owns([o EXCEPT ![v] = [ptr |-> ptr, size |-> size]], (U \ {u}) \cup {<<ptr, room>>})
<1> DEFINE o1 == [o EXCEPT ![v] = Unused]
           U1 == U \ {u}
           x == [ptr |-> ptr, size |-> size]
<1>1. Owns(o1, U1)
  BY LoseOwner
<1>2. Rooms(U1)
  BY DEF Rooms
<1>3. o1[v] = Unused
  BY DEF Owns
<1>4. [o1 EXCEPT ![v] = x] = [o EXCEPT ![v] = x]
  <2>1. o \in [Vars -> [ptr : Nat \cup {NULL}, size : Nat]]
    BY DEF Owns
  <2> HIDE DEF x
  <2> QED BY <2>1
<1> HIDE DEF o1, U1
<1>5. Owns([o1 EXCEPT ![v] = x], U1 \cup {<<ptr, room>>})
  <2>1. \A w \in U1 : w[1] # ptr
    BY DEF U1
  <2> QED BY <1>1, <1>2, <1>3, <2>1, GainOwner
<1> QED BY <1>4, <1>5 DEF U1

\* So does realloc, which first looks at the block and its neighbours.
LEMMA ReallocStep ==
    ASSUME ~MayExpandBack, HeapInv, NEW v \in Vars, NEW size \in Sizes, Realloc(v, size)
    PROVE  HeapInv'
<1> DEFINE i == BlockOf(heap, owned[v].ptr)
           b == heap.blocks[i]
           u == Room(b)
           U == Used(heap)
<1>1. /\ Sound(heap) /\ Owns(owned, U) /\ Rooms(U) /\ owned[v] # Unused
      /\ size \in Nat /\ size <= Word - Align
  BY Requests, UsedRooms DEF HeapInv, Realloc
<1>2. i \in 1 .. Len(heap.blocks) /\ ~b.free /\ Pointer(b) = owned[v].ptr /\ u \in U
  <2>1. owned[v].ptr + 0 = owned[v].ptr
    BY <1>1, MallocAssumption DEF Owns, Rooms
  <2> QED BY <1>1, <2>1, OwnedBlock
<1>3. u[1] = Pointer(b) /\ u[2] = b.size /\ u = <<Pointer(b), b.size>>
  BY DEF Room
<1>4. heap \in Heap /\ b \in Block /\ Pointer(b) \in Nat \ {0} /\ b.size \in Nat
  BY <1>1, <1>2, Blocks, Places DEF Sound
<1>5. \A w \in U \ {u} : w[1] # Pointer(b)
  BY <1>2, <1>3, <1>1 DEF Rooms
<1>6. \/ ReallocStays(v, i, size) \/ ReallocForward(v, i, size)
      \/ ReallocBack(v, i, size) \/ ReallocMoves(v, i, size)
  BY DEF Realloc
<1> HIDE DEF i
<1>7. CASE ReallocStays(v, i, size)
  <2>1. /\ heap' = heap /\ b.size >= size
        /\ owned' = [owned EXCEPT ![v] = [ptr |-> Pointer(b), size |-> size]]
    BY <1>7 DEF ReallocStays, Now, Enough
  <2>2. Owns(owned', (U \ {u}) \cup {<<Pointer(b), b.size>>})
    <3> HIDE DEF b, u, U
    <3> QED BY <1>1, <1>2, <1>3, <1>4, <1>5, <2>1, Moved
  <2>3. (U \ {u}) \cup {<<Pointer(b), b.size>>} = U
    BY <1>2, <1>3
  <2> QED BY <1>1, <2>1, <2>2, <2>3 DEF HeapInv
<1>8. CASE ReallocForward(v, i, size)
  <2> DEFINE n == heap.blocks[i + 1]
             g == Grown(b, n)
  <2>1. /\ heap' = Joined(heap, i) /\ NextIsFree(heap, i)
        /\ b.size + n.size + Header >= size
        /\ owned' = [owned EXCEPT ![v] = [ptr |-> Pointer(b), size |-> size]]
    BY <1>8 DEF ReallocForward, FitsForward, Now
  <2>2. i \in 1 .. Len(heap.blocks) - 1 /\ n.free /\ n \in Block
    <3>1. Len(heap.blocks) \in Nat /\ i < Len(heap.blocks) /\ n.free
      BY <1>4, <2>1, Blocks DEF NextIsFree
    <3>2. i \in 1 .. Len(heap.blocks) - 1 /\ i + 1 \in 1 .. Len(heap.blocks)
      BY <1>2, <3>1
    <3> QED BY <1>4, <3>1, <3>2, Blocks
  <2>3. g \in Block /\ Pointer(g) = Pointer(b) /\ g.size = b.size + n.size + Header /\ g.size \in Nat
    BY <1>4, <2>2, JoinedBlock, Places
  <2>4. Joined(heap, i) \in Heap /\ Tiled(Joined(heap, i))
    BY <1>1, <2>2, JoinedFacts, JoinedTiled DEF Sound
  <2>5. Merged(Joined(heap, i))
    <3>1. \A j \in 1 .. Len(heap.blocks) - 1 :
              ~(heap.blocks[j].free /\ heap.blocks[j + 1].free)
      BY <1>1 DEF Sound, Merged
    <3>2. Len(Joined(heap, i).blocks) - 1 = Len(heap.blocks) - 2
      <4>1. Len(heap.blocks) \in Nat /\ Len(Joined(heap, i).blocks) = Len(heap.blocks) - 1
        BY <1>4, <2>2, Blocks, JoinedFacts
      <4> QED BY <4>1
    <3> QED BY <1>2, <1>4, <2>2, <3>1, <3>2, JoinedMerged DEF Merged
  <2>6. Used(Joined(heap, i)) = (U \ {u}) \cup {<<Pointer(b), g.size>>}
    <3> DEFINE others == {Room(heap.blocks[j]) : j \in {k \in 1 .. Len(heap.blocks) :
                                                          k # i /\ ~heap.blocks[k].free}}
    <3>1. Used(Joined(heap, i)) = others \cup {Room(g)}
      BY <1>2, <1>4, <2>2, JoinedUsed
    <3>2. Room(g) = <<Pointer(b), g.size>>
      BY <2>3 DEF Room
    <3>3. others = U \ {u}
      <4>1. \A w : w \in U <=> \E j \in 1 .. Len(heap.blocks) :
                                   ~heap.blocks[j].free /\ w = Room(heap.blocks[j])
        BY <1>4, InUsed
      <4>2. \A j \in 1 .. Len(heap.blocks) : Room(heap.blocks[j]) = u => j = i
        BY <1>1, <1>2, OnePointer DEF Sound, Room
      <4> HIDE DEF U
      <4> QED BY <1>2, <4>1, <4>2
    <3> HIDE DEF others
    <3> QED BY <3>1, <3>2, <3>3
  <2>7. size <= g.size
    BY <1>1, <2>1, <2>3
  <2>8. Owns(owned', (U \ {u}) \cup {<<Pointer(b), g.size>>})
    <3> HIDE DEF b, u, U, g
    <3> QED BY <1>1, <1>2, <1>3, <1>4, <1>5, <2>1, <2>3, <2>7, Moved
  <2> QED BY <2>1, <2>4, <2>5, <2>6, <2>8 DEF HeapInv, Sound
<1>9. CASE ReallocBack(v, i, size)
  BY <1>9 DEF ReallocBack
<1>10. CASE ReallocMoves(v, i, size)
  <2>1. PICK result \in malloc(heap, size) :
            Keep(v, IF result.ptr = NULL THEN result
                    ELSE [heap |-> Freed(result.heap, BlockOf(result.heap, owned[v].ptr)),
                          ptr  |-> result.ptr], size)
    BY <1>10 DEF ReallocMoves
  <2>2. Outcome(heap, size, result)
    BY <1>1, <2>1, MallocFacts
  <2>3. CASE result.ptr = NULL
    <3>1. heap' = result.heap /\ owned' = owned
      <4>1. [owned EXCEPT ![v] = owned[v]] = owned
        BY <1>1 DEF Owns
      <4> QED BY <2>1, <2>3, <4>1 DEF Keep
    <3>2. SameRoom(heap, result.heap)
      BY <2>2, <2>3 DEF Outcome
    <3> QED BY <1>1, <3>1, <3>2 DEF HeapInv, SameRoom
  <2>4. CASE result.ptr # NULL
    <3> DEFINE h == result.heap
               ptr == result.ptr
               k == BlockOf(h, owned[v].ptr)
    <3>1. heap' = Freed(h, k) /\ owned' = [owned EXCEPT ![v] = [ptr |-> ptr, size |-> size]]
      BY <2>1, <2>4 DEF Keep
    <3>2. GivenOut(heap, h, ptr, Aligned(size))
      BY <2>2, <2>4 DEF Outcome
    <3>3. PICK room \in Nat : room >= Aligned(size) /\ Used(h) = U \cup {<<ptr, room>>}
      BY <3>2 DEF GivenOut
    <3>4. size <= room
      BY <1>1, <3>3, AlignedSize
    <3>5. Sound(h) /\ ptr \in Nat \ {0} /\ \A w \in U : w[1] # ptr
      BY <3>2 DEF GivenOut
    <3>6. k \in 1 .. Len(h.blocks) /\ ~h.blocks[k].free /\ Room(h.blocks[k]) = u
      <4>1. u \in Used(h) /\ h \in Heap
        BY <1>2, <3>3, <3>5 DEF Sound
      <4>2. PICK j \in 1 .. Len(h.blocks) : ~h.blocks[j].free /\ u = Room(h.blocks[j])
        BY <4>1, InUsed
      <4>3. Pointer(h.blocks[j]) = owned[v].ptr
        BY <1>2, <1>3, <4>2 DEF Room
      <4>4. owned[v].ptr \in Nat
        BY <1>2, <1>4
      <4>5. k = j
        <5> HIDE DEF h
        <5> QED BY <3>5, <4>3, <4>4, BlockOfPointer DEF k
      <4> HIDE DEF k, u
      <4> QED BY <4>2, <4>5
    <3> HIDE DEF h, ptr, k, U, u, b
    <3>7. Sound(Freed(h, k)) /\ Used(Freed(h, k)) = (U \cup {<<ptr, room>>}) \ {u}
      BY <3>3, <3>5, <3>6, FreedFacts
    <3>8. <<ptr, room>> # u
      <4>1. <<ptr, room>>[1] = ptr
        OBVIOUS
      <4> QED BY <1>2, <3>5, <4>1
    <3>9. (U \cup {<<ptr, room>>}) \ {u} = (U \ {u}) \cup {<<ptr, room>>}
      BY <3>8
    <3>10. Owns(owned', (U \ {u}) \cup {<<ptr, room>>})
      BY <1>1, <1>2, <1>3, <3>1, <3>4, <3>5, Moved
    <3> QED BY <3>1, <3>7, <3>9, <3>10 DEF HeapInv
  <2> QED BY <2>3, <2>4
<1> QED BY <1>6, <1>7, <1>8, <1>9, <1>10

\* Every call keeps the heap sound and its memory owned.
LEMMA HeapStep ==
    ASSUME ~MayExpandBack, HeapInv, [Next]_vars
    PROVE  HeapInv'
<1>1. CASE UNCHANGED vars
  BY <1>1 DEF HeapInv, vars
<1>2. CASE Next
  <2>1. PICK v \in Vars, size \in Sizes :
            \/ Malloc(v, size) \/ Realloc(v, size) \/ Free(v, size)
            \/ \E nmemb \in Counts : Calloc(v, nmemb, size)
    BY <1>2 DEF Next
  <2> QED BY <2>1, MallocStep, CallocStep, FreeStep, ReallocStep
<1> QED BY <1>1, <1>2

\* The heap stays sound under every sequence of calls.
THEOREM HeapInvariant ==
    ASSUME ~MayExpandBack
    PROVE  Spec => []HeapInv
BY InitHeap, HeapStep, PTL DEF Spec

\* The blocks tile the heap up to the break.
THEOREM BlocksTile ==
    ASSUME ~MayExpandBack
    PROVE  Spec => []Tiles
<1>1. HeapInv => Tiles
  BY DEF HeapInv, Sound, Tiled, Tiles, OnGrid
<1> QED BY <1>1, HeapInvariant, PTL

\* No two free blocks are neighbours.
THEOREM FreeIsMerged ==
    ASSUME ~MayExpandBack
    PROVE  Spec => []Coalesced
<1>1. HeapInv => Coalesced
  BY DEF HeapInv, Sound, Merged, Coalesced
<1> QED BY <1>1, HeapInvariant, PTL

\* Every allocated block is exactly one variable's and is as large as it asked
\* for, and what a variable points to is such a block.
THEOREM MemoryIsOwned ==
    ASSUME ~MayExpandBack
    PROVE  Spec => []OneOwner
<1>1. ASSUME HeapInv PROVE OneOwner
  <2>1. Sound(heap) /\ heap \in Heap /\ Rooms(Used(heap)) /\ Owns(owned, Used(heap))
    BY <1>1, UsedRooms DEF HeapInv, Sound
  <2>2. \A u : u \in Used(heap) <=> \E i \in DOMAIN heap.blocks :
                                        ~heap.blocks[i].free /\ u = Room(heap.blocks[i])
    BY <2>1, InUsed, Blocks
  <2>3. \A i, j \in DOMAIN heap.blocks :
            Pointer(heap.blocks[i]) = Pointer(heap.blocks[j]) => i = j
    BY <2>1, OnePointer, Blocks DEF Sound
  <2>4. \A i \in DOMAIN heap.blocks :
            /\ Room(heap.blocks[i])[1] = Pointer(heap.blocks[i])
            /\ Room(heap.blocks[i])[2] = heap.blocks[i].size
            /\ Pointer(heap.blocks[i]) \in Nat \ {0}
    BY <2>1, Blocks, Places DEF Room
  <2>5. \A v \in Vars : owned[v] # Unused => owned[v].ptr # NULL
    BY <2>1, MallocAssumption DEF Owns, Rooms
  <2>6. \A v \in Vars : owned[v] # Unused =>
            \E i \in DOMAIN heap.blocks : /\ ~heap.blocks[i].free
                                          /\ owned[v].ptr = Pointer(heap.blocks[i])
                                          /\ owned[v].size <= heap.blocks[i].size
    BY <2>1, <2>2, <2>4 DEF Owns
  <2>7. \A v \in Vars, i \in DOMAIN heap.blocks :
            owned[v].ptr = Pointer(heap.blocks[i]) => owned[v] # Unused
    BY <2>4, MallocAssumption DEF Unused
  <2>8. ASSUME NEW i \in DOMAIN heap.blocks, heap.blocks[i].free
        PROVE  Owners(heap.blocks[i]) = {}
    BY <2>3, <2>6, <2>7, <2>8 DEF Owners
  <2>9. ASSUME NEW i \in DOMAIN heap.blocks, ~heap.blocks[i].free
        PROVE  \E v \in Vars : Owners(heap.blocks[i]) = {v} /\ owned[v].size <= heap.blocks[i].size
    <3>1. PICK v \in Vars : owned[v].ptr = Pointer(heap.blocks[i])
      BY <2>1, <2>2, <2>4, <2>9 DEF Owns
    <3>2. owned[v] # Unused
      BY <2>7, <3>1
    <3>3. \A w \in Vars : owned[w].ptr = Pointer(heap.blocks[i]) => w = v
      BY <2>1, <3>1, <3>2 DEF Owns
    <3>4. owned[v].size <= heap.blocks[i].size
      BY <2>3, <2>6, <3>1, <3>2
    <3> QED BY <3>1, <3>3, <3>4 DEF Owners
  <2>10. \A v \in Vars : owned[v] # Unused =>
            \E i \in DOMAIN heap.blocks : owned[v].ptr = Pointer(heap.blocks[i])
    BY <2>6
  <2> QED BY <2>8, <2>9, <2>10 DEF OneOwner
<1> QED BY <1>1, HeapInvariant, PTL
=============================================================================
