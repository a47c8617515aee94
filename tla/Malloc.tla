------------------------------- MODULE Malloc -------------------------------
(***************************************************************************)
(* The allocator of src/asn1/malloc.c and one sequential client of it.     *)
(*                                                                         *)
(* The doubly linked list of blocks is the sequence heap.blocks: every     *)
(* place that changes next also changes the prev that answers it, so the   *)
(* neighbours in the sequence are the blocks' next and prev.  Addresses    *)
(* are kept, because merging two blocks silently assumes that the second   *)
(* begins where the first ends.                                            *)
(*                                                                         *)
(* Nobody else moves the break here, so align_heap (130-182) never finds   *)
(* it unaligned: that is part of Tiles.  Data is left out; what a client   *)
(* may write to is what it owns.                                           *)
(***************************************************************************)
EXTENDS Integers, SequencesExt

CONSTANTS
    Align,          \* ALIGNMENT
    Header,         \* BLOCK_SIZE
    Chunk,          \* STD_CHUNK_SIZE
    Word,           \* number of values of a size_t
    Limit,          \* bound: sbrk fails beyond this address
    Sizes,          \* sizes the client asks for
    Counts,         \* nmemb of its callocs
    Vars,           \* the client's pointer variables
    NULL,
    MayExpandBack   \* FALSE: no realloc comes to expand a block backwards

ASSUME MallocAssumption ==
    /\ {Align, Header, Chunk} \subseteq Nat \ {0}
    /\ Header % Align = 0 /\ Chunk % Align = 0 /\ Chunk > Header
    /\ Limit \in Nat /\ Word \in Nat \ {0}
    /\ NULL \notin Nat \ {0}
    /\ Sizes \subseteq 0 .. Word - Align
    /\ Counts \subseteq Nat
    /\ \A nmemb \in Counts, size \in Sizes :
          nmemb * size < Word => nmemb * size <= Word - Align
    /\ MayExpandBack \in BOOLEAN

VARIABLES
    heap,           \* [blocks, brk]: the list from head on, and the break
    owned,          \* what each variable points to and how much it may use
    process         \* "running", or "crashed" after a NULL was followed

vars == <<heap, owned, process>>

\* A block has an address, a size and a free mark.
End(b) == b.addr + Header + b.size
Pointer(b) == b.addr + Header

\* (size + 15) & ~15 in a size_t.
Aligned(size) == LET s == (size + Align - 1) % Word IN s - (s % Align)

-----------------------------------------------------------------------------
(* Asking sbrk for memory.                                                 *)

\* Whether sbrk, asked for n bytes, may deliver.
Available(h, n) == h.brk + n <= Limit

AlignedBreak(h) == [h EXCEPT !.brk = @ + ((0 - @) % Align)]

\* init_heap: the break is aligned first, then one free block.
init_heap(h) ==
    LET a == AlignedBreak(h)
    IN  [brk |-> a.brk + Chunk,
         blocks |-> <<[addr |-> a.brk, size |-> Chunk - Header, free |-> TRUE]>>]

Larger(a, b) == IF a > b THEN a ELSE b

\* request_mem of at least a chunk; a free last block takes it in.
Extended(h, n) ==
    LET new_size == Larger(Chunk, n)
        last == Len(h.blocks)
    IN  [brk |-> h.brk + new_size,
         blocks |->
            IF h.blocks[last].free
            THEN [h.blocks EXCEPT ![last].size = @ + new_size]
            ELSE Append(h.blocks,
                        [addr |-> h.brk, size |-> new_size - Header, free |-> TRUE])]

-----------------------------------------------------------------------------
(* malloc.                                                                 *)

Fitting(h, n) == {i \in DOMAIN h.blocks : h.blocks[i].free /\ h.blocks[i].size >= n}
FirstFit(h, n) == CHOOSE i \in Fitting(h, n) : \A j \in Fitting(h, n) : i <= j

\* Mutant: the remainder is as large as if it needed no header.
PlacedWide(h, i, n) ==
    LET b == h.blocks[i]
        used == [b EXCEPT !.free = FALSE]
        rest == [addr |-> b.addr + Header + n, size |-> b.size - n, free |-> TRUE]
    IN  IF b.size >= n + Header + Align
        THEN [h EXCEPT !.blocks =
                InsertAt([h.blocks EXCEPT ![i] = [used EXCEPT !.size = n]], i + 1, rest)]
        ELSE [h EXCEPT !.blocks[i] = used]

\* Block i is taken for n bytes; what is left of it becomes a free block.
Placed(h, i, n) ==
    LET b == h.blocks[i]
        used == [b EXCEPT !.free = FALSE]
        rest == [addr |-> b.addr + Header + n, size |-> b.size - n - Header, free |-> TRUE]
    IN  IF b.size >= n + Header + Align
        THEN [h EXCEPT !.blocks =
                InsertAt([h.blocks EXCEPT ![i] = [used EXCEPT !.size = n]], i + 1, rest)]
        ELSE [h EXCEPT !.blocks[i] = used]

Given(h, n) ==
    LET i == FirstFit(h, n)
    IN  [heap |-> Placed(h, i, n), ptr |-> Pointer(h.blocks[i])]
Refused(h) == [heap |-> h, ptr |-> NULL]

\* malloc on a heap that exists: when nothing fits it asks for memory and
\* calls itself.  Two rounds are always enough, because the second new block
\* is merged with the first.
Rounds(h, n) ==
    LET h1 == Extended(h, n)
        h2 == Extended(h1, n)
        more == Larger(Chunk, n)
    IN  IF Fitting(h, n) # {} THEN {Given(h, n)}
        ELSE {Refused(h)} \cup
             IF ~Available(h, more) THEN {}
             ELSE IF Fitting(h1, n) # {} THEN {Given(h1, n)}
             ELSE {Refused(h1)} \cup
                  IF Available(h1, more) THEN {Given(h2, n)} ELSE {}

\* Everything malloc(size) may come to, sbrk failing at any call.
malloc(h, size) ==
    IF h.blocks # <<>> THEN Rounds(h, Aligned(size))
    ELSE {Refused(h), Refused(AlignedBreak(h))} \cup
         IF Available(AlignedBreak(h), Chunk) THEN Rounds(init_heap(h), Aligned(size)) ELSE {}

-----------------------------------------------------------------------------
(* free.                                                                   *)

\* The block that a pointer lies in, or whose header is right before it.
BlockOf(h, ptr) ==
    LET Around == {i \in DOMAIN h.blocks :
                     ptr \in Pointer(h.blocks[i]) .. End(h.blocks[i]) - 1}
    IN  IF Around # {}
        THEN CHOOSE i \in Around : \A j \in Around : i <= j
        ELSE CHOOSE i \in DOMAIN h.blocks : Pointer(h.blocks[i]) = ptr

\* Block i takes in the one after it.
Joined(h, i) ==
    LET longer == [h.blocks EXCEPT ![i].size = @ + h.blocks[i + 1].size + Header]
    IN  [h EXCEPT !.blocks = RemoveAt(longer, i + 1)]

NextIsFree(h, i) == i < Len(h.blocks) /\ h.blocks[i + 1].free

\* Mutant: the block before is not looked at.
FreedForward(h, i) ==
    LET marked == [h EXCEPT !.blocks[i].free = TRUE]
    IN  IF NextIsFree(marked, i) THEN Joined(marked, i) ELSE marked

Freed(h, i) ==
    LET marked == [h EXCEPT !.blocks[i].free = TRUE]
        merged == IF NextIsFree(marked, i) THEN Joined(marked, i) ELSE marked
    IN  IF i > 1 /\ merged.blocks[i - 1].free THEN Joined(merged, i - 1) ELSE merged

-----------------------------------------------------------------------------
(* The client's calls.                                                     *)

Unused == [ptr |-> NULL, size |-> 0]
Running == process = "running"

\* A result is kept with the size that was asked for.
Keep(v, result, size) ==
    /\ heap' = result.heap
    /\ owned' = [owned EXCEPT ![v] =
                    IF result.ptr = NULL THEN @ ELSE [ptr |-> result.ptr, size |-> size]]
    /\ UNCHANGED process

Malloc(v, size) ==
    /\ Running
    /\ owned[v] = Unused
    /\ \E result \in malloc(heap, size) : Keep(v, result, size)

Calloc(v, nmemb, size) ==
    /\ Running
    /\ owned[v] = Unused
    /\ nmemb > 0 /\ size > 0
    /\ nmemb <= (Word - 1) \div size
    /\ \E result \in malloc(heap, nmemb * size) : Keep(v, result, nmemb * size)

\* free, given any address within the block.
Free(v, inside) ==
    /\ Running
    /\ owned[v] # Unused
    /\ inside = 0 \/ inside < owned[v].size
    /\ heap' = Freed(heap, BlockOf(heap, owned[v].ptr + inside))
    /\ owned' = [owned EXCEPT ![v] = Unused]
    /\ UNCHANGED process

\* The ways of realloc, in the order in which they are tried; block i is v's.
Enough(i, size) == heap.blocks[i].size >= size
FitsForward(i, size) ==
    /\ NextIsFree(heap, i)
    /\ heap.blocks[i].size + heap.blocks[i + 1].size + Header >= size
FitsBack(i, size) ==
    /\ i > 1
    /\ heap.blocks[i - 1].free
    /\ heap.blocks[i - 1].size + heap.blocks[i].size + Header >= size

Now(v, ptr, size) == owned' = [owned EXCEPT ![v] = [ptr |-> ptr, size |-> size]]

ReallocStays(v, i, size) ==
    /\ Enough(i, size)
    /\ Now(v, Pointer(heap.blocks[i]), size)
    /\ UNCHANGED <<heap, process>>

ReallocForward(v, i, size) ==
    /\ ~Enough(i, size)
    /\ FitsForward(i, size)
    /\ heap' = Joined(heap, i)
    /\ Now(v, Pointer(heap.blocks[i]), size)
    /\ UNCHANGED process

\* The block before is enlarged, not marked; a last block has no next to
\* relink.
ReallocBack(v, i, size) ==
    /\ MayExpandBack
    /\ ~Enough(i, size) /\ ~FitsForward(i, size)
    /\ FitsBack(i, size)
    /\ IF i = Len(heap.blocks)
       THEN process' = "crashed" /\ UNCHANGED <<heap, owned>>
       ELSE /\ heap' = Joined(heap, i - 1)
            /\ Now(v, Pointer(heap.blocks[i - 1]), size)
            /\ UNCHANGED process

\* Mutant: the old block is not given back.
ReallocMovesKeeping(v, i, size) ==
    /\ ~Enough(i, size) /\ ~FitsForward(i, size) /\ ~FitsBack(i, size)
    /\ \E result \in malloc(heap, size) : Keep(v, result, size)

ReallocMoves(v, i, size) ==
    /\ ~Enough(i, size) /\ ~FitsForward(i, size) /\ ~FitsBack(i, size)
    /\ \E result \in malloc(heap, size) :
          Keep(v, IF result.ptr = NULL THEN result
                  ELSE [heap |-> Freed(result.heap, BlockOf(result.heap, owned[v].ptr)),
                        ptr  |-> result.ptr], size)

\* A realloc of NULL is a malloc and one to size 0 a free.
Realloc(v, size) ==
    /\ Running
    /\ owned[v] # Unused
    /\ size > 0
    /\ LET i == BlockOf(heap, owned[v].ptr)
       IN  \/ ReallocStays(v, i, size) \/ ReallocForward(v, i, size)
           \/ ReallocBack(v, i, size) \/ ReallocMoves(v, i, size)

Init ==
    /\ \E brk \in 0 .. Align - 1 : heap = [brk |-> brk, blocks |-> <<>>]
    /\ owned = [v \in Vars |-> Unused]
    /\ process = "running"

Next ==
    \E v \in Vars, size \in Sizes :
        \/ Malloc(v, size) \/ Realloc(v, size) \/ Free(v, size)
        \/ \E nmemb \in Counts : Calloc(v, nmemb, size)

Spec == Init /\ [][Next]_vars

-----------------------------------------------------------------------------
(* Properties.                                                             *)

\* The blocks lie one behind the other from an aligned address up to the
\* break, without a gap or an overlap: what every merge relies on.
Tiles ==
    LET b == heap.blocks
    IN  b # <<>> =>
          /\ \A i \in 1 .. Len(b) - 1 : End(b[i]) = b[i + 1].addr
          /\ End(b[Len(b)]) = heap.brk
          /\ \A i \in DOMAIN b : b[i].addr % Align = 0
          /\ heap.brk % Align = 0

\* Every variable owns a block of its own that is marked as allocated and is
\* as large as was asked for, and no allocated block is without an owner.
Owners(b) == {v \in Vars : owned[v].ptr = Pointer(b)}
OneOwner ==
    /\ \A i \in DOMAIN heap.blocks :
          LET b == heap.blocks[i]
          IN  IF b.free THEN Owners(b) = {}
              ELSE \E v \in Vars : Owners(b) = {v} /\ owned[v].size <= b.size
    /\ \A v \in Vars : owned[v] # Unused =>
          \E i \in DOMAIN heap.blocks : owned[v].ptr = Pointer(heap.blocks[i])

\* Two free blocks never lie side by side: what is free can be given out as a
\* whole, and when all is freed the heap is one block again.
Coalesced ==
    \A i \in 1 .. Len(heap.blocks) - 1 : ~(heap.blocks[i].free /\ heap.blocks[i + 1].free)

\* "Mark as allocated": a block that a variable points to is not free.
OwnedIsAllocated ==
    \A v \in Vars, i \in DOMAIN heap.blocks :
        owned[v].ptr = Pointer(heap.blocks[i]) => ~heap.blocks[i].free
=============================================================================
