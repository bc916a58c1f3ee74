------------------------------ MODULE SmallMem ------------------------------
(***************************************************************************)
(* The heap of rt-thread/src/mem.c, from which the stacks and control      *)
(* blocks of the stopwatch's threads and timer and the serial line's ring  *)
(* buffer are allocated.                                                   *)
(*                                                                         *)
(* Sizes and offsets count units of RT_ALIGN_SIZE bytes, after RT_ALIGN.   *)
(* heap_sem makes each operation one step, except rt_realloc where it      *)
(* moves a block: it releases heap_sem before it allocates the new block   *)
(* and again before it frees the old one.                                  *)
(***************************************************************************)
EXTENDS Integers, FiniteSets, FiniteSetsExt, Functions

CONSTANTS
    SIZEOF_STRUCT_MEM,
    MIN_SIZE,          \* MIN_SIZE_ALIGNED
    mem_size_aligned,
    Sizes,             \* bound: sizes asked for
    MaxMoves           \* bound: calls of rt_realloc that are moving a block

ASSUME MemAssumption ==
    /\ {SIZEOF_STRUCT_MEM, MIN_SIZE, mem_size_aligned} \subseteq Nat \ {0}
    /\ MIN_SIZE <= mem_size_aligned
    /\ Sizes \subseteq Nat \ {0}
    /\ MaxMoves \in Nat

heap_end == mem_size_aligned + SIZEOF_STRUCT_MEM

VARIABLES
    heap,     \* the headers, by offset from heap_ptr
    lfree,
    used_mem,
    live,     \* history: what the callers hold, block -> size asked for
    moving,   \* blocks that rt_realloc has copied and has yet to free
    refused   \* the last size rt_malloc returned RT_NULL for, or 0

heapvars == <<heap, lfree, used_mem, live, moving, refused>>

Offsets == 0..heap_end
Header == [used: BOOLEAN, next: Offsets, prev: Offsets]

Blocks == DOMAIN heap \ {heap_end}
FreeBlocks == {b \in Blocks : ~heap[b].used}

\* mem->next - (ptr + SIZEOF_STRUCT_MEM)
Room(h, b) == h[b].next - (b + SIZEOF_STRUCT_MEM)

\* Offsets stay inside the heap, lfree is a header, and counts do not go negative.
HeapTypeOK ==
    /\ DOMAIN heap \subseteq Offsets
    /\ heap \in [DOMAIN heap -> Header]
    /\ lfree \in DOMAIN heap
    /\ used_mem \in 0..heap_end
    /\ DOMAIN live \subseteq Blocks
    /\ moving \subseteq DOMAIN live

\* rt_system_heap_init
InitialHeap ==
    [b \in {0, heap_end} |-> [used |-> b = heap_end, next |-> heap_end, prev |-> b]]

HeapInit ==
    /\ heap = InitialHeap
    /\ lfree = 0
    /\ used_mem = 0
    /\ live = [b \in {} |-> 0]
    /\ moving = {}
    /\ refused = 0

-----------------------------------------------------------------------------
\* The block is free and may be joined to a neighbour.
Joinable(h, b) == b # heap_end /\ ~h[b].used

\* Block b takes in the block after it; b's new neighbour points back to b.
Join(h, b) ==
    LET n == h[b].next
        after == h[n].next
    IN  Restrict([h EXCEPT ![b].next = after, ![after].prev = b], DOMAIN h \ {n})

\* Mutant: the hole before the block is not plugged.
plug_holesForward(h, low, b) ==
    LET n == h[b].next
        forward == Joinable(h, n)
    IN  [heap |-> IF forward THEN Join(h, b) ELSE h,
         lfree |-> IF forward /\ low = n THEN b ELSE low]

plug_holes(h, low, b) ==
    LET n == h[b].next
        forward == Joinable(h, n)
        h1 == IF forward THEN Join(h, b) ELSE h
        low1 == IF forward /\ low = n THEN b ELSE low
        p == h1[b].prev
        backward == p # b /\ ~h1[p].used
    IN  [heap |-> IF backward THEN Join(h1, p) ELSE h1,
         lfree |-> IF backward /\ low1 = b THEN p ELSE low1]

\* A new free header n behind block b; heap_end->prev is not kept up.
Split(h, b, n) ==
    LET after == h[b].next
        linked == IF after = heap_end THEN h ELSE [h EXCEPT ![after].prev = n]
    IN  [x \in DOMAIN h \cup {n} |->
           IF x = n THEN [used |-> FALSE, next |-> after, prev |-> b]
           ELSE IF x = b THEN [h[b] EXCEPT !.next = n]
           ELSE linked[x]]

AtLeastMin(size) == IF size < MIN_SIZE THEN MIN_SIZE ELSE size

\* The blocks the search of rt_malloc meets that are large enough.
Fitting(size) ==
    {b \in FreeBlocks : b >= lfree /\ b < mem_size_aligned - size /\ Room(heap, b) >= size}

\* The remainder of block b can hold a header and MIN_SIZE units of data.
Splits(b, size) == Room(heap, b) >= size + SIZEOF_STRUCT_MEM + MIN_SIZE

\* The block rt_malloc marks used, in the heap h that results.
Taken(b, size) ==
    LET h == IF Splits(b, size) THEN Split(heap, b, b + SIZEOF_STRUCT_MEM + size) ELSE heap
    IN  [h EXCEPT ![b].used = TRUE]

\* lfree after block b is taken: the search for the next free block.
NextFree(h, b) ==
    IF b = lfree THEN Min({x \in DOMAIN h : x >= b /\ ~h[x].used} \cup {heap_end}) ELSE lfree

\* Block b is allocated for a request of size units; what else is live is kept.
Allocate(b, size, asked) ==
    /\ heap' = Taken(b, size)
    /\ lfree' = NextFree(heap', b)
    /\ used_mem' = used_mem + (heap'[b].next - b)
    /\ live' = [x \in DOMAIN live \cup {b} |-> IF x = b THEN asked ELSE live[x]]

\* rt_malloc of asked > 0 units.
rt_malloc(asked) ==
    LET size == AtLeastMin(asked)
        fits == Fitting(size)
    IN  /\ UNCHANGED moving
        /\ IF asked <= mem_size_aligned /\ fits # {}
             THEN Allocate(Min(fits), size, asked) /\ refused' = 0
             ELSE UNCHANGED <<heap, lfree, used_mem, live>> /\ refused' = asked

\* The heap without block b.
Freed(b) == plug_holes([heap EXCEPT ![b].used = FALSE], IF b < lfree THEN b ELSE lfree, b)

\* rt_free of block b by its holder (also rt_realloc to size 0).
Release(b) ==
    /\ heap' = Freed(b).heap
    /\ lfree' = Freed(b).lfree
    /\ used_mem' = used_mem - (heap[b].next - b)
    /\ live' = Restrict(live, DOMAIN live \ {b})
    /\ refused' = 0

rt_free(b) ==
    /\ b \in DOMAIN live \ moving
    /\ Release(b)
    /\ UNCHANGED moving

\* rt_realloc that cuts a block short: the tail becomes a free block.
ReallocShrink(b, newsize) ==
    /\ b \in DOMAIN live \ moving
    /\ newsize + SIZEOF_STRUCT_MEM + MIN_SIZE < Room(heap, b)
    /\ LET n == b + SIZEOF_STRUCT_MEM + newsize
           plugged == plug_holes(Split(heap, b, n), IF n < lfree THEN n ELSE lfree, n)
       IN  heap' = plugged.heap /\ lfree' = plugged.lfree
    /\ used_mem' = used_mem - (Room(heap, b) - newsize)
    /\ live' = [live EXCEPT ![b] = newsize]
    /\ refused' = 0
    /\ UNCHANGED moving

\* rt_realloc that keeps the block: its size is the one asked for.
ReallocSame(b, newsize) ==
    /\ b \in DOMAIN live \ moving
    /\ newsize = Room(heap, b)
    /\ live' = [live EXCEPT ![b] = newsize]
    /\ refused' = 0
    /\ UNCHANGED <<heap, lfree, used_mem, moving>>

\* rt_realloc that moves the block: the new one is allocated and filled first.
\* Where there is none, the old block stays and RT_NULL is returned.
ReallocMove(b, newsize) ==
    LET size == AtLeastMin(newsize)
        fits == Fitting(size)
    IN  /\ b \in DOMAIN live \ moving
        /\ Cardinality(moving) < MaxMoves
        /\ newsize <= mem_size_aligned
        /\ newsize # Room(heap, b)
        /\ newsize + SIZEOF_STRUCT_MEM + MIN_SIZE >= Room(heap, b)
        /\ IF fits # {}
             THEN Allocate(Min(fits), size, newsize) /\ moving' = moving \cup {b} /\ refused' = 0
             ELSE UNCHANGED <<heap, lfree, used_mem, live, moving>> /\ refused' = newsize

\* The rt_free at the end of such a call.
ReallocFree(b) ==
    /\ b \in moving
    /\ Release(b)
    /\ moving' = moving \ {b}

HeapNext ==
    \/ \E size \in Sizes : rt_malloc(size)
    \/ \E b \in Blocks : rt_free(b) \/ ReallocFree(b)
    \/ \E b \in Blocks, size \in Sizes :
         ReallocShrink(b, size) \/ ReallocSame(b, size) \/ ReallocMove(b, size)

HeapSpec == HeapInit /\ [][HeapNext]_heapvars

-----------------------------------------------------------------------------
\* The headers tile the heap: every next leads to the header that follows, and
\* every prev back, so walking the list meets each block once and data of two
\* blocks never overlap.  (Nothing reads the prev of heap_end.)
Tiled ==
    /\ 0 \in Blocks
    /\ \A b \in Blocks :
         /\ heap[b].next = Min({x \in DOMAIN heap : x > b})
         /\ Room(heap, b) > 0
         /\ heap[b].prev = Max({x \in Blocks : x < b} \cup {0})

\* "if not we have 2 unused structs in a row, plug_holes should have take care of
\* this": no free block follows another, so a heap without users is one block.
Coalesced ==
    /\ \A b \in FreeBlocks : heap[heap[b].next].used
    /\ DOMAIN live = {} => Blocks = {0}

\* lfree is the "pointer to the lowest free block": a search from there misses
\* no free memory.
LowestFree == lfree = Min(FreeBlocks \cup {heap_end})

\* The units of the blocks somebody holds, headers included.
HeldUnits == UNION {b..heap[b].next-1 : b \in DOMAIN live}

\* Exactly the blocks somebody holds are marked used, each as large as it was
\* asked to be, and used_mem (what the command free prints) counts their units: no
\* sequence of calls leaks memory or gives it out twice.
HoldersKeep ==
    /\ {b \in Blocks : heap[b].used} = DOMAIN live
    /\ \A b \in DOMAIN live : live[b] <= Room(heap, b)
    /\ used_mem = Cardinality(HeldUnits)

\* "NULL if no free memory was found": whatever was allocated, freed and moved
\* before, a request is refused only if no free block has room for it, or only one
\* that starts so late that the search of rt_malloc does not reach it.
RefusedOnlyIfFull ==
    refused # 0 =>
        \A b \in FreeBlocks : \/ Room(heap, b) < AtLeastMin(refused)
                              \/ b >= mem_size_aligned - AtLeastMin(refused)

\* The heap stays sound under every sequence of rt_malloc, rt_free and rt_realloc.
HeapSound ==
    HeapTypeOK /\ Tiled /\ Coalesced /\ LowestFree /\ HoldersKeep /\ RefusedOnlyIfFull
=============================================================================
