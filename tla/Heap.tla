-------------------------------- MODULE Heap --------------------------------
(* The heap of lwip/src/core/mem.c (neither MEM_LIBC_MALLOC nor MEM_USE_POOLS): *)
(* first fit over blocks linked by headers that lie in the heap itself.  Sizes *)
(* and addresses count units of MEM_ALIGNMENT; NO_SYS is 1, so that the calls   *)
(* do not interleave and mem_mutex is nothing.                                 *)
EXTENDS Integers, FiniteSets, FiniteSetsExt

CONSTANTS
    MEM_SIZE,               \* MEM_SIZE_ALIGNED: the address of ram_end
    SIZEOF_STRUCT_MEM,
    MIN_SIZE,               \* MIN_SIZE_ALIGNED
    Sizes                   \* sizes that callers ask for

ASSUME HeapAssumption ==
    /\ {SIZEOF_STRUCT_MEM, MIN_SIZE} \subseteq Nat \ {0}
    /\ MEM_SIZE \in Nat /\ MEM_SIZE > SIZEOF_STRUCT_MEM + MIN_SIZE
    /\ Sizes \subseteq Nat \ {0}

VARIABLES
    mem,                    \* mem[a]: the struct mem at address a, Bytes if a holds none
    lfree,                  \* the lowest free block, or ram_end
    held                    \* held[a]: the size last asked for of the block at a, 0 if free

vars == <<mem, lfree, held>>

ram_end == MEM_SIZE
Bytes == [next |-> 0, prev |-> 0, used |-> 2]
Headers(m) == {a \in 0..(MEM_SIZE - 1): m[a] # Bytes}
Aligned(size) == IF size < MIN_SIZE THEN MIN_SIZE ELSE size

\* The room of the block at a, without its header.
Room(m, a) == m[a].next - (a + SIZEOF_STRUCT_MEM)

\* The header after a block points back to it; that of ram_end is left alone.
SetPrev(m, a, prev) == IF a = ram_end THEN m ELSE [m EXCEPT ![a].prev = prev]

-----------------------------------------------------------------------------

\* plug_holes, forward part: the block after a is joined to it.
PlugNext(h, a) ==
    LET n == h.m[a].next IN
    IF n # a /\ n # ram_end /\ h.m[n].used = 0
    THEN [m |-> SetPrev([h.m EXCEPT ![a].next = h.m[n].next, ![n] = Bytes], h.m[n].next, a),
          lfree |-> IF h.lfree = n THEN a ELSE h.lfree]
    ELSE h

\* plug_holes, backward part: a is joined to the block before it.
PlugPrev(h, a) ==
    LET p == h.m[a].prev IN
    IF p # a /\ h.m[p].used = 0
    THEN [m |-> SetPrev([h.m EXCEPT ![p].next = h.m[a].next, ![a] = Bytes], h.m[a].next, p),
          lfree |-> IF h.lfree = a THEN p ELSE h.lfree]
    ELSE h

plug_holes(h, a) == PlugPrev(PlugNext(h, a), a)

\* Mutant: lfree stays above a block that becomes free.
LowerLfreeNever(a) == lfree

\* lfree when the block at a becomes free.
LowerLfree(a) == IF a < lfree THEN a ELSE lfree

\* mem_free.
mem_free(a) ==
    LET freed == [m |-> [mem EXCEPT ![a].used = 0],
                  lfree |-> LowerLfree(a)]
        h == plug_holes(freed, a)
    IN /\ held[a] # 0
       /\ mem' = h.m
       /\ lfree' = h.lfree
       /\ held' = [held EXCEPT ![a] = 0]

\* mem_trim, as pbuf_realloc uses it: the block at a shrinks in place.  The rest
\* goes to a free block that follows, or becomes one if it is large enough.
mem_trim(a, new_size) ==
    LET size == Room(mem, a)
        newsize == Aligned(new_size)
        n == mem[a].next
        a2 == a + SIZEOF_STRUCT_MEM + newsize
        hole == n # ram_end /\ mem[n].used = 0
        After(next) == [next |-> next, prev |-> a, used |-> 0]
    IN /\ held[a] # 0 /\ new_size <= held[a]
       /\ held' = [held EXCEPT ![a] = new_size]
       /\ \/ /\ newsize < size /\ hole
             /\ lfree' = IF lfree = n THEN a2 ELSE lfree
             /\ mem' = SetPrev([mem EXCEPT ![n] = Bytes, ![a].next = a2, ![a2] = After(mem[n].next)],
                               mem[n].next, a2)
          \/ /\ newsize < size /\ ~hole
             /\ newsize + SIZEOF_STRUCT_MEM + MIN_SIZE <= size
             /\ lfree' = LowerLfree(a2)
             /\ mem' = SetPrev([mem EXCEPT ![a].next = a2, ![a2] = After(n)], n, a2)
          \/ /\ newsize = size \/ (~hole /\ newsize + SIZEOF_STRUCT_MEM + MIN_SIZE > size)
             /\ UNCHANGED <<mem, lfree>>

-----------------------------------------------------------------------------
(* mem_malloc.                                                                 *)

\* Blocks that the walk from lfree accepts for a request of size (aligned).
Fitting(m, from, size) ==
    {a \in Headers(m): /\ a >= from /\ a < MEM_SIZE - size
                       /\ m[a].used = 0 /\ Room(m, a) >= size}

\* The block is split when the rest can hold a block of its own.
Taken(m, a, size) ==
    LET a2 == a + SIZEOF_STRUCT_MEM + size IN
    IF Room(m, a) >= size + SIZEOF_STRUCT_MEM + MIN_SIZE
    THEN SetPrev([m EXCEPT ![a] = [@ EXCEPT !.next = a2, !.used = 1],
                           ![a2] = [next |-> m[a].next, prev |-> a, used |-> 0]],
                 m[a].next, a2)
    ELSE [m EXCEPT ![a].used = 1]

\* lfree moves on to the next free block.
NextFree(m, from) ==
    LET free == {a \in Headers(m): a >= from /\ m[a].used = 0} IN
    IF free = {} THEN ram_end ELSE Min(free)

mem_malloc(size_in) ==
    LET size == Aligned(size_in)
        fitting == Fitting(mem, lfree, size)
        a == Min(fitting)
    IN /\ fitting # {}
       /\ mem' = Taken(mem, a, size)
       /\ lfree' = IF a = lfree THEN NextFree(mem', lfree) ELSE lfree
       /\ held' = [held EXCEPT ![a] = size_in]

-----------------------------------------------------------------------------

\* mem_init.
Init ==
    /\ mem = [a \in 0..(MEM_SIZE - 1) |->
                IF a = 0 THEN [next |-> ram_end, prev |-> 0, used |-> 0] ELSE Bytes]
    /\ lfree = 0
    /\ held = [a \in 0..(MEM_SIZE - 1) |-> 0]

Next ==
    \/ \E size \in Sizes: mem_malloc(size)
    \/ \E a \in Headers(mem): mem_free(a)
    \/ \E a \in Headers(mem), size \in Sizes: mem_trim(a, size)

Spec == Init /\ [][Next]_vars

-----------------------------------------------------------------------------

\* The headers tile the heap in both directions, two free blocks never adjoin,
\* and the used blocks are the ones callers hold, each with the room its caller
\* asked for: what mem_sanity asserts after every call, and that no block is
\* leaked, overlapped or cut short by a split, a join or a trim.
HeapTiled ==
    /\ 0 \in Headers(mem) /\ mem[0].prev = 0
    /\ \A a \in Headers(mem):
        /\ mem[a].next = ram_end \/ mem[a].next \in Headers(mem)
        /\ mem[a].next > a
        /\ \A b \in Headers(mem): ~(a < b /\ b < mem[a].next)
        /\ mem[a].next # ram_end =>
            /\ mem[mem[a].next].prev = a
            /\ mem[a].used = 0 => mem[mem[a].next].used = 1
        /\ (mem[a].used = 1) = (held[a] # 0)
        /\ Room(mem, a) >= Aligned(held[a])
    /\ \A a \in DOMAIN held: held[a] # 0 => a \in Headers(mem)

\* A request is refused only when no free block could hold it: lfree, from where
\* the search starts, never hides a free block below it.
MallocFinds ==
    \A size \in Sizes:
        (\E a \in Headers(mem): mem[a].used = 0 /\ Room(mem, a) >= Aligned(size))
            => Fitting(mem, lfree, Aligned(size)) # {}

\* The heap is sound after any sequence of mem_malloc, mem_free and mem_trim.
HeapSound == HeapTiled /\ MallocFinds
=============================================================================
