-------------------------------- MODULE Pbuf --------------------------------
(* Packet buffers of lwip/src/core/pbuf.c: chains of reference-counted buffers *)
(* from a pool, and the operations that build, cut, share and free them.       *)
(*                                                                             *)
(* A link from one buffer to the next owns a reference, as does every pointer  *)
(* that the code above holds ("held").  The callers keep to what pbuf.c asks   *)
(* of them: they cut or lengthen only a chain they hold by its head, and join  *)
(* two chains that share no buffer.                                            *)
EXTENDS Integers, Sequences, FiniteSets, FiniteSetsExt, SequencesExt

CONSTANTS
    Bufs,                   \* the elements of the pool
    BUFSIZE,                \* PBUF_POOL_BUFSIZE_ALIGNED
    Lengths,                \* lengths asked of pbuf_alloc
    Headroom,               \* room before the payload of a new chain, for headers
    MaxHeld                 \* bound: pointers that callers hold to one buffer

PbufAssumption ==
    /\ BUFSIZE \in Nat \ {0}
    /\ Lengths \subseteq Nat \ {0}
    /\ Headroom \in 0..(BUFSIZE - 1)
    /\ MaxHeld \in Nat \ {0}
    /\ 0 \notin Bufs

NULL == 0

VARIABLES
    pbuf,                   \* pbuf[b]: [next, len, tot_len, ref, room]; ref is 0 in the pool
    held                    \* held[b]: pointers to b that callers own

vars == <<pbuf, held>>

InPool == [next |-> NULL, len |-> 0, tot_len |-> 0, ref |-> 0, room |-> 0]
Free(s) == {b \in Bufs: s[b].ref = 0}

\* The chain that starts at b.
RECURSIVE Chain(_, _)
Chain(s, b) == IF b = NULL THEN <<>> ELSE <<b>> \o Chain(s, s[b].next)

Pred(s, b) == {a \in Bufs: s[a].ref > 0 /\ s[a].next = b}

\* A caller holds b, and b is not inside another chain.
HoldsHead(b) == held[b] > 0 /\ Pred(pbuf, b) = {}

Disjoint(a, b) == Range(Chain(pbuf, a)) \cap Range(Chain(pbuf, b)) = {}

-----------------------------------------------------------------------------

\* pbuf_free: drop one reference; a buffer without any goes back to the pool and
\* drops the reference its link held.
RECURSIVE pbuf_free(_, _)
pbuf_free(s, p) ==
    IF p = NULL THEN s
    ELSE IF s[p].ref > 1 THEN [s EXCEPT ![p].ref = @ - 1]
    ELSE pbuf_free([s EXCEPT ![p] = InPool], s[p].next)

\* pbuf_alloc of PBUF_POOL: the chain b[1], b[2], ... for length bytes, the
\* headroom in the first buffer only.
Pieces(length) ==
    LET first == BUFSIZE - Headroom
        n == IF length <= first THEN 1 ELSE 1 + (length - first + BUFSIZE - 1) \div BUFSIZE
    IN [i \in 1..n |-> CASE i = 1 -> Min({length, first})
                         [] i > 1 -> Min({length - first - (i - 2) * BUFSIZE, BUFSIZE})]

Allocated(s, b, length) ==
    LET sizes == Pieces(length)
        Before(i) == FoldSeq(LAMBDA x, y: x + y, 0, SubSeq(sizes, 1, i - 1))
    IN [x \in Bufs |->
            IF \E i \in DOMAIN b: b[i] = x
            THEN LET i == CHOOSE j \in DOMAIN b: b[j] = x IN
                 [next |-> IF i < Len(b) THEN b[i + 1] ELSE NULL,
                  len |-> sizes[i], tot_len |-> length - Before(i), ref |-> 1,
                  room |-> IF i = 1 THEN Headroom ELSE 0]
            ELSE s[x]]

\* The pool gives its elements out in some order.  When it runs dry, the part of
\* the chain that exists is freed and the call fails.
pbuf_alloc(length) ==
    LET n == Len(Pieces(length))
        free == SetToSeq(Free(pbuf))
        chain == SubSeq(free, 1, n)
    IN /\ Len(free) >= n
       /\ pbuf' = Allocated(pbuf, chain, length)
       /\ held' = [held EXCEPT ![chain[1]] = 1]

pbuf_alloc_fails(length) ==
    LET free == SetToSeq(Free(pbuf)) IN
    /\ Len(Pieces(length)) > Len(free)
    /\ pbuf' = IF free = <<>> THEN pbuf
               ELSE pbuf_free(Allocated(pbuf, free, length), free[1])
    /\ UNCHANGED held

\* pbuf_ref: one more pointer to p.
pbuf_ref(p) ==
    /\ held[p] > 0 /\ held[p] < MaxHeld
    /\ pbuf' = [pbuf EXCEPT ![p].ref = @ + 1]
    /\ held' = [held EXCEPT ![p] = @ + 1]

Release(p) ==
    /\ held[p] > 0
    /\ pbuf' = pbuf_free(pbuf, p)
    /\ held' = [held EXCEPT ![p] = @ - 1]

-----------------------------------------------------------------------------

\* Mutant: the last buffer of h keeps its total length.
CatSkipsLast(s, h, t) ==
    LET chain == Chain(s, h)
        longer == [b \in Bufs |-> IF b \in Range(Front(chain))
                                  THEN [s[b] EXCEPT !.tot_len = @ + s[t].tot_len] ELSE s[b]]
    IN [longer EXCEPT ![Last(chain)].next = t]

\* The chains of h and t joined.
Cat(s, h, t) ==
    LET chain == Chain(s, h)
        longer == [b \in Bufs |-> IF b \in Range(chain)
                                  THEN [s[b] EXCEPT !.tot_len = @ + s[t].tot_len] ELSE s[b]]
    IN [longer EXCEPT ![Last(chain)].next = t]

\* pbuf_cat: the caller's pointer to t becomes the link from the end of h.
pbuf_cat(h, t) ==
    /\ HoldsHead(h) /\ HoldsHead(t) /\ Disjoint(h, t)
    /\ pbuf' = Cat(pbuf, h, t)
    /\ held' = [held EXCEPT ![t] = @ - 1]

\* pbuf_chain: the same, and the caller keeps its pointer to t.
pbuf_chain(h, t) ==
    /\ HoldsHead(h) /\ HoldsHead(t) /\ Disjoint(h, t)
    /\ pbuf' = [Cat(pbuf, h, t) EXCEPT ![t].ref = @ + 1]
    /\ UNCHANGED held

\* pbuf_dechain: the rest of the chain is dropped from its first buffer; it lives
\* on only if a caller holds it.
pbuf_dechain(p) ==
    LET q == pbuf[p].next
        cut == [pbuf EXCEPT ![p].next = NULL, ![p].tot_len = pbuf[p].len,
                            ![q].tot_len = pbuf[p].tot_len - pbuf[p].len]
    IN /\ HoldsHead(p) /\ q # NULL
       /\ pbuf' = pbuf_free(cut, q)
       /\ UNCHANGED held

\* pbuf_realloc: the chain shrinks to new_len bytes; the buffers after the one
\* that holds the last byte are freed.
pbuf_realloc(p, new_len) ==
    LET chain == Chain(pbuf, p)
        Before(i) == FoldSeq(LAMBDA b, n: n + pbuf[b].len, 0, SubSeq(chain, 1, i - 1))
        k == CHOOSE i \in DOMAIN chain:
                /\ new_len <= Before(i) + pbuf[chain[i]].len
                /\ \A j \in 1..(i - 1): new_len > Before(j) + pbuf[chain[j]].len
        q == chain[k]
        shrink == pbuf[p].tot_len - new_len
        shorter == [b \in Bufs |->
            CASE b \in {chain[i]: i \in 1..(k - 1)} -> [pbuf[b] EXCEPT !.tot_len = @ - shrink]
              [] b = q -> [pbuf[b] EXCEPT !.len = new_len - Before(k),
                                          !.tot_len = new_len - Before(k), !.next = NULL]
              [] OTHER -> pbuf[b]]
    IN /\ HoldsHead(p) /\ new_len < pbuf[p].tot_len
       /\ pbuf' = pbuf_free(shorter, pbuf[q].next)
       /\ UNCHANGED held

\* pbuf_remove_header and pbuf_add_header move the start of the payload.
pbuf_remove_header(p, n) ==
    /\ HoldsHead(p) /\ n <= pbuf[p].len
    /\ pbuf' = [pbuf EXCEPT ![p] = [@ EXCEPT !.len = @ - n, !.tot_len = @ - n, !.room = @ + n]]
    /\ UNCHANGED held

pbuf_add_header(p, n) ==
    /\ HoldsHead(p) /\ n <= pbuf[p].room
    /\ pbuf' = [pbuf EXCEPT ![p] = [@ EXCEPT !.len = @ + n, !.tot_len = @ + n, !.room = @ - n]]
    /\ UNCHANGED held

\* pbuf_free_header: buffers that the first size bytes fill go, one by one; the
\* caller gets the next one, whose reference was the link's.  [s, p].
RECURSIVE FreeHeader(_, _, _)
FreeHeader(s, p, size) ==
    IF size = 0 \/ p = NULL THEN [s |-> s, p |-> p]
    ELSE IF size >= s[p].len
    THEN FreeHeader(pbuf_free([s EXCEPT ![p].next = NULL], p), s[p].next, size - s[p].len)
    ELSE [s |-> [s EXCEPT ![p] = [@ EXCEPT !.len = @ - size, !.tot_len = @ - size,
                                           !.room = @ + size]], p |-> p]

\* Its callers own the chain alone.
pbuf_free_header(q, size) ==
    LET r == FreeHeader(pbuf, q, size) IN
    /\ HoldsHead(q) /\ \A b \in Range(Chain(pbuf, q)): pbuf[b].ref = 1
    /\ pbuf' = r.s
    /\ held' = [b \in Bufs |-> CASE b = r.p -> 1
                                 [] b = q /\ b # r.p -> 0
                                 [] OTHER -> held[b]]

-----------------------------------------------------------------------------

Init ==
    /\ pbuf = [b \in Bufs |-> InPool]
    /\ held = [b \in Bufs |-> 0]

Next ==
    \/ \E length \in Lengths: pbuf_alloc(length) \/ pbuf_alloc_fails(length)
    \/ \E p \in Bufs: pbuf_ref(p) \/ Release(p) \/ pbuf_dechain(p)
    \/ \E h, t \in Bufs: pbuf_cat(h, t) \/ pbuf_chain(h, t)
    \/ \E p \in Bufs: \E n \in 0..(pbuf[p].tot_len - 1): pbuf_realloc(p, n)
    \/ \E p \in Bufs: pbuf_remove_header(p, 1) \/ pbuf_add_header(p, 1)
    \/ \E q \in Bufs: \E n \in 1..pbuf[q].tot_len: pbuf_free_header(q, n)

Spec == Init /\ [][Next]_vars

-----------------------------------------------------------------------------

\* The count of a buffer is the number of its owners: pointers of callers and at
\* most one link.  A buffer in the pool has neither, so that none is freed while
\* somebody points to it, and none stays allocated that nobody can reach.
RefcountsExact ==
    /\ \A b \in Bufs: pbuf[b].ref = held[b] + Cardinality(Pred(pbuf, b))
    /\ \A b \in Bufs: pbuf[b].ref > 0 =>
        \E h \in Bufs: held[h] > 0 /\ b \in Range(Chain(pbuf, h))

\* tot_len of a buffer is its own length and that of everything after it, as
\* every loop over a chain relies on.
TotalLengthExact ==
    \A b \in Bufs: pbuf[b].ref > 0 =>
        pbuf[b].tot_len = pbuf[b].len
                          + IF pbuf[b].next = NULL THEN 0 ELSE pbuf[pbuf[b].next].tot_len

\* Chains are sound after any sequence of calls: owners and lengths are exact.
ChainsSound == RefcountsExact /\ TotalLengthExact
=============================================================================
