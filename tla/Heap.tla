-------------------------------- MODULE Heap --------------------------------
(***************************************************************************)
(* malloc(), free() and realloc() of vinixlibc/src/stdlib.c.  An address   *)
(* counts header units from the start of the pool; size and next are the   *)
(* words of the header at each address, meaningful or left over.           *)
(***************************************************************************)
EXTENDS Integers, FiniteSetsExt

CONSTANTS POOL,       \* units in the pool
          HDR         \* sizeof(header_t)

ASSUME HeapAssumption == POOL \in Nat \ {0} /\ HDR \in Nat \ {0}

Units == 0 .. POOL - 1
NULL_PTR == -1

\* One free block, its own successor in the ring.
pool_init == [size |-> [u \in Units |-> IF u = 0 THEN POOL ELSE 0],
              next |-> [u \in Units |-> 0], free_list |-> 0]

\* Units for nbytes, the header included.
need(nbytes) == (nbytes + HDR - 1) \div HDR + 1

\* The first block of the ring after free_list that is large enough.
RECURSIVE FirstFit(_, _, _)
FirstFit(h, prev, units) ==
    LET p == h.next[prev]
    IN  IF h.size[p] >= units THEN [found |-> TRUE, prev |-> prev, p |-> p]
        ELSE IF p = h.free_list THEN [found |-> FALSE, prev |-> prev, p |-> p]
        ELSE FirstFit(h, p, units)

\* An exact fit is unlinked, a larger block shrinks and hands out its tail.
malloc(h, nbytes) ==
    LET units == need(nbytes)
        f == FirstFit(h, h.free_list, units)
        at == f.p + h.size[f.p] - units
    IN  IF ~f.found THEN [ptr |-> NULL_PTR, heap |-> h]
        ELSE IF h.size[f.p] = units
        THEN [ptr |-> f.p, heap |-> [h EXCEPT !.next[f.prev] = h.next[f.p], !.free_list = f.prev]]
        ELSE [ptr |-> at, heap |-> [h EXCEPT !.size[f.p] = @ - units, !.size[at] = units, !.free_list = f.prev]]

\* The free block after which bp goes: the ring is ordered by address.
RECURSIVE InsertAfter(_, _, _)
InsertAfter(h, bp, p) ==
    IF \/ bp > p /\ bp < h.next[p]
       \/ p >= h.next[p] /\ (bp > p \/ bp < h.next[p])
    THEN p ELSE InsertAfter(h, bp, h.next[p])

JoinAfter(h, bp, p) ==
    IF bp + h.size[bp] = h.next[p]
    THEN [h EXCEPT !.size[bp] = @ + h.size[h.next[p]], !.next[bp] = h.next[h.next[p]]]
    ELSE [h EXCEPT !.next[bp] = h.next[p]]

JoinBeforeKeepsSize(h, bp, p) ==
    IF p + h.size[p] = bp THEN [h EXCEPT !.next[p] = h.next[bp]] ELSE [h EXCEPT !.next[p] = bp]
JoinBefore(h, bp, p) ==
    IF p + h.size[p] = bp
    THEN [h EXCEPT !.size[p] = @ + h.size[bp], !.next[p] = h.next[bp]]
    ELSE [h EXCEPT !.next[p] = bp]

free(h, bp) == LET p == InsertAfter(h, bp, h.free_list)
               IN  [JoinBefore(JoinAfter(h, bp, p), bp, p) EXCEPT !.free_list = p]

\* A new block first: the old one is freed only once its bytes are copied.
realloc(h, bp, nbytes) ==
    IF nbytes = 0 THEN [ptr |-> NULL_PTR, heap |-> free(h, bp)]
    ELSE LET m == malloc(h, nbytes)
         IN  IF m.ptr = NULL_PTR THEN m ELSE [ptr |-> m.ptr, heap |-> free(m.heap, bp)]

-----------------------------------------------------------------------------
\* The blocks of the ring, from free_list on.
RECURSIVE RingFrom(_, _)
RingFrom(h, seen) == LET more == seen \cup {h.next[u] : u \in seen}
                     IN  IF more = seen THEN seen ELSE RingFrom(h, more)
Ring(h) == RingFrom(h, {h.free_list})

Extent(h, u) == u .. u + h.size[u] - 1

\* The blocks a program holds and the free ones make up the pool, each unit in
\* exactly one of them.
Partitioned(h, held) ==
    /\ held \cap Ring(h) = {}
    /\ UNION {Extent(h, u) : u \in held \cup Ring(h)} = Units
    /\ \A u, v \in held \cup Ring(h) : u = v \/ Extent(h, u) \cap Extent(h, v) = {}
=============================================================================
