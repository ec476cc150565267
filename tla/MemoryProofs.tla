---------------------------- MODULE MemoryProofs ----------------------------
(***************************************************************************)
(* The inductive invariant of the memory allocators and their users, and   *)
(* how it survives the changes their operations are made of: taking and    *)
(* giving back blocks of pages, refilling a slab cache, taking and giving  *)
(* back its objects.  At the end the theorems: every page and every object *)
(* has one holder and is counted, and no assertion of free_pages() or      *)
(* kfree() fails.                                                          *)
(***************************************************************************)
EXTENDS Memory, FiniteSetTheorems, TLAPS

\* The pages of a task and of an address space, and the slab pages.
Held(t) == Block(t.user, USER_MEM_ORDER) \cup Block(t.kstack, 0) \cup Block(t.pgd, PGD_ORDER)
Dir(m)  == Block(m.pgd, PGD_ORDER)

SlabPages(h)   == {p \in Page : h[p] # None}
CachePages(h, c) == {p \in Page : h[p] = c}
LiveIn(tk)     == {s \in Slots : tk[s] # None}

TaskPages == 2^USER_MEM_ORDER + 1 + 2^PGD_ORDER

\* The three blocks of a task lie in the pool and apart from each other.
SoundTask(t) ==
    /\ t.user + 2^USER_MEM_ORDER <= POOL_PAGES
    /\ t.kstack + 1 <= POOL_PAGES
    /\ t.pgd + 2^PGD_ORDER <= POOL_PAGES
    /\ Block(t.user, USER_MEM_ORDER) \cap Block(t.kstack, 0) = {}
    /\ Block(t.user, USER_MEM_ORDER) \cap Block(t.pgd, PGD_ORDER) = {}
    /\ Block(t.kstack, 0) \cap Block(t.pgd, PGD_ORDER) = {}

\* No page has two holders, the set bits are the pages held, and they add up.
PagesOK(used, h, tk, ms) ==
    /\ \A s \in LiveIn(tk) : SoundTask(tk[s])
    /\ \A m \in ms : m.pgd + 2^PGD_ORDER <= POOL_PAGES
    /\ \A s, r \in LiveIn(tk) : s # r => Held(tk[s]) \cap Held(tk[r]) = {}
    /\ \A s \in LiveIn(tk), m \in ms : Held(tk[s]) \cap Dir(m) = {}
    /\ \A m, n \in ms : m # n => Dir(m) \cap Dir(n) = {}
    /\ \A s \in LiveIn(tk) : Held(tk[s]) \cap SlabPages(h) = {}
    /\ \A m \in ms : Dir(m) \cap SlabPages(h) = {}
    /\ used = SlabPages(h) \cup (UNION {Held(tk[s]) : s \in LiveIn(tk)}) \cup (UNION {Dir(m) : m \in ms})
    /\ Cardinality(used) = Cardinality(SlabPages(h)) + Cardinality(LiveIn(tk)) * TaskPages
                           + Cardinality(ms) * 2^PGD_ORDER

\* The objects of a cache's pages, and those its users hold.
Objects(h, c) == CachePages(h, c) \X (0 .. objs_per_page[c] - 1)

InUse(tk, ms, c) ==
    CASE c = "task" -> {tk[s].obj : s \in LiveIn(tk)}
      [] c = "mm"   -> {m.obj : m \in ms}
      [] c = "vma"  -> UNION {{m.mmap[k].obj : k \in DOMAIN m.mmap} : m \in ms}

\* No object has two users.
OneUser(tk, ms) ==
    /\ \A s, r \in LiveIn(tk) : tk[s].obj = tk[r].obj => s = r
    /\ \A m, n \in ms : m.obj = n.obj => m = n
    /\ \A m, n \in ms : \A k \in DOMAIN m.mmap, j \in DOMAIN n.mmap :
           m.mmap[k].obj = n.mmap[j].obj => m = n /\ k = j

\* An object is in use or on its cache's free list, never both.
ObjectsOK(h, fl, tk, ms) ==
    /\ OneUser(tk, ms)
    /\ \A c \in Cache : /\ InUse(tk, ms, c) \cap fl[c] = {}
                        /\ InUse(tk, ms, c) \cup fl[c] = Objects(h, c)

CountsOK(h, fl, total, free) ==
    \A c \in Cache : /\ total[c] = Cardinality(Objects(h, c))
                     /\ free[c] = Cardinality(fl[c])

\* The inductive invariant.
IInv == /\ TypeOK
        /\ free_count = POOL_PAGES - Cardinality(bitmap)
        /\ PagesOK(bitmap, hdr, task, mms)
        /\ ObjectsOK(hdr, freelist, task, mms)
        /\ CountsOK(hdr, freelist, total_objs, free_objs)
        /\ ~asserted

-----------------------------------------------------------------------------
(* Sizes of blocks *)

\* A power of two is a positive number.
LEMMA PowerFacts == 2^0 = 1 /\ \A n \in Nat : 2^n \in Nat /\ 2^n >= 1
  <1>1. 2^0 = 1
    <2>1. Cardinality(SUBSET {}) = 2^Cardinality({})
      BY Zenon, FS_EmptySet, FS_SUBSET
    <2>2. SUBSET {} = {{}}
      OBVIOUS
    <2>3. Cardinality({{}}) = 1
      BY Zenon, FS_Singleton
    <2> QED BY <2>1, <2>2, <2>3, FS_EmptySet
  <1>2. ASSUME NEW n \in Nat PROVE 2^n \in Nat /\ 2^n >= 1
    <2>1. IsFiniteSet(1 .. n) /\ Cardinality(1 .. n) = n
      BY FS_Interval
    <2>2. IsFiniteSet(SUBSET (1 .. n)) /\ Cardinality(SUBSET (1 .. n)) = 2^n
      BY Zenon, <2>1, FS_SUBSET
    <2>3. Cardinality(SUBSET (1 .. n)) \in Nat
      BY <2>2, FS_CardinalityType
    <2>4. SUBSET (1 .. n) # {}
      BY Zenon
    <2>5. Cardinality(SUBSET (1 .. n)) # 0
      BY <2>2, <2>4, FS_EmptySet
    <2> QED BY <2>2, <2>3, <2>5
  <1> QED BY <1>1, <1>2

\* The orders alloc_pages() is called with are naturals, and so are the block sizes.
LEMMA OrderFacts == /\ USER_MEM_ORDER \in Nat /\ PGD_ORDER \in Nat
                    /\ 2^USER_MEM_ORDER \in Nat /\ 2^USER_MEM_ORDER >= 1
                    /\ 2^PGD_ORDER \in Nat /\ 2^PGD_ORDER >= 1
                    /\ TaskPages \in Nat
  <1>1. USER_MEM_ORDER \in Nat /\ PGD_ORDER \in Nat
    BY OrdersAssumption
  <1> QED BY <1>1, PowerFacts DEF TaskPages

\* The pool is finite and has POOL_PAGES pages.
LEMMA PageFacts == Page \subseteq Nat /\ IsFiniteSet(Page) /\ Cardinality(Page) = POOL_PAGES
  <1>1. Page \subseteq Nat
    BY OrdersAssumption DEF Page
  <1>2. /\ IsFiniteSet(0 .. POOL_PAGES - 1)
        /\ Cardinality(0 .. POOL_PAGES - 1) = IF 0 > POOL_PAGES - 1 THEN 0 ELSE POOL_PAGES - 1 - 0 + 1
    BY FS_Interval, OrdersAssumption
  <1> QED BY <1>1, <1>2, OrdersAssumption DEF Page

\* A block of the pool has as many pages as its order says.
LEMMA BlockFacts ==
  ASSUME NEW i \in Nat, NEW o \in Nat
  PROVE  /\ IsFiniteSet(Block(i, o)) /\ Cardinality(Block(i, o)) = 2^o
         /\ i \in Block(i, o)
         /\ i + 2^o <= POOL_PAGES => Block(i, o) \subseteq Page
  <1> DEFINE w == 2^o
  <1>1. w \in Nat /\ w >= 1
    BY PowerFacts
  <1>2. Block(i, o) = i .. i + w - 1
    BY DEF Block
  <1> HIDE DEF w
  <1>3. /\ IsFiniteSet(i .. i + w - 1)
        /\ Cardinality(i .. i + w - 1) = IF i > i + w - 1 THEN 0 ELSE i + w - 1 - i + 1
    BY <1>1, FS_Interval
  <1>4. Cardinality(i .. i + w - 1) = w
    BY <1>1, <1>3
  <1>5. i + w <= POOL_PAGES => i .. i + w - 1 \subseteq Page
    BY <1>1, OrdersAssumption DEF Page
  <1>6. i \in i .. i + w - 1
    BY <1>1
  <1> QED BY <1>2, <1>3, <1>4, <1>5, <1>6 DEF w

\* A block of order 0 is its page.
LEMMA OnePage ==
  ASSUME NEW i \in Nat
  PROVE  Block(i, 0) = {i}
  BY PowerFacts DEF Block

\* The pages of a task, as many as do_fork() counts.
LEMMA HeldFacts ==
  ASSUME NEW t \in TaskMem, SoundTask(t)
  PROVE  /\ Held(t) \subseteq Page /\ IsFiniteSet(Held(t))
         /\ Cardinality(Held(t)) = TaskPages
         /\ Block(t.user, USER_MEM_ORDER) \subseteq Held(t)
         /\ Block(t.kstack, 0) \subseteq Held(t)
         /\ Block(t.pgd, PGD_ORDER) \subseteq Held(t)
         /\ t.kstack \in Held(t)
  <1> DEFINE U == Block(t.user, USER_MEM_ORDER)
             K == Block(t.kstack, 0)
             P == Block(t.pgd, PGD_ORDER)
  <1>1. t.user \in Nat /\ t.kstack \in Nat /\ t.pgd \in Nat
    BY Zenon, PageFacts DEF TaskMem
  <1>2. /\ IsFiniteSet(U) /\ Cardinality(U) = 2^USER_MEM_ORDER /\ U \subseteq Page
        /\ IsFiniteSet(P) /\ Cardinality(P) = 2^PGD_ORDER /\ P \subseteq Page
    BY <1>1, BlockFacts, OrderFacts DEF SoundTask
  <1>3. K = {t.kstack} /\ IsFiniteSet(K) /\ Cardinality(K) = 1 /\ K \subseteq Page
    BY ZenonT(30), <1>1, OnePage, FS_Singleton DEF TaskMem
  <1>4. U \cap K = {} /\ U \cap P = {} /\ K \cap P = {} /\ Held(t) = U \cup K \cup P
    BY DEF SoundTask, Held
  <1> HIDE DEF U, K, P
  <1>5. IsFiniteSet(U \cup K) /\ Cardinality(U \cup K) = 2^USER_MEM_ORDER + 1 - Cardinality({})
    BY SMTT(30), <1>2, <1>3, <1>4, FS_Union
  <1>6. (U \cup K) \cap P = {}
    BY <1>4
  <1>7. /\ IsFiniteSet(U \cup K \cup P)
        /\ Cardinality(U \cup K \cup P) = Cardinality(U \cup K) + Cardinality(P) - Cardinality({})
    BY <1>2, <1>5, <1>6, FS_Union
  <1>8. Cardinality(Held(t)) = TaskPages
    BY <1>2, <1>4, <1>5, <1>7, OrderFacts, FS_EmptySet DEF TaskPages
  <1>9. Held(t) \subseteq Page /\ IsFiniteSet(Held(t))
    BY <1>2, <1>3, <1>4, <1>7
  <1> QED BY <1>3, <1>4, <1>8, <1>9 DEF U, K, P

\* The page directory of an address space lies in the pool and has 2^PGD_ORDER pages.
LEMMA DirFacts ==
  ASSUME NEW m \in Space, m.pgd + 2^PGD_ORDER <= POOL_PAGES
  PROVE  /\ Dir(m) \subseteq Page /\ IsFiniteSet(Dir(m))
         /\ Cardinality(Dir(m)) = 2^PGD_ORDER
         /\ m.pgd \in Dir(m)
  <1>1. m.pgd \in Nat
    BY Zenon, PageFacts DEF Space
  <1> QED BY <1>1, BlockFacts, OrderFacts DEF Dir

\* The block alloc_pages() finds is free and lies in the pool.
LEMMA AllocFacts ==
  ASSUME NEW used, NEW o \in Nat, NEW i \in AllocPages(used, o)
  PROVE  /\ i \in Page /\ i \in Nat
         /\ i + 2^o <= POOL_PAGES
         /\ Block(i, o) \cap used = {}
         /\ Block(i, o) \subseteq Page
  <1>1. i \in Page /\ Fits(used, o, i)
    BY DEF AllocPages
  <1> QED BY <1>1, PageFacts, BlockFacts DEF Fits

\* The page a refill takes is free.
LEMMA RefillFacts ==
  ASSUME NEW c \in Cache, NEW p \in Refill(c)
  PROVE  \/ p = None /\ freelist[c] # {}
         \/ p # None /\ p \in Page /\ p \notin bitmap /\ freelist[c] = {}
  <1>1. CASE freelist[c] # {}
    BY <1>1 DEF Refill
  <1>2. CASE freelist[c] = {}
    <2>1. p \in AllocPages(bitmap, 0)
      BY <1>2 DEF Refill
    <2>2. p \in Page /\ Block(p, 0) \cap bitmap = {} /\ Block(p, 0) = {p}
      BY <2>1, AllocFacts, OnePage
    <2> QED BY <1>2, <2>2, NoneAssumption
  <1> QED BY <1>1, <1>2

\* Products of a count that goes up or down by one.
LEMMA OneMore ==
  ASSUME NEW a \in Int, NEW k \in Int
  PROVE  (a + 1) * k = a * k + k /\ (a - 1) * k = a * k - k /\ a * k \in Int
  OBVIOUS

\* The cardinality of a disjoint union.
LEMMA AddSet ==
  ASSUME NEW A, NEW B, IsFiniteSet(A), IsFiniteSet(B), A \cap B = {}
  PROVE  /\ IsFiniteSet(A \cup B)
         /\ Cardinality(A \cup B) = Cardinality(A) + Cardinality(B)
         /\ Cardinality(A) \in Nat /\ Cardinality(B) \in Nat
  <1>1. Cardinality(A) \in Nat /\ Cardinality(B) \in Nat
    BY FS_CardinalityType
  <1>2. /\ IsFiniteSet(A \cup B)
        /\ Cardinality(A \cup B) = Cardinality(A) + Cardinality(B) - Cardinality(A \cap B)
    BY FS_Union
  <1>3. Cardinality(A \cap B) = 0
    BY FS_EmptySet
  <1> QED BY <1>1, <1>2, <1>3

\* The cardinality of what is left of a set.
LEMMA TakeSet ==
  ASSUME NEW A, NEW B, IsFiniteSet(A), B \subseteq A
  PROVE  /\ IsFiniteSet(A \ B) /\ IsFiniteSet(B)
         /\ Cardinality(A \ B) = Cardinality(A) - Cardinality(B)
         /\ Cardinality(A) \in Nat /\ Cardinality(B) \in Nat
  <1>1. IsFiniteSet(B) /\ A \cap B = B
    BY FS_Subset
  <1> QED BY Zenon, <1>1, FS_Difference, FS_CardinalityType

-----------------------------------------------------------------------------
(* The page invariant under the changes the actions are made of *)

Typed(used, h, tk, ms) == /\ used \subseteq Page
                          /\ h \in [Page -> Cache \cup {None}]
                          /\ tk \in [Slots -> TaskMem \cup {None}]
                          /\ ms \subseteq Space /\ IsFiniteSet(ms)

\* The counts in PagesOK() are numbers.
LEMMA CountFacts ==
  ASSUME NEW used, NEW h, NEW tk, NEW ms, Typed(used, h, tk, ms)
  PROVE  /\ IsFiniteSet(used) /\ Cardinality(used) \in Nat
         /\ IsFiniteSet(SlabPages(h)) /\ Cardinality(SlabPages(h)) \in Nat
         /\ IsFiniteSet(LiveIn(tk)) /\ Cardinality(LiveIn(tk)) \in Nat
         /\ Cardinality(ms) \in Nat
         /\ Cardinality(LiveIn(tk)) * TaskPages \in Nat
         /\ Cardinality(ms) * 2^PGD_ORDER \in Nat
  <1>1. used \subseteq Page /\ SlabPages(h) \subseteq Page /\ LiveIn(tk) \subseteq Slots /\ IsFiniteSet(ms)
    BY DEF Typed, SlabPages, LiveIn
  <1>2. IsFiniteSet(used) /\ IsFiniteSet(SlabPages(h)) /\ IsFiniteSet(LiveIn(tk))
    BY Zenon, <1>1, PageFacts, SlotsAssumption, FS_Subset
  <1>3. /\ Cardinality(used) \in Nat /\ Cardinality(SlabPages(h)) \in Nat
        /\ Cardinality(LiveIn(tk)) \in Nat /\ Cardinality(ms) \in Nat
    BY <1>1, <1>2, FS_CardinalityType
  <1> QED BY <1>1, <1>2, <1>3, OrderFacts

\* slab_refill() takes a page.
LEMMA RefillPages ==
  ASSUME NEW used, NEW h, NEW tk, NEW ms, Typed(used, h, tk, ms), PagesOK(used, h, tk, ms),
         NEW c \in Cache, NEW p \in Page \ used
  PROVE  /\ PagesOK(used \cup {p}, [h EXCEPT ![p] = c], tk, ms)
         /\ Typed(used \cup {p}, [h EXCEPT ![p] = c], tk, ms)
         /\ Cardinality(used \cup {p}) = Cardinality(used) + 1
  <1> DEFINE h2 == [h EXCEPT ![p] = c]
  <1>1. h2 \in [Page -> Cache \cup {None}] /\ c # None
    BY NoneAssumption DEF Typed
  <1>2. SlabPages(h2) = SlabPages(h) \cup {p}
    BY <1>1 DEF SlabPages, Typed
  <1>3. p \notin SlabPages(h)
    BY DEF PagesOK
  <1>4. Cardinality(used \cup {p}) = Cardinality(used) + 1
    BY Zenon, CountFacts, FS_AddElement
  <1>5. Cardinality(SlabPages(h2)) = Cardinality(SlabPages(h)) + 1
    BY Zenon, <1>2, <1>3, CountFacts, FS_AddElement
  <1>6. /\ \A s \in LiveIn(tk) : p \notin Held(tk[s])
        /\ \A m \in ms : p \notin Dir(m)
    BY DEF PagesOK
  <1> HIDE DEF h2
  <1>7. Cardinality(used \cup {p}) = Cardinality(SlabPages(h2)) + Cardinality(LiveIn(tk)) * TaskPages
                                     + Cardinality(ms) * 2^PGD_ORDER
    BY <1>4, <1>5, CountFacts DEF PagesOK
  <1>8. used \cup {p} = SlabPages(h2) \cup (UNION {Held(tk[s]) : s \in LiveIn(tk)})
                        \cup (UNION {Dir(m) : m \in ms})
    BY <1>2 DEF PagesOK
  <1>9. /\ \A s \in LiveIn(tk) : Held(tk[s]) \cap SlabPages(h2) = {}
        /\ \A m \in ms : Dir(m) \cap SlabPages(h2) = {}
    BY <1>2, <1>6 DEF PagesOK
  <1>10. PagesOK(used \cup {p}, h2, tk, ms)
    BY Zenon, <1>7, <1>8, <1>9 DEF PagesOK
  <1>11. Typed(used \cup {p}, h2, tk, ms)
    BY <1>1 DEF Typed, h2
  <1> QED BY Zenon, <1>4, <1>10, <1>11 DEF h2

\* do_fork() gives a free slot three new blocks.
LEMMA PlaceTask ==
  ASSUME NEW used, NEW h, NEW tk, NEW ms, Typed(used, h, tk, ms), PagesOK(used, h, tk, ms),
         NEW s \in Slots, tk[s] = None,
         NEW t \in TaskMem, SoundTask(t), Held(t) \cap used = {}
  PROVE  /\ PagesOK(used \cup Held(t), h, [tk EXCEPT ![s] = t], ms)
         /\ Typed(used \cup Held(t), h, [tk EXCEPT ![s] = t], ms)
         /\ Cardinality(used \cup Held(t)) = Cardinality(used) + TaskPages
  <1> DEFINE tk2 == [tk EXCEPT ![s] = t]
             L2  == LiveIn(tk2)
  <1>1. t # None
    BY NoneAssumption
  <1>2. L2 = LiveIn(tk) \cup {s} /\ s \notin LiveIn(tk)
    BY <1>1 DEF LiveIn, Typed
  <1>3. tk2[s] = t /\ \A r \in LiveIn(tk) : tk2[r] = tk[r]
    BY <1>2 DEF LiveIn, Typed
  <1>4. Typed(used \cup Held(t), h, tk2, ms)
    BY HeldFacts DEF Typed
  <1>5. Cardinality(L2) = Cardinality(LiveIn(tk)) + 1
    BY Zenon, <1>2, CountFacts, FS_AddElement
  <1>6. Cardinality(used \cup Held(t)) = Cardinality(used) + TaskPages
    BY HeldFacts, CountFacts, AddSet
  <1> HIDE DEF tk2, L2
  <1>7. Cardinality(L2) * TaskPages = Cardinality(LiveIn(tk)) * TaskPages + TaskPages
    BY <1>5, OneMore, CountFacts, OrderFacts
  <1>8. Cardinality(used \cup Held(t)) = Cardinality(SlabPages(h)) + Cardinality(L2) * TaskPages
                                         + Cardinality(ms) * 2^PGD_ORDER
    BY <1>6, <1>7, CountFacts, OrderFacts DEF PagesOK
  <1>9. \A r \in LiveIn(tk) : Held(tk[r]) \cap Held(t) = {}
    BY DEF PagesOK
  <1>10. /\ \A m \in ms : Held(t) \cap Dir(m) = {}
         /\ Held(t) \cap SlabPages(h) = {}
    BY DEF PagesOK
  <1>11. (UNION {Held(tk2[r]) : r \in L2}) = (UNION {Held(tk[r]) : r \in LiveIn(tk)}) \cup Held(t)
    BY Zenon, <1>2, <1>3
  <1>12. used \cup Held(t) = SlabPages(h) \cup (UNION {Held(tk2[r]) : r \in L2})
                             \cup (UNION {Dir(m) : m \in ms})
    BY <1>11 DEF PagesOK
  <1>13. \A r \in L2 : \/ r = s /\ tk2[r] = t
                       \/ r # s /\ r \in LiveIn(tk) /\ tk2[r] = tk[r]
    BY Zenon, <1>2, <1>3
  <1>14. \A r \in L2 : SoundTask(tk2[r]) /\ Held(tk2[r]) \cap SlabPages(h) = {}
    BY Zenon, <1>13, <1>10 DEF PagesOK
  <1>15. \A r \in L2, m \in ms : Held(tk2[r]) \cap Dir(m) = {}
    BY <1>13, <1>10 DEF PagesOK
  <1>16. \A r, q \in L2 : r # q => Held(tk2[r]) \cap Held(tk2[q]) = {}
    BY Zenon, <1>13, <1>9 DEF PagesOK
  <1>17. PagesOK(used \cup Held(t), h, tk2, ms)
    BY Zenon, <1>8, <1>12, <1>14, <1>15, <1>16 DEF PagesOK, L2
  <1> QED BY <1>4, <1>6, <1>17 DEF tk2

\* The reaper takes them back.
LEMMA DropTask ==
  ASSUME NEW used, NEW h, NEW tk, NEW ms, Typed(used, h, tk, ms), PagesOK(used, h, tk, ms),
         NEW s \in LiveIn(tk)
  PROVE  /\ PagesOK(used \ Held(tk[s]), h, [tk EXCEPT ![s] = None], ms)
         /\ Typed(used \ Held(tk[s]), h, [tk EXCEPT ![s] = None], ms)
         /\ Cardinality(used \ Held(tk[s])) = Cardinality(used) - TaskPages
  <1> DEFINE t   == tk[s]
             tk2 == [tk EXCEPT ![s] = None]
             L2  == LiveIn(tk2)
  <1>1. t \in TaskMem /\ SoundTask(t) /\ s \in Slots
    BY DEF LiveIn, Typed, PagesOK
  <1>2. L2 = LiveIn(tk) \ {s}
    BY DEF LiveIn, Typed
  <1>3. \A r \in L2 : r # s /\ r \in LiveIn(tk) /\ tk2[r] = tk[r]
    BY <1>2 DEF LiveIn, Typed
  <1>4. Typed(used \ Held(t), h, tk2, ms)
    BY Zenon DEF Typed
  <1>5. Cardinality(L2) = Cardinality(LiveIn(tk)) - 1
    BY Zenon, <1>2, CountFacts, FS_RemoveElement
  <1>6. Held(t) \subseteq used
    BY DEF PagesOK
  <1>7. Cardinality(used \ Held(t)) = Cardinality(used) - TaskPages
    BY Zenon, <1>1, <1>6, HeldFacts, CountFacts, TakeSet
  <1> HIDE DEF tk2, L2
  <1>8. Cardinality(L2) * TaskPages = Cardinality(LiveIn(tk)) * TaskPages - TaskPages
    BY <1>5, OneMore, CountFacts, OrderFacts
  <1>9. Cardinality(used \ Held(t)) = Cardinality(SlabPages(h)) + Cardinality(L2) * TaskPages
                                      + Cardinality(ms) * 2^PGD_ORDER
    BY <1>7, <1>8, CountFacts, OrderFacts DEF PagesOK
  <1>10. /\ \A r \in L2 : Held(tk2[r]) \cap Held(t) = {}
         /\ \A m \in ms : Held(t) \cap Dir(m) = {}
         /\ Held(t) \cap SlabPages(h) = {}
    BY <1>3 DEF PagesOK
  <1>11. (UNION {Held(tk[r]) : r \in LiveIn(tk)}) = (UNION {Held(tk2[r]) : r \in L2}) \cup Held(t)
    <2>1. \A r \in LiveIn(tk) : r = s \/ (r \in L2 /\ tk2[r] = tk[r])
      BY Zenon, <1>2, <1>3
    <2> QED BY <2>1, <1>3
  <1>12. used \ Held(t) = SlabPages(h) \cup (UNION {Held(tk2[r]) : r \in L2})
                          \cup (UNION {Dir(m) : m \in ms})
    <2>1. used = SlabPages(h) \cup ((UNION {Held(tk2[r]) : r \in L2}) \cup Held(t))
                 \cup (UNION {Dir(m) : m \in ms})
      BY Zenon, <1>11 DEF PagesOK
    <2> QED BY <2>1, <1>10
  <1>13. PagesOK(used \ Held(t), h, tk2, ms)
    BY Zenon, <1>3, <1>9, <1>12 DEF PagesOK, L2
  <1> QED BY Zenon, <1>4, <1>7, <1>13 DEF tk2

\* mm_alloc() gives an address space a page directory.
LEMMA PlaceDir ==
  ASSUME NEW used, NEW h, NEW tk, NEW ms, Typed(used, h, tk, ms), PagesOK(used, h, tk, ms),
         NEW m \in Space, m.pgd + 2^PGD_ORDER <= POOL_PAGES, Dir(m) \cap used = {}
  PROVE  /\ PagesOK(used \cup Dir(m), h, tk, ms \cup {m})
         /\ Typed(used \cup Dir(m), h, tk, ms \cup {m})
         /\ Cardinality(used \cup Dir(m)) = Cardinality(used) + 2^PGD_ORDER
  <1> DEFINE ms2 == ms \cup {m}
  <1>1. m \notin ms
    <2> SUFFICES ASSUME m \in ms PROVE FALSE
      BY Zenon
    <2>1. m.pgd \in Dir(m) /\ Dir(m) \subseteq used
      BY DirFacts DEF PagesOK
    <2> QED BY <2>1
  <1>2. IsFiniteSet(ms2) /\ Cardinality(ms2) = Cardinality(ms) + 1
    BY Zenon, <1>1, FS_AddElement DEF Typed
  <1>3. Typed(used \cup Dir(m), h, tk, ms2)
    BY <1>2, DirFacts DEF Typed
  <1>4. Cardinality(used \cup Dir(m)) = Cardinality(used) + 2^PGD_ORDER
    BY Zenon, DirFacts, CountFacts, AddSet
  <1>5. Cardinality(ms2) * 2^PGD_ORDER = Cardinality(ms) * 2^PGD_ORDER + 2^PGD_ORDER
    BY <1>2, OneMore, CountFacts, OrderFacts
  <1>6. /\ \A s \in LiveIn(tk) : Held(tk[s]) \cap Dir(m) = {}
        /\ \A n \in ms : Dir(n) \cap Dir(m) = {}
        /\ Dir(m) \cap SlabPages(h) = {}
    BY DEF PagesOK
  <1>7. (UNION {Dir(n) : n \in ms2}) = (UNION {Dir(n) : n \in ms}) \cup Dir(m)
    OBVIOUS
  <1>8. \A n \in ms2 : n = m \/ (n # m /\ n \in ms)
    BY Zenon
  <1> HIDE DEF ms2
  <1>9. Cardinality(used \cup Dir(m)) = Cardinality(SlabPages(h)) + Cardinality(LiveIn(tk)) * TaskPages
                                        + Cardinality(ms2) * 2^PGD_ORDER
    BY <1>4, <1>5, CountFacts, OrderFacts DEF PagesOK
  <1>10. used \cup Dir(m) = SlabPages(h) \cup (UNION {Held(tk[s]) : s \in LiveIn(tk)})
                            \cup (UNION {Dir(n) : n \in ms2})
    BY Zenon, <1>7 DEF PagesOK
  <1>11. \A n, l \in ms2 : n # l => Dir(n) \cap Dir(l) = {}
    BY <1>6, <1>8 DEF PagesOK
  <1>12. PagesOK(used \cup Dir(m), h, tk, ms2)
    BY Zenon, <1>6, <1>8, <1>9, <1>10, <1>11 DEF PagesOK
  <1> QED BY <1>3, <1>4, <1>12 DEF ms2

\* mm_free() takes it back.
LEMMA DropDir ==
  ASSUME NEW used, NEW h, NEW tk, NEW ms, Typed(used, h, tk, ms), PagesOK(used, h, tk, ms),
         NEW m \in ms
  PROVE  /\ PagesOK(used \ Dir(m), h, tk, ms \ {m})
         /\ Typed(used \ Dir(m), h, tk, ms \ {m})
         /\ Cardinality(used \ Dir(m)) = Cardinality(used) - 2^PGD_ORDER
  <1> DEFINE ms2 == ms \ {m}
  <1>1. m \in Space /\ m.pgd + 2^PGD_ORDER <= POOL_PAGES
    BY DEF Typed, PagesOK
  <1>2. IsFiniteSet(ms2) /\ Cardinality(ms2) = Cardinality(ms) - 1
    BY FS_RemoveElement DEF Typed
  <1>3. Typed(used \ Dir(m), h, tk, ms2)
    BY <1>2 DEF Typed
  <1>4. Dir(m) \subseteq used
    BY DEF PagesOK
  <1>5. Cardinality(used \ Dir(m)) = Cardinality(used) - 2^PGD_ORDER
    BY Zenon, <1>1, <1>4, DirFacts, CountFacts, TakeSet
  <1>6. Cardinality(ms2) * 2^PGD_ORDER = Cardinality(ms) * 2^PGD_ORDER - 2^PGD_ORDER
    BY <1>2, OneMore, CountFacts, OrderFacts
  <1>7. /\ \A s \in LiveIn(tk) : Held(tk[s]) \cap Dir(m) = {}
        /\ \A n \in ms2 : Dir(n) \cap Dir(m) = {}
        /\ Dir(m) \cap SlabPages(h) = {}
    BY DEF PagesOK
  <1>8. (UNION {Dir(n) : n \in ms}) = (UNION {Dir(n) : n \in ms2}) \cup Dir(m)
    OBVIOUS
  <1>9. \A n \in ms2 : n # m /\ n \in ms
    BY Zenon
  <1> HIDE DEF ms2
  <1>10. Cardinality(used \ Dir(m)) = Cardinality(SlabPages(h)) + Cardinality(LiveIn(tk)) * TaskPages
                                      + Cardinality(ms2) * 2^PGD_ORDER
    BY <1>5, <1>6, CountFacts, OrderFacts DEF PagesOK
  <1>11. used \ Dir(m) = SlabPages(h) \cup (UNION {Held(tk[s]) : s \in LiveIn(tk)})
                         \cup (UNION {Dir(n) : n \in ms2})
    <2>1. used = SlabPages(h) \cup (UNION {Held(tk[s]) : s \in LiveIn(tk)})
                 \cup ((UNION {Dir(n) : n \in ms2}) \cup Dir(m))
      BY <1>8 DEF PagesOK
    <2> QED BY Zenon, <2>1, <1>7
  <1>12. PagesOK(used \ Dir(m), h, tk, ms2)
    BY Zenon, <1>9, <1>10, <1>11 DEF PagesOK
  <1> QED BY Zenon, <1>3, <1>5, <1>12 DEF ms2

\* vma_create() changes an address space, not its page directory.
LEMMA SameDir ==
  ASSUME NEW used, NEW h, NEW tk, NEW ms, Typed(used, h, tk, ms), PagesOK(used, h, tk, ms),
         NEW m \in ms, NEW n \in Space, n.pgd = m.pgd
  PROVE  /\ PagesOK(used, h, tk, (ms \ {m}) \cup {n})
         /\ Typed(used, h, tk, (ms \ {m}) \cup {n})
  <1>1. Dir(n) = Dir(m)
    BY Zenon DEF Dir
  <1>2. /\ PagesOK(used \ Dir(m), h, tk, ms \ {m})
        /\ Typed(used \ Dir(m), h, tk, ms \ {m})
    BY Zenon, DropDir
  <1>3. n.pgd + 2^PGD_ORDER <= POOL_PAGES
    BY DEF PagesOK
  <1>4. Dir(n) \cap (used \ Dir(m)) = {}
    BY <1>1
  <1>5. (used \ Dir(m)) \cup Dir(n) = used
    BY <1>1 DEF PagesOK
  <1>6. /\ PagesOK((used \ Dir(m)) \cup Dir(n), h, tk, (ms \ {m}) \cup {n})
        /\ Typed((used \ Dir(m)) \cup Dir(n), h, tk, (ms \ {m}) \cup {n})
    BY <1>2, <1>3, <1>4, PlaceDir
  <1> QED BY Zenon, <1>5, <1>6

-----------------------------------------------------------------------------
(* The object invariant under the changes the actions are made of *)

\* The objects in use are those of the task slots and those of the address spaces.
LEMMA InUseIs ==
  ASSUME NEW tk, NEW ms
  PROVE  /\ InUse(tk, ms, "task") = {tk[s].obj : s \in LiveIn(tk)}
         /\ InUse(tk, ms, "mm") = {m.obj : m \in ms}
         /\ InUse(tk, ms, "vma") = UNION {{m.mmap[k].obj : k \in DOMAIN m.mmap} : m \in ms}
  BY DEF InUse

\* The objects of a cache are finitely many, and so are the free ones.
LEMMA ObjectsFinite ==
  ASSUME NEW h, NEW fl, NEW tk, NEW ms, ObjectsOK(h, fl, tk, ms), NEW c \in Cache
  PROVE  /\ IsFiniteSet(Objects(h, c)) /\ Cardinality(Objects(h, c)) \in Nat
         /\ fl[c] \subseteq Objects(h, c)
         /\ IsFiniteSet(fl[c]) /\ Cardinality(fl[c]) \in Nat
  <1>1. IsFiniteSet(CachePages(h, c))
    <2>1. CachePages(h, c) \subseteq Page
      BY DEF CachePages
    <2> QED BY Zenon, <2>1, PageFacts, FS_Subset
  <1>2. IsFiniteSet(0 .. objs_per_page[c] - 1)
    <2>1. objs_per_page[c] \in Nat
      BY CacheAssumption
    <2> QED BY <2>1, FS_Interval
  <1>3. IsFiniteSet(Objects(h, c))
    BY Zenon, <1>1, <1>2, FS_Product DEF Objects
  <1>4. fl[c] \subseteq Objects(h, c)
    BY DEF ObjectsOK
  <1> QED BY Zenon, <1>3, <1>4, FS_Subset, FS_CardinalityType

\* slab_refill() carves a page into objects.
LEMMA CarvedFacts ==
  ASSUME NEW c \in Cache, NEW p
  PROVE  /\ IsFiniteSet(Carved(c, p))
         /\ Cardinality(Carved(c, p)) = objs_per_page[c]
  <1> DEFINE n == objs_per_page[c]
             J == 0 .. n - 1
  <1>1. n \in Nat \ {0}
    BY CacheAssumption
  <1>2. Carved(c, p) = {p} \X J
    BY DEF Carved
  <1> HIDE DEF n
  <1>3. IsFiniteSet(J) /\ Cardinality(J) = n
    BY <1>1, FS_Interval
  <1>4. IsFiniteSet({p}) /\ Cardinality({p}) = 1
    BY Zenon, FS_Singleton
  <1> HIDE DEF J
  <1>5. /\ IsFiniteSet({p} \X J)
        /\ Cardinality({p} \X J) = Cardinality({p}) * Cardinality(J)
    BY Zenon, <1>3, <1>4, FS_Product
  <1>6. Cardinality({p} \X J) = n
    BY <1>1, <1>3, <1>4, <1>5
  <1> QED BY <1>2, <1>5, <1>6 DEF n

\* cache_refill() carves a fresh page into free objects; the object invariant and the counters hold with it.
LEMMA RefillObjects ==
  ASSUME NEW used, NEW h, NEW fl, NEW tk, NEW ms, NEW total, NEW free,
         Typed(used, h, tk, ms), ObjectsOK(h, fl, tk, ms), CountsOK(h, fl, total, free),
         fl \in [Cache -> SUBSET Object], total \in [Cache -> Nat], free \in [Cache -> Nat],
         NEW c \in Cache, NEW p \in Page, h[p] = None, fl[c] = {}
  PROVE  LET h2 == [h EXCEPT ![p] = c]
             fl2 == [fl EXCEPT ![c] = Carved(c, p)]
             n == objs_per_page[c]
         IN  /\ ObjectsOK(h2, fl2, tk, ms)
             /\ CountsOK(h2, fl2, [total EXCEPT ![c] = @ + n], [free EXCEPT ![c] = @ + n])
             /\ fl2 \in [Cache -> SUBSET Object]
  <1> DEFINE h2 == [h EXCEPT ![p] = c]
             fl2 == [fl EXCEPT ![c] = Carved(c, p)]
             n == objs_per_page[c]
  <1>1. n \in Nat \ {0} /\ c # None
    BY Zenon, CacheAssumption, NoneAssumption
  <1>2. \A d \in Cache : CachePages(h2, d) = IF d = c THEN CachePages(h, d) \cup {p} ELSE CachePages(h, d)
    BY <1>1, NoneAssumption DEF CachePages, Typed
  <1>3. Objects(h2, c) = Objects(h, c) \cup Carved(c, p) /\ Objects(h, c) \cap Carved(c, p) = {}
    <2>1. CachePages(h2, c) = CachePages(h, c) \cup {p} /\ p \notin CachePages(h, c)
      BY <1>1, <1>2 DEF CachePages
    <2> QED BY Zenon, <2>1 DEF Objects, Carved
  <1>4. \A d \in Cache : d # c => Objects(h2, d) = Objects(h, d)
    BY Zenon, <1>2 DEF Objects
  <1>5. fl2[c] = Carved(c, p) /\ \A d \in Cache : d # c => fl2[d] = fl[d]
    BY Zenon
  <1>6. Carved(c, p) \subseteq Object
    BY <1>1 DEF Carved, Object
  <1>7. fl2 \in [Cache -> SUBSET Object]
    BY Zenon, <1>6
  <1> HIDE DEF h2, fl2
  <1>8. ObjectsOK(h2, fl2, tk, ms)
    <2>1. ASSUME NEW d \in Cache
          PROVE  /\ InUse(tk, ms, d) \cap fl2[d] = {}
                 /\ InUse(tk, ms, d) \cup fl2[d] = Objects(h2, d)
      <3>1. InUse(tk, ms, d) \cap fl[d] = {} /\ InUse(tk, ms, d) \cup fl[d] = Objects(h, d)
        BY Zenon DEF ObjectsOK
      <3>2. CASE d = c
        BY Zenon, <3>1, <3>2, <1>3, <1>5
      <3>3. CASE d # c
        BY Zenon, <3>1, <3>3, <1>4, <1>5
      <3> QED BY Zenon, <3>2, <3>3
    <2> QED BY Zenon, <2>1 DEF ObjectsOK
  <1>9. Cardinality(Objects(h2, c)) = Cardinality(Objects(h, c)) + n
    BY Zenon, <1>3, CarvedFacts, ObjectsFinite, AddSet
  <1>10. Cardinality(fl2[c]) = n /\ free[c] = 0
    BY Zenon, <1>5, CarvedFacts, FS_EmptySet DEF CountsOK
  <1>11. CountsOK(h2, fl2, [total EXCEPT ![c] = @ + n], [free EXCEPT ![c] = @ + n])
    BY <1>1, <1>4, <1>5, <1>9, <1>10 DEF CountsOK
  <1> QED BY Zenon, <1>7, <1>8, <1>11 DEF h2, fl2

\* kmem_cache_alloc() and kmem_cache_free() keep the counters right.
LEMMA CountTake ==
  ASSUME NEW h, NEW fl, NEW tk, NEW ms, NEW total, NEW free,
         ObjectsOK(h, fl, tk, ms), CountsOK(h, fl, total, free),
         fl \in [Cache -> SUBSET Object], free \in [Cache -> Nat],
         NEW c \in Cache, NEW o \in fl[c]
  PROVE  /\ CountsOK(h, [fl EXCEPT ![c] = @ \ {o}], total, [free EXCEPT ![c] = @ - 1])
         /\ [free EXCEPT ![c] = @ - 1] \in [Cache -> Nat]
  <1>1. Cardinality(fl[c] \ {o}) = Cardinality(fl[c]) - 1
    BY Zenon, ObjectsFinite, FS_RemoveElement
  <1>2. IsFiniteSet(fl[c] \ {o})
    BY Zenon, ObjectsFinite, FS_RemoveElement
  <1>3. Cardinality(fl[c] \ {o}) \in Nat
    BY <1>2, FS_CardinalityType
  <1> QED BY <1>1, <1>3 DEF CountsOK

\* do_fork() takes a task_struct.
LEMMA TakeTask ==
  ASSUME NEW used, NEW h, NEW fl, NEW tk, NEW ms,
         Typed(used, h, tk, ms), ObjectsOK(h, fl, tk, ms), fl \in [Cache -> SUBSET Object],
         NEW s \in Slots, tk[s] = None, NEW t \in TaskMem, t.obj \in fl["task"]
  PROVE  ObjectsOK(h, [fl EXCEPT !["task"] = @ \ {t.obj}], [tk EXCEPT ![s] = t], ms)
  <1> DEFINE fl2 == [fl EXCEPT !["task"] = @ \ {t.obj}]
             tk2 == [tk EXCEPT ![s] = t]
             L2  == LiveIn(tk2)
  <1>1. L2 = LiveIn(tk) \cup {s} /\ s \notin LiveIn(tk)
    BY NoneAssumption DEF LiveIn, Typed
  <1>2. tk2[s] = t /\ \A r \in LiveIn(tk) : tk2[r] = tk[r]
    BY <1>1 DEF LiveIn, Typed
  <1>3. "task" \in Cache /\ "mm" \in Cache /\ "vma" \in Cache /\ Cache = {"task", "mm", "vma"}
    BY DEF Cache
  <1>4. fl2["task"] = fl["task"] \ {t.obj} /\ fl2["mm"] = fl["mm"] /\ fl2["vma"] = fl["vma"]
    BY Zenon, <1>3
  <1> HIDE DEF fl2, tk2, L2
  <1>5. InUse(tk2, ms, "task") = InUse(tk, ms, "task") \cup {t.obj}
    BY <1>1, <1>2, InUseIs DEF L2
  <1>6. InUse(tk2, ms, "mm") = InUse(tk, ms, "mm") /\ InUse(tk2, ms, "vma") = InUse(tk, ms, "vma")
    BY Zenon, InUseIs
  <1>7. /\ InUse(tk, ms, "task") \cap fl["task"] = {}
        /\ InUse(tk, ms, "task") \cup fl["task"] = Objects(h, "task")
    BY <1>3 DEF ObjectsOK
  <1>8. \A r \in LiveIn(tk) : tk[r].obj # t.obj
    BY SMTT(30), <1>7, InUseIs
  <1>9. OneUser(tk2, ms)
    <2>1. \A r \in L2 : (r = s /\ tk2[r] = t) \/ (r # s /\ r \in LiveIn(tk) /\ tk2[r] = tk[r])
      BY Zenon, <1>1, <1>2
    <2>2. \A r, q \in L2 : tk2[r].obj = tk2[q].obj => r = q
      BY Zenon, <2>1, <1>8 DEF ObjectsOK, OneUser
    <2> QED BY Zenon, <2>2 DEF ObjectsOK, OneUser, L2
  <1>10. \A c \in Cache : InUse(tk2, ms, c) \cap fl2[c] = {} /\ InUse(tk2, ms, c) \cup fl2[c] = Objects(h, c)
    <2>1. InUse(tk2, ms, "task") \cap fl2["task"] = {} /\ InUse(tk2, ms, "task") \cup fl2["task"] = Objects(h, "task")
      BY Zenon, <1>4, <1>5, <1>7
    <2> QED BY Zenon, <2>1, <1>3, <1>4, <1>6 DEF ObjectsOK
  <1> QED BY Zenon, <1>9, <1>10 DEF ObjectsOK, fl2, tk2

\* The reaper gives it back.
LEMMA GiveTask ==
  ASSUME NEW used, NEW h, NEW fl, NEW tk, NEW ms,
         Typed(used, h, tk, ms), ObjectsOK(h, fl, tk, ms), fl \in [Cache -> SUBSET Object],
         NEW s \in LiveIn(tk)
  PROVE  /\ ObjectsOK(h, [fl EXCEPT !["task"] = @ \cup {tk[s].obj}], [tk EXCEPT ![s] = None], ms)
         /\ tk[s].obj \notin fl["task"]
         /\ tk[s].obj \in Objects(h, "task")
  <1> DEFINE o   == tk[s].obj
             fl2 == [fl EXCEPT !["task"] = @ \cup {o}]
             tk2 == [tk EXCEPT ![s] = None]
             L2  == LiveIn(tk2)
  <1>1. L2 = LiveIn(tk) \ {s}
    BY DEF LiveIn, Typed
  <1>2. \A r \in L2 : r # s /\ r \in LiveIn(tk) /\ tk2[r] = tk[r]
    BY <1>1 DEF LiveIn, Typed
  <1>3. "task" \in Cache /\ "mm" \in Cache /\ "vma" \in Cache /\ Cache = {"task", "mm", "vma"}
    BY DEF Cache
  <1>4. fl2["task"] = fl["task"] \cup {o} /\ fl2["mm"] = fl["mm"] /\ fl2["vma"] = fl["vma"]
    BY Zenon, <1>3
  <1> HIDE DEF fl2, tk2, L2
  <1>5. InUse(tk, ms, "task") = InUse(tk2, ms, "task") \cup {o} /\ o \notin InUse(tk2, ms, "task")
    <2>1. \A r \in LiveIn(tk) : r = s \/ (r \in L2 /\ tk2[r] = tk[r])
      BY Zenon, <1>1, <1>2
    <2>2. InUse(tk2, ms, "task") = {tk2[r].obj : r \in L2}
      BY Zenon, InUseIs DEF L2
    <2>3. InUse(tk, ms, "task") = {tk[r].obj : r \in LiveIn(tk)}
      BY Zenon, InUseIs
    <2>4. o \notin InUse(tk2, ms, "task")
      BY <2>2, <1>2 DEF ObjectsOK, OneUser
    <2> QED BY SMTT(30), <2>1, <2>2, <2>3, <2>4, <1>2
  <1>6. InUse(tk2, ms, "mm") = InUse(tk, ms, "mm") /\ InUse(tk2, ms, "vma") = InUse(tk, ms, "vma")
    BY Zenon, InUseIs
  <1>7. /\ InUse(tk, ms, "task") \cap fl["task"] = {}
        /\ InUse(tk, ms, "task") \cup fl["task"] = Objects(h, "task")
    BY <1>3 DEF ObjectsOK
  <1>8. OneUser(tk2, ms)
    <2>1. \A r, q \in L2 : tk2[r].obj = tk2[q].obj => r = q
      BY Zenon, <1>2 DEF ObjectsOK, OneUser
    <2> QED BY Zenon, <2>1 DEF ObjectsOK, OneUser, L2
  <1>9. \A c \in Cache : InUse(tk2, ms, c) \cap fl2[c] = {} /\ InUse(tk2, ms, c) \cup fl2[c] = Objects(h, c)
    <2>1. InUse(tk2, ms, "task") \cap fl2["task"] = {} /\ InUse(tk2, ms, "task") \cup fl2["task"] = Objects(h, "task")
      BY Zenon, <1>4, <1>5, <1>7
    <2> QED BY Zenon, <2>1, <1>3, <1>4, <1>6 DEF ObjectsOK
  <1> QED BY Zenon, <1>5, <1>7, <1>8, <1>9 DEF ObjectsOK, fl2, tk2

\* The objects of the areas of an address space.
AreaObjects(m) == {m.mmap[k].obj : k \in DOMAIN m.mmap}

\* The vma objects in use are those of the areas of the address spaces.
LEMMA AreasInUse ==
  ASSUME NEW tk, NEW ms
  PROVE  InUse(tk, ms, "vma") = UNION {AreaObjects(m) : m \in ms}
  BY InUseIs DEF AreaObjects

\* mm_alloc() takes an mm_struct.
LEMMA TakeMm ==
  ASSUME NEW used, NEW h, NEW fl, NEW tk, NEW ms,
         Typed(used, h, tk, ms), ObjectsOK(h, fl, tk, ms), fl \in [Cache -> SUBSET Object],
         NEW m \in Space, m.obj \in fl["mm"], m.mmap = <<>>
  PROVE  ObjectsOK(h, [fl EXCEPT !["mm"] = @ \ {m.obj}], tk, ms \cup {m})
  <1> DEFINE fl2 == [fl EXCEPT !["mm"] = @ \ {m.obj}]
             ms2 == ms \cup {m}
  <1>1. "task" \in Cache /\ "mm" \in Cache /\ "vma" \in Cache /\ Cache = {"task", "mm", "vma"}
    BY Zenon DEF Cache
  <1>2. fl2["mm"] = fl["mm"] \ {m.obj} /\ fl2["task"] = fl["task"] /\ fl2["vma"] = fl["vma"]
    BY Zenon, <1>1
  <1>3. DOMAIN m.mmap = {} /\ AreaObjects(m) = {}
    BY DEF AreaObjects
  <1>4. InUse(tk, ms2, "mm") = InUse(tk, ms, "mm") \cup {m.obj}
    BY InUseIs
  <1>5. InUse(tk, ms2, "task") = InUse(tk, ms, "task")
    BY Zenon, InUseIs
  <1>6. InUse(tk, ms2, "vma") = InUse(tk, ms, "vma")
    <2>1. (UNION {AreaObjects(n) : n \in ms2}) = (UNION {AreaObjects(n) : n \in ms}) \cup AreaObjects(m)
      BY Zenon
    <2>2. InUse(tk, ms2, "vma") = UNION {AreaObjects(n) : n \in ms2}
      BY Zenon, AreasInUse
    <2>3. InUse(tk, ms, "vma") = UNION {AreaObjects(n) : n \in ms}
      BY Zenon, AreasInUse
    <2> QED BY Zenon, <1>3, <2>1, <2>2, <2>3
  <1>7. /\ InUse(tk, ms, "mm") \cap fl["mm"] = {}
        /\ InUse(tk, ms, "mm") \cup fl["mm"] = Objects(h, "mm")
    BY Zenon, <1>1 DEF ObjectsOK
  <1>8. \A n \in ms : n.obj # m.obj
    BY <1>7, InUseIs
  <1>9. \A n \in ms2 : n = m \/ (n # m /\ n \in ms)
    BY Zenon
  <1> HIDE DEF fl2, ms2
  <1>10. OneUser(tk, ms2)
    <2>1. \A n, l \in ms2 : n.obj = l.obj => n = l
      BY Zenon, <1>8, <1>9 DEF ObjectsOK, OneUser
    <2>2. \A n, l \in ms2 : \A k \in DOMAIN n.mmap, j \in DOMAIN l.mmap :
              n.mmap[k].obj = l.mmap[j].obj => n = l /\ k = j
      BY Zenon, <1>3, <1>9 DEF ObjectsOK, OneUser
    <2> QED BY Zenon, <2>1, <2>2 DEF ObjectsOK, OneUser
  <1>11. \A c \in Cache : InUse(tk, ms2, c) \cap fl2[c] = {} /\ InUse(tk, ms2, c) \cup fl2[c] = Objects(h, c)
    <2>1. InUse(tk, ms2, "mm") \cap fl2["mm"] = {} /\ InUse(tk, ms2, "mm") \cup fl2["mm"] = Objects(h, "mm")
      BY Zenon, <1>2, <1>4, <1>7
    <2> QED BY Zenon, <2>1, <1>1, <1>2, <1>5, <1>6 DEF ObjectsOK
  <1> QED BY Zenon, <1>10, <1>11 DEF ObjectsOK, fl2, ms2

\* vma_create() puts the new area somewhere in the list, and keeps the others.
LEMMA AreaFacts ==
  ASSUME NEW m \in Space, NEW a \in Area
  PROVE  LET q == InsertArea(m.mmap, a)
         IN  /\ q \in Seq(Area) /\ Len(q) = Len(m.mmap) + 1
             /\ \E i \in DOMAIN q :
                  /\ q[i] = a
                  /\ \A k \in DOMAIN q : k < i => k \in DOMAIN m.mmap /\ q[k] = m.mmap[k]
                  /\ \A k \in DOMAIN q : k > i => k - 1 \in DOMAIN m.mmap /\ q[k] = m.mmap[k - 1]
                  /\ \A k \in DOMAIN m.mmap : m.mmap[k] = q[k] \/ m.mmap[k] = q[k + 1]
                  /\ \A k \in DOMAIN m.mmap : k \in DOMAIN q /\ k + 1 \in DOMAIN q
                  /\ DOMAIN q \subseteq Nat
  <1> DEFINE s == m.mmap
             earlier == {k \in DOMAIN s : \A j \in 1 .. k : s[j].vm_start < a.vm_start}
             i == Cardinality(earlier) + 1
             q == [k \in 1 .. Len(s) + 1 |-> IF k < i THEN s[k] ELSE IF k = i THEN a ELSE s[k - 1]]
  <1>1. s \in Seq(Area) /\ Len(s) \in Nat /\ DOMAIN s = 1 .. Len(s)
    BY DEF Space
  <1>2. i \in 1 .. Len(s) + 1
    <2>1. earlier \subseteq 1 .. Len(s)
      BY <1>1
    <2>2. IsFiniteSet(1 .. Len(s)) /\ Cardinality(1 .. Len(s)) = Len(s)
      BY <1>1, FS_Interval
    <2> HIDE DEF earlier
    <2>3. IsFiniteSet(earlier) /\ Cardinality(earlier) <= Len(s)
      BY Zenon, <2>1, <2>2, FS_Subset
    <2>4. Cardinality(earlier) \in Nat
      BY <2>3, FS_CardinalityType
    <2> QED BY <1>1, <2>3, <2>4
  <1>3. InsertArea(m.mmap, a) = q
    BY Zenon DEF InsertArea
  <1> HIDE DEF s, i
  <1>4. /\ q \in Seq(Area) /\ Len(q) = Len(s) + 1
        /\ \A k \in 1 .. Len(s) + 1 :
               q[k] = IF k < i THEN s[k] ELSE IF k = i THEN a ELSE s[k - 1]
    <2>1. \A k \in 1 .. Len(s) : s[k] \in Area
      BY <1>1
    <2>2. \A k \in 1 .. Len(s) + 1 : q[k] \in Area
      BY <1>1, <1>2, <2>1
    <2> QED BY <1>1, <2>2
  <1>5. DOMAIN q = 1 .. Len(s) + 1
    BY Zenon
  <1> HIDE DEF q
  <1>6. /\ q[i] = a
        /\ \A k \in DOMAIN q : k < i => k \in DOMAIN s /\ q[k] = s[k]
        /\ \A k \in DOMAIN q : k > i => k - 1 \in DOMAIN s /\ q[k] = s[k - 1]
        /\ \A k \in DOMAIN s : k \in DOMAIN q /\ k + 1 \in DOMAIN q
        /\ DOMAIN q \subseteq Nat
    BY <1>1, <1>2, <1>4, <1>5
  <1>7. ASSUME NEW k \in DOMAIN s PROVE s[k] = q[k] \/ s[k] = q[k + 1]
    <2>1. CASE k < i
      BY Zenon, <1>1, <1>2, <1>6, <2>1
    <2>2. CASE k >= i
      <3>1. k + 1 \in DOMAIN q /\ k + 1 > i /\ k + 1 - 1 = k
        BY <1>1, <1>2, <1>6, <2>2
      <3> QED BY <1>6, <3>1
    <2> QED BY SMTT(30), <1>1, <1>2, <2>1, <2>2
  <1>8. i \in DOMAIN q
    BY Zenon, <1>2, <1>5
  <1> QED BY Zenon, <1>3, <1>4, <1>6, <1>7, <1>8 DEF s

\* vma_create() takes a vm_area.
LEMMA TakeVma ==
  ASSUME NEW used, NEW h, NEW fl, NEW tk, NEW ms,
         Typed(used, h, tk, ms), ObjectsOK(h, fl, tk, ms), fl \in [Cache -> SUBSET Object],
         NEW m \in ms, NEW a \in Area, a.obj \in fl["vma"],
         NEW n \in Space, n.obj = m.obj, n.mmap = InsertArea(m.mmap, a)
  PROVE  ObjectsOK(h, [fl EXCEPT !["vma"] = @ \ {a.obj}], tk, (ms \ {m}) \cup {n})
  <1> DEFINE fl2 == [fl EXCEPT !["vma"] = @ \ {a.obj}]
             ms2 == (ms \ {m}) \cup {n}
             q   == InsertArea(m.mmap, a)
  <1>0. n.mmap = q
    BY Zenon
  <1>1. "task" \in Cache /\ "mm" \in Cache /\ "vma" \in Cache /\ Cache = {"task", "mm", "vma"}
    BY Zenon DEF Cache
  <1>2. fl2["vma"] = fl["vma"] \ {a.obj} /\ fl2["task"] = fl["task"] /\ fl2["mm"] = fl["mm"]
    BY Zenon, <1>1
  <1>3. m \in Space
    BY DEF Typed
  <1>4. PICK i \in DOMAIN q :
             /\ q[i] = a
             /\ \A k \in DOMAIN q : k < i => k \in DOMAIN m.mmap /\ q[k] = m.mmap[k]
             /\ \A k \in DOMAIN q : k > i => k - 1 \in DOMAIN m.mmap /\ q[k] = m.mmap[k - 1]
             /\ \A k \in DOMAIN m.mmap : m.mmap[k] = q[k] \/ m.mmap[k] = q[k + 1]
             /\ \A k \in DOMAIN m.mmap : k \in DOMAIN q /\ k + 1 \in DOMAIN q
             /\ DOMAIN q \subseteq Nat
    BY <1>3, AreaFacts, Zenon
  <1>5. \A l \in ms2 : (l = n) \/ (l # m /\ l \in ms)
    OBVIOUS
  <1>6. InUse(tk, ms2, "task") = InUse(tk, ms, "task")
    BY Zenon, InUseIs
  <1>7. InUse(tk, ms2, "mm") = InUse(tk, ms, "mm")
    <2>1. {l.obj : l \in ms2} = {l.obj : l \in ms}
      BY Zenon
    <2> QED BY Zenon, <2>1, InUseIs
  <1>8. AreaObjects(n) = AreaObjects(m) \cup {a.obj}
    <2>1. ASSUME NEW o \in AreaObjects(n) PROVE o \in AreaObjects(m) \cup {a.obj}
      <3>1. PICK k \in DOMAIN q : o = q[k].obj
        BY Zenon, <1>0 DEF AreaObjects
      <3>2. k < i \/ k = i \/ k > i
        BY SMTT(30), <1>4
      <3> QED BY Zenon, <1>4, <3>1, <3>2 DEF AreaObjects
    <2>2. ASSUME NEW o \in AreaObjects(m) PROVE o \in AreaObjects(n)
      <3>1. PICK k \in DOMAIN m.mmap : o = m.mmap[k].obj
        BY Zenon DEF AreaObjects
      <3>2. \E j \in DOMAIN q : q[j] = m.mmap[k]
        BY Zenon, <1>4
      <3> QED BY Zenon, <1>0, <3>1, <3>2 DEF AreaObjects
    <2>3. a.obj \in AreaObjects(n)
      BY Zenon, <1>0, <1>4 DEF AreaObjects
    <2> QED BY Zenon, <2>1, <2>2, <2>3
  <1>9. InUse(tk, ms2, "vma") = InUse(tk, ms, "vma") \cup {a.obj}
    <2>1. (UNION {AreaObjects(l) : l \in ms2}) = (UNION {AreaObjects(l) : l \in ms \ {m}}) \cup AreaObjects(n)
      OBVIOUS
    <2>2. (UNION {AreaObjects(l) : l \in ms}) = (UNION {AreaObjects(l) : l \in ms \ {m}}) \cup AreaObjects(m)
      BY Zenon
    <2>3. InUse(tk, ms2, "vma") = UNION {AreaObjects(l) : l \in ms2}
      BY Zenon, AreasInUse
    <2>4. InUse(tk, ms, "vma") = UNION {AreaObjects(l) : l \in ms}
      BY Zenon, AreasInUse
    <2> QED BY Zenon, <1>8, <2>1, <2>2, <2>3, <2>4
  <1>10. /\ InUse(tk, ms, "vma") \cap fl["vma"] = {}
         /\ InUse(tk, ms, "vma") \cup fl["vma"] = Objects(h, "vma")
    BY Zenon, <1>1 DEF ObjectsOK
  <1>11. \A l \in ms : \A k \in DOMAIN l.mmap : l.mmap[k].obj # a.obj
    <2>1. a.obj \notin InUse(tk, ms, "vma")
      BY Zenon, <1>10
    <2>2. InUse(tk, ms, "vma") = UNION {{l.mmap[k].obj : k \in DOMAIN l.mmap} : l \in ms}
      BY Zenon, InUseIs
    <2> QED BY SMTT(30), <2>1, <2>2
  <1> HIDE DEF fl2, ms2, q
  <1>12. \A k, j \in DOMAIN q : q[k].obj = q[j].obj => k = j
    <2>1. \A k, j \in DOMAIN m.mmap : m.mmap[k].obj = m.mmap[j].obj => k = j
      BY SMTT(30) DEF ObjectsOK, OneUser
    <2>2. \A k \in DOMAIN q : \/ k = i
                              \/ k < i /\ k \in DOMAIN m.mmap /\ q[k] = m.mmap[k]
                              \/ k > i /\ k - 1 \in DOMAIN m.mmap /\ q[k] = m.mmap[k - 1]
      BY SMTT(30), <1>4
    <2> SUFFICES ASSUME NEW k \in DOMAIN q, NEW j \in DOMAIN q, q[k].obj = q[j].obj PROVE k = j
      BY Zenon
    <2>a. \A r \in DOMAIN q : r = i \/ q[r].obj # q[i].obj
      <3>1. q[i] = a /\ \A l \in DOMAIN m.mmap : m.mmap[l].obj # a.obj
        BY Zenon, <1>4, <1>11
      <3>2. ASSUME NEW r \in DOMAIN q, r # i PROVE \E l \in DOMAIN m.mmap : q[r] = m.mmap[l]
        BY Zenon, <2>2, <3>2
      <3> QED BY Zenon, <3>1, <3>2
    <2>3. CASE k = i
      BY Zenon, <2>3, <2>a
    <2>4. CASE j = i
      BY Zenon, <2>4, <2>a
    <2>5. CASE k # i /\ j # i
      <3>1. DOMAIN q \subseteq Nat /\ i \in Nat
        BY Zenon, <1>4
      <3>2. CASE k < i /\ j < i
        BY SMTT(30), <2>1, <2>2, <3>1, <3>2
      <3>3. CASE k < i /\ j > i
        <4>1. k = j - 1
          BY SMTT(30), <2>1, <2>2, <3>1, <3>3
        <4>2. FALSE
          BY SMTT(30), <3>1, <3>3, <4>1
        <4> QED BY Zenon, <4>2
      <3>4. CASE k > i /\ j < i
        <4>1. k - 1 = j
          BY SMTT(30), <2>1, <2>2, <3>1, <3>4
        <4>2. FALSE
          BY SMTT(30), <3>1, <3>4, <4>1
        <4> QED BY <4>2
      <3>5. CASE k > i /\ j > i
        <4>1. k - 1 = j - 1
          BY SMTT(30), <2>1, <2>2, <3>1, <3>5
        <4> QED BY SMTT(30), <3>1, <4>1
      <3> QED BY SMTT(30), <2>5, <3>1, <3>2, <3>3, <3>4, <3>5
    <2> QED BY Zenon, <2>3, <2>4, <2>5
  <1>13. \A l \in ms : l # m => \A k \in DOMAIN q, j \in DOMAIN l.mmap : q[k].obj # l.mmap[j].obj
    <2> SUFFICES ASSUME NEW l \in ms, l # m, NEW k \in DOMAIN q, NEW j \in DOMAIN l.mmap,
                        q[k].obj = l.mmap[j].obj
                 PROVE  FALSE
      BY Zenon
    <2>1. q[k].obj \in AreaObjects(n)
      BY <1>0 DEF AreaObjects
    <2>2. CASE q[k].obj = a.obj
      BY Zenon, <1>11, <2>2
    <2>3. CASE q[k].obj \in AreaObjects(m)
      <3>1. PICK k2 \in DOMAIN m.mmap : q[k].obj = m.mmap[k2].obj
        BY Zenon, <2>3 DEF AreaObjects
      <3>2. m.mmap[k2].obj = l.mmap[j].obj
        BY Zenon, <3>1
      <3> QED BY Zenon, <3>2 DEF ObjectsOK, OneUser
    <2> QED BY Zenon, <1>8, <2>1, <2>2, <2>3
  <1>14. OneUser(tk, ms2)
    <2>1. \A l \in ms : l.obj = n.obj => l = m
      BY Zenon DEF ObjectsOK, OneUser
    <2>2. \A l, r \in ms2 : l.obj = r.obj => l = r
      BY SMTT(30), <1>5, <2>1 DEF ObjectsOK, OneUser
    <2>3. \A l, r \in ms2 : \A k \in DOMAIN l.mmap, j \in DOMAIN r.mmap :
              l.mmap[k].obj = r.mmap[j].obj => l = r /\ k = j
      BY SMTT(30), <1>0, <1>5, <1>12, <1>13 DEF ObjectsOK, OneUser
    <2> QED BY Zenon, <2>2, <2>3 DEF ObjectsOK, OneUser
  <1>15. \A c \in Cache : InUse(tk, ms2, c) \cap fl2[c] = {} /\ InUse(tk, ms2, c) \cup fl2[c] = Objects(h, c)
    <2>1. InUse(tk, ms2, "vma") \cap fl2["vma"] = {} /\ InUse(tk, ms2, "vma") \cup fl2["vma"] = Objects(h, "vma")
      BY Zenon, <1>2, <1>9, <1>10
    <2> QED BY Zenon, <2>1, <1>1, <1>2, <1>6, <1>7 DEF ObjectsOK
  <1> QED BY Zenon, <1>14, <1>15 DEF ObjectsOK, fl2, ms2

\* The list of an address space holds as many objects as it has entries.
LEMMA AreasCounted ==
  ASSUME NEW h, NEW fl, NEW tk, NEW ms, ms \subseteq Space, ObjectsOK(h, fl, tk, ms), NEW m \in ms
  PROVE  /\ IsFiniteSet(AreaObjects(m)) /\ Cardinality(AreaObjects(m)) = Len(m.mmap)
         /\ Len(m.mmap) \in Nat /\ DOMAIN m.mmap = 1 .. Len(m.mmap)
         /\ AreaObjects(m) \cap fl["vma"] = {}
         /\ AreaObjects(m) \subseteq Objects(h, "vma")
  <1> DEFINE D == DOMAIN m.mmap
             f == [k \in D |-> m.mmap[k].obj]
  <1>1. Len(m.mmap) \in Nat /\ D = 1 .. Len(m.mmap)
    BY DEF Space
  <1>2. IsFiniteSet(D) /\ Cardinality(D) = Len(m.mmap)
    BY SMTT(30), <1>1, FS_Interval
  <1>3. \A k, j \in D : m.mmap[k].obj = m.mmap[j].obj => k = j
    BY Zenon DEF ObjectsOK, OneUser
  <1>4. f \in Bijection(D, AreaObjects(m))
    BY Zenon, <1>3 DEF Bijection, Injection, Surjection, AreaObjects, IsInjective
  <1>5. IsFiniteSet(AreaObjects(m)) /\ Cardinality(AreaObjects(m)) = Len(m.mmap)
    BY <1>2, <1>4, FS_Bijection DEF ExistsBijection
  <1>6. AreaObjects(m) \subseteq InUse(tk, ms, "vma")
    BY SMTT(30), AreasInUse
  <1>7. /\ InUse(tk, ms, "vma") \cap fl["vma"] = {}
        /\ InUse(tk, ms, "vma") \cup fl["vma"] = Objects(h, "vma")
    BY Zenon DEF ObjectsOK, Cache
  <1> QED BY Zenon, <1>1, <1>5, <1>6, <1>7

\* mm_free() gives the areas and the mm_struct back.
LEMMA GiveMm ==
  ASSUME NEW used, NEW h, NEW fl, NEW tk, NEW ms, NEW fl2,
         Typed(used, h, tk, ms), ObjectsOK(h, fl, tk, ms), NEW m \in ms,
         fl2["task"] = fl["task"],
         fl2["mm"] = fl["mm"] \cup {m.obj},
         fl2["vma"] = fl["vma"] \cup AreaObjects(m)
  PROVE  /\ ObjectsOK(h, fl2, tk, ms \ {m})
         /\ m.obj \notin fl["mm"] /\ m.obj \in Objects(h, "mm")
  <1> DEFINE ms2 == ms \ {m}
  <1>1. "task" \in Cache /\ "mm" \in Cache /\ "vma" \in Cache /\ Cache = {"task", "mm", "vma"}
    BY Zenon DEF Cache
  <1>2. \A l \in ms2 : l # m /\ l \in ms
    OBVIOUS
  <1>3. InUse(tk, ms2, "task") = InUse(tk, ms, "task")
    BY Zenon, InUseIs
  <1>4. InUse(tk, ms, "mm") = InUse(tk, ms2, "mm") \cup {m.obj} /\ m.obj \notin InUse(tk, ms2, "mm")
    <2>1. {l.obj : l \in ms} = {l.obj : l \in ms2} \cup {m.obj}
      BY Zenon
    <2>2. m.obj \notin {l.obj : l \in ms2}
      BY Zenon DEF ObjectsOK, OneUser
    <2>3. InUse(tk, ms, "mm") = {l.obj : l \in ms} /\ InUse(tk, ms2, "mm") = {l.obj : l \in ms2}
      BY InUseIs
    <2> QED BY Zenon, <2>1, <2>2, <2>3
  <1>5. /\ InUse(tk, ms, "vma") = InUse(tk, ms2, "vma") \cup AreaObjects(m)
        /\ InUse(tk, ms2, "vma") \cap AreaObjects(m) = {}
    <2>1. (UNION {AreaObjects(l) : l \in ms}) = (UNION {AreaObjects(l) : l \in ms2}) \cup AreaObjects(m)
      BY Zenon
    <2>2. InUse(tk, ms2, "vma") = UNION {AreaObjects(l) : l \in ms2}
      BY Zenon, AreasInUse
    <2>3. InUse(tk, ms, "vma") = UNION {AreaObjects(l) : l \in ms}
      BY Zenon, AreasInUse
    <2>4. ASSUME NEW l \in ms2 PROVE AreaObjects(l) \cap AreaObjects(m) = {}
      BY <1>2 DEF ObjectsOK, OneUser, AreaObjects
    <2>5. InUse(tk, ms, "vma") = InUse(tk, ms2, "vma") \cup AreaObjects(m)
      BY Zenon, <2>1, <2>2, <2>3
    <2>6. (UNION {AreaObjects(l) : l \in ms2}) \cap AreaObjects(m) = {}
      BY Zenon, <2>4
    <2> QED BY Zenon, <2>2, <2>5, <2>6
  <1>6. \A c \in Cache : /\ InUse(tk, ms, c) \cap fl[c] = {}
                         /\ InUse(tk, ms, c) \cup fl[c] = Objects(h, c)
    BY Zenon DEF ObjectsOK
  <1>7. OneUser(tk, ms2)
    BY Zenon, <1>2 DEF ObjectsOK, OneUser
  <1> HIDE DEF ms2
  <1>8. /\ InUse(tk, ms2, "task") \cap fl2["task"] = {}
        /\ InUse(tk, ms2, "task") \cup fl2["task"] = Objects(h, "task")
    BY Zenon, <1>1, <1>3, <1>6
  <1>9. /\ InUse(tk, ms2, "mm") \cap fl2["mm"] = {}
        /\ InUse(tk, ms2, "mm") \cup fl2["mm"] = Objects(h, "mm")
    BY Zenon, <1>1, <1>4, <1>6
  <1>10. /\ InUse(tk, ms2, "vma") \cap fl2["vma"] = {}
         /\ InUse(tk, ms2, "vma") \cup fl2["vma"] = Objects(h, "vma")
    BY Zenon, <1>1, <1>5, <1>6
  <1>11. ObjectsOK(h, fl2, tk, ms2)
    BY Zenon, <1>1, <1>7, <1>8, <1>9, <1>10 DEF ObjectsOK
  <1>12. m.obj \notin fl["mm"] /\ m.obj \in Objects(h, "mm")
    BY Zenon, <1>1, <1>4, <1>6
  <1> QED BY Zenon, <1>11, <1>12 DEF ms2

\* kfree() finds the cache of an object in the header of its page.
LEMMA HeaderFacts ==
  ASSUME NEW h, NEW c \in Cache, NEW o \in Objects(h, c)
  PROVE  h[o[1]] = c
  BY Zenon DEF Objects, CachePages

-----------------------------------------------------------------------------
(* The first half of every allocation *)

HdrAfter(c, p)   == IF p = None THEN hdr ELSE [hdr EXCEPT ![p] = c]
FreelistAfter(c, p) == [freelist EXCEPT ![c] = ListAfter(c, p)]
TotalAfter(c, p) == [total_objs EXCEPT ![c] = @ + ObjsFor(c, p)]
FreeAfter(c, p)  == [free_objs EXCEPT ![c] = @ + ObjsFor(c, p)]

\* After the refill, if there was one, everything is accounted for.
LEMMA Refilled ==
  ASSUME IInv, NEW c \in Cache, NEW p \in Refill(c)
  PROVE  /\ Typed(UsedAfter(p), HdrAfter(c, p), task, mms)
         /\ PagesOK(UsedAfter(p), HdrAfter(c, p), task, mms)
         /\ ObjectsOK(HdrAfter(c, p), FreelistAfter(c, p), task, mms)
         /\ CountsOK(HdrAfter(c, p), FreelistAfter(c, p), TotalAfter(c, p), FreeAfter(c, p))
         /\ FreelistAfter(c, p) \in [Cache -> SUBSET Object]
         /\ TotalAfter(c, p) \in [Cache -> Nat] /\ FreeAfter(c, p) \in [Cache -> Nat]
         /\ Cardinality(UsedAfter(p)) = Cardinality(bitmap) + PagesFor(p)
         /\ FreelistAfter(c, p)[c] = ListAfter(c, p)
         /\ PagesFor(p) \in Nat
  <1>1. Typed(bitmap, hdr, task, mms)
    BY DEF IInv, TypeOK, Typed
  <1>2. objs_per_page[c] \in Nat
    BY Zenon, CacheAssumption
  <1>3. Cardinality(bitmap) \in Nat
    BY Zenon, <1>1, CountFacts
  <1>4. CASE p = None
    <2>1. FreelistAfter(c, p) = freelist
      BY Zenon, <1>4 DEF FreelistAfter, ListAfter, IInv, TypeOK
    <2>2. TotalAfter(c, p) = total_objs /\ FreeAfter(c, p) = free_objs
      BY SMTT(30), <1>4 DEF TotalAfter, FreeAfter, ObjsFor, IInv, TypeOK
    <2> QED BY SMTT(30), <1>1, <1>3, <1>4, <2>1, <2>2 DEF HdrAfter, UsedAfter, PagesFor, ListAfter, IInv, TypeOK
  <1>5. CASE p # None
    <2>1. p \in Page /\ p \notin bitmap /\ freelist[c] = {}
      BY Zenon, <1>5, RefillFacts
    <2>2. hdr[p] = None
      BY Zenon, <2>1 DEF IInv, PagesOK, SlabPages
    <2>3. /\ PagesOK(bitmap \cup {p}, [hdr EXCEPT ![p] = c], task, mms)
          /\ Typed(bitmap \cup {p}, [hdr EXCEPT ![p] = c], task, mms)
          /\ Cardinality(bitmap \cup {p}) = Cardinality(bitmap) + 1
      BY Zenon, <1>1, <2>1, RefillPages DEF IInv
    <2>4. /\ ObjectsOK([hdr EXCEPT ![p] = c], [freelist EXCEPT ![c] = Carved(c, p)], task, mms)
          /\ CountsOK([hdr EXCEPT ![p] = c], [freelist EXCEPT ![c] = Carved(c, p)],
                      [total_objs EXCEPT ![c] = @ + objs_per_page[c]],
                      [free_objs EXCEPT ![c] = @ + objs_per_page[c]])
          /\ [freelist EXCEPT ![c] = Carved(c, p)] \in [Cache -> SUBSET Object]
      BY Zenon, <1>1, <2>1, <2>2, RefillObjects DEF IInv, TypeOK
    <2>5. HdrAfter(c, p) = [hdr EXCEPT ![p] = c] /\ UsedAfter(p) = bitmap \cup {p} /\ PagesFor(p) = 1
      BY <1>5 DEF HdrAfter, UsedAfter, PagesFor
    <2>6. /\ FreelistAfter(c, p) = [freelist EXCEPT ![c] = Carved(c, p)]
          /\ TotalAfter(c, p) = [total_objs EXCEPT ![c] = @ + objs_per_page[c]]
          /\ FreeAfter(c, p) = [free_objs EXCEPT ![c] = @ + objs_per_page[c]]
      BY Zenon, <1>5 DEF FreelistAfter, ListAfter, TotalAfter, FreeAfter, ObjsFor
    <2>7. /\ [total_objs EXCEPT ![c] = @ + objs_per_page[c]] \in [Cache -> Nat]
          /\ [free_objs EXCEPT ![c] = @ + objs_per_page[c]] \in [Cache -> Nat]
      BY <1>2 DEF IInv, TypeOK
    <2>8. FreelistAfter(c, p)[c] = ListAfter(c, p)
      BY DEF FreelistAfter, IInv, TypeOK
    <2> QED BY SMTT(30), <2>3, <2>4, <2>5, <2>6, <2>7, <2>8
  <1> QED BY Zenon, <1>4, <1>5

\* An allocation that is given back, or taken.
LEMMA TakeFacts ==
  ASSUME IInv, NEW c \in Cache, NEW p \in Refill(c)
  PROVE  /\ TakeObject(c, p, {}) => /\ hdr' = HdrAfter(c, p) /\ freelist' = FreelistAfter(c, p)
                                    /\ total_objs' = TotalAfter(c, p) /\ free_objs' = FreeAfter(c, p)
         /\ \A o : TakeObject(c, p, {o}) =>
                /\ hdr' = HdrAfter(c, p) /\ freelist' = [FreelistAfter(c, p) EXCEPT ![c] = @ \ {o}]
                /\ total_objs' = TotalAfter(c, p)
                /\ free_objs' = [FreeAfter(c, p) EXCEPT ![c] = @ - 1]
  <1>1. ObjsFor(c, p) \in Nat
    BY CacheAssumption DEF ObjsFor
  <1>2. Cardinality({}) = 0 /\ \A o : Cardinality({o}) = 1
    BY Zenon, FS_EmptySet, FS_Singleton
  <1>3. freelist \in [Cache -> SUBSET Object] /\ free_objs \in [Cache -> Nat]
    BY DEF IInv, TypeOK
  <1>4. ASSUME TakeObject(c, p, {})
        PROVE  /\ hdr' = HdrAfter(c, p) /\ freelist' = FreelistAfter(c, p)
               /\ total_objs' = TotalAfter(c, p) /\ free_objs' = FreeAfter(c, p)
    <2>1. hdr' = HdrAfter(c, p) /\ total_objs' = TotalAfter(c, p)
      BY Zenon, <1>4 DEF TakeObject, HdrAfter, TotalAfter
    <2>2. freelist' = FreelistAfter(c, p)
      BY <1>4 DEF TakeObject, FreelistAfter
    <2>3. free_objs' = FreeAfter(c, p)
      <3>1. free_objs[c] + ObjsFor(c, p) - Cardinality({}) = free_objs[c] + ObjsFor(c, p)
        BY <1>1, <1>2, <1>3
      <3> QED BY Zenon, <3>1, <1>4 DEF TakeObject, FreeAfter
    <2> QED BY Zenon, <2>1, <2>2, <2>3
  <1>5. ASSUME NEW o, TakeObject(c, p, {o})
        PROVE  /\ hdr' = HdrAfter(c, p) /\ freelist' = [FreelistAfter(c, p) EXCEPT ![c] = @ \ {o}]
               /\ total_objs' = TotalAfter(c, p)
               /\ free_objs' = [FreeAfter(c, p) EXCEPT ![c] = @ - 1]
    <2>1. hdr' = HdrAfter(c, p) /\ total_objs' = TotalAfter(c, p)
      BY <1>5 DEF TakeObject, HdrAfter, TotalAfter
    <2>2. freelist' = [FreelistAfter(c, p) EXCEPT ![c] = @ \ {o}]
      BY Zenon, <1>3, <1>5 DEF TakeObject, FreelistAfter
    <2>3. free_objs' = [FreeAfter(c, p) EXCEPT ![c] = @ - 1]
      BY <1>1, <1>2, <1>3, <1>5 DEF TakeObject, FreeAfter
    <2> QED BY Zenon, <2>1, <2>2, <2>3
  <1> QED BY Zenon, <1>4, <1>5

\* What remains to be shown of a step.
LEMMA Together ==
  ASSUME Typed(bitmap', hdr', task', mms'), PagesOK(bitmap', hdr', task', mms'),
         ObjectsOK(hdr', freelist', task', mms'), CountsOK(hdr', freelist', total_objs', free_objs'),
         freelist' \in [Cache -> SUBSET Object],
         total_objs' \in [Cache -> Nat], free_objs' \in [Cache -> Nat],
         free_count' = POOL_PAGES - Cardinality(bitmap'), asserted' = FALSE
  PROVE  IInv'
  <1>1. Cardinality(bitmap') \in Nat /\ Cardinality(bitmap') <= POOL_PAGES
    BY Zenon, PageFacts, FS_Subset, FS_CardinalityType DEF Typed
  <1>2. free_count' \in 0 .. POOL_PAGES
    BY <1>1, OrdersAssumption
  <1>3. TypeOK'
    BY Zenon, <1>2 DEF TypeOK, Typed
  <1> QED BY <1>3 DEF IInv

\* An allocation that fails after the slab allocation leaves at most a new
\* slab page behind.
LEMMA FailedStep ==
  ASSUME IInv, NEW c \in Cache, NEW p \in Refill(c), TakeObject(c, p, {}),
         bitmap' = UsedAfter(p), free_count' = free_count - PagesFor(p),
         task' = task, mms' = mms, asserted' = FALSE
  PROVE  IInv'
  <1>1. /\ hdr' = HdrAfter(c, p) /\ freelist' = FreelistAfter(c, p)
        /\ total_objs' = TotalAfter(c, p) /\ free_objs' = FreeAfter(c, p)
    BY Zenon, TakeFacts
  <1>2. Typed(bitmap, hdr, task, mms)
    BY Zenon DEF IInv, TypeOK, Typed
  <1>3. free_count' = POOL_PAGES - Cardinality(bitmap')
    BY SMTT(30), <1>2, CountFacts, Refilled, OrdersAssumption DEF IInv
  <1>4. /\ Typed(bitmap', hdr', task', mms') /\ PagesOK(bitmap', hdr', task', mms')
        /\ ObjectsOK(hdr', freelist', task', mms')
        /\ CountsOK(hdr', freelist', total_objs', free_objs')
        /\ freelist' \in [Cache -> SUBSET Object]
        /\ total_objs' \in [Cache -> Nat] /\ free_objs' \in [Cache -> Nat]
    BY Zenon, <1>1, Refilled
  <1> QED BY Zenon, <1>3, <1>4, Together

-----------------------------------------------------------------------------
(* The steps *)

\* Freeing the block that was just taken is right, and undoes it.
LEMMA Undo ==
  ASSUME NEW used, NEW o \in Nat, NEW i \in AllocPages(used, o)
  PROVE  /\ FreeOK(used \cup Block(i, o), i, o)
         /\ Freed(used \cup Block(i, o), i, o) = used
  BY AllocFacts DEF FreeOK, Freed

\* do_fork() that fails for lack of user memory keeps the invariant.
LEMMA ForkNoUserStep == IInv /\ ForkNoUser => IInv'
  <1> SUFFICES ASSUME IInv, ForkNoUser PROVE IInv'
    OBVIOUS
  <1>1. PICK p \in Refill("task") : /\ bitmap' = UsedAfter(p)
                                    /\ free_count' = free_count - PagesFor(p)
                                    /\ TakeObject("task", p, {})
    BY Zenon DEF ForkNoUser
  <1>2. task' = task /\ mms' = mms /\ asserted' = FALSE /\ "task" \in Cache
    BY DEF ForkNoUser, IInv, TypeOK, Cache
  <1> QED BY Zenon, <1>1, <1>2, FailedStep

\* mm_alloc() that fails for lack of a page directory keeps the invariant.
LEMMA MmAllocNoPgdStep == IInv /\ MmAllocNoPgd => IInv'
  <1> SUFFICES ASSUME IInv, MmAllocNoPgd PROVE IInv'
    OBVIOUS
  <1>1. PICK p \in Refill("mm") : /\ bitmap' = UsedAfter(p)
                                  /\ free_count' = free_count - PagesFor(p)
                                  /\ TakeObject("mm", p, {})
    BY Zenon DEF MmAllocNoPgd
  <1>2. task' = task /\ mms' = mms /\ asserted' = FALSE /\ "mm" \in Cache
    BY DEF MmAllocNoPgd, IInv, TypeOK, Cache
  <1> QED BY Zenon, <1>1, <1>2, FailedStep

\* do_fork() that fails for lack of a kernel stack gives the user block back and keeps the invariant.
LEMMA ForkNoStackStep == IInv /\ ForkNoStack => IInv'
  <1> SUFFICES ASSUME IInv, ForkNoStack PROVE IInv'
    OBVIOUS
  <1>1. PICK p \in Refill("task") : \E user \in AllocPages(UsedAfter(p), USER_MEM_ORDER) :
          LET used == UsedAfter(p) \cup Block(user, USER_MEM_ORDER)
          IN  /\ bitmap' = Freed(used, user, USER_MEM_ORDER)
              /\ free_count' = free_count - PagesFor(p)
              /\ TakeObject("task", p, {})
              /\ asserted' = (asserted \/ ~FreeOK(used, user, USER_MEM_ORDER))
    BY Zenon DEF ForkNoStack
  <1>2. PICK user \in AllocPages(UsedAfter(p), USER_MEM_ORDER) :
          LET used == UsedAfter(p) \cup Block(user, USER_MEM_ORDER)
          IN  /\ bitmap' = Freed(used, user, USER_MEM_ORDER)
              /\ free_count' = free_count - PagesFor(p)
              /\ TakeObject("task", p, {})
              /\ asserted' = (asserted \/ ~FreeOK(used, user, USER_MEM_ORDER))
    BY Zenon, <1>1
  <1> DEFINE used == UsedAfter(p) \cup Block(user, USER_MEM_ORDER)
  <1>3. FreeOK(used, user, USER_MEM_ORDER) /\ Freed(used, user, USER_MEM_ORDER) = UsedAfter(p)
    BY Zenon, <1>2, Undo, OrderFacts
  <1>4. task' = task /\ mms' = mms /\ "task" \in Cache /\ ~asserted
    BY DEF ForkNoStack, IInv, Cache
  <1>5. asserted' = FALSE
    BY Zenon, <1>2, <1>3, <1>4
  <1> QED BY Zenon, <1>2, <1>3, <1>4, <1>5, FailedStep

\* do_fork() that fails for lack of a page directory gives the stack and the user block back and keeps the invariant.
LEMMA ForkNoPgdStep == IInv /\ ForkNoPgd => IInv'
  <1> SUFFICES ASSUME IInv, ForkNoPgd PROVE IInv'
    OBVIOUS
  <1> DEFINE Fails(p, user, kstack) ==
                LET used == WithStack(p, user, kstack)
                    less == Freed(used, kstack, 0)
                IN  /\ bitmap' = Freed(less, user, USER_MEM_ORDER)
                    /\ free_count' = free_count - PagesFor(p)
                    /\ TakeObject("task", p, {})
                    /\ asserted' = (asserted \/ ~FreeOK(used, kstack, 0) \/ ~FreeOK(less, user, USER_MEM_ORDER))
  <1>a. \E p \in Refill("task") : \E user \in AllocPages(UsedAfter(p), USER_MEM_ORDER) :
        \E kstack \in StackPages(p, user) : Fails(p, user, kstack)
    BY Zenon DEF ForkNoPgd
  <1> HIDE DEF Fails
  <1>b. PICK p \in Refill("task") : \E user \in AllocPages(UsedAfter(p), USER_MEM_ORDER) :
        \E kstack \in StackPages(p, user) : Fails(p, user, kstack)
    BY Zenon, <1>a
  <1>c. PICK user \in AllocPages(UsedAfter(p), USER_MEM_ORDER) :
             \E kstack \in StackPages(p, user) : Fails(p, user, kstack)
    BY Zenon, <1>b
  <1>1. PICK kstack \in StackPages(p, user) : Fails(p, user, kstack)
    BY Zenon, <1>c
  <1> DEFINE first == UsedAfter(p) \cup Block(user, USER_MEM_ORDER)
             used  == first \cup Block(kstack, 0)
             less  == Freed(used, kstack, 0)
  <1>2. WithStack(p, user, kstack) = used
    BY Zenon DEF WithStack
  <1>3. FreeOK(used, kstack, 0) /\ less = first
    BY Zenon, <1>1, Undo DEF StackPages
  <1>4. FreeOK(first, user, USER_MEM_ORDER) /\ Freed(first, user, USER_MEM_ORDER) = UsedAfter(p)
    BY Zenon, <1>1, Undo, OrderFacts
  <1>5. task' = task /\ mms' = mms /\ "task" \in Cache /\ ~asserted
    BY DEF ForkNoPgd, IInv, Cache
  <1> HIDE DEF first, used, less
  <1>6. /\ bitmap' = UsedAfter(p) /\ free_count' = free_count - PagesFor(p)
        /\ TakeObject("task", p, {}) /\ asserted' = FALSE
    BY Zenon, <1>1, <1>2, <1>3, <1>4, <1>5 DEF Fails, less
  <1> QED BY Zenon, <1>1, <1>5, <1>6, FailedStep

\* A do_fork() that succeeds keeps the invariant.
LEMMA ForkStep == IInv /\ Fork => IInv'
  <1> SUFFICES ASSUME IInv, Fork PROVE IInv'
    OBVIOUS
  <1> DEFINE Forks(s, p, user, kstack, pgd, o) ==
               /\ task[s] = None /\ \A r \in Slots : r < s => task[r] # None
               /\ bitmap' = WithStack(p, user, kstack) \cup Block(pgd, PGD_ORDER)
               /\ free_count' = free_count - (PagesFor(p) + 2^USER_MEM_ORDER + 1 + 2^PGD_ORDER)
               /\ TakeObject("task", p, {o})
               /\ task' = [task EXCEPT ![s] = [obj |-> o, user |-> user,
                                               kstack |-> kstack, pgd |-> pgd]]
               /\ UNCHANGED <<mms, asserted>>
  <1>a. \E s \in Slots : \E p \in Refill("task") :
        \E user \in AllocPages(UsedAfter(p), USER_MEM_ORDER) : \E kstack \in StackPages(p, user) :
        \E pgd \in AllocPages(WithStack(p, user, kstack), PGD_ORDER) :
        \E o \in ListAfter("task", p) : Forks(s, p, user, kstack, pgd, o)
    BY Zenon DEF Fork
  <1> HIDE DEF Forks
  <1>b. PICK s \in Slots : \E p \in Refill("task") :
        \E user \in AllocPages(UsedAfter(p), USER_MEM_ORDER) : \E kstack \in StackPages(p, user) :
        \E pgd \in AllocPages(WithStack(p, user, kstack), PGD_ORDER) :
        \E o \in ListAfter("task", p) : Forks(s, p, user, kstack, pgd, o)
    BY Zenon, <1>a
  <1>c. PICK p \in Refill("task") :
        \E user \in AllocPages(UsedAfter(p), USER_MEM_ORDER) : \E kstack \in StackPages(p, user) :
        \E pgd \in AllocPages(WithStack(p, user, kstack), PGD_ORDER) :
        \E o \in ListAfter("task", p) : Forks(s, p, user, kstack, pgd, o)
    BY Zenon, <1>b
  <1>d. PICK user \in AllocPages(UsedAfter(p), USER_MEM_ORDER) : \E kstack \in StackPages(p, user) :
        \E pgd \in AllocPages(WithStack(p, user, kstack), PGD_ORDER) :
        \E o \in ListAfter("task", p) : Forks(s, p, user, kstack, pgd, o)
    BY Zenon, <1>c
  <1>e. PICK kstack \in StackPages(p, user) :
        \E pgd \in AllocPages(WithStack(p, user, kstack), PGD_ORDER) :
        \E o \in ListAfter("task", p) : Forks(s, p, user, kstack, pgd, o)
    BY Zenon, <1>d
  <1>f. PICK pgd \in AllocPages(WithStack(p, user, kstack), PGD_ORDER) :
        \E o \in ListAfter("task", p) : Forks(s, p, user, kstack, pgd, o)
    BY Zenon, <1>e
  <1>g. PICK o \in ListAfter("task", p) : Forks(s, p, user, kstack, pgd, o)
    BY Zenon, <1>f
  <1>1. /\ task[s] = None
        /\ bitmap' = WithStack(p, user, kstack) \cup Block(pgd, PGD_ORDER)
        /\ free_count' = free_count - (PagesFor(p) + 2^USER_MEM_ORDER + 1 + 2^PGD_ORDER)
        /\ TakeObject("task", p, {o})
        /\ task' = [task EXCEPT ![s] = [obj |-> o, user |-> user, kstack |-> kstack, pgd |-> pgd]]
        /\ UNCHANGED <<mms, asserted>>
    BY Zenon, <1>g DEF Forks
  <1> DEFINE t == [obj |-> o, user |-> user, kstack |-> kstack, pgd |-> pgd]
             used == UsedAfter(p)
             h    == HdrAfter("task", p)
             fl   == FreelistAfter("task", p)
  <1>2. "task" \in Cache
    BY Zenon DEF Cache
  <1>3. /\ Typed(used, h, task, mms) /\ PagesOK(used, h, task, mms)
        /\ ObjectsOK(h, fl, task, mms)
        /\ CountsOK(h, fl, TotalAfter("task", p), FreeAfter("task", p))
        /\ fl \in [Cache -> SUBSET Object]
        /\ TotalAfter("task", p) \in [Cache -> Nat] /\ FreeAfter("task", p) \in [Cache -> Nat]
        /\ Cardinality(used) = Cardinality(bitmap) + PagesFor(p)
        /\ fl["task"] = ListAfter("task", p)
        /\ PagesFor(p) \in Nat
    BY Zenon, <1>1, <1>2, Refilled
  <1>4. /\ user \in Page /\ user + 2^USER_MEM_ORDER <= POOL_PAGES
        /\ Block(user, USER_MEM_ORDER) \cap used = {}
    BY Zenon, <1>1, AllocFacts, OrderFacts
  <1>5. /\ kstack \in Page /\ kstack + 2^0 <= POOL_PAGES
        /\ Block(kstack, 0) \cap (used \cup Block(user, USER_MEM_ORDER)) = {}
    BY Zenon, <1>1, AllocFacts DEF StackPages
  <1>6. /\ pgd \in Page /\ pgd + 2^PGD_ORDER <= POOL_PAGES
        /\ Block(pgd, PGD_ORDER) \cap WithStack(p, user, kstack) = {}
    BY Zenon, <1>1, AllocFacts, OrderFacts
  <1>7. t \in TaskMem
    BY ZenonT(30), <1>1, <1>2, <1>3, <1>4, <1>5, <1>6 DEF TaskMem
  <1>8. /\ SoundTask(t) /\ Held(t) \cap used = {}
        /\ bitmap' = used \cup Held(t)
    BY Zenon, <1>1, <1>4, <1>5, <1>6, PowerFacts DEF SoundTask, Held, WithStack
  <1>9. t.obj = o /\ t.obj \in fl["task"]
    BY Zenon, <1>1, <1>3
  <1>10. /\ hdr' = h /\ freelist' = [fl EXCEPT !["task"] = @ \ {t.obj}]
         /\ total_objs' = TotalAfter("task", p)
         /\ free_objs' = [FreeAfter("task", p) EXCEPT !["task"] = @ - 1]
    BY Zenon, <1>1, <1>2, TakeFacts
  <1>11. task' = [task EXCEPT ![s] = t] /\ mms' = mms /\ asserted' = FALSE
    BY Zenon, <1>1 DEF IInv, TypeOK
  <1>12. Cardinality(bitmap) \in Nat
    <2>1. Typed(bitmap, hdr, task, mms)
      BY Zenon DEF IInv, TypeOK, Typed
    <2> QED BY Zenon, <2>1, CountFacts
  <1> HIDE DEF t, used, h, fl
  <1>13. /\ PagesOK(bitmap', h, task', mms) /\ Typed(bitmap', h, task', mms)
         /\ Cardinality(bitmap') = Cardinality(used) + TaskPages
    <2>1. /\ PagesOK(used \cup Held(t), h, [task EXCEPT ![s] = t], mms)
          /\ Typed(used \cup Held(t), h, [task EXCEPT ![s] = t], mms)
          /\ Cardinality(used \cup Held(t)) = Cardinality(used) + TaskPages
      BY Zenon, <1>1, <1>3, <1>7, <1>8, PlaceTask
    <2> QED BY Zenon, <2>1, <1>8, <1>11
  <1>14. ObjectsOK(h, freelist', task', mms)
    <2>1. ObjectsOK(h, [fl EXCEPT !["task"] = @ \ {t.obj}], [task EXCEPT ![s] = t], mms)
      BY Zenon, <1>1, <1>3, <1>7, <1>9, TakeTask
    <2> QED BY Zenon, <2>1, <1>10, <1>11
  <1>15. /\ CountsOK(h, freelist', TotalAfter("task", p), free_objs')
         /\ free_objs' \in [Cache -> Nat]
    BY Zenon, <1>2, <1>3, <1>9, <1>10, CountTake
  <1>16. freelist' \in [Cache -> SUBSET Object]
    BY Zenon, <1>2, <1>3, <1>10
  <1>17. free_count' = POOL_PAGES - Cardinality(bitmap')
    <2>1. /\ free_count = POOL_PAGES - Cardinality(bitmap) /\ POOL_PAGES \in Nat
          /\ free_count' = free_count - (PagesFor(p) + 2^USER_MEM_ORDER + 1 + 2^PGD_ORDER)
          /\ PagesFor(p) \in Nat /\ 2^USER_MEM_ORDER \in Nat /\ 2^PGD_ORDER \in Nat
      BY Zenon, <1>1, <1>3, OrderFacts, OrdersAssumption DEF IInv
    <2>2. Cardinality(bitmap') = Cardinality(bitmap) + PagesFor(p) + TaskPages
      BY Zenon, <1>3, <1>13
    <2> QED BY SMTT(30), <1>12, <2>1, <2>2 DEF TaskPages
  <1> QED BY Zenon, <1>3, <1>10, <1>11, <1>13, <1>14, <1>15, <1>16, <1>17, Together

\* Reaping a zombie in do_wait() keeps the invariant.
LEMMA ReapStep == ASSUME IInv, NEW s \in Slots, Reap(s) PROVE IInv'
  <1> DEFINE t == task[s]
             o == t.obj
             u1 == Freed(bitmap, t.pgd, PGD_ORDER)
             u2 == Freed(u1, t.user, USER_MEM_ORDER)
  <1>1. /\ t # None /\ task' = [task EXCEPT ![s] = None] /\ mms' = mms
        /\ Kfree(o)
        /\ bitmap' = Freed(u2, t.kstack, 0)
        /\ free_count' = free_count + (2^PGD_ORDER + 2^USER_MEM_ORDER + 1)
        /\ asserted' = (asserted \/ ~FreeOK(bitmap, t.pgd, PGD_ORDER)
                                 \/ ~FreeOK(u1, t.user, USER_MEM_ORDER)
                                 \/ ~FreeOK(u2, t.kstack, 0) \/ ~KfreeOK(o))
    BY Zenon DEF Reap
  <1>2. "task" \in Cache /\ "mm" \in Cache /\ "vma" \in Cache /\ Cache = {"task", "mm", "vma"}
    BY Zenon DEF Cache
  <1>3. s \in LiveIn(task) /\ t \in TaskMem /\ SoundTask(t)
    BY Zenon, <1>1 DEF LiveIn, IInv, TypeOK, PagesOK
  <1>4. Typed(bitmap, hdr, task, mms)
    BY DEF IInv, TypeOK, Typed
  <1>5. /\ ObjectsOK(hdr, [freelist EXCEPT !["task"] = @ \cup {o}], [task EXCEPT ![s] = None], mms)
        /\ o \notin freelist["task"] /\ o \in Objects(hdr, "task")
    BY Zenon, <1>3, <1>4, GiveTask DEF IInv, TypeOK
  <1>6. hdr[o[1]] = "task" /\ "task" # None
    BY Zenon, <1>2, <1>5, HeaderFacts, NoneAssumption
  <1>7. Held(t) \subseteq bitmap
    BY Zenon, <1>3 DEF IInv, PagesOK
  <1>8. /\ FreeOK(bitmap, t.pgd, PGD_ORDER)
        /\ FreeOK(u1, t.user, USER_MEM_ORDER)
        /\ FreeOK(u2, t.kstack, 0)
        /\ bitmap' = bitmap \ Held(t)
    BY Zenon, <1>1, <1>3, <1>7, PowerFacts DEF FreeOK, Freed, SoundTask, Held
  <1>9. KfreeOK(o)
    BY Zenon, <1>6 DEF KfreeOK
  <1>10. asserted' = FALSE
    BY Zenon, <1>1, <1>8, <1>9 DEF IInv, TypeOK
  <1> HIDE DEF o
  <1>13. freelist' = [freelist EXCEPT !["task"] = @ \cup {o}]
    BY Zenon, <1>1, <1>6 DEF Kfree
  <1>14. free_objs' = [free_objs EXCEPT !["task"] = @ + 1]
    BY Zenon, <1>1, <1>6 DEF Kfree
  <1>15. hdr' = hdr /\ total_objs' = total_objs
    BY Zenon, <1>1 DEF Kfree
  <1>16. Cardinality(freelist["task"] \cup {o}) = Cardinality(freelist["task"]) + 1
    BY Zenon, <1>2, <1>5, ObjectsFinite, FS_AddElement DEF IInv
  <1>17. o \in Object
    BY Zenon, <1>3 DEF TaskMem, o
  <1>18. /\ CountsOK(hdr, freelist', total_objs, free_objs')
         /\ free_objs' \in [Cache -> Nat] /\ freelist' \in [Cache -> SUBSET Object]
    BY SMTT(30), <1>2, <1>13, <1>14, <1>16, <1>17 DEF IInv, TypeOK, CountsOK
  <1>19. /\ PagesOK(bitmap', hdr, task', mms) /\ Typed(bitmap', hdr, task', mms)
         /\ Cardinality(bitmap') = Cardinality(bitmap) - TaskPages
    <2>1. /\ PagesOK(bitmap \ Held(t), hdr, [task EXCEPT ![s] = None], mms)
          /\ Typed(bitmap \ Held(t), hdr, [task EXCEPT ![s] = None], mms)
          /\ Cardinality(bitmap \ Held(t)) = Cardinality(bitmap) - TaskPages
      BY Zenon, <1>3, <1>4, DropTask DEF IInv
    <2> QED BY Zenon, <2>1, <1>1, <1>8
  <1>20. free_count' = POOL_PAGES - Cardinality(bitmap')
    <2>1. Cardinality(bitmap) \in Nat
      BY Zenon, <1>4, CountFacts
    <2>2. /\ free_count = POOL_PAGES - Cardinality(bitmap) /\ POOL_PAGES \in Nat
          /\ free_count' = free_count + (2^PGD_ORDER + 2^USER_MEM_ORDER + 1)
          /\ 2^USER_MEM_ORDER \in Nat /\ 2^PGD_ORDER \in Nat
      BY Zenon, <1>1, OrderFacts, OrdersAssumption DEF IInv
    <2>3. Cardinality(bitmap') = Cardinality(bitmap) - TaskPages
      BY Zenon, <1>19
    <2> QED BY SMTT(30), <2>1, <2>2, <2>3 DEF TaskPages
  <1>21. ObjectsOK(hdr, freelist', task', mms)
    BY Zenon, <1>1, <1>5, <1>13
  <1> QED BY Zenon, <1>1, <1>10, <1>15, <1>18, <1>19, <1>20, <1>21, Together DEF IInv, TypeOK

\* A mm_alloc() that succeeds keeps the invariant.
LEMMA MmAllocStep == IInv /\ MmAlloc => IInv'
  <1> SUFFICES ASSUME IInv, MmAlloc PROVE IInv'
    OBVIOUS
  <1> DEFINE Makes(p, pgd, o) ==
               /\ bitmap' = UsedAfter(p) \cup Block(pgd, PGD_ORDER)
               /\ free_count' = free_count - (PagesFor(p) + 2^PGD_ORDER)
               /\ TakeObject("mm", p, {o})
               /\ mms' = mms \cup {[obj |-> o, pgd |-> pgd, mmap |-> <<>>]}
  <1>a. \E p \in Refill("mm") : \E pgd \in AllocPages(UsedAfter(p), PGD_ORDER) :
        \E o \in ListAfter("mm", p) : Makes(p, pgd, o)
    BY Zenon DEF MmAlloc
  <1> HIDE DEF Makes
  <1>b. PICK p \in Refill("mm") : \E pgd \in AllocPages(UsedAfter(p), PGD_ORDER) :
        \E o \in ListAfter("mm", p) : Makes(p, pgd, o)
    BY Zenon, <1>a
  <1>c. PICK pgd \in AllocPages(UsedAfter(p), PGD_ORDER) :
        \E o \in ListAfter("mm", p) : Makes(p, pgd, o)
    BY Zenon, <1>b
  <1>d. PICK o \in ListAfter("mm", p) : Makes(p, pgd, o)
    BY Zenon, <1>c
  <1>1. /\ bitmap' = UsedAfter(p) \cup Block(pgd, PGD_ORDER)
        /\ free_count' = free_count - (PagesFor(p) + 2^PGD_ORDER)
        /\ TakeObject("mm", p, {o})
        /\ mms' = mms \cup {[obj |-> o, pgd |-> pgd, mmap |-> <<>>]}
        /\ task' = task /\ asserted' = FALSE
    BY Zenon, <1>d DEF Makes, MmAlloc, IInv, TypeOK
  <1> DEFINE m == [obj |-> o, pgd |-> pgd, mmap |-> <<>>]
             used == UsedAfter(p)
             h    == HdrAfter("mm", p)
             fl   == FreelistAfter("mm", p)
  <1>2. "mm" \in Cache
    BY Zenon DEF Cache
  <1>3. /\ Typed(used, h, task, mms) /\ PagesOK(used, h, task, mms)
        /\ ObjectsOK(h, fl, task, mms)
        /\ CountsOK(h, fl, TotalAfter("mm", p), FreeAfter("mm", p))
        /\ fl \in [Cache -> SUBSET Object]
        /\ TotalAfter("mm", p) \in [Cache -> Nat] /\ FreeAfter("mm", p) \in [Cache -> Nat]
        /\ Cardinality(used) = Cardinality(bitmap) + PagesFor(p)
        /\ fl["mm"] = ListAfter("mm", p)
        /\ PagesFor(p) \in Nat
    BY Zenon, <1>2, Refilled
  <1>4. /\ pgd \in Page /\ pgd + 2^PGD_ORDER <= POOL_PAGES
        /\ Block(pgd, PGD_ORDER) \cap used = {}
    BY Zenon, AllocFacts, OrderFacts
  <1>5. <<>> \in Seq(Area)
    OBVIOUS
  <1>6. m \in Space
    BY Zenon, <1>2, <1>3, <1>4, <1>5 DEF Space
  <1>7. /\ Dir(m) = Block(pgd, PGD_ORDER) /\ m.pgd = pgd /\ m.obj = o /\ m.mmap = <<>>
        /\ mms' = mms \cup {m}
    BY <1>1 DEF Dir
  <1>8. /\ hdr' = h /\ freelist' = [fl EXCEPT !["mm"] = @ \ {m.obj}]
        /\ total_objs' = TotalAfter("mm", p)
        /\ free_objs' = [FreeAfter("mm", p) EXCEPT !["mm"] = @ - 1]
    BY Zenon, <1>1, <1>2, TakeFacts
  <1>9. Cardinality(bitmap) \in Nat
    <2>1. Typed(bitmap, hdr, task, mms)
      BY DEF IInv, TypeOK, Typed
    <2> QED BY Zenon, <2>1, CountFacts
  <1> HIDE DEF m, used, h, fl
  <1>10. /\ PagesOK(bitmap', h, task, mms') /\ Typed(bitmap', h, task, mms')
         /\ Cardinality(bitmap') = Cardinality(used) + 2^PGD_ORDER
    <2>1. /\ PagesOK(used \cup Dir(m), h, task, mms \cup {m})
          /\ Typed(used \cup Dir(m), h, task, mms \cup {m})
          /\ Cardinality(used \cup Dir(m)) = Cardinality(used) + 2^PGD_ORDER
      BY Zenon, <1>3, <1>4, <1>6, <1>7, PlaceDir
    <2> QED BY Zenon, <2>1, <1>1, <1>7 DEF used
  <1>11. ObjectsOK(h, freelist', task, mms')
    <2>1. ObjectsOK(h, [fl EXCEPT !["mm"] = @ \ {m.obj}], task, mms \cup {m})
      BY Zenon, <1>3, <1>6, <1>7, TakeMm
    <2> QED BY Zenon, <2>1, <1>7, <1>8
  <1>12. /\ CountsOK(h, freelist', TotalAfter("mm", p), free_objs')
         /\ free_objs' \in [Cache -> Nat]
    <2>1. m.obj \in fl["mm"]
      BY Zenon, <1>3, <1>7
    <2>2. /\ CountsOK(h, [fl EXCEPT !["mm"] = @ \ {m.obj}], TotalAfter("mm", p),
                      [FreeAfter("mm", p) EXCEPT !["mm"] = @ - 1])
          /\ [FreeAfter("mm", p) EXCEPT !["mm"] = @ - 1] \in [Cache -> Nat]
      BY Zenon, <1>2, <1>3, <2>1, CountTake
    <2> QED BY Zenon, <2>2, <1>8
  <1>13. freelist' \in [Cache -> SUBSET Object]
    BY Zenon, <1>2, <1>3, <1>8
  <1>14. free_count' = POOL_PAGES - Cardinality(bitmap')
    <2>1. /\ free_count = POOL_PAGES - Cardinality(bitmap)
          /\ free_count' = free_count - (PagesFor(p) + 2^PGD_ORDER)
          /\ PagesFor(p) \in Nat /\ 2^PGD_ORDER \in Nat /\ POOL_PAGES \in Nat
      BY Zenon, <1>1, <1>3, OrderFacts, OrdersAssumption DEF IInv
    <2>2. Cardinality(bitmap') = Cardinality(bitmap) + PagesFor(p) + 2^PGD_ORDER
      BY Zenon, <1>3, <1>10
    <2> QED BY SMTT(30), <1>9, <2>1, <2>2
  <1> QED BY Zenon, <1>1, <1>3, <1>8, <1>10, <1>11, <1>12, <1>13, <1>14, Together

\* vma_create() keeps the invariant.
LEMMA VmaCreateStep == ASSUME IInv, NEW n \in mms, NEW start \in Starts, VmaCreate(n, start) PROVE IInv'
  <1> DEFINE Adds(p, o) ==
               /\ bitmap' = UsedAfter(p)
               /\ free_count' = free_count - PagesFor(p)
               /\ TakeObject("vma", p, {o})
               /\ LET area == [obj |-> o, vm_start |-> start]
                  IN  mms' = (mms \ {n}) \cup {[n EXCEPT !.mmap = InsertArea(@, area)]}
  <1>a. \E p \in Refill("vma") : \E o \in ListAfter("vma", p) : Adds(p, o)
    BY Zenon DEF VmaCreate
  <1> HIDE DEF Adds
  <1>b. PICK p \in Refill("vma") : \E o \in ListAfter("vma", p) : Adds(p, o)
    BY Zenon, <1>a
  <1>c. PICK o \in ListAfter("vma", p) : Adds(p, o)
    BY <1>b
  <1> DEFINE a == [obj |-> o, vm_start |-> start]
             m == [n EXCEPT !.mmap = InsertArea(@, a)]
             h    == HdrAfter("vma", p)
             fl   == FreelistAfter("vma", p)
             used == UsedAfter(p)
  <1>1. /\ bitmap' = used
        /\ free_count' = free_count - PagesFor(p)
        /\ TakeObject("vma", p, {o})
        /\ mms' = (mms \ {n}) \cup {m}
        /\ task' = task /\ asserted' = FALSE
    BY Zenon, <1>c DEF Adds, VmaCreate, IInv, TypeOK
  <1>2. "vma" \in Cache
    BY Zenon DEF Cache
  <1>3. /\ Typed(used, h, task, mms) /\ PagesOK(used, h, task, mms)
        /\ ObjectsOK(h, fl, task, mms)
        /\ CountsOK(h, fl, TotalAfter("vma", p), FreeAfter("vma", p))
        /\ fl \in [Cache -> SUBSET Object]
        /\ TotalAfter("vma", p) \in [Cache -> Nat] /\ FreeAfter("vma", p) \in [Cache -> Nat]
        /\ Cardinality(used) = Cardinality(bitmap) + PagesFor(p)
        /\ fl["vma"] = ListAfter("vma", p)
        /\ PagesFor(p) \in Nat
    BY Zenon, <1>2, Refilled
  <1>4. n \in Space /\ a \in Area
    BY <1>2, <1>3 DEF IInv, TypeOK, Area
  <1>5. InsertArea(n.mmap, a) \in Seq(Area)
    BY Zenon, <1>4, AreaFacts
  <1>6. m \in Space /\ m.obj = n.obj /\ m.pgd = n.pgd /\ m.mmap = InsertArea(n.mmap, a)
    BY Zenon, <1>4, <1>5 DEF Space
  <1>7. a.obj = o /\ a.obj \in fl["vma"]
    BY <1>3
  <1>8. /\ hdr' = h /\ freelist' = [fl EXCEPT !["vma"] = @ \ {a.obj}]
        /\ total_objs' = TotalAfter("vma", p)
        /\ free_objs' = [FreeAfter("vma", p) EXCEPT !["vma"] = @ - 1]
    BY Zenon, <1>1, <1>2, TakeFacts
  <1>9. Cardinality(bitmap) \in Nat
    <2>1. Typed(bitmap, hdr, task, mms)
      BY Zenon DEF IInv, TypeOK, Typed
    <2> QED BY Zenon, <2>1, CountFacts
  <1> HIDE DEF a, m, used, h, fl
  <1>10. PagesOK(bitmap', h, task, mms') /\ Typed(bitmap', h, task, mms')
    <2>1. /\ PagesOK(used, h, task, (mms \ {n}) \cup {m})
          /\ Typed(used, h, task, (mms \ {n}) \cup {m})
      BY Zenon, <1>3, <1>6, SameDir
    <2> QED BY Zenon, <2>1, <1>1
  <1>11. ObjectsOK(h, freelist', task, mms')
    <2>1. ObjectsOK(h, [fl EXCEPT !["vma"] = @ \ {a.obj}], task, (mms \ {n}) \cup {m})
      BY Zenon, <1>3, <1>4, <1>6, <1>7, TakeVma
    <2> QED BY Zenon, <2>1, <1>1, <1>8
  <1>12. /\ CountsOK(h, freelist', TotalAfter("vma", p), free_objs')
         /\ free_objs' \in [Cache -> Nat]
    <2>1. /\ CountsOK(h, [fl EXCEPT !["vma"] = @ \ {a.obj}], TotalAfter("vma", p),
                      [FreeAfter("vma", p) EXCEPT !["vma"] = @ - 1])
          /\ [FreeAfter("vma", p) EXCEPT !["vma"] = @ - 1] \in [Cache -> Nat]
      BY Zenon, <1>2, <1>3, <1>7, CountTake
    <2> QED BY <2>1, <1>8
  <1>13. freelist' \in [Cache -> SUBSET Object]
    BY Zenon, <1>2, <1>3, <1>8
  <1>14. free_count' = POOL_PAGES - Cardinality(bitmap')
    <2>1. /\ free_count = POOL_PAGES - Cardinality(bitmap)
          /\ free_count' = free_count - PagesFor(p)
          /\ PagesFor(p) \in Nat /\ POOL_PAGES \in Nat
      BY Zenon, <1>1, <1>3, OrdersAssumption DEF IInv
    <2>2. Cardinality(bitmap') = Cardinality(bitmap) + PagesFor(p)
      BY Zenon, <1>1, <1>3
    <2> QED BY <1>9, <2>1, <2>2
  <1> QED BY Zenon, <1>1, <1>3, <1>8, <1>10, <1>11, <1>12, <1>13, <1>14, Together

\* mm_free() keeps the invariant.
LEMMA MmFreeStep == ASSUME IInv, NEW m \in mms, MmFree(m) PROVE IInv'
  <1> DEFINE n == Len(m.mmap)
  <1>1. /\ freelist' = [freelist EXCEPT !["vma"] = @ \cup AreaObjects(m), !["mm"] = @ \cup {m.obj}]
        /\ free_objs' = [free_objs EXCEPT !["vma"] = @ + n, !["mm"] = @ + 1]
        /\ bitmap' = Freed(bitmap, m.pgd, PGD_ORDER)
        /\ free_count' = free_count + 2^PGD_ORDER
        /\ asserted' = (asserted \/ ~FreeOK(bitmap, m.pgd, PGD_ORDER))
        /\ mms' = mms \ {m} /\ task' = task
    BY Zenon DEF MmFree, AreaObjects
  <1>2. "task" \in Cache /\ "mm" \in Cache /\ "vma" \in Cache /\ Cache = {"task", "mm", "vma"}
    BY Zenon DEF Cache
  <1>3. Typed(bitmap, hdr, task, mms)
    BY DEF IInv, TypeOK, Typed
  <1>5. /\ IsFiniteSet(AreaObjects(m)) /\ Cardinality(AreaObjects(m)) = n /\ n \in Nat
        /\ AreaObjects(m) \cap freelist["vma"] = {}
        /\ AreaObjects(m) \subseteq Objects(hdr, "vma")
    BY Zenon, AreasCounted DEF IInv, TypeOK
  <1>6. Dir(m) \subseteq bitmap /\ m.pgd + 2^PGD_ORDER <= POOL_PAGES
    BY Zenon DEF IInv, PagesOK
  <1>7. FreeOK(bitmap, m.pgd, PGD_ORDER) /\ bitmap' = bitmap \ Dir(m)
    BY <1>1, <1>6 DEF FreeOK, Freed, Dir
  <1>8. asserted' = FALSE
    BY Zenon, <1>1, <1>7 DEF IInv, TypeOK
  <1>9. hdr' = hdr /\ total_objs' = total_objs
    BY Zenon DEF MmFree
  <1> HIDE DEF n
  <1>10. /\ freelist' \in [Cache -> SUBSET Object] /\ freelist'["task"] = freelist["task"]
         /\ freelist'["mm"] = freelist["mm"] \cup {m.obj}
         /\ freelist'["vma"] = freelist["vma"] \cup AreaObjects(m)
    <2>1. freelist \in [Cache -> SUBSET Object]
      BY Zenon DEF IInv, TypeOK
    <2>2. m.obj \in Object
      BY DEF IInv, TypeOK, Space
    <2>3. Objects(hdr, "vma") \subseteq Object
      <3>1. CachePages(hdr, "vma") \subseteq Page
        BY DEF CachePages
      <3>2. 0 .. objs_per_page["vma"] - 1 \subseteq Nat
        BY <1>2, CacheAssumption
      <3> QED BY Zenon, <3>1, <3>2 DEF Objects, Object
    <2> QED BY Zenon, <1>1, <1>2, <1>5, <2>1, <2>2, <2>3
  <1>11. /\ ObjectsOK(hdr, freelist', task, mms \ {m})
         /\ m.obj \notin freelist["mm"]
    <2>1. ObjectsOK(hdr, freelist, task, mms)
      BY DEF IInv
    <2> QED BY ZenonT(30), <1>3, <1>10, <2>1, GiveMm
  <1>12. /\ free_objs' \in [Cache -> Nat] /\ free_objs'["task"] = free_objs["task"]
         /\ free_objs'["mm"] = free_objs["mm"] + 1
         /\ free_objs'["vma"] = free_objs["vma"] + n
    <2>1. free_objs \in [Cache -> Nat]
      BY Zenon DEF IInv, TypeOK
    <2>2. free_objs' = [free_objs EXCEPT !["vma"] = @ + n, !["mm"] = @ + 1]
      BY Zenon, <1>1
    <2>3. n \in Nat
      BY Zenon, <1>5
    <2> QED BY SMTT(30), <1>2, <2>1, <2>2, <2>3
  <1>13. Cardinality(freelist["mm"] \cup {m.obj}) = Cardinality(freelist["mm"]) + 1
    BY Zenon, <1>2, <1>11, ObjectsFinite, FS_AddElement DEF IInv
  <1>14. Cardinality(freelist["vma"] \cup AreaObjects(m)) = Cardinality(freelist["vma"]) + n
    BY Zenon, <1>2, <1>5, ObjectsFinite, AddSet DEF IInv
  <1>15. CountsOK(hdr, freelist', total_objs, free_objs')
    BY Zenon, <1>2, <1>10, <1>12, <1>13, <1>14 DEF IInv, CountsOK
  <1>16. /\ PagesOK(bitmap', hdr, task, mms \ {m}) /\ Typed(bitmap', hdr, task, mms \ {m})
         /\ Cardinality(bitmap') = Cardinality(bitmap) - 2^PGD_ORDER
    <2>1. /\ PagesOK(bitmap \ Dir(m), hdr, task, mms \ {m})
          /\ Typed(bitmap \ Dir(m), hdr, task, mms \ {m})
          /\ Cardinality(bitmap \ Dir(m)) = Cardinality(bitmap) - 2^PGD_ORDER
      BY Zenon, <1>3, DropDir DEF IInv
    <2> QED BY <2>1, <1>7
  <1>17. free_count' = POOL_PAGES - Cardinality(bitmap')
    <2>1. Cardinality(bitmap) \in Nat
      BY Zenon, <1>3, CountFacts
    <2>2. /\ free_count = POOL_PAGES - Cardinality(bitmap) /\ POOL_PAGES \in Nat
          /\ free_count' = free_count + 2^PGD_ORDER /\ 2^PGD_ORDER \in Nat
      BY Zenon, <1>1, OrderFacts, OrdersAssumption DEF IInv
    <2>3. Cardinality(bitmap') = Cardinality(bitmap) - 2^PGD_ORDER
      BY Zenon, <1>16
    <2> QED BY SMTT(30), <2>1, <2>2, <2>3
  <1> QED BY Zenon, <1>1, <1>8, <1>9, <1>10, <1>11, <1>12, <1>15, <1>16, <1>17, Together DEF IInv, TypeOK

\* The invariant holds after boot.
LEMMA InitStep == Init => IInv
  <1> SUFFICES ASSUME Init PROVE IInv
    BY Zenon
  <1>1. TypeOK
    <2>1. mms \subseteq Space /\ IsFiniteSet(mms) /\ bitmap \subseteq Page
      BY Zenon, FS_EmptySet DEF Init
    <2>2. free_count \in 0 .. POOL_PAGES
      BY OrdersAssumption DEF Init
    <2>3. /\ hdr \in [Page -> Cache \cup {None}] /\ freelist \in [Cache -> SUBSET Object]
          /\ total_objs \in [Cache -> Nat] /\ free_objs \in [Cache -> Nat]
          /\ task \in [Slots -> TaskMem \cup {None}] /\ asserted \in BOOLEAN
      BY Zenon DEF Init
    <2> QED BY Zenon, <2>1, <2>2, <2>3 DEF TypeOK
  <1>2. SlabPages(hdr) = {} /\ LiveIn(task) = {} /\ mms = {} /\ bitmap = {}
    BY DEF Init, SlabPages, LiveIn
  <1>3. Cardinality(bitmap) = 0 /\ Cardinality({}) = 0
    BY Zenon, <1>2, FS_EmptySet
  <1>4. PagesOK(bitmap, hdr, task, mms)
    <2>1. 0 = 0 + 0 * TaskPages + 0 * 2^PGD_ORDER
      BY OrderFacts
    <2>2. Cardinality(bitmap) = Cardinality(SlabPages(hdr)) + Cardinality(LiveIn(task)) * TaskPages
                                + Cardinality(mms) * 2^PGD_ORDER
      BY Zenon, <1>2, <1>3, <2>1
    <2> QED BY Zenon, <1>2, <2>2 DEF PagesOK
  <1>5. \A c \in Cache : CachePages(hdr, c) = {} /\ Objects(hdr, c) = {} /\ freelist[c] = {}
    BY Zenon, NoneAssumption DEF Init, CachePages, Objects
  <1>6. \A c \in Cache : InUse(task, mms, c) = {}
    <2>1. /\ InUse(task, mms, "task") = {} /\ InUse(task, mms, "mm") = {}
          /\ InUse(task, mms, "vma") = {}
      BY <1>2, InUseIs
    <2> QED BY Zenon, <2>1 DEF Cache
  <1>7. ObjectsOK(hdr, freelist, task, mms)
    BY Zenon, <1>2, <1>5, <1>6 DEF ObjectsOK, OneUser
  <1>8. CountsOK(hdr, freelist, total_objs, free_objs)
    BY Zenon, <1>3, <1>5 DEF Init, CountsOK
  <1>9. free_count = POOL_PAGES - Cardinality(bitmap) /\ ~asserted
    BY <1>3, OrdersAssumption DEF Init
  <1> QED BY Zenon, <1>1, <1>4, <1>7, <1>8, <1>9 DEF IInv

\* Every step of the memory subsystem keeps the invariant.
LEMMA StepInv == IInv /\ [Next]_vars => IInv'
  <1> SUFFICES ASSUME IInv, [Next]_vars PROVE IInv'
    OBVIOUS
  <1>1. CASE ForkNoUser
    BY Zenon, <1>1, ForkNoUserStep
  <1>2. CASE ForkNoStack
    BY Zenon, <1>2, ForkNoStackStep
  <1>3. CASE ForkNoPgd
    BY <1>3, ForkNoPgdStep
  <1>4. CASE Fork
    BY <1>4, ForkStep
  <1>5. CASE \E s \in Slots : Reap(s)
    BY Zenon, <1>5, ReapStep
  <1>6. CASE MmAlloc
    BY <1>6, MmAllocStep
  <1>7. CASE MmAllocNoPgd
    BY <1>7, MmAllocNoPgdStep
  <1>8. CASE \E m \in mms : MmFree(m)
    BY Zenon, <1>8, MmFreeStep
  <1>9. CASE \E m \in mms : \E start \in Starts : VmaCreate(m, start)
    BY Zenon, <1>9, VmaCreateStep
  <1>10. CASE UNCHANGED vars
    BY Zenon, <1>10, Together DEF vars, IInv, TypeOK, Typed
  <1> QED BY Zenon, <1>1, <1>2, <1>3, <1>4, <1>5, <1>6, <1>7, <1>8, <1>9, <1>10 DEF Next

\* The allocators and their users keep the inductive invariant.
THEOREM Invariance == Spec => []IInv
  BY InitStep, StepInv, PTL DEF Spec

\* The holders of the pages add up to the bitmap and to free_count.
LEMMA PagesFollow == IInv => PagesAccounted
  <1> SUFFICES ASSUME IInv PROVE PagesAccounted
    OBVIOUS
  <1>1. Live = LiveIn(task)
    BY Zenon DEF Live, LiveIn
  <1>2. {Held(task[s]) : s \in LiveIn(task)}
          = {Block(task[s].user, USER_MEM_ORDER) \cup Block(task[s].kstack, 0)
                \cup Block(task[s].pgd, PGD_ORDER) : s \in Live}
    BY Zenon, <1>1 DEF Held
  <1>3. {Dir(m) : m \in mms} = {Block(m.pgd, PGD_ORDER) : m \in mms}
    BY Zenon DEF Dir
  <1> QED BY Zenon, <1>1, <1>2, <1>3 DEF IInv, PagesOK, PagesAccounted, SlabPages, TaskPages

\* The objects in use are those the caches have and have not on a free list.
LEMMA ObjectsFollow == IInv => ObjectsAccounted
  <1> SUFFICES ASSUME IInv, NEW c \in Cache
               PROVE  /\ total_objs[c] = Cardinality(Objects(hdr, c))
                      /\ free_objs[c] = Cardinality(freelist[c])
                      /\ InUse(task, mms, c) \cup freelist[c] = Objects(hdr, c)
                      /\ Cardinality(InUse(task, mms, c)) + free_objs[c] = total_objs[c]
    BY Zenon DEF ObjectsAccounted, Objects, CachePages, InUse, Live, LiveIn
  <1>1. /\ total_objs[c] = Cardinality(Objects(hdr, c)) /\ free_objs[c] = Cardinality(freelist[c])
        /\ InUse(task, mms, c) \cup freelist[c] = Objects(hdr, c)
        /\ InUse(task, mms, c) \cap freelist[c] = {}
    BY Zenon DEF IInv, CountsOK, ObjectsOK
  <1>2. IsFiniteSet(Objects(hdr, c)) /\ IsFiniteSet(freelist[c])
    BY Zenon, ObjectsFinite DEF IInv
  <1>3. IsFiniteSet(InUse(task, mms, c))
    BY Zenon, <1>1, <1>2, FS_Subset
  <1>4. Cardinality(InUse(task, mms, c) \cup freelist[c])
          = Cardinality(InUse(task, mms, c)) + Cardinality(freelist[c])
    BY Zenon, <1>1, <1>2, <1>3, AddSet
  <1> QED BY Zenon, <1>1, <1>4

\* Every set bit of the page bitmap belongs to exactly one holder and every
\* slab object is in use or free: do_fork(), do_wait(), mm_alloc(),
\* vma_create() and mm_free() neither leak nor share memory.
THEOREM AllMemoryAccounted == Spec => []MemoryAccounted
  <1>1. IInv => MemoryAccounted
    BY Zenon, PagesFollow, ObjectsFollow DEF MemoryAccounted
  <1> QED BY <1>1, Invariance, PTL

\* No ASSERT of free_pages() or kfree() fails.
THEOREM AssertsHold == Spec => []NoAssertFails
  <1>1. IInv => NoAssertFails
    BY DEF IInv, NoAssertFails
  <1> QED BY <1>1, Invariance, PTL

=============================================================================
