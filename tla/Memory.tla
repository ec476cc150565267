------------------------------- MODULE Memory -------------------------------
(***************************************************************************)
(* Kernel memory: the page bitmap (mm/page_alloc.c), the slab caches on    *)
(* top of it (mm/slab.c), and the code that takes memory from both and     *)
(* must give all of it back: do_fork() and the reaper in do_wait()         *)
(* (proc/fork.c, proc/wait.c), page directories (mmu/mmu.c) and address    *)
(* spaces (mm/vmm.c).                                                      *)
(*                                                                         *)
(* No interrupt handler allocates and none of these functions yields, so   *)
(* each call is one step.  A call that fails without changing anything is  *)
(* no step.                                                                *)
(***************************************************************************)
EXTENDS Integers, Sequences, FiniteSets

CONSTANTS
    POOL_PAGES,       \* pages in the pool
    PAGE_MAX_ORDER,
    USER_MEM_ORDER,   \* order of a process's user memory (8)
    PGD_ORDER,        \* order of a page directory (2)
    objs_per_page,    \* objects a slab page holds, for each cache
    Slots,            \* scheduler slots a forked task can have
    Starts,           \* start addresses of the areas of an address space
    MaxAreas,         \* bound: areas per address space
    MaxSpaces,        \* bound: address spaces at a time
    None

Page  == 0 .. POOL_PAGES - 1
Cache == {"task", "mm", "vma"}

\* kmem_cache_create() asserts that a page holds at least one object.
ASSUME OrdersAssumption == /\ POOL_PAGES \in Nat /\ PAGE_MAX_ORDER \in Nat
                           /\ USER_MEM_ORDER \in 0 .. PAGE_MAX_ORDER
                           /\ PGD_ORDER \in 0 .. PAGE_MAX_ORDER
ASSUME CacheAssumption  == objs_per_page \in [Cache -> Nat \ {0}]
ASSUME SlotsAssumption  == Slots \subseteq Nat /\ IsFiniteSet(Slots)

\* A slab object is a page and an index in it.
Object == Page \X Nat

\* The memory of a task, an area of an address space, and an address space.
TaskMem == [obj : Object, user : Page, kstack : Page, pgd : Page]
Area    == [obj : Object, vm_start : Starts]
Space   == [obj : Object, pgd : Page, mmap : Seq(Area)]

ASSUME NoneAssumption == None \notin Page /\ None \notin Cache /\ None \notin TaskMem

VARIABLES
    bitmap,       \* the pages whose bit is set
    free_count,
    hdr,          \* slab_page_hdr.cache of each page, None if it is no slab page
    freelist,     \* per cache: the objects on its free list, pairs <<page, index>>
    total_objs, free_objs,
    task,         \* per slot: the memory of its task, None if the slot is free
    mms,          \* the address spaces in use
    asserted      \* an ASSERT has failed

pool == <<bitmap, free_count>>
slab == <<hdr, freelist, total_objs, free_objs>>
vars == <<bitmap, free_count, hdr, freelist, total_objs, free_objs, task, mms, asserted>>

-----------------------------------------------------------------------------
(* The page allocator *)

Block(i, order) == i .. i + 2^order - 1

\* alloc_pages() tries the naturally aligned blocks in turn.
Fits(used, order, i) == /\ i % 2^order = 0
                        /\ i + 2^order <= POOL_PAGES
                        /\ Block(i, order) \cap used = {}

\* The block alloc_pages() returns, as a set: empty if there is none.
AllocPages(used, order) ==
    LET fits == {i \in Page : Fits(used, order, i)}
    IN  {i \in fits : order <= PAGE_MAX_ORDER /\ \A j \in fits : i <= j}

\* free_pages() clears the bits of a block, all of which must be set.
Freed(used, i, order) == used \ Block(i, order)
FreeOK(used, i, order) == i + 2^order <= POOL_PAGES /\ Block(i, order) \subseteq used

-----------------------------------------------------------------------------
(* The slab caches *)

\* slab_refill() puts the objects of a new page on the free list.
Carved(c, p) == {p} \X (0 .. objs_per_page[c] - 1)

\* kmem_cache_alloc(): the page a cache without free objects takes.
Refill(c) == IF freelist[c] = {} THEN AllocPages(bitmap, 0) ELSE {None}

UsedAfter(p)    == IF p = None THEN bitmap ELSE bitmap \cup {p}
ListAfter(c, p) == IF p = None THEN freelist[c] ELSE Carved(c, p)
PagesFor(p)     == IF p = None THEN 0 ELSE 1
ObjsFor(c, p)   == IF p = None THEN 0 ELSE objs_per_page[c]

\* The cache after a refill with page p, if it needed one, and after the
\* objects in taken, one or none, have left it.  The order of the free list,
\* and so which object is taken, is left open.
TakeObject(c, p, taken) ==
    /\ hdr' = IF p = None THEN hdr ELSE [hdr EXCEPT ![p] = c]
    /\ freelist' = [freelist EXCEPT ![c] = ListAfter(c, p) \ taken]
    /\ total_objs' = [total_objs EXCEPT ![c] = @ + ObjsFor(c, p)]
    /\ free_objs' = [free_objs EXCEPT ![c] = @ + ObjsFor(c, p) - Cardinality(taken)]

\* kfree() finds the cache of an object in the header of its page, and asserts
\* that there is one.
KfreeOK(o) == hdr[o[1]] # None

Kfree(o) ==
    LET c == hdr[o[1]]
    IN  /\ freelist' = [freelist EXCEPT ![c] = @ \cup {o}]
        /\ free_objs' = [free_objs EXCEPT ![c] = @ + 1]
        /\ UNCHANGED <<hdr, total_objs>>

-----------------------------------------------------------------------------
(* Processes *)

FreeSlot == \E s \in Slots : task[s] = None

\* Mutation of ForkNoUser: the task_struct is not given back.
ForkNoUserLeaks ==
    /\ FreeSlot
    /\ \E p \in Refill("task") :
         /\ AllocPages(UsedAfter(p), USER_MEM_ORDER) = {}
         /\ bitmap' = UsedAfter(p)
         /\ free_count' = free_count - PagesFor(p)
         /\ \E o \in ListAfter("task", p) : TakeObject("task", p, {o})
    /\ UNCHANGED <<task, mms, asserted>>

\* do_fork(): the user memory does not fit; the task_struct goes back.
ForkNoUser ==
    /\ FreeSlot
    /\ \E p \in Refill("task") :
         /\ AllocPages(UsedAfter(p), USER_MEM_ORDER) = {}
         /\ bitmap' = UsedAfter(p)
         /\ free_count' = free_count - PagesFor(p)
         /\ TakeObject("task", p, {})
    /\ UNCHANGED <<task, mms, asserted>>

\* do_fork(): no page for the kernel stack; the user memory goes back too.
ForkNoStack ==
    /\ FreeSlot
    /\ \E p \in Refill("task") : \E user \in AllocPages(UsedAfter(p), USER_MEM_ORDER) :
         LET used == UsedAfter(p) \cup Block(user, USER_MEM_ORDER)
         IN  /\ AllocPages(used, 0) = {}
             /\ bitmap' = Freed(used, user, USER_MEM_ORDER)
             /\ free_count' = free_count - PagesFor(p)
             /\ TakeObject("task", p, {})
             /\ asserted' = (asserted \/ ~FreeOK(used, user, USER_MEM_ORDER))
    /\ UNCHANGED <<task, mms>>

\* The bitmap with the user memory and the kernel stack of a new process.
WithStack(p, user, kstack) == UsedAfter(p) \cup Block(user, USER_MEM_ORDER) \cup Block(kstack, 0)

StackPages(p, user) == AllocPages(UsedAfter(p) \cup Block(user, USER_MEM_ORDER), 0)

\* do_fork(): no room for the page directory; stack and user memory go back.
ForkNoPgd ==
    /\ FreeSlot
    /\ \E p \in Refill("task") : \E user \in AllocPages(UsedAfter(p), USER_MEM_ORDER) :
       \E kstack \in StackPages(p, user) :
         LET used == WithStack(p, user, kstack)
             less == Freed(used, kstack, 0)
         IN  /\ AllocPages(used, PGD_ORDER) = {}
             /\ bitmap' = Freed(less, user, USER_MEM_ORDER)
             /\ free_count' = free_count - PagesFor(p)
             /\ TakeObject("task", p, {})
             /\ asserted' = (asserted \/ ~FreeOK(used, kstack, 0) \/ ~FreeOK(less, user, USER_MEM_ORDER))
    /\ UNCHANGED <<task, mms>>

\* do_fork() that succeeds; the child gets the first free slot.
Fork ==
    \E s \in Slots :
    \E p \in Refill("task") : \E user \in AllocPages(UsedAfter(p), USER_MEM_ORDER) :
    \E kstack \in StackPages(p, user) :
    \E pgd \in AllocPages(WithStack(p, user, kstack), PGD_ORDER) :
    \E o \in ListAfter("task", p) :
         /\ task[s] = None /\ \A r \in Slots : r < s => task[r] # None
         /\ bitmap' = WithStack(p, user, kstack) \cup Block(pgd, PGD_ORDER)
         /\ free_count' = free_count - (PagesFor(p) + 2^USER_MEM_ORDER + 1 + 2^PGD_ORDER)
         /\ TakeObject("task", p, {o})
         /\ task' = [task EXCEPT ![s] = [obj |-> o, user |-> user,
                                         kstack |-> kstack, pgd |-> pgd]]
         /\ UNCHANGED <<mms, asserted>>

\* Mutation of Reap: the kernel stack is freed with the order of the user memory.
ReapAsUser(s) ==
    LET t  == task[s]
        u1 == Freed(bitmap, t.pgd, PGD_ORDER)
        u2 == Freed(u1, t.user, USER_MEM_ORDER)
    IN  /\ t # None
        /\ task' = [task EXCEPT ![s] = None]
        /\ Kfree(t.obj)
        /\ bitmap' = Freed(u2, t.kstack, USER_MEM_ORDER)
        /\ free_count' = free_count + (2^PGD_ORDER + 2^USER_MEM_ORDER + 2^USER_MEM_ORDER)
        /\ asserted' = (asserted \/ ~FreeOK(u2, t.kstack, USER_MEM_ORDER))
        /\ UNCHANGED mms

\* do_wait() reaps the zombie in slot s.
Reap(s) ==
    LET t  == task[s]
        u1 == Freed(bitmap, t.pgd, PGD_ORDER)
        u2 == Freed(u1, t.user, USER_MEM_ORDER)
    IN  /\ t # None
        /\ task' = [task EXCEPT ![s] = None]
        /\ Kfree(t.obj)
        /\ bitmap' = Freed(u2, t.kstack, 0)
        /\ free_count' = free_count + (2^PGD_ORDER + 2^USER_MEM_ORDER + 1)
        /\ asserted' = (asserted \/ ~FreeOK(bitmap, t.pgd, PGD_ORDER)
                                 \/ ~FreeOK(u1, t.user, USER_MEM_ORDER)
                                 \/ ~FreeOK(u2, t.kstack, 0) \/ ~KfreeOK(t.obj))
        /\ UNCHANGED mms

-----------------------------------------------------------------------------
(* Address spaces *)

\* mm_alloc() without room for the page directory: the mm_struct goes back.
MmAllocNoPgd ==
    /\ Cardinality(mms) < MaxSpaces
    /\ \E p \in Refill("mm") :
         /\ AllocPages(UsedAfter(p), PGD_ORDER) = {}
         /\ bitmap' = UsedAfter(p)
         /\ free_count' = free_count - PagesFor(p)
         /\ TakeObject("mm", p, {})
    /\ UNCHANGED <<task, mms, asserted>>

MmAlloc ==
    /\ Cardinality(mms) < MaxSpaces
    /\ \E p \in Refill("mm") : \E pgd \in AllocPages(UsedAfter(p), PGD_ORDER) :
       \E o \in ListAfter("mm", p) :
         /\ bitmap' = UsedAfter(p) \cup Block(pgd, PGD_ORDER)
         /\ free_count' = free_count - (PagesFor(p) + 2^PGD_ORDER)
         /\ TakeObject("mm", p, {o})
         /\ mms' = mms \cup {[obj |-> o, pgd |-> pgd, mmap |-> <<>>]}
    /\ UNCHANGED <<task, asserted>>

\* vma_create() inserts before the first area that does not start earlier.
InsertArea(mmap, area) ==
    LET earlier == {k \in DOMAIN mmap : \A j \in 1 .. k : mmap[j].vm_start < area.vm_start}
        i == Cardinality(earlier) + 1
    IN  [k \in 1 .. Len(mmap) + 1 |-> IF k < i THEN mmap[k] ELSE IF k = i THEN area ELSE mmap[k - 1]]

VmaCreate(m, start) ==
    /\ Len(m.mmap) < MaxAreas
    /\ \E p \in Refill("vma") : \E o \in ListAfter("vma", p) :
         /\ bitmap' = UsedAfter(p)
         /\ free_count' = free_count - PagesFor(p)
         /\ TakeObject("vma", p, {o})
         /\ LET area == [obj |-> o, vm_start |-> start]
            IN  mms' = (mms \ {m}) \cup {[m EXCEPT !.mmap = InsertArea(@, area)]}
    /\ UNCHANGED <<task, asserted>>

\* mm_free() gives the areas, the page directory and the mm_struct back, the
\* objects by kmem_cache_free() to the caches it names.
MmFree(m) ==
    /\ freelist' = [freelist EXCEPT !["vma"] = @ \cup {m.mmap[k].obj : k \in DOMAIN m.mmap},
                                    !["mm"] = @ \cup {m.obj}]
    /\ free_objs' = [free_objs EXCEPT !["vma"] = @ + Len(m.mmap), !["mm"] = @ + 1]
    /\ bitmap' = Freed(bitmap, m.pgd, PGD_ORDER)
    /\ free_count' = free_count + 2^PGD_ORDER
    /\ asserted' = (asserted \/ ~FreeOK(bitmap, m.pgd, PGD_ORDER))
    /\ mms' = mms \ {m}
    /\ UNCHANGED <<hdr, total_objs, task>>

-----------------------------------------------------------------------------
\* page_alloc_init(), slab_init() and vmm_init().
Init == /\ bitmap = {} /\ free_count = POOL_PAGES
        /\ hdr = [p \in Page |-> None]
        /\ freelist = [c \in Cache |-> {}]
        /\ total_objs = [c \in Cache |-> 0] /\ free_objs = [c \in Cache |-> 0]
        /\ task = [s \in Slots |-> None]
        /\ mms = {}
        /\ asserted = FALSE

Next == \/ ForkNoUser \/ ForkNoStack \/ ForkNoPgd \/ Fork
        \/ \E s \in Slots : Reap(s)
        \/ MmAlloc \/ MmAllocNoPgd
        \/ \E m \in mms : MmFree(m) \/ \E start \in Starts : VmaCreate(m, start)

Spec == Init /\ [][Next]_vars

-----------------------------------------------------------------------------
(* Properties *)

Live == {s \in Slots : task[s] # None}

TypeOK == /\ bitmap \subseteq Page /\ free_count \in 0 .. POOL_PAGES
          /\ hdr \in [Page -> Cache \cup {None}]
          /\ freelist \in [Cache -> SUBSET Object]
          /\ total_objs \in [Cache -> Nat] /\ free_objs \in [Cache -> Nat]
          /\ task \in [Slots -> TaskMem \cup {None}]
          /\ mms \subseteq Space /\ IsFiniteSet(mms)
          /\ asserted \in BOOLEAN

\* Every page whose bit is set belongs to exactly one holder, a process, an
\* address space or a slab cache, and free_count counts the others: nothing
\* leaks on any error path of do_fork() or mm_alloc(), the reaper returns all
\* a process had, and no page has two holders.
PagesAccounted ==
    LET SlabPages == {p \in Page : hdr[p] # None}
    IN  /\ bitmap = SlabPages
                     \cup (UNION {Block(task[s].user, USER_MEM_ORDER) \cup Block(task[s].kstack, 0)
                                   \cup Block(task[s].pgd, PGD_ORDER) : s \in Live})
                     \cup (UNION {Block(m.pgd, PGD_ORDER) : m \in mms})
        /\ Cardinality(bitmap) = Cardinality(SlabPages)
                                 + Cardinality(Live) * (2^USER_MEM_ORDER + 1 + 2^PGD_ORDER)
                                 + Cardinality(mms) * 2^PGD_ORDER
        /\ free_count = POOL_PAGES - Cardinality(bitmap)

\* The objects in use and the free list of a cache are together the objects
\* of its pages, each once: kmalloc() never hands an object out twice and
\* kfree() never puts one on the list of another cache.
ObjectsAccounted ==
    LET inUse(c) == CASE c = "task" -> {task[s].obj : s \in Live}
                      [] c = "mm"   -> {m.obj : m \in mms}
                      [] c = "vma"  -> UNION {{m.mmap[k].obj : k \in DOMAIN m.mmap} : m \in mms}
        pages(c) == {p \in Page : hdr[p] = c}
        all(c)   == pages(c) \X (0 .. objs_per_page[c] - 1)
    IN  \A c \in Cache : /\ total_objs[c] = Cardinality(all(c))
                         /\ free_objs[c] = Cardinality(freelist[c])
                         /\ inUse(c) \cup freelist[c] = all(c)
                         /\ Cardinality(inUse(c)) + free_objs[c] = total_objs[c]

\* Both allocators, which share the pages, account for all they gave out.
MemoryAccounted == PagesAccounted /\ ObjectsAccounted

\* No ASSERT of free_pages() or kfree() fails: nobody frees a block twice, in
\* part, or with another order than it was allocated with, and what is given
\* to kfree() lies in a page of a cache.
NoAssertFails == ~asserted

\* Objects per page for small instances: a task fills a page.
ObjsPerPage == [c \in Cache |-> IF c = "task" THEN 1 ELSE 2]
=============================================================================
