----------------------------- MODULE BufferCache -----------------------------
(***************************************************************************)
(* The sector cache between the FAT32 driver and the SD card               *)
(* (kernel/block/buffer_cache.c over kernel/block/block.c).                *)
(*                                                                         *)
(* A sector stands for the pair (bdev, lba).  The kernel never switches    *)
(* tasks inside a file-system call, so each function of the cache is one   *)
(* step.  The card may refuse any transfer; a refused write may or may not *)
(* have reached the medium, a refused read may have overwritten the        *)
(* buffer.  Power may be lost between any two steps.                       *)
(***************************************************************************)
EXTENDS Naturals, TLC

CONSTANTS
    Sector,          \* (bdev, lba) pairs
    Value,           \* contents of a sector
    BCACHE_BUFFERS,  \* number of buffers (64)
    TICKS,           \* modulus of the 32-bit tick_counter
    None             \* a null struct buffer_head *, or no sector

ASSUME BuffersAssumption == BCACHE_BUFFERS \in Nat \ {0}
ASSUME TicksAssumption   == TICKS \in Nat \ {0}

Buffer == 0 .. BCACHE_BUFFERS - 1

ASSUME NoneAssumption == None \notin Sector \cup Buffer \cup (Sector \X Value)

VARIABLES
    sector, data, last_used,   \* buffers[]: fields of each buffer_head
    valid, dirty,              \* the buffers whose flag is set
    tick_counter,
    aged,        \* history: the buffers not used since tick_counter last wrapped
    media,       \* the contents of the card
    bh           \* the buffer the file system is working on, None after a failure

cache == <<sector, data, last_used, valid, dirty, tick_counter, aged>>
vars  == <<sector, data, last_used, valid, dirty, tick_counter, aged, media, bh>>

TypeOK == /\ sector \in [Buffer -> Sector \cup {None}]
          /\ data \in [Buffer -> Value]
          /\ valid \in SUBSET Buffer
          /\ dirty \in SUBSET Buffer
          /\ last_used \in [Buffer -> 0 .. TICKS - 1]
          /\ tick_counter \in 0 .. TICKS - 1
          /\ aged \in SUBSET Buffer
          /\ media \in [Sector -> Value]
          /\ bh \in Buffer \cup {None}

-----------------------------------------------------------------------------
(* The functions of buffer_cache.c *)

\* Mutation of Hits: a buffer is found only while it is clean.
HitsClean(s) == {b \in valid \ dirty : sector[b] = s}

Hits(s) == {b \in valid : sector[b] = s}

\* find_cached(): the first buffer that holds s.
Finds(b, s) == b \in Hits(s) /\ \A c \in Hits(s) : b <= c

\* pick_victim(): the first buffer that is not valid; if there is none, the
\* first of those with the smallest last_used.
Victim(b) ==
    \/ b \notin valid /\ \A c \in Buffer : c < b => c \in valid
    \/ /\ \A c \in Buffer : c \in valid
       /\ \A c \in Buffer : /\ last_used[b] <= last_used[c]
                            /\ c < b => last_used[b] < last_used[c]

Tick == (tick_counter + 1) % TICKS

Touch(b) == /\ tick_counter' = Tick
            /\ last_used' = [last_used EXCEPT ![b] = Tick]
            /\ aged' = (IF Tick = 0 THEN Buffer ELSE aged) \ {b}

\* Mutation of BreadHit: a hit does not count as a use.
BreadHitUntouched(s) == /\ \E b \in Buffer : Finds(b, s) /\ bh' = b
                        /\ UNCHANGED <<sector, data, valid, dirty, last_used, tick_counter, aged, media>>

\* bread() of a sector that is cached.
BreadHit(s) == /\ \E b \in Buffer : Finds(b, s) /\ Touch(b) /\ bh' = b
               /\ UNCHANGED <<sector, data, valid, dirty, media>>

\* bread(): the dirty victim could not be written; it stays as it is.
BreadFlushFails(s) ==
    /\ Hits(s) = {}
    /\ \E b \in Buffer :
         /\ Victim(b) /\ b \in valid /\ b \in dirty
         /\ media' \in {media, [media EXCEPT ![sector[b]] = data[b]]}
    /\ bh' = None
    /\ UNCHANGED cache

\* Mutation of FlushVictim: the victim is dropped without writing it.
FlushVictimNever(b) == UNCHANGED media

\* flush_buffer() of the victim, when it succeeds or has nothing to do.
FlushVictim(b) ==
    media' = IF b \in valid /\ b \in dirty THEN [media EXCEPT ![sector[b]] = data[b]] ELSE media

\* Mutation of BreadReadFails: a refused read leaves the buffer valid.
BreadReadFailsValid(s) ==
    /\ Hits(s) = {}
    /\ \E b \in Buffer, junk \in Value :
         /\ Victim(b) /\ FlushVictim(b)
         /\ dirty' = dirty \ {b}
         /\ data' = [data EXCEPT ![b] = junk]
    /\ bh' = None
    /\ UNCHANGED <<sector, valid, last_used, tick_counter, aged>>

\* bread(): the victim was written if it had to be, but s could not be read.
BreadReadFails(s) ==
    /\ Hits(s) = {}
    /\ \E b \in Buffer, junk \in Value :
         /\ Victim(b) /\ FlushVictim(b)
         /\ dirty' = dirty \ ({b} \cap valid)
         /\ data' = [data EXCEPT ![b] = junk]
         /\ valid' = valid \ {b}
    /\ bh' = None
    /\ UNCHANGED <<sector, last_used, tick_counter, aged>>

\* bread() of a sector that is not cached.
BreadMiss(s) ==
    /\ Hits(s) = {}
    /\ \E b \in Buffer :
         /\ Victim(b) /\ FlushVictim(b)
         /\ data' = [data EXCEPT ![b] = media'[s]]
         /\ sector' = [sector EXCEPT ![b] = s]
         /\ valid' = valid \cup {b}
         /\ dirty' = dirty \ {b}
         /\ Touch(b)
         /\ bh' = b

\* The file system changes the bytes of its buffer and calls bmark_dirty().
MarkDirty(v) == /\ bh # None
                /\ data' = [data EXCEPT ![bh] = v]
                /\ dirty' = dirty \cup ({bh} \cap valid)
                /\ UNCHANGED <<sector, valid, last_used, tick_counter, aged, media, bh>>

\* binvalidate(): the first buffer that holds s is dropped, written or not.
Binvalidate(s) == /\ \E b \in Buffer : /\ Finds(b, s)
                                       /\ valid' = valid \ {b}
                                       /\ dirty' = dirty \ {b}
                  /\ bh' = None
                  /\ UNCHANGED <<sector, data, last_used, tick_counter, aged, media>>

\* bsync(): each dirty buffer is written in turn; the ones the card refuses
\* stay dirty, whether or not their data arrived.
Bsync ==
    \E ok, arrived \in SUBSET (valid \cap dirty) :
       /\ ok \subseteq arrived
       /\ media' = [s \in Sector |-> IF \E b \in arrived : sector[b] = s
                                     THEN data[CHOOSE b \in arrived : sector[b] = s]
                                     ELSE media[s]]
       /\ dirty' = dirty \ ok
       /\ UNCHANGED <<sector, data, valid, last_used, tick_counter, aged, bh>>

\* bcache_init() clears everything but the data.
Cleared(f, x) == f = [b \in Buffer |-> x]

Init == /\ Cleared(sector, None) /\ valid = {} /\ dirty = {}
        /\ Cleared(last_used, 0) /\ tick_counter = 0 /\ aged = {}
        /\ \E v \in Value : Cleared(data, v)
        /\ media \in [Sector -> Value]
        /\ bh = None

\* The board loses power and boots again.
PowerLoss == /\ Cleared(sector', None) /\ valid' = {} /\ dirty' = {}
             /\ Cleared(last_used', 0) /\ tick_counter' = 0 /\ aged' = {}
             /\ bh' = None
             /\ UNCHANGED <<data, media>>

\* What the file system calls: nobody calls bsync() or binvalidate().
FileSystem == \/ \E s \in Sector : \/ BreadHit(s) \/ BreadMiss(s)
                                   \/ BreadFlushFails(s) \/ BreadReadFails(s)
              \/ \E v \in Value : MarkDirty(v)

Next == \/ FileSystem
        \/ \E s \in Sector : Binvalidate(s)
        \/ Bsync
        \/ PowerLoss

Spec == Init /\ [][Next]_vars

\* The kernel without power cuts: the file system keeps using the cache.
KernelSpec == Init /\ [][FileSystem]_vars /\ WF_vars(FileSystem)

-----------------------------------------------------------------------------
(* Properties *)

\* A sector is in at most one buffer: otherwise a write through one copy
\* would be undone when the other one, older, is evicted after it.
OneBuffer == \A b, c \in valid : sector[b] = sector[c] => b = c

\* A buffer that is not dirty can be dropped: it holds what the card holds,
\* after any mix of refused reads, refused writes and evictions.  Only valid
\* buffers are dirty, so a free slot never hides unwritten data.
CleanMeansOnCard ==
    /\ \A b \in valid \ dirty : data[b] = media[sector[b]]
    /\ dirty \subseteq valid

\* The buffer bread() has just returned is newer to pick_victim() than every
\* other one used since the 32-bit tick_counter last wrapped.  Until the first
\* wrap that is every other one: bread() has to take them all before this one,
\* and a caller may go on using it after reading other sectors, as long as
\* they are fewer than the buffers.  Those stamped before a wrap (aged) count
\* as newer than it, and while there are some the next bread() may take it.
NewestIsLast ==
    bh # None => \A c \in valid \ ({bh} \cup aged) : last_used[c] < last_used[bh]

\* The cache implements a plain store of sectors: whatever is cached,
\* evicted, refused or lost, a read shows the last change made to the sector
\* since power-on, and a power cut takes back only changes not yet written.
view  == [s \in Sector |-> IF Hits(s) = {} THEN media[s] ELSE data[CHOOSE b \in Hits(s) : TRUE]]
shown == IF bh = None THEN None ELSE <<sector[bh], data[bh]>>

Store == INSTANCE SectorStore

ImplementsStore == Store!StoreSpec

\* buffer_cache.h calls the cache "write-back on bsync()": data that a
\* program wrote reaches the card, on a machine that keeps running.
DirtyReachesCard == \A b \in Buffer : b \in dirty ~> b \notin dirty

\* Sectors and values are interchangeable.
Symmetry == Permutations(Sector) \cup Permutations(Value)
=============================================================================
