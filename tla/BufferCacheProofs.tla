-------------------------- MODULE BufferCacheProofs --------------------------
(***************************************************************************)
(* The sector cache keeps its invariants, and implements the plain store   *)
(* of sectors, for any number of buffers, sectors and values.              *)
(***************************************************************************)
EXTENDS BufferCache, TLAPS

\* The buffer in the caller's hands is valid, and valid buffers are labelled.
Labelled == /\ bh # None => bh \in valid
            /\ \A b \in valid : sector[b] \in Sector

CacheInv == TypeOK /\ OneBuffer /\ CleanMeansOnCard /\ Labelled

-----------------------------------------------------------------------------
(* The invariant *)

\* The cache invariant holds after bcache_init().
LEMMA InitCache == Init => CacheInv
  <1> SUFFICES ASSUME Init PROVE CacheInv
    OBVIOUS
  <1> USE BuffersAssumption, TicksAssumption, NoneAssumption
  <1>1. TypeOK
    BY DEF Init, TypeOK, Cleared, Buffer
  <1> QED BY <1>1 DEF Init, CacheInv, OneBuffer, CleanMeansOnCard, Labelled

\* Touch() keeps the types of the counters.
LEMMA TouchType ==
  ASSUME TypeOK, NEW b \in Buffer, Touch(b)
  PROVE  /\ last_used' \in [Buffer -> 0 .. TICKS - 1]
         /\ tick_counter' \in 0 .. TICKS - 1
         /\ aged' \in SUBSET Buffer
  <1>1. Tick \in 0 .. TICKS - 1
    BY TicksAssumption DEF Tick, TypeOK
  <1> QED BY <1>1 DEF Touch, TypeOK

\* A bread() that finds its sector keeps the cache invariant.
LEMMA HitStep == CacheInv /\ (\E s \in Sector : BreadHit(s)) => CacheInv'
  <1> SUFFICES ASSUME CacheInv, NEW s \in Sector, BreadHit(s) PROVE CacheInv'
    OBVIOUS
  <1>1. PICK b \in Buffer : Finds(b, s) /\ Touch(b) /\ bh' = b
    BY DEF BreadHit
  <1>2. b \in valid
    BY <1>1 DEF Finds, Hits
  <1>3. TypeOK'
    BY <1>1, TouchType DEF BreadHit, CacheInv, TypeOK
  <1> QED BY <1>1, <1>2, <1>3
          DEF BreadHit, CacheInv, OneBuffer, CleanMeansOnCard, Labelled

\* A bread() whose write-back of the victim fails keeps the cache invariant.
LEMMA FlushFailsStep == CacheInv /\ (\E s \in Sector : BreadFlushFails(s)) => CacheInv'
  <1> SUFFICES ASSUME CacheInv, NEW s \in Sector, BreadFlushFails(s) PROVE CacheInv'
    OBVIOUS
  <1>1. PICK b \in Buffer : /\ b \in valid /\ b \in dirty
                            /\ media' \in {media, [media EXCEPT ![sector[b]] = data[b]]}
    BY DEF BreadFlushFails
  <1>2. UNCHANGED <<sector, data, last_used, valid, dirty, tick_counter, aged>> /\ bh' = None
    BY DEF BreadFlushFails, cache
  <1>3. TypeOK'
    BY <1>1, <1>2 DEF CacheInv, TypeOK, Labelled
  <1>4. \A c \in valid \ dirty : sector[c] # sector[b]
    BY <1>1 DEF CacheInv, OneBuffer
  <1>5. CleanMeansOnCard'
    BY <1>1, <1>2, <1>4 DEF CacheInv, CleanMeansOnCard, TypeOK, Labelled
  <1> QED BY <1>2, <1>3, <1>5 DEF CacheInv, OneBuffer, Labelled

\* Writing the victim back leaves the other buffers as good as they were.
LEMMA FlushFacts ==
  ASSUME CacheInv, NEW b \in Buffer, FlushVictim(b)
  PROVE  /\ media' \in [Sector -> Value]
         /\ \A c \in valid \ dirty : media'[sector[c]] = data[c]
         /\ b \in valid => media'[sector[b]] = data[b]
         /\ \A s \in Sector : Hits(s) = {} => media'[s] = media[s]
  <1>1. CASE b \in valid /\ b \in dirty
    <2>1. media' = [media EXCEPT ![sector[b]] = data[b]] /\ sector[b] \in Sector
      BY <1>1 DEF FlushVictim, CacheInv, Labelled
    <2>2. \A c \in valid \ dirty : sector[c] # sector[b] /\ sector[c] \in Sector
      BY <1>1 DEF CacheInv, OneBuffer, Labelled
    <2>3. \A s \in Sector : Hits(s) = {} => s # sector[b]
      BY <1>1 DEF Hits
    <2> QED BY <1>1, <2>1, <2>2, <2>3 DEF CacheInv, TypeOK, CleanMeansOnCard
  <1>2. CASE ~(b \in valid /\ b \in dirty)
    BY <1>2 DEF FlushVictim, CacheInv, TypeOK, CleanMeansOnCard
  <1> QED BY <1>1, <1>2

\* A bread() whose read fails keeps the cache invariant.
LEMMA ReadFailsStep == CacheInv /\ (\E s \in Sector : BreadReadFails(s)) => CacheInv'
  <1> SUFFICES ASSUME CacheInv, NEW s \in Sector, BreadReadFails(s) PROVE CacheInv'
    OBVIOUS
  <1>1. PICK b \in Buffer, junk \in Value :
            /\ FlushVictim(b)
            /\ dirty' = dirty \ ({b} \cap valid)
            /\ data' = [data EXCEPT ![b] = junk]
            /\ valid' = valid \ {b}
    BY ZenonT(40) DEF BreadReadFails
  <1>2. UNCHANGED <<sector, last_used, tick_counter, aged>> /\ bh' = None
    BY DEF BreadReadFails
  <1>3. TypeOK'
    BY <1>1, <1>2, FlushFacts DEF CacheInv, TypeOK
  <1>4. CleanMeansOnCard'
    BY <1>1, <1>2, FlushFacts DEF CacheInv, TypeOK, CleanMeansOnCard
  <1> QED BY <1>1, <1>2, <1>3, <1>4 DEF CacheInv, OneBuffer, Labelled

\* A bread() that fills a slot keeps the cache invariant.
LEMMA MissStep == CacheInv /\ (\E s \in Sector : BreadMiss(s)) => CacheInv'
  <1> SUFFICES ASSUME CacheInv, NEW s \in Sector, BreadMiss(s) PROVE CacheInv'
    OBVIOUS
  <1>1. PICK b \in Buffer :
            /\ FlushVictim(b) /\ Touch(b) /\ bh' = b
            /\ data' = [data EXCEPT ![b] = media'[s]]
            /\ sector' = [sector EXCEPT ![b] = s]
            /\ valid' = valid \cup {b}
            /\ dirty' = dirty \ {b}
    BY ZenonT(40) DEF BreadMiss
  <1>2. \A c \in valid : sector[c] # s
    BY DEF BreadMiss, Hits
  <1>3. TypeOK'
    BY <1>1, FlushFacts, TouchType DEF CacheInv, TypeOK
  <1>4. OneBuffer'
    BY <1>1, <1>2 DEF CacheInv, TypeOK, OneBuffer
  <1>5. CleanMeansOnCard'
    BY <1>1, <1>2, FlushFacts DEF CacheInv, TypeOK, CleanMeansOnCard
  <1>6. Labelled'
    BY <1>1 DEF CacheInv, TypeOK, Labelled
  <1> QED BY <1>3, <1>4, <1>5, <1>6 DEF CacheInv

\* Writing to a buffer and marking it dirty keeps the cache invariant.
LEMMA MarkDirtyStep == CacheInv /\ (\E v \in Value : MarkDirty(v)) => CacheInv'
  <1> SUFFICES ASSUME CacheInv, NEW v \in Value, MarkDirty(v) PROVE CacheInv'
    OBVIOUS
  <1>1. bh \in valid /\ bh \in Buffer
    BY DEF MarkDirty, CacheInv, Labelled, TypeOK
  <1>2. TypeOK'
    BY <1>1 DEF MarkDirty, CacheInv, TypeOK
  <1>3. CleanMeansOnCard'
    BY <1>1 DEF MarkDirty, CacheInv, TypeOK, CleanMeansOnCard
  <1> QED BY <1>1, <1>2, <1>3 DEF MarkDirty, CacheInv, OneBuffer, Labelled

\* Invalidating a sector keeps the cache invariant.
LEMMA BinvalidateStep == CacheInv /\ (\E s \in Sector : Binvalidate(s)) => CacheInv'
  BY DEF Binvalidate, CacheInv, TypeOK, OneBuffer, CleanMeansOnCard, Labelled

\* bsync() writes only what its buffers hold.
LEMMA BsyncFacts ==
  ASSUME CacheInv, NEW arrived \in SUBSET (valid \cap dirty),
         media' = [s \in Sector |-> IF \E b \in arrived : sector[b] = s
                                    THEN data[CHOOSE b \in arrived : sector[b] = s]
                                    ELSE media[s]]
  PROVE  /\ media' \in [Sector -> Value]
         /\ \A b \in arrived : media'[sector[b]] = data[b]
         /\ \A s \in Sector : (\A b \in arrived : sector[b] # s) => media'[s] = media[s]
  <1>1. \A b \in arrived : /\ sector[b] \in Sector /\ data[b] \in Value
                           /\ (CHOOSE c \in arrived : sector[c] = sector[b]) = b
    BY DEF CacheInv, OneBuffer, Labelled, TypeOK
  <1> QED BY <1>1 DEF CacheInv, TypeOK

\* bsync() keeps the cache invariant, wherever it stops.
LEMMA BsyncStep == CacheInv /\ Bsync => CacheInv'
  <1> SUFFICES ASSUME CacheInv, Bsync PROVE CacheInv'
    OBVIOUS
  <1>1. PICK ok \in SUBSET (valid \cap dirty), arrived \in SUBSET (valid \cap dirty) :
            /\ ok \subseteq arrived
            /\ media' = [s \in Sector |-> IF \E b \in arrived : sector[b] = s
                                          THEN data[CHOOSE b \in arrived : sector[b] = s]
                                          ELSE media[s]]
            /\ dirty' = dirty \ ok
            /\ UNCHANGED <<sector, data, valid, last_used, tick_counter, aged, bh>>
    BY ZenonT(40) DEF Bsync
  <1>2. /\ media' \in [Sector -> Value]
        /\ \A b \in arrived : media'[sector[b]] = data[b]
        /\ \A s \in Sector : (\A b \in arrived : sector[b] # s) => media'[s] = media[s]
    BY <1>1, BsyncFacts, ZenonT(40)
  <1>3. \A c \in valid \ dirty : \A b \in arrived : sector[b] # sector[c]
    BY <1>1 DEF CacheInv, OneBuffer
  <1>4. CleanMeansOnCard'
    BY <1>1, <1>2, <1>3 DEF CacheInv, CleanMeansOnCard, Labelled
  <1> QED BY <1>1, <1>2, <1>4 DEF CacheInv, TypeOK, OneBuffer, Labelled

\* A loss of power keeps the cache invariant.
LEMMA PowerLossStep == CacheInv /\ PowerLoss => CacheInv'
  BY TicksAssumption
     DEF PowerLoss, Cleared, CacheInv, TypeOK, OneBuffer, CleanMeansOnCard, Labelled

\* Every step of the cache keeps its invariant.
LEMMA CacheStep == CacheInv /\ [Next]_vars => CacheInv'
  <1>1. CacheInv /\ UNCHANGED vars => CacheInv'
    BY DEF vars, CacheInv, TypeOK, OneBuffer, CleanMeansOnCard, Labelled
  <1> QED BY <1>1, HitStep, FlushFailsStep, ReadFailsStep, MissStep, MarkDirtyStep,
             BinvalidateStep, BsyncStep, PowerLossStep, Zenon
          DEF Next, FileSystem
-----------------------------------------------------------------------------
(* The refinement of SectorStore *)

\* What the file system sees of a sector is in its buffer, or on the card.
ViewSound == /\ view \in [Sector -> Value]
             /\ \A s \in Sector : Hits(s) = {} => view[s] = media[s]
             /\ \A b \in valid : view[sector[b]] = data[b]
             /\ bh # None => shown = <<sector[bh], view[sector[bh]]>> /\ sector[bh] \in Sector
             /\ bh = None => shown = None

\* Under the invariant the view of a sector is the buffer that holds it, and the card otherwise.
LEMMA ViewFacts == CacheInv => ViewSound
  <1> SUFFICES ASSUME CacheInv PROVE ViewSound
    OBVIOUS
  <1>1. \A b \in valid : /\ sector[b] \in Sector /\ b \in Hits(sector[b])
                         /\ (CHOOSE c \in Hits(sector[b]) : TRUE) = b
    BY DEF CacheInv, OneBuffer, Labelled, Hits
  <1>2. \A s \in Sector : Hits(s) # {} => (CHOOSE c \in Hits(s) : TRUE) \in Buffer
    BY DEF Hits, CacheInv, TypeOK
  <1>3. view \in [Sector -> Value]
    BY <1>2 DEF view, CacheInv, TypeOK
  <1>4. \A s \in Sector : Hits(s) = {} => view[s] = media[s]
    BY DEF view
  <1>5. \A b \in valid : view[sector[b]] = data[b]
    BY <1>1 DEF view
  <1> QED BY <1>1, <1>3, <1>4, <1>5 DEF ViewSound, shown, CacheInv, Labelled

\* Two views agree when they agree on every sector.
LEMMA ViewExtensional ==
  ASSUME NEW f \in [Sector -> Value], NEW g \in [Sector -> Value],
         \A s \in Sector : f[s] = g[s]
  PROVE  f = g
  OBVIOUS

\* Writing nothing back is one way to write back.
LEMMA NothingWritten ==
  ASSUME CacheInv, media' = media
  PROVE  \E S \in SUBSET Sector : Store!WriteBack(S)
  <1>1. media' = [s \in Sector |-> IF s \in {} THEN view[s] ELSE media[s]]
    BY DEF CacheInv, TypeOK
  <1>2. Store!WriteBack({})
    BY <1>1 DEF Store!WriteBack
  <1> QED BY <1>2, Zenon

\* A sector that only moves between the card and the cache is seen unchanged.
LEMMA FlushView ==
  ASSUME CacheInv, ViewSound, NEW b \in Buffer, FlushVictim(b)
  PROVE  \E S \in SUBSET Sector : Store!WriteBack(S)
  <1>1. CASE b \in valid /\ b \in dirty
    <2>1. media' = [media EXCEPT ![sector[b]] = data[b]] /\ sector[b] \in Sector
      BY <1>1 DEF FlushVictim, CacheInv, Labelled
    <2>2. media' = [s \in Sector |-> IF s \in {sector[b]} THEN view[s] ELSE media[s]]
      BY <1>1, <2>1, ZenonT(40) DEF ViewSound, CacheInv, TypeOK
    <2>3. Store!WriteBack({sector[b]})
      BY <2>2, Zenon DEF Store!WriteBack
    <2>4. {sector[b]} \in SUBSET Sector
      BY <2>1
    <2> QED BY <2>3, <2>4, Zenon
  <1>2. CASE ~(b \in valid /\ b \in dirty)
    BY <1>2, NothingWritten, Zenon DEF FlushVictim
  <1> QED BY <1>1, <1>2

\* A hit is a read of the sector store.
LEMMA HitRefines ==
  ASSUME CacheInv, ViewSound, CacheInv', ViewSound', NEW s \in Sector, BreadHit(s)
  PROVE  Store!Read(s)
  <1>1. PICK b \in Buffer : Finds(b, s) /\ bh' = b
    BY DEF BreadHit
  <1>2. UNCHANGED <<sector, data, valid, dirty, media>>
    BY DEF BreadHit
  <1>3. view' = view
    BY <1>2 DEF view, Hits
  <1>4. sector[b] = s /\ bh' # None
    BY <1>1, NoneAssumption DEF Finds, Hits
  <1>5. shown' = <<s, view[s]>>
    BY <1>1, <1>2, <1>3, <1>4 DEF ViewSound
  <1> QED BY <1>2, <1>3, <1>5, NothingWritten, Zenon DEF Store!Read

\* A bread() whose write-back fails is a read of the sector store that fails.
LEMMA FlushFailsRefines ==
  ASSUME CacheInv, ViewSound, CacheInv', ViewSound', NEW s \in Sector, BreadFlushFails(s)
  PROVE  Store!Read(s)
  <1>1. PICK b \in Buffer : /\ b \in valid /\ b \in dirty
                            /\ media' \in {media, [media EXCEPT ![sector[b]] = data[b]]}
    BY DEF BreadFlushFails
  <1>2. UNCHANGED <<sector, data, valid, dirty>> /\ bh' = None
    BY DEF BreadFlushFails, cache
  <1>3. \A t \in Sector : view'[t] = view[t]
    <2> SUFFICES ASSUME NEW t \in Sector PROVE view'[t] = view[t]
      OBVIOUS
    <2>1. CASE Hits(t) = {}
      <3>1. t # sector[b] /\ Hits(t)' = {}
        BY <1>1, <1>2, <2>1 DEF Hits
      <3>2. media'[t] = media[t]
        BY <1>1, <3>1 DEF CacheInv, TypeOK, Labelled
      <3> QED BY <2>1, <3>1, <3>2 DEF ViewSound
    <2>2. CASE Hits(t) # {}
      BY <1>2, <2>2 DEF ViewSound, Hits
    <2> QED BY <2>1, <2>2
  <1>4. view' = view
    BY <1>3, ViewExtensional DEF ViewSound
  <1>5. \E S \in SUBSET Sector : Store!WriteBack(S)
    <2>1. CASE media' = media
      BY <2>1, NothingWritten, Zenon
    <2>2. CASE media' = [media EXCEPT ![sector[b]] = data[b]]
      BY <1>1, <2>2, FlushView, Zenon DEF FlushVictim
    <2> QED BY <1>1, <2>1, <2>2
  <1> QED BY <1>2, <1>4, <1>5, Zenon DEF Store!Read, ViewSound

\* A bread() whose transfer fails is a read of the sector store that fails.
LEMMA ReadFailsRefines ==
  ASSUME CacheInv, ViewSound, CacheInv', ViewSound', NEW s \in Sector, BreadReadFails(s)
  PROVE  Store!Read(s)
  <1>1. PICK b \in Buffer, junk \in Value :
            /\ FlushVictim(b)
            /\ data' = [data EXCEPT ![b] = junk]
            /\ valid' = valid \ {b}
    BY ZenonT(40) DEF BreadReadFails
  <1>2. UNCHANGED sector /\ bh' = None
    BY DEF BreadReadFails
  <1>3. \A t \in Sector : view'[t] = view[t]
    <2> SUFFICES ASSUME NEW t \in Sector PROVE view'[t] = view[t]
      OBVIOUS
    <2>1. CASE Hits(t) = {}
      BY <1>1, <1>2, <2>1, FlushFacts DEF ViewSound, Hits
    <2>2. CASE b \in Hits(t)
      <3>1. Hits(t)' = {} /\ b \in valid /\ sector[b] = t
        BY <1>1, <1>2, <2>2 DEF Hits, CacheInv, OneBuffer
      <3> QED BY <1>1, <3>1, FlushFacts DEF ViewSound
    <2>3. ASSUME NEW c \in Hits(t), c # b PROVE view'[t] = view[t]
      BY <1>1, <1>2, <2>3 DEF ViewSound, Hits, CacheInv, TypeOK
    <2> QED BY <2>1, <2>2, <2>3
  <1>4. view' = view
    BY <1>3, ViewExtensional DEF ViewSound
  <1> QED BY <1>1, <1>2, <1>4, FlushView DEF Store!Read, ViewSound

\* A miss is a read of the sector store that may write the victim back.
LEMMA MissRefines ==
  ASSUME CacheInv, ViewSound, CacheInv', ViewSound', NEW s \in Sector, BreadMiss(s)
  PROVE  Store!Read(s)
  <1>1. PICK b \in Buffer :
            /\ FlushVictim(b) /\ bh' = b
            /\ data' = [data EXCEPT ![b] = media'[s]]
            /\ sector' = [sector EXCEPT ![b] = s]
            /\ valid' = valid \cup {b}
    BY ZenonT(40) DEF BreadMiss
  <1>2. Hits(s) = {}
    BY DEF BreadMiss
  <1>a. sector'[b] = s /\ data'[b] = media'[s] /\ b \in valid'
        /\ \A c \in valid : c # b => sector'[c] = sector[c] /\ data'[c] = data[c] /\ c \in valid'
    BY <1>1 DEF CacheInv, TypeOK
  <1>3. \A t \in Sector : view'[t] = view[t]
    <2> SUFFICES ASSUME NEW t \in Sector PROVE view'[t] = view[t]
      OBVIOUS
    <2>1. CASE t = s
      <3>1. view'[t] = media'[s]
        BY <1>a, <2>1 DEF ViewSound
      <3> QED BY <1>1, <1>2, <2>1, <3>1, FlushFacts DEF ViewSound
    <2>2. CASE t # s /\ Hits(t) = {}
      <3>1. Hits(t)' = {}
        BY <1>1, <1>a, <2>2 DEF Hits
      <3> QED BY <1>1, <2>2, <3>1, FlushFacts DEF ViewSound
    <2>3. CASE t # s /\ b \in Hits(t)
      <3>1. Hits(t)' = {} /\ b \in valid /\ sector[b] = t
        BY <1>1, <1>a, <2>3 DEF Hits, CacheInv, OneBuffer
      <3> QED BY <1>1, <3>1, FlushFacts DEF ViewSound
    <2>4. ASSUME NEW c \in Hits(t), c # b PROVE view'[t] = view[t]
      BY <1>a, <2>4 DEF ViewSound, Hits
    <2> QED BY <2>1, <2>2, <2>3, <2>4
  <1>4. view' = view
    BY <1>3, ViewExtensional DEF ViewSound
  <1>5. shown' = <<s, view[s]>>
    BY <1>1, <1>a, <1>4, NoneAssumption DEF ViewSound
  <1> QED BY <1>1, <1>4, <1>5, FlushView DEF Store!Read

\* Marking a buffer dirty is a change of the sector store.
LEMMA MarkDirtyRefines ==
  ASSUME CacheInv, ViewSound, CacheInv', ViewSound', NEW v \in Value, MarkDirty(v)
  PROVE  Store!Change(v)
  <1>1. /\ bh \in valid /\ bh \in Buffer /\ bh # None /\ sector[bh] \in Sector
        /\ data' = [data EXCEPT ![bh] = v]
        /\ UNCHANGED <<sector, valid, media, bh>>
    BY DEF MarkDirty, CacheInv, Labelled, TypeOK
  <1> DEFINE new == [view EXCEPT ![sector[bh]] = v]
  <1>2. \A t \in Sector : view'[t] = new[t]
    <2> SUFFICES ASSUME NEW t \in Sector PROVE view'[t] = new[t]
      OBVIOUS
    <2>1. CASE Hits(t) = {}
      <3>1. Hits(t)' = {} /\ t # sector[bh]
        BY <1>1, <2>1 DEF Hits
      <3> QED BY <1>1, <2>1, <3>1 DEF ViewSound
    <2>2. ASSUME NEW c \in Hits(t) PROVE view'[t] = new[t]
      <3>1. c \in valid /\ sector[c] = t /\ (c = bh <=> t = sector[bh])
        BY <1>1 DEF Hits, CacheInv, OneBuffer
      <3>2. view'[t] = data'[c] /\ view[t] = data[c]
        BY <1>1, <3>1 DEF ViewSound
      <3> QED BY <1>1, <3>1, <3>2 DEF ViewSound, CacheInv, TypeOK
    <2> QED BY <2>1, <2>2
  <1>3. new \in [Sector -> Value]
    BY <1>1 DEF ViewSound
  <1>4. view' = new
    BY <1>2, <1>3, ViewExtensional DEF ViewSound
  <1>5. shown = <<sector[bh], data[bh]>> /\ shown' = <<sector[bh], v>>
    BY <1>1 DEF shown, CacheInv, TypeOK
  <1>6. shown # None
    BY <1>1, <1>5, NoneAssumption DEF CacheInv, TypeOK
  <1> QED BY <1>1, <1>4, <1>5, <1>6 DEF Store!Change
\* binvalidate() discards the sector.
LEMMA BinvalidateRefines ==
  ASSUME CacheInv, ViewSound, CacheInv', ViewSound', NEW s \in Sector, Binvalidate(s)
  PROVE  Store!Discard(s)
  <1>1. PICK b \in Buffer : Finds(b, s) /\ valid' = valid \ {b}
    BY DEF Binvalidate
  <1>2. UNCHANGED <<sector, data, media>> /\ bh' = None
    BY DEF Binvalidate
  <1>a. b \in valid /\ sector[b] = s
    BY <1>1 DEF Finds, Hits
  <1> DEFINE new == [view EXCEPT ![s] = media[s]]
  <1>3. \A t \in Sector : view'[t] = new[t]
    <2> SUFFICES ASSUME NEW t \in Sector PROVE view'[t] = new[t]
      OBVIOUS
    <2>1. CASE t = s
      <3>1. Hits(s)' = {}
        BY <1>1, <1>2, <1>a DEF Hits, CacheInv, OneBuffer
      <3> QED BY <1>2, <2>1, <3>1 DEF ViewSound
    <2>2. CASE t # s /\ Hits(t) = {}
      <3>1. Hits(t)' = {}
        BY <1>1, <1>2, <2>2 DEF Hits
      <3> QED BY <1>2, <2>2, <3>1 DEF ViewSound
    <2>3. ASSUME NEW c \in Hits(t), t # s PROVE view'[t] = new[t]
      <3>1. c \in valid /\ c \in valid' /\ sector[c] = t /\ sector'[c] = t
        BY <1>1, <1>2, <1>a, <2>3 DEF Hits
      <3> QED BY <1>2, <2>3, <3>1 DEF ViewSound
    <2> QED BY <2>1, <2>2, <2>3
  <1>4. new \in [Sector -> Value]
    BY DEF ViewSound, CacheInv, TypeOK
  <1>5. view' = new
    BY <1>3, <1>4, ViewExtensional DEF ViewSound
  <1> QED BY <1>2, <1>5, Zenon DEF Store!Discard, ViewSound

\* bsync() writes sectors back.
LEMMA BsyncRefines ==
  ASSUME CacheInv, ViewSound, CacheInv', ViewSound', Bsync
  PROVE  Store!Sync
  <1>1. PICK arrived \in SUBSET (valid \cap dirty) :
            /\ media' = [s \in Sector |-> IF \E b \in arrived : sector[b] = s
                                          THEN data[CHOOSE b \in arrived : sector[b] = s]
                                          ELSE media[s]]
            /\ UNCHANGED <<sector, data, valid, bh>>
    BY Zenon DEF Bsync
  <1>2. /\ media' \in [Sector -> Value]
        /\ \A b \in arrived : media'[sector[b]] = data[b]
        /\ \A s \in Sector : (\A b \in arrived : sector[b] # s) => media'[s] = media[s]
    BY <1>1, BsyncFacts, Zenon
  <1>3. \A t \in Sector : view'[t] = view[t]
    <2> SUFFICES ASSUME NEW t \in Sector PROVE view'[t] = view[t]
      OBVIOUS
    <2>1. CASE Hits(t) = {}
      <3>1. Hits(t)' = {} /\ \A b \in arrived : sector[b] # t
        BY <1>1, <2>1 DEF Hits
      <3> QED BY <1>2, <2>1, <3>1 DEF ViewSound
    <2>2. CASE Hits(t) # {}
      BY <1>1, <2>2 DEF ViewSound, Hits
    <2> QED BY <2>1, <2>2
  <1>4. view' = view
    BY <1>3, ViewExtensional DEF ViewSound
  <1> DEFINE S == {sector[b] : b \in arrived}
  <1>5. S \in SUBSET Sector
    BY <1>1 DEF CacheInv, Labelled
  <1>6. \A s \in Sector : media'[s] = IF s \in S THEN view[s] ELSE media[s]
    BY <1>1, <1>2 DEF ViewSound
  <1>7. media' = [s \in Sector |-> IF s \in S THEN view[s] ELSE media[s]]
    <2> HIDE DEF S
    <2> QED BY <1>2, <1>6
  <1>8. Store!WriteBack(S)
    BY <1>7, Zenon DEF Store!WriteBack
  <1>9. shown' = shown
    BY <1>1, <1>4, Zenon DEF shown
  <1> QED BY <1>4, <1>5, <1>8, <1>9, Zenon DEF Store!Sync

\* A loss of power leaves the sector store with the medium.
LEMMA PowerLossRefines ==
  ASSUME CacheInv, ViewSound, CacheInv', ViewSound', PowerLoss
  PROVE  Store!PowerLoss
  <1>1. valid' = {} /\ bh' = None /\ media' = media
    BY DEF PowerLoss
  <1>2. \A t \in Sector : view'[t] = media[t]
    BY <1>1 DEF ViewSound, Hits
  <1>3. view' = media
    BY <1>2, ViewExtensional DEF ViewSound, CacheInv, TypeOK
  <1> QED BY <1>1, <1>3, Zenon DEF Store!PowerLoss, ViewSound

-----------------------------------------------------------------------------
(* Theorems *)

\* Every variable keeps its type; a sector is in at most one buffer; a clean
\* buffer holds what is on the card.
THEOREM CacheInvariance == Spec => []CacheInv
  BY InitCache, CacheStep, PTL DEF Spec

\* bread() never brings a sector into a second buffer.
THEOREM SectorInOneBuffer == Spec => []OneBuffer
  <1>1. CacheInv => OneBuffer
    BY DEF CacheInv
  <1> QED BY <1>1, CacheInvariance, PTL

\* Dropping a clean buffer never loses data.
THEOREM CleanBuffersAreOnCard == Spec => []CleanMeansOnCard
  <1>1. CacheInv => CleanMeansOnCard
    BY DEF CacheInv
  <1> QED BY <1>1, CacheInvariance, PTL

\* The cache implements the plain store of sectors.
THEOREM CacheImplementsStore == Spec => ImplementsStore
  <1>1. Init => Store!StoreInit
    <2> SUFFICES ASSUME Init PROVE Store!StoreInit
      OBVIOUS
    <2>1. CacheInv /\ ViewSound
      BY InitCache, ViewFacts
    <2>2. valid = {} /\ bh = None /\ media \in [Sector -> Value]
      BY DEF Init
    <2>3. \A t \in Sector : view[t] = media[t]
      BY <2>1, <2>2 DEF ViewSound, Hits
    <2>4. view = media
      BY <2>1, <2>2, <2>3, ViewExtensional DEF ViewSound
    <2> QED BY <2>1, <2>2, <2>4, Zenon DEF Store!StoreInit, ViewSound
  <1>2. CacheInv /\ CacheInv' /\ ViewSound /\ ViewSound' /\ [Next]_vars
          => [Store!StoreNext]_(Store!storeVars)
    <2> SUFFICES ASSUME CacheInv, CacheInv', ViewSound, ViewSound', [Next]_vars
                 PROVE  [Store!StoreNext]_(Store!storeVars)
      OBVIOUS
    <2>1. CASE UNCHANGED vars
      <3>1. UNCHANGED <<sector, data, valid, media, bh>>
        BY <2>1, Zenon DEF vars
      <3>2. view' = view
        BY <3>1 DEF view, Hits
      <3>3. shown' = shown
        BY <3>1 DEF shown
      <3> QED BY <3>1, <3>2, <3>3, Zenon DEF Store!storeVars
    <2>2. CASE \E s \in Sector : \/ BreadHit(s) \/ BreadMiss(s)
                                 \/ BreadFlushFails(s) \/ BreadReadFails(s)
      BY <2>2, HitRefines, MissRefines, FlushFailsRefines, ReadFailsRefines, Zenon
         DEF Store!StoreNext
    <2>3. CASE \E v \in Value : MarkDirty(v)
      BY <2>3, MarkDirtyRefines, Zenon DEF Store!StoreNext
    <2>4. CASE \E s \in Sector : Binvalidate(s)
      BY <2>4, BinvalidateRefines, Zenon DEF Store!StoreNext
    <2>5. CASE Bsync \/ PowerLoss
      BY <2>5, BsyncRefines, PowerLossRefines, Zenon DEF Store!StoreNext
    <2> QED BY <2>1, <2>2, <2>3, <2>4, <2>5, Zenon DEF Next, FileSystem
  <1> QED BY <1>1, <1>2, CacheInvariance, ViewFacts, PTL
          DEF Spec, ImplementsStore, Store!StoreSpec

\* Whatever the 32-bit counter has come to, the buffer bread() returned last
\* is newer to pick_victim() than all that were used since the last wrap;
\* before the first wrap that is all of them.
THEOREM NewestBufferIsLast == Spec => []NewestIsLast
  <1> DEFINE Stamped == \A b \in Buffer \ aged : last_used[b] <= tick_counter
             Inv     == CacheInv /\ Stamped /\ NewestIsLast
  <1>1. Init => Inv
    <2>1. Init => Stamped
      BY DEF Init, Cleared
    <2> QED BY <2>1, InitCache DEF Init, NewestIsLast
  <1>2. Inv /\ [Next]_vars => Inv'
    <2> SUFFICES ASSUME Inv, [Next]_vars PROVE Stamped' /\ NewestIsLast'
      BY CacheStep
    <2>1. ASSUME NEW b \in Buffer, Touch(b), bh' = b, valid' \in SUBSET Buffer
          PROVE  Stamped' /\ NewestIsLast'
      <3>1. /\ last_used'[b] = Tick /\ tick_counter' = Tick
            /\ \A c \in Buffer : c # b => last_used'[c] = last_used[c]
        BY <2>1 DEF Touch, CacheInv, TypeOK
      <3>2. CASE Tick = 0
        <4>1. \A c \in Buffer \ aged' : c = b
          BY <2>1, <3>2 DEF Touch
        <4> QED BY <2>1, <3>1, <3>2, <4>1 DEF NewestIsLast
      <3>3. CASE Tick # 0
        <4>1. Tick = tick_counter + 1 /\ tick_counter \in Nat
          BY <3>3, TicksAssumption DEF Tick, CacheInv, TypeOK
        <4>2. aged' = aged \ {b}
          BY <2>1, <3>3 DEF Touch
        <4>3. \A c \in Buffer : last_used[c] \in Nat
          BY DEF CacheInv, TypeOK
        <4>4. \A c \in Buffer \ aged' : c # b => last_used'[c] <= tick_counter
          BY <3>1, <4>2
        <4>5. \A c \in Buffer : last_used'[c] \in Nat
          BY <3>1, <4>1, <4>3
        <4>6. \A c \in Buffer \ aged' : c # b => last_used'[c] < Tick
          BY <4>1, <4>4, <4>5
        <4>7. NewestIsLast'
          BY <2>1, <3>1, <4>6 DEF NewestIsLast
        <4>8. ASSUME NEW c \in Buffer \ aged' PROVE last_used'[c] <= Tick
          BY <3>1, <4>1, <4>5, <4>6
        <4> QED BY <3>1, <4>7, <4>8
      <3> QED BY <3>2, <3>3
    <2>2. ASSUME UNCHANGED <<last_used, tick_counter, aged>>,
                 bh' = None \/ (bh' = bh /\ valid' = valid)
          PROVE  Stamped' /\ NewestIsLast'
      BY <2>2 DEF NewestIsLast
    <2>3. ASSUME NEW s \in Sector, BreadHit(s) PROVE Stamped' /\ NewestIsLast'
      <3>1. PICK b \in Buffer : Touch(b) /\ bh' = b
        BY <2>3, Zenon DEF BreadHit
      <3>2. valid' \in SUBSET Buffer
        BY <2>3 DEF BreadHit, CacheInv, TypeOK
      <3> QED BY <2>1, <3>1, <3>2
    <2>4. ASSUME NEW s \in Sector, BreadMiss(s) PROVE Stamped' /\ NewestIsLast'
      <3>1. PICK b \in Buffer : Touch(b) /\ bh' = b /\ valid' = valid \cup {b}
        BY <2>4, Zenon DEF BreadMiss
      <3>2. valid' \in SUBSET Buffer
        BY <2>4, <3>1 DEF BreadMiss, CacheInv, TypeOK
      <3> QED BY <2>1, <3>1, <3>2
    <2>5. CASE PowerLoss
      BY <2>5 DEF PowerLoss, Cleared, NewestIsLast
    <2>6. CASE \/ \E s \in Sector : BreadFlushFails(s) \/ BreadReadFails(s) \/ Binvalidate(s)
               \/ \E v \in Value : MarkDirty(v)
               \/ Bsync
               \/ UNCHANGED vars
      BY <2>2, <2>6, Zenon DEF BreadFlushFails, BreadReadFails, Binvalidate, MarkDirty, Bsync,
         cache, vars
    <2> QED BY <2>3, <2>4, <2>5, <2>6, Zenon DEF Next, FileSystem
  <1>3. Inv => NewestIsLast
    OBVIOUS
  <1> QED BY <1>1, <1>2, <1>3, PTL DEF Spec
=============================================================================
