----------------------------- MODULE SectorStore -----------------------------
(***************************************************************************)
(* What a write-back sector cache promises its one client, the file        *)
(* system: every sector has a value the client sees, and a value on the    *)
(* medium that the seen value replaces at some later time.  The cache and  *)
(* its replacement policy are invisible.                                   *)
(***************************************************************************)
CONSTANTS Sector, Value, None

VARIABLES
    view,     \* the value of each sector the client sees
    media,    \* the value of each sector on the medium
    shown     \* what the last read gave the client: <<sector, value>>, or None

storeVars == <<view, media, shown>>

StoreInit == /\ media \in [Sector -> Value]
             /\ view = media
             /\ shown = None

\* Some sectors reach the medium, exactly as they are seen.
WriteBack(S) == media' = [s \in Sector |-> IF s \in S THEN view[s] ELSE media[s]]

\* A read shows the sector as it is seen, or fails; making room for it may
\* write other sectors back.
Read(s) == /\ \E S \in SUBSET Sector : WriteBack(S)
           /\ shown' \in {<<s, view[s]>>, None}
           /\ UNCHANGED view

\* The client changes the sector it was shown.
Change(v) == /\ shown # None
             /\ view' = [view EXCEPT ![shown[1]] = v]
             /\ shown' = <<shown[1], v>>
             /\ UNCHANGED media

\* A sector goes back to what is on the medium.
Discard(s) == /\ view' = [view EXCEPT ![s] = media[s]]
              /\ shown' = None
              /\ UNCHANGED media

Sync == /\ \E S \in SUBSET Sector : WriteBack(S)
        /\ UNCHANGED <<view, shown>>

\* Power is lost: what the medium holds is all there is.
PowerLoss == /\ view' = media
             /\ shown' = None
             /\ UNCHANGED media

StoreNext == \/ \E s \in Sector : Read(s) \/ Discard(s)
             \/ \E v \in Value : Change(v)
             \/ Sync
             \/ PowerLoss

StoreSpec == StoreInit /\ [][StoreNext]_storeVars
=============================================================================
