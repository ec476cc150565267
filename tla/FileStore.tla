------------------------------ MODULE FileStore -----------------------------
(***************************************************************************)
(* What the file system promises its callers: named files, each a sequence *)
(* of units, and handles that stay with their file, each with an offset of *)
(* its own.  fs/fat32.c is shown to implement it (module Fat32).           *)
(***************************************************************************)
EXTENDS Naturals, Sequences

CONSTANTS FileName, Unit, Handle,
          Request,      \* what callers write: sequences of units
          None

VARIABLES files,      \* the contents of each file, None if there is no such file
          handle      \* per handle: its file and offset, None if it is not open

\* old with part written over it at offset.
Written(old, offset, part) ==
    SubSeq(old, 1, offset) \o part \o SubSeq(old, offset + Len(part) + 1, Len(old))

\* A file appears, or loses its contents; the caller may be refused a handle.
MakeEmpty(n) == files' = [files EXCEPT ![n] = <<>>]

Open(h, n) ==
    /\ handle[h] = None /\ handle'[h] # None /\ handle'[h].file = n
    /\ handle' = [handle EXCEPT ![h] = handle'[h]]
    /\ MakeEmpty(n) \/ (files[n] # None /\ UNCHANGED files)
    /\ handle'[h].offset \in {0, Len(files'[n])}

Read(h) ==
    /\ handle[h] # None /\ UNCHANGED files
    /\ \E offset \in handle[h].offset .. Len(files[handle[h].file]) :
         handle' = [handle EXCEPT ![h].offset = offset]

\* Some of the units of a request are stored, from the first one on.
Write(h) ==
    /\ handle[h] # None /\ handle'[h] # None
    /\ \E request \in Request : \E k \in 1 .. Len(request) :
         /\ handle' = [handle EXCEPT ![h].offset = @ + k]
         /\ files' = [files EXCEPT ![handle[h].file] =
                        Written(@, handle[h].offset, SubSeq(request, 1, k))]

Close(h) == handle' = [handle EXCEPT ![h] = None] /\ UNCHANGED files

Remove(n) == /\ UNCHANGED handle
             /\ files[n] # None /\ files' = [files EXCEPT ![n] = None]

\* Open handles follow their file to its new name.
Rename(n, m) ==
    /\ handle' = [h \in Handle |->
                    IF handle[h] # None /\ handle[h].file = n THEN [handle[h] EXCEPT !.file = m]
                                                              ELSE handle[h]]
    /\ files[n] # None /\ files[m] = None
    /\ files' = [files EXCEPT ![n] = None, ![m] = files[n]]

\* All handles are gone after a restart.
Restart == handle' = [h \in Handle |-> None] /\ UNCHANGED files

Init == /\ files \in [FileName -> Seq(Unit) \cup {None}]
        /\ handle = [h \in Handle |-> None]

Next == \/ \E h \in Handle : Close(h) \/ Read(h) \/ Write(h) \/ \E n \in FileName : Open(h, n)
        \/ \E n \in FileName : \/ UNCHANGED handle /\ MakeEmpty(n)
                               \/ Remove(n)
                               \/ \E m \in FileName : Rename(n, m)
        \/ Restart

Spec == Init /\ [][Next]_<<files, handle>>
=============================================================================
