------------------------------- MODULE Fat32 --------------------------------
(***************************************************************************)
(* The FAT32 driver (fs/fat32.c) under the open files of fs/vfs.c: both    *)
(* copies of the allocation table, the root directory, the data clusters,  *)
(* the table of known files and the descriptors that refer to it.          *)
(*                                                                         *)
(* A file-system call never yields, so it is one step.  All its sector     *)
(* accesses go through bread(); a call runs on a copy of the state that    *)
(* counts them and one of them may fail (the buffer cache refuses a read   *)
(* or cannot write its victim back).                                       *)
(*                                                                         *)
(* One sector per cluster, a root directory of one cluster; paths of one   *)
(* component.  A directory entry that is a directory is never entered.     *)
(***************************************************************************)
EXTENDS FatNames, FiniteSets

CONSTANTS
    max_entries,        \* entries of a copy of the table (fat_sectors * 128)
    bytes_per_cluster,
    DIR_ENTRIES,        \* entries of the root directory
    FAT32_MAX_FILES,
    Fd,                 \* descriptors for files (numbers)
    Name,               \* names programs use
    Writes,             \* what programs write: sequences of units
    Reads,              \* how many units programs read
    OpenFlags,          \* subsets of {"creat", "trunc", "append"}
    InitialDir, InitialFat, InitialData,
    Faults,             \* which sector access of a call fails: -1, none, or its number
    Shared,             \* what programs do to files that are open: subset of {"trunc", "unlink"}
    END, DELETED, None

\* The clusters, without the root's.  The table alone says how many there are:
\* no call asks for the size of the data area.
Cluster == 2 .. max_entries - 1
FAT32_EOC == max_entries
Entry == 1 .. DIR_ENTRIES

VARIABLES
    fat, fat2,      \* the two copies of the allocation table
    dir,            \* per entry: raw name, is_dir, cluster, size
    data,           \* the units in each cluster
    file_table,     \* sequence of slots: in_use, entry, first_cluster, size
    fd              \* per descriptor: file_index and offset, None if closed

vars == <<fat, fat2, dir, data, file_table, fd>>

-----------------------------------------------------------------------------
(* A call works on a volume v; v.left accesses succeed before one fails. *)

Volume(fault) == [fat |-> fat, fat2 |-> fat2, dir |-> dir, data |-> data,
                  table |-> file_table, left |-> fault]

Becomes(v) == /\ fat' = v.fat /\ fat2' = v.fat2 /\ dir' = v.dir /\ data' = v.data
              /\ file_table' = v.table

Ok(v) == v.left # 0
Used(v) == [v EXCEPT !.left = @ - 1]

\* fat_next_cluster(); its caller goes on with Used(v).
NextCluster(v, c) == IF Ok(v) THEN v.fat[c] ELSE FAT32_EOC

ChainEnds(c) == c >= FAT32_EOC \/ c = 0

\* fat_set_entry() stops at the copy it cannot read.
SetEntry(v, c, value) ==
    LET first == [Used(v) EXCEPT !.fat[c] = value]
    IN  IF ~Ok(v) THEN [v |-> Used(v), ok |-> FALSE]
        ELSE IF ~Ok(first) THEN [v |-> Used(first), ok |-> FALSE]
        ELSE [v |-> [Used(first) EXCEPT !.fat2[c] = value], ok |-> TRUE]

\* fat_alloc_cluster() from cluster c on; cluster 0 is failure.
RECURSIVE AllocFrom(_, _)
AllocFrom(v, c) ==
    IF c >= max_entries THEN [v |-> v, cluster |-> 0]
    ELSE IF NextCluster(v, c) # 0 THEN AllocFrom(Used(v), c + 1)
    ELSE LET s == SetEntry(Used(v), c, FAT32_EOC)
         IN  [v |-> s.v, cluster |-> IF s.ok THEN c ELSE 0]

RECURSIVE FreeChain(_, _)
FreeChain(v, c) ==
    IF ~(c >= 2 /\ c < FAT32_EOC) THEN [v |-> v, ok |-> TRUE]
    ELSE LET s == SetEntry(Used(v), c, 0)
         IN  IF s.ok THEN FreeChain(s.v, NextCluster(v, c)) ELSE s

\* update_dir_entry() for the slot i.
UpdateDirEntry(v, i) ==
    LET f == v.table[i]
    IN  [v |-> IF Ok(v) THEN [Used(v) EXCEPT !.dir[f.entry].cluster = f.first_cluster,
                                             !.dir[f.entry].size = f.size]
                        ELSE Used(v),
         ok |-> Ok(v)]

-----------------------------------------------------------------------------
(* Writing *)

\* The cluster after cur, a new one at the end of the chain.
Extend(v, cur) ==
    LET a == AllocFrom(Used(v), 2)
        s == SetEntry(a.v, cur, a.cluster)
    IN  IF ~ChainEnds(NextCluster(v, cur))
        THEN [v |-> Used(v), cluster |-> NextCluster(v, cur), result |-> "ok"]
        ELSE IF a.cluster = 0 THEN [v |-> a.v, cluster |-> 0, result |-> "no space"]
        ELSE [v |-> s.v, cluster |-> a.cluster, result |-> IF s.ok THEN "ok" ELSE "error"]

RECURSIVE Skip(_, _, _)
Skip(v, cur, k) ==
    IF k = 0 THEN [v |-> v, cluster |-> cur, result |-> "ok"]
    ELSE LET e == Extend(v, cur)
         IN  IF e.result = "ok" THEN Skip(e.v, e.cluster, k - 1) ELSE e

\* Mutation of Put: every chunk goes to the start of its cluster.
PutAtStart(units, at, request) ==
    [j \in 1 .. bytes_per_cluster |-> IF j <= Len(request) THEN request[j] ELSE units[j]]

\* The units of a cluster after memcpy() at offset at.
Put(units, at, request) ==
    [j \in 1 .. bytes_per_cluster |->
        IF j \in at + 1 .. at + Len(request) THEN request[j - at] ELSE units[j]]

\* The loop that writes request from offset at of cluster cur on; written < 0 is an error.
RECURSIVE Fill(_, _, _, _, _)
Fill(v, cur, at, request, written) ==
    LET chunk == Min({Len(request), bytes_per_cluster - at})
        u == [Used(v) EXCEPT !.data[cur] = Put(@, at, SubSeq(request, 1, chunk))]
        e == Extend(u, cur)
    IN  IF ~Ok(v) THEN [v |-> Used(v), written |-> -1]
        ELSE IF chunk = Len(request) THEN [v |-> u, written |-> written + chunk]
        ELSE CASE e.result = "no space" -> [v |-> e.v, written |-> written + chunk]
               [] e.result = "error"    -> [v |-> e.v, written |-> -1]
               [] e.result = "ok"       -> Fill(e.v, e.cluster, 0,
                                                SubSeq(request, chunk + 1, Len(request)), written + chunk)

\* fat32_write() gives an empty file its first cluster.
WithFirstCluster(v, i) ==
    LET a == AllocFrom(v, 2)
    IN  IF v.table[i].first_cluster # 0 THEN [v |-> v, ok |-> TRUE]
        ELSE IF a.cluster = 0 THEN [v |-> a.v, ok |-> FALSE]
        ELSE [v |-> [a.v EXCEPT !.table[i].first_cluster = a.cluster], ok |-> TRUE]

FatWrite(v, i, offset, request) ==
    LET w == WithFirstCluster(v, i)
        s == Skip(w.v, w.v.table[i].first_cluster, offset \div bytes_per_cluster)
        p == Fill(s.v, s.cluster, offset % bytes_per_cluster, request, 0)
        q == [p.v EXCEPT !.table[i].size = Max({@, offset + p.written})]
    IN  IF ~w.ok THEN [v |-> w.v, written |-> -1]
        ELSE IF s.result # "ok" THEN [v |-> s.v, written |-> -1]
        ELSE IF p.written < 0 THEN p
        ELSE [v |-> UpdateDirEntry(q, i).v, written |-> p.written]

-----------------------------------------------------------------------------
(* Reading *)

\* walk_chain(): the cluster k further on; 0 if the chain is shorter.
RECURSIVE WalkChain(_, _, _)
WalkChain(v, c, k) ==
    IF k = 0 THEN [v |-> v, cluster |-> c]
    ELSE IF ChainEnds(NextCluster(v, c)) THEN [v |-> Used(v), cluster |-> 0]
    ELSE WalkChain(Used(v), NextCluster(v, c), k - 1)

\* Mutation of Gather: the offset within the cluster is kept for the next one.
RECURSIVE GatherSkewed(_, _, _, _)
GatherSkewed(v, cur, at, remaining) ==
    LET chunk == Min({remaining, bytes_per_cluster - at})
        part == SubSeq(v.data[cur], at + 1, at + chunk)
        rest == GatherSkewed(Used(Used(v)), NextCluster(Used(v), cur), at, remaining - chunk)
    IN  IF chunk = remaining \/ ChainEnds(NextCluster(Used(v), cur))
        THEN [ok |-> TRUE, units |-> part]
        ELSE [ok |-> rest.ok, units |-> part \o rest.units]

RECURSIVE Gather(_, _, _, _)
Gather(v, cur, at, remaining) ==
    LET chunk == Min({remaining, bytes_per_cluster - at})
        part == SubSeq(v.data[cur], at + 1, at + chunk)
        rest == Gather(Used(Used(v)), NextCluster(Used(v), cur), 0, remaining - chunk)
    IN  IF ~Ok(v) THEN [ok |-> FALSE, units |-> <<>>]
        ELSE IF chunk = remaining \/ ChainEnds(NextCluster(Used(v), cur))
        THEN [ok |-> TRUE, units |-> part]
        ELSE [ok |-> rest.ok, units |-> part \o rest.units]

FatRead(v, i, offset, len) ==
    LET f == v.table[i]
        w == WalkChain(v, f.first_cluster, offset \div bytes_per_cluster)
    IN  IF offset >= f.size THEN [ok |-> TRUE, units |-> <<>>]
        ELSE IF w.cluster = 0 THEN [ok |-> FALSE, units |-> <<>>]
        ELSE Gather(w.v, w.cluster, offset % bytes_per_cluster, Min({len, f.size - offset}))

-----------------------------------------------------------------------------
(* The directory and the file table *)

\* The entries before the end marker.
Visible(d) == {e \in Entry : \A j \in 1 .. e : d[j].raw # END}

\* The form in which resolve_path() looks for each name.
Queried == [name \in Name |-> Query(name)]

\* resolve_path(): the entry of a name, 0 if there is none or the access fails.
ResolvePath(v, name) ==
    LET hits == {e \in Visible(v.dir) : v.dir[e].raw = Queried[name]}
    IN  IF Ok(v) /\ hits # {} THEN Min(hits) ELSE 0

\* The slots in use for an entry.
SlotsOf(v, e) == {i \in DOMAIN v.table : v.table[i].in_use /\ v.table[i].entry = e}

Slot(e, cluster, size) == [in_use |-> TRUE, entry |-> e, first_cluster |-> cluster, size |-> size]

\* cache_file(): index 0 is failure.
CacheFile(v, e) ==
    IF SlotsOf(v, e) # {}
    THEN LET i == Min(SlotsOf(v, e))
         IN  [v |-> [v EXCEPT !.table[i] = Slot(e, v.dir[e].cluster, v.dir[e].size)], index |-> i]
    ELSE IF Len(v.table) >= FAT32_MAX_FILES THEN [v |-> v, index |-> 0]
    ELSE [v |-> [v EXCEPT !.table = Append(@, Slot(e, v.dir[e].cluster, v.dir[e].size))],
          index |-> Len(v.table) + 1]

FatLookup(v, name) ==
    LET e == ResolvePath(v, name)
    IN  IF e = 0 \/ (e # 0 /\ v.dir[e].is_dir) THEN [v |-> Used(v), index |-> 0]
        ELSE CacheFile(Used(v), e)

\* The first free entry gets the new file; the end marker is pushed on.
CreateEntry(v, name) ==
    LET free == {e \in Entry : v.dir[e].raw \in {END, DELETED}}
        e == Min(free)
        new == [raw |-> NameToRaw(name), is_dir |-> FALSE, cluster |-> 0, size |-> 0]
        pushed == IF v.dir[e].raw = END /\ e < DIR_ENTRIES
                  THEN [v.dir EXCEPT ![e] = new, ![e + 1].raw = END]
                  ELSE [v.dir EXCEPT ![e] = new]
    IN  IF ~Ok(v) \/ free = {} THEN [v |-> Used(v), index |-> 0]
        ELSE [v |-> [Used(v) EXCEPT !.dir = pushed, !.table = Append(@, Slot(e, 0, 0))],
              index |-> Len(v.table) + 1]

\* fat32_create(): index 0 is failure.
FatCreate(v, name) ==
    IF Len(v.table) >= FAT32_MAX_FILES THEN [v |-> v, index |-> 0] ELSE CreateEntry(v, name)

\* Mutation of FatTruncate: the chain is left alone.
FatTruncateKeeps(v, i) ==
    UpdateDirEntry([v EXCEPT !.table[i].first_cluster = 0, !.table[i].size = 0], i)

FatTruncate(v, i) ==
    LET f == v.table[i]
        r == IF f.first_cluster # 0 THEN FreeChain(v, f.first_cluster) ELSE [v |-> v, ok |-> TRUE]
    IN  IF r.ok THEN UpdateDirEntry([r.v EXCEPT !.table[i].first_cluster = 0, !.table[i].size = 0], i)
        ELSE r

-----------------------------------------------------------------------------
(* The calls *)

\* Unless Shared says otherwise programs leave files alone that are open.
\* An open descriptor refers to the entry.
IsOpen(e) == \E h \in Fd : fd[h] # None /\ file_table[fd[h].file_index].entry = e
MayDo(what, name) == what \in Shared \/ \A e \in Entry : dir[e].raw = Queried[name] => ~IsOpen(e)

FreeFds == {h \in Fd : fd[h] = None}

\* vfs_open(): look the file up, create or truncate it, then find a descriptor.
OpenFile(name, flags, fault) ==
    LET l == FatLookup(Volume(fault), name)
        r == IF l.index = 0
             THEN IF "creat" \in flags THEN FatCreate(l.v, name) ELSE l
             ELSE IF "trunc" \in flags
             THEN LET t == FatTruncate(l.v, l.index)
                  IN  [v |-> t.v, index |-> IF t.ok THEN l.index ELSE 0]
             ELSE l
    IN  /\ "trunc" \in flags => MayDo("trunc", name)
        /\ Becomes(r.v)
        /\ fd' = IF r.index = 0 \/ FreeFds = {} THEN fd
                 ELSE [fd EXCEPT ![Min(FreeFds)] =
                        [file_index |-> r.index,
                         offset |-> IF "append" \in flags THEN r.v.table[r.index].size ELSE 0]]

WriteFile(h, request, fault) ==
    LET r == FatWrite(Volume(fault), fd[h].file_index, fd[h].offset, request)
    IN  /\ fd[h] # None
        /\ Becomes(r.v)
        /\ fd' = [fd EXCEPT ![h].offset = @ + Max({r.written, 0})]

ReadFile(h, len, fault) ==
    LET r == FatRead(Volume(fault), fd[h].file_index, fd[h].offset, len)
    IN  /\ fd[h] # None
        /\ fd' = IF r.ok THEN [fd EXCEPT ![h].offset = @ + Len(r.units)] ELSE fd
        /\ UNCHANGED <<fat, fat2, dir, data, file_table>>

CloseFile(h) ==
    /\ fd[h] # None
    /\ fd' = [fd EXCEPT ![h] = None]
    /\ UNCHANGED <<fat, fat2, dir, data, file_table>>

\* fat32_unlink(): free the chain, delete the entry, drop the slot.
UnlinkFile(name, fault) ==
    LET v == Volume(fault)
        e == ResolvePath(v, name)
        c == dir[e].cluster
        r == IF c >= 2 THEN FreeChain(Used(v), c) ELSE [v |-> Used(v), ok |-> TRUE]
        d == [Used(r.v) EXCEPT !.dir[e].raw = DELETED]
        slots == SlotsOf(d, e)
    IN  /\ MayDo("unlink", name)
        /\ e # 0 /\ ~dir[e].is_dir
        /\ Becomes(CASE ~r.ok -> r.v
                     [] r.ok /\ ~Ok(r.v) -> Used(r.v)
                     [] r.ok /\ Ok(r.v) /\ slots = {} -> d
                     [] OTHER -> [d EXCEPT !.table[Min(slots)].in_use = FALSE])
        /\ UNCHANGED fd

\* Mutation of RenameFile: the destination may exist.
RenameFileClobbers(old, new, fault) ==
    LET v == Volume(fault)
        e == ResolvePath(v, old)
    IN  /\ e # 0 /\ ~dir[e].is_dir
        /\ Becomes([v EXCEPT !.dir[e].raw = NameToRaw(new)])
        /\ UNCHANGED fd

\* fat32_rename() refuses an existing destination.
RenameFile(old, new, fault) ==
    LET v == Volume(fault)
        e == ResolvePath(v, old)
        w == Used(Used(v))
    IN  /\ e # 0 /\ ~dir[e].is_dir
        /\ ResolvePath(Used(v), new) = 0
        /\ Becomes(IF Ok(w) THEN [Used(w) EXCEPT !.dir[e].raw = NameToRaw(new)] ELSE Used(w))
        /\ UNCHANGED fd

\* scan_root_dir(): a slot for each file, in the order of the entries.
Scanned(d) ==
    LET found == SetToSortSeq({e \in Visible(d) : d[e].raw # DELETED /\ ~d[e].is_dir}, <)
        slots == [k \in DOMAIN found |-> Slot(found[k], d[found[k]].cluster, d[found[k]].size)]
    IN  SubSeq(slots, 1, Min({Len(slots), FAT32_MAX_FILES}))

\* The machine restarts when every changed buffer has been written.
Remount ==
    /\ file_table' = Scanned(dir)
    /\ fd' = [h \in Fd |-> None]
    /\ UNCHANGED <<fat, fat2, dir, data>>

Init == /\ dir = InitialDir /\ fat = InitialFat /\ fat2 = InitialFat /\ data = InitialData
        /\ file_table = Scanned(InitialDir)
        /\ fd = [h \in Fd |-> None]

Next == \E fault \in Faults :
    \/ \E name \in Name : UnlinkFile(name, fault) \/ \E flags \in OpenFlags : OpenFile(name, flags, fault)
    \/ \E old, new \in Name : RenameFile(old, new, fault)
    \/ \E h \in Fd : \/ \E request \in Writes : WriteFile(h, request, fault)
                     \/ \E len \in Reads : ReadFile(h, len, fault)
                     \/ CloseFile(h)
    \/ Remount

Spec == Init /\ [][Next]_vars

-----------------------------------------------------------------------------
(* Properties *)

LiveFiles == {e \in Visible(dir) : dir[e].raw # DELETED /\ ~dir[e].is_dir}

\* The clusters of a chain, followed for at most as many steps as there are clusters.
RECURSIVE Follow(_, _)
Follow(c, n) == IF c \notin Cluster \/ n = 0 THEN <<>> ELSE <<c>> \o Follow(fat[c], n - 1)
Chain(e) == Follow(dir[e].cluster, max_entries)

\* The units of the clusters of a chain, and those of them that are the file.
RECURSIVE Units(_, _)
Units(c, n) == IF c \notin Cluster \/ n = 0 THEN <<>> ELSE data[c] \o Units(fat[c], n - 1)
Contents(e) == SubSeq(Units(dir[e].cluster, max_entries), 1, dir[e].size)

TypeOK == /\ fat \in [Cluster -> Cluster \cup {0, FAT32_EOC}]
          /\ fat2 \in [Cluster -> Cluster \cup {0, FAT32_EOC}]
          /\ \A e \in Entry : dir[e].cluster \in Cluster \cup {0}
          /\ Len(file_table) <= FAT32_MAX_FILES
          /\ \A h \in Fd : fd[h] # None => fd[h].file_index \in DOMAIN file_table

\* Every file has exactly the clusters its size needs, its chain ends, and no
\* cluster belongs to two files, whatever the order of creations, writes that
\* run out of space, truncations and deletions.
ChainsSound ==
    /\ \A e \in LiveFiles :
         /\ Len(Chain(e)) = (dir[e].size + bytes_per_cluster - 1) \div bytes_per_cluster
         /\ Chain(e) # <<>> => fat[Last(Chain(e))] = FAT32_EOC
    /\ \A e, f \in LiveFiles : e # f => Range(Chain(e)) \cap Range(Chain(f)) = {}

\* Every allocated cluster belongs to a file of the directory: skipping the
\* directory update "leaks clusters on reboot" (the comment on update_dir_entry()).
NoLostClusters == \A c \in Cluster : fat[c] # 0 => \E e \in LiveFiles : c \in Range(Chain(e))

\* Both copies of the allocation table agree between calls: "writes must land
\* in ALL num_fats copies" (the comment on fat_set_entry()).
FatCopiesAgree == fat = fat2

\* Both copies of the allocation table and the directory tell the same story.
ClustersAccounted == ChainsSound /\ NoLostClusters /\ FatCopiesAgree

\* A slot in use mirrors its directory entry, and an entry has one slot at
\* most: "reopens of the same file return the same slot" (cache_file()).
TableMirrorsDirectory ==
    /\ \A i \in DOMAIN file_table : file_table[i].in_use =>
         LET f == file_table[i]
         IN  /\ f.entry \in LiveFiles
             /\ f.first_cluster = dir[f.entry].cluster /\ f.size = dir[f.entry].size
    /\ \A i, j \in DOMAIN file_table :
         i # j /\ file_table[i].in_use /\ file_table[j].in_use
           => file_table[i].entry # file_table[j].entry

\* No name appears twice in the directory.
UniqueNames ==
    \A e, f \in Visible(dir) : e # f /\ dir[e].raw # DELETED => dir[e].raw # dir[f].raw

\* The directory has one entry per name and the file table one slot per entry.
DirectorySound == TableMirrorsDirectory /\ UniqueNames

\* fat32_read() returns the units of the file at its offset, as many as were
\* asked for or are left.
ReadsFile ==
    \A i \in DOMAIN file_table, offset \in 0 .. 3, len \in {1, 3} :
        file_table[i].in_use =>
            LET c == Contents(file_table[i].entry)
            IN  FatRead(Volume(-1), i, offset, len) =
                  [ok |-> TRUE, units |-> SubSeq(c, offset + 1, Min({Len(c), offset + len}))]

\* A slot that unlink() dropped from the table leaves the directory alone for
\* ever: no entry changes its cluster or size through it.
DroppedSlotIsDead ==
    [][\A i \in DOMAIN file_table : ~file_table[i].in_use /\ i \in DOMAIN file_table'
         => file_table'[i] = file_table[i] \/ file_table'[i].in_use]_vars

\* A file table that refuses a new file is full of files: unlink() drops the
\* file from it.
SlotsAreReused == Len(file_table) = FAT32_MAX_FILES => \A i \in DOMAIN file_table : file_table[i].in_use

\* The driver implements FileStore.
FileOf(raw) == {e \in LiveFiles : dir[e].raw = raw}
RawName == {NameToRaw(name) : name \in Name}
Store == INSTANCE FileStore WITH
    FileName <- RawName,
    Unit <- UNION {Range(request) : request \in Writes} \cup {0},
    Handle <- Fd,
    Request <- Writes,
    files <- [raw \in RawName |-> IF FileOf(raw) = {} THEN None ELSE Contents(Min(FileOf(raw)))],
    handle <- [h \in Fd |-> IF fd[h] = None THEN None
                            ELSE [file |-> dir[file_table[fd[h].file_index].entry].raw,
                                  offset |-> fd[h].offset]]

\* Through opens, reads, writes that run out of space, renames and removals
\* the driver behaves like a set of named files with handles.
ImplementsFiles == Store!Spec
=============================================================================
