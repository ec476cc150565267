---------------------------- MODULE Directories -----------------------------
(***************************************************************************)
(* What programs are told about the system: the directories of a FAT32     *)
(* volume with subdirectories, sectors and cluster chains (fat32.c), of    *)
(* /dev and of /proc, the task table and the devices of the platform bus,  *)
(* and the programs that show them (ls, ps, devlist).                      *)
(*                                                                         *)
(* card[lba] is the contents of a sector: a boot sector, a piece of the    *)
(* allocation table or a piece of a directory.  Sectors of bad cannot be   *)
(* read.  Names on the volume are sequences of character codes.            *)
(***************************************************************************)
EXTENDS Vfs, FatNames, Format

CONSTANTS FAT_ENTRIES,           \* table entries in a sector (128)
          FAT32_SECTOR_SZ,       \* 512
          SHELL_FILES,           \* entries the shell's ls has room for (16)
          LS_FILES,              \* entries the program ls has room for (32)
          PS_TASKS,              \* tasks that ps has room for (16)
          SHELL_DEVICES          \* devices that devlist has room for (8)

ASSUME DirectoryAssumption ==
    {FAT_ENTRIES, FAT32_SECTOR_SZ, SHELL_FILES, LS_FILES, PS_TASKS, SHELL_DEVICES} \subseteq Nat \ {0}

E_FAIL == -1
E_NOENT == -6
END_OF_CHAIN == 268435448        \* 0x0FFFFFF8
BPB_SIGNATURE == 43605           \* 0xAA55
NoSector == <<>>

-----------------------------------------------------------------------------
(* The volume: [card, bad, fs], where fs is what parse_bpb() has found.     *)

rd16(p) == p[1] + 256 * p[2]
rd32(p) == p[1] + 256 * p[2] + 65536 * p[3] + 16777216 * p[4]

bread(vol, lba) == IF lba \in DOMAIN vol.card \ vol.bad THEN vol.card[lba] ELSE NoSector

\* The layout, or nothing if the volume is refused.
NoVolume == <<>>
parse_bpb(vol, part_lba) ==
    LET b == bread(vol, part_lba)
        fat_lba == part_lba + rd16(b.RsvdSecCnt)
    IN  IF b = NoSector THEN NoVolume
        ELSE IF rd16(b.Signature) # BPB_SIGNATURE \/ rd16(b.BytsPerSec) # FAT32_SECTOR_SZ THEN NoVolume
        ELSE [sectors_per_cluster |-> b.SecPerClus, root_cluster |-> rd32(b.RootClus), fat_lba |-> fat_lba,
              data_lba |-> fat_lba + b.NumFATs * rd32(b.FATSz32), fsinfo_lba |-> part_lba + rd16(b.FSInfo)]

\* Clusters are numbered from 2.
cluster_to_sector(fs, cluster) == fs.data_lba + (cluster - 2) * fs.sectors_per_cluster

\* A table sector that cannot be read ends the chain.
fat_next_cluster(vol, cur) ==
    LET bh == bread(vol, vol.fs.fat_lba + (cur \div FAT_ENTRIES))
    IN  IF bh = NoSector THEN END_OF_CHAIN ELSE bh[(cur % FAT_ENTRIES) + 1] % 268435456

IsData(cluster) == cluster >= 2 /\ cluster < END_OF_CHAIN

\* An entry of a directory: its kind, raw name, case flags, first cluster
\* (two halves) and size.
Skipped(entry) == entry.kind \in {"deleted", "long", "volume"}
UpToEnd(bh) == SubSeq(bh, 1, Min({i \in DOMAIN bh : bh[i].kind = "end"} \cup {Len(bh) + 1}) - 1)
HasEnd(bh) == \E i \in DOMAIN bh : bh[i].kind = "end"
EntryInfo(e) == [name |-> RawToName(e.raw, e.nt_res), size |-> IF e.kind = "dir" THEN 0 ELSE e.size]

Failed(rc) == [rc |-> rc, list |-> <<>>]
Found(list) == [rc |-> Len(list), list |-> list]
AtMost(seq, max) == SubSeq(seq, 1, Min({Len(seq), max}))

\* The sectors of a directory from sector s of a cluster on; what is found is
\* appended to out, up to max entries.
RECURSIVE Listed(_, _, _, _, _)
Listed(vol, cluster, s, out, max) ==
    IF ~IsData(cluster) \/ Len(out) >= max THEN Found(out)
    ELSE IF s = vol.fs.sectors_per_cluster THEN Listed(vol, fat_next_cluster(vol, cluster), 0, out, max)
    ELSE LET bh == bread(vol, cluster_to_sector(vol.fs, cluster) + s)
             new == SelectSeq(UpToEnd(bh), LAMBDA e : ~Skipped(e) /\ e.raw[1] # Dot)
             all == AtMost(out \o [i \in DOMAIN new |-> EntryInfo(new[i])], max)
         IN  IF bh = NoSector THEN Failed(E_FAIL)
             ELSE IF HasEnd(bh) THEN Found(all) ELSE Listed(vol, cluster, s + 1, all, max)

raw_name_eq(a, b) == \A i \in 1 .. BASE + EXT : a[i] = b[i]

NotFound(rc) == [rc |-> rc, cluster |-> 0, is_dir |-> FALSE, at |-> <<>>]

\* The first entry of the directory that has the raw name.
RECURSIVE dir_lookup_component(_, _, _, _)
dir_lookup_component(vol, cluster, s, query) ==
    IF ~IsData(cluster) THEN NotFound(E_NOENT)
    ELSE IF s = vol.fs.sectors_per_cluster THEN dir_lookup_component(vol, fat_next_cluster(vol, cluster), 0, query)
    ELSE LET lba == cluster_to_sector(vol.fs, cluster) + s
             bh == bread(vol, lba)
             hits == {i \in DOMAIN UpToEnd(bh) : ~Skipped(bh[i]) /\ raw_name_eq(bh[i].raw, query)}
             e == bh[Min(hits)]
         IN  IF bh = NoSector THEN NotFound(E_FAIL)
             ELSE IF hits # {}
             THEN [rc |-> 0, cluster |-> e.hi * 65536 + e.lo, is_dir |-> e.kind = "dir", at |-> <<lba, Min(hits)>>]
             ELSE IF HasEnd(bh) THEN NotFound(E_NOENT) ELSE dir_lookup_component(vol, cluster, s + 1, query)

SLASH == 47
AfterSlashes(path) == LET at == {i \in DOMAIN path : path[i] # SLASH}
                      IN  IF at = {} THEN <<>> ELSE SubSeq(path, Min(at), Len(path))

\* from is what the components before path have led to.
RECURSIVE WalkPath(_, _, _)
WalkPath(vol, path, from) ==
    IF path = <<>> THEN from
    ELSE IF ~from.is_dir THEN NotFound(E_NOENT)
    ELSE LET sep == Min({i \in DOMAIN path : path[i] = SLASH} \cup {Len(path) + 1})
             hit == dir_lookup_component(vol, from.cluster, 0, Query(SubSeq(path, 1, sep - 1)))
         IN  IF hit.rc # 0 THEN hit ELSE WalkPath(vol, AfterSlashes(SubSeq(path, sep, Len(path))), hit)

Root(fs) == [rc |-> 0, cluster |-> fs.root_cluster, is_dir |-> TRUE, at |-> <<>>]
resolve_path(vol, path) == WalkPath(vol, AfterSlashes(path), Root(vol.fs))

\* Mutation of fat32_listdir: the entries of the root, whatever the path.
fat32_listdir_root(vol, path, max) ==
    LET r == resolve_path(vol, path)
    IN  IF r.rc # 0 THEN Failed(r.rc) ELSE IF ~r.is_dir THEN Failed(E_NOENT)
        ELSE Listed(vol, vol.fs.root_cluster, 0, <<>>, max)

fat32_listdir(vol, path, max) ==
    LET r == resolve_path(vol, path)
    IN  IF r.rc # 0 THEN Failed(r.rc) ELSE IF ~r.is_dir THEN Failed(E_NOENT)
        ELSE Listed(vol, r.cluster, 0, <<>>, max)

-----------------------------------------------------------------------------
(* /dev and /proc, and the call.                                           *)

Plain(names) == [i \in DOMAIN names |-> [name |-> names[i], size |-> 0]]

devfs_listdir(path, max) == IF path # <<>> THEN Failed(E_NOENT) ELSE Found(Plain(AtMost(char_devs, max)))

procfs_listdir(path, live, max) ==
    LET slots == SetToSortSeq(live \cap 0 .. MAX_TASKS - 1, <)
        top == <<<<"m">>, <<"v">>, <<"o">>>> \o [k \in DOMAIN slots |-> render_uint(slots[k], 10)]
    IN  IF path = <<>> THEN Found(Plain(AtMost(top, max)))
        ELSE IF parse_pid(path) \in live \cap 0 .. MAX_TASKS - 1 THEN Found(Plain(AtMost(<<<<"s">>>>, max)))
        ELSE Failed(E_NOENT)

\* Paths are text above the file systems and codes on the volume.
Code == [c \in {"/", ".", "b", "d", "p", "1"} |->
           CASE c = "/" -> SLASH [] c = "." -> Dot [] c = "b" -> 98 [] c = "d" -> 100 [] c = "p" -> 112 [] c = "1" -> 49]

\* Every mounted file system has a listdir(): the older interface is unused.
vfs_listdir(mount_table, vol, live, path, max) ==
    LET at == resolve(mount_table, path)
    IN  CASE at.fs_ops = "fat" -> fat32_listdir(vol, [i \in DOMAIN at.rest |-> Code[at.rest[i]]], max)
          [] at.fs_ops = "dev" -> devfs_listdir(at.rest, max)
          [] at.fs_ops = "proc" -> procfs_listdir(at.rest, live, max)
          [] OTHER -> Failed(E_NOENT)

\* What ls prints: a line for each entry, or the error.  An array of the caller
\* bounds the listing, and nothing tells that there are more entries.
LsLines(listing) == IF listing.rc < 0 THEN <<"error">> ELSE [i \in DOMAIN listing.list |-> listing.list[i].name]
cmd_ls(mount_table, vol, live, path) == LsLines(vfs_listdir(mount_table, vol, live, path, SHELL_FILES))
ls_main(mount_table, vol, live, path) == LsLines(vfs_listdir(mount_table, vol, live, path, LS_FILES))

-----------------------------------------------------------------------------
(* Tasks and devices.                                                      *)

TASK_STATE == [READY |-> 0, RUNNING |-> 1, BLOCKED |-> 2, ZOMBIE |-> 3]

\* tasks[i] is a task or the empty record.
scheduler_get_tasks(tasks, max) == AtMost(SelectSeq(tasks, LAMBDA t : t # <<>>), max)

StateNames == <<"READY", "RUNNING", "BLOCKED", "ZOMBIE">>
cmd_ps(tasks) == LET info == scheduler_get_tasks(tasks, PS_TASKS)
                 IN  [i \in DOMAIN info |-> [id |-> info[i].id, state |-> StateNames[info[i].state + 1]]]
ps_main(tasks) == LET info == scheduler_get_tasks(tasks, PS_TASKS)
                  IN  [i \in DOMAIN info |-> [id |-> info[i].id, state |-> StateNames[info[i].state + 1]]]

\* A device gets a resource for its registers if it has a base, and one for
\* its interrupt if it has a number.
platform_device_register(pdev) ==
    (IF pdev.base # 0 THEN <<[flags |-> "mem", start |-> pdev.base]>> ELSE <<>>) \o
    (IF pdev.irq > 0 THEN <<[flags |-> "irq", start |-> pdev.irq]>> ELSE <<>>)

NoResource == <<>>
platform_get_resource(resources, type, index) ==
    LET of == SelectSeq(resources, LAMBDA r : r.flags = type)
    IN  IF index < Len(of) THEN of[index + 1] ELSE NoResource
platform_get_irq(resources, index) ==
    LET r == platform_get_resource(resources, "irq", index) IN IF r = NoResource THEN -1 ELSE r.start

copy_name(src, cap) == AtMost(src, cap - 1)
platform_list_devices(devices, max) ==
    LET some == AtMost(devices, max)
    IN  [i \in DOMAIN some |-> [name |-> copy_name(some[i].name, 16), base |-> some[i].base,
                                irq |-> IF some[i].irq > 0 THEN some[i].irq ELSE -1,
                                driver |-> copy_name(some[i].driver, 16)]]

\* The decimal digits of the interrupt, lowest first, and then reversed.
RECURSIVE LowDigits(_)
LowDigits(v) == IF v = 0 THEN <<>> ELSE <<Digit[(v % 10) + 1]>> \o LowDigits(v \div 10)
IrqText(irq) == IF irq < 0 THEN <<"-">> ELSE IF irq = 0 THEN <<"0">> ELSE Reverse(LowDigits(irq))
cmd_devlist(devices) ==
    LET devs == platform_list_devices(devices, SHELL_DEVICES)
    IN  [i \in DOMAIN devs |-> [name |-> devs[i].name, base |-> devs[i].base, irq |-> IrqText(devs[i].irq),
                                driver |-> IF devs[i].driver = <<>> THEN <<"unbound">> ELSE devs[i].driver]]
=============================================================================
