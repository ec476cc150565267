-------------------------------- MODULE Vfs --------------------------------
(***************************************************************************)
(* How kernel/src/kernel/fs resolves a path: the mount table of vfs.c, the *)
(* device registry behind /dev and the virtual files of /proc.  A path is  *)
(* a sequence of one-character strings.                                    *)
(***************************************************************************)
EXTENDS Integers, Sequences, FiniteSetsExt, SequencesExt

CONSTANTS MAX_MOUNTS, MAX_TASKS,
          HEAD            \* size of procfs_lookup()'s head[] buffer

ASSUME VfsAssumption == {MAX_MOUNTS, MAX_TASKS, HEAD} \subseteq Nat \ {0}

Slash == "/"
NoFile == -1

\* vfs_mount(): the next free slot of the table, which only ever grows.
vfs_mount(mount_table, point, ops) ==
    IF Len(mount_table) = MAX_MOUNTS THEN mount_table
    ELSE Append(mount_table, [mount_point |-> point, fs_ops |-> ops])

NoMount == [fs_ops |-> "none", rest |-> <<>>]

resolve_root(mount_table, rest) ==
    LET at == {i \in DOMAIN mount_table : mount_table[i].mount_point = <<Slash>>}
    IN  IF at = {} THEN NoMount ELSE [fs_ops |-> mount_table[Min(at)].fs_ops, rest |-> rest]

CoversAnyPrefix(mp, path) == IsPrefix(mp, path)

\* The mount point is a prefix that ends at a separator of the path.
Covers(mp, path) ==
    /\ IsPrefix(mp, path)
    /\ Last(mp) = Slash \/ Len(path) = Len(mp) \/ path[Len(mp) + 1] = Slash

SkipSlashes(s) == LET at == {i \in DOMAIN s : s[i] # Slash}
                  IN  IF at = {} THEN <<>> ELSE SubSeq(s, Min(at), Len(s))

resolve(mount_table, path) ==
    IF path = <<>> \/ Head(path) # Slash THEN resolve_root(mount_table, path)
    ELSE LET fits == {i \in DOMAIN mount_table : Covers(mount_table[i].mount_point, path)}
             len(i) == Len(mount_table[i].mount_point)
             best == Min({i \in fits : \A j \in fits : len(j) <= len(i)})
         IN  IF fits = {} THEN NoMount
             ELSE [fs_ops |-> mount_table[best].fs_ops,
                   rest |-> SkipSlashes(SubSeq(path, len(best) + 1, Len(path)))]

\* The mounts of kernel_main(), in its order.
MountTable == vfs_mount(vfs_mount(vfs_mount(<<>>, <<Slash>>, "fat"), <<Slash, "d">>, "dev"), <<Slash, "p">>, "proc")

-----------------------------------------------------------------------------
\* The operations a file system's table leaves null.
HasWrite(ops) == ops \in {"fat", "dev"}
HasCreate(ops) == ops = "fat"
HasTruncate(ops) == ops = "fat"

\* devfs_init() registers /dev/tty, then /dev/null.
tty == 0
char_devs == <<<<"t">>, <<"n">>>>
char_dev_find(name) == IF \E i \in DOMAIN char_devs : char_devs[i] = name
                       THEN Min({i \in DOMAIN char_devs : char_devs[i] = name}) - 1 ELSE NoFile

-----------------------------------------------------------------------------
\* procfs: m, v and o stand for meminfo, version and mounts, s for status.
STATUS_BASE == 3
Digits == [c \in {"0", "1", "2"} |-> CASE c = "0" -> 0 [] c = "1" -> 1 [] c = "2" -> 2]

\* What is left of path once the first component, cut at the buffer, is taken.
split_component(path) ==
    LET cut == Min({i \in DOMAIN path : path[i] = Slash} \cup {Len(path) + 1, HEAD}) - 1
        ends == cut < Len(path) /\ path[cut + 1] = Slash
    IN  [first |-> SubSeq(path, 1, cut), found |-> ends,
         rest |-> IF ends THEN SubSeq(path, cut + 2, Len(path)) ELSE <<>>]

parse_pid(s) == IF s = <<>> \/ ~(\A i \in DOMAIN s : s[i] \in DOMAIN Digits) THEN NoFile
                ELSE FoldLeft(LAMBDA v, c : v * 10 + Digits[c], 0, s)

procfs_lookup(name, live) ==
    LET at == split_component(name)
        pid == parse_pid(at.first)
    IN  CASE name = <<"m">> -> 0
          [] name = <<"v">> -> 1
          [] name = <<"o">> -> 2
          [] OTHER -> IF at.found /\ pid \in 0 .. MAX_TASKS - 1 /\ pid \in live /\ at.rest = <<"s">>
                      THEN STATUS_BASE + pid ELSE NoFile
=============================================================================
