------------------------------- MODULE Files -------------------------------
(***************************************************************************)
(* Open files from the C library down: the streams of vinixlibc/src/file.c *)
(* in each process, the descriptors of fs/vfs.c under them, and the three  *)
(* file systems these lead to (fat by what module FileStore promises, dev  *)
(* and proc as their code has them).  Processes fork and exit with         *)
(* streams open.  A stream call that reads is one system call per step, so *)
(* that others run while it waits for the terminal.                        *)
(***************************************************************************)
EXTENDS Vfs

CONSTANTS MAX_FDS, MAX_FILES,
          Paths, Modes,   \* the paths programs open, and the modes of fopen()
          Targets,        \* where they aim dup2()
          Texts,          \* what they write: sequences of bytes
          Sizes,          \* the buffer sizes they read with
          Initial,        \* the files on the card at start: [name, bytes]
          CAP,            \* bound: bytes the card holds
          RxMax,          \* bound: unread terminal bytes
          MaxCalls,       \* bound: library calls in a behaviour
          None

ASSUME FilesAssumption == MAX_FDS \in Nat /\ MAX_FDS > 3 /\ MAX_FILES \in Nat /\ CAP \in Nat

VARIABLES file_table,     \* fat: the files, with their bytes
          live,           \* the slots of the task table in use
          fds,            \* per slot: task_struct.files[]
          files,          \* per slot: the FILE pool
          mine,           \* per slot: descriptors the program opened without a stream
          call,           \* per slot: the stream call in progress
          rx,             \* bytes in the terminal's ring
          calls,          \* library calls so far
          log             \* per slot and stream: what it delivered and stored since it was opened

vars == <<file_table, live, fds, files, mine, call, rx, calls, log>>

Slots == 0 .. MAX_TASKS - 1
Fds == 0 .. MAX_FDS - 1
Streams == 1 .. MAX_FILES
NL == "\n"
Stale == "stale"          \* a byte of a gap: whatever the cluster held before
Failed(rc) == rc < 0

NoFds == [fd \in Fds |-> None]
NoStreams == [s \in Streams |-> None]

-----------------------------------------------------------------------------
(* The file systems.                                                       *)

fat_lookup(table, name) ==
    LET at == {i \in DOMAIN table : table[i].name = name} IN IF at = {} THEN NoFile ELSE Min(at)

lookup(table, ops, rest) == CASE ops = "fat" -> fat_lookup(table, rest)
                              [] ops = "dev" -> char_dev_find(rest)
                              [] OTHER -> procfs_lookup(rest, live)

\* gen_meminfo() counts the free pages, gen_pid_status() shows the task's
\* state: both change while a reader is half way through.
gen_meminfo == <<IF Cardinality(live) = 1 THEN "a" ELSE "b", NL>>
gen_version == <<"a", NL, "b">>
gen_mounts == <<"b", NL>>
gen_pid_status(slot) ==
    IF slot \notin live THEN <<>> ELSE <<"a", IF call[slot] = None THEN "a" ELSE "b", NL>>

regenerate(index) == CASE index = 0 -> gen_meminfo
                       [] index = 1 -> gen_version
                       [] index = 2 -> gen_mounts
                       [] OTHER -> gen_pid_status(index - STATUS_BASE)

Content(table, ops, index) == CASE ops = "fat" -> table[index].bytes
                                [] ops = "proc" -> regenerate(index)
                                [] OTHER -> <<>>

\* Up to len bytes from offset on; no more than the content has.
Bytes(content, offset, len) == SubSeq(content, offset + 1, Min({offset + len, Len(content)}))

\* Virtual files report no size.
get_file_info_size(table, ops, index) == IF ops = "fat" THEN Len(table[index].bytes) ELSE 0

\* fat32_write(): as much of text as the card has room for, none is an error.
fat_write(table, index, offset, text) ==
    LET others == SumFunctionOnSet([i \in DOMAIN table |-> Len(table[i].bytes)], DOMAIN table \ {index})
        k == Min({Len(text), CAP - others - offset})
        old == table[index].bytes
        new == [i \in 1 .. Max({Len(old), offset + k}) |->
                  IF i \in offset + 1 .. offset + k THEN text[i - offset]
                  ELSE IF i <= Len(old) THEN old[i] ELSE Stale]
    IN  IF k <= 0 THEN [n |-> -1, table |-> table]
        ELSE [n |-> k, table |-> [table EXCEPT ![index].bytes = new]]

-----------------------------------------------------------------------------
(* vfs.c.  A call gives back its result, the descriptors and the card.     *)

free_fd(table) == LET at == {fd \in Fds : fd >= 3 /\ table[fd] = None} IN IF at = {} THEN NoFile ELSE Min(at)

Refusals == {"no", "early", "late"}

Result(rc, descriptors, table) == [rc |-> rc, fds |-> descriptors, table |-> table]

\* Lookup, creation and truncation come before the search for a free
\* descriptor: a call refused for want of one has already emptied the file.
\* The card may refuse an access of create() or truncate(): before anything has
\* changed, or when a truncated file is already empty.
vfs_open(p, path, flags, refused) ==
    LET at == resolve(MountTable, path)
        ops == at.fs_ops
        found == lookup(file_table, ops, at.rest)
        creates == found = NoFile /\ flags.create /\ HasCreate(ops)
        index == IF creates THEN Len(file_table) + 1 ELSE found
        truncates == found # NoFile /\ flags.trunc /\ HasTruncate(ops)
        table == IF creates THEN Append(file_table, [name |-> at.rest, bytes |-> <<>>])
                 ELSE IF truncates THEN [file_table EXCEPT ![found].bytes = <<>>]
                 ELSE file_table
        fd == free_fd(fds[p])
    IN  CASE ops = "none" \/ (flags.access # "r" /\ ~HasWrite(ops)) -> Result(-1, fds[p], file_table)
          [] found = NoFile /\ ~creates -> Result(-1, fds[p], file_table)
          [] (creates /\ refused # "no") \/ (truncates /\ refused = "early") -> Result(-1, fds[p], file_table)
          [] fd = NoFile \/ (truncates /\ refused = "late") -> Result(-1, fds[p], table)
          [] OTHER -> Result(fd, [fds[p] EXCEPT ![fd] =
                             [fs_ops |-> ops, index |-> index, access |-> flags.access,
                              offset |-> IF flags.append THEN get_file_info_size(table, ops, index) ELSE 0]],
                             table)

\* A transfer moves the offset by what was transferred.
AdvancedByRequest(offset, asked, n) == offset + asked
Advanced(offset, asked, n) == offset + n

\* The bytes vfs_read() delivers; the terminal hands out one at a time.
vfs_read(p, fd, len) ==
    LET d == fds[p][fd]
    IN  IF d.fs_ops = "dev" THEN IF d.index = tty THEN <<"a">> ELSE <<>>
        ELSE Bytes(Content(file_table, d.fs_ops, d.index), d.offset, len)

\* A read of the terminal waits for a byte.
Waits(p, fd) == fds[p][fd] # None /\ fds[p][fd].fs_ops = "dev" /\ fds[p][fd].index = tty /\ rx = 0

vfs_write(p, fd, text) ==
    LET d == fds[p][fd]
        w == IF d.fs_ops = "fat" THEN fat_write(file_table, d.index, d.offset, text)
             ELSE [n |-> Len(text), table |-> file_table]
    IN  IF d = None \/ d.access = "r" \/ ~HasWrite(d.fs_ops) THEN Result(-1, fds[p], file_table)
        ELSE Result(w.n, [fds[p] EXCEPT ![fd].offset = Advanced(@, Len(text), Max({w.n, 0}))], w.table)

vfs_close(p, fd) == [fds[p] EXCEPT ![fd] = None]

vfs_dup(p, fd) == LET to == free_fd(fds[p])
                  IN  Result(to, IF to = NoFile THEN fds[p] ELSE [fds[p] EXCEPT ![to] = fds[p][fd]], file_table)

vfs_dup2(p, fd, to) == [fds[p] EXCEPT ![to] = fds[p][fd]]

-----------------------------------------------------------------------------
(* The history of a stream: where it started, the bytes that went through  *)
(* it, and whether the file was left alone by everyone else since.         *)

Steady(ops, index) == ops = "fat" \/ (ops = "proc" /\ index \in {1, 2})
NewLog(d) == [base |-> d.offset, bytes |-> <<>>, kept |-> Steady(d.fs_ops, d.index)]

\* After a change of the file by slot p's descriptor fd, every other stream of
\* that file has lost its claim.
Disturbed(history, p, fd, index) ==
    [q \in Slots |-> [s \in Streams |->
       IF /\ q \in live /\ files[q][s] # None
          /\ fds[q][files[q][s].fd].fs_ops = "fat" /\ fds[q][files[q][s].fd].index = index
          /\ ~(q = p /\ files[q][s].fd = fd)
       THEN [history[q][s] EXCEPT !.kept = FALSE] ELSE history[q][s]]]

Logged(table, history, p, fd, index) ==
    IF table = file_table THEN history ELSE Disturbed(history, p, fd, index)

Begins(p) == p \in live /\ call[p] = None /\ calls < MaxCalls /\ calls' = calls + 1

-----------------------------------------------------------------------------
(* vinixlibc: descriptors through the wrappers of unistd.c.                *)

Flags(access, create, trunc, append) ==
    [access |-> access, create |-> create, trunc |-> trunc, append |-> append]

Lookup(path) == LET at == resolve(MountTable, path) IN lookup(file_table, at.fs_ops, at.rest)

Open(p, path, flags) ==
    /\ Begins(p)
    /\ \E r \in {vfs_open(p, path, flags, refused) : refused \in Refusals} :
         /\ fds' = [fds EXCEPT ![p] = r.fds] /\ file_table' = r.table
         /\ mine' = [mine EXCEPT ![p] = IF Failed(r.rc) THEN @ ELSE @ \cup {r.rc}]
         /\ log' = Logged(r.table, log, p, r.rc, Lookup(path))
    /\ UNCHANGED <<live, files, call, rx>>

Close(p, fd) ==
    /\ Begins(p) /\ fd \in mine[p]
    /\ fds' = [fds EXCEPT ![p] = vfs_close(p, fd)] /\ mine' = [mine EXCEPT ![p] = @ \ {fd}]
    /\ UNCHANGED <<file_table, live, files, call, rx, log>>

Write(p, fd, text) ==
    /\ Begins(p) /\ fd \in mine[p] /\ fd >= 3
    /\ \E r \in {vfs_write(p, fd, text)} :
         /\ fds' = [fds EXCEPT ![p] = r.fds] /\ file_table' = r.table
         /\ log' = Logged(r.table, log, p, fd, fds[p][fd].index)
    /\ UNCHANGED <<live, files, mine, call, rx>>

\* The copy has an offset of its own.
Dup(p, fd) ==
    /\ Begins(p) /\ fds[p][fd] # None
    /\ \E r \in {vfs_dup(p, fd)} :
         /\ fds' = [fds EXCEPT ![p] = r.fds]
         /\ mine' = [mine EXCEPT ![p] = IF Failed(r.rc) THEN @ ELSE @ \cup {r.rc}]
    /\ UNCHANGED <<file_table, live, files, call, rx, log>>

StreamFds(p) == {files[p][s].fd : s \in {t \in Streams : files[p][t] # None}}

\* A program does not aim at the descriptor of one of its streams.
Dup2(p, fd, to) ==
    /\ Begins(p) /\ fds[p][fd] # None /\ fd # to /\ to \notin StreamFds(p)
    /\ fds' = [fds EXCEPT ![p] = vfs_dup2(p, fd, to)] /\ mine' = [mine EXCEPT ![p] = @ \cup {to}]
    /\ UNCHANGED <<file_table, live, files, call, rx, log>>

-----------------------------------------------------------------------------
(* vinixlibc: streams.                                                     *)

NoLog == [base |-> 0, bytes |-> <<>>, kept |-> FALSE]
parse_mode(mode) ==
    Flags(IF mode \in {"r+", "w+", "a+"} THEN "rw" ELSE IF mode = "r" THEN "r" ELSE "w",
          mode \in {"w", "w+", "a", "a+"}, mode \in {"w", "w+"}, mode \in {"a", "a+"})

alloc_file(p) == LET at == {s \in Streams : files[p][s] = None} IN IF at = {} THEN NoFile ELSE Min(at)

\* What fopen() does with the descriptor when the FILE pool is empty.
NoStreamLeftKept(r) == r.fds
NoStreamLeft(r) == [r.fds EXCEPT ![r.rc] = None]

Fopen(p, path, mode) ==
    /\ Begins(p)
    /\ \E r \in {vfs_open(p, path, parse_mode(mode), refused) : refused \in Refusals}, s \in {alloc_file(p)} :
         LET opened == ~Failed(r.rc) /\ s # NoFile
         IN  /\ file_table' = r.table
             /\ fds' = [fds EXCEPT ![p] = IF Failed(r.rc) \/ opened THEN r.fds ELSE NoStreamLeft(r)]
             /\ files' = IF opened THEN [files EXCEPT ![p][s] = [fd |-> r.rc, eof |-> FALSE, err |-> FALSE]]
                         ELSE files
             /\ \E after \in {Logged(r.table, log, p, r.rc, Lookup(path))} :
                  log' = IF opened THEN [after EXCEPT ![p][s] = NewLog(r.fds[r.rc])] ELSE after
    /\ UNCHANGED <<live, mine, call, rx>>

Fclose(p, s) ==
    /\ Begins(p) /\ files[p][s] # None
    /\ fds' = [fds EXCEPT ![p] = vfs_close(p, files[p][s].fd)]
    /\ files' = [files EXCEPT ![p][s] = None]
    /\ log' = [log EXCEPT ![p][s] = NoLog]
    /\ UNCHANGED <<file_table, live, mine, call, rx>>

\* fgets() asks for one byte at a time and stops after a newline, fread() for
\* all that is missing.
StartRead(p, s, op, size) ==
    /\ Begins(p) /\ files[p][s] # None
    /\ call' = [call EXCEPT ![p] = [op |-> op, s |-> s, buf |-> <<>>,
                                    want |-> IF op = "fgets" THEN size - 1 ELSE size]]
    /\ UNCHANGED <<file_table, live, fds, files, mine, rx, log>>

Asks(c) == IF c.op = "fgets" THEN 1 ELSE c.want - Len(c.buf)
Finished(c, buf) == Len(buf) = c.want \/ (c.op = "fgets" /\ buf # <<>> /\ Last(buf) = NL)

\* The bytes that went through a stream whose file nobody else changed.
Extend(entry, bytes) == IF entry.kept THEN [entry EXCEPT !.bytes = @ \o bytes] ELSE NoLog

\* One read(2) of the call in progress.  The card may fail to deliver.
ReadStep(p) ==
    /\ p \in live /\ call[p] # None
    /\ LET c == call[p]
           fd == files[p][c.s].fd
           d == fds[p][fd]
       IN  /\ ~Waits(p, fd)
           /\ \E got \in {vfs_read(p, fd, Asks(c))}, fails \in {FALSE, d.fs_ops = "fat"} :
                LET n == IF fails THEN 0 ELSE Len(got)
                    buf == IF fails THEN c.buf ELSE c.buf \o got
                    ends == n = 0 \/ Finished(c, buf)
                IN  /\ fds' = [fds EXCEPT ![p][fd].offset = Advanced(@, Asks(c), n)]
                    /\ rx' = IF d.fs_ops = "dev" /\ d.index = tty THEN rx - 1 ELSE rx
                    /\ files' = [files EXCEPT ![p][c.s].err = @ \/ fails,
                                              ![p][c.s].eof = @ \/ (~fails /\ n = 0)]
                    /\ call' = [call EXCEPT ![p] = IF ends THEN None ELSE [c EXCEPT !.buf = buf]]
                    /\ log' = IF ends THEN [log EXCEPT ![p][c.s] = Extend(@, buf)] ELSE log
    /\ UNCHANGED <<file_table, live, mine, calls>>

\* fputs(): one write(2), which may store only the first bytes.
Fputs(p, s, text) ==
    /\ Begins(p) /\ files[p][s] # None
    /\ LET fd == files[p][s].fd
       IN  \E r \in {vfs_write(p, fd, text)} :
             /\ fds' = [fds EXCEPT ![p] = r.fds] /\ file_table' = r.table
             /\ files' = [files EXCEPT ![p][s].err = @ \/ Failed(r.rc)]
             /\ \E after \in {Logged(r.table, log, p, fd, fds[p][fd].index)} :
                  log' = IF Failed(r.rc) THEN after
                         ELSE [after EXCEPT ![p][s] = Extend(@, SubSeq(text, 1, r.rc))]
    /\ UNCHANGED <<live, mine, call, rx>>

-----------------------------------------------------------------------------
\* do_fork() copies the descriptors by value, and the child's memory is a copy.
Fork(p) ==
    /\ Begins(p) /\ Slots \ live # {}
    /\ LET q == Min(Slots \ live)
       IN  /\ live' = live \cup {q}
           /\ fds' = [fds EXCEPT ![q] = fds[p]] /\ files' = [files EXCEPT ![q] = files[p]]
           /\ mine' = [mine EXCEPT ![q] = mine[p]] /\ log' = [log EXCEPT ![q] = log[p]]
    /\ UNCHANGED <<file_table, call, rx>>

\* A process ends, and its parent frees the slot.
Exit(p) ==
    /\ Begins(p) /\ live # {p}
    /\ live' = live \ {p}
    /\ fds' = [fds EXCEPT ![p] = NoFds] /\ files' = [files EXCEPT ![p] = NoStreams]
    /\ mine' = [mine EXCEPT ![p] = {}] /\ log' = [log EXCEPT ![p] = [s \in Streams |-> NoLog]]
    /\ UNCHANGED <<file_table, call, rx>>

TerminalByte == /\ rx < RxMax /\ rx' = rx + 1
                /\ UNCHANGED <<file_table, live, fds, files, mine, call, calls, log>>

Init == /\ file_table = Initial /\ live = {0} /\ rx = 0 /\ calls = 0
        /\ fds = [p \in Slots |-> NoFds] /\ files = [p \in Slots |-> NoStreams]
        /\ mine = [p \in Slots |-> {}] /\ call = [p \in Slots |-> None]
        /\ log = [p \in Slots |-> [s \in Streams |-> NoLog]]

OpenFlags == {Flags("r", FALSE, FALSE, FALSE), Flags("w", TRUE, TRUE, FALSE)}

Next == \/ \E p \in Slots, path \in Paths : \/ \E mode \in Modes : Fopen(p, path, mode)
                                            \/ \E flags \in OpenFlags : Open(p, path, flags)
        \/ \E p \in Slots, s \in Streams : \/ Fclose(p, s)
                                           \/ \E op \in {"fgets", "fread"}, n \in Sizes : StartRead(p, s, op, n)
                                           \/ \E text \in Texts : Fputs(p, s, text)
        \/ \E p \in Slots, fd \in Fds : \/ Close(p, fd) \/ Dup(p, fd)
                                        \/ \E to \in Targets : Dup2(p, fd, to)
                                        \/ \E text \in Texts : Write(p, fd, text)
        \/ \E p \in Slots : ReadStep(p) \/ Fork(p) \/ Exit(p)
        \/ TerminalByte

Spec == Init /\ [][Next]_vars

-----------------------------------------------------------------------------
\* fopen(), fclose() and fork() keep streams and descriptors in step: a stream
\* in use has an open descriptor that no other stream and no other part of the
\* program holds, and every other open descriptor is one the program asked
\* for.  A failed fopen(), for whatever reason, costs no descriptor.
StreamsOwnFds ==
    \A p \in live :
      /\ \A s \in Streams : files[p][s] # None =>
           /\ fds[p][files[p][s].fd] # None /\ files[p][s].fd \notin mine[p]
           /\ \A t \in Streams \ {s} : files[p][t] = None \/ files[p][t].fd # files[p][s].fd
      /\ {fd \in Fds : fds[p][fd] # None} = StreamFds(p) \cup mine[p]

\* What went through a stream since fopen(), read or written by calls that
\* reported it, is the run of the file's bytes from where it was opened to its
\* offset: nothing skipped, repeated or lost over short transfers, failed
\* reads, forks and a full card, as long as nobody else changes the file.
StreamsInOrder ==
    \A p \in live, s \in Streams :
      LET f == files[p][s]
          pending == IF call[p] # None /\ call[p].s = s THEN call[p].buf ELSE <<>>
          bytes == log[p][s].bytes \o pending
      IN  f # None /\ log[p][s].kept =>
            LET d == fds[p][f.fd]
            IN  /\ d.offset = log[p][s].base + Len(bytes)
                /\ SubSeq(Content(file_table, d.fs_ops, d.index), log[p][s].base + 1, d.offset) = bytes
=============================================================================
