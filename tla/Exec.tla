-------------------------------- MODULE Exec --------------------------------
(***************************************************************************)
(* do_exec() (proc/exec.c): the loader that replaces the program of the    *)
(* calling process.  It copies the arguments out of user memory, reads the *)
(* ELF headers through one descriptor, loads every segment through a       *)
(* second one, and writes the arguments back.  It can fail at each of      *)
(* these steps and then returns into the old program.                      *)
(*                                                                         *)
(* do_exec() never yields; its steps are separate here so that a failure   *)
(* can come between any two of them.  What the file contains is not state: *)
(* each read chooses what it finds.  The bytes of an argument are its      *)
(* index, so that arguments can be told apart.                             *)
(***************************************************************************)
EXTENDS Integers, Sequences, SequencesExt, FiniteSets, FiniteSetsExt

CONSTANTS
    MAX_FDS,
    USER_ARGV_MAX,
    USER_ARGV_STRS_SZ,
    PointerSize,        \* sizeof(char *)
    MaxHeaders          \* bound: program headers in a file

ASSUME ExecAssumption == /\ MAX_FDS \in Nat /\ MAX_FDS > 3
                         /\ USER_ARGV_MAX \in Nat /\ USER_ARGV_STRS_SZ \in Nat
                         /\ PointerSize \in Nat /\ MaxHeaders \in Nat

Process == {"shell", "child"}
Descriptor == 3 .. MAX_FDS - 1

VARIABLES
    files,        \* per process: the descriptors in use
    image,        \* per process: its user memory, "old", "partial" or "new"
    self,         \* the process that is in do_exec()
    at,           \* where it is there
    argv,         \* the lengths of the argument strings of this call
    volatile,     \* the path string lies where a program may be loaded
    path,         \* the path string is still the caller's
    argv_kbuf, arg_offsets,
    fd, seg,      \* the two descriptors, -1 if not open
    phdrs,        \* program headers still to be read
    area          \* the argv area the new program finds

exec_vars == <<self, at, argv, volatile, path, argv_kbuf, arg_offsets, fd, seg, phdrs, area>>
vars_exec == <<files, image, exec_vars>>

-----------------------------------------------------------------------------
(* Descriptors *)

\* vfs_open() takes the lowest free descriptor: a set, empty if there is none.
FreeFd(p) == LET free == Descriptor \ files[p]
             IN  {d \in free : \A e \in free : d <= e}

Opened(p, d) == [files EXCEPT ![p] = @ \cup {d}]
Closed(p, ds) == [files EXCEPT ![p] = @ \ ds]

-----------------------------------------------------------------------------
(* The arguments *)

Bytes(k, n) == [j \in 1 .. n |-> k]

\* snapshot_argv(), one argument: the buffer after it, none if it is too long.
CopyArg(buf, k, n) ==
    IF n > 0 /\ Len(buf) + n >= USER_ARGV_STRS_SZ THEN {} ELSE {buf \o Bytes(k, n) \o <<0>>}

\* snapshot_argv(): the buffer, none if an argument does not fit.
Snapshot(av) ==
    FoldLeft(LAMBDA bufs, k : UNION {CopyArg(b, k, av[k]) : b \in bufs},
             {<<>>},
             [k \in 1 .. Min({Len(av), USER_ARGV_MAX}) |-> k])

\* Mutation of Offsets: the NULs between the strings are not counted.
OffsetsNoNul(av) ==
    [k \in 1 .. Min({Len(av), USER_ARGV_MAX}) |-> SumFunction(SubSeq(av, 1, k - 1))]

\* arg_offsets[]: where each string starts in the buffer.
Offsets(av) ==
    [k \in 1 .. Min({Len(av), USER_ARGV_MAX}) |-> SumFunction(SubSeq(av, 1, k - 1)) + (k - 1)]

\* install_argv(): the strings, and the terminating null pointer, which lands
\* on the strings if all USER_ARGV_MAX pointers are used.
Installed(buf, offsets) ==
    [argc |-> Len(offsets),
     ptrs |-> offsets,
     strs |-> [j \in DOMAIN buf |->
                  IF Len(offsets) = USER_ARGV_MAX /\ j <= PointerSize THEN 0 ELSE buf[j]]]

NoArea == [argc |-> 0, ptrs |-> <<>>, strs |-> <<>>]

\* The string the new program reads at a pointer.
StringAt(strs, offset) ==
    LET from == SubSeq(strs, offset + 1, Len(strs))
        len  == Min({k - 1 : k \in {j \in DOMAIN from : from[j] = 0}})
    IN  SubSeq(from, 1, len)

-----------------------------------------------------------------------------
ExecInit ==
    /\ files = [p \in Process |-> {}]
    /\ image = [p \in Process |-> "old"]
    /\ self = "shell" /\ at = "out" /\ argv = <<>> /\ volatile = FALSE /\ path = TRUE
    /\ argv_kbuf = <<>> /\ arg_offsets = <<>> /\ fd = -1 /\ seg = -1 /\ phdrs = 0
    /\ area = NoArea

\* do_exec() has returned; its local variables are gone.
ExecLeft ==
    /\ self' = "shell" /\ at' = "out" /\ argv' = <<>> /\ volatile' = FALSE /\ path' = TRUE
    /\ argv_kbuf' = <<>> /\ arg_offsets' = <<>> /\ fd' = -1 /\ seg' = -1 /\ phdrs' = 0
    /\ area' = NoArea

\* Process p calls exec(): do_exec() copies the arguments.  at' = "failed" is
\* its return with an error.
ExecCall(p, av, vol) ==
    /\ at = "out"
    /\ self' = p /\ argv' = av /\ volatile' = vol /\ path' = TRUE
    /\ \/ /\ Snapshot(av) = {}
          /\ at' = "failed"
          /\ UNCHANGED <<argv_kbuf, arg_offsets>>
       \/ /\ argv_kbuf' \in Snapshot(av)
          /\ arg_offsets' = Offsets(av)
          /\ at' = "open"
    /\ UNCHANGED <<files, image, fd, seg, phdrs, area>>

call == <<self, argv, volatile, argv_kbuf, arg_offsets>>

\* vfs_open() of the file, which may not exist or cannot be looked up.
OpenImage ==
    /\ at = "open"
    /\ \/ /\ at' = "failed"
          /\ UNCHANGED <<files, fd>>
       \/ \E d \in FreeFd(self) : files' = Opened(self, d) /\ fd' = d /\ at' = "header"
    /\ UNCHANGED <<call, image, path, seg, phdrs, area>>

\* The error returns that close the first descriptor.
CloseAndFail ==
    /\ files' = Closed(self, {fd})
    /\ fd' = -1
    /\ at' = "failed"

\* The ELF header: unreadable or refused by validate_header(), or it announces
\* some program headers.
ReadHeader ==
    /\ at = "header"
    /\ \/ CloseAndFail /\ UNCHANGED phdrs
       \/ phdrs' \in 1 .. MaxHeaders /\ at' = "phdr" /\ UNCHANGED <<files, fd>>
    /\ UNCHANGED <<call, image, path, seg, area>>

\* The next program header: unreadable or out of bounds, not PT_LOAD, or a
\* segment to load.
ReadPhdr ==
    /\ at = "phdr" /\ phdrs > 0
    /\ \/ CloseAndFail /\ UNCHANGED phdrs
       \/ phdrs' = phdrs - 1 /\ UNCHANGED <<files, fd, at>>
       \/ at' = "segment" /\ UNCHANGED <<files, fd, phdrs>>
    /\ UNCHANGED <<call, image, path, seg, area>>

\* The file is opened again by its path, read from user memory once more.
OpenSegment ==
    /\ at = "segment"
    /\ \/ CloseAndFail /\ UNCHANGED seg
       \/ \E d \in FreeFd(self) :
            path /\ files' = Opened(self, d) /\ seg' = d /\ at' = "load" /\ UNCHANGED fd
    /\ UNCHANGED <<call, image, path, phdrs, area>>

\* The segment is read over user memory.  The read can fail before the first
\* byte, or after some are overwritten.
LoadSegment ==
    /\ at = "load"
    /\ seg' = -1
    /\ \/ /\ files' = Closed(self, {fd, seg})
          /\ fd' = -1 /\ at' = "failed"
          /\ image' \in {image, [image EXCEPT ![self] = "partial"]}
          /\ UNCHANGED <<path, phdrs>>
       \/ /\ files' = Closed(self, {seg})
          /\ at' = "phdr" /\ phdrs' = phdrs - 1
          /\ image' = [image EXCEPT ![self] = "partial"]
          /\ path' \in {path, path /\ ~volatile}
          /\ UNCHANGED fd
    /\ UNCHANGED <<call, area>>

\* All headers are read: do_exec() returns into the new program.
Finish ==
    /\ at = "phdr" /\ phdrs = 0
    /\ files' = Closed(self, {fd}) /\ fd' = -1
    /\ area' = IF arg_offsets = <<>> THEN NoArea ELSE Installed(argv_kbuf, arg_offsets)
    /\ image' = [image EXCEPT ![self] = "new"]
    /\ at' = "started"
    /\ UNCHANGED <<call, path, seg, phdrs>>

ExecStep == OpenImage \/ ReadHeader \/ ReadPhdr \/ OpenSegment \/ LoadSegment \/ Finish
=============================================================================
