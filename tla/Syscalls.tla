------------------------------ MODULE Syscalls ------------------------------
(***************************************************************************)
(* The way of a system call into the kernel and of its result back: the    *)
(* functions of vinixlibc (unistd.c, signal.c, stat.c), the wrappers of    *)
(* userspace/lib/syscall.c that load the registers, and svc_handler.c,     *)
(* which tests pointers and calls a kernel function.  Words run from 0 to  *)
(* ADDRESSES - 1.  What the kernel does with a call is a record: the       *)
(* function it calls with which arguments, or "none" and an error code.    *)
(***************************************************************************)
EXTENDS Integers, Sequences

CONSTANTS ADDRESSES,                       \* 2^32
          USER_SPACE_VA, USER_SPACE_SIZE,  \* the section of user memory
          MAX_PATH, MAX_WRITE              \* 256 and 256

ASSUME SyscallAssumption ==
    /\ {ADDRESSES, USER_SPACE_VA, USER_SPACE_SIZE, MAX_PATH, MAX_WRITE} \subseteq Nat \ {0}
    /\ USER_SPACE_VA + USER_SPACE_SIZE < ADDRESSES
    /\ MAX_WRITE < USER_SPACE_VA
    /\ {40, MAX_PATH} \subseteq 0 .. ADDRESSES - 1       \* no buffer of fixed size is larger

Word == 0 .. ADDRESSES - 1

-----------------------------------------------------------------------------
(* syscalls.h, the kernel's copy and that of userspace.                    *)

SYS == [WRITE |-> 0, EXIT |-> 1, YIELD |-> 2, READ |-> 3, GET_TASKS |-> 4, GET_MEMINFO |-> 5, OPEN |-> 6,
        READ_FILE |-> 7, CLOSE |-> 8, LISTDIR |-> 9, EXEC |-> 10, WRITE_FILE |-> 11, FORK |-> 12, WAIT |-> 13,
        GETPID |-> 14, GETPPID |-> 15, KILL |-> 16, DUP |-> 17, DUP2 |-> 18, DEVLIST |-> 19, UNLINK |-> 20,
        RENAME |-> 21]

\* Bytes: integers of 4, names of 32 and of 16.
sizeof == [process_info_t |-> 4 + 32 + 4, mem_info_t |-> 6 * 4, file_info_t |-> 32 + 4, dev_info_t |-> 16 + 4 + 4 + 16,
           int |-> 4]
user_sizeof == [process_info_t |-> 4 + 32 + 4, mem_info_t |-> 6 * 4, file_info_t |-> 32 + 4,
                dev_info_t |-> 16 + 4 + 4 + 16, int |-> 4]

E == [OK |-> 0, FAIL |-> -1, INVAL |-> -2, ARG |-> -3, PTR |-> -4, PERM |-> -5, NOENT |-> -6, BADF |-> -7, MFILE |-> -8]
user_E == [OK |-> 0, FAIL |-> -1, INVAL |-> -2, ARG |-> -3, PTR |-> -4, PERM |-> -5, NOENT |-> -6, BADF |-> -7,
           MFILE |-> -8]

-----------------------------------------------------------------------------
(* syscall.c: the number each wrapper loads into r7.                       *)

ConsoleCalls == [sys_yield |-> 2, sys_write |-> 0, sys_exit |-> 1, sys_read |-> 3, sys_get_tasks |-> 4,
                 sys_get_meminfo |-> 5]
FileCalls == [sys_open |-> 6, sys_read_file |-> 7, sys_close |-> 8, sys_listdir |-> 9, sys_write_file |-> 11]
ProcessCalls == [sys_fork |-> 12, sys_wait |-> 13, sys_getpid |-> 14, sys_getppid |-> 15, sys_kill |-> 16,
                 sys_dup |-> 17, sys_dup2 |-> 18, sys_devlist |-> 19]
sys_exec == 10

\* The arguments go to r0, r1, r2.  The other registers are zeroed, or keep
\* what they held where a wrapper leaves them alone.
Svc(number, args, rest) ==
    [r7 |-> number, r0 |-> IF Len(args) > 0 THEN args[1] ELSE rest, r1 |-> IF Len(args) > 1 THEN args[2] ELSE rest,
     r2 |-> IF Len(args) > 2 THEN args[3] ELSE rest]
Wrapper(call, args, rest) ==
    CASE call \in DOMAIN ConsoleCalls -> Svc(ConsoleCalls[call], args, 0)
      [] call \in DOMAIN FileCalls -> Svc(FileCalls[call], args, 0)
      [] call \in DOMAIN ProcessCalls -> Svc(ProcessCalls[call], args, rest)
      [] call = "sys_exec" -> Svc(sys_exec, args, 0)

-----------------------------------------------------------------------------
(* svc_handler.c.                                                          *)

Calls(fn, args) == [fn |-> fn, args |-> args, rc |-> E.OK]
Fails(rc) == [fn |-> "none", args |-> <<>>, rc |-> rc]

\* Mutation of validate_user_pointer: no test for a sum that wraps.
validate_user_pointer_wraps(ptr, len) ==
    LET end == (ptr + len) % ADDRESSES
    IN  IF ptr >= USER_SPACE_VA /\ end <= USER_SPACE_VA + USER_SPACE_SIZE THEN E.OK ELSE E.PTR

validate_user_pointer(ptr, len) ==
    LET end == (ptr + len) % ADDRESSES
    IN  IF end < ptr THEN E.PTR
        ELSE IF ptr >= USER_SPACE_VA /\ end <= USER_SPACE_VA + USER_SPACE_SIZE THEN E.OK ELSE E.PTR

Valid(ptr, len) == validate_user_pointer(ptr, len) = E.OK

\* exec.c tests the addresses of a program with a function of its own.
in_user_space(addr, len) ==
    LET end == (addr + len) % ADDRESSES
    IN  end >= addr /\ addr >= USER_SPACE_VA /\ end <= USER_SPACE_VA + USER_SPACE_SIZE

\* Two conventions share a number: (buf, len), or (fd, buf, len) from compiled
\* programs.  The test of the pointer tells them apart.
Forms(ctx, fd) == IF Valid(ctx.r0, ctx.r1) THEN [ok |-> TRUE, fd |-> fd, buf |-> ctx.r0, len |-> ctx.r1]
                  ELSE [ok |-> Valid(ctx.r1, ctx.r2), fd |-> ctx.r0, buf |-> ctx.r1, len |-> ctx.r2]

sys_write(ctx) == LET f == Forms(ctx, 1)
                  IN  IF ~f.ok THEN Fails(E.PTR)
                      ELSE IF f.fd \notin {1, 2} \/ f.len > MAX_WRITE THEN Fails(E.ARG)
                      ELSE Calls("uart_putc", <<f.buf, f.len>>)

sys_read(ctx) == LET f == Forms(ctx, 0)
                 IN  IF ~f.ok THEN Fails(E.PTR)
                     ELSE IF f.fd # 0 THEN Fails(E.ARG)
                     ELSE IF ~Valid(f.buf, f.len) THEN Fails(E.PTR)
                     ELSE IF f.len = 0 THEN Calls("nothing", <<>>)
                     ELSE Calls("uart_getc", <<f.buf>>)

\* The size of a table is a product of words.
Table(count, size) == (count * size) % ADDRESSES

sys_get_tasks(ctx) == IF ~Valid(ctx.r0, Table(ctx.r1, sizeof.process_info_t)) THEN Fails(E.PTR)
                      ELSE Calls("scheduler_get_tasks", <<ctx.r0, ctx.r1>>)
sys_get_meminfo(ctx) == IF ~Valid(ctx.r0, sizeof.mem_info_t) THEN Fails(E.PTR) ELSE Calls("meminfo", <<ctx.r0>>)
sys_open(ctx) == IF ~Valid(ctx.r0, MAX_PATH) THEN Fails(E.PTR) ELSE Calls("vfs_open", <<ctx.r0, ctx.r1>>)
sys_read_file(ctx) == IF ~Valid(ctx.r1, ctx.r2) THEN Fails(E.PTR) ELSE Calls("vfs_read", <<ctx.r0, ctx.r1, ctx.r2>>)
sys_write_file(ctx) == IF ~Valid(ctx.r1, ctx.r2) THEN Fails(E.PTR) ELSE Calls("vfs_write", <<ctx.r0, ctx.r1, ctx.r2>>)
sys_close(ctx) == Calls("vfs_close", <<ctx.r0>>)
sys_listdir(ctx) == IF ~Valid(ctx.r0, MAX_PATH) \/ ~Valid(ctx.r1, Table(ctx.r2, sizeof.file_info_t)) THEN Fails(E.PTR)
                    ELSE Calls("vfs_listdir", <<ctx.r0, ctx.r1, ctx.r2>>)
sys_exec_handler(ctx) == IF ~Valid(ctx.r0, MAX_PATH) THEN Fails(E.PTR) ELSE Calls("do_exec", <<ctx.r0, ctx.r1>>)

\* A signal number is signed: words from the middle on are negative.
ExitCode(sig) == IF sig > 0 /\ sig < ADDRESSES \div 2 THEN 128 + sig ELSE 137

\* The first process does not exit: its program is copied from the kernel
\* image again and entered at its start.  Every other caller is ended.
INIT_PID == 1
sys_exit(self, ctx) == IF self = INIT_PID THEN Calls("restart_init", <<>>) ELSE Calls("do_exit", <<ctx.r0>>)

\* wait() returns the status through a pointer, when it is a good one.
StatusTo(ptr) == IF ptr # 0 /\ Valid(ptr, sizeof.int) THEN <<ptr>> ELSE <<>>

\* self is the pid of the caller.
svc_handler(self, ctx) ==
    CASE ctx.r7 = SYS.WRITE       -> sys_write(ctx)
      [] ctx.r7 = SYS.EXIT        -> sys_exit(self, ctx)
      [] ctx.r7 = SYS.YIELD       -> Calls("scheduler_yield", <<>>)
      [] ctx.r7 = SYS.READ        -> sys_read(ctx)
      [] ctx.r7 = SYS.GET_TASKS   -> sys_get_tasks(ctx)
      [] ctx.r7 = SYS.GET_MEMINFO -> sys_get_meminfo(ctx)
      [] ctx.r7 = SYS.OPEN        -> sys_open(ctx)
      [] ctx.r7 = SYS.READ_FILE   -> sys_read_file(ctx)
      [] ctx.r7 = SYS.CLOSE       -> sys_close(ctx)
      [] ctx.r7 = SYS.LISTDIR     -> sys_listdir(ctx)
      [] ctx.r7 = SYS.EXEC        -> sys_exec_handler(ctx)
      [] ctx.r7 = SYS.WRITE_FILE  -> sys_write_file(ctx)
      [] ctx.r7 = SYS.GETPID      -> Calls("pid", <<>>)
      [] ctx.r7 = SYS.GETPPID     -> Calls("ppid", <<>>)
      [] ctx.r7 = SYS.FORK        -> Calls("do_fork", <<>>)
      [] ctx.r7 = SYS.DUP         -> Calls("vfs_dup", <<ctx.r0>>)
      [] ctx.r7 = SYS.DUP2        -> Calls("vfs_dup2", <<ctx.r0, ctx.r1>>)
      [] ctx.r7 = SYS.UNLINK      -> IF ~Valid(ctx.r0, MAX_PATH) THEN Fails(E.PTR) ELSE Calls("vfs_unlink", <<ctx.r0>>)
      [] ctx.r7 = SYS.RENAME      -> IF ~Valid(ctx.r0, MAX_PATH) \/ ~Valid(ctx.r1, MAX_PATH) THEN Fails(E.PTR)
                                     ELSE Calls("vfs_rename", <<ctx.r0, ctx.r1>>)
      [] ctx.r7 = SYS.DEVLIST     -> IF ~Valid(ctx.r0, Table(ctx.r1, sizeof.dev_info_t)) THEN Fails(E.PTR)
                                     ELSE Calls("platform_list_devices", <<ctx.r0, ctx.r1>>)
      [] ctx.r7 = SYS.KILL        -> Calls("do_kill_by_pid", <<ctx.r0, ExitCode(ctx.r1)>>)
      [] ctx.r7 = SYS.WAIT        -> Calls("do_wait", StatusTo(ctx.r0))
      [] OTHER                    -> Fails(E.INVAL)

-----------------------------------------------------------------------------
(* unistd.c, signal.c, stat.c.                                             *)

set_errno_from(rc) ==
    IF rc >= 0 THEN [value |-> rc, errno |-> "unchanged"]
    ELSE [value |-> -1,
          errno |-> CASE rc = user_E.INVAL -> "EINVAL" [] rc = user_E.ARG -> "EINVAL" [] rc = user_E.PTR -> "EFAULT"
                      [] rc = user_E.PERM -> "EACCES" [] rc = user_E.NOENT -> "ENOENT" [] rc = user_E.BADF -> "EBADF"
                      [] rc = user_E.MFILE -> "EMFILE" [] OTHER -> "EIO"]

\* wait() has one error of its own.
wait_errno(rc) == IF rc < 0 THEN [value |-> -1, errno |-> "ECHILD"] ELSE [value |-> rc, errno |-> "unchanged"]

ToKernel(self, call, args, rest) == svc_handler(self, Wrapper(call, args, rest))

read(self, fd, buf, count, rest) ==
    IF fd = 0 THEN ToKernel(self, "sys_read", <<buf, count>>, rest) ELSE ToKernel(self, "sys_read_file", <<fd, buf, count>>, rest)
write(self, fd, buf, count, rest) ==
    IF fd \in {1, 2} THEN ToKernel(self, "sys_write", <<buf, count>>, rest)
    ELSE ToKernel(self, "sys_write_file", <<fd, buf, count>>, rest)
\* open(), close(), dup(), dup2(), fork(), execve(), _exit() pass their
\* arguments on.
Passes == [open |-> "sys_open", close |-> "sys_close", dup |-> "sys_dup", dup2 |-> "sys_dup2", fork |-> "sys_fork",
           execve |-> "sys_exec", _exit |-> "sys_exit"]
waitpid(self, pid, status, rest) == IF pid # ADDRESSES - 1 THEN Fails(E.ARG) ELSE ToKernel(self, "sys_wait", <<status>>, rest)
kill(self, pid, sig, rest) == ToKernel(self, "sys_kill", <<pid, sig>>, rest)
\* So many calls of sys_yield().
sleep(seconds) == (seconds * 100) % ADDRESSES
unlink(self, path, rest) == svc_handler(self, Svc(20, <<path>>, rest))
rename(self, oldp, newp, rest) == svc_handler(self, Svc(21, <<oldp, newp>>, rest))
raise(self, sig, rest) == kill(self, self, sig, rest)
\* The calls without a counterpart in the kernel.
Unsupported == [c \in {"pipe", "mkdir", "rmdir", "chdir", "access", "stat", "fstat"} |-> "EINVAL"]

-----------------------------------------------------------------------------
(* What a call promises, in exact arithmetic.                              *)

Inside(ptr, len) == USER_SPACE_VA <= ptr /\ ptr + len <= USER_SPACE_VA + USER_SPACE_SIZE

\* The kernel function is called with the arguments as given when the buffers
\* lie in user memory, and nothing but an error code comes back otherwise.
Delivers(outcome, fn, args, inside) == outcome = IF inside THEN Calls(fn, args) ELSE Fails(E.PTR)

\* The call on the console, of at most MAX_WRITE characters.
Writes(outcome, buf, len) == outcome = IF ~Inside(buf, len) THEN Fails(E.PTR)
                                       ELSE IF len > MAX_WRITE THEN Fails(E.ARG)
                                       ELSE Calls("uart_putc", <<buf, len>>)

\* Reads and writes, of descriptors and lengths below the addresses of user
\* memory: with larger ones the two conventions could not be told apart.
\* The last two are the calls of compiled programs, which use the other
\* convention.
TransfersArrive(self, fd, buf, len, rest) ==
    fd < USER_SPACE_VA /\ len < USER_SPACE_VA =>
      /\ fd \notin {1, 2} => Delivers(write(self, fd, buf, len, rest), "vfs_write", <<fd, buf, len>>, Inside(buf, len))
      /\ fd # 0 => Delivers(read(self, fd, buf, len, rest), "vfs_read", <<fd, buf, len>>, Inside(buf, len))
      /\ fd \in {1, 2} => Writes(write(self, fd, buf, len, rest), buf, len)
      /\ len > 0 => Delivers(read(self, 0, buf, len, rest), "uart_getc", <<buf>>, Inside(buf, len))
      /\ fd \in {1, 2} => Writes(svc_handler(self, Svc(0, <<fd, buf, len>>, rest)), buf, len)
      /\ len > 0 => Delivers(svc_handler(self, Svc(3, <<0, buf, len>>, rest)), "uart_getc", <<buf>>, Inside(buf, len))

\* The calls with paths and descriptors.
FileCallsArrive(self, path, other, rest) ==
    /\ Delivers(ToKernel(self, Passes.open, <<path, other>>, rest), "vfs_open", <<path, other>>, Inside(path, MAX_PATH))
    /\ Delivers(ToKernel(self, Passes.execve, <<path, other>>, rest), "do_exec", <<path, other>>, Inside(path, MAX_PATH))
    /\ Delivers(unlink(self, path, rest), "vfs_unlink", <<path>>, Inside(path, MAX_PATH))
    /\ Delivers(rename(self, path, other, rest), "vfs_rename", <<path, other>>, Inside(path, MAX_PATH) /\ Inside(other, MAX_PATH))
    /\ ToKernel(self, Passes.close, <<other>>, rest) = Calls("vfs_close", <<other>>)
    /\ ToKernel(self, Passes.dup, <<other>>, rest) = Calls("vfs_dup", <<other>>)
    /\ ToKernel(self, Passes.dup2, <<path, other>>, rest) = Calls("vfs_dup2", <<path, other>>)

\* The calls that fill a table.  The test is of its size as a word: a table
\* of ADDRESSES bytes or more is tested as one that is smaller by a multiple
\* of ADDRESSES, all others as they are.
AsWord(size) == IF size < ADDRESSES THEN size ELSE size % ADDRESSES
ReportsArrive(self, path, buf, count, rest) ==
    /\ Delivers(ToKernel(self, "sys_get_tasks", <<buf, count>>, rest), "scheduler_get_tasks", <<buf, count>>,
                Inside(buf, AsWord(count * user_sizeof.process_info_t)))
    /\ Delivers(ToKernel(self, "sys_devlist", <<buf, count>>, rest), "platform_list_devices", <<buf, count>>,
                Inside(buf, AsWord(count * user_sizeof.dev_info_t)))
    /\ Delivers(ToKernel(self, "sys_listdir", <<path, buf, count>>, rest), "vfs_listdir", <<path, buf, count>>,
                Inside(path, MAX_PATH) /\ Inside(buf, AsWord(count * user_sizeof.file_info_t)))
    /\ Delivers(ToKernel(self, "sys_get_meminfo", <<buf>>, rest), "meminfo", <<buf>>, Inside(buf, user_sizeof.mem_info_t))

\* The calls on processes.
ProcessCallsArrive(self, pid, arg, rest) ==
    /\ ToKernel(self, Passes.fork, <<>>, rest) = Calls("do_fork", <<>>)
    /\ ToKernel(self, Passes._exit, <<arg>>, rest) =
         IF self = INIT_PID THEN Calls("restart_init", <<>>) ELSE Calls("do_exit", <<arg>>)
    /\ ToKernel(self, "sys_yield", <<>>, rest) = Calls("scheduler_yield", <<>>)
    /\ ToKernel(self, "sys_getpid", <<>>, rest) = Calls("pid", <<>>)
    /\ ToKernel(self, "sys_getppid", <<>>, rest) = Calls("ppid", <<>>)
    /\ LET k == kill(self, pid, arg, rest) IN k.fn = "do_kill_by_pid" /\ k.args[1] = pid /\ k.args[2] > 128
    /\ raise(self, arg, rest).args[1] = self
    /\ waitpid(self, ADDRESSES - 1, arg, rest) = Calls("do_wait", IF Inside(arg, user_sizeof.int) THEN <<arg>> ELSE <<>>)

CallsReach(self, x, y, z, rest) ==
    /\ TransfersArrive(self, x, y, z, rest) /\ FileCallsArrive(self, x, y, rest)
    /\ ReportsArrive(self, x, y, z, rest) /\ ProcessCallsArrive(self, x, y, rest)

\* A program sees -1 and the POSIX name of the kernel's error.
ErrnoNames == [FAIL |-> "EIO", INVAL |-> "EINVAL", ARG |-> "EINVAL", PTR |-> "EFAULT", PERM |-> "EACCES",
               NOENT |-> "ENOENT", BADF |-> "EBADF", MFILE |-> "EMFILE"]
ErrorsReach == \A e \in DOMAIN ErrnoNames : set_errno_from(E[e]) = [value |-> -1, errno |-> ErrnoNames[e]]
=============================================================================
