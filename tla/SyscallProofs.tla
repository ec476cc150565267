---------------------------- MODULE SyscallProofs ----------------------------
(***************************************************************************)
(* For every size of the address space and every place of user memory in   *)
(* it: the test of user pointers is exact, and each library call reaches   *)
(* the kernel function it is for with its arguments, whatever words it is   *)
(* given (CallsReach, which the run conversions checks on a small          *)
(* instance).                                                              *)
(***************************************************************************)
EXTENDS Syscalls, TLAPS

\* The sum of two words, as the processor computes it.
LEMMA Wraps ==
  ASSUME NEW n \in Nat, n < 2 * ADDRESSES
  PROVE  n % ADDRESSES = IF n < ADDRESSES THEN n ELSE n - ADDRESSES
  <1>1. ADDRESSES \in Nat /\ ADDRESSES > 0
    BY SyscallAssumption
  <1> DEFINE q == n \div ADDRESSES
             r == n % ADDRESSES
  <1>2. q \in Int /\ r \in Int /\ 0 <= r /\ r < ADDRESSES /\ n = ADDRESSES * q + r
    BY <1>1
  <1> QED
    BY <1>1, <1>2

\* validate_user_pointer() accepts a buffer exactly when all of it lies in
\* user memory: the test for a wrapped sum misses nothing and refuses nothing.
THEOREM PointerCheckExact ==
  ASSUME NEW ptr \in Word, NEW len \in Word
  PROVE  Valid(ptr, len) <=> Inside(ptr, len)
  <1>1. /\ ADDRESSES \in Nat /\ USER_SPACE_VA \in Nat /\ USER_SPACE_SIZE \in Nat
        /\ USER_SPACE_VA + USER_SPACE_SIZE < ADDRESSES
    BY SyscallAssumption
  <1>2. ptr \in Nat /\ len \in Nat /\ ptr < ADDRESSES /\ len < ADDRESSES
    BY <1>1 DEF Word
  <1>3. (ptr + len) % ADDRESSES = IF ptr + len < ADDRESSES THEN ptr + len ELSE ptr + len - ADDRESSES
    BY <1>1, <1>2, Wraps
  <1>4. E.OK = 0 /\ E.PTR = -4
    BY DEF E
  <1> QED
    BY <1>1, <1>2, <1>3, <1>4 DEF Valid, validate_user_pointer, Inside

\* exec.c tests addresses with a function of its own; the two agree.
THEOREM ExecCheckExact ==
  ASSUME NEW addr \in Word, NEW len \in Word
  PROVE  in_user_space(addr, len) <=> Inside(addr, len)
  <1>1. /\ ADDRESSES \in Nat /\ USER_SPACE_VA \in Nat /\ USER_SPACE_SIZE \in Nat
        /\ USER_SPACE_VA + USER_SPACE_SIZE < ADDRESSES
    BY SyscallAssumption
  <1>2. addr \in Nat /\ len \in Nat /\ addr < ADDRESSES /\ len < ADDRESSES
    BY <1>1 DEF Word
  <1>3. (addr + len) % ADDRESSES = IF addr + len < ADDRESSES THEN addr + len ELSE addr + len - ADDRESSES
    BY <1>1, <1>2, Wraps
  <1> QED
    BY <1>1, <1>2, <1>3 DEF in_user_space, Inside

-----------------------------------------------------------------------------
(* The dispatcher, one number at a time.                                   *)

\* The numbers are distinct, so that CASE takes the arm of the number.
LEMMA Dispatch ==
  ASSUME NEW self, NEW ctx
  PROVE  /\ ctx.r7 = 0 => svc_handler(self, ctx) = sys_write(ctx)
         /\ ctx.r7 = 1 => svc_handler(self, ctx) = sys_exit(self, ctx)
         /\ ctx.r7 = 2 => svc_handler(self, ctx) = Calls("scheduler_yield", <<>>)
         /\ ctx.r7 = 3 => svc_handler(self, ctx) = sys_read(ctx)
         /\ ctx.r7 = 4 => svc_handler(self, ctx) = sys_get_tasks(ctx)
         /\ ctx.r7 = 5 => svc_handler(self, ctx) = sys_get_meminfo(ctx)
         /\ ctx.r7 = 6 => svc_handler(self, ctx) = sys_open(ctx)
         /\ ctx.r7 = 7 => svc_handler(self, ctx) = sys_read_file(ctx)
         /\ ctx.r7 = 8 => svc_handler(self, ctx) = sys_close(ctx)
         /\ ctx.r7 = 9 => svc_handler(self, ctx) = sys_listdir(ctx)
         /\ ctx.r7 = 10 => svc_handler(self, ctx) = sys_exec_handler(ctx)
         /\ ctx.r7 = 11 => svc_handler(self, ctx) = sys_write_file(ctx)
         /\ ctx.r7 = 12 => svc_handler(self, ctx) = Calls("do_fork", <<>>)
         /\ ctx.r7 = 13 => svc_handler(self, ctx) = Calls("do_wait", StatusTo(ctx.r0))
         /\ ctx.r7 = 14 => svc_handler(self, ctx) = Calls("pid", <<>>)
         /\ ctx.r7 = 15 => svc_handler(self, ctx) = Calls("ppid", <<>>)
         /\ ctx.r7 = 16 => svc_handler(self, ctx) = Calls("do_kill_by_pid", <<ctx.r0, ExitCode(ctx.r1)>>)
         /\ ctx.r7 = 17 => svc_handler(self, ctx) = Calls("vfs_dup", <<ctx.r0>>)
         /\ ctx.r7 = 18 => svc_handler(self, ctx) = Calls("vfs_dup2", <<ctx.r0, ctx.r1>>)
         /\ ctx.r7 = 19 => svc_handler(self, ctx) = IF ~Valid(ctx.r0, Table(ctx.r1, sizeof.dev_info_t)) THEN Fails(E.PTR)
                                              ELSE Calls("platform_list_devices", <<ctx.r0, ctx.r1>>)
         /\ ctx.r7 = 20 => svc_handler(self, ctx) = IF ~Valid(ctx.r0, MAX_PATH) THEN Fails(E.PTR) ELSE Calls("vfs_unlink", <<ctx.r0>>)
         /\ ctx.r7 = 21 => svc_handler(self, ctx) = IF ~Valid(ctx.r0, MAX_PATH) \/ ~Valid(ctx.r1, MAX_PATH) THEN Fails(E.PTR)
                                              ELSE Calls("vfs_rename", <<ctx.r0, ctx.r1>>)
  <1>1. /\ SYS.WRITE = 0 /\ SYS.EXIT = 1 /\ SYS.YIELD = 2 /\ SYS.READ = 3 /\ SYS.GET_TASKS = 4 /\ SYS.GET_MEMINFO = 5
        /\ SYS.OPEN = 6 /\ SYS.READ_FILE = 7 /\ SYS.CLOSE = 8 /\ SYS.LISTDIR = 9 /\ SYS.EXEC = 10 /\ SYS.WRITE_FILE = 11
        /\ SYS.FORK = 12 /\ SYS.WAIT = 13 /\ SYS.GETPID = 14 /\ SYS.GETPPID = 15 /\ SYS.KILL = 16 /\ SYS.DUP = 17
        /\ SYS.DUP2 = 18 /\ SYS.DEVLIST = 19 /\ SYS.UNLINK = 20 /\ SYS.RENAME = 21
    BY DEF SYS
  <1>2. ctx.r7 = 0 => svc_handler(self, ctx) = sys_write(ctx)
    BY <1>1 DEF svc_handler
  <1>3. ctx.r7 = 1 => svc_handler(self, ctx) = sys_exit(self, ctx)
    BY <1>1 DEF svc_handler
  <1>4. ctx.r7 = 2 => svc_handler(self, ctx) = Calls("scheduler_yield", <<>>)
    BY <1>1 DEF svc_handler
  <1>5. ctx.r7 = 3 => svc_handler(self, ctx) = sys_read(ctx)
    BY <1>1 DEF svc_handler
  <1>6. ctx.r7 = 4 => svc_handler(self, ctx) = sys_get_tasks(ctx)
    BY <1>1 DEF svc_handler
  <1>7. ctx.r7 = 5 => svc_handler(self, ctx) = sys_get_meminfo(ctx)
    BY <1>1 DEF svc_handler
  <1>8. ctx.r7 = 6 => svc_handler(self, ctx) = sys_open(ctx)
    BY <1>1 DEF svc_handler
  <1>9. ctx.r7 = 7 => svc_handler(self, ctx) = sys_read_file(ctx)
    BY <1>1 DEF svc_handler
  <1>10. ctx.r7 = 8 => svc_handler(self, ctx) = sys_close(ctx)
    BY <1>1 DEF svc_handler
  <1>11. ctx.r7 = 9 => svc_handler(self, ctx) = sys_listdir(ctx)
    BY <1>1 DEF svc_handler
  <1>12. ctx.r7 = 10 => svc_handler(self, ctx) = sys_exec_handler(ctx)
    BY <1>1 DEF svc_handler
  <1>13. ctx.r7 = 11 => svc_handler(self, ctx) = sys_write_file(ctx)
    BY <1>1 DEF svc_handler
  <1>14. ctx.r7 = 12 => svc_handler(self, ctx) = Calls("do_fork", <<>>)
    BY <1>1 DEF svc_handler
  <1>15. ctx.r7 = 13 => svc_handler(self, ctx) = Calls("do_wait", StatusTo(ctx.r0))
    BY <1>1 DEF svc_handler
  <1>16. ctx.r7 = 14 => svc_handler(self, ctx) = Calls("pid", <<>>)
    BY <1>1 DEF svc_handler
  <1>17. ctx.r7 = 15 => svc_handler(self, ctx) = Calls("ppid", <<>>)
    BY <1>1 DEF svc_handler
  <1>18. ctx.r7 = 16 => svc_handler(self, ctx) = Calls("do_kill_by_pid", <<ctx.r0, ExitCode(ctx.r1)>>)
    BY <1>1 DEF svc_handler
  <1>19. ctx.r7 = 17 => svc_handler(self, ctx) = Calls("vfs_dup", <<ctx.r0>>)
    BY <1>1 DEF svc_handler
  <1>20. ctx.r7 = 18 => svc_handler(self, ctx) = Calls("vfs_dup2", <<ctx.r0, ctx.r1>>)
    BY <1>1 DEF svc_handler
  <1>21. ctx.r7 = 19 => svc_handler(self, ctx) = IF ~Valid(ctx.r0, Table(ctx.r1, sizeof.dev_info_t)) THEN Fails(E.PTR) ELSE Calls("platform_list_devices", <<ctx.r0, ctx.r1>>)
    BY <1>1 DEF svc_handler
  <1>22. ctx.r7 = 20 => svc_handler(self, ctx) = IF ~Valid(ctx.r0, MAX_PATH) THEN Fails(E.PTR) ELSE Calls("vfs_unlink", <<ctx.r0>>)
    BY <1>1 DEF svc_handler
  <1>23. ctx.r7 = 21 => svc_handler(self, ctx) = IF ~Valid(ctx.r0, MAX_PATH) \/ ~Valid(ctx.r1, MAX_PATH) THEN Fails(E.PTR) ELSE Calls("vfs_rename", <<ctx.r0, ctx.r1>>)
    BY <1>1 DEF svc_handler
  <1> QED
    BY <1>2, <1>3, <1>4, <1>5, <1>6, <1>7, <1>8, <1>9, <1>10, <1>11, <1>12, <1>13, <1>14, <1>15, <1>16, <1>17, <1>18, <1>19, <1>20, <1>21, <1>22, <1>23

\* The wrappers of syscall.c load the number of the call.
LEMMA Loads ==
  ASSUME NEW args, NEW rest
  PROVE  /\ Wrapper("sys_yield", args, rest) = Svc(2, args, 0)
         /\ Wrapper("sys_write", args, rest) = Svc(0, args, 0)
         /\ Wrapper("sys_exit", args, rest) = Svc(1, args, 0)
         /\ Wrapper("sys_read", args, rest) = Svc(3, args, 0)
         /\ Wrapper("sys_get_tasks", args, rest) = Svc(4, args, 0)
         /\ Wrapper("sys_get_meminfo", args, rest) = Svc(5, args, 0)
         /\ Wrapper("sys_open", args, rest) = Svc(6, args, 0)
         /\ Wrapper("sys_read_file", args, rest) = Svc(7, args, 0)
         /\ Wrapper("sys_close", args, rest) = Svc(8, args, 0)
         /\ Wrapper("sys_listdir", args, rest) = Svc(9, args, 0)
         /\ Wrapper("sys_write_file", args, rest) = Svc(11, args, 0)
         /\ Wrapper("sys_fork", args, rest) = Svc(12, args, rest)
         /\ Wrapper("sys_wait", args, rest) = Svc(13, args, rest)
         /\ Wrapper("sys_getpid", args, rest) = Svc(14, args, rest)
         /\ Wrapper("sys_getppid", args, rest) = Svc(15, args, rest)
         /\ Wrapper("sys_kill", args, rest) = Svc(16, args, rest)
         /\ Wrapper("sys_dup", args, rest) = Svc(17, args, rest)
         /\ Wrapper("sys_dup2", args, rest) = Svc(18, args, rest)
         /\ Wrapper("sys_devlist", args, rest) = Svc(19, args, rest)
         /\ Wrapper("sys_exec", args, rest) = Svc(10, args, 0)
  <1>1. /\ DOMAIN ConsoleCalls = {"sys_yield", "sys_write", "sys_exit", "sys_read", "sys_get_tasks", "sys_get_meminfo"}
        /\ DOMAIN FileCalls = {"sys_open", "sys_read_file", "sys_close", "sys_listdir", "sys_write_file"}
        /\ DOMAIN ProcessCalls = {"sys_fork", "sys_wait", "sys_getpid", "sys_getppid", "sys_kill", "sys_dup", "sys_dup2", "sys_devlist"}
    BY DEF ConsoleCalls, FileCalls, ProcessCalls
  <1>2. /\ ConsoleCalls["sys_yield"] = 2
        /\ ConsoleCalls["sys_write"] = 0
        /\ ConsoleCalls["sys_exit"] = 1
        /\ ConsoleCalls["sys_read"] = 3
        /\ ConsoleCalls["sys_get_tasks"] = 4
        /\ ConsoleCalls["sys_get_meminfo"] = 5
    BY DEF ConsoleCalls
  <1>3. /\ FileCalls["sys_open"] = 6
        /\ FileCalls["sys_read_file"] = 7
        /\ FileCalls["sys_close"] = 8
        /\ FileCalls["sys_listdir"] = 9
        /\ FileCalls["sys_write_file"] = 11
    BY DEF FileCalls
  <1>4. /\ ProcessCalls["sys_fork"] = 12
        /\ ProcessCalls["sys_wait"] = 13
        /\ ProcessCalls["sys_getpid"] = 14
        /\ ProcessCalls["sys_getppid"] = 15
        /\ ProcessCalls["sys_kill"] = 16
        /\ ProcessCalls["sys_dup"] = 17
        /\ ProcessCalls["sys_dup2"] = 18
        /\ ProcessCalls["sys_devlist"] = 19
    BY DEF ProcessCalls
  <1> QED
    BY <1>1, <1>2, <1>3, <1>4 DEF Wrapper, sys_exec

-----------------------------------------------------------------------------
(* The calls.                                                              *)

\* The sizes, codes and bounds that the calls need.
LEMMA Numbers ==
  /\ E.OK = 0 /\ E.PTR = -4 /\ E.ARG = -3
  /\ sizeof.process_info_t = 40 /\ sizeof.mem_info_t = 24 /\ sizeof.file_info_t = 36 /\ sizeof.dev_info_t = 40 /\ sizeof.int = 4
  /\ user_sizeof.process_info_t = 40 /\ user_sizeof.mem_info_t = 24 /\ user_sizeof.file_info_t = 36
  /\ user_sizeof.dev_info_t = 40 /\ user_sizeof.int = 4
  /\ ADDRESSES \in Nat /\ USER_SPACE_VA \in Nat /\ USER_SPACE_SIZE \in Nat /\ MAX_WRITE \in Nat
  /\ USER_SPACE_VA > 0 /\ USER_SPACE_VA < ADDRESSES /\ MAX_PATH \in Word /\ 24 \in Word /\ 4 \in Word /\ 0 \in Word
  BY SyscallAssumption DEF E, sizeof, user_sizeof, Word

\* What is below user memory is no pointer.
LEMMA SmallIsInvalid ==
  ASSUME NEW p \in Word, NEW len \in Word, p < USER_SPACE_VA
  PROVE  ~Valid(p, len)
  <1>1. p \in Int /\ USER_SPACE_VA \in Int
    BY Numbers DEF Word
  <1>2. ~Inside(p, len)
    BY <1>1 DEF Inside
  <1> QED
    BY <1>2, PointerCheckExact

\* read() and write() of vinixlibc on a file.
LEMMA FileTransfers ==
  ASSUME NEW self, NEW fd, NEW buf \in Word, NEW len \in Word, NEW rest
  PROVE  /\ Delivers(ToKernel(self, "sys_write_file", <<fd, buf, len>>, rest), "vfs_write", <<fd, buf, len>>, Inside(buf, len))
         /\ Delivers(ToKernel(self, "sys_read_file", <<fd, buf, len>>, rest), "vfs_read", <<fd, buf, len>>, Inside(buf, len))
  <1>1. Valid(buf, len) <=> Inside(buf, len)
    BY PointerCheckExact
  <1>2. ToKernel(self, "sys_write_file", <<fd, buf, len>>, rest) = (IF ~Valid(buf, len) THEN Fails(E.PTR) ELSE Calls("vfs_write", <<fd, buf, len>>))
    <2> DEFINE ctx == Svc(11, <<fd, buf, len>>, 0)
    <2>1. ctx.r7 = 11 /\ ctx.r0 = fd /\ ctx.r1 = buf /\ ctx.r2 = len
      BY DEF Svc
    <2>2. ToKernel(self, "sys_write_file", <<fd, buf, len>>, rest) = svc_handler(self, ctx)
      BY Loads DEF ToKernel
    <2> HIDE DEF ctx
    <2> QED
      BY Zenon, <2>1, <2>2, Dispatch DEF sys_write_file
  <1>3. ToKernel(self, "sys_read_file", <<fd, buf, len>>, rest) = (IF ~Valid(buf, len) THEN Fails(E.PTR) ELSE Calls("vfs_read", <<fd, buf, len>>))
    <2> DEFINE ctx == Svc(7, <<fd, buf, len>>, 0)
    <2>1. ctx.r7 = 7 /\ ctx.r0 = fd /\ ctx.r1 = buf /\ ctx.r2 = len
      BY DEF Svc
    <2>2. ToKernel(self, "sys_read_file", <<fd, buf, len>>, rest) = svc_handler(self, ctx)
      BY Loads DEF ToKernel
    <2> HIDE DEF ctx
    <2> QED
      BY Zenon, <2>1, <2>2, Dispatch DEF sys_read_file
  <1> QED
    BY <1>1, <1>2, <1>3 DEF Delivers

\* write() on the console in either convention: the test of the pointer tells
\* a descriptor or a length from a buffer.
LEMMA ConsoleWrites ==
  ASSUME NEW self, NEW ctx, NEW buf \in Word, NEW len \in Word, len < USER_SPACE_VA, ctx.r7 = 0,
         \/ ctx.r0 = buf /\ ctx.r1 = len /\ ctx.r2 = 0
         \/ ctx.r0 \in {1, 2} /\ ctx.r0 \in Word /\ ctx.r0 < USER_SPACE_VA /\ ctx.r1 = buf /\ ctx.r2 = len
  PROVE  Writes(svc_handler(self, ctx), buf, len)
  <1>1. Valid(buf, len) <=> Inside(buf, len)
    BY PointerCheckExact
  <1>2. svc_handler(self, ctx) = sys_write(ctx)
    BY Zenon, Dispatch
  <1>3. CASE ctx.r0 = buf /\ ctx.r1 = len /\ ctx.r2 = 0
    <2>1. ~Valid(len, 0)
      BY SmallIsInvalid, Numbers
    <2>2. Forms(ctx, 1) = IF Valid(buf, len) THEN [ok |-> TRUE, fd |-> 1, buf |-> buf, len |-> len]
                          ELSE [ok |-> FALSE, fd |-> buf, buf |-> len, len |-> 0]
      BY Zenon, <1>3, <2>1 DEF Forms, Valid
    <2> QED
      BY <1>1, <1>2, <2>2 DEF sys_write, Writes
  <1>4. CASE ctx.r0 \in {1, 2} /\ ctx.r0 \in Word /\ ctx.r0 < USER_SPACE_VA /\ ctx.r1 = buf /\ ctx.r2 = len
    <2>1. ~Valid(ctx.r0, buf)
      BY <1>4, SmallIsInvalid
    <2>2. Forms(ctx, 1) = [ok |-> Valid(buf, len), fd |-> ctx.r0, buf |-> buf, len |-> len]
      BY <1>4, <2>1 DEF Forms, Valid
    <2> QED
      BY <1>1, <1>2, <1>4, <2>2 DEF sys_write, Writes
  <1> QED
    BY <1>3, <1>4

\* read() from the console in either convention.
LEMMA ConsoleReads ==
  ASSUME NEW self, NEW ctx, NEW buf \in Word, NEW len \in Word, len < USER_SPACE_VA, len > 0, ctx.r7 = 3,
         \/ ctx.r0 = buf /\ ctx.r1 = len /\ ctx.r2 = 0
         \/ ctx.r0 = 0 /\ ctx.r1 = buf /\ ctx.r2 = len
  PROVE  Delivers(svc_handler(self, ctx), "uart_getc", <<buf>>, Inside(buf, len))
  <1>1. Valid(buf, len) <=> Inside(buf, len)
    BY PointerCheckExact
  <1>2. svc_handler(self, ctx) = sys_read(ctx)
    BY Zenon, Dispatch
  <1>3. len # 0
    BY Numbers DEF Word
  <1>4. CASE ctx.r0 = buf /\ ctx.r1 = len /\ ctx.r2 = 0
    <2>1. ~Valid(len, 0)
      BY SmallIsInvalid, Numbers
    <2>2. Forms(ctx, 0) = IF Valid(buf, len) THEN [ok |-> TRUE, fd |-> 0, buf |-> buf, len |-> len]
                          ELSE [ok |-> FALSE, fd |-> buf, buf |-> len, len |-> 0]
      BY Zenon, <1>4, <2>1 DEF Forms, Valid
    <2> QED
      BY <1>1, <1>2, <1>3, <2>2 DEF sys_read, Delivers
  <1>5. CASE ctx.r0 = 0 /\ ctx.r1 = buf /\ ctx.r2 = len
    <2>1. ~Valid(0, buf)
      BY SmallIsInvalid, Numbers
    <2>2. Forms(ctx, 0) = [ok |-> Valid(buf, len), fd |-> 0, buf |-> buf, len |-> len]
      BY <1>5, <2>1 DEF Forms
    <2> QED
      BY <1>1, <1>2, <1>3, <2>2 DEF sys_read, Delivers
  <1> QED
    BY <1>4, <1>5

\* A transfer of a buffer reaches its kernel function with the descriptor,
\* the address and the length as given, or is refused as a bad pointer.
LEMMA Transfers ==
  ASSUME NEW self, NEW fd \in Word, NEW buf \in Word, NEW len \in Word, NEW rest \in Word
  PROVE  TransfersArrive(self, fd, buf, len, rest)
  <1> SUFFICES ASSUME fd < USER_SPACE_VA, len < USER_SPACE_VA
               PROVE  /\ fd \notin {1, 2} => Delivers(write(self, fd, buf, len, rest), "vfs_write", <<fd, buf, len>>, Inside(buf, len))
                      /\ fd # 0 => Delivers(read(self, fd, buf, len, rest), "vfs_read", <<fd, buf, len>>, Inside(buf, len))
                      /\ fd \in {1, 2} => Writes(write(self, fd, buf, len, rest), buf, len)
                      /\ len > 0 => Delivers(read(self, 0, buf, len, rest), "uart_getc", <<buf>>, Inside(buf, len))
                      /\ fd \in {1, 2} => Writes(svc_handler(self, Svc(0, <<fd, buf, len>>, rest)), buf, len)
                      /\ len > 0 => Delivers(svc_handler(self, Svc(3, <<0, buf, len>>, rest)), "uart_getc", <<buf>>, Inside(buf, len))
    BY DEF TransfersArrive
  <1>1. fd \notin {1, 2} => Delivers(write(self, fd, buf, len, rest), "vfs_write", <<fd, buf, len>>, Inside(buf, len))
    BY FileTransfers DEF write
  <1>2. fd # 0 => Delivers(read(self, fd, buf, len, rest), "vfs_read", <<fd, buf, len>>, Inside(buf, len))
    BY FileTransfers DEF read
  <1>3. Writes(ToKernel(self, "sys_write", <<buf, len>>, rest), buf, len)
    <2> DEFINE ctx == Svc(0, <<buf, len>>, 0)
    <2>1. ctx.r7 = 0 /\ ctx.r0 = buf /\ ctx.r1 = len /\ ctx.r2 = 0
      BY DEF Svc
    <2>2. ToKernel(self, "sys_write", <<buf, len>>, rest) = svc_handler(self, ctx)
      BY Loads DEF ToKernel
    <2> HIDE DEF ctx
    <2> QED
      BY <2>1, <2>2, ConsoleWrites
  <1>4. len > 0 => Delivers(ToKernel(self, "sys_read", <<buf, len>>, rest), "uart_getc", <<buf>>, Inside(buf, len))
    <2> DEFINE ctx == Svc(3, <<buf, len>>, 0)
    <2>1. ctx.r7 = 3 /\ ctx.r0 = buf /\ ctx.r1 = len /\ ctx.r2 = 0
      BY DEF Svc
    <2>2. ToKernel(self, "sys_read", <<buf, len>>, rest) = svc_handler(self, ctx)
      BY Loads DEF ToKernel
    <2> HIDE DEF ctx
    <2> QED
      BY <2>1, <2>2, ConsoleReads
  <1>5. fd \in {1, 2} => Writes(svc_handler(self, Svc(0, <<fd, buf, len>>, rest)), buf, len)
    <2> DEFINE ctx == Svc(0, <<fd, buf, len>>, rest)
    <2>1. ctx.r7 = 0 /\ ctx.r0 = fd /\ ctx.r1 = buf /\ ctx.r2 = len
      BY DEF Svc
    <2> HIDE DEF ctx
    <2>2. fd \in {1, 2} => Writes(svc_handler(self, ctx), buf, len)
      BY <2>1, ConsoleWrites
    <2> QED
      BY <2>2 DEF ctx
  <1>6. len > 0 => Delivers(svc_handler(self, Svc(3, <<0, buf, len>>, rest)), "uart_getc", <<buf>>, Inside(buf, len))
    <2> DEFINE ctx == Svc(3, <<0, buf, len>>, rest)
    <2>1. ctx.r7 = 3 /\ ctx.r0 = 0 /\ ctx.r1 = buf /\ ctx.r2 = len
      BY DEF Svc
    <2> HIDE DEF ctx
    <2>2. len > 0 => Delivers(svc_handler(self, ctx), "uart_getc", <<buf>>, Inside(buf, len))
      BY <2>1, ConsoleReads
    <2> QED
      BY <2>2 DEF ctx
  <1>7. fd \in {1, 2} => Writes(write(self, fd, buf, len, rest), buf, len)
    BY <1>3 DEF write
  <1>8. len > 0 => Delivers(read(self, 0, buf, len, rest), "uart_getc", <<buf>>, Inside(buf, len))
    BY <1>4 DEF read
  <1> QED
    BY <1>1, <1>2, <1>5, <1>6, <1>7, <1>8

\* A call with a path reaches its kernel function exactly when MAX_PATH bytes
\* from the path on are user memory.
LEMMA FileCallsReach ==
  ASSUME NEW self, NEW path \in Word, NEW other \in Word, NEW rest \in Word
  PROVE  FileCallsArrive(self, path, other, rest)
  <1>1. (Valid(path, MAX_PATH) <=> Inside(path, MAX_PATH)) /\ (Valid(other, MAX_PATH) <=> Inside(other, MAX_PATH))
    BY PointerCheckExact, Numbers
  <1>2. Passes.open = "sys_open" /\ Passes.execve = "sys_exec" /\ Passes.close = "sys_close" /\ Passes.dup = "sys_dup" /\ Passes.dup2 = "sys_dup2"
    BY Zenon DEF Passes
  <1>3. ToKernel(self, Passes.open, <<path, other>>, rest) = (IF ~Valid(path, MAX_PATH) THEN Fails(E.PTR) ELSE Calls("vfs_open", <<path, other>>))
    <2> DEFINE ctx == Svc(6, <<path, other>>, 0)
    <2>1. ctx.r7 = 6 /\ ctx.r0 = path /\ ctx.r1 = other
      BY DEF Svc
    <2>2. ToKernel(self, Passes.open, <<path, other>>, rest) = svc_handler(self, ctx)
      BY Loads, <1>2 DEF ToKernel
    <2> HIDE DEF ctx
    <2> QED
      BY Zenon, <2>1, <2>2, Dispatch DEF sys_open
  <1>4. ToKernel(self, Passes.execve, <<path, other>>, rest) = (IF ~Valid(path, MAX_PATH) THEN Fails(E.PTR) ELSE Calls("do_exec", <<path, other>>))
    <2> DEFINE ctx == Svc(10, <<path, other>>, 0)
    <2>1. ctx.r7 = 10 /\ ctx.r0 = path /\ ctx.r1 = other
      BY DEF Svc
    <2>2. ToKernel(self, Passes.execve, <<path, other>>, rest) = svc_handler(self, ctx)
      BY Loads, <1>2 DEF ToKernel
    <2> HIDE DEF ctx
    <2> QED
      BY Zenon, <2>1, <2>2, Dispatch DEF sys_exec_handler
  <1>5. unlink(self, path, rest) = (IF ~Valid(path, MAX_PATH) THEN Fails(E.PTR) ELSE Calls("vfs_unlink", <<path>>))
    <2> DEFINE ctx == Svc(20, <<path>>, rest)
    <2>1. ctx.r7 = 20 /\ ctx.r0 = path
      BY DEF Svc
    <2>2. unlink(self, path, rest) = svc_handler(self, ctx)
      BY DEF unlink, rename
    <2> HIDE DEF ctx
    <2> QED
      BY Zenon, <2>1, <2>2, Dispatch
  <1>6. rename(self, path, other, rest) = (IF ~Valid(path, MAX_PATH) \/ ~Valid(other, MAX_PATH) THEN Fails(E.PTR)
                                     ELSE Calls("vfs_rename", <<path, other>>))
    <2> DEFINE ctx == Svc(21, <<path, other>>, rest)
    <2>1. ctx.r7 = 21 /\ ctx.r0 = path /\ ctx.r1 = other
      BY DEF Svc
    <2>2. rename(self, path, other, rest) = svc_handler(self, ctx)
      BY DEF unlink, rename
    <2> HIDE DEF ctx
    <2> QED
      BY Zenon, <2>1, <2>2, Dispatch
  <1>7. ToKernel(self, Passes.close, <<other>>, rest) = Calls("vfs_close", <<other>>)
    <2> DEFINE ctx == Svc(8, <<other>>, 0)
    <2>1. ctx.r7 = 8 /\ ctx.r0 = other
      BY DEF Svc
    <2>2. ToKernel(self, Passes.close, <<other>>, rest) = svc_handler(self, ctx)
      BY Loads, <1>2 DEF ToKernel
    <2> HIDE DEF ctx
    <2> QED
      BY Zenon, <2>1, <2>2, Dispatch DEF sys_close
  <1>8. ToKernel(self, Passes.dup, <<other>>, rest) = Calls("vfs_dup", <<other>>)
    <2> DEFINE ctx == Svc(17, <<other>>, rest)
    <2>1. ctx.r7 = 17 /\ ctx.r0 = other
      BY DEF Svc
    <2>2. ToKernel(self, Passes.dup, <<other>>, rest) = svc_handler(self, ctx)
      BY Loads, <1>2 DEF ToKernel
    <2> HIDE DEF ctx
    <2> QED
      BY Zenon, <2>1, <2>2, Dispatch
  <1>9. ToKernel(self, Passes.dup2, <<path, other>>, rest) = Calls("vfs_dup2", <<path, other>>)
    <2> DEFINE ctx == Svc(18, <<path, other>>, rest)
    <2>1. ctx.r7 = 18 /\ ctx.r0 = path /\ ctx.r1 = other
      BY DEF Svc
    <2>2. ToKernel(self, Passes.dup2, <<path, other>>, rest) = svc_handler(self, ctx)
      BY Loads, <1>2 DEF ToKernel
    <2> HIDE DEF ctx
    <2> QED
      BY Zenon, <2>1, <2>2, Dispatch
  <1> QED
    BY <1>1, <1>3, <1>4, <1>5, <1>6, <1>7, <1>8, <1>9 DEF FileCallsArrive, Delivers

\* A call that fills a table reaches its kernel function exactly when a table
\* of the size that was tested lies in user memory: the size itself, unless
\* the product wraps.
LEMMA ReportsReach ==
  ASSUME NEW self, NEW path \in Word, NEW buf \in Word, NEW count \in Word, NEW rest \in Word
  PROVE  ReportsArrive(self, path, buf, count, rest)
  <1>1. count \in Nat /\ ADDRESSES \in Nat \ {0} /\ count * 40 \in Nat /\ count * 36 \in Nat
    BY Numbers DEF Word
  <1>2. /\ AsWord(count * 40) = Table(count, 40) /\ Table(count, 40) \in Word
        /\ AsWord(count * 36) = Table(count, 36) /\ Table(count, 36) \in Word
    <2>1. ASSUME NEW n \in Nat
          PROVE  n % ADDRESSES \in Word /\ (n < ADDRESSES => n % ADDRESSES = n)
      BY <1>1, Wraps DEF Word
    <2> QED
      BY <1>1, <2>1 DEF AsWord, Table
  <1>4. /\ Valid(buf, Table(count, 40)) <=> Inside(buf, AsWord(count * 40))
        /\ Valid(buf, Table(count, 36)) <=> Inside(buf, AsWord(count * 36))
        /\ Valid(buf, 24) <=> Inside(buf, 24)
        /\ Valid(path, MAX_PATH) <=> Inside(path, MAX_PATH)
    BY <1>2, PointerCheckExact, Numbers
  <1>5. ToKernel(self, "sys_get_tasks", <<buf, count>>, rest) = (IF ~Valid(buf, Table(count, 40)) THEN Fails(E.PTR)
           ELSE Calls("scheduler_get_tasks", <<buf, count>>))
    <2> DEFINE ctx == Svc(4, <<buf, count>>, 0)
    <2>1. ctx.r7 = 4 /\ ctx.r0 = buf /\ ctx.r1 = count
      BY DEF Svc
    <2>2. ToKernel(self, "sys_get_tasks", <<buf, count>>, rest) = svc_handler(self, ctx)
      BY Loads DEF ToKernel
    <2> HIDE DEF ctx
    <2>3. svc_handler(self, ctx) = sys_get_tasks(ctx)
      BY Zenon, <2>1, Dispatch
    <2> QED
      BY Zenon, <2>1, <2>2, <2>3, Numbers DEF sys_get_tasks
  <1>6. ToKernel(self, "sys_devlist", <<buf, count>>, rest) = (IF ~Valid(buf, Table(count, 40)) THEN Fails(E.PTR)
           ELSE Calls("platform_list_devices", <<buf, count>>))
    <2> DEFINE ctx == Svc(19, <<buf, count>>, rest)
    <2>1. ctx.r7 = 19 /\ ctx.r0 = buf /\ ctx.r1 = count
      BY DEF Svc
    <2>2. ToKernel(self, "sys_devlist", <<buf, count>>, rest) = svc_handler(self, ctx)
      BY Loads DEF ToKernel
    <2> HIDE DEF ctx
    <2>3. svc_handler(self, ctx) = IF ~Valid(ctx.r0, Table(ctx.r1, sizeof.dev_info_t)) THEN Fails(E.PTR)
                                   ELSE Calls("platform_list_devices", <<ctx.r0, ctx.r1>>)
      BY Zenon, <2>1, Dispatch
    <2> QED
      BY Zenon, <2>1, <2>2, <2>3, Numbers
  <1>7. ToKernel(self, "sys_listdir", <<path, buf, count>>, rest) = (IF ~Valid(path, MAX_PATH) \/ ~Valid(buf, Table(count, 36)) THEN Fails(E.PTR)
           ELSE Calls("vfs_listdir", <<path, buf, count>>))
    <2> DEFINE ctx == Svc(9, <<path, buf, count>>, 0)
    <2>1. ctx.r7 = 9 /\ ctx.r0 = path /\ ctx.r1 = buf /\ ctx.r2 = count
      BY DEF Svc
    <2>2. ToKernel(self, "sys_listdir", <<path, buf, count>>, rest) = svc_handler(self, ctx)
      BY Loads DEF ToKernel
    <2> HIDE DEF ctx
    <2>3. svc_handler(self, ctx) = sys_listdir(ctx)
      BY Zenon, <2>1, Dispatch
    <2> QED
      BY Zenon, <2>1, <2>2, <2>3, Numbers DEF sys_listdir
  <1>8. ToKernel(self, "sys_get_meminfo", <<buf>>, rest) = (IF ~Valid(buf, 24) THEN Fails(E.PTR) ELSE Calls("meminfo", <<buf>>))
    <2> DEFINE ctx == Svc(5, <<buf>>, 0)
    <2>1. ctx.r7 = 5 /\ ctx.r0 = buf
      BY DEF Svc
    <2>2. ToKernel(self, "sys_get_meminfo", <<buf>>, rest) = svc_handler(self, ctx)
      BY Loads DEF ToKernel
    <2> HIDE DEF ctx
    <2>3. svc_handler(self, ctx) = sys_get_meminfo(ctx)
      BY Zenon, <2>1, Dispatch
    <2> QED
      BY Zenon, <2>1, <2>2, <2>3, Numbers DEF sys_get_meminfo
  <1> QED
    BY <1>4, <1>5, <1>6, <1>7, <1>8, Numbers DEF ReportsArrive, Delivers

\* The calls on processes: a signal becomes an exit code above 128, and
\* wait() stores the status exactly when its pointer is in user memory.
LEMMA ProcessCallsReach ==
  ASSUME NEW self, NEW pid \in Word, NEW arg \in Word, NEW rest \in Word
  PROVE  ProcessCallsArrive(self, pid, arg, rest)
  <1>1. Passes.fork = "sys_fork" /\ Passes._exit = "sys_exit"
    BY DEF Passes
  <1>2. ToKernel(self, Passes.fork, <<>>, rest) = Calls("do_fork", <<>>)
    <2> DEFINE ctx == Svc(12, <<>>, rest)
    <2>1. ctx.r7 = 12
      BY DEF Svc
    <2>2. ToKernel(self, Passes.fork, <<>>, rest) = svc_handler(self, ctx)
      BY Loads, <1>1 DEF ToKernel
    <2> HIDE DEF ctx
    <2> QED
      BY Zenon, <2>1, <2>2, Dispatch
  <1>3. ToKernel(self, Passes._exit, <<arg>>, rest) =
          (IF self = INIT_PID THEN Calls("restart_init", <<>>) ELSE Calls("do_exit", <<arg>>))
    <2> DEFINE ctx == Svc(1, <<arg>>, 0)
    <2>1. ctx.r7 = 1 /\ ctx.r0 = arg
      BY DEF Svc
    <2>2. ToKernel(self, Passes._exit, <<arg>>, rest) = svc_handler(self, ctx)
      BY Loads, <1>1 DEF ToKernel
    <2> HIDE DEF ctx
    <2> QED
      BY Zenon, <2>1, <2>2, Dispatch DEF sys_exit
  <1>4. ToKernel(self, "sys_yield", <<>>, rest) = Calls("scheduler_yield", <<>>)
    <2> DEFINE ctx == Svc(2, <<>>, 0)
    <2>1. ctx.r7 = 2
      BY DEF Svc
    <2>2. ToKernel(self, "sys_yield", <<>>, rest) = svc_handler(self, ctx)
      BY Loads DEF ToKernel
    <2> HIDE DEF ctx
    <2> QED
      BY Zenon, <2>1, <2>2, Dispatch
  <1>5. ToKernel(self, "sys_getpid", <<>>, rest) = Calls("pid", <<>>)
    <2> DEFINE ctx == Svc(14, <<>>, rest)
    <2>1. ctx.r7 = 14
      BY DEF Svc
    <2>2. ToKernel(self, "sys_getpid", <<>>, rest) = svc_handler(self, ctx)
      BY Loads DEF ToKernel
    <2> HIDE DEF ctx
    <2> QED
      BY Zenon, <2>1, <2>2, Dispatch
  <1>6. ToKernel(self, "sys_getppid", <<>>, rest) = Calls("ppid", <<>>)
    <2> DEFINE ctx == Svc(15, <<>>, rest)
    <2>1. ctx.r7 = 15
      BY DEF Svc
    <2>2. ToKernel(self, "sys_getppid", <<>>, rest) = svc_handler(self, ctx)
      BY Loads DEF ToKernel
    <2> HIDE DEF ctx
    <2> QED
      BY Zenon, <2>1, <2>2, Dispatch
  <1>7. ASSUME NEW p
        PROVE  kill(self, p, arg, rest) = Calls("do_kill_by_pid", <<p, ExitCode(arg)>>)
    <2> DEFINE ctx == Svc(16, <<p, arg>>, rest)
    <2>1. ctx.r7 = 16 /\ ctx.r0 = p /\ ctx.r1 = arg
      BY DEF Svc
    <2>2. kill(self, p, arg, rest) = svc_handler(self, ctx)
      BY Loads DEF kill, ToKernel
    <2> HIDE DEF ctx
    <2> QED
      BY Zenon, <2>1, <2>2, Dispatch
  <1>8. waitpid(self, ADDRESSES - 1, arg, rest) = Calls("do_wait", StatusTo(arg))
    <2> DEFINE ctx == Svc(13, <<arg>>, rest)
    <2>1. ctx.r7 = 13 /\ ctx.r0 = arg
      BY DEF Svc
    <2>2. waitpid(self, ADDRESSES - 1, arg, rest) = svc_handler(self, ctx)
      BY Loads DEF waitpid, ToKernel
    <2> HIDE DEF ctx
    <2> QED
      BY Zenon, <2>1, <2>2, Dispatch
  <1>9. ExitCode(arg) > 128
    BY Numbers DEF ExitCode, Word
  <1>10. StatusTo(arg) = IF Inside(arg, 4) THEN <<arg>> ELSE <<>>
    <2>1. Valid(arg, 4) <=> Inside(arg, 4)
      BY PointerCheckExact, Numbers
    <2>2. Inside(arg, 4) => arg # 0
      BY Numbers DEF Inside, Word
    <2> QED
      BY <2>1, <2>2, Numbers DEF StatusTo
  <1>11. /\ kill(self, pid, arg, rest).fn = "do_kill_by_pid" /\ kill(self, pid, arg, rest).args[1] = pid
         /\ kill(self, pid, arg, rest).args[2] = ExitCode(arg)
    BY <1>7 DEF Calls
  <1>12. raise(self, arg, rest).args[1] = self
    BY <1>7 DEF raise, Calls
  <1> QED
    BY <1>2, <1>3, <1>4, <1>5, <1>6, <1>8, <1>9, <1>10, <1>11, <1>12, Numbers DEF ProcessCallsArrive

\* The system calls of a program: whatever words it passes, each function of
\* vinixlibc reaches the kernel function it is for with its arguments as given
\* (_exit() of the first process, the restart of its program), and a path, a
\* buffer or a table that is not in user memory is refused.  A table counts
\* with its size modulo ADDRESSES, and reads and writes are those of
\* descriptors and lengths below the addresses of user memory.
THEOREM AllCallsReach ==
  \A self \in Nat : \A x, y, z, rest \in Word : CallsReach(self, x, y, z, rest)
  BY Transfers, FileCallsReach, ReportsReach, ProcessCallsReach DEF CallsReach

\* Every error code of the kernel reaches a program as -1 and the POSIX name
\* for it.
THEOREM AllErrorsReach == ErrorsReach
  <1> DEFINE codes == {"FAIL", "INVAL", "ARG", "PTR", "PERM", "NOENT", "BADF", "MFILE"}
  <1>1. DOMAIN ErrnoNames = codes
    BY DEF ErrnoNames
  <1>2. /\ E["FAIL"] = -1 /\ E["INVAL"] = -2 /\ E["ARG"] = -3 /\ E["PTR"] = -4
        /\ E["PERM"] = -5 /\ E["NOENT"] = -6 /\ E["BADF"] = -7 /\ E["MFILE"] = -8
    BY DEF E
  <1>3. /\ user_E.INVAL = -2 /\ user_E.ARG = -3 /\ user_E.PTR = -4
        /\ user_E.PERM = -5 /\ user_E.NOENT = -6 /\ user_E.BADF = -7 /\ user_E.MFILE = -8
    BY DEF user_E
  <1>4. set_errno_from(-1) = [value |-> -1, errno |-> "EIO"] /\ ErrnoNames["FAIL"] = "EIO"
    BY <1>3 DEF set_errno_from, ErrnoNames
  <1>5. set_errno_from(-2) = [value |-> -1, errno |-> "EINVAL"] /\ ErrnoNames["INVAL"] = "EINVAL"
    BY <1>3 DEF set_errno_from, ErrnoNames
  <1>6. set_errno_from(-3) = [value |-> -1, errno |-> "EINVAL"] /\ ErrnoNames["ARG"] = "EINVAL"
    BY <1>3 DEF set_errno_from, ErrnoNames
  <1>7. set_errno_from(-4) = [value |-> -1, errno |-> "EFAULT"] /\ ErrnoNames["PTR"] = "EFAULT"
    BY <1>3 DEF set_errno_from, ErrnoNames
  <1>8. set_errno_from(-5) = [value |-> -1, errno |-> "EACCES"] /\ ErrnoNames["PERM"] = "EACCES"
    BY <1>3 DEF set_errno_from, ErrnoNames
  <1>9. set_errno_from(-6) = [value |-> -1, errno |-> "ENOENT"] /\ ErrnoNames["NOENT"] = "ENOENT"
    BY <1>3 DEF set_errno_from, ErrnoNames
  <1>10. set_errno_from(-7) = [value |-> -1, errno |-> "EBADF"] /\ ErrnoNames["BADF"] = "EBADF"
    BY <1>3 DEF set_errno_from, ErrnoNames
  <1>11. set_errno_from(-8) = [value |-> -1, errno |-> "EMFILE"] /\ ErrnoNames["MFILE"] = "EMFILE"
    BY <1>3 DEF set_errno_from, ErrnoNames
  <1> QED
    BY <1>1, <1>2, <1>4, <1>5, <1>6, <1>7, <1>8, <1>9, <1>10, <1>11 DEF ErrorsReach
=============================================================================
