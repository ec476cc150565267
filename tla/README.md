# VinixOS in TLA+

VinixOS is a small operating system for the BeagleBone Black (ARMv7-A, one
CPU): a kernel in C and assembly (`src/VinixOS/kernel`), a boot loader, a
userspace (libc, init, shell, commands) and a subset-C compiler
(`src/CrossCompiler`).  This directory holds TLA+ models of its parts, the TLC
configurations that check them and TLAPS proofs.  `PROJECT.json` lists
components, runs, mutants, the source lines each definition models, hazards and
theorems.

## 1. The system

| Part | State | Operations | Interacts with |
|---|---|---|---|
| scheduler (`scheduler.c`, `idle.c`, `context_switch.S`) | `tasks[]`, `task_count`, `current_task`, `current_task_index`, `need_reschedule` | add, yield, tick, release of a slot | every blocking call, timer |
| processes (`fork.c`, `wait.c`, `exec.c`) | `task_struct`, `parent_wq` | fork, exec, exit, wait, kill | scheduler, page allocator, VFS |
| wait queues (`wait_queue.h`, `wait_queue.c`) | intrusive lists through `wait_next` | `wait_event`, `wake_up` | UART interrupt, wait() |
| exceptions (`exception_entry.S`, `exception_handlers.c`, `svc_handler.c`) | CPSR.I | SVC, abort and IRQ entry | all system calls |
| memory (`page_alloc.c`, `slab.c`, `vmm.c`, `mmu.c`) | page bitmap, slab lists, page tables | alloc, free, map | fork, wait, exec |
| block layer (`buffer_cache.c`, `block.c`, `mbr.c`, `mmc.c`) | 64 cached sectors | bread, bmark_dirty, bsync | FAT32, SD card |
| files (`vfs.c`, `fat32.c`, `devfs.c`, `procfs.c`) | mounts, fd tables, FAT, directory | open ... rename | system calls, buffer cache |
| UART (`uart.c`) | receive ring | interrupt, getc | sys_read, tty |
| network (`cpsw.c`, `netcore.c`) | descriptors, ARP cache, sockets | poll, send, ping | idle loop |
| boot loader and start-up (`bootloader`, `entry`, `main.c`, drivers' probes) | clocks, page tables, SD card | one long sequence with waits and failures | everything after it |
| display (`i2c.c`, `tda19988.c`, `lcdc.c`, `fb.c`) | framer registers, raster timing, frame, console | set-up, drawing, scrolling | start-up, boot screen |
| userspace (`vinixlibc`, `init`, `shell`) | heap, FILE table | malloc, stdio, spawn | system calls |
| compiler (`CrossCompiler`) | symbol tables, IR | lex ... link | none at run time |

The kernel is cooperative: the tick interrupt only sets `need_reschedule`, and
tasks are switched nowhere but in `scheduler_yield()`, called by the running
task.  What makes it hard is therefore not preemption but interrupts between
any two kernel instructions, blocking calls that hand over half-finished work,
and memory (task_structs, slots, pages, buffers) that is recycled while
somebody may still point to it.

## 2. The modules

A component's module holds its state, one action per operation and its
properties; `MC...` modules give the constants of an instance where a module has
none to run by itself; `...Proofs` hold theorems with their proofs.  Definitions
keep the names of the source where they translate a function of it;
`PROJECT.json` maps each to its lines.

**Process core.** `Process` is the task table, `scheduler_yield()`, wait queues,
fork, exit, wait, kill, the fault handlers and the idle loop, with the tick and
the UART interrupt between any two steps.  `pc` of a task stands for the
continuation on its kernel stack.  A task_struct is an address from a LIFO free
list whose contents survive `kfree()`, so a pointer left on a queue can come to
denote another process.  `Cpu` is the assembly below it: `exception_entry.S` and
`context_switch.S` instruction by instruction, with banked registers, the frames
on each stack, the page table base and the TLB.

**Memory.** `Memory` is the page bitmap, the slab caches and everything that
takes memory from them: fork, the reaper, page directories, address spaces.
Each call is one step, since none yields and no interrupt handler allocates.

**Block and file layers.** `SectorStore` says what a cache of sectors promises;
`BufferCache` is `buffer_cache.c`, over a card that may refuse any transfer and
a power supply that may fail.  `FileStore` says what named files with handles
promise; `Fat32` is `fat32.c` under the descriptors of `vfs.c`, with both copies
of the allocation table; `FatNames` holds its name conversions.  `Vfs` resolves
paths (mounts, devices, `/proc`); `Files` puts the streams of `vinixlibc` over
descriptors, in several processes that fork and exit, with the FAT volume as
`FileStore` promises it and the virtual file systems as their code has them.

**System calls.** `Syscalls` is the way of a call from `vinixlibc` through the
wrappers of `syscall.c` into `svc_handler()` and of its result back: which
function of the kernel is called with which words, or which error is returned.
`Directories` is what the kernel reports of its tables (the boot sector, chains
and subdirectories of a FAT volume, `listdir()` of each file system, the lists of
tasks and devices) with `ls`, `ps` and `lsdev` on top.  `Terminal` is what
appears on the screen: line editing and output of the shell, `tty`, `cat` and
`free`.

**Programs.** `Exec` is `do_exec()` with a failure possible at each step;
`Shell` composes it with the shell's parsing, redirections, built-ins, fork and
wait, and with init's respawn.  `Heap` is malloc/free/realloc on the header
words of the pool, left-over words included; `Format` the three printf engines,
`strtol()`, `itoa()` and the numbers of `reflibc`.  `Bytes` has the string
functions of the three libraries over a memory of bytes.

**Network.** `Net` is the CPSW driver with its one descriptor per direction, and
ARP, IPv4, ICMP and UDP.  Its variable `stack` is the C stack: the code polls
the receiver from inside a receive handler.  `Bytes` has the Ethernet frame and
the checksum.

**Start-up.** `Loader`, `Bringup` and `Display` give the functions of the boot
loader, of the kernel's start and of the display path as sequences of
operations (module `BootOps` names them); `SdCard` is the card; `Boot` is the
processor that runs them on the board: clocks, resets, page tables, stacks,
vectors, timeouts.  `Frame` is the frame buffer: shapes, text, console.

**Compiler.** `Lexer` (characters to tokens, `#include`), `Parser`, `Analyzer`,
`IRGenerator`, `CodeGenerator` follow the Python sources; `Grammar` is the
grammar of the parser's docstrings, with the comma the parser also takes after
the last parameter, as a set of derivations; `Meaning` evaluates
a syntax tree; `Compiler` runs the phases, links `crt0.S` and `divmod.S` and
executes the result on an ARMv7-A processor of `WORD` bits.

`MCConversions` feeds the pure modules (`FatNames`, `Vfs`, `Format`, `Bytes`,
`Lexer`, `Frame`, `Heap`, `Syscalls`, `Directories`, `Terminal`) with all inputs up
to a length, one state per input, and compares them with reference definitions
of another shape.

## 3. The runs

`tlc -config <cfg> <module>` in this directory.

| Run | Instance | What it shows |
|---|---|---|
| `process_full` | 4 slots, 2 dynamic task_structs, ring of 2, every system call and faults | the scheduler always finds a task; slots, pids, counts and free list agree; at most one task runs and no yield falls through the gate |
| `process_live` | the same without kill and faults, with fairness | queues hold exactly the blocked tasks; no wake-up is lost; READY tasks run; reads and waits return |
| `cpu` | idle, init, two forked tasks, one user fault | every task finds registers, stack and address space as it left them, and a program runs with interrupts enabled; when a program or idle runs, its kernel stack is unwound and no interrupt is unacknowledged |
| `memory_full` | 13 pages, 2 processes, 1 address space | every page and object has one holder or is free; no assertion of `free_pages()` or `kfree()` fails |
| `cache_full` | 2 buffers, 4 sectors, 2 values, ticks modulo 6 that wrap again and again | one buffer a sector; clean means on the card; the newest buffer is evicted after those used since the last wrap of the counter; the cache implements `SectorStore` |
| `fs` | 2 descriptors, 2 names, 3 clusters of 2 units, 2 entries | every cluster is free or in one file, in both copies of the table; directory and file table agree; reads return the chain; the driver implements `FileStore` |
| `files` | 2 processes, 6 descriptors, 2 streams each, card of 4 bytes, 4 calls; a file that cannot be created or truncated | streams and descriptors stay in step; what goes through a stream is a run of the file |
| `shell_full` | lines of up to 6 tokens, every failure of open, fork, exec | descriptors are balanced; arguments arrive; the prompt comes back, except after `kill` of a process that is no child of the shell and during `cat` of the terminal |
| `net_full` | 3 peers, 2 cache entries, nesting of 3, ticks modulo 3 | one ARP entry a host; a ping ends by a reply of its number heard since it began; echoes are sent as given |
| `boot` | each card, image and partition table; one lost answer, failed transfer or odd event | no abort; the loader jumps only into tested memory that holds all it asked for and begins with a branch, which is the kernel if the card has one and its answer "ready" was heard; transfers move the sector asked for, or 512 times its number when that answer was lost; the first task finds what it needs; timing registers agree with the mode; the start ends |
| `compiler` | texts of 4 tokens in a `main()`, pairs of operators, pairs of fragments | the front end accepts exactly the texts of the grammar that are well scoped, and groups operators as the manual's table does but for the pairs in `Departures`; compiled programs end with the value of their source |
| `conversions` | all inputs up to the lengths in the cfg, a pool of 8 units, addresses modulo 8192 | names and paths convert back; printed numbers read back, texts are cut into longest tokens (the manual's character escapes are none of them), headers are expanded once, strings and frames are copied exactly, the terminal shows what was typed and printed; reports list what the tables hold, up to the room of `ls`, `ps` and `devlist`; calls reach the kernel function they are for; shapes and console are pixel-exact; the heap partitions its pool |

**Bounds and why they are enough.** Tables are one larger or smaller than the
number of users, so that they run out and are recycled (slots, task_structs,
descriptors, buffers, clusters, directory entries, cache entries, pages).  Two
forked processes allow a process, its child and an unrelated one.  Counters that
wrap (`TICKS`, `TickMod`) have a small modulus and pass through it; the tables of
`ls`, `ps` and `devlist` (`SHELL_FILES` and the like) are smaller than what they
list in some inputs and larger in others; `max_entries`, the number of entries of
the allocation table, leaves three clusters; `WORD`,
`BITS` and `FB_BITS` are the width of a word, small enough for all values at the
edges.  Fonts of 2x2 cells on an odd width make every alignment of a row happen.
`MaxDepth`, `MaxCalls`, `MaxTokens`, `MAX_FAULTS`, `MAX_CALLS`, `Rounds` bound
the length of behaviours; each property has a mutation of the code that TLC
catches within the same bounds.

**Deadlock** is checked except where the system may stop: `process_full` (a
killed task can end in the loop of `do_exit()`), `boot` (a board whose hardware
is missing stops with a message, and the transfers after the start are bounded),
`files` and `conversions` (bounded numbers of calls and inputs).

**Fairness.** `process_live` assumes that kernel code runs on, that the timer
keeps ticking and that user programs keep making system calls, and that a task
which can yield again and again does so (strong fairness): nothing preempts a
program, and the code makes no promise to others when one computes for ever
(`PreemptiveSpec` shows that).  `shell_full` assumes that the shell goes on once
a line is typed, not that lines are typed.  `compiler` and `boot` assume that the
processor takes its next step; events of the hardware are not assumed to come.

## 4. What is proved

For every value of the constants, under the named assumptions of the modules,
which say no more than that sizes are positive numbers and that reserved names
are not tasks:

* `ProcessProofs`: type correctness, `IdleIsAlwaysReady`, `SchedulerFindsTask`,
  `TableConsistent`, `RunnerSound`.
* `WaitQueueProofs`: `QueueDiscipline` and `NoLostWakeUp`, for workloads without
  `kill()`.
* `CpuProofs`: `ContextKept` (a program runs unmasked with what it had) and
  `NothingLeftBehind` (unwound stack, nothing unacknowledged; idle may run
  masked), when `Evicts` is FALSE.
* `MemoryProofs`: `MemoryAccounted` and `NoAssertFails`.
* `BufferCacheProofs`: `OneBuffer`, `CleanMeansOnCard`, `NewestIsLast`
  (through any number of wraps, of the buffers used since the last one), and
  `CacheImplementsStore`: initial states map to initial
  states of `SectorStore`, every step to a step or a stutter.
* `NetProofs`: `OneEntry`, `PingSound`, `SentAsGiven` (an echo leaves as given; of
  a datagram, that its buffer holds a datagram), and the action property
  `AnswerNeverReturns`.
* `SyscallProofs`: the two tests of user pointers are exact (`PointerCheckExact`,
  `ExecCheckExact`), every call arrives (`AllCallsReach`: for any caller
  and any words, with `_exit()` of the first process restarting its program, and
  the size of a table taken modulo the number of addresses), every error is
  reported (`AllErrorsReach`).

**Process core.** `SchedulerFindsTask` is far from inductive.  That the search
ends with a task rests on the idle task being READY or running at every step,
which in turn rests on idle being on no wait queue and never the target of exit,
kill or a fault, and on the continuation of each task agreeing with its state
(`YieldState`); that a slot is found where the search looks rests on the table
invariant `TableSound` (slots, pids and the free list are disjoint and without
repetition).  `CoreInv` is the conjunction; the proof has one lemma per action
and conjunct, and `Invariance` combines them.

**Wait queues.** A queue is a list through `wait_next`.  The prover has no
induction over lists, so `ChainOf` is the least set that holds the head and is
closed under `wait_next`, and the lemmas say what a push and a pop do to it.
`QInv` adds to the two properties and the invariant of the process core that a
task outside of `scheduler_yield()` is awake, and where a zombie may stand.  The
hypothesis that no program calls `kill()`
is needed: with it both properties are false (section 5).

**Registers and stacks.** The invariant of `Cpu` has to speak of the machine as
it will be after an interrupt handler has returned, at any of its instructions
and on top of any other instruction.  Its predicates are therefore stated of a
`View`, a record of the place, the registers and the depth of the stack: the
machine itself when no interrupt is served, and otherwise the view rebuilt from
what the handler has pushed so far (`Interrupted`).  `Running` says of a view what
the stack of the running task holds at each place and that the stacks of all
other tasks are as `context_switch()` left them (`Saved`, `Stacked`).  There is one
lemma per instruction.  `~Evicts` says that the TLB keeps the entry of init's
stack while `context_switch()` is on it, which the code needs; without it the
property is false (section 5).

**Memory.** `IInv` says which blocks of pages and which slab objects every task
and address space holds, that they are apart, and that the counters are the
cardinalities of these sets.  The lemmas are about the changes the operations
are made of (a block taken or given back, a cache refilled, objects taken or
given back), each for any state, and every operation is a composition of them.
That an assertion of `free_pages()` cannot fail follows from the blocks held
being marked.

**Buffer cache.** The invariant adds that valid buffers have different sectors
and that the stamps of the buffers used since the last wrap (those not in `aged`,
a history variable) are at most the counter.

**Network.** `IInv` relates the C stack to the cache, the buffers and the receive
descriptor.  `AnswerNeverReturns` is the proved form of a defect (section 5): from
the moment an answer to an echo request waits for an address, no step re-arms
the descriptor, for any number of polls.

**System calls.** `Wraps` gives the sum of two words; the pointer test follows by
cases.  `Dispatch` and `Loads` evaluate `svc_handler()` and the wrappers number by
number, and one lemma per group of calls puts them together.

Only model-checked:

* liveness and everything under fairness: the prover has no `ENABLED`;
* the refinement of `FileStore` and the invariants of `Fat32`: chains of clusters
  are recursive, and the prover has no induction over data;
* what recursive definitions compute: the compiler, the parsers, formatting,
  strings, listings, the frame, the heap; `CallsArrive` itself too, since its
  module reaches them, but its content is `AllCallsReach`;
* `Files`, `Shell` and `Boot`: their states are places in long sequences of calls,
  and an inductive invariant would have to describe each place.

## 5. Where the code does not keep what it says

Each of these is a property of its module, or a constant, that TLC refutes; to
reproduce it, add the property to the configuration or change the constant.

| Module | Property or change | What happens |
|---|---|---|
| `Process` | `KillKills` | a task killed in `wait()` is woken by the same kill and lives on |
| `Process` | `ExitNeverReturns`, `InterruptsReturn` | a killed reader stays on the queue, its recycled task_struct is woken in the loop of `do_exit()` |
| `Process` | `OwnChildren`, `WaiterHasChild`, `InitNeverLeaves` | pids are reused while children live; `wait()` without children never returns; init may end |
| `BufferCache` | `DirtyReachesCard` under `KernelSpec` | nothing calls `bsync()` |
| `Fat32` | `FatCopiesAgree` with `Faults <- AnyFault` | the copies of the table differ after a failed access |
| `Fat32` | `DroppedSlotIsDead`, `SlotsAreReused` with removal of open files | descriptors of removed files still write; slots of removed files are never used again |
| `Fat32` | `DirectorySound` with `LongNames` or `DirectoryDir` | a long name, or the name of a directory, is created again at each open |
| `Shell` | `FailureKeepsImage` | `exec()` fails after it has overwritten its caller |
| `Net` | `ResolveHears` | resolution from a receive handler can hear nothing (`AnswersNest` of `NetProofs` proves it); `SentAsGiven` says of a datagram only that the buffer holds one, since a handler called by a poll may have sent another |
| `MCConversions` | `SealedIsAccepted` | `ip_tx()`, `icmp_rx()` and `netcore_ping()` store the sum of `net_cksum()` as it is, low byte first, and `net_cksum()` reads the high byte first: a packet as sent does not pass the test of `ip_rx()` |
| `Process` | `QueueDiscipline`, `NoLostWakeUp` with kill in the workload | a killed task stays on the queue it slept on |
| `Cpu` | `StackVAsStayValid`; `Evicts = TRUE` | the stack of init is unmapped between two instructions of `context_switch()` |
| `Boot` | `Reached(s) == s`; `Unnoticed == {}` in `MCBoot` | when the answer "ready" of an SDHC card is lost, the card is addressed in bytes; two clock timeouts go unnoticed |
| `BufferCache` | `NewestIsLast` with `aged` left out | after a wrap of the counter the buffer just returned is the next victim, where `buffer_cache.h` calls the stamp "monotonically increasing" |
| `Shell` | `PromptReturns` without `kill_wait` | `cmd_kill()` waits for a child although its target was none |
| `Compiler` | `Departures == {}` | `x == y < 2`, `x & y && 2` and the like are grouped as in C, not as in the table of `docs/subset_c_spec.md:245-256` |
| `Display` | faults on the bus while a page is switched | the cached page number is updated although the switch failed |
| `MCConversions` | `Malloc`, `Free` without `Anchored` | the ring of free blocks has no block that stays: when the first block of the pool is handed out and one free block is left, an exact fit is not unlinked and is handed out twice |
| `Files` | streams without the condition `kept` | two appenders overwrite each other; `fopen(..., "w")` empties the file before it fails for want of a descriptor or a FILE |

Smaller things met on the way: the free memory of `sys_get_meminfo()` wraps when
kernel and stacks exceed the total; the size of a table of reports is a product
of 32 bits; a failed read of a FAT sector ends a listing without an error;
`shell_puts()` and `sys_write()` both expand a newline, so that the screen gets
`\r\r\n`; `ls` of the shell stops after 16 entries and the program `ls` after 32
without saying so; `print_hex()` of `reflibc` prints nothing for a negative number and `print_int()`
only the sign of the smallest one; `write()` of `vinixlibc` sends descriptors 1
and 2 to the UART, so that the output of a program cannot be redirected.

The compiler's property is about the part of the language for which it is right
(`Compiler`, the comment above `Supported`).  Outside of it: an operation on two
constants uses the right one twice; the ninth name of a function shares r4
without spill code, where `docs/codegen_strategy.md` speaks of spilling;
parameters stay in r0-r3 and are lost at the next call; nested calls mix their
arguments; a system call overwrites the name in r7; a variable named `t0` shares
the register of the temporary; an inner variable shares the register of the one
it shadows; `&&` and `||` evaluate both sides; array indices are not scaled; `&x` is a copy of x; a
char is not narrowed; character literals have no escapes (`docs/subset_c_spec.md:51-61`
lists them; `EscapeRefused` says what becomes of each); a comma after the last
parameter is accepted; `0x1F` is the number 0 and a name; a stray token at the top level
makes `parse()` loop; `__aeabi_idiv` is wrong for numerators from 2^30 on.

## 6. Not modelled

* Values: register contents, pin multiplexing, packet headers above Ethernet,
  fonts, timing constants other than the raster's, the text of messages.
* FAT32: calls that change files in subdirectories or in directories of several
  clusters (reading them is in `Directories`).
* `getcwd()` and the constant answers of `unistd.c`; the classes of `ctype.c`; the
  programs that are one call and a message (`echo`, `hello`, `kill`, `mv`, `pwd`,
  `rm`, `uname`).
* Byte-level stack depth: init's user stack lies 512 bytes below its kernel
  stack, and frames of aborts are never popped; `Cpu` counts frames, not bytes.
* Spin locks and atomics, which nothing but their self-tests uses; the layout of
  the boot screen; build tools; the MDIO board test; the assembler and linker
  drivers, which run external tools.
* `docs_trainingAI/`, material of third parties.
