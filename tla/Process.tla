------------------------------- MODULE Process -------------------------------
(***************************************************************************)
(* The process core of VinixOS: the task table and scheduler_yield()       *)
(* (scheduler.c), wait queues (wait_queue.h, wait_queue.c), fork, exit,    *)
(* wait and kill (fork.c, wait.c, svc_handler.c), the fault handlers that  *)
(* end a user task (exception_handlers.c), the idle loop (idle.c) and the  *)
(* two interrupts that run between any two of their steps: the 10 ms tick  *)
(* (timer.c) and UART receive (uart.c).                                    *)
(*                                                                         *)
(* There is one CPU, so at most one task executes kernel code: `current'.  *)
(* The field pc of a task stands for the continuation on its kernel stack. *)
(* A task_struct is an address.  The static ones are IdleTask and          *)
(* InitTask; the others come from kmalloc(), whose 512-byte class is a     *)
(* LIFO free list, and keep their contents after kfree(): a pointer that   *)
(* is left on a wait queue can come to denote another process.             *)
(***************************************************************************)
EXTENDS Integers, FiniteSets, Sequences, TLC

CONSTANTS
    MAX_TASKS,          \* slots of tasks[]
    Structs,            \* the task_struct objects of the kmalloc class
    IdleTask, InitTask, \* the statically allocated task_structs
    NULL,
    RX_CAP,             \* bytes the receive ring holds
    Workload            \* what the user programs of an instance do

Ops == {"yield", "fork", "exit", "wait", "kill", "read", "fault"}

ASSUME ProcessAssumption ==
    /\ MAX_TASKS \in Nat /\ MAX_TASKS >= 3
    /\ IsFiniteSet(Structs)
    /\ IdleTask # InitTask
    /\ {IdleTask, InitTask} \cap Structs = {}
    /\ NULL \notin Structs \cup {IdleTask, InitTask}
    /\ RX_CAP \in Nat
    /\ Workload \subseteq Ops

VARIABLES
    tasks,            \* slot -> task_struct or NULL
    task_count,
    current,          \* current_task
    current_index,    \* current_task_index
    need_reschedule,
    search,           \* slots scheduler_yield() has inspected; -1 outside it
    chosen,           \* slot at which its loop broke; -1 before that
    panicked,         \* PANIC() was reached
    state, pid, ppid, wait_next, pc,   \* fields of every task_struct
    wq,               \* heads of parent_wq and uart_rx_wq
    freelist,         \* free list of the kmalloc class of task_struct
    rx,               \* bytes in the UART receive ring
    masked            \* CPSR.I: interrupts are disabled

table  == <<tasks, task_count>>
yield  == <<search, chosen>>
cpu    == <<current, current_index>>
queues == <<wq, wait_next>>
ids    == <<pid, ppid>>
vars   == <<table, cpu, need_reschedule, yield, panicked, state, ids, pc,
            queues, freelist, rx, masked>>

Slot   == 0 .. MAX_TASKS - 1
Task   == Structs \cup {IdleTask, InitTask}
Queues == {"parent_wq", "uart_rx_wq"}
States == {"READY", "RUNNING", "BLOCKED", "ZOMBIE"}

\* Where each caller of scheduler_yield() goes on when the call returns:
\* sys_yield, the idle loop, wait_event in do_wait and in sys_read, and the
\* endless loop that ends do_exit.
AfterYield == [yield |-> "user", idle_yield |-> "wfi", wait_yield |-> "wait",
               read_yield |-> "read", exit_yield |-> "halted"]

Locations == DOMAIN AfterYield
             \cup {"user", "idle", "wfi", "wait", "reap", "read", "getc", "halted"}

\* Initially scheduler_add_task() has entered idle and init, and
\* scheduler_start() has made idle the current task.
Init ==
    /\ tasks = [i \in Slot |-> IF i = 0 THEN IdleTask
                               ELSE IF i = 1 THEN InitTask ELSE NULL]
    /\ task_count = 2
    /\ current = IdleTask /\ current_index = 0
    /\ need_reschedule = FALSE
    /\ search = -1 /\ chosen = -1 /\ panicked = FALSE
    /\ state = [t \in Task |-> IF t = IdleTask THEN "RUNNING" ELSE "READY"]
    /\ pid = [t \in Task |-> IF t = InitTask THEN 1 ELSE 0]
    /\ ppid = [t \in Task |-> -1]
    /\ wait_next = [t \in Task |-> NULL]
    /\ pc = [t \in Task |-> IF t = IdleTask THEN "idle" ELSE "user"]
    /\ wq = [q \in Queues |-> NULL]
    /\ freelist \in {q \in [1 .. Cardinality(Structs) -> Structs] :
                        \A i, j \in DOMAIN q : q[i] = q[j] => i = j}
    /\ rx = 0
    /\ masked = FALSE

-----------------------------------------------------------------------------
(* Helpers *)

\* The current task is about to execute what p stands for.
At(p) == ~panicked /\ search = -1 /\ pc[current] = p

\* A return to user mode reloads CPSR from SPSR and so enables interrupts;
\* every other resumption keeps the I bit of the CPU.
MaskAt(p) == IF p = "user" THEN FALSE ELSE masked

GoTo(p) == pc' = [pc EXCEPT ![current] = p] /\ masked' = MaskAt(p)

ZombieChildren(p) == {i \in Slot : /\ tasks[i] # NULL
                                   /\ ppid[tasks[i]] = p
                                   /\ state[tasks[i]] = "ZOMBIE"}

IsFirst(i, S) == i \in S /\ \A j \in S : i <= j

\* The tasks `while (head != 0) wake_up()' pops: the least set that holds
\* the head and is closed under wait_next.
Chain(head) ==
    {t \in Task : \A S \in SUBSET Task :
        (/\ head \in Task => head \in S
         /\ \A u \in S : wait_next[u] \in Task => wait_next[u] \in S) => t \in S}

\* Mutant: only the first waiter is woken.
ZombifyAndWakeFirst(victim) ==
    LET woken == {wq["parent_wq"]} \cap Task IN
    /\ state' = [t \in Task |-> IF t \in woken THEN "READY"
                                ELSE IF t = victim THEN "ZOMBIE" ELSE state[t]]
    /\ wait_next' = [t \in Task |-> IF t \in woken THEN NULL ELSE wait_next[t]]
    /\ wq' = [wq EXCEPT !["parent_wq"] = IF @ = NULL THEN NULL ELSE wait_next[@]]

\* Every waiter of parent_wq is popped and made READY, after `victim' became
\* a zombie.
ZombifyAndWakeParents(victim) ==
    LET woken == Chain(wq["parent_wq"]) IN
    /\ state' = [t \in Task |-> IF t \in woken THEN "READY"
                                ELSE IF t = victim THEN "ZOMBIE" ELSE state[t]]
    /\ wait_next' = [t \in Task |-> IF t \in woken THEN NULL ELSE wait_next[t]]
    /\ wq' = [wq EXCEPT !["parent_wq"] = NULL]

-----------------------------------------------------------------------------
(* scheduler_yield(), in four kinds of step: the gate on need_reschedule,   *)
(* one inspected slot, and what follows the loop.  Interrupts fall between. *)

\* Return to the caller without a switch.
YieldReturn == GoTo(AfterYield[pc[current]]) /\ search' = -1 /\ chosen' = -1

YieldGate ==
    /\ ~panicked /\ search = -1 /\ pc[current] \in DOMAIN AfterYield
    /\ need_reschedule' = FALSE
    /\ IF ~need_reschedule \/ task_count = 1
       THEN YieldReturn
       ELSE search' = 0 /\ UNCHANGED <<chosen, pc, masked>>
    /\ UNCHANGED <<table, cpu, panicked, state, ids, queues, freelist, rx>>

\* Mutant: the state of the inspected task is not tested.
YieldScanAnyState ==
    /\ search \in 0 .. MAX_TASKS - 1 /\ chosen = -1
    /\ LET i == (current_index + search + 1) % MAX_TASKS IN
       chosen' = IF tasks[i] # NULL THEN i ELSE -1
    /\ search' = search + 1
    /\ UNCHANGED <<table, cpu, need_reschedule, panicked, state, ids, pc,
                   queues, freelist, rx, masked>>

\* Mutant: every search starts at slot 0.
YieldScanFromZero ==
    /\ search \in 0 .. MAX_TASKS - 1 /\ chosen = -1
    /\ chosen' = IF tasks[search] # NULL /\ state[tasks[search]] = "READY"
                 THEN search ELSE -1
    /\ search' = search + 1
    /\ UNCHANGED <<table, cpu, need_reschedule, panicked, state, ids, pc,
                   queues, freelist, rx, masked>>

YieldScan ==
    /\ search \in 0 .. MAX_TASKS - 1 /\ chosen = -1
    /\ LET i == (current_index + search + 1) % MAX_TASKS IN
       chosen' = IF tasks[i] # NULL /\ state[tasks[i]] = "READY" THEN i ELSE -1
    /\ search' = search + 1
    /\ UNCHANGED <<table, cpu, need_reschedule, panicked, state, ids, pc,
                   queues, freelist, rx, masked>>

\* Mutant: current_task_index is not updated.
SwitchKeepsIndex(i) ==
    /\ state' = [state EXCEPT ![current] = IF @ = "RUNNING" THEN "READY" ELSE @,
                              ![tasks[i]] = "RUNNING"]
    /\ pc' = [pc EXCEPT ![current] = AfterYield[@]]
    /\ current' = tasks[i] /\ UNCHANGED current_index
    /\ masked' = MaskAt(pc'[tasks[i]])
    /\ search' = -1 /\ chosen' = -1

\* Mutant: the previous task keeps its state.
SwitchKeepsState(i) ==
    /\ state' = [state EXCEPT ![tasks[i]] = "RUNNING"]
    /\ pc' = [pc EXCEPT ![current] = AfterYield[@]]
    /\ current' = tasks[i] /\ current_index' = i
    /\ masked' = MaskAt(pc'[tasks[i]])
    /\ search' = -1 /\ chosen' = -1

\* context_switch() to the task in slot i.  The I bit is not part of the
\* saved context.
SwitchTo(i) ==
    /\ state' = [state EXCEPT ![current] = IF @ = "RUNNING" THEN "READY" ELSE @,
                              ![tasks[i]] = "RUNNING"]
    /\ pc' = [pc EXCEPT ![current] = AfterYield[@]]
    /\ current' = tasks[i] /\ current_index' = i
    /\ masked' = MaskAt(pc'[tasks[i]])
    /\ search' = -1 /\ chosen' = -1

\* What follows the loop: nothing to switch to, the fallbacks that force the
\* idle task, PANIC, or the switch.
YieldSwitch ==
    /\ ~panicked /\ search >= 0 /\ (chosen # -1 \/ search = MAX_TASKS)
    /\ LET next     == IF chosen = -1 THEN current ELSE tasks[chosen]
           self     == next = current
           idleGone == tasks[0] = NULL \/ state[tasks[0]] = "ZOMBIE"
       IN  IF self /\ state[current] # "ZOMBIE"
           THEN YieldReturn /\ UNCHANGED <<cpu, state, panicked>>
           ELSE IF (self /\ idleGone) \/ (state[next] # "READY" /\ tasks[0] = NULL)
           THEN panicked' = TRUE /\ UNCHANGED <<cpu, state, pc, masked, yield>>
           ELSE /\ SwitchTo(IF self \/ state[next] # "READY" THEN 0 ELSE chosen)
                /\ UNCHANGED panicked
    /\ UNCHANGED <<table, need_reschedule, ids, queues, freelist, rx>>

-----------------------------------------------------------------------------
(* The idle loop *)

IdleLoop ==
    /\ At("idle")
    /\ need_reschedule' = TRUE
    /\ GoTo("idle_yield")
    /\ UNCHANGED <<table, cpu, yield, panicked, state, ids, queues, freelist, rx>>

\* WFI ends, at the latest with the next tick; cpsw_rx_poll() leaves this
\* state alone.
IdleWakes ==
    /\ At("wfi")
    /\ GoTo("idle")
    /\ UNCHANGED <<table, cpu, need_reschedule, yield, panicked, state, ids,
                   queues, freelist, rx>>

-----------------------------------------------------------------------------
(* Wait queues *)

\* Mutant: the new head is not linked to the old one.
WaitEventUnlinked(q, cond, done, blocked) ==
    IF cond
    THEN GoTo(done) /\ UNCHANGED <<queues, state, need_reschedule>>
    ELSE /\ wq' = [wq EXCEPT ![q] = current]
         /\ state' = [state EXCEPT ![current] = "BLOCKED"]
         /\ need_reschedule' = TRUE
         /\ GoTo(blocked)
         /\ UNCHANGED wait_next

\* One round of wait_event(q, cond): test and enqueue with interrupts off.
WaitEvent(q, cond, done, blocked) ==
    IF cond
    THEN GoTo(done) /\ UNCHANGED <<queues, state, need_reschedule>>
    ELSE /\ wait_next' = [wait_next EXCEPT ![current] = wq[q]]
         /\ wq' = [wq EXCEPT ![q] = current]
         /\ state' = [state EXCEPT ![current] = "BLOCKED"]
         /\ need_reschedule' = TRUE
         /\ GoTo(blocked)

\* wake_up(&uart_rx_wq): pop one waiter and make it READY.
WakeUpReader ==
    LET t == wq["uart_rx_wq"] IN
    IF t = NULL THEN UNCHANGED <<queues, state>>
    ELSE /\ wq' = [wq EXCEPT !["uart_rx_wq"] = wait_next[t]]
         /\ wait_next' = [wait_next EXCEPT ![t] = NULL]
         /\ state' = [state EXCEPT ![t] = "READY"]

-----------------------------------------------------------------------------
(* System calls of the current task *)

Calls(op) == At("user") /\ op \in Workload

SysYield ==
    /\ Calls("yield")
    /\ need_reschedule' = TRUE
    /\ GoTo("yield")
    /\ UNCHANGED <<table, cpu, yield, panicked, state, ids, queues, freelist, rx>>

\* do_fork() with the page allocations succeeding; its failure paths release
\* what they took and change nothing here.
SysFork ==
    \E slot \in Slot :
    LET child == Head(freelist) IN
        /\ Calls("fork") /\ freelist # <<>>
        /\ IsFirst(slot, {i \in 2 .. MAX_TASKS - 1 : tasks[i] = NULL})
        /\ freelist' = Tail(freelist)
        /\ tasks' = [tasks EXCEPT ![slot] = child]
        /\ task_count' = task_count + 1
        /\ pid' = [pid EXCEPT ![child] = slot]
        /\ ppid' = [ppid EXCEPT ![child] = pid[current]]
        /\ state' = [state EXCEPT ![child] = "READY"]
        /\ wait_next' = [wait_next EXCEPT ![child] = NULL]
        /\ pc' = [pc EXCEPT ![child] = "user"]
        /\ UNCHANGED <<cpu, need_reschedule, yield, panicked, wq, rx, masked>>

\* do_exit() of the current task.
DoExit ==
    /\ ZombifyAndWakeParents(current)
    /\ need_reschedule' = TRUE
    /\ pc' = [pc EXCEPT ![current] = "exit_yield"]
    /\ UNCHANGED <<table, cpu, yield, panicked, ids, freelist, rx>>

\* sys_exit(): pid 1 is restarted from the payload, which leaves it in user
\* mode; any other task exits.
SysExit ==
    /\ Calls("exit") /\ pid[current] # 1
    /\ DoExit
    /\ UNCHANGED masked

\* A data or prefetch abort in user mode: the handler runs do_exit() with
\* interrupts still disabled by the exception entry.
UserFault ==
    /\ Calls("fault")
    /\ DoExit
    /\ masked' = TRUE

SysWait ==
    /\ Calls("wait")
    /\ GoTo("wait")
    /\ UNCHANGED <<table, cpu, need_reschedule, yield, panicked, state, ids,
                   queues, freelist, rx>>

WaitForChild ==
    /\ At("wait")
    /\ WaitEvent("parent_wq", ZombieChildren(pid[current]) # {}, "reap", "wait_yield")
    /\ UNCHANGED <<table, cpu, yield, panicked, ids, freelist, rx>>

\* The rest of do_wait(): release the slot of the first zombie child and
\* kfree() it; with no such child the call fails.
Reap ==
    LET zombies == ZombieChildren(pid[current]) IN
        /\ At("reap")
        /\ IF zombies = {} THEN UNCHANGED <<table, freelist>>
           ELSE \E slot \in Slot :
                /\ IsFirst(slot, zombies)
                /\ tasks' = [tasks EXCEPT ![slot] = NULL]
                /\ task_count' = IF task_count > 0 THEN task_count - 1 ELSE 0
                /\ freelist' = <<tasks[slot]>> \o freelist
        /\ GoTo("user")
        /\ UNCHANGED <<cpu, need_reschedule, yield, panicked, state, ids, queues, rx>>

SysRead ==
    /\ Calls("read")
    /\ GoTo("read")
    /\ UNCHANGED <<table, cpu, need_reschedule, yield, panicked, state, ids,
                   queues, freelist, rx>>

WaitForInput ==
    /\ At("read")
    /\ WaitEvent("uart_rx_wq", rx > 0, "getc", "read_yield")
    /\ UNCHANGED <<table, cpu, yield, panicked, ids, freelist, rx>>

\* uart_getc(): take a byte, or find the ring empty and return 0.
GetChar ==
    /\ At("getc")
    /\ rx' = IF rx > 0 THEN rx - 1 ELSE 0
    /\ GoTo("user")
    /\ UNCHANGED <<table, cpu, need_reschedule, yield, panicked, state, ids,
                   queues, freelist>>

\* do_kill_by_pid(): not the caller, not idle or init (ppid < 0), and nothing
\* to do for a zombie.
SysKill(p) ==
    /\ Calls("kill")
    /\ p # pid[current] /\ tasks[p] # NULL /\ ppid[tasks[p]] >= 0
    /\ state[tasks[p]] # "ZOMBIE"
    /\ ZombifyAndWakeParents(tasks[p])
    /\ UNCHANGED <<table, cpu, need_reschedule, yield, panicked, ids, pc,
                   freelist, rx, masked>>

-----------------------------------------------------------------------------
(* Interrupts *)

Interrupt == ~panicked /\ ~masked

\* timer_irq_handler() and scheduler_tick(); nobody sleeps in msleep().
TimerTick ==
    /\ Interrupt /\ ~need_reschedule
    /\ need_reschedule' = TRUE
    /\ UNCHANGED <<table, cpu, yield, panicked, state, ids, pc, queues,
                   freelist, rx, masked>>

\* Mutant: nobody is woken.
UartReceiveSilent ==
    /\ Interrupt /\ rx < RX_CAP
    /\ rx' = rx + 1
    /\ UNCHANGED <<table, cpu, need_reschedule, yield, panicked, state, ids, pc,
                   queues, freelist, masked>>

\* One received byte in uart_rx_irq_handler(): store it and wake a reader.  A
\* byte that finds the ring full is discarded, which changes nothing here.
UartReceive ==
    /\ Interrupt /\ rx < RX_CAP
    /\ rx' = rx + 1
    /\ WakeUpReader
    /\ UNCHANGED <<table, cpu, need_reschedule, yield, panicked, ids, pc,
                   freelist, masked>>

-----------------------------------------------------------------------------
Yielding == YieldGate \/ YieldScan \/ YieldSwitch
Blocking == WaitForChild \/ Reap \/ WaitForInput \/ GetChar
Idling   == IdleLoop \/ IdleWakes

\* What the kernel does of its own once it is entered.
KernelStep == Yielding \/ Blocking \/ Idling

\* What a user program decides to do.
UserStep == \/ SysYield \/ SysFork \/ SysExit \/ SysWait \/ SysRead \/ UserFault
            \/ \E p \in Slot : SysKill(p)

Next == KernelStep \/ UserStep \/ TimerTick \/ UartReceive

Spec == Init /\ [][Next]_vars

-----------------------------------------------------------------------------
(* Properties of every workload *)

InTable(t) == \E i \in Slot : tasks[i] = t

\* The variables keep their types; the ring never holds more than it can.
TypeOK ==
    /\ tasks \in [Slot -> Task \cup {NULL}] /\ task_count \in Nat
    /\ current \in Task /\ current_index \in Slot
    /\ need_reschedule \in BOOLEAN /\ panicked \in BOOLEAN /\ masked \in BOOLEAN
    /\ search \in -1 .. MAX_TASKS /\ chosen \in Slot \cup {-1}
    /\ state \in [Task -> States] /\ pc \in [Task -> Locations]
    /\ pid \in [Task -> Slot] /\ ppid \in [Task -> Slot \cup {-1}]
    /\ wait_next \in [Task -> Task \cup {NULL}]
    /\ wq \in [Queues -> Task \cup {NULL}]
    /\ freelist \in Seq(Structs)
    /\ rx \in 0 .. RX_CAP

\* Whatever processes do, also when they kill each other or fault, idle stays
\* a candidate of the search in scheduler_yield(): it is never BLOCKED or
\* ZOMBIE, and READY whenever another task runs.
IdleAlwaysReady ==
    state[IdleTask] = IF current = IdleTask THEN "RUNNING" ELSE "READY"

\* The fallbacks and the PANICs of scheduler_yield() are dead code: the task
\* at which the search breaks is still READY when the switch is made, however
\* many interrupts fall in between, and a search that finds nobody was made
\* by a task that can simply go on.
SchedulerFindsTask ==
    /\ ~panicked
    /\ chosen # -1 => tasks[chosen] # NULL /\ state[tasks[chosen]] = "READY"
    /\ search = MAX_TASKS /\ chosen = -1 => state[current] = "RUNNING"

\* Forks, reaps and switches in any order keep the table sound: the current
\* task is in the slot current_task_index names, a task is in the slot its pid
\* names and so in one slot only, task_count counts the occupied slots, and a
\* task_struct on kmalloc's free list is in no slot.
TableConsistent ==
    /\ tasks[current_index] = current
    /\ \A i \in Slot : tasks[i] # NULL => pid[tasks[i]] = i
    /\ task_count = Cardinality({i \in Slot : tasks[i] # NULL})
    /\ \A k \in 1 .. Len(freelist) : ~InTable(freelist[k])

\* No second task_struct is ever marked RUNNING, a freed one included.
OneRunner == \A t \in Task : state[t] = "RUNNING" => t = current

\* scheduler_yield() is never entered with need_reschedule clear, so no caller
\* (a voluntary yield, a blocked task, an exiting one) falls through its gate.
YieldHonoured ==
    pc[current] \in DOMAIN AfterYield /\ search = -1 => need_reschedule

\* Whoever gives up the CPU does give it up, and nobody else is left RUNNING.
RunnerSound == OneRunner /\ YieldHonoured

-----------------------------------------------------------------------------
(* Properties of workloads without kill *)

Blocked(t) == InTable(t) /\ state[t] = "BLOCKED"

\* wait_event() and wake_up() keep the two intrusive lists exact: they are
\* disjoint and acyclic, and the tasks on them are the BLOCKED ones, each on
\* the queue of the call it made.
QueueDiscipline ==
    LET waiters == Chain(wq["parent_wq"])
        readers == Chain(wq["uart_rx_wq"])
    IN  /\ waiters \cup readers = {t \in Task : Blocked(t)}
        /\ \A t \in waiters : pc[t] \in {"wait", "wait_yield"}
        /\ \A t \in readers : pc[t] \in {"read", "read_yield"}
        /\ \A t \in waiters \cup readers : t \notin Chain(wait_next[t])

Reader(t) == InTable(t) /\ pc[t] \in {"read", "read_yield", "getc"}

\* No wake-up of a reader is lost between the test of the ring, the enqueue
\* and the switch: while a reader is BLOCKED there are at least as many
\* readers awake as there are bytes to fetch.
NoLostInput ==
    (\E t \in Task : Reader(t) /\ Blocked(t))
       => rx <= Cardinality({t \in Task : Reader(t) /\ ~Blocked(t)})

\* No exit is lost: nobody is BLOCKED in wait() while a child of theirs is a
\* zombie, although all parents share one queue.
NoLostExit ==
    \A t \in Task : Blocked(t) /\ pc[t] \in {"wait", "wait_yield"}
                       => ZombieChildren(pid[t]) = {}

\* No wake-up is lost, whether an interrupt or an exiting child gives it.
NoLostWakeUp == NoLostInput /\ NoLostExit

-----------------------------------------------------------------------------
(* Liveness *)

\* The kernel and the hardware make progress, and no program runs for ever
\* without a call of sys_yield().
Cooperative == /\ WF_vars(KernelStep) /\ WF_vars(UserStep)
               /\ WF_vars(TimerTick) /\ SF_vars(SysYield)

FairSpec == Spec /\ Cooperative

\* Round robin: a READY task gets the CPU.
ReadyRuns == \A t \in Task : InTable(t) /\ state[t] = "READY" ~> current = t

\* A full ring is drained when somebody reads.
InputDrains ==
    (rx = RX_CAP /\ \E t \in Task : Reader(t)) ~> rx < RX_CAP

\* A wait() with a zombie child returns.
WaitReturns ==
    \A t \in Task : (pc[t] \in {"wait", "wait_yield"} /\ ZombieChildren(pid[t]) # {})
                       ~> pc[t] = "user"

\* Blocking calls come back once what they wait for is there.
CallsReturn == InputDrains /\ WaitReturns

-----------------------------------------------------------------------------
(* What comments and documents say and the code does not do *)

\* svc_handler.c: "any kill delivers SIGKILL", so the victim of a kill() that
\* succeeds is a zombie when do_kill_by_pid() returns.
KillKills == [][\A p \in Slot : SysKill(p) => state'[tasks[p]] = "ZOMBIE"]_vars

\* wait.c: after the yield of do_exit() "we never come back".
ExitNeverReturns == ~(search = -1 /\ pc[current] = "halted")

\* exception_entry.S: interrupts are not left disabled across a switch.
InterruptsReturn == masked ~> ~masked

\* svc_handler.c: pid 1 never leaves the scheduler.
InitNeverLeaves == state[InitTask] # "ZOMBIE"

\* wait.c: a waiter looks at its own children.  A process that is just forked
\* has none yet.
OwnChildren ==
    [][\A i, j \in Slot : tasks[i] = NULL /\ tasks'[i] # NULL /\ tasks[j] # NULL
                             => ppid[tasks[j]] # i]_vars

\* unistd.c: wait() without a child fails with ECHILD, so whoever blocks in it
\* has a child.
WaiterHasChild ==
    \A t \in Task : Blocked(t) /\ pc[t] \in {"wait", "wait_yield"}
                       => \E i \in Slot : tasks[i] # NULL /\ ppid[tasks[i]] = pid[t]

\* A preemptive scheduler needs no cooperation: fairness of the kernel and of
\* the tick is enough for ReadyRuns.
PreemptiveSpec == Spec /\ WF_vars(KernelStep) /\ WF_vars(TimerTick)

\* Task structures are interchangeable.
Symmetry == Permutations(Structs)
=============================================================================
