---------------------------- MODULE ProcessProofs ----------------------------
(***************************************************************************)
(* Proofs that the safety invariants of Process hold for every workload    *)
(* and every size of the task table, the task_struct pool and the ring.    *)
(***************************************************************************)
EXTENDS Process, TLAPS, FiniteSetTheorems

IdlePlaces == {"idle", "idle_yield", "wfi"}

\* What keeps idle apart from all other tasks: it owns slot 0, has no parent,
\* never leaves its loop and is on no wait queue.
IdleApart ==
    /\ tasks[0] = IdleTask
    /\ ppid[IdleTask] = -1 /\ ppid[InitTask] = -1
    /\ pc[IdleTask] \in IdlePlaces
    /\ \A t \in Task : wait_next[t] # IdleTask
    /\ \A q \in Queues : wq[q] # IdleTask

\* Only the current task is inside scheduler_yield().  A search by a task
\* other than idle that has found nobody has not come round to slot 0 yet.
YieldState ==
    /\ search = -1 => chosen = -1
    /\ search >= 0 => pc[current] \in DOMAIN AfterYield
    /\ \A t \in Task : t # current => pc[t] \notin DOMAIN AfterYield
    /\ search >= 0 /\ chosen = -1 /\ current # IdleTask
          => search + current_index < MAX_TASKS

\* The part of the inductive invariant that does not depend on the table.
CoreInv == /\ TypeOK /\ IdleApart /\ YieldState
           /\ IdleAlwaysReady /\ SchedulerFindsTask /\ OneRunner /\ YieldHonoured

\* The conjuncts of TypeOK for the Boolean variables, and the others.
BoolOK == need_reschedule \in BOOLEAN /\ panicked \in BOOLEAN /\ masked \in BOOLEAN

DataOK ==
    /\ tasks \in [Slot -> Task \cup {NULL}] /\ task_count \in Nat
    /\ current \in Task /\ current_index \in Slot
    /\ search \in -1 .. MAX_TASKS /\ chosen \in Slot \cup {-1}
    /\ state \in [Task -> States] /\ pc \in [Task -> Locations]
    /\ pid \in [Task -> Slot] /\ ppid \in [Task -> Slot \cup {-1}]
    /\ wait_next \in [Task -> Task \cup {NULL}]
    /\ wq \in [Queues -> Task \cup {NULL}]
    /\ freelist \in Seq(Structs)
    /\ rx \in 0 .. RX_CAP

-----------------------------------------------------------------------------
(* Facts about the constants and the operators *)

\* Slots 0 and 1 exist, and the static task_structs are tasks.
LEMMA ConstantFacts ==
    /\ 0 \in Slot /\ 1 \in Slot /\ Slot \subseteq Nat /\ -1 \notin Slot
    /\ MAX_TASKS \in Nat /\ MAX_TASKS >= 3
    /\ IdleTask \in Task /\ InitTask \in Task /\ IdleTask # InitTask
    /\ Structs \subseteq Task /\ IdleTask \notin Structs /\ InitTask \notin Structs
    /\ NULL \notin Task
  BY ProcessAssumption DEF Slot, Task

\* A caller of scheduler_yield() resumes outside of it, idle in its loop.
LEMMA AfterYieldFacts ==
    /\ \A p \in DOMAIN AfterYield : AfterYield[p] \in Locations \ DOMAIN AfterYield
    /\ AfterYield["idle_yield"] = "wfi"
    /\ DOMAIN AfterYield = {"yield", "idle_yield", "wait_yield", "read_yield", "exit_yield"}
    /\ IdlePlaces \subseteq Locations
  BY DEF AfterYield, Locations, IdlePlaces

\* The successor modulo MAX_TASKS that the search of scheduler_yield() uses.
LEMMA NextSlot ==
    ASSUME NEW i \in Slot, NEW k \in Slot
    PROVE  /\ (i + k + 1) % MAX_TASKS \in Slot
           /\ i + k + 1 < MAX_TASKS => (i + k + 1) % MAX_TASKS = i + k + 1
           /\ i + k + 1 = MAX_TASKS => (i + k + 1) % MAX_TASKS = 0
  BY ConstantFacts DEF Slot

\* wake_up() in a loop pops tasks only, and never idle when no pointer of the
\* queues leads to it.
LEMMA ChainFacts ==
    ASSUME NEW h \in Task \cup {NULL}, h # IdleTask,
           wait_next \in [Task -> Task \cup {NULL}],
           \A t \in Task : wait_next[t] # IdleTask
    PROVE  Chain(h) \subseteq Task /\ IdleTask \notin Chain(h)
  <1>1. Chain(h) \subseteq Task
    BY DEF Chain
  <1> DEFINE S == Task \ {IdleTask}
  <1>2. S \in SUBSET Task /\ IdleTask \notin S
    OBVIOUS
  <1>3. /\ h \in Task => h \in S
        /\ \A u \in S : wait_next[u] \in Task => wait_next[u] \in S
    OBVIOUS
  <1>4. ASSUME IdleTask \in Chain(h) PROVE FALSE
    BY <1>2, <1>3, <1>4, Zenon DEF Chain
  <1> QED BY <1>1, <1>4

-----------------------------------------------------------------------------
(* What forks and reaps do *)

\* Reaping takes a child of the caller out of its slot, never idle or init.
LEMMA ReapFacts ==
    ASSUME DataOK, IdleApart, Reap, ZombieChildren(pid[current]) # {}
    PROVE  \E slot \in Slot :
              /\ slot # 0 /\ tasks[slot] \in Structs /\ ppid[tasks[slot]] = pid[current]
              /\ tasks' = [tasks EXCEPT ![slot] = NULL]
              /\ task_count' = IF task_count > 0 THEN task_count - 1 ELSE 0
              /\ freelist' = <<tasks[slot]>> \o freelist
  <1> USE ConstantFacts
  <1>1. PICK slot \in Slot :
              /\ slot \in ZombieChildren(pid[current])
              /\ tasks' = [tasks EXCEPT ![slot] = NULL]
              /\ task_count' = IF task_count > 0 THEN task_count - 1 ELSE 0
              /\ freelist' = <<tasks[slot]>> \o freelist
    BY Zenon DEF Reap, IsFirst
  <1>2. tasks[slot] # NULL /\ ppid[tasks[slot]] = pid[current]
    BY <1>1, Zenon DEF ZombieChildren
  <1>3. tasks[slot] \in Task /\ ppid[tasks[slot]] # -1
    BY <1>2 DEF DataOK
  <1>4. tasks[slot] # IdleTask /\ tasks[slot] # InitTask /\ slot # 0
    BY <1>3 DEF IdleApart
  <1>5. tasks[slot] \in Structs
    BY <1>3, <1>4 DEF Task
  <1> QED BY <1>1, <1>2, <1>4, <1>5, Zenon

\* A fork takes a free slot above 1 and a task_struct of the pool.
LEMMA ForkFacts ==
    ASSUME DataOK, SysFork
    PROVE  \E slot \in Slot, child \in Structs :
              /\ slot >= 2 /\ tasks[slot] = NULL
              /\ freelist # <<>> /\ child = Head(freelist) /\ freelist' = Tail(freelist)
              /\ tasks' = [tasks EXCEPT ![slot] = child] /\ task_count' = task_count + 1
              /\ pid' = [pid EXCEPT ![child] = slot]
              /\ ppid' = [ppid EXCEPT ![child] = pid[current]]
              /\ state' = [state EXCEPT ![child] = "READY"]
              /\ wait_next' = [wait_next EXCEPT ![child] = NULL]
              /\ pc' = [pc EXCEPT ![child] = "user"]
              /\ UNCHANGED <<current, current_index, search, chosen, panicked, wq, rx>>
  <1>1. Head(freelist) \in Structs
    BY DEF SysFork, DataOK
  <1>2. PICK slot \in Slot :
              /\ freelist # <<>> /\ freelist' = Tail(freelist)
              /\ slot \in {i \in 2 .. MAX_TASKS - 1 : tasks[i] = NULL}
              /\ tasks' = [tasks EXCEPT ![slot] = Head(freelist)]
              /\ task_count' = task_count + 1
              /\ pid' = [pid EXCEPT ![Head(freelist)] = slot]
              /\ ppid' = [ppid EXCEPT ![Head(freelist)] = pid[current]]
              /\ state' = [state EXCEPT ![Head(freelist)] = "READY"]
              /\ wait_next' = [wait_next EXCEPT ![Head(freelist)] = NULL]
              /\ pc' = [pc EXCEPT ![Head(freelist)] = "user"]
              /\ UNCHANGED <<cpu, need_reschedule, yield, panicked, wq, rx, masked>>
    BY Zenon DEF SysFork, IsFirst
  <1>3. slot >= 2 /\ tasks[slot] = NULL
    BY <1>2, ConstantFacts
  <1>4. UNCHANGED <<current, current_index, search, chosen, panicked, wq, rx>>
    BY <1>2, Zenon DEF cpu, yield
  <1> QED BY <1>1, <1>2, <1>3, <1>4, Zenon

-----------------------------------------------------------------------------
(* Types *)

\* The flags stay Boolean.
LEMMA BoolStep == BoolOK /\ [Next]_vars => BoolOK'
  <1> SUFFICES ASSUME BoolOK, [Next]_vars PROVE BoolOK'
    OBVIOUS
  <1> USE DEF BoolOK
  <1>1. \A p : MaskAt(p) \in BOOLEAN
    BY Zenon DEF MaskAt
  <1>2. CASE Yielding
    BY <1>1, <1>2, Zenon DEF Yielding, YieldGate, YieldScan, YieldSwitch, YieldReturn, SwitchTo, GoTo
  <1>3. CASE Blocking
    BY <1>1, <1>3, Zenon DEF Blocking, WaitForChild, Reap, WaitForInput, GetChar, WaitEvent, GoTo
  <1>4. CASE Idling
    BY <1>1, <1>4, Zenon DEF Idling, IdleLoop, IdleWakes, GoTo
  <1>5. CASE UserStep
    BY <1>1, <1>5, Zenon DEF UserStep, SysYield, SysFork, SysExit, SysWait, SysRead, UserFault,
                      SysKill, DoExit, GoTo
  <1>6. CASE TimerTick \/ UartReceive
    BY <1>6, Zenon DEF TimerTick, UartReceive
  <1>7. CASE UNCHANGED vars
    BY <1>7 DEF vars
  <1> QED BY <1>2, <1>3, <1>4, <1>5, <1>6, <1>7 DEF Next, KernelStep

\* Every step of the kernel, of the programs and of the devices keeps the
\* types.
LEMMA DataStep == CoreInv /\ [Next]_vars => DataOK'
  <1> SUFFICES ASSUME DataOK, IdleApart, YieldState, SchedulerFindsTask, [Next]_vars
               PROVE  DataOK'
    BY Zenon DEF CoreInv, TypeOK, DataOK
  <1> USE ConstantFacts, AfterYieldFacts DEF DataOK
  <1>1. CASE YieldGate
    <2>1. /\ pc[current] \in DOMAIN AfterYield
          /\ UNCHANGED <<table, cpu, panicked, state, ids, queues, freelist, rx>>
      BY <1>1 DEF YieldGate
    <2>2. YieldReturn \/ (search' = 0 /\ UNCHANGED <<chosen, pc, masked>>)
      BY <1>1, Zenon DEF YieldGate
    <2> QED BY SMTT(30), <2>1, <2>2 DEF YieldReturn, GoTo, table, cpu, ids, queues
  <1>2. CASE YieldScan
    <2>1. search \in Slot
      BY <1>2 DEF YieldScan, Slot
    <2> QED BY <1>2, <2>1, NextSlot DEF YieldScan, table, cpu, ids, queues, Slot
  <1>3. CASE YieldSwitch
    <2>1. pc[current] \in DOMAIN AfterYield
      BY <1>3 DEF YieldSwitch, YieldState
    <2>2. ASSUME NEW i \in Slot, tasks[i] \in Task, SwitchTo(i),
                 UNCHANGED <<panicked, table, need_reschedule, ids, queues, freelist, rx>>
          PROVE  DataOK'
      BY <2>1, <2>2 DEF SwitchTo, MaskAt, States, table, ids, queues
    <2>3. CASE YieldReturn /\ UNCHANGED <<cpu, state, panicked>>
      BY <1>3, <2>1, <2>3 DEF YieldSwitch, YieldReturn, GoTo, MaskAt, table, cpu, ids, queues
    <2>4. CASE panicked' = TRUE /\ UNCHANGED <<cpu, state, pc, masked, yield>>
      BY <1>3, <2>4 DEF YieldSwitch, table, cpu, ids, queues, yield
    <2>5. tasks[0] \in Task /\ (chosen # -1 => tasks[chosen] \in Task)
      BY Zenon DEF IdleApart, SchedulerFindsTask
    <2> QED BY <1>3, <2>2, <2>3, <2>4, <2>5, Zenon DEF YieldSwitch
  <1>4. CASE IdleLoop \/ IdleWakes \/ SysYield \/ SysWait \/ SysRead
    BY SMTT(30), <1>4 DEF IdleLoop, IdleWakes, SysYield, SysWait, SysRead, GoTo, MaskAt,
                Locations, table, cpu, ids, queues, yield
  <1>5. ASSUME NEW q \in Queues, NEW c, NEW d \in Locations, NEW b \in Locations,
               WaitEvent(q, c, d, b),
               UNCHANGED <<table, cpu, yield, panicked, ids, freelist, rx>>
        PROVE  DataOK'
    <2>1. CASE GoTo(d) /\ UNCHANGED <<queues, state, need_reschedule>>
      BY Zenon, <1>5, <2>1 DEF GoTo, table, cpu, ids, queues, yield
    <2>2. CASE /\ wait_next' = [wait_next EXCEPT ![current] = wq[q]]
               /\ wq' = [wq EXCEPT ![q] = current]
               /\ state' = [state EXCEPT ![current] = "BLOCKED"]
               /\ GoTo(b)
      BY <1>5, <2>2 DEF GoTo, States, table, cpu, ids, yield
    <2> QED BY <1>5, <2>1, <2>2, Zenon DEF WaitEvent
  <1>6. CASE WaitForChild \/ WaitForInput
    <2>1. {"parent_wq", "uart_rx_wq"} \subseteq Queues
          /\ {"reap", "wait_yield", "getc", "read_yield"} \subseteq Locations
      BY DEF Queues, Locations
    <2> QED BY <1>5, <1>6, <2>1, Zenon DEF WaitForChild, WaitForInput
  <1>7. CASE Reap
    <2>1. pc' = [pc EXCEPT ![current] = "user"]
          /\ UNCHANGED <<cpu, yield, panicked, state, ids, queues, rx>>
      BY <1>7, Zenon DEF Reap, GoTo
    <2>2. CASE ZombieChildren(pid[current]) = {}
      <3>1. UNCHANGED <<table, freelist>>
        BY <1>7, <2>2, Zenon DEF Reap
      <3> QED BY <2>1, <3>1 DEF Locations, table, cpu, ids, queues, yield
    <2>3. CASE ZombieChildren(pid[current]) # {}
      <3>1. PICK slot \in Slot :
               /\ tasks[slot] \in Structs /\ tasks' = [tasks EXCEPT ![slot] = NULL]
               /\ task_count' = IF task_count > 0 THEN task_count - 1 ELSE 0
               /\ freelist' = <<tasks[slot]>> \o freelist
        BY <1>7, <2>3, ReapFacts, Zenon
      <3> QED BY SMTT(30), <2>1, <3>1 DEF Locations, cpu, ids, queues, yield
    <2> QED BY Zenon, <2>2, <2>3
  <1>8. CASE GetChar
    BY <1>8, ProcessAssumption DEF GetChar, GoTo, MaskAt, Locations, table, cpu, ids, queues, yield
  <1>9. CASE SysFork
    <2>1. PICK slot \in Slot, child \in Structs :
              /\ freelist # <<>> /\ freelist' = Tail(freelist)
              /\ tasks' = [tasks EXCEPT ![slot] = child] /\ task_count' = task_count + 1
              /\ pid' = [pid EXCEPT ![child] = slot]
              /\ ppid' = [ppid EXCEPT ![child] = pid[current]]
              /\ state' = [state EXCEPT ![child] = "READY"]
              /\ wait_next' = [wait_next EXCEPT ![child] = NULL]
              /\ pc' = [pc EXCEPT ![child] = "user"]
              /\ UNCHANGED <<current, current_index, search, chosen, wq, rx>>
      BY <1>9, ForkFacts, Zenon
    <2> QED BY <2>1 DEF States, Locations
  <1>10. CASE SysExit \/ UserFault
    BY <1>10 DEF SysExit, UserFault, DoExit, ZombifyAndWakeParents, States, Locations,
                 Queues, table, cpu, ids, yield
  <1>11. ASSUME NEW p \in Slot, SysKill(p) PROVE DataOK'
    BY Zenon, <1>11 DEF SysKill, ZombifyAndWakeParents, States, Queues, table, cpu, ids, yield
  <1>12. CASE TimerTick
    BY Zenon, <1>12 DEF TimerTick, table, cpu, ids, queues, yield
  <1>13. CASE UartReceive
    <2>1. rx' \in 0 .. RX_CAP
      BY <1>13, ProcessAssumption DEF UartReceive
    <2>2. CASE wq["uart_rx_wq"] = NULL
      BY Zenon, <1>13, <2>1, <2>2 DEF UartReceive, WakeUpReader, table, cpu, ids, queues, yield
    <2>3. CASE wq["uart_rx_wq"] # NULL
      <3>1. wq["uart_rx_wq"] \in Task
        BY Zenon, <2>3 DEF Queues
      <3> QED BY <1>13, <2>1, <2>3, <3>1 DEF UartReceive, WakeUpReader, States, Queues,
                                             table, cpu, ids, yield
    <2> QED BY Zenon, <2>2, <2>3
  <1>14. CASE UNCHANGED vars
    BY <1>14 DEF vars, table, cpu, ids, queues, yield
  <1> QED BY Zenon, <1>1, <1>2, <1>3, <1>4, <1>6, <1>7, <1>8, <1>9, <1>10, <1>11, <1>12,
             <1>13, <1>14 DEF Next, KernelStep, UserStep, Yielding, Blocking, Idling

\* TypeOK is preserved.
LEMMA TypeStep == CoreInv /\ [Next]_vars => TypeOK'
  <1>1. CoreInv => BoolOK
    BY DEF CoreInv, TypeOK, BoolOK
  <1>2. BoolOK' /\ DataOK' => TypeOK'
    BY DEF TypeOK, BoolOK, DataOK
  <1> QED BY Zenon, <1>1, <1>2, BoolStep, DataStep
-----------------------------------------------------------------------------
(* Idle *)

\* do_exit() and do_kill_by_pid() wake tasks other than idle only.
LEMMA WakeFacts ==
    ASSUME DataOK, IdleApart, NEW v \in Task, v # IdleTask, ZombifyAndWakeParents(v)
    PROVE  /\ state'[IdleTask] = state[IdleTask]
           /\ \A t \in Task : state'[t] \in {"READY", "ZOMBIE", state[t]}
           /\ \A t \in Task : wait_next'[t] \in {NULL, wait_next[t]}
           /\ \A q \in Queues : wq'[q] \in {NULL, wq[q]}
  <1> DEFINE woken == Chain(wq["parent_wq"])
  <1>1. IdleTask \notin woken
    <2>1. /\ wq["parent_wq"] \in Task \cup {NULL} /\ wq["parent_wq"] # IdleTask
          /\ wait_next \in [Task -> Task \cup {NULL}]
          /\ \A t \in Task : wait_next[t] # IdleTask
      BY DEF DataOK, IdleApart, Queues
    <2> QED BY <2>1, ChainFacts
  <1> HIDE DEF woken
  <1>2. /\ state' = [t \in Task |-> IF t \in woken THEN "READY"
                                    ELSE IF t = v THEN "ZOMBIE" ELSE state[t]]
        /\ wait_next' = [t \in Task |-> IF t \in woken THEN NULL ELSE wait_next[t]]
        /\ wq' = [wq EXCEPT !["parent_wq"] = NULL]
    BY DEF ZombifyAndWakeParents, woken
  <1> QED BY <1>1, <1>2, ConstantFacts DEF DataOK, Queues

\* Nothing a task or an interrupt does reaches idle.
LEMMA IdleApartStep == CoreInv /\ [Next]_vars => IdleApart'
  <1> SUFFICES ASSUME DataOK, IdleApart, YieldState, SchedulerFindsTask,
                      [Next]_vars
               PROVE  IdleApart'
    BY Zenon DEF CoreInv, TypeOK, DataOK
  <1> USE ConstantFacts, AfterYieldFacts
  <1>1. CASE YieldGate
    <2>1. /\ pc[current] \in DOMAIN AfterYield
          /\ UNCHANGED <<table, cpu, panicked, state, ids, queues, freelist, rx>>
      BY <1>1 DEF YieldGate
    <2>2. YieldReturn \/ (search' = 0 /\ UNCHANGED <<chosen, pc, masked>>)
      BY <1>1, Zenon DEF YieldGate
    <2> QED BY <2>1, <2>2 DEF YieldReturn, GoTo, IdleApart, IdlePlaces, DataOK, table, ids, queues
  <1>2. CASE YieldScan
    BY Zenon, <1>2 DEF YieldScan, IdleApart, table, ids, queues
  <1>3. CASE YieldSwitch
    <2>1. pc[current] \in DOMAIN AfterYield
      BY Zenon, <1>3 DEF YieldSwitch, YieldState
    <2>2. pc' = pc \/ pc' = [pc EXCEPT ![current] = AfterYield[@]]
      BY Zenon, <1>3 DEF YieldSwitch, YieldReturn, SwitchTo, GoTo
    <2>3. UNCHANGED <<table, ids, queues>>
      BY Zenon, <1>3 DEF YieldSwitch
    <2> QED BY <2>1, <2>2, <2>3 DEF IdleApart, IdlePlaces, DataOK, table, ids, queues
  <1>4. CASE IdleLoop \/ IdleWakes \/ SysYield \/ SysWait \/ SysRead \/ GetChar
    BY <1>4 DEF IdleLoop, IdleWakes, SysYield, SysWait, SysRead, GetChar, Calls, At, GoTo,
                IdleApart, IdlePlaces, DataOK, table, ids, queues
  <1>5. ASSUME NEW q \in Queues, NEW c, NEW d, NEW b, current # IdleTask,
               WaitEvent(q, c, d, b), UNCHANGED <<table, ids>>
        PROVE  IdleApart'
    <2>1. CASE GoTo(d) /\ UNCHANGED <<queues, state, need_reschedule>>
      BY Zenon, <1>5, <2>1 DEF GoTo, IdleApart, DataOK, table, ids, queues
    <2>2. CASE /\ wait_next' = [wait_next EXCEPT ![current] = wq[q]]
               /\ wq' = [wq EXCEPT ![q] = current]
               /\ GoTo(b)
      BY <1>5, <2>2 DEF GoTo, IdleApart, DataOK, table, ids
    <2> QED BY <1>5, <2>1, <2>2, Zenon DEF WaitEvent
  <1>6. CASE WaitForChild \/ WaitForInput
    <2>1. current # IdleTask
      BY <1>6, Zenon DEF WaitForChild, WaitForInput, At, IdleApart, IdlePlaces
    <2>2. "parent_wq" \in Queues /\ "uart_rx_wq" \in Queues
      BY Zenon DEF Queues
    <2> QED BY Zenon, <1>5, <1>6, <2>1, <2>2 DEF WaitForChild, WaitForInput
  <1>7. CASE Reap
    <2>1. tasks'[0] = tasks[0]
      <3>1. CASE ZombieChildren(pid[current]) = {}
        BY Zenon, <1>7, <3>1 DEF Reap, table
      <3>2. CASE ZombieChildren(pid[current]) # {}
        <4>1. PICK slot \in Slot : slot # 0 /\ tasks' = [tasks EXCEPT ![slot] = NULL]
          BY <1>7, <3>2, ReapFacts, Zenon
        <4> QED BY <4>1 DEF DataOK
      <3> QED BY Zenon, <3>1, <3>2
    <2>2. pc' = [pc EXCEPT ![current] = "user"] /\ current # IdleTask
          /\ UNCHANGED <<ids, queues>>
      BY Zenon, <1>7 DEF Reap, GoTo, At, IdleApart, IdlePlaces
    <2> QED BY Zenon, <2>1, <2>2 DEF IdleApart, DataOK, ids, queues
  <1>8. CASE SysFork
    <2>1. PICK slot \in Slot, child \in Structs :
              /\ slot >= 2 /\ tasks' = [tasks EXCEPT ![slot] = child]
              /\ ppid' = [ppid EXCEPT ![child] = pid[current]]
              /\ wait_next' = [wait_next EXCEPT ![child] = NULL]
              /\ pc' = [pc EXCEPT ![child] = "user"] /\ UNCHANGED wq
      BY <1>8, ForkFacts, Zenon
    <2>2. child \in Task /\ child # IdleTask /\ child # InitTask /\ slot # 0
      BY <2>1
    <2>3. tasks'[0] = IdleTask /\ pc'[IdleTask] \in IdlePlaces
      BY Zenon, <2>1, <2>2 DEF IdleApart, DataOK
    <2>4. ppid'[IdleTask] = -1 /\ ppid'[InitTask] = -1
      BY Zenon, <2>1, <2>2 DEF IdleApart, DataOK
    <2>5. \A t \in Task : wait_next'[t] # IdleTask
      BY Zenon, <2>1, <2>2 DEF IdleApart, DataOK
    <2> QED BY Zenon, <2>1, <2>3, <2>4, <2>5 DEF IdleApart
  <1>9. CASE SysExit \/ UserFault
    <2>1. current # IdleTask
      BY Zenon, <1>9 DEF SysExit, UserFault, Calls, At, IdleApart, IdlePlaces
    <2>2. /\ ZombifyAndWakeParents(current) /\ UNCHANGED <<table, ids>>
          /\ pc' = [pc EXCEPT ![current] = "exit_yield"]
      BY <1>9 DEF SysExit, UserFault, DoExit
    <2>3. current \in Task
      BY Zenon DEF DataOK
    <2> QED BY <2>1, <2>2, <2>3, WakeFacts DEF IdleApart, DataOK, table, ids
  <1>10. ASSUME NEW p \in Slot, SysKill(p) PROVE IdleApart'
    <2>1. tasks[p] \in Task /\ tasks[p] # IdleTask
      BY <1>10 DEF SysKill, DataOK, IdleApart
    <2>2. ZombifyAndWakeParents(tasks[p]) /\ UNCHANGED <<table, ids, pc>>
      BY <1>10, Zenon DEF SysKill
    <2> QED BY <2>1, <2>2, WakeFacts DEF IdleApart, table, ids
  <1>11. CASE TimerTick
    BY <1>11, Zenon DEF TimerTick, IdleApart, table, ids, queues
  <1>12. CASE UartReceive
    <2>1. CASE wq["uart_rx_wq"] = NULL
      BY Zenon, <1>12, <2>1 DEF UartReceive, WakeUpReader, IdleApart, table, ids, queues
    <2>2. CASE wq["uart_rx_wq"] # NULL
      <3>1. wq["uart_rx_wq"] \in Task
        BY <2>2 DEF Queues, DataOK
      <3> QED BY <1>12, <2>2, <3>1 DEF UartReceive, WakeUpReader, IdleApart, DataOK, table, ids
    <2> QED BY Zenon, <2>1, <2>2
  <1>13. CASE UNCHANGED vars
    BY <1>13, Zenon DEF vars, IdleApart, table, ids, queues
  <1> QED BY Zenon, <1>1, <1>2, <1>3, <1>4, <1>6, <1>7, <1>8, <1>9, <1>10, <1>11, <1>12,
             <1>13 DEF Next, KernelStep, UserStep, Yielding, Blocking, Idling
-----------------------------------------------------------------------------
(* The scheduler *)

\* Steps of the current task outside scheduler_yield(), and of interrupts.
TaskStep == Blocking \/ Idling \/ UserStep
IrqStep  == TimerTick \/ UartReceive

\* A task outside scheduler_yield() leaves its variables alone and moves
\* itself, or lets a child start in user mode.
LEMMA TaskStepFacts ==
    ASSUME DataOK, TaskStep
    PROVE  /\ search = -1 /\ UNCHANGED <<search, chosen, current, current_index, panicked>>
           /\ \A t \in Task : t # current => pc'[t] \in {pc[t], "user"}
  <1>1. search = -1 /\ UNCHANGED <<yield, cpu, panicked>>
    BY Zenon DEF TaskStep, Blocking, Idling, UserStep, WaitForChild, Reap, WaitForInput,
           GetChar, IdleLoop, IdleWakes, SysYield, SysFork, SysExit, SysWait, SysRead,
           UserFault, SysKill, DoExit, Calls, At, GoTo
  <1>2. \A t \in Task : t # current => pc'[t] \in {pc[t], "user"}
    <2>1. CASE SysFork
      <3>1. PICK child \in Structs : pc' = [pc EXCEPT ![child] = "user"]
        BY <2>1, ForkFacts, Zenon
      <3> QED BY <3>1, ConstantFacts DEF DataOK
    <2>2. ASSUME NEW p \in Slot, SysKill(p) PROVE UNCHANGED pc
      BY <2>2, Zenon DEF SysKill
    <2>3. CASE TaskStep /\ ~SysFork /\ ~\E p \in Slot : SysKill(p)
      <3>1. \E p : pc' = [pc EXCEPT ![current] = p]
        BY <2>3, Zenon DEF TaskStep, Blocking, Idling, UserStep, WaitForChild, Reap, WaitForInput,
           GetChar, IdleLoop, IdleWakes, SysYield, SysExit, SysWait, SysRead, UserFault,
           DoExit, WaitEvent, GoTo
      <3> QED BY <3>1 DEF DataOK
    <2> QED BY Zenon, <2>1, <2>2, <2>3 DEF TaskStep
  <1> QED BY <1>1, <1>2 DEF yield, cpu

\* Interrupts do not touch the search or any program counter.
LEMMA IrqStepFacts ==
    ASSUME IrqStep
    PROVE  UNCHANGED <<search, chosen, current, current_index, panicked, pc, tasks>>
  BY DEF IrqStep, TimerTick, UartReceive, yield, cpu, table

\* What follows the search is a plain return or a switch to an existing task:
\* the PANICs are not reached.
LEMMA SwitchFacts ==
    ASSUME DataOK, IdleApart, YieldState, IdleAlwaysReady, SchedulerFindsTask, YieldSwitch
    PROVE  /\ pc[current] \in DOMAIN AfterYield
           /\ UNCHANGED <<table, need_reschedule, ids, queues, freelist, rx, panicked>>
           /\ \/ YieldReturn /\ UNCHANGED <<cpu, state>>
              \/ \E i \in Slot : tasks[i] \in Task /\ SwitchTo(i)
  <1> USE ConstantFacts
  <1>1. pc[current] \in DOMAIN AfterYield
    BY DEF YieldSwitch, YieldState
  <1>2. tasks[0] = IdleTask /\ tasks[0] # NULL /\ state[tasks[0]] # "ZOMBIE"
    BY DEF IdleApart, IdleAlwaysReady
  <1>3. /\ tasks[0] \in Task
        /\ chosen # -1 => chosen \in Slot /\ tasks[chosen] \in Task
    BY Zenon DEF DataOK, IdleApart, SchedulerFindsTask
  <1>4. \/ YieldReturn /\ UNCHANGED <<cpu, state, panicked>>
        \/ (SwitchTo(0) /\ UNCHANGED panicked)
        \/ (chosen # -1 /\ SwitchTo(chosen) /\ UNCHANGED panicked)
    BY <1>2 DEF YieldSwitch
  <1> QED BY <1>1, <1>3, <1>4, ZenonT(40) DEF YieldSwitch

\* Only the current task is ever inside scheduler_yield().
LEMMA YieldStateStep == CoreInv /\ [Next]_vars => YieldState'
  <1> SUFFICES ASSUME DataOK, IdleApart, YieldState, IdleAlwaysReady, SchedulerFindsTask,
                      [Next]_vars
               PROVE  YieldState'
    BY Zenon DEF CoreInv, TypeOK, DataOK
  <1> USE ConstantFacts, AfterYieldFacts
  <1>1. CASE YieldGate
    <2>1. /\ search = -1 /\ pc[current] \in DOMAIN AfterYield
          /\ current' = current /\ current_index' = current_index
      BY <1>1 DEF YieldGate, cpu
    <2>2. YieldReturn \/ (search' = 0 /\ UNCHANGED <<chosen, pc, masked>>)
      BY <1>1, Zenon DEF YieldGate
    <2> QED BY <2>1, <2>2 DEF YieldReturn, GoTo, YieldState, DataOK, Slot
  <1>2. CASE YieldScan
    <2> DEFINE i == (current_index + search + 1) % MAX_TASKS
    <2>1. /\ search \in Slot /\ current_index \in Slot /\ chosen = -1
          /\ chosen' = IF tasks[i] # NULL /\ state[tasks[i]] = "READY" THEN i ELSE -1
          /\ search' = search + 1 /\ UNCHANGED <<current, current_index, pc>>
      BY Zenon, <1>2 DEF YieldScan, DataOK, Slot, cpu
    <2>2. /\ current_index + search + 1 < MAX_TASKS => i = current_index + search + 1
          /\ current_index + search + 1 = MAX_TASKS => i = 0
      BY Zenon, <2>1, NextSlot
    <2>3. ASSUME chosen' = -1, current # IdleTask
          PROVE  search' + current_index < MAX_TASKS
      <3>1. search + current_index < MAX_TASKS /\ search \in Nat /\ current_index \in Nat
        <4>1. search >= 0 /\ search \in Nat /\ current_index \in Nat
          BY <2>1 DEF Slot
        <4> QED BY Zenon, <2>1, <2>3, <4>1 DEF YieldState
      <3>2. current_index + search + 1 # MAX_TASKS
        <4>1. tasks[0] # NULL /\ state[tasks[0]] = "READY"
          BY Zenon, <2>3 DEF IdleApart, IdleAlwaysReady
        <4>2. i # 0
          BY Zenon, <2>1, <2>3, <4>1
        <4> QED BY Zenon, <2>2, <4>2
      <3> QED BY <2>1, <3>1, <3>2
    <2> HIDE DEF i
    <2>4. search' >= 0 /\ search' # -1 /\ pc[current] \in DOMAIN AfterYield
      BY <2>1 DEF YieldState, Slot
    <2> QED BY Zenon, <2>1, <2>3, <2>4 DEF YieldState
  <1>3. CASE YieldSwitch
    <2>1. search' = -1 /\ chosen' = -1 /\ pc' = [pc EXCEPT ![current] = AfterYield[@]]
      BY <1>3, SwitchFacts, ZenonT(40) DEF YieldReturn, SwitchTo, GoTo
    <2>2. \A t \in Task : pc'[t] \notin DOMAIN AfterYield
      BY Zenon, <1>3, <2>1, SwitchFacts DEF YieldState, DataOK
    <2> QED BY <2>1, <2>2 DEF YieldState
  <1>4. CASE TaskStep
    BY <1>4, TaskStepFacts DEF YieldState
  <1>5. CASE IrqStep
    BY Zenon, <1>5, IrqStepFacts DEF YieldState
  <1>6. CASE UNCHANGED vars
    BY Zenon, <1>6 DEF vars, yield, cpu, YieldState
  <1> QED BY Zenon, <1>1, <1>2, <1>3, <1>4, <1>5, <1>6
          DEF Next, KernelStep, Yielding, TaskStep, IrqStep
\* Outside context switches nobody becomes RUNNING, and idle keeps its state.
LEMMA QuietState ==
    ASSUME DataOK, IdleApart, TaskStep \/ IrqStep
    PROVE  /\ state'[IdleTask] = state[IdleTask]
           /\ \A t \in Task : state'[t] = "RUNNING" => state[t] = "RUNNING"
  <1> USE ConstantFacts
  <1>1. CASE WaitForChild \/ WaitForInput
    <2>1. current # IdleTask
      BY <1>1, Zenon DEF WaitForChild, WaitForInput, At, IdleApart, IdlePlaces
    <2>2. state' = state \/ state' = [state EXCEPT ![current] = "BLOCKED"]
      BY <1>1, Zenon DEF WaitForChild, WaitForInput, WaitEvent
    <2> QED BY <2>1, <2>2 DEF DataOK
  <1>2. CASE Reap \/ GetChar \/ Idling \/ SysYield \/ SysWait \/ SysRead \/ TimerTick
    BY <1>2, ZenonT(40) DEF Reap, GetChar, Idling, IdleLoop, IdleWakes, SysYield, SysWait, SysRead,
                TimerTick
  <1>3. CASE SysFork
    <2>1. PICK child \in Structs : state' = [state EXCEPT ![child] = "READY"]
      BY <1>3, ForkFacts, Zenon
    <2> QED BY <2>1 DEF DataOK
  <1>4. CASE SysExit \/ UserFault
    <2>1. current # IdleTask /\ current \in Task /\ ZombifyAndWakeParents(current)
      BY Zenon, <1>4 DEF SysExit, UserFault, DoExit, Calls, At, IdleApart, IdlePlaces, DataOK
    <2> QED BY Zenon, <2>1, WakeFacts
  <1>5. ASSUME NEW p \in Slot, SysKill(p)
        PROVE  /\ state'[IdleTask] = state[IdleTask]
               /\ \A t \in Task : state'[t] = "RUNNING" => state[t] = "RUNNING"
    <2>1. tasks[p] # IdleTask /\ tasks[p] \in Task /\ ZombifyAndWakeParents(tasks[p])
      BY SMTT(30), <1>5 DEF SysKill, DataOK, IdleApart
    <2> QED BY Zenon, <2>1, WakeFacts
  <1>6. CASE UartReceive
    <2>1. "uart_rx_wq" \in Queues
      BY Zenon DEF Queues
    <2>2. \/ state' = state
          \/ (wq["uart_rx_wq"] # NULL /\ state' = [state EXCEPT ![wq["uart_rx_wq"]] = "READY"])
      BY <1>6 DEF UartReceive, WakeUpReader
    <2> QED BY Zenon, <2>1, <2>2 DEF DataOK, IdleApart
  <1> QED BY Zenon, <1>1, <1>2, <1>3, <1>4, <1>5, <1>6 DEF TaskStep, IrqStep, Blocking, UserStep

\* Idle stays RUNNING or READY, and nobody but the current task is RUNNING.
LEMMA RunnerStep == CoreInv /\ [Next]_vars => IdleAlwaysReady' /\ OneRunner'
  <1> SUFFICES ASSUME DataOK, IdleApart, YieldState, IdleAlwaysReady, SchedulerFindsTask,
                      OneRunner, [Next]_vars
               PROVE  IdleAlwaysReady' /\ OneRunner'
    BY DEF CoreInv, TypeOK, DataOK
  <1> USE ConstantFacts
  <1>1. CASE TaskStep \/ IrqStep
    <2>1. current' = current
      BY Zenon, <1>1, TaskStepFacts, IrqStepFacts
    <2> QED BY <1>1, <2>1, QuietState, Zenon DEF IdleAlwaysReady, OneRunner
  <1>2. CASE YieldGate \/ YieldScan \/ UNCHANGED vars
    BY <1>2, Zenon DEF YieldGate, YieldScan, vars, cpu, IdleAlwaysReady, OneRunner
  <1>3. CASE YieldSwitch
    <2>1. CASE UNCHANGED <<cpu, state>>
      BY <2>1 DEF cpu, IdleAlwaysReady, OneRunner
    <2>2. ASSUME NEW i \in Slot, tasks[i] \in Task, SwitchTo(i)
          PROVE  IdleAlwaysReady' /\ OneRunner'
      BY <2>2, ZenonT(40) DEF SwitchTo, DataOK, IdleAlwaysReady, OneRunner
    <2> QED BY Zenon, <1>3, <2>1, <2>2, SwitchFacts
  <1> QED BY Zenon, <1>1, <1>2, <1>3 DEF Next, KernelStep, Yielding, TaskStep, IrqStep

\* The search of scheduler_yield() never ends in a fallback or a PANIC.
LEMMA FindsStep ==
    CoreInv /\ [Next]_vars /\ TypeOK' /\ IdleAlwaysReady' /\ YieldState' => SchedulerFindsTask'
  <1> SUFFICES ASSUME DataOK, IdleApart, YieldState, IdleAlwaysReady, SchedulerFindsTask,
                      DataOK', IdleAlwaysReady', YieldState', [Next]_vars
               PROVE  SchedulerFindsTask'
    BY Zenon DEF CoreInv, TypeOK, DataOK
  <1> USE ConstantFacts
  <1>1. search' = MAX_TASKS /\ chosen' = -1 => state'[current'] = "RUNNING"
    <2> SUFFICES ASSUME search' = MAX_TASKS, chosen' = -1 PROVE state'[current'] = "RUNNING"
      OBVIOUS
    <2>1. search' >= 0 /\ ~(search' + current_index' < MAX_TASKS)
      <3>1. MAX_TASKS \in Nat /\ current_index' \in Nat
        BY Zenon DEF DataOK
      <3>2. \A m, i \in Nat : m >= 0 /\ ~(m + i < m)
        BY SMTT(30)
      <3> QED BY <3>1, <3>2, Zenon
    <2>2. current' = IdleTask
      BY Zenon, <2>1 DEF YieldState
    <2> QED BY Zenon, <2>2 DEF IdleAlwaysReady
  <1>2. UNCHANGED panicked /\ (chosen' # -1 => tasks'[chosen'] # NULL
                                               /\ state'[tasks'[chosen']] = "READY")
    <2>1. CASE TaskStep
      BY <2>1, TaskStepFacts, ZenonT(40) DEF YieldState
    <2>2. CASE TimerTick \/ UNCHANGED vars
      BY <2>2 DEF TimerTick, vars, yield, table, SchedulerFindsTask
    <2>3. CASE UartReceive
      <3>1. UNCHANGED <<chosen, tasks, panicked>>
        BY Zenon, <2>3, IrqStepFacts DEF IrqStep
      <3>2. \A t \in Task : state[t] = "READY" => state'[t] = "READY"
        BY SMTT(30), <2>3 DEF UartReceive, WakeUpReader, DataOK
      <3>3. chosen # -1 => tasks[chosen] \in Task
        BY DEF SchedulerFindsTask, DataOK
      <3> QED BY <3>1, <3>2, <3>3, ZenonT(40) DEF SchedulerFindsTask
    <2>4. CASE YieldGate
      <3>1. UNCHANGED panicked /\ search = -1
        BY <2>4 DEF YieldGate
      <3>2. chosen' = -1 \/ chosen' = chosen
        BY <2>4, Zenon DEF YieldGate, YieldReturn
      <3> QED BY <3>1, <3>2, ZenonT(40) DEF YieldState
    <2>5. CASE YieldScan
      BY <2>5, ZenonT(40) DEF YieldScan, table
    <2>6. CASE YieldSwitch
      BY Zenon, <2>6, SwitchFacts DEF YieldReturn, SwitchTo
    <2> QED BY Zenon, <2>1, <2>2, <2>3, <2>4, <2>5, <2>6
            DEF Next, KernelStep, Yielding, TaskStep, IrqStep
  <1> QED BY <1>1, <1>2, ZenonT(40) DEF SchedulerFindsTask

\* Whoever enters scheduler_yield() has armed it.
LEMMA HonouredStep == CoreInv /\ [Next]_vars => YieldHonoured'
  <1> SUFFICES ASSUME DataOK, IdleApart, YieldState, IdleAlwaysReady, SchedulerFindsTask,
                      YieldHonoured, [Next]_vars
               PROVE  YieldHonoured'
    BY Zenon DEF CoreInv, TypeOK, DataOK
  <1> USE ConstantFacts, AfterYieldFacts
  <1>1. CASE need_reschedule' = TRUE
    BY Zenon, <1>1 DEF YieldHonoured
  <1>2. ASSUME pc'[current'] \notin DOMAIN AfterYield PROVE YieldHonoured'
    BY Zenon, <1>2 DEF YieldHonoured
  <1>3. CASE YieldGate
    <2>1. pc[current] \in DOMAIN AfterYield /\ current' = current
      BY <1>3 DEF YieldGate, cpu
    <2>2. YieldReturn \/ search' = 0
      BY <1>3, Zenon DEF YieldGate
    <2>3. CASE YieldReturn
      <3>1. pc'[current'] \notin DOMAIN AfterYield
        BY Zenon, <2>1, <2>3 DEF YieldReturn, GoTo, DataOK
      <3> QED BY Zenon, <3>1, <1>2
    <2>4. CASE search' = 0
      <3>1. search' # -1
        BY Zenon, <2>4
      <3> QED BY Zenon, <3>1 DEF YieldHonoured
    <2> QED BY Zenon, <2>2, <2>3, <2>4
  <1>4. CASE YieldScan
    <2>1. search' # -1
      BY SMTT(30), <1>4 DEF YieldScan
    <2> QED BY <2>1 DEF YieldHonoured
  <1>5. CASE YieldSwitch
    <2>1. pc' = [pc EXCEPT ![current] = AfterYield[@]] /\ current' \in Task
      BY Zenon, <1>5, SwitchFacts DEF YieldReturn, SwitchTo, GoTo, DataOK, cpu
    <2>2. pc'[current'] \notin DOMAIN AfterYield
      BY Zenon, <1>5, <2>1, SwitchFacts DEF YieldState, DataOK
    <2> QED BY <2>2, <1>2
  <1>6. CASE IdleLoop \/ SysYield \/ SysExit \/ UserFault \/ TimerTick
    <2>1. need_reschedule' = TRUE
      BY <1>6, Zenon DEF IdleLoop, SysYield, SysExit, UserFault, DoExit, TimerTick
    <2> QED BY <2>1, <1>1
  <1>7. CASE IdleWakes \/ SysWait \/ SysRead \/ GetChar \/ Reap
    <2>1. current' = current /\ pc'[current] \in {"idle", "wait", "read", "user"}
      BY <1>7, ZenonT(40) DEF IdleWakes, SysWait, SysRead, GetChar, Reap, GoTo, cpu, DataOK
    <2> QED BY Zenon, <2>1, <1>2
  <1>8. CASE WaitForChild \/ WaitForInput
    <2>1. need_reschedule' = TRUE \/ GoTo("reap") \/ GoTo("getc")
      BY <1>8, Zenon DEF WaitForChild, WaitForInput, WaitEvent
    <2>2. GoTo("reap") \/ GoTo("getc") => pc'[current] \in {"reap", "getc"}
      BY Zenon DEF GoTo, DataOK
    <2>3. current' = current
      BY Zenon, <1>8 DEF WaitForChild, WaitForInput, cpu
    <2> QED BY <2>1, <2>2, <2>3, <1>1, <1>2, ZenonT(40)
  <1>9. CASE SysFork
    <2>1. current' = current /\ pc'[current] = "user"
      <3>1. PICK child \in Structs :
               pc' = [pc EXCEPT ![child] = "user"] /\ current' = current
        BY <1>9, ForkFacts, Zenon
      <3>2. pc[current] = "user"
        BY <1>9, Zenon DEF SysFork, Calls, At
      <3> QED BY <3>1, <3>2 DEF DataOK
    <2> QED BY Zenon, <2>1, <1>2
  <1>10. ASSUME NEW p \in Slot, SysKill(p) PROVE YieldHonoured'
    BY <1>10, ZenonT(40) DEF SysKill, YieldHonoured, cpu, yield
  <1>11. CASE UartReceive
    BY Zenon, <1>11 DEF UartReceive, YieldHonoured, cpu, yield
  <1>12. CASE UNCHANGED vars
    BY <1>12 DEF vars, cpu, yield, YieldHonoured
  <1> QED BY Zenon, <1>3, <1>4, <1>5, <1>6, <1>7, <1>8, <1>9, <1>10, <1>11, <1>12
          DEF Next, KernelStep, UserStep, Yielding, Blocking, Idling

\* The core invariant is preserved by every step.
LEMMA CoreStep == CoreInv /\ [Next]_vars => CoreInv'
  BY Zenon, TypeStep, IdleApartStep, YieldStateStep, RunnerStep, FindsStep, HonouredStep
     DEF CoreInv

-----------------------------------------------------------------------------
(* The task table, and the theorems about the specification *)


\* Nobody is its own parent, and kmalloc's free list holds nothing twice.
TableSound ==
    /\ TableConsistent
    /\ \A i \in Slot : tasks[i] # NULL => ppid[tasks[i]] # i
    /\ \A i, j \in 1 .. Len(freelist) : freelist[i] = freelist[j] => i = j

\* The inductive invariant.
IInv == CoreInv /\ TableSound

-----------------------------------------------------------------------------
(* The initial state *)

\* The state scheduler_start() leaves satisfies the invariant.
LEMMA InitInv == Init => IInv
  <1> SUFFICES ASSUME Init PROVE IInv
    BY Zenon
  <1> USE ConstantFacts, AfterYieldFacts, ProcessAssumption
  <1>1. freelist \in Seq(Structs)
    <2>1. Cardinality(Structs) \in Nat
      BY FS_CardinalityType
    <2> QED BY SMTT(30), <2>1 DEF Init
  <1>2. TypeOK
    <2>1. BoolOK
      BY Zenon DEF Init, BoolOK
    <2>2. DataOK
      BY SMTT(30), <1>1 DEF Init, DataOK, Locations, States, Queues
    <2> QED BY <2>1, <2>2 DEF TypeOK, BoolOK, DataOK
  <1>3. IdleApart /\ YieldState
    BY DEF Init, IdleApart, YieldState, IdlePlaces
  <1>4. TableSound
    <2>1. {i \in Slot : tasks[i] # NULL} = {0, 1}
      BY Zenon DEF Init
    <2>2. Cardinality({0, 1}) = 2
      <3>1. IsFiniteSet({0}) /\ Cardinality({0}) = 1
        BY FS_Singleton, Zenon
      <3>2. Cardinality({0} \cup {1}) = Cardinality({0}) + 1
        <4>1. 1 \notin {0}
          OBVIOUS
        <4> QED BY <3>1, <4>1, FS_AddElement, Zenon
      <3>3. {0} \cup {1} = {0, 1}
        BY Zenon
      <3> QED BY <3>1, <3>2, <3>3
    <2>3. \A k \in 1 .. Len(freelist) : ~InTable(freelist[k])
      <3>1. ASSUME NEW k \in 1 .. Len(freelist) PROVE freelist[k] \in Structs
        BY SMTT(30), <1>1
      <3>2. \A i \in Slot : tasks[i] \notin Structs
        BY Zenon, ProcessAssumption DEF Init, Task
      <3> QED BY Zenon, <3>1, <3>2 DEF InTable
    <2>4. \A i, j \in 1 .. Len(freelist) : freelist[i] = freelist[j] => i = j
      BY SMTT(30), <1>1, FS_CardinalityType DEF Init
    <2> QED BY <2>1, <2>2, <2>3, <2>4, Zenon DEF Init, TableSound, TableConsistent
  <1>5. IdleAlwaysReady /\ SchedulerFindsTask /\ OneRunner /\ YieldHonoured
    BY Zenon DEF Init, IdleAlwaysReady, SchedulerFindsTask, OneRunner, YieldHonoured
  <1> QED BY Zenon, <1>2, <1>3, <1>4, <1>5 DEF IInv, CoreInv

-----------------------------------------------------------------------------
(* The task table *)

\* Forks, reaps and switches keep the table, its count and the free list sound.
LEMMA TableStep == IInv /\ [Next]_vars => TableSound'
  <1> SUFFICES ASSUME DataOK, IdleApart, YieldState, TableSound, IdleAlwaysReady,
                      SchedulerFindsTask, [Next]_vars
               PROVE  TableSound'
    BY DEF IInv, CoreInv, TypeOK, DataOK
  <1> USE ConstantFacts
  <1> DEFINE used == {i \in Slot : tasks[i] # NULL}
  <1>1. IsFiniteSet(used)
    <2>1. IsFiniteSet(Slot)
      BY FS_Interval DEF Slot
    <2>2. used \subseteq Slot
      BY Zenon
    <2> QED BY Zenon, <2>1, <2>2, FS_Subset
  <1>2. CASE UNCHANGED <<table, cpu, ids, freelist>>
    BY Zenon, <1>2 DEF TableSound, TableConsistent, InTable, table, cpu, ids
  <1>3. CASE YieldSwitch
    <2>1. CASE UNCHANGED cpu
      BY Zenon, <1>2, <1>3, <2>1, SwitchFacts
    <2>2. ASSUME NEW i \in Slot, SwitchTo(i) PROVE tasks'[current_index'] = current'
      BY Zenon, <1>3, <2>2, SwitchFacts DEF SwitchTo, table
    <2>3. tasks'[current_index'] = current'
      BY <1>2, <1>3, <2>2, SwitchFacts, ZenonT(40) DEF cpu, table, TableSound, TableConsistent
    <2> QED BY SMTT(30), <1>3, <2>3, SwitchFacts DEF TableSound, TableConsistent, InTable, table, ids
  <1>4. CASE SysFork
    <2>1. PICK slot \in Slot, child \in Structs :
              /\ slot >= 2 /\ tasks[slot] = NULL
              /\ freelist # <<>> /\ child = Head(freelist) /\ freelist' = Tail(freelist)
              /\ tasks' = [tasks EXCEPT ![slot] = child] /\ task_count' = task_count + 1
              /\ pid' = [pid EXCEPT ![child] = slot]
              /\ ppid' = [ppid EXCEPT ![child] = pid[current]]
              /\ UNCHANGED <<current, current_index>>
      BY <1>4, ForkFacts, Zenon
    <2>2. child = freelist[1] /\ Len(freelist) \in Nat /\ Len(freelist) >= 1
          /\ Len(freelist') = Len(freelist) - 1
          /\ \A k \in 1 .. Len(freelist') : k + 1 \in 1 .. Len(freelist)
                                            /\ freelist'[k] = freelist[k + 1]
      BY <2>1 DEF DataOK
    <2>3. \A i \in Slot : tasks[i] # child
      <3>1. 1 \in 1 .. Len(freelist)
        BY <2>2
      <3>2. ~InTable(freelist[1])
        BY <3>1, Zenon DEF TableSound, TableConsistent
      <3> QED BY <2>2, <3>2, Zenon DEF InTable
    <2>4. tasks[current_index] = current /\ pid[current] = current_index
      BY Zenon DEF TableSound, TableConsistent, DataOK
    <2>5. current # child /\ slot # current_index
      BY Zenon, <2>1, <2>3, <2>4 DEF DataOK
    <2>6. tasks'[current_index'] = current'
      BY Zenon, <2>1, <2>4, <2>5 DEF DataOK
    <2>7. \A i \in Slot : tasks'[i] # NULL => pid'[tasks'[i]] = i /\ ppid'[tasks'[i]] # i
      <3> SUFFICES ASSUME NEW i \in Slot, tasks'[i] # NULL
                   PROVE  pid'[tasks'[i]] = i /\ ppid'[tasks'[i]] # i
        BY Zenon
      <3>1. CASE i = slot
        BY Zenon, <2>1, <2>4, <2>5, <3>1 DEF DataOK
      <3>2. CASE i # slot
        <4>1. tasks'[i] = tasks[i] /\ tasks[i] \in Task /\ tasks[i] # child
          BY Zenon, <2>1, <2>3, <3>2 DEF DataOK
        <4> QED BY <2>1, <4>1, ZenonT(40) DEF TableSound, TableConsistent, DataOK
      <3> QED BY Zenon, <3>1, <3>2
    <2>8. task_count' = Cardinality({i \in Slot : tasks'[i] # NULL})
      <3>1. {i \in Slot : tasks'[i] # NULL} = used \cup {slot}
        BY <2>1 DEF DataOK
      <3>2. slot \notin used
        BY <2>1
      <3>3. Cardinality(used \cup {slot}) = Cardinality(used) + 1
        BY <1>1, <3>2, FS_AddElement, Zenon
      <3> QED BY <2>1, <3>1, <3>3, Zenon DEF TableSound, TableConsistent
    <2>9. \A k \in 1 .. Len(freelist') : freelist'[k] # child
      BY SMTT(30), <2>2 DEF TableSound
    <2>10. \A k \in 1 .. Len(freelist') : \A i \in Slot : tasks'[i] # freelist'[k]
      BY SMTT(30), <2>1, <2>2, <2>9 DEF TableSound, TableConsistent, InTable, DataOK
    <2>11. \A i, j \in 1 .. Len(freelist') : freelist'[i] = freelist'[j] => i = j
      BY SMTT(30), <2>2 DEF TableSound
    <2> QED BY <2>6, <2>7, <2>8, <2>10, <2>11, ZenonT(40) DEF TableSound, TableConsistent, InTable
  <1>5. CASE Reap /\ ZombieChildren(pid[current]) # {}
    <2>1. PICK slot \in Slot :
              /\ slot # 0 /\ tasks[slot] \in Structs /\ ppid[tasks[slot]] = pid[current]
              /\ tasks' = [tasks EXCEPT ![slot] = NULL]
              /\ task_count' = IF task_count > 0 THEN task_count - 1 ELSE 0
              /\ freelist' = <<tasks[slot]>> \o freelist
      BY <1>5, ReapFacts, Zenon
    <2> DEFINE dead == tasks[slot]
    <2>a. UNCHANGED <<current, current_index, pid, ppid>>
      BY <1>5, Zenon DEF Reap, cpu, ids
    <2>b. slot # current_index
      <3>1. pid[current] = current_index
        BY DEF TableSound, TableConsistent, DataOK
      <3> QED BY Zenon, <2>1, <3>1 DEF TableSound
    <2>2. dead \in Task /\ dead # NULL
      BY <2>1, ZenonT(40)
    <2>3. \A i \in Slot : tasks[i] = dead => i = slot
      BY Zenon, <2>1, <2>2 DEF TableSound, TableConsistent
    <2>4. \A k \in 1 .. Len(freelist) : freelist[k] # dead
      BY <2>1 DEF TableSound, TableConsistent, InTable
    <2>c. freelist' = <<dead>> \o freelist /\ dead \in Structs
      BY <2>1, Zenon
    <2> HIDE DEF dead
    <2>5. /\ Len(freelist) \in Nat /\ Len(freelist') = Len(freelist) + 1 /\ freelist'[1] = dead
          /\ \A k \in 2 .. Len(freelist') : k - 1 \in 1 .. Len(freelist)
                                            /\ freelist'[k] = freelist[k - 1]
      <3>1. freelist \in Seq(Structs)
        BY Zenon DEF DataOK
      <3> QED BY SMTT(30), <2>c, <3>1
    <2>6. tasks'[current_index'] = current'
      BY Zenon, <2>1, <2>a, <2>b DEF TableSound, TableConsistent, DataOK
    <2>7. \A i \in Slot : tasks'[i] # NULL => pid'[tasks'[i]] = i /\ ppid'[tasks'[i]] # i
      BY Zenon, <2>1, <2>a DEF TableSound, TableConsistent, DataOK
    <2>8. task_count' = Cardinality({i \in Slot : tasks'[i] # NULL})
      <3>1. {i \in Slot : tasks'[i] # NULL} = used \ {slot}
        BY Zenon, <2>1 DEF DataOK
      <3>2. slot \in used
        BY Zenon, <2>1, <2>2 DEF dead
      <3>3. Cardinality(used \ {slot}) = Cardinality(used) - 1
        BY <1>1, <3>2, FS_RemoveElement, ZenonT(40)
      <3>4. Cardinality(used) \in Nat /\ Cardinality(used) # 0
        BY Zenon, <1>1, <3>2, FS_CardinalityType, FS_EmptySet
      <3>5. task_count = Cardinality(used)
        BY Zenon DEF TableSound, TableConsistent
      <3> HIDE DEF used
      <3>6. task_count' = Cardinality(used) - 1
        BY SMTT(30), <2>1, <3>4, <3>5
      <3> QED BY Zenon, <3>1, <3>3, <3>6
    <2>9. \A k \in 1 .. Len(freelist') : \A i \in Slot : tasks'[i] # freelist'[k]
      <3> SUFFICES ASSUME NEW k \in 1 .. Len(freelist'), NEW i \in Slot,
                          tasks'[i] = freelist'[k]
                   PROVE  FALSE
        OBVIOUS
      <3>1. CASE k = 1
        BY <2>1, <2>2, <2>3, <2>5, <3>1, ZenonT(40) DEF DataOK
      <3>2. CASE k # 1
        <4>1. k \in 2 .. Len(freelist')
          BY SMTT(30), <2>5, <3>2
        <4>2. freelist[k - 1] \in Structs /\ tasks'[i] = freelist[k - 1]
              /\ ~InTable(freelist[k - 1])
          BY SMTT(30), <2>5, <4>1 DEF DataOK, TableSound, TableConsistent
        <4> QED BY <2>1, <4>2, ZenonT(40) DEF InTable, DataOK
      <3> QED BY Zenon, <3>1, <3>2
    <2>10. \A i, j \in 1 .. Len(freelist') : freelist'[i] = freelist'[j] => i = j
      <3> SUFFICES ASSUME NEW i \in 1 .. Len(freelist'), NEW j \in 1 .. Len(freelist'),
                          freelist'[i] = freelist'[j]
                   PROVE  i = j
        BY Zenon
      <3>1. CASE i = 1 \/ j = 1
        BY <2>4, <2>5, <3>1
      <3>2. CASE i # 1 /\ j # 1
        <4>1. /\ i - 1 \in 1 .. Len(freelist) /\ j - 1 \in 1 .. Len(freelist)
              /\ freelist[i - 1] = freelist[j - 1]
          BY <2>5, <3>2
        <4>2. i - 1 = j - 1
          BY <4>1, Zenon DEF TableSound
        <4> QED BY <4>2
      <3> QED BY <3>1, <3>2
    <2> QED BY <2>6, <2>7, <2>8, <2>9, <2>10, ZenonT(40) DEF TableSound, TableConsistent, InTable
  <1>6. CASE Reap /\ ZombieChildren(pid[current]) = {}
    BY Zenon, <1>2, <1>6 DEF Reap
  <1>7. CASE \/ YieldGate \/ YieldScan \/ Idling \/ WaitForChild \/ WaitForInput \/ GetChar
             \/ SysYield \/ SysExit \/ SysWait \/ SysRead \/ UserFault
             \/ (\E p \in Slot : SysKill(p)) \/ TimerTick \/ UartReceive \/ UNCHANGED vars
    BY <1>2, <1>7, Zenon DEF YieldGate, YieldScan, Idling, IdleLoop, IdleWakes, WaitForChild,
       WaitForInput, GetChar, SysYield, SysExit, SysWait, SysRead, UserFault, DoExit,
       SysKill, TimerTick, UartReceive, vars
  <1> QED BY Zenon, <1>3, <1>4, <1>5, <1>6, <1>7
          DEF Next, KernelStep, UserStep, Yielding, Blocking

-----------------------------------------------------------------------------
(* Theorems *)

\* IInv is an invariant.
THEOREM Invariance == Spec => []IInv
  <1>1. IInv /\ [Next]_vars => IInv'
    BY CoreStep, TableStep DEF IInv
  <1> QED BY <1>1, InitInv, PTL DEF Spec

\* Every variable of the process core keeps its type, for every workload.
THEOREM TypeCorrect == Spec => []TypeOK
  <1>1. IInv => TypeOK
    BY Zenon DEF IInv, CoreInv
  <1> QED BY <1>1, Invariance, PTL

\* scheduler_yield() always has the idle task to fall back on.
THEOREM IdleIsAlwaysReady == Spec => []IdleAlwaysReady
  <1>1. IInv => IdleAlwaysReady
    BY Zenon DEF IInv, CoreInv
  <1> QED BY <1>1, Invariance, PTL

\* The fallbacks and PANICs of scheduler_yield() are dead code.
THEOREM SchedulerNeverPanics == Spec => []SchedulerFindsTask
  <1>1. IInv => SchedulerFindsTask
    BY Zenon DEF IInv, CoreInv
  <1> QED BY <1>1, Invariance, PTL

\* The task table, its counter, the pids and the free list agree.
THEOREM TableIsConsistent == Spec => []TableConsistent
  <1>1. IInv => TableConsistent
    BY Zenon DEF IInv, TableSound
  <1> QED BY <1>1, Invariance, PTL

\* At most one task is RUNNING, and nobody falls through the gate of
\* scheduler_yield().
THEOREM RunnerAndGate == Spec => []RunnerSound
  <1>1. IInv => RunnerSound
    BY DEF IInv, CoreInv, RunnerSound
  <1> QED BY <1>1, Invariance, PTL
=============================================================================
