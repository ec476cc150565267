--------------------------- MODULE WaitQueueProofs ---------------------------
(***************************************************************************)
(* Proofs that the wait queues of Process are exact and lose no wake-up,   *)
(* for every workload without kill and every size of the tables.           *)
(***************************************************************************)
EXTENDS ProcessProofs

-----------------------------------------------------------------------------
(* Linked lists: what a chain of wait_next pointers holds, and what pushing  *)
(* and popping does to it.  No induction is needed: a chain is a least set.  *)

\* S holds whatever a pointer of one of its tasks leads to.
Closed(next, S) == \A u \in S : next[u] \in Task => next[u] \in S

\* Chain() as a function of the pointers.
ChainOf(next, h) ==
    {t \in Task : \A S \in SUBSET Task : (h \in Task => h \in S) /\ Closed(next, S) => t \in S}

\* No task of the chain is reached again from its successor.
Acyclic(next, h) == \A t \in ChainOf(next, h) : t \notin ChainOf(next, next[t])

\* Chain() of the module is the chain of the pointers as they are.
LEMMA ChainIs == \A h : Chain(h) = ChainOf(wait_next, h)
  BY DEF Chain, ChainOf, Closed

\* A chain holds its head, is closed, and is within every such set.
LEMMA ChainLeast ==
  ASSUME NEW next, NEW h
  PROVE  /\ ChainOf(next, h) \subseteq Task
         /\ h \in Task => h \in ChainOf(next, h)
         /\ Closed(next, ChainOf(next, h))
         /\ \A S \in SUBSET Task : (h \in Task => h \in S) /\ Closed(next, S)
                                     => ChainOf(next, h) \subseteq S
  <1>1. ChainOf(next, h) \subseteq Task
    BY DEF ChainOf
  <1>2. h \in Task => h \in ChainOf(next, h)
    BY DEF ChainOf
  <1>3. \A S \in SUBSET Task : (h \in Task => h \in S) /\ Closed(next, S)
                                     => ChainOf(next, h) \subseteq S
    BY DEF ChainOf
  <1>4. ASSUME NEW u \in ChainOf(next, h), next[u] \in Task PROVE next[u] \in ChainOf(next, h)
    <2> SUFFICES ASSUME NEW S \in SUBSET Task, h \in Task => h \in S, Closed(next, S)
                 PROVE  next[u] \in S
      BY <1>4 DEF ChainOf
    <2>1. u \in S
      BY <1>3
    <2> QED BY <1>4, <2>1 DEF Closed
  <1>5. Closed(next, ChainOf(next, h))
    BY <1>4 DEF Closed
  <1> QED BY Zenon, <1>1, <1>2, <1>3, <1>5

\* The empty queue.
LEMMA ChainOfNull ==
  ASSUME NEW next, NEW h, h \notin Task
  PROVE  ChainOf(next, h) = {}
  <1>1. Closed(next, {})
    BY DEF Closed
  <1> QED BY Zenon, <1>1, ChainLeast

\* The chain of a task of a chain is part of that chain.
LEMMA ChainWithin ==
  ASSUME NEW next, NEW h, NEW u \in ChainOf(next, h)
  PROVE  ChainOf(next, next[u]) \subseteq ChainOf(next, h)
  <1>1. next[u] \in Task => next[u] \in ChainOf(next, h)
    BY ChainLeast DEF Closed
  <1> QED BY <1>1, ChainLeast

\* The first task of a queue and the others.
LEMMA ChainUnfold ==
  ASSUME NEW next, NEW h \in Task
  PROVE  ChainOf(next, h) = {h} \cup ChainOf(next, next[h])
  <1> DEFINE rest == ChainOf(next, next[h])
             S == {h} \cup rest
  <1>1. /\ h \in ChainOf(next, h) /\ rest \subseteq Task
        /\ next[h] \in Task => next[h] \in rest
    BY ChainLeast
  <1>2. rest \subseteq ChainOf(next, h)
    BY Zenon, <1>1, ChainWithin
  <1>3. Closed(next, rest)
    BY ChainLeast
  <1> HIDE DEF rest
  <1>4. Closed(next, S)
    BY <1>1, <1>3 DEF Closed
  <1>5. S \in SUBSET Task /\ h \in S
    BY <1>1
  <1>6. ChainOf(next, h) \subseteq S
    BY Zenon, <1>4, <1>5, ChainLeast
  <1> QED BY Zenon, <1>1, <1>2, <1>6 DEF rest

\* A chain depends on the pointers of its own tasks only.
LEMMA ChainFrame ==
  ASSUME NEW next, NEW new, NEW h, \A t \in ChainOf(next, h) : new[t] = next[t]
  PROVE  ChainOf(new, h) = ChainOf(next, h)
  <1> DEFINE A == ChainOf(next, h)
             B == ChainOf(new, h)
             S == A \cap B
  <1>1. /\ A \subseteq Task /\ (h \in Task => h \in A)
        /\ Closed(next, A)
    BY ChainLeast
  <1>2. /\ B \subseteq Task /\ (h \in Task => h \in B)
        /\ Closed(new, B)
    BY ChainLeast
  <1>3. Closed(new, A)
    BY <1>1 DEF Closed
  <1>4. B \subseteq A
    <2>1. A \in SUBSET Task /\ (h \in Task => h \in A)
      BY <1>1
    <2> HIDE DEF A
    <2> QED BY Zenon, <1>3, <2>1, ChainLeast
  <1>5. Closed(next, S)
    BY Zenon, <1>1, <1>2 DEF Closed
  <1>6. S \in SUBSET Task /\ (h \in Task => h \in S)
    BY Zenon, <1>1, <1>2
  <1>7. A \subseteq S
    BY Zenon, <1>5, <1>6, ChainLeast
  <1> QED BY <1>4, <1>7

\* Changing pointers outside a queue leaves it as it was.
LEMMA KeepQueue ==
  ASSUME NEW next, NEW new, NEW h, \A t \in ChainOf(next, h) : new[t] = next[t],
         Acyclic(next, h)
  PROVE  ChainOf(new, h) = ChainOf(next, h) /\ Acyclic(new, h)
  <1>1. ChainOf(new, h) = ChainOf(next, h)
    BY ChainFrame
  <1>2. ASSUME NEW t \in ChainOf(next, h) PROVE t \notin ChainOf(new, new[t])
    <2>1. ChainOf(next, next[t]) \subseteq ChainOf(next, h)
      BY ChainWithin
    <2>2. ChainOf(new, next[t]) = ChainOf(next, next[t])
      BY Zenon, <2>1, ChainFrame
    <2> QED BY <2>2 DEF Acyclic
  <1> QED BY Zenon, <1>1, <1>2 DEF Acyclic

\* wait_event() puts a task that is on no queue in front of the queue.
LEMMA PushQueue ==
  ASSUME NEW next, NEW h, NEW t \in Task, NEW new, t \notin ChainOf(next, h), Acyclic(next, h),
         new[t] = h, \A u \in Task : u # t => new[u] = next[u]
  PROVE  ChainOf(new, t) = {t} \cup ChainOf(next, h) /\ Acyclic(new, t)
  <1>1. \A u \in ChainOf(next, h) : new[u] = next[u] /\ u \in Task
    BY ChainLeast
  <1>2. ChainOf(new, h) = ChainOf(next, h) /\ Acyclic(new, h)
    BY <1>1, KeepQueue
  <1>3. ChainOf(new, t) = {t} \cup ChainOf(new, h)
    BY Zenon, ChainUnfold
  <1> QED BY Zenon, <1>2, <1>3 DEF Acyclic

\* wake_up() takes the first task off the queue.
LEMMA PopQueue ==
  ASSUME NEW next, NEW h \in Task, NEW new, Acyclic(next, h),
         \A u \in Task : u # h => new[u] = next[u]
  PROVE  /\ ChainOf(new, next[h]) = ChainOf(next, h) \ {h}
         /\ Acyclic(new, next[h]) /\ h \in ChainOf(next, h)
  <1> DEFINE rest == ChainOf(next, next[h])
  <1>1. ChainOf(next, h) = {h} \cup rest
    BY ChainUnfold
  <1>2. h \notin rest
    BY Zenon, <1>1 DEF Acyclic
  <1>3. \A u \in rest : new[u] = next[u]
    BY Zenon, <1>2, ChainLeast
  <1>4. Acyclic(next, next[h])
    BY <1>1 DEF Acyclic
  <1>5. ChainOf(new, next[h]) = rest /\ Acyclic(new, next[h])
    BY Zenon, <1>3, <1>4, KeepQueue
  <1> QED BY Zenon, <1>1, <1>2, <1>5

-----------------------------------------------------------------------------
(* The inductive invariant *)

WaitPlaces == {"wait", "wait_yield"}
ReadPlaces == {"read", "read_yield"}

Waiters == ChainOf(wait_next, wq["parent_wq"])
Readers == ChainOf(wait_next, wq["uart_rx_wq"])

\* A task that is not in scheduler_yield() is not BLOCKED and no zombie: it
\* does not come back from the call before it is woken.
Awake == pc[current] \notin DOMAIN AfterYield => state[current] \in {"READY", "RUNNING"}

\* Without kill a zombie is a task that ended itself.
ZombiePlace == \A t \in Task : state[t] = "ZOMBIE" => pc[t] \in {"exit_yield", "halted"}

QInv == IInv /\ QueueDiscipline /\ NoLostInput /\ NoLostExit /\ Awake /\ ZombiePlace

\* QueueDiscipline in terms of ChainOf.
Exact ==
    /\ Waiters \cup Readers = {t \in Task : Blocked(t)}
    /\ \A t \in Waiters : pc[t] \in WaitPlaces
    /\ \A t \in Readers : pc[t] \in ReadPlaces
    /\ Acyclic(wait_next, wq["parent_wq"]) /\ Acyclic(wait_next, wq["uart_rx_wq"])

\* It is the same formula.
LEMMA ExactIs == (QueueDiscipline <=> Exact) /\ (QueueDiscipline' <=> Exact')
  <1>1. \A h : Chain(h) = ChainOf(wait_next, h)
    BY ChainIs
  <1>2. \A h : Chain(h)' = ChainOf(wait_next', h)
    BY Zenon DEF Chain, ChainOf, Closed
  <1>3. QueueDiscipline <=> Exact
    BY Zenon, <1>1 DEF QueueDiscipline, Exact, Waiters, Readers, Acyclic, WaitPlaces, ReadPlaces
  <1>4. QueueDiscipline' <=> Exact'
    BY Zenon, <1>2 DEF QueueDiscipline, Exact, Waiters, Readers, Acyclic, WaitPlaces, ReadPlaces, Chain, ChainOf, Closed
  <1> QED BY Zenon, <1>3, <1>4

\* What the invariant says of the tasks on the queues.
LEMMA Members ==
  ASSUME Exact
  PROVE  /\ Waiters \subseteq Task /\ Readers \subseteq Task
         /\ Waiters \cap Readers = {}
         /\ \A t \in Task : Blocked(t) <=> t \in Waiters \cup Readers
         /\ \A t \in Task : Blocked(t) /\ pc[t] \in WaitPlaces => t \in Waiters
         /\ \A t \in Task : Blocked(t) /\ pc[t] \in {"read", "read_yield", "getc"} => t \in Readers
  <1>1. Waiters \subseteq Task /\ Readers \subseteq Task
    BY ChainLeast DEF Waiters, Readers
  <1>2. Waiters \cap Readers = {}
    BY DEF Exact, WaitPlaces, ReadPlaces
  <1>3. \A t \in Task : Blocked(t) <=> t \in Waiters \cup Readers
    BY Zenon DEF Exact
  <1> QED BY Zenon, <1>1, <1>2, <1>3 DEF Exact, WaitPlaces, ReadPlaces

\* Facts the table invariant gives about the current task.
LEMMA CurrentFacts ==
  ASSUME IInv
  PROVE  /\ current \in Task /\ InTable(current) /\ DataOK
         /\ \A t \in Task : pc[t] \in Locations
         /\ IdleApart /\ YieldState /\ IdleAlwaysReady /\ SchedulerFindsTask
         /\ OneRunner /\ YieldHonoured /\ TableSound /\ TableConsistent
  BY DEF IInv, CoreInv, TypeOK, DataOK, TableSound, TableConsistent, InTable

\* A task that executes outside of scheduler_yield() is on no queue.
LEMMA CurrentAwake ==
  ASSUME QInv, pc[current] \notin DOMAIN AfterYield
  PROVE  ~Blocked(current) /\ state[current] # "ZOMBIE"
         /\ current \notin Waiters /\ current \notin Readers
  <1>1. state[current] \in {"READY", "RUNNING"}
    BY DEF QInv, Awake
  <1>2. Exact
    BY ExactIs DEF QInv
  <1>3. current \in Task
    BY CurrentFacts DEF QInv
  <1> QED BY Zenon, <1>1, <1>2, <1>3, Members DEF Blocked

-----------------------------------------------------------------------------
(* Steps that wake and block nobody *)

Quiet ==
    /\ wq' = wq
    /\ \A t \in Task : Blocked(t)' <=> Blocked(t)
    /\ \A t \in Task : Blocked(t) =>
          /\ wait_next'[t] = wait_next[t] /\ pid'[t] = pid[t]
          /\ \/ pc'[t] = pc[t]
             \/ pc[t] \in DOMAIN AfterYield /\ pc'[t] = AfterYield[pc[t]]
    /\ \A p \in Slot : ZombieChildren(p)' \subseteq ZombieChildren(p)

\* They keep the queues exact, and nobody misses an exit.
LEMMA QuietKeeps ==
  ASSUME QInv, Quiet
  PROVE  /\ Exact' /\ NoLostExit'
         /\ \A t \in Task : Blocked(t)' /\ Reader(t)' => Blocked(t) /\ Reader(t)
  <1>1. Exact
    BY Zenon, ExactIs DEF QInv
  <1>2. \A t \in Waiters \cup Readers : t \in Task /\ wait_next'[t] = wait_next[t]
    BY Zenon, <1>1, Members DEF Quiet
  <1>3. Waiters' = Waiters /\ Acyclic(wait_next', wq'["parent_wq"])
    <2>1. \A t \in ChainOf(wait_next, wq["parent_wq"]) : wait_next'[t] = wait_next[t]
      BY Zenon, <1>2 DEF Waiters
    <2>2. /\ ChainOf(wait_next', wq["parent_wq"]) = ChainOf(wait_next, wq["parent_wq"])
          /\ Acyclic(wait_next', wq["parent_wq"])
      BY Zenon, <1>1, <2>1, KeepQueue DEF Exact
    <2> QED BY <2>2 DEF Quiet, Waiters
  <1>4. Readers' = Readers /\ Acyclic(wait_next', wq'["uart_rx_wq"])
    <2>1. \A t \in ChainOf(wait_next, wq["uart_rx_wq"]) : wait_next'[t] = wait_next[t]
      BY Zenon, <1>2 DEF Readers
    <2>2. /\ ChainOf(wait_next', wq["uart_rx_wq"]) = ChainOf(wait_next, wq["uart_rx_wq"])
          /\ Acyclic(wait_next', wq["uart_rx_wq"])
      BY Zenon, <1>1, <2>1, KeepQueue DEF Exact
    <2> QED BY <2>2 DEF Quiet, Readers
  <1>5. /\ \A t \in Waiters : pc'[t] \in WaitPlaces
        /\ \A t \in Readers : pc'[t] \in ReadPlaces
    <2>1. /\ AfterYield["wait_yield"] = "wait" /\ AfterYield["read_yield"] = "read"
          /\ "wait" \notin DOMAIN AfterYield /\ "read" \notin DOMAIN AfterYield
      BY DEF AfterYield
    <2>2. ASSUME NEW t \in Waiters PROVE pc'[t] \in WaitPlaces
      <3>1. /\ pc[t] \in WaitPlaces
            /\ \/ pc'[t] = pc[t]
               \/ pc[t] \in DOMAIN AfterYield /\ pc'[t] = AfterYield[pc[t]]
        BY Zenon, <1>1, <2>2, Members DEF Quiet, Exact
      <3> QED BY Zenon, <2>1, <3>1 DEF WaitPlaces
    <2>3. ASSUME NEW t \in Readers PROVE pc'[t] \in ReadPlaces
      <3>1. /\ pc[t] \in ReadPlaces
            /\ \/ pc'[t] = pc[t]
               \/ pc[t] \in DOMAIN AfterYield /\ pc'[t] = AfterYield[pc[t]]
        BY Zenon, <1>1, <2>3, Members DEF Quiet, Exact
      <3> QED BY Zenon, <2>1, <3>1 DEF ReadPlaces
    <2> QED BY Zenon, <2>2, <2>3
  <1>6. {t \in Task : Blocked(t)'} = {t \in Task : Blocked(t)}
    BY DEF Quiet
  <1>7. Exact'
    BY <1>1, <1>3, <1>4, <1>5, <1>6, Zenon DEF Exact
  <1>8. NoLostExit'
    <2> SUFFICES ASSUME NEW t \in Task, Blocked(t)', pc'[t] \in WaitPlaces
                 PROVE  ZombieChildren(pid[t])' = {}
      BY DEF NoLostExit, WaitPlaces
    <2>1. Blocked(t) /\ pid'[t] = pid[t]
      BY DEF Quiet
    <2>2. t \in Waiters
      BY Zenon, <1>1, <1>5, <2>1, Members DEF WaitPlaces, ReadPlaces
    <2>3. ZombieChildren(pid[t]) = {}
      BY Zenon, <1>1, <2>1, <2>2 DEF Exact, WaitPlaces, QInv, NoLostExit
    <2>4. pid[t] \in Slot
      BY Zenon, CurrentFacts DEF QInv, DataOK
    <2>5. \A p \in Slot : ZombieChildren(p)' = {i \in Slot : /\ tasks'[i] # NULL
                                   /\ ppid'[tasks'[i]] = p /\ state'[tasks'[i]] = "ZOMBIE"}
      BY DEF ZombieChildren
    <2>6. ZombieChildren(pid[t])' = {i \in Slot : /\ tasks'[i] # NULL
                                   /\ ppid'[tasks'[i]] = pid'[t] /\ state'[tasks'[i]] = "ZOMBIE"}
      BY Zenon DEF ZombieChildren
    <2>7. {i \in Slot : /\ tasks'[i] # NULL
                        /\ ppid'[tasks'[i]] = pid[t] /\ state'[tasks'[i]] = "ZOMBIE"} = {}
      BY <2>3, <2>4, <2>5 DEF Quiet
    <2> QED BY Zenon, <2>1, <2>6, <2>7
  <1>9. ASSUME NEW t \in Task, Blocked(t)', Reader(t)' PROVE Blocked(t) /\ Reader(t)
    <2>1. Blocked(t)
      BY Zenon, <1>9 DEF Quiet
    <2>2. t \in Readers
      BY Zenon, <1>1, <1>5, <1>9, <2>1, Members DEF Reader, WaitPlaces
    <2> QED BY Zenon, <1>1, <2>1, <2>2 DEF Exact, Reader, ReadPlaces, Blocked
  <1> QED BY Zenon, <1>7, <1>8, <1>9

\* The pool of task_structs is finite, so the tasks that read can be counted.
AwakeReaders == {t \in Task : Reader(t) /\ ~Blocked(t)}

\* Any set of tasks is finite.
LEMMA TasksFinite ==
  /\ IsFiniteSet(Task)
  /\ \A S \in SUBSET Task : IsFiniteSet(S) /\ Cardinality(S) \in Nat
  <1>1. IsFiniteSet(Structs \cup {IdleTask})
    BY ProcessAssumption, FS_AddElement, Zenon
  <1>2. IsFiniteSet((Structs \cup {IdleTask}) \cup {InitTask})
    BY <1>1, FS_AddElement, Zenon
  <1>3. (Structs \cup {IdleTask}) \cup {InitTask} = Task
    BY DEF Task
  <1>4. IsFiniteSet(Task)
    BY Zenon, <1>2, <1>3
  <1> QED BY Zenon, <1>4, FS_Subset, FS_CardinalityType

\* A quiet step that keeps the ring and the readers that are awake keeps the
\* input invariant.
LEMMA ReadersKeep ==
  ASSUME QInv, Quiet, rx' = rx, \A t \in Task : Reader(t) /\ ~Blocked(t) => Reader(t)'
  PROVE  NoLostInput'
  <1> SUFFICES ASSUME NEW t \in Task, Reader(t)', Blocked(t)'
               PROVE  rx' <= Cardinality(AwakeReaders')
    BY DEF NoLostInput, AwakeReaders
  <1>1. Reader(t) /\ Blocked(t)
    BY Zenon, QuietKeeps
  <1>2. rx <= Cardinality(AwakeReaders)
    BY Zenon, <1>1 DEF QInv, NoLostInput, AwakeReaders
  <1>3. AwakeReaders \subseteq AwakeReaders' /\ AwakeReaders' \subseteq Task
    BY DEF AwakeReaders, Quiet
  <1>4. /\ Cardinality(AwakeReaders) <= Cardinality(AwakeReaders')
        /\ Cardinality(AwakeReaders) \in Nat /\ Cardinality(AwakeReaders') \in Nat
    BY Zenon, <1>3, TasksFinite, FS_Subset
  <1>5. rx \in Nat
    BY CurrentFacts, ProcessAssumption DEF QInv, DataOK
  <1> HIDE DEF AwakeReaders
  <1> QED BY SMTT(30), <1>2, <1>4, <1>5

\* A step of the current task outside of scheduler_yield() that moves nothing
\* but its program counter.
Local == /\ pc[current] \notin DOMAIN AfterYield
         /\ UNCHANGED <<tasks, state, pid, ppid, wait_next, wq, current>>
         /\ \A t \in Task : t # current => pc'[t] = pc[t]

\* It is quiet.
LEMMA LocalQuiet ==
  ASSUME QInv, Local
  PROVE  Quiet /\ Awake' /\ ZombiePlace'
  <1>1. ~Blocked(current) /\ state[current] # "ZOMBIE" /\ state[current] \in {"READY", "RUNNING"}
    BY Zenon, CurrentAwake DEF Local, QInv, Awake
  <1>2. \A t \in Task : Blocked(t)' <=> Blocked(t)
    BY Zenon DEF Local, Blocked, InTable
  <1>3. \A p \in Slot : ZombieChildren(p)' \subseteq ZombieChildren(p)
    BY Zenon DEF Local, ZombieChildren
  <1>4. Quiet
    BY Zenon, <1>1, <1>2, <1>3 DEF Local, Quiet
  <1> QED BY Zenon, <1>1, <1>4 DEF Local, Awake, ZombiePlace, QInv

\* A step that changes none of these variables.
LEMMA Still ==
  ASSUME QInv, UNCHANGED <<tasks, state, pid, ppid, wait_next, wq, current, pc, rx>>
  PROVE  Exact' /\ NoLostExit' /\ NoLostInput' /\ Awake' /\ ZombiePlace'
  <1>1. Quiet
    BY Zenon DEF Quiet, Blocked, InTable, ZombieChildren
  <1>2. \A t \in Task : Reader(t) /\ ~Blocked(t) => Reader(t)'
    BY DEF Reader, InTable
  <1>3. Exact' /\ NoLostExit' /\ NoLostInput'
    BY Zenon, <1>1, <1>2, QuietKeeps, ReadersKeep
  <1> QED BY Zenon, <1>3 DEF Awake, ZombiePlace, QInv

\* The steps of the current task that go from one place to another.
LEMMA LocalStep ==
  ASSUME QInv, Local, rx' = rx,
         pc[current] \in {"read", "read_yield", "getc"} => pc'[current] \in {"read", "read_yield", "getc"}
  PROVE  Exact' /\ NoLostExit' /\ NoLostInput' /\ Awake' /\ ZombiePlace'
  <1>1. Quiet /\ Awake' /\ ZombiePlace'
    BY Zenon, LocalQuiet
  <1>2. \A t \in Task : Reader(t) /\ ~Blocked(t) => Reader(t)'
    BY Zenon DEF Reader, InTable, Local
  <1> QED BY Zenon, <1>1, <1>2, QuietKeeps, ReadersKeep

\* The places that are not in scheduler_yield().
LEMMA Places ==
  /\ {"user", "idle", "wfi", "wait", "reap", "read", "getc", "halted"} \cap DOMAIN AfterYield = {}
  /\ {"yield", "idle_yield", "wait_yield", "read_yield", "exit_yield"} = DOMAIN AfterYield
  BY DEF AfterYield

\* GoTo() moves the current task only.
LEMMA GoToFacts ==
  ASSUME IInv, NEW p, GoTo(p)
  PROVE  pc'[current] = p /\ \A t \in Task : t # current => pc'[t] = pc[t]
  <1>1. current \in Task /\ pc \in [Task -> Locations]
    BY Zenon, CurrentFacts DEF DataOK
  <1> QED BY Zenon, <1>1 DEF GoTo

\* The calls and returns that only change the place of the current task.
LEMMA SimpleStep ==
  ASSUME QInv, IdleLoop \/ IdleWakes \/ SysYield \/ SysWait \/ SysRead
  PROVE  Exact' /\ NoLostExit' /\ NoLostInput' /\ Awake' /\ ZombiePlace'
  <1>1. /\ pc[current] \in {"user", "idle", "wfi"}
        /\ UNCHANGED <<table, cpu, state, ids, queues, rx>>
        /\ \E p : GoTo(p)
    BY Zenon DEF IdleLoop, IdleWakes, SysYield, SysWait, SysRead, Calls, At
  <1>2. \A t \in Task : t # current => pc'[t] = pc[t]
    BY Zenon, <1>1, GoToFacts DEF QInv
  <1>3. Local
    BY Zenon, <1>1, <1>2, Places DEF Local, table, cpu, ids, queues
  <1> QED BY Zenon, <1>1, <1>3, LocalStep

\* uart_getc() takes a byte, and one reader that was awake is done.
LEMMA GetCharStep ==
  ASSUME QInv, GetChar
  PROVE  Exact' /\ NoLostExit' /\ NoLostInput' /\ Awake' /\ ZombiePlace'
  <1>1. /\ pc[current] = "getc" /\ GoTo("user")
        /\ UNCHANGED <<table, cpu, state, ids, queues>>
        /\ rx' = IF rx > 0 THEN rx - 1 ELSE 0
    BY DEF GetChar, At
  <1>2. pc'[current] = "user" /\ \A t \in Task : t # current => pc'[t] = pc[t]
    BY Zenon, <1>1, GoToFacts DEF QInv
  <1>3. Local
    BY Zenon, <1>1, <1>2, Places DEF Local, table, cpu, ids, queues
  <1>4. Quiet /\ Awake' /\ ZombiePlace'
    BY Zenon, <1>3, LocalQuiet
  <1>5. ~Blocked(current) /\ current \in Task /\ InTable(current)
    BY Zenon, <1>3, CurrentAwake, CurrentFacts DEF Local, QInv
  <1>6. AwakeReaders' = AwakeReaders \ {current}
    <2>1. \A t \in Task : t # current => (Reader(t)' <=> Reader(t))
      BY Zenon, <1>1, <1>2 DEF Reader, InTable, table
    <2>2. \A t \in Task : Reader(t)' => t # current
      BY Zenon, <1>2 DEF Reader
    <2> QED BY Zenon, <1>4, <2>1, <2>2 DEF AwakeReaders, Quiet
  <1>7. current \in AwakeReaders
    BY Zenon, <1>1, <1>5 DEF AwakeReaders, Reader
  <1>8. /\ Cardinality(AwakeReaders \ {current}) = Cardinality(AwakeReaders) - 1
        /\ Cardinality(AwakeReaders) \in Nat
        /\ Cardinality(AwakeReaders \ {current}) \in Nat
    <2>1. IsFiniteSet(AwakeReaders) /\ AwakeReaders \in SUBSET Task
      BY TasksFinite DEF AwakeReaders
    <2>2. Cardinality(AwakeReaders \ {current}) = Cardinality(AwakeReaders) - 1
      BY <1>7, <2>1, FS_RemoveElement, Zenon
    <2> QED BY Zenon, <2>1, <2>2, TasksFinite
  <1>9. NoLostInput'
    <2> SUFFICES ASSUME NEW t \in Task, Reader(t)', Blocked(t)'
                 PROVE  rx' <= Cardinality(AwakeReaders')
      BY DEF NoLostInput, AwakeReaders
    <2>1. Reader(t) /\ Blocked(t)
      BY Zenon, <1>4, QuietKeeps
    <2>2. rx <= Cardinality(AwakeReaders)
      BY Zenon, <2>1 DEF QInv, NoLostInput, AwakeReaders
    <2>3. rx \in Nat
      BY SMTT(30), CurrentFacts, ProcessAssumption DEF QInv, DataOK
    <2> HIDE DEF AwakeReaders
    <2> QED BY SMTT(30), <1>1, <1>6, <1>8, <2>2, <2>3
  <1> QED BY Zenon, <1>4, <1>9, QuietKeeps

\* do_wait() takes a zombie out of the table.
LEMMA ReapQuiet ==
  ASSUME QInv, Reap
  PROVE  Exact' /\ NoLostExit' /\ NoLostInput' /\ Awake' /\ ZombiePlace'
  <1>1. /\ pc[current] = "reap" /\ GoTo("user")
        /\ UNCHANGED <<cpu, state, ids, queues, rx>>
    BY Zenon DEF Reap, At
  <1>2. pc'[current] = "user" /\ \A t \in Task : t # current => pc'[t] = pc[t]
    BY Zenon, <1>1, GoToFacts DEF QInv
  <1>3. CASE ZombieChildren(pid[current]) = {}
    <2>1. UNCHANGED table
      BY Zenon, <1>3 DEF Reap
    <2>2. Local
      BY Zenon, <1>1, <1>2, <2>1, Places DEF Local, table, cpu, ids, queues
    <2> QED BY Zenon, <1>1, <2>2, LocalStep
  <1>4. CASE ZombieChildren(pid[current]) # {}
    <2>1. PICK slot \in Slot : /\ slot \in ZombieChildren(pid[current])
                               /\ tasks' = [tasks EXCEPT ![slot] = NULL]
      BY <1>4, Zenon DEF Reap, IsFirst
    <2> DEFINE dead == tasks[slot]
    <2>2. /\ dead # NULL /\ dead \in Task /\ state[dead] = "ZOMBIE"
          /\ pc[dead] \in {"exit_yield", "halted"}
      BY Zenon, <2>1, CurrentFacts DEF ZombieChildren, QInv, DataOK, ZombiePlace
    <2>3. \A i \in Slot : i # slot => tasks'[i] = tasks[i]
      BY Zenon, <2>1, CurrentFacts DEF QInv, DataOK
    <2>4. tasks'[slot] = NULL
      BY Zenon, <2>1, CurrentFacts DEF QInv, DataOK
    <2> HIDE DEF dead
    <2>5. \A t \in Task : t # dead => (InTable(t)' <=> InTable(t))
      BY Zenon, <2>3, <2>4, ConstantFacts DEF InTable, dead
    <2>6. \A t \in Task : Blocked(t)' <=> Blocked(t)
      <3>1. state' = state
        BY Zenon, <1>1
      <3>2. state[dead] # "BLOCKED"
        BY Zenon, <2>2
      <3> QED BY Zenon, <2>5, <3>1, <3>2 DEF Blocked
    <2>7. \A p \in Slot : ZombieChildren(p)' \subseteq ZombieChildren(p)
      <3>1. ppid' = ppid /\ state' = state
        BY Zenon, <1>1 DEF ids
      <3> QED BY Zenon, <2>3, <2>4, <3>1 DEF ZombieChildren
    <2>8. pc[current] \notin DOMAIN AfterYield /\ ~Blocked(current) /\ current \in Task
          /\ state[current] # "ZOMBIE"
      BY Zenon, <1>1, Places, CurrentAwake, CurrentFacts DEF QInv
    <2>9. Quiet
      BY Zenon, <1>1, <1>2, <2>6, <2>7, <2>8 DEF Quiet, queues, ids
    <2>10. \A t \in Task : Reader(t) /\ ~Blocked(t) => Reader(t)'
      <3>1. \A t \in Task : Reader(t) => t # dead /\ t # current
        BY Zenon, <1>1, <2>2 DEF Reader
      <3> QED BY Zenon, <1>2, <2>5, <3>1 DEF Reader
    <2>11. Awake' /\ ZombiePlace'
      <3>1. state' = state /\ current' = current
        BY Zenon, <1>1 DEF cpu
      <3>2. state[current] \in {"READY", "RUNNING"}
        BY Zenon, <2>8 DEF QInv, Awake
      <3> QED BY Zenon, <1>2, <2>8, <3>1, <3>2 DEF Awake, ZombiePlace, QInv
    <2>12. rx' = rx
      BY Zenon, <1>1
    <2> QED BY Zenon, <2>9, <2>10, <2>11, <2>12, QuietKeeps, ReadersKeep
  <1> QED BY Zenon, <1>3, <1>4

\* do_fork() enters a task_struct that was free and so on no queue.
LEMMA ForkQuiet ==
  ASSUME QInv, SysFork
  PROVE  Exact' /\ NoLostExit' /\ NoLostInput' /\ Awake' /\ ZombiePlace'
  <1>0. DataOK /\ TableSound /\ TableConsistent /\ current \in Task /\ InTable(current)
    BY Zenon, CurrentFacts DEF QInv
  <1>1. PICK slot \in Slot, child \in Structs :
              /\ slot >= 2 /\ tasks[slot] = NULL
              /\ freelist # <<>> /\ child = Head(freelist)
              /\ tasks' = [tasks EXCEPT ![slot] = child]
              /\ pid' = [pid EXCEPT ![child] = slot]
              /\ ppid' = [ppid EXCEPT ![child] = pid[current]]
              /\ state' = [state EXCEPT ![child] = "READY"]
              /\ wait_next' = [wait_next EXCEPT ![child] = NULL]
              /\ pc' = [pc EXCEPT ![child] = "user"]
              /\ UNCHANGED <<current, wq, rx>>
    BY <1>0, ForkFacts, Zenon
  <1>2. child \in Task /\ ~InTable(child)
    <2>1. child = freelist[1] /\ 1 \in 1 .. Len(freelist)
      BY SMTT(30), <1>0, <1>1 DEF DataOK
    <2> QED BY Zenon, <1>0, <2>1, ConstantFacts DEF TableConsistent
  <1>3. /\ \A t \in Task : t # child => /\ pid'[t] = pid[t] /\ ppid'[t] = ppid[t]
                                        /\ state'[t] = state[t] /\ pc'[t] = pc[t]
                                        /\ wait_next'[t] = wait_next[t]
        /\ state'[child] = "READY" /\ pc'[child] = "user"
        /\ tasks'[slot] = child /\ \A i \in Slot : i # slot => tasks'[i] = tasks[i]
    BY Zenon, <1>0, <1>1, <1>2 DEF DataOK
  <1>4. \A t \in Task : t # child => (InTable(t)' <=> InTable(t))
    BY SMTT(30), <1>1, <1>3, ConstantFacts DEF InTable
  <1>5. \A t \in Task : Blocked(t)' <=> Blocked(t)
    BY Zenon, <1>2, <1>3, <1>4 DEF Blocked
  <1>6. \A p \in Slot : ZombieChildren(p)' \subseteq ZombieChildren(p)
    <2> SUFFICES ASSUME NEW p \in Slot, NEW i \in ZombieChildren(p)' PROVE i \in ZombieChildren(p)
      BY Zenon
    <2>1. /\ i \in Slot /\ tasks'[i] # NULL /\ ppid'[tasks'[i]] = p /\ state'[tasks'[i]] = "ZOMBIE"
      BY Zenon DEF ZombieChildren
    <2>2. i # slot
      BY Zenon, <1>3, <2>1
    <2>3. tasks'[i] = tasks[i] /\ tasks[i] \in Task /\ tasks[i] # child
      <3>1. tasks'[i] = tasks[i]
        BY Zenon, <1>3, <2>1, <2>2
      <3>2. tasks[i] \in Task \cup {NULL} /\ tasks[i] # NULL
        BY Zenon, <1>0, <2>1, <3>1 DEF DataOK
      <3>3. tasks[i] # child
        BY Zenon, <1>2, <2>1 DEF InTable
      <3> QED BY Zenon, <3>1, <3>2, <3>3
    <2> QED BY Zenon, <1>3, <2>1, <2>3 DEF ZombieChildren
  <1>7. Quiet
    BY Zenon, <1>1, <1>2, <1>3, <1>5, <1>6 DEF Quiet, Blocked
  <1>8. \A t \in Task : Reader(t) /\ ~Blocked(t) => Reader(t)'
    BY Zenon, <1>2, <1>3, <1>4 DEF Reader
  <1>9. Awake' /\ ZombiePlace'
    <2>1. current # child /\ current' = current
      BY Zenon, <1>0, <1>1, <1>2
    <2> QED BY Zenon, <1>0, <1>3, <2>1 DEF Awake, ZombiePlace, QInv
  <1>10. rx' = rx
    BY Zenon, <1>1
  <1> QED BY Zenon, <1>7, <1>8, <1>9, <1>10, QuietKeeps, ReadersKeep

-----------------------------------------------------------------------------
(* scheduler_yield() *)

\* A caller comes back without a switch only when it was not BLOCKED and no
\* zombie, and a switch goes to another task that is READY.
LEMMA SwitchAwake ==
  ASSUME QInv, YieldSwitch
  PROVE  /\ pc[current] \in DOMAIN AfterYield
         /\ UNCHANGED <<table, ids, queues, rx>>
         /\ \/ YieldReturn /\ UNCHANGED <<cpu, state>> /\ state[current] \in {"READY", "RUNNING"}
            \/ \E i \in Slot : /\ tasks[i] \in Task /\ tasks[i] # current
                               /\ state[tasks[i]] = "READY" /\ SwitchTo(i)
  <1>1. /\ DataOK /\ SchedulerFindsTask /\ YieldState
    BY Zenon, CurrentFacts DEF QInv
  <1>2. pc[current] \in DOMAIN AfterYield /\ UNCHANGED <<table, ids, queues, rx>>
    BY Zenon, <1>1 DEF YieldSwitch, YieldState
  <1>3. CASE chosen = -1
    <2>1. state[current] = "RUNNING"
      BY Zenon, <1>1, <1>3 DEF YieldSwitch, SchedulerFindsTask
    <2>2. YieldReturn /\ UNCHANGED <<cpu, state>>
      BY Zenon, <1>3, <2>1 DEF YieldSwitch
    <2> QED BY Zenon, <1>2, <2>1, <2>2
  <1>4. CASE chosen # -1
    <2>1. chosen \in Slot /\ tasks[chosen] \in Task /\ state[tasks[chosen]] = "READY"
      BY Zenon, <1>1, <1>4 DEF DataOK, SchedulerFindsTask
    <2>2. CASE tasks[chosen] = current
      <3>1. YieldReturn /\ UNCHANGED <<cpu, state>>
        BY <1>4, <2>1, <2>2, Zenon DEF YieldSwitch
      <3> QED BY Zenon, <1>2, <2>1, <2>2, <3>1
    <2>3. CASE tasks[chosen] # current
      <3>1. SwitchTo(chosen)
        BY Zenon, <1>4, <2>1, <2>3 DEF YieldSwitch
      <3> QED BY Zenon, <1>2, <2>1, <2>3, <3>1
    <2> QED BY Zenon, <2>2, <2>3
  <1> QED BY Zenon, <1>3, <1>4

\* The gate lets a caller through only if idle is the one task there is.
LEMMA GateFacts ==
  ASSUME IInv, YieldGate, pc' # pc
  PROVE  current = IdleTask
  <1>1. SUFFICES ASSUME current # IdleTask PROVE FALSE
    OBVIOUS
  <1>2. /\ DataOK /\ TableConsistent /\ IdleApart /\ YieldHonoured
    BY Zenon, CurrentFacts
  <1>3. need_reschedule /\ task_count = 1
    BY Zenon, <1>2 DEF YieldGate, YieldHonoured
  <1> DEFINE used == {i \in Slot : tasks[i] # NULL}
  <1>4. 0 \in used /\ current_index \in used /\ current_index # 0
    BY Zenon, <1>1, <1>2, ConstantFacts DEF IdleApart, TableConsistent, DataOK
  <1>5. IsFiniteSet(used)
    <2>1. IsFiniteSet(Slot)
      BY SMTT(30), FS_Interval, ConstantFacts DEF Slot
    <2> QED BY Zenon, <2>1, FS_Subset
  <1>6. Cardinality(used) = 1
    BY Zenon, <1>2, <1>3 DEF TableConsistent
  <1> HIDE DEF used
  <1>7. Cardinality(used \ {0}) = 0 /\ IsFiniteSet(used \ {0})
    <2>1. Cardinality(used \ {0}) = Cardinality(used) - 1 /\ IsFiniteSet(used \ {0})
      BY <1>4, <1>5, FS_RemoveElement, Zenon
    <2> QED BY <1>6, <2>1
  <1>8. used \ {0} = {}
    BY <1>7, FS_EmptySet, Zenon
  <1> QED BY Zenon, <1>4, <1>8

\* A return from scheduler_yield() of a task that is awake.
LEMMA ReturnQuiet ==
  ASSUME QInv, YieldReturn, pc[current] \in DOMAIN AfterYield,
         UNCHANGED <<tasks, state, pid, ppid, wait_next, wq, current, rx>>,
         state[current] \in {"READY", "RUNNING"}
  PROVE  Exact' /\ NoLostExit' /\ NoLostInput' /\ Awake' /\ ZombiePlace'
  <1>1. pc'[current] = AfterYield[pc[current]] /\ \A t \in Task : t # current => pc'[t] = pc[t]
    BY Zenon, GoToFacts DEF YieldReturn, QInv
  <1>2. Quiet
    BY Zenon, <1>1 DEF Quiet, Blocked, InTable, ZombieChildren
  <1>3. AfterYield["read_yield"] = "read" /\ "read" \notin DOMAIN AfterYield
        /\ "getc" \notin DOMAIN AfterYield
    BY Zenon DEF AfterYield
  <1>4. \A t \in Task : Reader(t) /\ ~Blocked(t) => Reader(t)'
    BY Zenon, <1>1, <1>3 DEF Reader, InTable
  <1>5. Awake' /\ ZombiePlace'
    BY Zenon, <1>1 DEF Awake, ZombiePlace, QInv
  <1> QED BY Zenon, <1>2, <1>4, <1>5, QuietKeeps, ReadersKeep

\* The switch puts nobody to sleep: the previous task was already BLOCKED, a
\* zombie, or goes on as READY.
LEMMA SwitchQuiet ==
  ASSUME QInv, pc[current] \in DOMAIN AfterYield, UNCHANGED <<tasks, pid, ppid, wait_next, wq, rx>>,
         NEW i \in Slot, tasks[i] \in Task, tasks[i] # current, state[tasks[i]] = "READY", SwitchTo(i)
  PROVE  Exact' /\ NoLostExit' /\ NoLostInput' /\ Awake' /\ ZombiePlace'
  <1> DEFINE n == tasks[i]
  <1>1. current \in Task /\ DataOK /\ YieldState
    BY Zenon, CurrentFacts DEF QInv
  <1>2. /\ state'[current] = IF state[current] = "RUNNING" THEN "READY" ELSE state[current]
        /\ state'[n] = "RUNNING" /\ \A t \in Task : t # current /\ t # n => state'[t] = state[t]
    BY Zenon, <1>1 DEF SwitchTo, DataOK
  <1>3. /\ pc'[current] = AfterYield[pc[current]]
        /\ \A t \in Task : t # current => pc'[t] = pc[t]
    BY Zenon, <1>1 DEF SwitchTo, DataOK
  <1>4. current' = n /\ n \in Task /\ n # current /\ state[n] = "READY"
    BY Zenon DEF SwitchTo
  <1> HIDE DEF n
  <1>5. \A t \in Task : /\ (state'[t] = "BLOCKED" <=> state[t] = "BLOCKED")
                        /\ (state'[t] = "ZOMBIE" <=> state[t] = "ZOMBIE")
    BY Zenon, <1>2, <1>4
  <1>6. \A t \in Task : InTable(t)' <=> InTable(t)
    BY Zenon DEF InTable
  <1>7. \A t \in Task : Blocked(t)' <=> Blocked(t)
    BY Zenon, <1>5, <1>6 DEF Blocked
  <1>8. \A p \in Slot : ZombieChildren(p)' \subseteq ZombieChildren(p)
    BY Zenon, <1>1, <1>5 DEF ZombieChildren, DataOK
  <1>9. Quiet
    BY Zenon, <1>3, <1>7, <1>8 DEF Quiet
  <1>10. AfterYield["read_yield"] = "read" /\ "read" \notin DOMAIN AfterYield
         /\ "getc" \notin DOMAIN AfterYield /\ AfterYield["exit_yield"] = "halted"
         /\ "halted" \notin DOMAIN AfterYield
    BY Zenon DEF AfterYield
  <1>11. \A t \in Task : Reader(t) /\ ~Blocked(t) => Reader(t)'
    BY Zenon, <1>3, <1>6, <1>10 DEF Reader
  <1>12. Awake'
    BY Zenon, <1>2, <1>4 DEF Awake
  <1>13. ZombiePlace'
    BY SMTT(30), <1>3, <1>5, <1>10 DEF ZombiePlace, QInv
  <1> QED BY Zenon, <1>9, <1>11, <1>12, <1>13, QuietKeeps, ReadersKeep

\* The steps of scheduler_yield().
LEMMA YieldingStep ==
  ASSUME QInv, Yielding
  PROVE  Exact' /\ NoLostExit' /\ NoLostInput' /\ Awake' /\ ZombiePlace'
  <1>1. CASE YieldGate
    <2>1. /\ UNCHANGED <<tasks, state, pid, ppid, wait_next, wq, current, rx>>
          /\ pc[current] \in DOMAIN AfterYield
          /\ YieldReturn \/ pc' = pc
      BY <1>1, Zenon DEF YieldGate, table, cpu, ids, queues
    <2>2. CASE pc' = pc
      BY Zenon, <2>1, <2>2, Still
    <2>3. CASE pc' # pc
      <3>1. current = IdleTask
        BY Zenon, <1>1, <2>3, GateFacts DEF QInv
      <3>2. state[current] = "RUNNING"
        BY Zenon, <3>1, CurrentFacts DEF QInv, IdleAlwaysReady
      <3> QED BY Zenon, <2>1, <2>3, <3>2, ReturnQuiet
    <2> QED BY Zenon, <2>2, <2>3
  <1>2. CASE YieldScan
    BY Zenon, <1>2, Still DEF YieldScan, table, cpu, ids, queues
  <1>3. CASE YieldSwitch
    <2>1. /\ pc[current] \in DOMAIN AfterYield
          /\ UNCHANGED <<tasks, pid, ppid, wait_next, wq, rx>>
      BY Zenon, <1>3, SwitchAwake DEF table, ids, queues
    <2>2. CASE YieldReturn /\ UNCHANGED <<cpu, state>> /\ state[current] \in {"READY", "RUNNING"}
      BY Zenon, <2>1, <2>2, ReturnQuiet DEF cpu
    <2>3. ASSUME NEW i \in Slot, tasks[i] \in Task, tasks[i] # current,
                 state[tasks[i]] = "READY", SwitchTo(i)
          PROVE  Exact' /\ NoLostExit' /\ NoLostInput' /\ Awake' /\ ZombiePlace'
      BY Zenon, <2>1, <2>3, SwitchQuiet
    <2> QED BY <1>3, <2>2, <2>3, SwitchAwake, Zenon
  <1> QED BY Zenon, <1>1, <1>2, <1>3 DEF Yielding

-----------------------------------------------------------------------------
(* Blocking and waking *)

\* What both rounds of wait_event() that block do to the current task.
BlocksCurrent(place) ==
    /\ pc[current] \notin DOMAIN AfterYield
    /\ pc[current] \notin {"read_yield", "getc"}
    /\ UNCHANGED <<tasks, pid, ppid, current, rx>>
    /\ state' = [state EXCEPT ![current] = "BLOCKED"]
    /\ pc'[current] = place /\ \A t \in Task : t # current => pc'[t] = pc[t]

\* Nobody else is blocked or woken, and no zombie appears.
LEMMA BlockFacts ==
  ASSUME QInv, NEW place \in {"wait_yield", "read_yield"}, BlocksCurrent(place)
  PROVE  /\ \A t \in Task : t # current => (Blocked(t)' <=> Blocked(t)) /\ (Reader(t)' <=> Reader(t))
         /\ Blocked(current)' /\ ~Blocked(current) /\ current \in Task /\ InTable(current)
         /\ \A p : ZombieChildren(p)' = ZombieChildren(p)
         /\ Awake' /\ ZombiePlace'
  <1>1. /\ current \in Task /\ InTable(current) /\ DataOK
        /\ ~Blocked(current) /\ state[current] # "ZOMBIE"
    BY Zenon, CurrentFacts, CurrentAwake DEF QInv, BlocksCurrent
  <1>2. state'[current] = "BLOCKED" /\ \A t \in Task : t # current => state'[t] = state[t]
    BY Zenon, <1>1 DEF BlocksCurrent, DataOK
  <1>3. \A t \in Task : InTable(t)' <=> InTable(t)
    BY Zenon DEF BlocksCurrent, InTable
  <1>4. \A t \in Task : t # current => (Blocked(t)' <=> Blocked(t)) /\ (Reader(t)' <=> Reader(t))
    BY Zenon, <1>2, <1>3 DEF BlocksCurrent, Blocked, Reader
  <1>5. Blocked(current)'
    <2>1. current' = current
      BY Zenon DEF BlocksCurrent
    <2>2. InTable(current)' /\ state'[current] = "BLOCKED"
      BY Zenon, <1>1, <1>2, <1>3, <2>1 DEF BlocksCurrent, InTable
    <2> QED BY Zenon, <2>1, <2>2 DEF Blocked
  <1>6. \A p : ZombieChildren(p)' = ZombieChildren(p)
    BY Zenon, <1>1, <1>2 DEF BlocksCurrent, ZombieChildren, DataOK
  <1>7. Awake' /\ ZombiePlace'
    <2>1. current' = current /\ pc'[current] \in DOMAIN AfterYield
      BY Zenon, Places DEF BlocksCurrent
    <2> QED BY Zenon, <1>2, <2>1 DEF Awake, ZombiePlace, QInv, BlocksCurrent
  <1> QED BY Zenon, <1>1, <1>4, <1>5, <1>6, <1>7

\* wait_event(parent_wq) with no zombie child.
LEMMA WaitForChildStep ==
  ASSUME QInv, WaitForChild
  PROVE  Exact' /\ NoLostExit' /\ NoLostInput' /\ Awake' /\ ZombiePlace'
  <1>0. pc[current] = "wait" /\ UNCHANGED <<table, cpu, ids, rx>>
    BY Zenon DEF WaitForChild, At
  <1>1. CASE ZombieChildren(pid[current]) # {}
    <2>1. GoTo("reap") /\ UNCHANGED <<queues, state>>
      BY Zenon, <1>1 DEF WaitForChild, WaitEvent
    <2>2. pc'[current] = "reap" /\ \A t \in Task : t # current => pc'[t] = pc[t]
      BY Zenon, <2>1, GoToFacts DEF QInv
    <2>3. Local
      BY Zenon, <1>0, <2>1, <2>2, Places DEF Local, table, cpu, ids, queues
    <2> QED BY Zenon, <1>0, <2>3, LocalStep
  <1>2. CASE ZombieChildren(pid[current]) = {}
    <2>1. /\ wait_next' = [wait_next EXCEPT ![current] = wq["parent_wq"]]
          /\ wq' = [wq EXCEPT !["parent_wq"] = current]
          /\ state' = [state EXCEPT ![current] = "BLOCKED"]
          /\ GoTo("wait_yield")
      BY Zenon, <1>2 DEF WaitForChild, WaitEvent
    <2>2. pc'[current] = "wait_yield" /\ \A t \in Task : t # current => pc'[t] = pc[t]
      BY Zenon, <2>1, GoToFacts DEF QInv
    <2>3. BlocksCurrent("wait_yield")
      BY Zenon, <1>0, <2>1, <2>2, Places DEF BlocksCurrent, table, cpu, ids
    <2>4. /\ \A t \in Task : t # current => (Blocked(t)' <=> Blocked(t)) /\ (Reader(t)' <=> Reader(t))
          /\ Blocked(current)' /\ ~Blocked(current) /\ current \in Task /\ InTable(current)
          /\ \A p : ZombieChildren(p)' = ZombieChildren(p)
          /\ Awake' /\ ZombiePlace' /\ current' = current
      BY Zenon, <2>3, BlockFacts DEF BlocksCurrent
    <2>5. Exact /\ current \notin Waiters /\ current \notin Readers
      BY Zenon, <1>0, Places, ExactIs, CurrentAwake DEF QInv
    <2>6. /\ wait_next'[current] = wq["parent_wq"]
          /\ \A u \in Task : u # current => wait_next'[u] = wait_next[u]
          /\ wq'["parent_wq"] = current /\ wq'["uart_rx_wq"] = wq["uart_rx_wq"]
      BY Zenon, <2>1, <2>4, CurrentFacts DEF QInv, DataOK, Queues
    <2>7. Waiters' = {current} \cup Waiters /\ Acyclic(wait_next', wq'["parent_wq"])
      <3>1. current \notin ChainOf(wait_next, wq["parent_wq"]) /\ Acyclic(wait_next, wq["parent_wq"])
        BY Zenon, <2>5 DEF Waiters, Exact
      <3>2. /\ ChainOf(wait_next', current) = {current} \cup ChainOf(wait_next, wq["parent_wq"])
            /\ Acyclic(wait_next', current)
        <4>1. /\ current \in Task /\ wait_next'[current] = wq["parent_wq"]
              /\ \A u \in Task : u # current => wait_next'[u] = wait_next[u]
          BY Zenon, <2>4, <2>6
        <4> QED BY Zenon, <3>1, <4>1, PushQueue
      <3> QED BY Zenon, <2>6, <3>2 DEF Waiters
    <2>8. Readers' = Readers /\ Acyclic(wait_next', wq'["uart_rx_wq"])
      <3>1. \A t \in ChainOf(wait_next, wq["uart_rx_wq"]) : wait_next'[t] = wait_next[t]
        BY Zenon, <2>5, <2>6, Members DEF Readers
      <3>2. /\ ChainOf(wait_next', wq["uart_rx_wq"]) = ChainOf(wait_next, wq["uart_rx_wq"])
            /\ Acyclic(wait_next', wq["uart_rx_wq"])
        BY Zenon, <2>5, <3>1, KeepQueue DEF Exact
      <3> QED BY Zenon, <2>6, <3>2 DEF Readers
    <2>9. Exact'
      <3>1. {t \in Task : Blocked(t)'} = {current} \cup {t \in Task : Blocked(t)}
        BY Zenon, <2>4 DEF Blocked
      <3>2. Waiters' \cup Readers' = {t \in Task : Blocked(t)'}
        BY Zenon, <2>5, <2>7, <2>8, <3>1 DEF Exact
      <3>3. \A t \in Waiters' : pc'[t] \in WaitPlaces
        BY Zenon, <2>2, <2>5, <2>7, Members DEF Exact, WaitPlaces
      <3>4. \A t \in Readers' : pc'[t] \in ReadPlaces
        BY Zenon, <2>2, <2>5, <2>8, Members DEF Exact, ReadPlaces
      <3> QED BY Zenon, <2>7, <2>8, <3>2, <3>3, <3>4 DEF Exact
    <2>10. NoLostExit'
      <3>1. pid' = pid
        BY Zenon, <1>0 DEF ids
      <3>2. \A t \in Task : Blocked(t)' /\ pc'[t] \in {"wait", "wait_yield"} => ZombieChildren(pid[t]) = {}
        BY Zenon, <1>2, <2>2, <2>4 DEF QInv, NoLostExit
      <3>3. \A t \in Task : Blocked(t)' /\ pc'[t] \in {"wait", "wait_yield"} => ZombieChildren(pid[t])' = {}
        <4> SUFFICES ASSUME NEW t \in Task, Blocked(t)', pc'[t] \in {"wait", "wait_yield"}
                     PROVE  ZombieChildren(pid[t])' = {}
          BY Zenon
        <4>1. {i \in Slot : /\ tasks'[i] # NULL /\ ppid'[tasks'[i]] = pid[t]
                            /\ state'[tasks'[i]] = "ZOMBIE"} = {}
          BY SMTT(30), <2>4, <3>2 DEF ZombieChildren
        <4> QED BY Zenon, <3>1, <4>1 DEF ZombieChildren
      <3> QED BY Zenon, <3>3 DEF NoLostExit
    <2>11. NoLostInput'
      <3>1. ~Reader(current) /\ ~(pc'[current] \in {"read", "read_yield", "getc"})
        BY Zenon, <1>0, <2>2 DEF Reader
      <3>2. \A t \in Task : Reader(t)' => t # current
        BY Zenon, <3>1 DEF Reader
      <3>3. AwakeReaders' = AwakeReaders
        BY Zenon, <2>4, <3>1, <3>2 DEF AwakeReaders
      <3>4. (\E t \in Task : Reader(t)' /\ Blocked(t)') => \E t \in Task : Reader(t) /\ Blocked(t)
        BY Zenon, <2>4, <3>2
      <3>5. rx' = rx
        BY Zenon, <1>0
      <3>6. (\E t \in Task : Reader(t) /\ Blocked(t)) => rx <= Cardinality(AwakeReaders)
        BY Zenon DEF QInv, NoLostInput, AwakeReaders
      <3>7. NoLostInput' <=> ((\E t \in Task : Reader(t)' /\ Blocked(t)') => rx' <= Cardinality(AwakeReaders'))
        BY Zenon DEF NoLostInput, AwakeReaders
      <3> HIDE DEF AwakeReaders
      <3> QED BY Zenon, <3>3, <3>4, <3>5, <3>6, <3>7
    <2> QED BY Zenon, <2>4, <2>9, <2>10, <2>11
  <1> QED BY Zenon, <1>1, <1>2

\* wait_event(uart_rx_wq) on an empty ring.
LEMMA WaitForInputStep ==
  ASSUME QInv, WaitForInput
  PROVE  Exact' /\ NoLostExit' /\ NoLostInput' /\ Awake' /\ ZombiePlace'
  <1>0. pc[current] = "read" /\ UNCHANGED <<table, cpu, ids, rx>>
    BY Zenon DEF WaitForInput, At
  <1>1. CASE rx > 0
    <2>1. GoTo("getc") /\ UNCHANGED <<queues, state>>
      BY Zenon, <1>1 DEF WaitForInput, WaitEvent
    <2>2. pc'[current] = "getc" /\ \A t \in Task : t # current => pc'[t] = pc[t]
      BY Zenon, <2>1, GoToFacts DEF QInv
    <2>3. Local
      BY Zenon, <1>0, <2>1, <2>2, Places DEF Local, table, cpu, ids, queues
    <2> QED BY Zenon, <1>0, <2>2, <2>3, LocalStep
  <1>2. CASE ~(rx > 0)
    <2>1. /\ wait_next' = [wait_next EXCEPT ![current] = wq["uart_rx_wq"]]
          /\ wq' = [wq EXCEPT !["uart_rx_wq"] = current]
          /\ state' = [state EXCEPT ![current] = "BLOCKED"]
          /\ GoTo("read_yield")
      BY Zenon, <1>2 DEF WaitForInput, WaitEvent
    <2>2. pc'[current] = "read_yield" /\ \A t \in Task : t # current => pc'[t] = pc[t]
      BY Zenon, <2>1, GoToFacts DEF QInv
    <2>3. BlocksCurrent("read_yield")
      BY Zenon, <1>0, <2>1, <2>2, Places DEF BlocksCurrent, table, cpu, ids
    <2>4. /\ \A t \in Task : t # current => (Blocked(t)' <=> Blocked(t)) /\ (Reader(t)' <=> Reader(t))
          /\ Blocked(current)' /\ ~Blocked(current) /\ current \in Task /\ InTable(current)
          /\ \A p : ZombieChildren(p)' = ZombieChildren(p)
          /\ Awake' /\ ZombiePlace' /\ current' = current
      BY Zenon, <2>3, BlockFacts DEF BlocksCurrent
    <2>5. Exact /\ current \notin Waiters /\ current \notin Readers
      BY Zenon, <1>0, Places, ExactIs, CurrentAwake DEF QInv
    <2>6. /\ wait_next'[current] = wq["uart_rx_wq"]
          /\ \A u \in Task : u # current => wait_next'[u] = wait_next[u]
          /\ wq'["uart_rx_wq"] = current /\ wq'["parent_wq"] = wq["parent_wq"]
      BY Zenon, <2>1, <2>4, CurrentFacts DEF QInv, DataOK, Queues
    <2>7. Readers' = {current} \cup Readers /\ Acyclic(wait_next', wq'["uart_rx_wq"])
      <3>1. current \notin ChainOf(wait_next, wq["uart_rx_wq"]) /\ Acyclic(wait_next, wq["uart_rx_wq"])
        BY Zenon, <2>5 DEF Readers, Exact
      <3>2. /\ ChainOf(wait_next', current) = {current} \cup ChainOf(wait_next, wq["uart_rx_wq"])
            /\ Acyclic(wait_next', current)
        <4>1. /\ current \in Task /\ wait_next'[current] = wq["uart_rx_wq"]
              /\ \A u \in Task : u # current => wait_next'[u] = wait_next[u]
          BY Zenon, <2>4, <2>6
        <4> QED BY Zenon, <3>1, <4>1, PushQueue
      <3> QED BY Zenon, <2>6, <3>2 DEF Readers
    <2>8. Waiters' = Waiters /\ Acyclic(wait_next', wq'["parent_wq"])
      <3>1. \A t \in ChainOf(wait_next, wq["parent_wq"]) : wait_next'[t] = wait_next[t]
        BY Zenon, <2>5, <2>6, Members DEF Waiters
      <3>2. /\ ChainOf(wait_next', wq["parent_wq"]) = ChainOf(wait_next, wq["parent_wq"])
            /\ Acyclic(wait_next', wq["parent_wq"])
        BY Zenon, <2>5, <3>1, KeepQueue DEF Exact
      <3> QED BY <2>6, <3>2 DEF Waiters
    <2>9. Exact'
      <3>1. {t \in Task : Blocked(t)'} = {current} \cup {t \in Task : Blocked(t)}
        BY <2>4 DEF Blocked
      <3>2. Waiters' \cup Readers' = {t \in Task : Blocked(t)'}
        BY Zenon, <2>5, <2>7, <2>8, <3>1 DEF Exact
      <3>3. \A t \in Waiters' : pc'[t] \in WaitPlaces
        BY Zenon, <2>2, <2>5, <2>8, Members DEF Exact, WaitPlaces
      <3>4. \A t \in Readers' : pc'[t] \in ReadPlaces
        BY Zenon, <2>2, <2>5, <2>7, Members DEF Exact, ReadPlaces
      <3> QED BY Zenon, <2>7, <2>8, <3>2, <3>3, <3>4 DEF Exact
    <2>10. NoLostExit'
      <3>1. pid' = pid
        BY Zenon, <1>0 DEF ids
      <3>2. \A t \in Task : Blocked(t)' /\ pc'[t] \in {"wait", "wait_yield"} => ZombieChildren(pid[t]) = {}
        BY Zenon, <2>2, <2>4 DEF QInv, NoLostExit
      <3>3. \A t \in Task : Blocked(t)' /\ pc'[t] \in {"wait", "wait_yield"} => ZombieChildren(pid[t])' = {}
        <4> SUFFICES ASSUME NEW t \in Task, Blocked(t)', pc'[t] \in {"wait", "wait_yield"}
                     PROVE  ZombieChildren(pid[t])' = {}
          OBVIOUS
        <4>1. {i \in Slot : /\ tasks'[i] # NULL /\ ppid'[tasks'[i]] = pid[t]
                            /\ state'[tasks'[i]] = "ZOMBIE"} = {}
          BY <2>4, <3>2 DEF ZombieChildren
        <4> QED BY <3>1, <4>1 DEF ZombieChildren
      <3> QED BY <3>3 DEF NoLostExit
    <2>11. NoLostInput'
      <3>1. rx' = 0
        BY SMTT(30), <1>0, <1>2, CurrentFacts, ProcessAssumption DEF QInv, DataOK
      <3>2. Cardinality(AwakeReaders') \in Nat
        BY Zenon, TasksFinite DEF AwakeReaders
      <3>3. rx' <= Cardinality(AwakeReaders')
        BY <3>1, <3>2
      <3> QED BY Zenon, <3>3 DEF NoLostInput, AwakeReaders
    <2> QED BY <2>4, <2>9, <2>10, <2>11
  <1> QED BY Zenon, <1>1, <1>2

\* do_exit(): the task becomes a zombie and all of parent_wq is woken.
LEMMA ExitStep ==
  ASSUME QInv, SysExit \/ UserFault
  PROVE  Exact' /\ NoLostExit' /\ NoLostInput' /\ Awake' /\ ZombiePlace'
  <1>1. /\ pc[current] = "user" /\ ZombifyAndWakeParents(current)
        /\ pc' = [pc EXCEPT ![current] = "exit_yield"]
        /\ UNCHANGED <<table, cpu, ids, rx>>
    BY Zenon DEF SysExit, UserFault, DoExit, Calls, At
  <1>2. /\ current \in Task /\ DataOK /\ Exact
        /\ ~Blocked(current) /\ current \notin Waiters /\ current \notin Readers
    BY Zenon, <1>1, Places, CurrentFacts, CurrentAwake, ExactIs DEF QInv
  <1>3. Chain(wq["parent_wq"]) = Waiters
    BY Zenon, ChainIs DEF Waiters
  <1>4. /\ state' = [t \in Task |-> IF t \in Waiters THEN "READY"
                                    ELSE IF t = current THEN "ZOMBIE" ELSE state[t]]
        /\ wait_next' = [t \in Task |-> IF t \in Waiters THEN NULL ELSE wait_next[t]]
        /\ wq' = [wq EXCEPT !["parent_wq"] = NULL]
    BY Zenon, <1>1, <1>3 DEF ZombifyAndWakeParents
  <1>5. /\ Waiters \subseteq Task /\ Readers \subseteq Task /\ Waiters \cap Readers = {}
        /\ \A t \in Task : Blocked(t) <=> t \in Waiters \cup Readers
    BY Zenon, <1>2, Members
  <1>6. /\ state'[current] = "ZOMBIE" /\ \A t \in Waiters : state'[t] = "READY"
        /\ \A t \in Task : t \notin Waiters /\ t # current =>
              state'[t] = state[t] /\ wait_next'[t] = wait_next[t]
    BY Zenon, <1>2, <1>4, <1>5
  <1>7. wq'["parent_wq"] = NULL /\ wq'["uart_rx_wq"] = wq["uart_rx_wq"]
    BY Zenon, <1>2, <1>4 DEF DataOK, Queues
  <1>8. pc'[current] = "exit_yield" /\ \A t \in Task : t # current => pc'[t] = pc[t]
    BY Zenon, <1>1, <1>2 DEF DataOK
  <1>9. \A t \in Task : InTable(t)' <=> InTable(t)
    BY Zenon, <1>1 DEF InTable, table
  <1>10. \A t \in Task : Blocked(t)' <=> t \in Readers
    <2> SUFFICES ASSUME NEW t \in Task PROVE Blocked(t)' <=> t \in Readers
      OBVIOUS
    <2>1. CASE t \in Waiters \/ t = current
      <3>1. state'[t] # "BLOCKED" /\ t \notin Readers
        BY Zenon, <1>2, <1>5, <1>6, <2>1
      <3> QED BY Zenon, <3>1 DEF Blocked
    <2>2. CASE t \notin Waiters /\ t # current
      <3>1. state'[t] = state[t]
        BY Zenon, <1>6, <2>2
      <3>2. Blocked(t)' <=> Blocked(t)
        BY Zenon, <1>9, <3>1 DEF Blocked
      <3> QED BY Zenon, <1>5, <2>2, <3>2
    <2> QED BY Zenon, <2>1, <2>2
  <1>11. Waiters' = {} /\ Acyclic(wait_next', wq'["parent_wq"])
    <2>1. ChainOf(wait_next', wq'["parent_wq"]) = {}
      BY Zenon, <1>7, ConstantFacts, ChainOfNull
    <2> QED BY Zenon, <2>1 DEF Waiters, Acyclic
  <1>12. Readers' = Readers /\ Acyclic(wait_next', wq'["uart_rx_wq"])
    <2>1. \A t \in ChainOf(wait_next, wq["uart_rx_wq"]) : wait_next'[t] = wait_next[t]
      BY Zenon, <1>2, <1>5, <1>6 DEF Readers
    <2>2. /\ ChainOf(wait_next', wq["uart_rx_wq"]) = ChainOf(wait_next, wq["uart_rx_wq"])
          /\ Acyclic(wait_next', wq["uart_rx_wq"])
      BY Zenon, <1>2, <2>1, KeepQueue DEF Exact
    <2> QED BY Zenon, <1>7, <2>2 DEF Readers
  <1>13. Exact'
    <2>1. \A t \in Readers' : pc'[t] \in ReadPlaces
      BY Zenon, <1>2, <1>5, <1>8, <1>12 DEF Exact
    <2>2. Waiters' \cup Readers' = {t \in Task : Blocked(t)'}
      BY Zenon, <1>5, <1>10, <1>11, <1>12
    <2> QED BY Zenon, <1>11, <1>12, <2>1, <2>2 DEF Exact
  <1>14. NoLostExit'
    <2>1. \A t \in Readers : pc'[t] \in {"read", "read_yield"}
      BY Zenon, <1>2, <1>5, <1>8 DEF Exact, ReadPlaces
    <2>2. \A t \in Task : Blocked(t)' => pc'[t] \notin {"wait", "wait_yield"}
      BY Zenon, <1>10, <2>1
    <2> QED BY Zenon, <2>2 DEF NoLostExit
  <1>15. NoLostInput'
    <2>1. \A t \in Task : Reader(t)' <=> Reader(t)
      BY Zenon, <1>1, <1>8, <1>9 DEF Reader
    <2>2. \A t \in Waiters : ~Reader(t)
      BY Zenon, <1>2 DEF Exact, WaitPlaces, Reader
    <2>3. \A t \in Task : Reader(t) => (Blocked(t)' <=> Blocked(t))
      BY Zenon, <1>5, <1>10, <2>2
    <2>4. AwakeReaders' = AwakeReaders
      BY Zenon, <2>1, <2>3 DEF AwakeReaders
    <2>5. rx' = rx
      BY Zenon, <1>1
    <2>6. (\E t \in Task : Reader(t)' /\ Blocked(t)') => \E t \in Task : Reader(t) /\ Blocked(t)
      BY Zenon, <2>1, <2>3
    <2>7. (\E t \in Task : Reader(t) /\ Blocked(t)) => rx <= Cardinality(AwakeReaders)
      BY DEF QInv, NoLostInput, AwakeReaders
    <2>8. NoLostInput' <=> ((\E t \in Task : Reader(t)' /\ Blocked(t)') => rx' <= Cardinality(AwakeReaders'))
      BY Zenon DEF NoLostInput, AwakeReaders
    <2> HIDE DEF AwakeReaders
    <2> QED BY Zenon, <2>4, <2>5, <2>6, <2>7, <2>8
  <1>16. Awake' /\ ZombiePlace'
    <2>1. current' = current /\ pc'[current] \in DOMAIN AfterYield
      BY Zenon, <1>1, <1>8, Places DEF cpu
    <2>2. \A t \in Task : state'[t] = "ZOMBIE" => pc'[t] \in {"exit_yield", "halted"}
      BY Zenon, <1>6, <1>8 DEF QInv, ZombiePlace
    <2> QED BY Zenon, <2>1, <2>2 DEF Awake, ZombiePlace
  <1> QED BY Zenon, <1>13, <1>14, <1>15, <1>16

\* uart_rx_irq_handler(): one more byte, and one more reader awake.
LEMMA ReceiveStep ==
  ASSUME QInv, UartReceive
  PROVE  Exact' /\ NoLostExit' /\ NoLostInput' /\ Awake' /\ ZombiePlace'
  <1> DEFINE h == wq["uart_rx_wq"]
  <1>1. rx' = rx + 1 /\ WakeUpReader /\ UNCHANGED <<table, cpu, ids, pc>>
    BY Zenon DEF UartReceive
  <1>2. DataOK /\ Exact /\ h \in Task \cup {NULL} /\ rx \in Nat
    BY SMTT(30), CurrentFacts, ExactIs, ProcessAssumption DEF QInv, DataOK, Queues
  <1>3. \A t \in Task : (InTable(t)' <=> InTable(t)) /\ (Reader(t)' <=> Reader(t))
    BY Zenon, <1>1 DEF InTable, Reader, table
  <1>4. CASE h = NULL
    <2>1. UNCHANGED <<wq, wait_next, state>>
      BY Zenon, <1>1, <1>4 DEF WakeUpReader, queues
    <2>2. Quiet
      BY Zenon, <1>1, <2>1 DEF Quiet, Blocked, InTable, ZombieChildren, table, ids
    <2>3. Readers = {}
      BY Zenon, <1>4, ConstantFacts, ChainOfNull DEF Readers
    <2>4. \A t \in Task : ~(Reader(t) /\ Blocked(t))
      BY Zenon, <1>2, <2>3, Members DEF Reader
    <2>5. Exact' /\ NoLostExit' /\ \A t \in Task : ~(Reader(t)' /\ Blocked(t)')
      BY Zenon, <2>2, <2>4, QuietKeeps
    <2>6. NoLostInput'
      BY Zenon, <2>5 DEF NoLostInput
    <2>7. Awake' /\ ZombiePlace'
      BY Zenon, <1>1, <2>1 DEF QInv, Awake, ZombiePlace, cpu
    <2> QED BY Zenon, <2>5, <2>6, <2>7
  <1>5. CASE h \in Task
    <2>1. /\ wq' = [wq EXCEPT !["uart_rx_wq"] = wait_next[h]]
          /\ wait_next' = [wait_next EXCEPT ![h] = NULL]
          /\ state' = [state EXCEPT ![h] = "READY"]
      BY Zenon, <1>1, <1>5, ConstantFacts DEF WakeUpReader
    <2>2. /\ wq'["uart_rx_wq"] = wait_next[h] /\ wq'["parent_wq"] = wq["parent_wq"]
          /\ state'[h] = "READY"
          /\ \A u \in Task : u # h => wait_next'[u] = wait_next[u] /\ state'[u] = state[u]
      BY Zenon, <1>2, <1>5, <2>1 DEF DataOK, Queues
    <2> HIDE DEF h
    <2>3. Readers' = Readers \ {h} /\ Acyclic(wait_next', wq'["uart_rx_wq"]) /\ h \in Readers
      <3>1. Acyclic(wait_next, h) /\ Readers = ChainOf(wait_next, h)
        BY Zenon, <1>2 DEF Exact, Readers, h
      <3>2. /\ ChainOf(wait_next', wait_next[h]) = ChainOf(wait_next, h) \ {h}
            /\ Acyclic(wait_next', wait_next[h]) /\ h \in ChainOf(wait_next, h)
        BY Zenon, <1>5, <2>2, <3>1, PopQueue
      <3> QED BY <2>2, <3>1, <3>2, Zenon DEF Readers
    <2>4. /\ Waiters \subseteq Task /\ Readers \subseteq Task /\ h \notin Waiters
          /\ \A t \in Task : Blocked(t) <=> t \in Waiters \cup Readers
      BY Zenon, <1>2, <2>3, Members
    <2>5. Waiters' = Waiters /\ Acyclic(wait_next', wq'["parent_wq"])
      <3>1. \A t \in ChainOf(wait_next, wq["parent_wq"]) : wait_next'[t] = wait_next[t]
        BY Zenon, <2>2, <2>4 DEF Waiters
      <3>2. /\ ChainOf(wait_next', wq["parent_wq"]) = ChainOf(wait_next, wq["parent_wq"])
            /\ Acyclic(wait_next', wq["parent_wq"])
        BY Zenon, <1>2, <3>1, KeepQueue DEF Exact
      <3> QED BY Zenon, <2>2, <3>2 DEF Waiters
    <2>6. \A t \in Task : Blocked(t)' <=> (Blocked(t) /\ t # h)
      BY Zenon, <1>3, <2>2 DEF Blocked
    <2>7. pc' = pc /\ pid' = pid /\ current' = current
      BY Zenon, <1>1 DEF cpu, ids
    <2>8. Exact'
      <3>1. Waiters' \cup Readers' = {t \in Task : Blocked(t)'}
        BY Zenon, <2>3, <2>4, <2>5, <2>6
      <3>2. /\ \A t \in Waiters' : pc'[t] \in WaitPlaces
            /\ \A t \in Readers' : pc'[t] \in ReadPlaces
        BY Zenon, <1>2, <2>3, <2>5, <2>7 DEF Exact
      <3> QED BY Zenon, <2>3, <2>5, <3>1, <3>2 DEF Exact
    <2>9. \A p : \A i \in Slot :
            tasks'[i] # NULL /\ ppid'[tasks'[i]] = p /\ state'[tasks'[i]] = "ZOMBIE"
              => i \in ZombieChildren(p)
      BY Zenon, <1>1, <1>2, <2>2 DEF ZombieChildren, table, ids, DataOK
    <2>10. NoLostExit'
      <3> SUFFICES ASSUME NEW t \in Task, Blocked(t)', pc'[t] \in {"wait", "wait_yield"}
                   PROVE  ZombieChildren(pid[t])' = {}
        BY Zenon DEF NoLostExit
      <3>1. ZombieChildren(pid[t]) = {}
        BY Zenon, <2>6, <2>7 DEF QInv, NoLostExit
      <3>2. pid'[t] = pid[t]
        BY Zenon, <2>7
      <3>3. ASSUME NEW i \in Slot, tasks'[i] # NULL, ppid'[tasks'[i]] = pid[t],
                   state'[tasks'[i]] = "ZOMBIE"
            PROVE  FALSE
        BY Zenon, <2>9, <3>1, <3>3
      <3> QED BY Zenon, <3>2, <3>3 DEF ZombieChildren
    <2>11. h \notin AwakeReaders /\ AwakeReaders' = AwakeReaders \cup {h}
      <3>1. Blocked(h) /\ Reader(h)
        BY Zenon, <1>2, <1>5, <2>3, <2>4 DEF Exact, ReadPlaces, Reader, Blocked
      <3> QED BY Zenon, <1>3, <1>5, <2>6, <3>1 DEF AwakeReaders
    <2>12. NoLostInput'
      <3>1. Blocked(h) /\ Reader(h)
        BY <1>2, <1>5, <2>3, <2>4 DEF Exact, ReadPlaces, Reader, Blocked
      <3>2. rx <= Cardinality(AwakeReaders)
        BY Zenon, <1>5, <3>1 DEF QInv, NoLostInput, AwakeReaders
      <3>3. IsFiniteSet(AwakeReaders) /\ Cardinality(AwakeReaders) \in Nat
        BY Zenon, TasksFinite DEF AwakeReaders
      <3>4. NoLostInput' <=> ((\E t \in Task : Reader(t)' /\ Blocked(t)') => rx' <= Cardinality(AwakeReaders'))
        BY DEF NoLostInput, AwakeReaders
      <3> HIDE DEF AwakeReaders
      <3>5. Cardinality(AwakeReaders \cup {h}) = Cardinality(AwakeReaders) + 1
        BY Zenon, <2>11, <3>3, FS_AddElement
      <3>6. rx' <= Cardinality(AwakeReaders')
        BY SMTT(30), <1>1, <1>2, <2>11, <3>2, <3>3, <3>5
      <3> QED BY Zenon, <3>4, <3>6
    <2>13. Awake' /\ ZombiePlace'
      <3>1. current \in Task
        BY Zenon, <1>2 DEF DataOK
      <3>2. pc'[current] \notin DOMAIN AfterYield => state'[current] \in {"READY", "RUNNING"}
        BY Zenon, <2>2, <2>7, <3>1 DEF QInv, Awake
      <3>3. \A t \in Task : state'[t] = "ZOMBIE" => pc'[t] \in {"exit_yield", "halted"}
        BY Zenon, <2>2, <2>7 DEF QInv, ZombiePlace
      <3> QED BY Zenon, <2>7, <3>2, <3>3 DEF Awake, ZombiePlace
    <2> QED BY Zenon, <2>8, <2>10, <2>12, <2>13
  <1> QED BY Zenon, <1>2, <1>4, <1>5

-----------------------------------------------------------------------------
(* Theorems *)

\* Both queues start empty, and nobody is blocked.
LEMMA QueuesInit == Init => QInv
  <1> SUFFICES ASSUME Init PROVE QInv
    OBVIOUS
  <1>1. IInv
    BY Zenon, InitInv
  <1>2. /\ \A t \in Task : state[t] \in {"READY", "RUNNING"}
        /\ wq["parent_wq"] = NULL /\ wq["uart_rx_wq"] = NULL /\ current \in Task
    BY Zenon, ConstantFacts DEF Init, Queues
  <1>3. \A t \in Task : ~Blocked(t)
    BY Zenon, <1>2 DEF Blocked
  <1>4. Waiters = {} /\ Readers = {}
    BY Zenon, <1>2, ConstantFacts, ChainOfNull DEF Waiters, Readers
  <1>5. Exact
    BY Zenon, <1>3, <1>4 DEF Exact, Acyclic, Waiters, Readers
  <1>6. NoLostInput /\ NoLostExit
    BY Zenon, <1>3 DEF NoLostInput, NoLostExit
  <1>7. Awake /\ ZombiePlace
    BY Zenon, <1>2 DEF Awake, ZombiePlace
  <1> QED BY Zenon, <1>1, <1>5, <1>6, <1>7, ExactIs DEF QInv

\* Every step keeps the invariant, as long as nobody kills.
LEMMA QueuesStep ==
  ASSUME "kill" \notin Workload, QInv, [Next]_vars
  PROVE  QInv'
  <1>1. IInv'
    BY Zenon, CoreStep, TableStep DEF QInv, IInv
  <1>2. Exact' /\ NoLostExit' /\ NoLostInput' /\ Awake' /\ ZombiePlace'
    <2>1. CASE Yielding
      BY Zenon, <2>1, YieldingStep
    <2>2. CASE WaitForChild
      BY Zenon, <2>2, WaitForChildStep
    <2>3. CASE Reap
      BY <2>3, ReapQuiet
    <2>4. CASE WaitForInput
      BY <2>4, WaitForInputStep
    <2>5. CASE GetChar
      BY <2>5, GetCharStep
    <2>6. CASE IdleLoop \/ IdleWakes \/ SysYield \/ SysWait \/ SysRead
      BY Zenon, <2>6, SimpleStep
    <2>7. CASE SysFork
      BY <2>7, ForkQuiet
    <2>8. CASE SysExit \/ UserFault
      BY Zenon, <2>8, ExitStep
    <2>9. CASE \E p \in Slot : SysKill(p)
      BY Zenon, <2>9 DEF SysKill, Calls
    <2>10. CASE TimerTick \/ UNCHANGED vars
      BY Zenon, <2>10, Still DEF TimerTick, vars, table, cpu, ids, queues
    <2>11. CASE UartReceive
      BY <2>11, ReceiveStep
    <2> QED BY <2>1, <2>2, <2>3, <2>4, <2>5, <2>6, <2>7, <2>8, <2>9, <2>10, <2>11, Zenon
            DEF Next, KernelStep, UserStep, Blocking, Idling
  <1> QED BY Zenon, <1>1, <1>2, ExactIs DEF QInv

\* The inductive invariant of the wait queues.
THEOREM QueueInvariance ==
  ASSUME "kill" \notin Workload
  PROVE  Spec => []QInv
  <1>1. QInv /\ [Next]_vars => QInv'
    BY Zenon, QueuesStep
  <1> QED BY <1>1, QueuesInit, PTL DEF Spec

\* wait_event() and wake_up() keep parent_wq and uart_rx_wq exact: disjoint,
\* acyclic, and holding the BLOCKED tasks and nobody else.
THEOREM QueuesAreExact ==
  ASSUME "kill" \notin Workload
  PROVE  Spec => []QueueDiscipline
  <1>1. QInv => QueueDiscipline
    BY Zenon DEF QInv
  <1> QED BY <1>1, QueueInvariance, PTL

\* Neither a received byte nor an exiting child is missed by a task that
\* wait_event() has put to sleep.
THEOREM NoWakeUpIsLost ==
  ASSUME "kill" \notin Workload
  PROVE  Spec => []NoLostWakeUp
  <1>1. QInv => NoLostWakeUp
    BY DEF QInv, NoLostWakeUp
  <1> QED BY <1>1, QueueInvariance, PTL
=============================================================================
