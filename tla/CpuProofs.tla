------------------------------ MODULE CpuProofs ------------------------------
(***************************************************************************)
(* Proofs that a task finds its registers, stack and address space as it   *)
(* left them, for any number of forked tasks and of faults.                *)
(***************************************************************************)
EXTENDS Cpu, TLAPS

-----------------------------------------------------------------------------
(* The inductive invariant *)

UserPlaces  == {"user_start", "user", "returned"}
SvcPlaces   == {"svc_save", "svc_mrs", "svc_psr", "svc_enable", "svc_call",
                "handler", "handler_back"}
ExitPlaces  == {"exit_pop", "exit_msr", "exit_return"}
IdlePlaces  == {"idle_start", "idle", "idle_back"}
LeavePlaces == {"switch_save", "switch_sp", "switch_sys", "switch_usr", "switch_svc", "switch_ttbr"}
MidPlaces   == {"switch_tlb", "switch_load"}
LoadPlaces  == {"load_sys", "load_usr", "load_svc", "load_pop", "load_return"}
OwnPlaces   == UserPlaces \cup SvcPlaces \cup ExitPlaces \cup IdlePlaces \cup LoadPlaces
Places      == OwnPlaces \cup LeavePlaces \cup MidPlaces \cup {"first_sp"}
IrqPlaces   == {"irq_adjust", "irq_srs", "irq_cps", "irq_save", "irq_call", "irq_restore", "irq_rfe"}

\* The mode in which the instruction at a place executes.
ModeOf(l) == IF l \in UserPlaces THEN "usr"
             ELSE IF l \in {"switch_usr", "switch_svc", "load_usr", "load_svc"} THEN "sys"
             ELSE "svc"

\* The memory of a stack under the page table of its task.
Home(a) == IF a = "init" THEN <<"user", "kernel">> ELSE <<"kernel", a>>

PsrOf(t) == Psr(IF t = "idle" THEN "svc" ELSE "usr", FALSE)

\* The machine before the instruction at l, with registers r, LR_svc ls and d
\* frames on the stack.  The predicates below are about such a view, so that
\* they can also be stated of what an interrupt handler has put aside.
View(l, r, ls, d) ==
    [at |-> l, r |-> r, ls |-> ls, d |-> d, area |-> sp.area, su |-> sp_usr, lu |-> lr.usr,
     psr |-> spsr.svc, ttbr |-> ttbr, tlb |-> tlb, mem |-> mem, context |-> context,
     current |-> current, live |-> live, user |-> user]

\* The first frame of a task holds what svc_exit_trampoline gives back to it:
\* what its program left, or the start of a program.
Entry(v, t, su, lu) ==
    LET f == v.mem[Home(t)][1] IN
    IF t = "idle" THEN f.lr = Addr("idle_start")
    ELSE \/ f.lr = Addr("user_start")
         \/ /\ f.lr = Addr("returned") /\ f.r0 = v.user[t].r0
            /\ \A w \in {f.r1, f.scr, f.cal, su, lu} : w = Val(v.user[t].of)

Exiting(v, t, su, lu) == Entry(v, t, su, lu) /\ v.mem[Home(t)][2].spsr = PsrOf(t)
InHandler(v, t, su, lu) ==
    t # "idle" /\ Exiting(v, t, su, lu) /\ v.mem[Home(t)][3].lr = Addr("exit_pop")

\* A task that context_switch() returns to at ra, with d frames on its stack.
Returns(v, t, d, ra, su, lu) ==
    \/ ra = Addr("exit_pop") /\ d = 2 /\ Exiting(v, t, su, lu)
    \/ ra = Addr("handler_back") /\ d = 4 /\ InHandler(v, t, su, lu)
    \/ ra = Addr("idle_back") /\ d = 1 /\ t = "idle" /\ v.mem[Home(t)][1].cal = Val("idle")

\* The return address is in the topmost of d frames.
Stacked(v, t, d, su, lu) ==
    d \in 2 .. 5 /\ Returns(v, t, d - 1, v.mem[Home(t)][d].lr, su, lu)

\* A task that context_switch() can resume from its task_struct.
Saved(v, t) ==
    /\ v.context[t].sp.area = t
    /\ Stacked(v, t, v.context[t].sp.depth, v.context[t].sp_usr, v.context[t].lr_usr)

AllSaved(v, S) == \A t \in S : Saved(v, t)

Registers(v) == /\ v.r.r0 = v.user[v.current].r0
                /\ \A w \in {v.r.r1, v.r.scr, v.r.cal, v.lu, v.su} : w = Val(v.user[v.current].of)

\* The current task executes a program, a system call or the end of one.
Called(v) ==
    /\ v.at \in UserPlaces => v.d = 0 /\ v.current # "idle"
    /\ v.at \in {"user", "returned"} => Registers(v)
    /\ v.at = "svc_save" =>
         v.d = 0 /\ v.current # "idle" /\ Registers(v) /\ v.ls = Addr("returned")
    /\ v.at \in {"svc_mrs", "svc_psr"} =>
         v.d = 1 /\ v.current # "idle" /\ Entry(v, v.current, v.su, v.lu)
    /\ v.at \in {"svc_save", "svc_mrs", "exit_return"} => v.psr = PsrOf(v.current)
    /\ v.at \in {"svc_psr", "exit_msr"} => v.r.r0 = PsrOf(v.current)
    /\ v.at \in {"svc_enable", "svc_call"} =>
         v.d = 2 /\ v.current # "idle" /\ Exiting(v, v.current, v.su, v.lu)
    /\ v.at = "handler" => v.d = 3 /\ InHandler(v, v.current, v.su, v.lu)
    /\ v.at = "handler_back" => v.d = 4 /\ InHandler(v, v.current, v.su, v.lu)
    /\ v.at = "exit_pop" => v.d = 2 /\ Exiting(v, v.current, v.su, v.lu)
    /\ v.at \in {"exit_msr", "exit_return"} => v.d = 1 /\ Entry(v, v.current, v.su, v.lu)

\* It is the idle loop.
Idles(v) ==
    /\ v.at \in IdlePlaces => v.current = "idle"
    /\ v.at \in {"idle_start", "idle"} => v.d = 0
    /\ v.at = "idle" => v.r.cal = Val("idle")
    /\ v.at = "idle_back" => v.d = 1 /\ v.mem[Home("idle")][1].cal = Val("idle")

\* It is being resumed.
Loads(v) ==
    /\ v.at \in {"load_sys", "load_usr"} =>
         /\ Saved(v, v.current) /\ v.d = v.context[v.current].sp.depth
         /\ \/ v.r.r1 = Val(v.current)
            \/ v.r.r1 = Junk /\ v.r.r0 = Val(v.current)
    /\ v.at \in {"load_svc", "load_pop"} => Stacked(v, v.current, v.d, v.su, v.lu)
    /\ v.at = "load_return" => Returns(v, v.current, v.d, v.ls, v.su, v.lu)

\* The current task is on its own stack and in its own address space.
Own(v) ==
    /\ v.area = v.current /\ v.ttbr = Pgd(v.current) /\ v.tlb = v.ttbr
    /\ AllSaved(v, v.live \ {v.current})
    /\ Called(v) /\ Idles(v) /\ Loads(v)

\* The previous task, which may be a zombie, is still on its stack.
Leaving(v) ==
    /\ v.area \in Tasks \ {v.current} /\ v.d \in 1 .. 5
    /\ v.r.r0 = Val(v.area) /\ v.r.r1 = Val(v.current)
    /\ AllSaved(v, v.live \ {v.area})
    /\ v.at \in LeavePlaces => v.ttbr = Pgd(v.area) /\ v.tlb = v.ttbr
    /\ v.at \in MidPlaces => v.ttbr = Pgd(v.current)
    /\ v.at = "switch_load" => v.tlb = v.ttbr
    /\ v.at = "switch_save" => v.d <= 4
    /\ v.at \notin {"switch_save", "switch_sp"} =>
         v.context[v.area].sp = [area |-> v.area, depth |-> v.d]
    /\ v.area \in v.live =>
         /\ v.at = "switch_save" => Returns(v, v.area, v.d, v.ls, v.su, v.lu)
         /\ v.at \in {"switch_sp", "switch_sys", "switch_usr"} => Stacked(v, v.area, v.d, v.su, v.lu)
         /\ v.at \in {"switch_svc", "switch_ttbr"} \cup MidPlaces => Saved(v, v.area)

\* start_first_task() is on the boot stack.
Starting(v) ==
    /\ v.area = "boot" /\ v.d = 0 /\ v.current = "idle"
    /\ v.r.r0 = Val("idle") /\ v.r.r1 = Junk
    /\ v.ttbr = "kernel" /\ v.tlb = "kernel" /\ AllSaved(v, v.live)

Running(v) ==
    /\ v.current \in v.live
    /\ v.at \in OwnPlaces => Own(v)
    /\ v.at \in LeavePlaces \cup MidPlaces => Leaving(v)
    /\ v.at = "first_sp" => Starting(v)

Under(n) == mem[Behind(sp.area)][sp.depth - n]
RegsOf(f) == [r0 |-> f.r0, r1 |-> f.r1, scr |-> f.scr, cal |-> f.cal]

\* An interrupt was taken before the instruction at l: where the handler has
\* the return address, the mode and the registers it will give back.
Interrupted(l) ==
    /\ at = "irq_adjust" => lr.irq = Addr4(l)
    /\ at = "irq_srs" => lr.irq = Addr(l)
    /\ at \in {"irq_adjust", "irq_srs"} =>
         spsr.irq = Psr(ModeOf(l), FALSE) /\ Running(View(l, g, lr.svc, sp.depth))
    /\ at \in {"irq_cps", "irq_save", "irq_rfe"} =>
         /\ sp.depth >= 1 /\ Under(0).lr = Addr(l) /\ Under(0).spsr = Psr(ModeOf(l), FALSE)
         /\ Running(View(l, g, lr.svc, sp.depth - 1))
    /\ at \in {"irq_call", "irq_restore"} =>
         /\ sp.depth >= 2 /\ Under(1).lr = Addr(l) /\ Under(1).spsr = Psr(ModeOf(l), FALSE)
         /\ Running(View(l, RegsOf(Under(0)), Under(0).lr, sp.depth - 2))

StackPointer == [area : Tasks \cup {"boot"}, depth : 0 .. DEPTH]

MemShape ==
    /\ DOMAIN mem = Memories
    /\ \A m \in Memories : DOMAIN mem[m] = 1 .. DEPTH
    /\ \A m \in Memories, i \in 1 .. DEPTH : DOMAIN mem[m][i] = DOMAIN NoFrame

\* Registers and memory have the fields they are meant to have.
Shape ==
    /\ live \subseteq Tasks /\ current \in Tasks
    /\ ttbr \in {"kernel"} \cup Forked /\ tlb \in {"kernel"} \cup Forked
    /\ sp \in StackPointer
    /\ g = [r0 |-> g.r0, r1 |-> g.r1, scr |-> g.scr, cal |-> g.cal]
    /\ lr = [usr |-> lr.usr, svc |-> lr.svc, irq |-> lr.irq]
    /\ spsr = [svc |-> spsr.svc, irq |-> spsr.irq]
    /\ MemShape
    /\ DOMAIN context = Tasks /\ DOMAIN user = Tasks
    /\ \A t \in Tasks : /\ context[t] = [sp |-> context[t].sp, sp_usr |-> context[t].sp_usr,
                                         lr_usr |-> context[t].lr_usr]
                        /\ context[t].sp \in StackPointer
                        /\ user[t] = [of |-> user[t].of, r0 |-> user[t].r0]

\* The instruction to be executed and what holds there.
Flow ==
    /\ at \in Places \cup IrqPlaces \cup {"halted"}
    /\ at \in Places => mode = ModeOf(at) /\ ~serving /\ Running(View(at, g, lr.svc, sp.depth))
    /\ at \in UserPlaces => ~masked
    /\ at \in IrqPlaces => masked /\ \E l \in Places : Interrupted(l)
    /\ at \in {"irq_restore", "irq_rfe"} => ~serving

IInv == Shape /\ Flow

-----------------------------------------------------------------------------
(* Words and stacks *)

\* The kinds of words are told apart by their tags.
LEMMA WordFacts ==
  /\ \A l : Addr(l)[1] = "addr" /\ Addr(l)[2] = l /\ Addr4(l)[2] = l
  /\ \A t : Val(t)[1] = "val" /\ Val(t)[2] = t
  /\ \A k, l : Addr(k) = Addr(l) => k = l
  /\ Junk[1] = "junk"
  /\ \A m : /\ Psr(m, FALSE)[1] = "psr" /\ Psr(m, FALSE)[2] = m
            /\ Psr(m, FALSE)[3] = "open"
  BY Zenon DEF Addr, Addr4, Val, Junk, Psr

\* The task whose task_struct is in r1, or in r0 where there is no other.
LEMMA ResumedFacts ==
  \A t : g.r1 = Val(t) \/ (g.r1 = Junk /\ g.r0 = Val(t)) => Resumed = t
  BY WordFacts DEF Resumed

\* A jump to an address.
LEMMA Jumps == \A w, l : w = Addr(l) /\ JumpTo(w) => at' = l
  BY WordFacts DEF JumpTo

\* Different stacks are in different memory, also while the address of init's
\* stack leads into the memory of another task.
LEMMA Apart ==
  ASSUME tlb \in {"kernel"} \cup Forked, NEW a \in Tasks \cup {"boot"}
  PROVE  /\ Home(a) \in Memories /\ Behind(a) \in Memories
         /\ a # "init" \/ tlb = "kernel" => Behind(a) = Home(a)
         /\ \A t \in Tasks : t # a => Behind(a) # Home(t) /\ Home(a) # Home(t)
  <1>1. /\ "boot" \notin Tasks /\ "kernel" \notin Tasks /\ "idle" # "init"
        /\ "idle" \notin Forked /\ "init" \notin Forked /\ "boot" \notin Forked /\ "kernel" \notin Forked
    BY Zenon, CpuAssumption DEF Tasks
  <1>2. Home(a) \in Memories
    BY Zenon, <1>1 DEF Home, Memories, Tasks
  <1>3. Behind(a) \in Memories
    BY Zenon, <1>1 DEF Behind, Memories, Tasks
  <1>4. a # "init" \/ tlb = "kernel" => Behind(a) = Home(a)
    BY Zenon DEF Behind, Home
  <1>5. \A t \in Tasks : t # a => Behind(a) # Home(t) /\ Home(a) # Home(t)
    BY Zenon DEF Behind, Home
  <1> QED BY Zenon, <1>2, <1>3, <1>4, <1>5

\* A frame with some of its words set is a frame.
FrameFields == {"r0", "r1", "scr", "cal", "lr", "spsr"}

\* The registers a frame has room for.
LEMMA NoFrameFields == DOMAIN NoFrame = FrameFields
  BY Zenon DEF NoFrame, FrameFields

\* What a store-multiple changes.
LEMMA PushFacts ==
  ASSUME Shape, NEW f, DOMAIN f = DOMAIN NoFrame, Push(f), sp.depth < DEPTH
  PROVE  /\ sp'.area = sp.area /\ sp'.depth = sp.depth + 1 /\ sp' \in StackPointer
         /\ MemShape'
         /\ mem'[Behind(sp.area)][sp.depth + 1] = f
         /\ \A m \in Memories, i \in 1 .. DEPTH :
              m # Behind(sp.area) \/ i # sp.depth + 1 => mem'[m][i] = mem[m][i]
  <1>1. sp.area \in Tasks \cup {"boot"} /\ sp.depth \in 0 .. DEPTH /\ sp \in StackPointer
    BY Zenon DEF Shape, StackPointer
  <1>2. sp'.area = sp.area /\ sp'.depth = sp.depth + 1 /\ sp' \in StackPointer
    BY <1>1 DEF Push, StackPointer, DEPTH
  <1>3. Behind(sp.area) \in Memories
    BY Zenon, <1>1, Apart DEF Shape
  <1> DEFINE b == Behind(sp.area)
             k == sp.depth + 1
  <1>4. mem' = [mem EXCEPT ![b][k] = f] /\ k \in 1 .. DEPTH /\ b \in Memories
    BY <1>1, <1>3 DEF Push, DEPTH
  <1> HIDE DEF b, k
  <1>5. /\ DOMAIN mem' = Memories /\ mem'[b] = [mem[b] EXCEPT ![k] = f]
        /\ \A m \in Memories : m # b => mem'[m] = mem[m]
    BY Zenon, <1>4 DEF Shape, MemShape
  <1>6. /\ mem'[b][k] = f /\ DOMAIN mem'[b] = 1 .. DEPTH
        /\ \A i \in 1 .. DEPTH : i # k => mem'[b][i] = mem[b][i]
    BY Zenon, <1>4, <1>5 DEF Shape, MemShape
  <1>7. \A m \in Memories, i \in 1 .. DEPTH : m # b \/ i # k => mem'[m][i] = mem[m][i]
    BY Zenon, <1>5, <1>6
  <1>8. MemShape'
    <2>1. \A m \in Memories : DOMAIN mem'[m] = 1 .. DEPTH
      BY Zenon, <1>5, <1>6 DEF Shape, MemShape
    <2>2. \A m \in Memories, i \in 1 .. DEPTH : DOMAIN mem'[m][i] = DOMAIN NoFrame
      <3>1. \A m \in Memories, i \in 1 .. DEPTH : DOMAIN mem[m][i] = DOMAIN NoFrame
        BY Zenon DEF Shape, MemShape
      <3> QED BY <1>6, <1>7, <3>1, Zenon
    <2> QED BY Zenon, <1>5, <2>1, <2>2 DEF MemShape
  <1> QED BY Zenon, <1>2, <1>6, <1>7, <1>8 DEF b, k

\* What a load-multiple changes.
LEMMA DropFacts ==
  ASSUME Shape, Drop, sp.depth > 0
  PROVE  /\ sp'.area = sp.area /\ sp'.depth = sp.depth - 1 /\ sp' \in StackPointer
         /\ MemShape'
         /\ \A m \in Memories, i \in 1 .. DEPTH :
              m # Behind(sp.area) \/ i # sp.depth => mem'[m][i] = mem[m][i]
  <1>1. sp.area \in Tasks \cup {"boot"} /\ sp.depth \in 0 .. DEPTH /\ sp \in StackPointer
    BY Zenon DEF Shape, StackPointer
  <1>2. sp'.area = sp.area /\ sp'.depth = sp.depth - 1 /\ sp' \in StackPointer
    BY <1>1 DEF Drop, StackPointer, DEPTH
  <1>3. Behind(sp.area) \in Memories
    BY Zenon, <1>1, Apart DEF Shape
  <1> DEFINE b == Behind(sp.area)
             k == sp.depth
  <1>4. mem' = [mem EXCEPT ![b][k] = NoFrame] /\ k \in 1 .. DEPTH /\ b \in Memories
    BY <1>1, <1>3 DEF Drop, DEPTH
  <1> HIDE DEF b, k
  <1>5. /\ DOMAIN mem' = Memories /\ mem'[b] = [mem[b] EXCEPT ![k] = NoFrame]
        /\ \A m \in Memories : m # b => mem'[m] = mem[m]
    BY Zenon, <1>4 DEF Shape, MemShape
  <1>6. /\ mem'[b][k] = NoFrame /\ DOMAIN mem'[b] = 1 .. DEPTH
        /\ \A i \in 1 .. DEPTH : i # k => mem'[b][i] = mem[b][i]
    BY Zenon, <1>4, <1>5 DEF Shape, MemShape
  <1>7. \A m \in Memories, i \in 1 .. DEPTH : m # b \/ i # k => mem'[m][i] = mem[m][i]
    BY Zenon, <1>5, <1>6
  <1>8. MemShape'
    <2>1. \A m \in Memories : DOMAIN mem'[m] = 1 .. DEPTH
      BY Zenon, <1>5, <1>6 DEF Shape, MemShape
    <2>2. \A m \in Memories, i \in 1 .. DEPTH : DOMAIN mem'[m][i] = DOMAIN NoFrame
      <3>1. \A m \in Memories, i \in 1 .. DEPTH : DOMAIN mem[m][i] = DOMAIN NoFrame
        BY Zenon DEF Shape, MemShape
      <3> QED BY <1>6, <1>7, <3>1, Zenon
    <2> QED BY Zenon, <1>5, <2>1, <2>2 DEF MemShape
  <1> QED BY Zenon, <1>2, <1>7, <1>8 DEF b, k

-----------------------------------------------------------------------------
(* What the predicates on a view depend on *)

\* w has the frames of v, but for those of a's stack above the first d.
SameBelow(v, w, a, d) ==
    \A t \in Tasks, i \in 1 .. DEPTH : t # a \/ i <= d => w.mem[Home(t)][i] = v.mem[Home(t)][i]

\* The frames of a task that context_switch() returns to.
LEMMA ReturnsKeep ==
  ASSUME NEW v, NEW w, NEW t, NEW d, NEW ra, NEW su, NEW lu,
         \A i \in 1 .. d : w.mem[Home(t)][i] = v.mem[Home(t)][i],
         w.user[t] = v.user[t], Returns(v, t, d, ra, su, lu)
  PROVE  Returns(w, t, d, ra, su, lu)
  <1>1. CASE d = 2 /\ ra = Addr("exit_pop") /\ Exiting(v, t, su, lu)
    <2>1. w.mem[Home(t)][1] = v.mem[Home(t)][1] /\ w.mem[Home(t)][2] = v.mem[Home(t)][2]
      BY SMTT(30), <1>1
    <2> QED BY Zenon, <1>1, <2>1 DEF Returns, Exiting, Entry
  <1>2. CASE d = 4 /\ ra = Addr("handler_back") /\ InHandler(v, t, su, lu)
    <2>1. /\ w.mem[Home(t)][1] = v.mem[Home(t)][1] /\ w.mem[Home(t)][2] = v.mem[Home(t)][2]
          /\ w.mem[Home(t)][3] = v.mem[Home(t)][3]
      BY <1>2
    <2> QED BY SMTT(30), <1>2, <2>1 DEF Returns, InHandler, Exiting, Entry
  <1>3. CASE d = 1 /\ ra = Addr("idle_back") /\ t = "idle" /\ v.mem[Home(t)][1].cal = Val("idle")
    <2>1. w.mem[Home(t)][1] = v.mem[Home(t)][1]
      BY <1>3
    <2> QED BY Zenon, <1>3, <2>1 DEF Returns
  <1> QED BY Zenon, <1>1, <1>2, <1>3 DEF Returns

\* The same with the return address on the stack.
LEMMA StackedKeep ==
  ASSUME NEW v, NEW w, NEW t, NEW d, NEW su, NEW lu,
         \A i \in 1 .. d : w.mem[Home(t)][i] = v.mem[Home(t)][i],
         w.user[t] = v.user[t], Stacked(v, t, d, su, lu)
  PROVE  Stacked(w, t, d, su, lu)
  <1>1. d \in 2 .. 5 /\ Returns(v, t, d - 1, v.mem[Home(t)][d].lr, su, lu)
    BY Zenon DEF Stacked
  <1>2. /\ \A i \in 1 .. d - 1 : w.mem[Home(t)][i] = v.mem[Home(t)][i]
        /\ w.mem[Home(t)][d] = v.mem[Home(t)][d]
    BY <1>1
  <1>3. Returns(w, t, d - 1, v.mem[Home(t)][d].lr, su, lu)
    BY Zenon, <1>1, <1>2, ReturnsKeep
  <1> QED BY Zenon, <1>1, <1>2, <1>3 DEF Stacked

\* A saved task stays saved while others use their stacks.
LEMMA SavedKeep ==
  ASSUME NEW v, NEW w, NEW t \in Tasks, NEW a, NEW e \in Nat, SameBelow(v, w, a, e),
         t # a \/ v.context[t].sp.depth <= e,
         w.context[t] = v.context[t], w.user[t] = v.user[t], Saved(v, t)
  PROVE  Saved(w, t)
  <1> DEFINE d == v.context[t].sp.depth
  <1>1. d \in 2 .. 5
    BY Zenon DEF Saved, Stacked
  <1>2. \A i \in 1 .. d : w.mem[Home(t)][i] = v.mem[Home(t)][i]
    BY <1>1 DEF SameBelow, DEPTH
  <1>3. Stacked(v, t, d, v.context[t].sp_usr, v.context[t].lr_usr)
    BY Zenon DEF Saved
  <1> HIDE DEF d
  <1>4. Stacked(w, t, d, v.context[t].sp_usr, v.context[t].lr_usr)
    BY Zenon, <1>2, <1>3, StackedKeep
  <1> QED BY Zenon, <1>4 DEF Saved, d

\* What a task left in its first frames.
LEMMA FramesKeep ==
  ASSUME NEW v, NEW w, NEW t, NEW su, NEW lu, w.user[t] = v.user[t],
         w.mem[Home(t)][1] = v.mem[Home(t)][1]
  PROVE  /\ Entry(v, t, su, lu) => Entry(w, t, su, lu)
         /\ (/\ w.mem[Home(t)][2] = v.mem[Home(t)][2]
             /\ Exiting(v, t, su, lu)) => Exiting(w, t, su, lu)
         /\ (/\ w.mem[Home(t)][2] = v.mem[Home(t)][2] /\ w.mem[Home(t)][3] = v.mem[Home(t)][3]
             /\ InHandler(v, t, su, lu)) => InHandler(w, t, su, lu)
  <1>1. Entry(v, t, su, lu) => Entry(w, t, su, lu)
    BY Zenon DEF Entry
  <1>2. (/\ w.mem[Home(t)][2] = v.mem[Home(t)][2]
         /\ Exiting(v, t, su, lu)) => Exiting(w, t, su, lu)
    BY Zenon, <1>1 DEF Exiting
  <1> QED BY Zenon, <1>1, <1>2 DEF InHandler

\* All others stay saved.
LEMMA AllSavedKeep ==
  ASSUME NEW v, NEW w, NEW a, NEW e \in Nat, NEW S \in SUBSET Tasks, SameBelow(v, w, a, e), a \notin S,
         \A t \in S : w.context[t] = v.context[t] /\ w.user[t] = v.user[t], AllSaved(v, S)
  PROVE  AllSaved(w, S)
  BY Zenon, SavedKeep DEF AllSaved

\* The view has no more frames than a stack can hold beside an interrupt's.
LEMMA DepthBound ==
  ASSUME NEW v, v.at \in Places, Running(v)
  PROVE  v.d \in 0 .. 5
  <1>1. CASE v.at \in UserPlaces \cup SvcPlaces \cup ExitPlaces
    <2>1. Called(v)
      BY Zenon, <1>1 DEF Running, Own, OwnPlaces
    <2> QED BY <1>1, <2>1 DEF Called, UserPlaces, SvcPlaces, ExitPlaces
  <1>2. CASE v.at \in IdlePlaces
    <2>1. Idles(v)
      BY Zenon, <1>2 DEF Running, Own, OwnPlaces
    <2> QED BY <1>2, <2>1 DEF Idles, IdlePlaces
  <1>3. CASE v.at \in LoadPlaces
    <2>1. Loads(v)
      BY Zenon, <1>3 DEF Running, Own, OwnPlaces
    <2>2. \A d, su, lu : Stacked(v, v.current, d, su, lu) => d \in 2 .. 5
      BY Zenon DEF Stacked
    <2>3. \A d, ra, su, lu : Returns(v, v.current, d, ra, su, lu) => d \in {1, 2, 4}
      BY Zenon DEF Returns
    <2>4. Saved(v, v.current) => v.context[v.current].sp.depth \in 2 .. 5
      BY Zenon, <2>2 DEF Saved
    <2>5. v.d \in 2 .. 5 \/ v.d \in {1, 2, 4}
      BY Zenon, <1>3, <2>1, <2>2, <2>3, <2>4 DEF Loads, LoadPlaces
    <2> QED BY <2>5
  <1>4. CASE v.at \in LeavePlaces \cup MidPlaces
    BY <1>4 DEF Running, Leaving
  <1>5. CASE v.at = "first_sp"
    BY <1>5 DEF Running, Starting
  <1> QED BY Zenon, <1>1, <1>2, <1>3, <1>4, <1>5 DEF Places, OwnPlaces

\* w is v but for frames that are above the d of v, and for the TLB between
\* the instructions that change TTBR0 and invalidate it.
SameView(v, w) ==
    /\ w.at = v.at /\ w.r = v.r /\ w.ls = v.ls /\ w.d = v.d /\ w.area = v.area
    /\ w.su = v.su /\ w.lu = v.lu /\ w.psr = v.psr /\ w.ttbr = v.ttbr
    /\ w.tlb = v.tlb \/ v.at = "switch_tlb"
    /\ w.context = v.context /\ w.current = v.current /\ w.live = v.live /\ w.user = v.user
    /\ SameBelow(v, w, v.area, v.d)

\* Whatever comes and goes above the frames of a task is none of its concern.
LEMMA RunningKeep ==
  ASSUME NEW v, NEW w, v.at \in Places, v.live \in SUBSET Tasks, v.area \in Tasks \cup {"boot"},
         SameView(v, w), Running(v)
  PROVE  Running(w)
  <1>1. v.d \in 0 .. 5 /\ v.d \in Nat /\ v.current \in v.live /\ v.current \in Tasks
    BY DepthBound DEF Running
  <1>2. /\ w.at = v.at /\ w.r = v.r /\ w.ls = v.ls /\ w.d = v.d /\ w.area = v.area
        /\ w.su = v.su /\ w.lu = v.lu /\ w.psr = v.psr /\ w.ttbr = v.ttbr
        /\ w.context = v.context /\ w.current = v.current /\ w.live = v.live /\ w.user = v.user
        /\ SameBelow(v, w, v.area, v.d)
    BY Zenon DEF SameView
  <1>3. \A t \in Tasks \ {v.area} : Saved(v, t) => Saved(w, t)
    BY Zenon, <1>1, <1>2, SavedKeep
  <1>4. v.area \in Tasks => \A i \in 1 .. v.d : w.mem[Home(v.area)][i] = v.mem[Home(v.area)][i]
    BY SMTT(30), <1>1, <1>2 DEF SameBelow, DEPTH
  <1>5. CASE v.at \in OwnPlaces
    <2>1. Own(v) /\ v.area = v.current /\ w.tlb = v.tlb
      BY Zenon, <1>5 DEF Running, Own, SameView, OwnPlaces, UserPlaces, SvcPlaces, ExitPlaces, IdlePlaces, LoadPlaces
    <2>2. \A i \in 1 .. v.d : w.mem[Home(v.current)][i] = v.mem[Home(v.current)][i]
      BY Zenon, <1>1, <1>4, <2>1
    <2>3. AllSaved(w, w.live \ {w.current})
      BY Zenon, <1>2, <1>3, <2>1 DEF Own, AllSaved
    <2>4. Called(w)
      <3>1. Called(v)
        BY Zenon, <2>1 DEF Own
      <3>2. \A su, lu : v.d >= 1 /\ Entry(v, v.current, su, lu) => Entry(w, v.current, su, lu)
        <4>1. v.d >= 1 => w.mem[Home(v.current)][1] = v.mem[Home(v.current)][1]
          BY <1>1, <2>2
        <4> QED BY Zenon, <1>2, <4>1 DEF Entry
      <3>3. \A su, lu : v.d >= 2 /\ Exiting(v, v.current, su, lu) => Exiting(w, v.current, su, lu)
        <4>1. v.d >= 2 => w.mem[Home(v.current)][2] = v.mem[Home(v.current)][2]
          BY SMTT(30), <1>1, <2>2
        <4> QED BY <1>1, <3>2, <4>1 DEF Exiting
      <3>4. \A su, lu : v.d >= 3 /\ InHandler(v, v.current, su, lu) => InHandler(w, v.current, su, lu)
        <4>1. v.d >= 3 => w.mem[Home(v.current)][3] = v.mem[Home(v.current)][3]
          BY SMTT(30), <1>1, <2>2
        <4> QED BY <1>1, <3>3, <4>1 DEF InHandler
      <3>5. Registers(v) => Registers(w)
        BY Zenon, <1>2 DEF Registers
      <3> QED BY SMTT(30), <1>2, <3>1, <3>2, <3>3, <3>4, <3>5 DEF Called
    <2>5. Idles(w)
      <3>1. v.at = "idle_back" => w.mem[Home("idle")][1] = v.mem[Home("idle")][1]
        BY SMTT(30), <2>1, <2>2 DEF Own, Idles, IdlePlaces
      <3> QED BY Zenon, <1>2, <2>1, <3>1 DEF Own, Idles
    <2>6. Loads(w)
      <3>1. Loads(v)
        BY Zenon, <2>1 DEF Own
      <3>2. Stacked(v, v.current, v.d, v.su, v.lu) => Stacked(w, v.current, v.d, v.su, v.lu)
        BY ZenonT(30), <1>2, <2>2, StackedKeep
      <3>3. Returns(v, v.current, v.d, v.ls, v.su, v.lu) => Returns(w, v.current, v.d, v.ls, v.su, v.lu)
        BY SMTT(30), <1>2, <2>2, ReturnsKeep
      <3>4. Saved(v, v.current) /\ v.d = v.context[v.current].sp.depth => Saved(w, v.current)
        <4>1. SUFFICES ASSUME Saved(v, v.current), v.d = v.context[v.current].sp.depth
                       PROVE  Saved(w, v.current)
          BY Zenon
        <4>2. v.context[v.current].sp.depth <= v.d
          BY SMTT(30), <1>1, <4>1
        <4> QED BY Zenon, <1>1, <1>2, <4>1, <4>2, SavedKeep
      <3> QED BY Zenon, <1>2, <3>1, <3>2, <3>3, <3>4 DEF Loads
    <2>7. Own(w)
      BY Zenon, <1>2, <2>1, <2>3, <2>4, <2>5, <2>6 DEF Own
    <2> QED BY Zenon, <1>1, <1>2, <1>5, <2>7
            DEF Running, OwnPlaces, UserPlaces, SvcPlaces, ExitPlaces, IdlePlaces, LoadPlaces, LeavePlaces, MidPlaces
  <1>6. CASE v.at \in LeavePlaces \cup MidPlaces
    <2>1. Leaving(v) /\ v.area \in Tasks
      BY Zenon, <1>6 DEF Running, Leaving
    <2>2. \A i \in 1 .. v.d : w.mem[Home(v.area)][i] = v.mem[Home(v.area)][i]
      BY Zenon, <1>4, <2>1
    <2>3. AllSaved(w, w.live \ {w.area})
      BY Zenon, <1>2, <1>3, <2>1 DEF Leaving, AllSaved
    <2>4. Stacked(v, v.area, v.d, v.su, v.lu) => Stacked(w, v.area, v.d, v.su, v.lu)
      BY SMTT(30), <1>2, <2>2, StackedKeep
    <2>5. Returns(v, v.area, v.d, v.ls, v.su, v.lu) => Returns(w, v.area, v.d, v.ls, v.su, v.lu)
      BY SMTT(30), <1>2, <2>2, ReturnsKeep
    <2>6. v.at \notin {"switch_save", "switch_sp"} /\ Saved(v, v.area) => Saved(w, v.area)
      <3>1. SUFFICES ASSUME v.at \notin {"switch_save", "switch_sp"}, Saved(v, v.area)
                     PROVE  Saved(w, v.area)
        BY Zenon
      <3>2. v.context[v.area].sp.depth = v.d
        BY <2>1, <3>1 DEF Leaving
      <3>3. v.context[v.area].sp.depth <= v.d
        BY <1>1, <3>2
      <3> QED BY Zenon, <1>1, <1>2, <2>1, <3>1, <3>3, SavedKeep
    <2>7. w.tlb = v.tlb \/ v.at = "switch_tlb"
      BY Zenon DEF SameView
    <2>8. Leaving(w)
      BY Zenon, <1>2, <1>6, <2>1, <2>3, <2>4, <2>5, <2>6, <2>7 DEF Leaving, LeavePlaces, MidPlaces
    <2> QED BY Zenon, <1>1, <1>2, <1>6, <2>8
            DEF Running, OwnPlaces, UserPlaces, SvcPlaces, ExitPlaces, IdlePlaces, LoadPlaces, LeavePlaces, MidPlaces
  <1>7. CASE v.at = "first_sp"
    <2>1. Starting(v) /\ w.tlb = v.tlb
      BY Zenon, <1>7 DEF Running, SameView
    <2>2. v.area \notin Tasks
      BY Zenon, <2>1, CpuAssumption DEF Starting, Tasks
    <2>3. AllSaved(w, w.live)
      BY Zenon, <1>2, <1>3, <2>1, <2>2 DEF Starting, AllSaved
    <2>4. Starting(w)
      BY Zenon, <1>2, <2>1, <2>3 DEF Starting
    <2> QED BY Zenon, <1>1, <1>2, <1>7, <2>4
            DEF Running, OwnPlaces, UserPlaces, SvcPlaces, ExitPlaces, IdlePlaces, LoadPlaces, LeavePlaces, MidPlaces
  <1> QED BY Zenon, <1>5, <1>6, <1>7 DEF Places

-----------------------------------------------------------------------------
(* The interrupt handler *)

\* A view that is taken of the machine as it is.
LEMMA ViewFacts ==
  ASSUME Shape, NEW l, NEW r, NEW ls, NEW d
  PROVE  LET v == View(l, r, ls, d) IN
         /\ v.at = l /\ v.r = r /\ v.ls = ls /\ v.d = d /\ v.area = sp.area
         /\ v.live \in SUBSET Tasks /\ v.area \in Tasks \cup {"boot"}
  BY Zenon DEF View, Shape, StackPointer

\* How many frames there are at each place.
LEMMA Depths ==
  ASSUME IInv
  PROVE  /\ sp.depth \in 0 .. DEPTH /\ sp.area \in Tasks \cup {"boot"}
         /\ at \in Places => sp.depth \in 0 .. 5
         /\ at \in {"irq_adjust", "irq_srs"} => sp.depth \in 0 .. 5
         /\ at \in {"irq_cps", "irq_save", "irq_rfe"} => sp.depth \in 1 .. 6
         /\ at \in {"irq_call", "irq_restore"} => sp.depth \in 2 .. 7
  <1>1. sp.depth \in 0 .. DEPTH /\ sp.area \in Tasks \cup {"boot"} /\ sp.depth \in Int
    BY DEF IInv, Shape, StackPointer, DEPTH
  <1>2. \A l \in Places : \A r, ls, d : Running(View(l, r, ls, d)) => d \in 0 .. 5
    <2> SUFFICES ASSUME NEW l \in Places, NEW r, NEW ls, NEW d, Running(View(l, r, ls, d))
                 PROVE  d \in 0 .. 5
      BY Zenon
    <2> DEFINE v == View(l, r, ls, d)
    <2>1. v.at = l /\ v.d = d
      BY Zenon DEF View
    <2>2. Running(v)
      BY Zenon
    <2> HIDE DEF v
    <2> QED BY Zenon, <2>1, <2>2, DepthBound
  <1>3. at \in Places => sp.depth \in 0 .. 5
    BY Zenon, <1>2 DEF IInv, Flow
  <1>4. ASSUME at \in IrqPlaces
        PROVE  /\ at \in {"irq_adjust", "irq_srs"} => sp.depth \in 0 .. 5
               /\ at \in {"irq_cps", "irq_save", "irq_rfe"} => sp.depth \in 1 .. 6
               /\ at \in {"irq_call", "irq_restore"} => sp.depth \in 2 .. 7
    <2>1. PICK l \in Places : Interrupted(l)
      BY Zenon, <1>4 DEF IInv, Flow
    <2>2. /\ at \in {"irq_adjust", "irq_srs"} => Running(View(l, g, lr.svc, sp.depth))
          /\ at \in {"irq_cps", "irq_save", "irq_rfe"} => Running(View(l, g, lr.svc, sp.depth - 1))
          /\ at \in {"irq_call", "irq_restore"} =>
               Running(View(l, RegsOf(Under(0)), Under(0).lr, sp.depth - 2))
      BY Zenon, <2>1 DEF Interrupted
    <2>3. /\ at \in {"irq_adjust", "irq_srs"} => sp.depth \in 0 .. 5
          /\ at \in {"irq_cps", "irq_save", "irq_rfe"} => sp.depth - 1 \in 0 .. 5
          /\ at \in {"irq_call", "irq_restore"} => sp.depth - 2 \in 0 .. 5
      BY Zenon, <1>2, <2>2
    <2> QED BY <1>1, <2>3
  <1> QED BY Zenon, <1>1, <1>3, <1>4 DEF IrqPlaces

\* A store-multiple leaves the frames of all tasks below.
LEMMA PushBelow ==
  ASSUME Shape, sp.depth < DEPTH,
         \A m \in Memories, i \in 1 .. DEPTH :
              m # Behind(sp.area) \/ i # sp.depth + 1 => mem'[m][i] = mem[m][i]
  PROVE  \A t \in Tasks, i \in 1 .. DEPTH :
              t # sp.area \/ i <= sp.depth => mem'[Home(t)][i] = mem[Home(t)][i]
  <1>1. sp.area \in Tasks \cup {"boot"} /\ sp.depth \in 0 .. DEPTH /\ tlb \in {"kernel"} \cup Forked
    BY Zenon DEF Shape, StackPointer
  <1>2. \A t \in Tasks : Home(t) \in Memories
    BY Zenon, <1>1, Apart
  <1>3. \A t \in Tasks : t # sp.area => Behind(sp.area) # Home(t)
    BY Zenon, <1>1, Apart
  <1>4. \A i \in 1 .. DEPTH : i <= sp.depth => i # sp.depth + 1
    BY <1>1 DEF DEPTH
  <1> QED BY Zenon, <1>2, <1>3, <1>4

\* So does a load-multiple.
LEMMA DropBelow ==
  ASSUME Shape, sp.depth > 0,
         \A m \in Memories, i \in 1 .. DEPTH :
              m # Behind(sp.area) \/ i # sp.depth => mem'[m][i] = mem[m][i]
  PROVE  \A t \in Tasks, i \in 1 .. DEPTH :
              t # sp.area \/ i <= sp.depth - 1 => mem'[Home(t)][i] = mem[Home(t)][i]
  <1>1. sp.area \in Tasks \cup {"boot"} /\ sp.depth \in 0 .. DEPTH /\ tlb \in {"kernel"} \cup Forked
    BY Zenon DEF Shape, StackPointer
  <1>2. \A t \in Tasks : Home(t) \in Memories
    BY Zenon, <1>1, Apart
  <1>3. \A t \in Tasks : t # sp.area => Behind(sp.area) # Home(t)
    BY Zenon, <1>1, Apart
  <1>4. \A i \in 1 .. DEPTH : i <= sp.depth - 1 => i # sp.depth
    BY SMTT(30), <1>1 DEF DEPTH
  <1> QED BY Zenon, <1>2, <1>3, <1>4

\* What the handler's own steps leave alone.
Aside == /\ UNCHANGED <<ttbr, tlb, sp_usr, context, current, live, user>>
         /\ lr'.usr = lr.usr /\ spsr'.svc = spsr.svc /\ sp'.area = sp.area

\* The view that has been put aside still holds after such a step.
LEMMA AsideKeeps ==
  ASSUME IInv, Aside, NEW l \in Places, NEW r, NEW ls, NEW d, Running(View(l, r, ls, d)),
         \A t \in Tasks, i \in 1 .. DEPTH :
              t # sp.area \/ i <= d => mem'[Home(t)][i] = mem[Home(t)][i],
         NEW w, w.at = l, w.r = r, w.ls = ls, w.d = d, w.area = sp'.area, w.su = sp_usr',
         w.lu = lr'.usr, w.psr = spsr'.svc, w.ttbr = ttbr', w.tlb = tlb', w.mem = mem',
         w.context = context', w.current = current', w.live = live', w.user = user'
  PROVE  Running(w)
  <1> DEFINE v == View(l, r, ls, d)
  <1>1. /\ v.at = l /\ v.r = r /\ v.ls = ls /\ v.d = d /\ v.area = sp.area /\ v.su = sp_usr
        /\ v.lu = lr.usr /\ v.psr = spsr.svc /\ v.ttbr = ttbr /\ v.tlb = tlb /\ v.mem = mem
        /\ v.context = context /\ v.current = current /\ v.live = live /\ v.user = user
    BY Zenon DEF View
  <1>2. v.live \in SUBSET Tasks /\ v.area \in Tasks \cup {"boot"}
    BY SMTT(30), ViewFacts DEF IInv
  <1>3. Running(v)
    BY Zenon
  <1> HIDE DEF v
  <1>4. SameBelow(v, w, v.area, v.d)
    BY Zenon, <1>1 DEF SameBelow
  <1>5. /\ w.at = v.at /\ w.r = v.r /\ w.ls = v.ls /\ w.d = v.d
    BY Zenon, <1>1
  <1>6. w.area = v.area /\ w.su = v.su /\ w.lu = v.lu /\ w.psr = v.psr
    BY Zenon, <1>1 DEF Aside
  <1>7. w.ttbr = v.ttbr /\ w.tlb = v.tlb /\ w.context = v.context
    BY Zenon, <1>1 DEF Aside
  <1>8. w.current = v.current /\ w.live = v.live /\ w.user = v.user
    BY Zenon, <1>1 DEF Aside
  <1>9. SameView(v, w)
    BY Zenon, <1>4, <1>5, <1>6, <1>7, <1>8 DEF SameView
  <1> QED BY <1>1, <1>2, <1>3, <1>9, RunningKeep

\* An instruction of the handler, with the interrupted one at l.
LEMMA FlowIrq ==
  ASSUME at' \in IrqPlaces, masked', NEW l \in Places, Interrupted(l)',
         at' \in {"irq_restore", "irq_rfe"} => ~serving'
  PROVE  Flow'
  <1>1. at' \notin Places
    BY Zenon DEF Places, OwnPlaces, UserPlaces, SvcPlaces, ExitPlaces, IdlePlaces, LoadPlaces,
           LeavePlaces, MidPlaces, IrqPlaces
  <1>2. at' \notin UserPlaces
    BY Zenon DEF UserPlaces, IrqPlaces
  <1> QED BY Zenon, <1>1, <1>2 DEF Flow

\* An interrupt is taken between two instructions.
LEMMA InterruptStep ==
  ASSUME IInv, Interrupt
  PROVE  Flow'
  <1>1. /\ ~masked /\ at # "halted" /\ at' = "irq_adjust" /\ masked' = TRUE
        /\ lr' = [lr EXCEPT !.irq = Addr4(at)] /\ spsr' = [spsr EXCEPT !.irq = Psr(mode, masked)]
        /\ UNCHANGED <<g, sp, sp_usr, mmu, mem, sched, user>>
    BY Zenon DEF Interrupt
  <1>2. at \in Places /\ mode = ModeOf(at) /\ Running(View(at, g, lr.svc, sp.depth))
    BY Zenon, <1>1 DEF IInv, Flow
  <1>3. /\ lr'.irq = Addr4(at) /\ lr'.svc = lr.svc /\ lr'.usr = lr.usr
        /\ spsr'.irq = Psr(mode, masked) /\ spsr'.svc = spsr.svc
    BY Zenon, <1>1 DEF IInv, Shape
  <1>4. Psr(mode, masked) = Psr(ModeOf(at), FALSE)
    BY Zenon, <1>1, <1>2 DEF Psr
  <1>5. PICK l \in Places : l = at
    BY Zenon, <1>2
  <1>6. Running(View(l, g, lr.svc, sp.depth)')
    <2>1. View(l, g, lr.svc, sp.depth)' = View(l, g, lr.svc, sp.depth)
      BY Zenon, <1>1, <1>3 DEF View, mmu, sched
    <2> QED BY Zenon, <1>2, <1>5, <2>1
  <1>7. Interrupted(l)'
    BY Zenon, <1>1, <1>3, <1>4, <1>5, <1>6 DEF Interrupted
  <1> QED BY Zenon, <1>1, <1>7, FlowIrq DEF IrqPlaces

\* sub lr, lr, #4
LEMMA AdjustStep ==
  ASSUME IInv, irq_adjust
  PROVE  Flow'
  <1>1. /\ at = "irq_adjust" /\ at' = "irq_srs"
        /\ lr' = [lr EXCEPT !.irq = Addr(@[2])]
        /\ UNCHANGED <<masked, g, spsr, sp, sp_usr, mmu, mem, sched, user>>
    BY Zenon DEF irq_adjust, Go
  <1>2. PICK l \in Places : Interrupted(l)
    BY Zenon, <1>1 DEF IInv, Flow, IrqPlaces
  <1>3. /\ lr.irq = Addr4(l) /\ spsr.irq = Psr(ModeOf(l), FALSE)
        /\ Running(View(l, g, lr.svc, sp.depth)) /\ masked
    BY Zenon, <1>1, <1>2 DEF Interrupted, IInv, Flow, IrqPlaces
  <1>4. lr'.irq = Addr(l) /\ lr'.svc = lr.svc /\ lr'.usr = lr.usr
    BY <1>1, <1>3, WordFacts DEF IInv, Shape
  <1>5. View(l, g, lr.svc, sp.depth)' = View(l, g, lr.svc, sp.depth)
    BY Zenon, <1>1, <1>4 DEF View, mmu, sched
  <1>6. Interrupted(l)'
    BY Zenon, <1>1, <1>3, <1>4, <1>5 DEF Interrupted
  <1> QED BY Zenon, <1>1, <1>3, <1>6, FlowIrq DEF IrqPlaces

\* srsdb: the return address and the mode are on the stack.
LEMMA SrsStep ==
  ASSUME IInv, irq_srs
  PROVE  Flow'
  <1> DEFINE f == [NoFrame EXCEPT !.lr = lr.irq, !.spsr = spsr.irq]
  <1>1. /\ at = "irq_srs" /\ at' = "irq_cps" /\ Push(f)
        /\ UNCHANGED <<masked, g, lr, spsr, sp_usr, mmu, sched, user>>
    BY Zenon DEF irq_srs, Go
  <1>2. PICK l \in Places : Interrupted(l)
    BY Zenon, <1>1 DEF IInv, Flow, IrqPlaces
  <1>3. /\ lr.irq = Addr(l) /\ spsr.irq = Psr(ModeOf(l), FALSE)
        /\ Running(View(l, g, lr.svc, sp.depth)) /\ masked
    BY Zenon, <1>1, <1>2 DEF Interrupted, IInv, Flow, IrqPlaces
  <1>4. sp.depth \in 0 .. 5 /\ sp.depth < DEPTH
    BY <1>1, Depths DEF DEPTH
  <1>5. DOMAIN f = DOMAIN NoFrame /\ f.lr = lr.irq /\ f.spsr = spsr.irq
    BY Zenon DEF NoFrame
  <1> HIDE DEF f
  <1>6. /\ sp'.area = sp.area /\ sp'.depth = sp.depth + 1
        /\ mem'[Behind(sp.area)][sp.depth + 1] = f
        /\ \A m \in Memories, i \in 1 .. DEPTH :
              m # Behind(sp.area) \/ i # sp.depth + 1 => mem'[m][i] = mem[m][i]
    BY Zenon, <1>1, <1>4, <1>5, PushFacts DEF IInv
  <1>7. \A t \in Tasks, i \in 1 .. DEPTH :
              t # sp.area \/ i <= sp.depth => mem'[Home(t)][i] = mem[Home(t)][i]
    BY Zenon, <1>4, <1>6, PushBelow DEF IInv
  <1>8. Under(0)' = f /\ sp'.depth >= 1 /\ sp'.depth - 1 = sp.depth
    <2>1. Behind(sp.area)' = Behind(sp.area)
      BY Zenon, <1>1, <1>6 DEF Behind, mmu
    <2>2. sp'.depth - 0 = sp.depth + 1 /\ sp'.depth >= 1 /\ sp'.depth - 1 = sp.depth
      BY SMTT(30), <1>4, <1>6
    <2> QED BY Zenon, <1>6, <2>1, <2>2 DEF Under
  <1>9. Aside
    BY Zenon, <1>1, <1>6 DEF Aside, mmu, sched
  <1>10. Running(View(l, g, lr.svc, sp.depth - 1)')
    <2>1. g' = g /\ lr'.svc = lr.svc
      BY Zenon, <1>1
    <2> DEFINE w == View(l, g, lr.svc, sp.depth - 1)'
    <2>2. /\ w.at = l /\ w.r = g' /\ w.ls = lr'.svc /\ w.d = sp'.depth - 1 /\ w.area = sp'.area
          /\ w.su = sp_usr' /\ w.lu = lr'.usr /\ w.psr = spsr'.svc /\ w.ttbr = ttbr' /\ w.tlb = tlb'
          /\ w.mem = mem' /\ w.context = context' /\ w.current = current' /\ w.live = live'
          /\ w.user = user'
      BY Zenon DEF View
    <2> HIDE DEF w
    <2>3. Running(w)
      BY <1>3, <1>7, <1>8, <1>9, <2>1, <2>2, AsideKeeps
    <2> QED BY Zenon, <2>3 DEF w
  <1>11. Interrupted(l)'
    BY Zenon, <1>1, <1>3, <1>5, <1>8, <1>10 DEF Interrupted
  <1> QED BY Zenon, <1>1, <1>3, <1>11, FlowIrq DEF IrqPlaces

\* cps: supervisor mode.
LEMMA CpsStep ==
  ASSUME IInv, irq_cps
  PROVE  Flow'
  <1>1. /\ at = "irq_cps" /\ at' = "irq_save"
        /\ UNCHANGED <<masked, regs, mmu, mem, sched, user>>
    BY Zenon DEF irq_cps, Go
  <1>2. PICK l \in Places : Interrupted(l)
    BY Zenon, <1>1 DEF IInv, Flow, IrqPlaces
  <1>3. /\ sp.depth >= 1 /\ Under(0).lr = Addr(l) /\ Under(0).spsr = Psr(ModeOf(l), FALSE)
        /\ Running(View(l, g, lr.svc, sp.depth - 1)) /\ masked
    BY Zenon, <1>1, <1>2 DEF Interrupted, IInv, Flow, IrqPlaces
  <1>4. /\ Under(0)' = Under(0)
        /\ View(l, g, lr.svc, sp.depth - 1)' = View(l, g, lr.svc, sp.depth - 1)
    BY Zenon, <1>1 DEF Under, Behind, View, regs, mmu, sched
  <1>5. Interrupted(l)'
    BY Zenon, <1>1, <1>3, <1>4 DEF Interrupted, regs
  <1> QED BY Zenon, <1>1, <1>3, <1>5, FlowIrq DEF IrqPlaces

\* push {r0-r12, lr}: the registers are on the stack as well.
LEMMA SaveStep ==
  ASSUME IInv, irq_save
  PROVE  Flow'
  <1> DEFINE f == [NoFrame EXCEPT !.r0 = g.r0, !.r1 = g.r1, !.scr = g.scr, !.cal = g.cal, !.lr = lr.svc]
  <1>1. /\ at = "irq_save" /\ at' = "irq_call" /\ Push(f)
        /\ UNCHANGED <<masked, g, lr, spsr, sp_usr, mmu, sched, user>>
    BY Zenon DEF irq_save, Go
  <1>2. PICK l \in Places : Interrupted(l)
    BY Zenon, <1>1 DEF IInv, Flow, IrqPlaces
  <1>3. /\ sp.depth >= 1 /\ Under(0).lr = Addr(l) /\ Under(0).spsr = Psr(ModeOf(l), FALSE)
        /\ Running(View(l, g, lr.svc, sp.depth - 1)) /\ masked
    BY Zenon, <1>1, <1>2 DEF Interrupted, IInv, Flow, IrqPlaces
  <1>4. sp.depth \in 1 .. 6 /\ sp.depth < DEPTH
    BY <1>1, Depths DEF DEPTH
  <1>5. DOMAIN f = DOMAIN NoFrame /\ RegsOf(f) = g /\ f.lr = lr.svc
    BY Zenon DEF NoFrame, RegsOf, IInv, Shape
  <1> HIDE DEF f
  <1>6. /\ sp'.area = sp.area /\ sp'.depth = sp.depth + 1
        /\ mem'[Behind(sp.area)][sp.depth + 1] = f
        /\ \A m \in Memories, i \in 1 .. DEPTH :
              m # Behind(sp.area) \/ i # sp.depth + 1 => mem'[m][i] = mem[m][i]
    BY Zenon, <1>1, <1>4, <1>5, PushFacts DEF IInv
  <1>7. \A t \in Tasks, i \in 1 .. DEPTH :
              t # sp.area \/ i <= sp.depth - 1 => mem'[Home(t)][i] = mem[Home(t)][i]
    <2>1. \A t \in Tasks, i \in 1 .. DEPTH :
              t # sp.area \/ i <= sp.depth => mem'[Home(t)][i] = mem[Home(t)][i]
      BY Zenon, <1>4, <1>6, PushBelow DEF IInv
    <2> QED BY SMTT(30), <1>4, <2>1
  <1>8. Under(0)' = f /\ Under(1)' = Under(0) /\ sp'.depth >= 2 /\ sp'.depth - 2 = sp.depth - 1
    <2>1. Behind(sp.area)' = Behind(sp.area)
      BY Zenon, <1>1, <1>6 DEF Behind, mmu
    <2>2. /\ sp'.depth - 0 = sp.depth + 1 /\ sp'.depth - 1 = sp.depth - 0 /\ sp.depth - 0 = sp.depth
          /\ sp'.depth >= 2 /\ sp'.depth - 2 = sp.depth - 1
      BY SMTT(30), <1>4, <1>6
    <2>3. Behind(sp.area) \in Memories /\ sp.depth \in 1 .. DEPTH /\ sp.depth # sp.depth + 1
      BY SMTT(30), <1>4, Depths, Apart DEF IInv, Shape, DEPTH
    <2>4. mem'[Behind(sp.area)][sp.depth] = mem[Behind(sp.area)][sp.depth]
      BY Zenon, <1>6, <2>3
    <2> QED BY Zenon, <1>6, <2>1, <2>2, <2>4 DEF Under
  <1>9. Aside
    BY Zenon, <1>1, <1>6 DEF Aside, mmu, sched
  <1>10. Running(View(l, RegsOf(Under(0)), Under(0).lr, sp.depth - 2)')
    <2>1. RegsOf(Under(0)') = g /\ Under(0)'.lr = lr.svc
      BY Zenon, <1>5, <1>8
    <2> DEFINE w == View(l, RegsOf(Under(0)), Under(0).lr, sp.depth - 2)'
    <2>2. /\ w.at = l /\ w.r = RegsOf(Under(0)') /\ w.ls = Under(0)'.lr /\ w.d = sp'.depth - 2 /\ w.area = sp'.area
          /\ w.su = sp_usr' /\ w.lu = lr'.usr /\ w.psr = spsr'.svc /\ w.ttbr = ttbr' /\ w.tlb = tlb'
          /\ w.mem = mem' /\ w.context = context' /\ w.current = current' /\ w.live = live'
          /\ w.user = user'
      BY Zenon DEF View
    <2> HIDE DEF w
    <2>3. Running(w)
      BY <1>3, <1>7, <1>8, <1>9, <2>1, <2>2, AsideKeeps
    <2> QED BY Zenon, <2>3 DEF w
  <1>11. Interrupted(l)'
    BY Zenon, <1>1, <1>3, <1>8, <1>10 DEF Interrupted
  <1> QED BY Zenon, <1>1, <1>3, <1>11, FlowIrq DEF IrqPlaces

\* irq_dispatch(): the saved registers are not touched.
LEMMA DispatchStep ==
  ASSUME IInv, irq_dispatch
  PROVE  Flow'
  <1>1. /\ at = "irq_call" /\ at' = "irq_restore" /\ serving' = FALSE
        /\ lr' = [lr EXCEPT !.svc = Addr("irq_restore")]
        /\ UNCHANGED <<masked, spsr, sp, sp_usr, mmu, mem, context, current, live, user>>
    BY Zenon DEF irq_dispatch, Go
  <1>2. PICK l \in Places : Interrupted(l)
    BY Zenon, <1>1 DEF IInv, Flow, IrqPlaces
  <1>3. /\ sp.depth >= 2 /\ Under(1).lr = Addr(l) /\ Under(1).spsr = Psr(ModeOf(l), FALSE)
        /\ Running(View(l, RegsOf(Under(0)), Under(0).lr, sp.depth - 2)) /\ masked
    BY Zenon, <1>1, <1>2 DEF Interrupted, IInv, Flow, IrqPlaces
  <1>4. lr'.usr = lr.usr
    BY Zenon, <1>1 DEF IInv, Shape
  <1>5. Under(0)' = Under(0) /\ Under(1)' = Under(1)
    BY Zenon, <1>1 DEF Under, Behind, mmu
  <1>6. View(l, RegsOf(Under(0)), Under(0).lr, sp.depth - 2)'
          = View(l, RegsOf(Under(0)), Under(0).lr, sp.depth - 2)
    BY Zenon, <1>1, <1>4, <1>5 DEF View, RegsOf, mmu
  <1>7. Interrupted(l)'
    BY Zenon, <1>1, <1>3, <1>5, <1>6 DEF Interrupted
  <1> QED BY Zenon, <1>1, <1>3, <1>7, FlowIrq DEF IrqPlaces

\* pop {r0-r12, lr}: the registers are back.
LEMMA RestoreStep ==
  ASSUME IInv, irq_restore
  PROVE  Flow'
  <1>1. /\ at = "irq_restore" /\ at' = "irq_rfe" /\ Drop
        /\ g' = [r \in DOMAIN g |-> Top[r]] /\ lr' = [lr EXCEPT !.svc = Top.lr]
        /\ UNCHANGED <<masked, spsr, sp_usr, mmu, sched, intc, user>>
    BY Zenon DEF irq_restore, Go
  <1>2. PICK l \in Places : Interrupted(l)
    BY Zenon, <1>1 DEF IInv, Flow, IrqPlaces
  <1>3. /\ sp.depth >= 2 /\ Under(1).lr = Addr(l) /\ Under(1).spsr = Psr(ModeOf(l), FALSE)
        /\ Running(View(l, RegsOf(Under(0)), Under(0).lr, sp.depth - 2)) /\ masked /\ ~serving
    BY Zenon, <1>1, <1>2 DEF Interrupted, IInv, Flow, IrqPlaces
  <1>4. sp.depth \in 2 .. 7 /\ sp.depth > 0
    BY <1>1, Depths
  <1>5. /\ sp'.area = sp.area /\ sp'.depth = sp.depth - 1
        /\ \A m \in Memories, i \in 1 .. DEPTH :
              m # Behind(sp.area) \/ i # sp.depth => mem'[m][i] = mem[m][i]
    BY Zenon, <1>1, <1>4, DropFacts DEF IInv
  <1>6. \A t \in Tasks, i \in 1 .. DEPTH :
              t # sp.area \/ i <= sp.depth - 2 => mem'[Home(t)][i] = mem[Home(t)][i]
    <2>1. \A t \in Tasks, i \in 1 .. DEPTH :
              t # sp.area \/ i <= sp.depth - 1 => mem'[Home(t)][i] = mem[Home(t)][i]
      BY Zenon, <1>4, <1>5, DropBelow DEF IInv
    <2> QED BY <1>4, <2>1
  <1>7. Top = Under(0)
    BY <1>4 DEF Top, Under
  <1>8. g' = RegsOf(Under(0)) /\ lr'.svc = Under(0).lr /\ lr'.usr = lr.usr
    <2>1. DOMAIN g = {"r0", "r1", "scr", "cal"}
      BY Zenon DEF IInv, Shape
    <2>2. g' = RegsOf(Under(0))
      BY Zenon, <1>1, <1>7, <2>1 DEF RegsOf
    <2> QED BY Zenon, <1>1, <1>7, <2>2 DEF IInv, Shape
  <1>9. Under(0)' = Under(1) /\ sp'.depth >= 1 /\ sp'.depth - 1 = sp.depth - 2
    <2>1. Behind(sp.area)' = Behind(sp.area)
      BY Zenon, <1>1, <1>5 DEF Behind, mmu
    <2>2. sp'.depth - 0 = sp.depth - 1 /\ sp'.depth >= 1 /\ sp'.depth - 1 = sp.depth - 2
      BY SMTT(30), <1>4, <1>5
    <2>3. Behind(sp.area) \in Memories /\ sp.depth - 1 \in 1 .. DEPTH /\ sp.depth - 1 # sp.depth
      BY SMTT(30), <1>4, Depths, Apart DEF IInv, Shape, DEPTH
    <2>4. mem'[Behind(sp.area)][sp.depth - 1] = mem[Behind(sp.area)][sp.depth - 1]
      BY Zenon, <1>5, <2>3
    <2> QED BY Zenon, <2>1, <2>2, <2>4 DEF Under
  <1>10. Aside
    BY Zenon, <1>1, <1>5, <1>8 DEF Aside, mmu, sched
  <1>11. Running(View(l, g, lr.svc, sp.depth - 1)')
    <2> DEFINE w == View(l, g, lr.svc, sp.depth - 1)'
    <2>1. /\ w.at = l /\ w.r = g' /\ w.ls = lr'.svc /\ w.d = sp'.depth - 1 /\ w.area = sp'.area
          /\ w.su = sp_usr' /\ w.lu = lr'.usr /\ w.psr = spsr'.svc /\ w.ttbr = ttbr' /\ w.tlb = tlb'
          /\ w.mem = mem' /\ w.context = context' /\ w.current = current' /\ w.live = live'
          /\ w.user = user'
      BY Zenon DEF View
    <2> HIDE DEF w
    <2>2. Running(w)
      BY <1>3, <1>6, <1>8, <1>9, <1>10, <2>1, AsideKeeps
    <2> QED BY Zenon, <2>2 DEF w
  <1>12. Interrupted(l)'
    BY Zenon, <1>1, <1>3, <1>9, <1>11 DEF Interrupted
  <1> QED BY Zenon, <1>1, <1>3, <1>12, FlowIrq DEF IrqPlaces, intc

\* rfeia: the interrupted instruction is next.
LEMMA RfeStep ==
  ASSUME IInv, irq_rfe
  PROVE  Flow'
  <1>1. /\ at = "irq_rfe" /\ JumpTo(Top.lr) /\ Drop
        /\ mode' = IF Top.spsr[1] = "psr" THEN Top.spsr[2] ELSE mode
        /\ masked' = (Top.spsr[1] = "psr" /\ Top.spsr[3] = "masked")
        /\ UNCHANGED <<g, lr, spsr, sp_usr, mmu, sched, intc, user>>
    BY Zenon DEF irq_rfe
  <1>2. PICK l \in Places : Interrupted(l)
    BY Zenon, <1>1 DEF IInv, Flow, IrqPlaces
  <1>3. /\ sp.depth >= 1 /\ Under(0).lr = Addr(l) /\ Under(0).spsr = Psr(ModeOf(l), FALSE)
        /\ Running(View(l, g, lr.svc, sp.depth - 1)) /\ ~serving
    BY Zenon, <1>1, <1>2 DEF Interrupted, IInv, Flow, IrqPlaces
  <1>4. sp.depth \in 1 .. 6 /\ sp.depth > 0
    BY SMTT(30), <1>1, Depths
  <1>5. Top = Under(0)
    BY SMTT(30), <1>4 DEF Top, Under
  <1>6. at' = l /\ mode' = ModeOf(l) /\ ~masked'
    <2>1. at' = l
      BY Zenon, <1>1, <1>3, <1>5, Jumps
    <2>2. /\ Top.spsr[1] = "psr" /\ Top.spsr[2] = ModeOf(l) /\ Top.spsr[3] = "open"
      <3>1. Top.spsr = <<"psr", ModeOf(l), "open">>
        BY Zenon, <1>3, <1>5 DEF Psr
      <3> QED BY <3>1
    <2> QED BY Zenon, <1>1, <2>1, <2>2
  <1>7. /\ sp'.area = sp.area /\ sp'.depth = sp.depth - 1
        /\ \A m \in Memories, i \in 1 .. DEPTH :
              m # Behind(sp.area) \/ i # sp.depth => mem'[m][i] = mem[m][i]
    BY Zenon, <1>1, <1>4, DropFacts DEF IInv
  <1>8. \A t \in Tasks, i \in 1 .. DEPTH :
              t # sp.area \/ i <= sp.depth - 1 => mem'[Home(t)][i] = mem[Home(t)][i]
    BY Zenon, <1>4, <1>7, DropBelow DEF IInv
  <1>9. Aside
    BY Zenon, <1>1, <1>7 DEF Aside, mmu, sched
  <1>10. Running(View(at, g, lr.svc, sp.depth)')
    <2>1. g' = g /\ lr'.svc = lr.svc
      BY Zenon, <1>1
    <2>2. at' \in Places
      BY Zenon, <1>6
    <2> DEFINE w == View(at, g, lr.svc, sp.depth)'
    <2>3. /\ w.at = at' /\ w.r = g' /\ w.ls = lr'.svc /\ w.d = sp'.depth /\ w.area = sp'.area
          /\ w.su = sp_usr' /\ w.lu = lr'.usr /\ w.psr = spsr'.svc /\ w.ttbr = ttbr' /\ w.tlb = tlb'
          /\ w.mem = mem' /\ w.context = context' /\ w.current = current' /\ w.live = live'
          /\ w.user = user'
      BY Zenon DEF View
    <2> HIDE DEF w
    <2>4. Running(w)
      BY <1>3, <1>6, <1>7, <1>8, <1>9, <2>1, <2>2, <2>3, AsideKeeps
    <2> QED BY Zenon, <2>4 DEF w
  <1>11. at' \notin IrqPlaces /\ ~serving'
    BY Zenon, <1>1, <1>3, <1>6 DEF intc, Places, OwnPlaces, UserPlaces, SvcPlaces, ExitPlaces, IdlePlaces,
       LoadPlaces, LeavePlaces, MidPlaces, IrqPlaces
  <1>12. at' \notin {"irq_restore", "irq_rfe"}
    BY Zenon, <1>11 DEF IrqPlaces
  <1> QED BY Zenon, <1>6, <1>10, <1>11, <1>12 DEF Flow

-----------------------------------------------------------------------------
(* The current task on its own stack *)

Now == View(at, g, lr.svc, sp.depth)

\* The view of the state itself, field by field.
LEMMA NowFacts ==
  /\ Now.at = at /\ Now.r = g /\ Now.ls = lr.svc /\ Now.d = sp.depth /\ Now.area = sp.area
  /\ Now.su = sp_usr /\ Now.lu = lr.usr /\ Now.psr = spsr.svc /\ Now.ttbr = ttbr /\ Now.tlb = tlb
  /\ Now.mem = mem /\ Now.context = context /\ Now.current = current /\ Now.live = live
  /\ Now.user = user
  BY Zenon DEF Now, View

\* The view of the next state, field by field.
LEMMA NextFacts ==
  /\ Now'.at = at' /\ Now'.r = g' /\ Now'.ls = lr'.svc /\ Now'.d = sp'.depth /\ Now'.area = sp'.area
  /\ Now'.su = sp_usr' /\ Now'.lu = lr'.usr /\ Now'.psr = spsr'.svc /\ Now'.ttbr = ttbr'
  /\ Now'.tlb = tlb' /\ Now'.mem = mem' /\ Now'.context = context' /\ Now'.current = current'
  /\ Now'.live = live' /\ Now'.user = user'
  BY Zenon DEF Now, View

\* A step that leaves the stacks alone leaves the tasks that wait as they are.
LEMMA FramesStay ==
  ASSUME mem' = mem, user' = user
  PROVE  /\ \A t, su, lu : Exiting(Now, t, su, lu) => Exiting(Now', t, su, lu)
         /\ \A t, su, lu : InHandler(Now, t, su, lu) => InHandler(Now', t, su, lu)
         /\ \A t, d, su, lu : Stacked(Now, t, d, su, lu) => Stacked(Now', t, d, su, lu)
         /\ context' = context => \A t : Saved(Now, t) => Saved(Now', t)
  <1>1. Now'.mem = Now.mem /\ Now'.user = Now.user
    BY Zenon, NowFacts, NextFacts
  <1>2. \A t, su, lu : Exiting(Now, t, su, lu) => Exiting(Now', t, su, lu)
    BY Zenon, <1>1, FramesKeep
  <1>3. \A t, su, lu : InHandler(Now, t, su, lu) => InHandler(Now', t, su, lu)
    BY Zenon, <1>1, FramesKeep
  <1>4. \A t, d, su, lu : Stacked(Now, t, d, su, lu) => Stacked(Now', t, d, su, lu)
    BY Zenon, <1>1, StackedKeep
  <1>5. ASSUME context' = context, NEW t, Saved(Now, t) PROVE Saved(Now', t)
    <2>1. Now'.context = Now.context
      BY Zenon, <1>5, NowFacts, NextFacts
    <2> QED BY Zenon, <1>4, <1>5, <2>1 DEF Saved
  <1> QED BY Zenon, <1>2, <1>3, <1>4, <1>5

\* The places are told apart.
LEMMA PlacesApart ==
  /\ \A l \in OwnPlaces : l \in Places /\ l \notin LeavePlaces /\ l \notin MidPlaces /\ l # "first_sp"
  /\ \A l \in LeavePlaces \cup MidPlaces : l \in Places /\ l \notin OwnPlaces /\ l # "first_sp"
  /\ \A l \in Places : l \notin IrqPlaces /\ l \notin {"irq_restore", "irq_rfe"}
  /\ "first_sp" \in Places /\ "first_sp" \notin OwnPlaces
  BY DEF Places, OwnPlaces, UserPlaces, SvcPlaces, ExitPlaces, IdlePlaces, LoadPlaces,
         LeavePlaces, MidPlaces, IrqPlaces

\* An instruction outside of the interrupt handler is next.
LEMMA Arrives ==
  ASSUME at' \in Places, mode' = ModeOf(at'), ~serving', at' \in UserPlaces => ~masked', Running(Now')
  PROVE  Flow'
  BY Zenon, PlacesApart DEF Flow, Now

\* What the invariant says of a task on its own stack.
LEMMA OwnNow ==
  ASSUME IInv, at \in OwnPlaces
  PROVE  /\ Running(Now) /\ Own(Now) /\ mode = ModeOf(at) /\ ~serving
         /\ sp.area = current /\ ttbr = Pgd(current) /\ tlb = ttbr
         /\ current \in live /\ current \in Tasks /\ live \in SUBSET Tasks /\ sp.depth \in 0 .. 5
         /\ Behind(sp.area) = Home(current) /\ Home(current) \in Memories
         /\ \A t \in Tasks : Home(t) \in Memories /\ (t # current => Home(t) # Home(current))
  <1>1. at \in Places
    BY Zenon, PlacesApart
  <1>2. Running(Now) /\ mode = ModeOf(at) /\ ~serving
    BY Zenon, <1>1 DEF IInv, Flow, Now
  <1>3. Own(Now)
    BY Zenon, <1>2, NowFacts DEF Running
  <1>4. sp.area = current /\ ttbr = Pgd(current) /\ tlb = ttbr
    BY Zenon, <1>3, NowFacts DEF Own
  <1>5. current \in live /\ current \in Tasks /\ live \in SUBSET Tasks
    BY Zenon, <1>2, NowFacts DEF Running, IInv, Shape
  <1>6. sp.depth \in 0 .. 5
    BY Zenon, <1>1, Depths
  <1>7. tlb \in {"kernel"} \cup Forked /\ sp.area \in Tasks \cup {"boot"}
    BY Zenon, Depths DEF IInv, Shape
  <1>8. sp.area # "init" \/ tlb = "kernel"
    BY Zenon, <1>4, CpuAssumption DEF Pgd
  <1>9. Behind(sp.area) = Home(current) /\ Home(current) \in Memories
    BY Zenon, <1>4, <1>7, <1>8, Apart
  <1>10. \A t \in Tasks : Home(t) \in Memories /\ (t # current => Home(t) # Home(current))
    BY Zenon, <1>5, <1>7, Apart
  <1> QED BY Zenon, <1>2, <1>3, <1>4, <1>5, <1>6, <1>9, <1>10

\* A task that stays on its own stack: the others are not affected.
LEMMA OwnStep ==
  ASSUME NEW v, NEW w, v.at \in OwnPlaces, Running(v), v.live \in SUBSET Tasks, w.at \in OwnPlaces,
         w.current = v.current, w.area = v.area, w.ttbr = v.ttbr, w.tlb = v.tlb, w.live = v.live,
         \A t \in Tasks \ {v.current} : w.context[t] = v.context[t] /\ w.user[t] = v.user[t],
         SameBelow(v, w, v.current, 0), Called(w), Idles(w), Loads(w)
  PROVE  Running(w)
  <1>1. Own(v) /\ v.current \in v.live
    BY Zenon DEF Running
  <1>2. AllSaved(v, v.live \ {v.current})
    BY Zenon, <1>1 DEF Own
  <1>3. AllSaved(w, v.live \ {v.current})
    <2> DEFINE S == v.live \ {v.current}
    <2>1. S \in SUBSET Tasks /\ v.current \notin S
      BY Zenon
    <2>2. \A t \in S : w.context[t] = v.context[t] /\ w.user[t] = v.user[t]
      BY Zenon
    <2> HIDE DEF S
    <2>3. AllSaved(w, S)
      BY Zenon, <1>2, <2>1, <2>2, AllSavedKeep DEF S
    <2> QED BY Zenon, <2>3 DEF S
  <1>4. Own(w)
    BY Zenon, <1>1, <1>3 DEF Own
  <1> QED BY Zenon, <1>1, <1>4, PlacesApart DEF Running

\* A task pushes a frame on its own stack.
LEMMA PushOwn ==
  ASSUME IInv, at \in OwnPlaces, NEW f, DOMAIN f = DOMAIN NoFrame, Push(f)
  PROVE  /\ sp'.area = sp.area /\ sp'.depth = sp.depth + 1
         /\ mem'[Home(current)][sp.depth + 1] = f
         /\ \A i \in 1 .. DEPTH : i <= sp.depth => mem'[Home(current)][i] = mem[Home(current)][i]
         /\ \A t \in Tasks, i \in 1 .. DEPTH :
              t # current \/ i <= sp.depth => mem'[Home(t)][i] = mem[Home(t)][i]
  <1>1. /\ sp.area = current /\ current \in Tasks /\ sp.depth \in 0 .. 5
        /\ Behind(sp.area) = Home(current)
    BY Zenon, OwnNow
  <1>2. sp.depth < DEPTH
    BY SMTT(30), <1>1 DEF DEPTH
  <1>3. /\ sp'.area = sp.area /\ sp'.depth = sp.depth + 1
        /\ mem'[Behind(sp.area)][sp.depth + 1] = f
        /\ \A m \in Memories, i \in 1 .. DEPTH :
              m # Behind(sp.area) \/ i # sp.depth + 1 => mem'[m][i] = mem[m][i]
    BY Zenon, <1>2, PushFacts DEF IInv
  <1>4. \A t \in Tasks, i \in 1 .. DEPTH :
              t # sp.area \/ i <= sp.depth => mem'[Home(t)][i] = mem[Home(t)][i]
    BY Zenon, <1>2, <1>3, PushBelow DEF IInv
  <1> QED BY Zenon, <1>1, <1>3, <1>4

\* A task pops a frame of its own stack.
LEMMA DropOwn ==
  ASSUME IInv, at \in OwnPlaces, Drop, sp.depth > 0
  PROVE  /\ sp'.area = sp.area /\ sp'.depth = sp.depth - 1
         /\ Top = mem[Home(current)][sp.depth]
         /\ \A i \in 1 .. DEPTH : i <= sp.depth - 1 => mem'[Home(current)][i] = mem[Home(current)][i]
         /\ \A t \in Tasks, i \in 1 .. DEPTH :
              t # current \/ i <= sp.depth - 1 => mem'[Home(t)][i] = mem[Home(t)][i]
  <1>1. /\ sp.area = current /\ current \in Tasks /\ sp.depth \in 0 .. 5
        /\ Behind(sp.area) = Home(current)
    BY Zenon, OwnNow
  <1>2. /\ sp'.area = sp.area /\ sp'.depth = sp.depth - 1
        /\ \A m \in Memories, i \in 1 .. DEPTH :
              m # Behind(sp.area) \/ i # sp.depth => mem'[m][i] = mem[m][i]
    BY Zenon, DropFacts DEF IInv
  <1>3. \A t \in Tasks, i \in 1 .. DEPTH :
              t # sp.area \/ i <= sp.depth - 1 => mem'[Home(t)][i] = mem[Home(t)][i]
    BY Zenon, <1>2, DropBelow DEF IInv
  <1> QED BY Zenon, <1>1, <1>2, <1>3 DEF Top

\* A step of a task on its own stack, in terms of the variables.
LEMMA OwnArrives ==
  ASSUME IInv, at \in OwnPlaces, at' \in OwnPlaces, mode' = ModeOf(at'), ~serving',
         at' \in UserPlaces => ~masked',
         UNCHANGED <<ttbr, tlb, context, current, live>>, sp'.area = sp.area,
         \A t \in Tasks \ {current} : user'[t] = user[t],
         \A t \in Tasks, i \in 1 .. DEPTH : t # current => mem'[Home(t)][i] = mem[Home(t)][i],
         Called(Now'), Idles(Now'), Loads(Now')
  PROVE  Flow'
  <1>1. Running(Now) /\ live \in SUBSET Tasks
    BY Zenon, OwnNow
  <1> DEFINE v == Now
             w == Now'
  <1>2. /\ v.at \in OwnPlaces /\ v.live \in SUBSET Tasks /\ w.at \in OwnPlaces
        /\ w.current = v.current /\ w.area = v.area /\ w.ttbr = v.ttbr /\ w.tlb = v.tlb
        /\ w.live = v.live
        /\ \A t \in Tasks \ {v.current} : w.context[t] = v.context[t] /\ w.user[t] = v.user[t]
    BY Zenon, <1>1, NowFacts, NextFacts
  <1>3. SameBelow(v, w, v.current, 0)
    <2>1. \A i \in 1 .. DEPTH : ~(i <= 0)
      BY SMTT(30) DEF DEPTH
    <2> QED BY Zenon, <2>1, NowFacts, NextFacts DEF SameBelow
  <1>4. Running(v) /\ Called(w) /\ Idles(w) /\ Loads(w)
    BY Zenon, <1>1
  <1> HIDE DEF v, w
  <1>5. Running(w)
    BY Zenon, <1>2, <1>3, <1>4, OwnStep
  <1>6. Running(Now') /\ at' \in Places
    BY Zenon, <1>5, PlacesApart DEF w
  <1> QED BY Zenon, <1>6, Arrives

\* Each predicate speaks of its own places only.
LEMMA Elsewhere ==
  \A w : /\ w.at \notin UserPlaces \cup SvcPlaces \cup ExitPlaces => Called(w)
         /\ w.at \notin IdlePlaces => Idles(w)
         /\ w.at \notin LoadPlaces => Loads(w)
  BY Zenon DEF Called, Idles, Loads, UserPlaces, SvcPlaces, ExitPlaces, IdlePlaces, LoadPlaces

-----------------------------------------------------------------------------
(* Programs and system calls *)

\* A program that computes has its own values in its registers.
LEMMA UserComputeStep ==
  ASSUME IInv, UserCompute
  PROVE  Flow'
  <1>1. /\ at \in UserPlaces /\ at' = "user" /\ mode = "usr"
        /\ g' = [r \in DOMAIN g |-> Val(current)]
        /\ lr' = [lr EXCEPT !.usr = Val(current)] /\ sp_usr' = Val(current)
        /\ user' = [user EXCEPT ![current] = [of |-> current, r0 |-> Val(current)]]
        /\ UNCHANGED <<mode, masked, spsr, sp, mmu, mem, sched, intc>>
    BY Zenon DEF UserCompute, UserPlaces
  <1>2. at \in OwnPlaces /\ at' \in OwnPlaces /\ at' \in UserPlaces
    BY Zenon, <1>1 DEF OwnPlaces, UserPlaces
  <1>3. Own(Now) /\ current \in Tasks /\ ~serving
    BY Zenon, <1>2, OwnNow
  <1>4. sp.depth = 0 /\ current # "idle"
    BY Zenon, <1>1, <1>3, NowFacts DEF Own, Called
  <1>5. /\ g'.r0 = Val(current) /\ g'.r1 = Val(current) /\ g'.scr = Val(current) /\ g'.cal = Val(current)
    <2>1. DOMAIN g = {"r0", "r1", "scr", "cal"}
      BY Zenon DEF IInv, Shape
    <2> QED BY Zenon, <1>1, <2>1
  <1>6. lr'.usr = Val(current) /\ lr'.svc = lr.svc
    BY Zenon, <1>1 DEF IInv, Shape
  <1>7. /\ user'[current] = [of |-> current, r0 |-> Val(current)]
        /\ \A t \in Tasks \ {current} : user'[t] = user[t]
    BY Zenon, <1>1, <1>3 DEF IInv, Shape
  <1>8. Registers(Now')
    BY SMTT(30), <1>1, <1>5, <1>6, <1>7, NextFacts DEF Registers, sched
  <1>9. Called(Now')
    BY Zenon, <1>1, <1>4, <1>8, NextFacts DEF Called, sched, UserPlaces
  <1>10. Idles(Now') /\ Loads(Now')
    BY Zenon, <1>1, NextFacts, Elsewhere DEF IdlePlaces, LoadPlaces
  <1>11. mode' = ModeOf(at') /\ ~serving' /\ ~masked'
    BY Zenon, <1>1, <1>2, <1>3 DEF ModeOf, intc, IInv, Flow
  <1> QED BY Zenon, <1>1, <1>2, <1>7, <1>9, <1>10, <1>11, OwnArrives DEF mmu, sched

\* svc #0 leaves the registers to exception_entry_svc.
LEMMA UserCallStep ==
  ASSUME IInv, UserCall
  PROVE  Flow'
  <1>1. /\ at = "user" /\ at' = "svc_save" /\ mode' = "svc"
        /\ lr' = [lr EXCEPT !.svc = Addr("returned")]
        /\ spsr' = [spsr EXCEPT !.svc = Psr("usr", masked)]
        /\ UNCHANGED <<g, sp, sp_usr, mmu, mem, sched, intc, user>>
    BY Zenon DEF UserCall, Go
  <1>2. at \in OwnPlaces /\ at' \in OwnPlaces /\ at' \notin UserPlaces
    BY Zenon, <1>1 DEF OwnPlaces, UserPlaces, SvcPlaces
  <1>3. Own(Now) /\ current \in Tasks /\ ~serving
    BY Zenon, <1>2, OwnNow
  <1>4. sp.depth = 0 /\ current # "idle" /\ Registers(Now)
    BY Zenon, <1>1, <1>3, NowFacts DEF Own, Called, UserPlaces
  <1>5. lr'.usr = lr.usr /\ lr'.svc = Addr("returned")
    BY Zenon, <1>1 DEF IInv, Shape
  <1>6. spsr'.svc = PsrOf(current)
    <2>1. ~masked
      BY Zenon, <1>1 DEF IInv, Flow, UserPlaces
    <2> QED BY Zenon, <1>1, <1>4, <2>1 DEF IInv, Shape, PsrOf, Psr
  <1>7. Registers(Now')
    BY <1>1, <1>4, <1>5, NowFacts, NextFacts DEF Registers, sched
  <1>8. Called(Now')
    BY Zenon, <1>1, <1>4, <1>5, <1>6, <1>7, NextFacts DEF Called, sched, UserPlaces
  <1>9. Idles(Now') /\ Loads(Now')
    BY Zenon, <1>1, NextFacts, Elsewhere DEF IdlePlaces, LoadPlaces
  <1>10. mode' = ModeOf(at') /\ ~serving'
    BY Zenon, <1>1, <1>2, <1>3 DEF ModeOf, intc
  <1> QED BY Zenon, <1>1, <1>2, <1>8, <1>9, <1>10, OwnArrives DEF mmu, sched

\* push {r0-r12, lr}: what the program left is in the first frame.
LEMMA SvcSaveStep ==
  ASSUME IInv, svc_save
  PROVE  Flow'
  <1> DEFINE f == [NoFrame EXCEPT !.r0 = g.r0, !.r1 = g.r1, !.scr = g.scr, !.cal = g.cal, !.lr = lr.svc]
  <1>1. /\ at = "svc_save" /\ at' = "svc_mrs" /\ Push(f)
        /\ UNCHANGED <<mode, masked, g, lr, spsr, sp_usr, mmu, sched, intc, user>>
    BY Zenon DEF svc_save, Go
  <1>2. at \in OwnPlaces /\ at' \in OwnPlaces /\ at' \notin UserPlaces /\ at \notin UserPlaces
    BY Zenon, <1>1 DEF OwnPlaces, UserPlaces, SvcPlaces
  <1>3. Own(Now) /\ current \in Tasks /\ ~serving /\ mode = ModeOf(at)
    BY Zenon, <1>2, OwnNow
  <1>4. /\ sp.depth = 0 /\ current # "idle" /\ Registers(Now) /\ lr.svc = Addr("returned")
        /\ spsr.svc = PsrOf(current)
    BY Zenon, <1>1, <1>3, NowFacts DEF Own, Called
  <1>5. /\ DOMAIN f = DOMAIN NoFrame /\ f.r0 = g.r0 /\ f.r1 = g.r1 /\ f.scr = g.scr /\ f.cal = g.cal
        /\ f.lr = lr.svc
    BY Zenon DEF NoFrame
  <1> HIDE DEF f
  <1>6. /\ sp'.area = sp.area /\ sp'.depth = 1 /\ mem'[Home(current)][1] = f
        /\ \A t \in Tasks, i \in 1 .. DEPTH : t # current => mem'[Home(t)][i] = mem[Home(t)][i]
    BY <1>1, <1>2, <1>4, <1>5, PushOwn
  <1>7. Entry(Now', current, sp_usr, lr.usr)
    <2>1. /\ f.lr = Addr("returned") /\ f.r0 = user[current].r0
          /\ \A w \in {f.r1, f.scr, f.cal, sp_usr, lr.usr} : w = Val(user[current].of)
      BY Zenon, <1>4, <1>5, NowFacts DEF Registers
    <2>2. Now'.mem[Home(current)][1] = f /\ Now'.user[current] = user[current]
      BY Zenon, <1>1, <1>6, NextFacts
    <2> QED BY Zenon, <1>4, <2>1, <2>2 DEF Entry
  <1>8. Called(Now')
    BY Zenon, <1>1, <1>4, <1>6, <1>7, NextFacts DEF Called, sched, UserPlaces
  <1>9. Idles(Now') /\ Loads(Now')
    BY Zenon, <1>1, NextFacts, Elsewhere DEF IdlePlaces, LoadPlaces
  <1>10. mode' = ModeOf(at') /\ ~serving'
    BY Zenon, <1>1, <1>2, <1>3 DEF ModeOf, intc
  <1> QED BY Zenon, <1>1, <1>2, <1>6, <1>8, <1>9, <1>10, OwnArrives DEF mmu, sched

\* mrs r0, spsr: r0 is free, the program's is in the frame.
LEMMA SvcMrsStep ==
  ASSUME IInv, svc_mrs
  PROVE  Flow'
  <1>1. /\ at = "svc_mrs" /\ at' = "svc_psr" /\ g' = [g EXCEPT !.r0 = spsr.svc, !.r1 = <<"zero">>]
        /\ UNCHANGED <<mode, masked, lr, spsr, sp, sp_usr, mmu, mem, sched, intc, user>>
    BY Zenon DEF svc_mrs, Go
  <1>2. at \in OwnPlaces /\ at' \in OwnPlaces /\ at' \notin UserPlaces /\ at \notin UserPlaces
    BY Zenon, <1>1 DEF OwnPlaces, UserPlaces, SvcPlaces
  <1>3. Own(Now) /\ current \in Tasks /\ ~serving /\ mode = ModeOf(at)
    BY Zenon, <1>2, OwnNow
  <1>4. /\ sp.depth = 1 /\ current # "idle" /\ Entry(Now, current, sp_usr, lr.usr)
        /\ spsr.svc = PsrOf(current)
    BY Zenon, <1>1, <1>3, NowFacts DEF Own, Called
  <1>5. g'.r0 = PsrOf(current)
    BY Zenon, <1>1, <1>4 DEF IInv, Shape
  <1>6. Entry(Now', current, sp_usr, lr.usr)
    BY <1>1, <1>4, NowFacts, NextFacts DEF Entry
  <1>7. Called(Now')
    BY Zenon, <1>1, <1>4, <1>5, <1>6, NextFacts DEF Called, sched, UserPlaces
  <1>8. Idles(Now') /\ Loads(Now')
    BY Zenon, <1>1, NextFacts, Elsewhere DEF IdlePlaces, LoadPlaces
  <1>9. mode' = ModeOf(at') /\ ~serving'
    BY Zenon, <1>1, <1>2, <1>3 DEF ModeOf, intc
  <1> QED BY Zenon, <1>1, <1>2, <1>7, <1>8, <1>9, OwnArrives DEF mmu, sched

\* The saved mode is in the second frame.
LEMMA SvcPsrStep ==
  ASSUME IInv, svc_psr
  PROVE  Flow'
  <1> DEFINE f == [NoFrame EXCEPT !.spsr = g.r0, !.r1 = g.r1]
  <1>1. /\ at = "svc_psr" /\ at' = "svc_enable" /\ Push(f)
        /\ UNCHANGED <<mode, masked, g, lr, spsr, sp_usr, mmu, sched, intc, user>>
    BY Zenon DEF svc_psr, Go
  <1>2. at \in OwnPlaces /\ at' \in OwnPlaces /\ at' \notin UserPlaces /\ at \notin UserPlaces
    BY Zenon, <1>1 DEF OwnPlaces, UserPlaces, SvcPlaces
  <1>3. Own(Now) /\ current \in Tasks /\ ~serving /\ mode = ModeOf(at)
    BY Zenon, <1>2, OwnNow
  <1>4. /\ sp.depth = 1 /\ current # "idle" /\ Entry(Now, current, sp_usr, lr.usr)
        /\ g.r0 = PsrOf(current)
    BY Zenon, <1>1, <1>3, NowFacts DEF Own, Called
  <1>5. DOMAIN f = DOMAIN NoFrame /\ f.spsr = PsrOf(current)
    BY Zenon, <1>4 DEF NoFrame
  <1> HIDE DEF f
  <1>6. /\ sp'.area = sp.area /\ sp'.depth = 2 /\ mem'[Home(current)][2] = f
        /\ mem'[Home(current)][1] = mem[Home(current)][1]
        /\ \A t \in Tasks, i \in 1 .. DEPTH : t # current => mem'[Home(t)][i] = mem[Home(t)][i]
    <2>1. 1 \in 1 .. DEPTH /\ 1 <= sp.depth /\ sp.depth + 1 = 2
      BY SMTT(30), <1>4 DEF DEPTH
    <2> QED BY Zenon, <1>1, <1>2, <1>5, <2>1, PushOwn
  <1>7. Exiting(Now', current, sp_usr, lr.usr)
    <2>1. Now'.mem[Home(current)][1] = Now.mem[Home(current)][1] /\ Now'.user[current] = Now.user[current]
      BY Zenon, <1>1, <1>6, NowFacts, NextFacts
    <2>2. Entry(Now', current, sp_usr, lr.usr)
      BY Zenon, <1>4, <2>1, FramesKeep
    <2>3. Now'.mem[Home(current)][2].spsr = PsrOf(current)
      BY Zenon, <1>5, <1>6, NextFacts
    <2> QED BY Zenon, <2>2, <2>3 DEF Exiting
  <1>8. Called(Now')
    BY Zenon, <1>1, <1>4, <1>6, <1>7, NextFacts DEF Called, sched, UserPlaces
  <1>9. Idles(Now') /\ Loads(Now')
    BY Zenon, <1>1, NextFacts, Elsewhere DEF IdlePlaces, LoadPlaces
  <1>10. mode' = ModeOf(at') /\ ~serving'
    BY Zenon, <1>1, <1>2, <1>3 DEF ModeOf, intc
  <1> QED BY Zenon, <1>1, <1>2, <1>6, <1>8, <1>9, <1>10, OwnArrives DEF mmu, sched

\* cpsie i changes nothing but the mask.
LEMMA SvcEnableStep ==
  ASSUME IInv, svc_enable
  PROVE  Flow'
  <1>1. /\ at = "svc_enable" /\ at' = "svc_call"
        /\ UNCHANGED <<mode, regs, mmu, mem, sched, intc, user>>
    BY Zenon DEF svc_enable, Go
  <1>2. at \in OwnPlaces /\ at' \in OwnPlaces /\ at' \notin UserPlaces /\ at \notin UserPlaces
    BY Zenon, <1>1 DEF OwnPlaces, UserPlaces, SvcPlaces
  <1>3. Own(Now) /\ current \in Tasks /\ ~serving /\ mode = ModeOf(at)
    BY Zenon, <1>2, OwnNow
  <1>4. sp.depth = 2 /\ current # "idle" /\ Exiting(Now, current, sp_usr, lr.usr)
    BY Zenon, <1>1, <1>3, NowFacts DEF Own, Called
  <1>5. Exiting(Now', current, sp_usr, lr.usr)
    BY Zenon, <1>1, <1>4, FramesStay
  <1>6. Called(Now')
    BY Zenon, <1>1, <1>4, <1>5, NextFacts DEF Called, sched, regs, UserPlaces
  <1>7. Idles(Now') /\ Loads(Now')
    BY Zenon, <1>1, NextFacts, Elsewhere DEF IdlePlaces, LoadPlaces
  <1>8. mode' = ModeOf(at') /\ ~serving'
    BY Zenon, <1>1, <1>2, <1>3 DEF ModeOf, intc
  <1> QED BY Zenon, <1>1, <1>2, <1>6, <1>7, <1>8, OwnArrives DEF mmu, sched, regs

\* svc_handler() returns to svc_exit_trampoline.
LEMMA SvcCallStep ==
  ASSUME IInv, svc_call
  PROVE  Flow'
  <1> DEFINE f == [NoFrame EXCEPT !.cal = g.cal, !.lr = Addr("exit_pop")]
  <1>1. /\ at = "svc_call" /\ at' = "handler" /\ Push(f) /\ lr' = [lr EXCEPT !.svc = Junk]
        /\ UNCHANGED <<mode, masked, spsr, sp_usr, mmu, sched, intc, user>>
    BY Zenon DEF svc_call, Go
  <1>2. at \in OwnPlaces /\ at' \in OwnPlaces /\ at' \notin UserPlaces /\ at \notin UserPlaces
    BY Zenon, <1>1 DEF OwnPlaces, UserPlaces, SvcPlaces
  <1>3. Own(Now) /\ current \in Tasks /\ ~serving /\ mode = ModeOf(at)
    BY Zenon, <1>2, OwnNow
  <1>4. sp.depth = 2 /\ current # "idle" /\ Exiting(Now, current, sp_usr, lr.usr)
    BY Zenon, <1>1, <1>3, NowFacts DEF Own, Called
  <1>5. DOMAIN f = DOMAIN NoFrame /\ f.lr = Addr("exit_pop")
    BY Zenon DEF NoFrame
  <1> HIDE DEF f
  <1>6. /\ sp'.area = sp.area /\ sp'.depth = 3 /\ mem'[Home(current)][3] = f
        /\ mem'[Home(current)][1] = mem[Home(current)][1]
        /\ mem'[Home(current)][2] = mem[Home(current)][2]
        /\ \A t \in Tasks, i \in 1 .. DEPTH : t # current => mem'[Home(t)][i] = mem[Home(t)][i]
    <2>1. 1 \in 1 .. DEPTH /\ 1 <= sp.depth /\ 2 \in 1 .. DEPTH /\ 2 <= sp.depth /\ sp.depth + 1 = 3
      BY <1>4 DEF DEPTH
    <2> QED BY Zenon, <1>1, <1>2, <1>5, <2>1, PushOwn
  <1>7. lr'.usr = lr.usr
    BY Zenon, <1>1 DEF IInv, Shape
  <1>8. InHandler(Now', current, sp_usr, lr.usr)
    BY <1>1, <1>4, <1>5, <1>6, NowFacts, NextFacts DEF InHandler, Exiting, Entry
  <1>9. Called(Now')
    BY Zenon, <1>1, <1>4, <1>6, <1>7, <1>8, NextFacts DEF Called, sched, UserPlaces
  <1>10. Idles(Now') /\ Loads(Now')
    BY Zenon, <1>1, NextFacts, Elsewhere DEF IdlePlaces, LoadPlaces
  <1>11. mode' = ModeOf(at') /\ ~serving'
    BY Zenon, <1>1, <1>2, <1>3 DEF ModeOf, intc
  <1> QED BY Zenon, <1>1, <1>2, <1>6, <1>9, <1>10, <1>11, OwnArrives DEF mmu, sched

\* What svc_handler() writes: the result in the first frame.
LEMMA ResultFacts ==
  ASSUME IInv, at = "handler", HandlerReturn
  PROVE  /\ sp.depth = 3 /\ sp'.area = sp.area /\ sp'.depth = 2
         /\ Top = mem[Home(current)][3]
         /\ mem'[Home(current)][1] = [mem[Home(current)][1] EXCEPT !.r0 = Result(current)]
         /\ mem'[Home(current)][2] = mem[Home(current)][2]
         /\ \A m \in Memories : m # Home(current) => mem'[m] = mem[m]
         /\ MemShape'
  <1>1. at \in OwnPlaces
    BY Zenon DEF OwnPlaces, SvcPlaces
  <1>2. Own(Now) /\ Behind(sp.area) = Home(current) /\ Home(current) \in Memories
    BY Zenon, <1>1, OwnNow
  <1>3. sp.depth = 3
    BY Zenon, <1>2, NowFacts DEF Own, Called
  <1> DEFINE h == Home(current)
             s == mem[h]
             n == [s EXCEPT ![3] = NoFrame]
  <1>4. mem' = [mem EXCEPT ![h][3] = NoFrame, ![h][1].r0 = Result(current)]
    BY SMTT(30), <1>2, <1>3 DEF HandlerReturn
  <1>5. sp'.area = sp.area /\ sp'.depth = 2 /\ Top = mem[Home(current)][3]
    BY SMTT(30), <1>2, <1>3 DEF HandlerReturn, IInv, Shape, StackPointer, Top
  <1>6. /\ DOMAIN mem = Memories /\ DOMAIN s = 1 .. DEPTH
        /\ \A m \in Memories : DOMAIN mem[m] = 1 .. DEPTH
        /\ \A m \in Memories, i \in 1 .. DEPTH : DOMAIN mem[m][i] = DOMAIN NoFrame
    BY Zenon, <1>2 DEF IInv, Shape, MemShape
  <1>7. /\ DOMAIN mem' = Memories /\ mem'[h] = [n EXCEPT ![1].r0 = Result(current)]
        /\ \A m \in Memories : m # h => mem'[m] = mem[m]
    BY Zenon, <1>2, <1>4, <1>6
  <1>8. /\ DOMAIN n = 1 .. DEPTH /\ n[3] = NoFrame
        /\ \A i \in 1 .. DEPTH : i # 3 => n[i] = s[i]
    BY <1>6 DEF DEPTH
  <1> HIDE DEF n
  <1>9. 1 \in 1 .. DEPTH /\ 2 \in 1 .. DEPTH /\ 1 # 3 /\ 2 # 3 /\ 1 # 2
    BY DEF DEPTH
  <1>10. /\ DOMAIN mem'[h] = 1 .. DEPTH /\ mem'[h][1] = [n[1] EXCEPT !.r0 = Result(current)]
         /\ \A i \in 1 .. DEPTH : i # 1 => mem'[h][i] = n[i]
    BY Zenon, <1>7, <1>8, <1>9
  <1>11. /\ mem'[h][1] = [s[1] EXCEPT !.r0 = Result(current)] /\ mem'[h][2] = s[2]
    BY Zenon, <1>8, <1>9, <1>10
  <1>12. MemShape'
    <2>1. \A m \in Memories : DOMAIN mem'[m] = 1 .. DEPTH
      BY Zenon, <1>6, <1>7, <1>10
    <2>2. \A i \in 1 .. DEPTH : DOMAIN mem'[h][i] = DOMAIN NoFrame
      <3>1. DOMAIN mem'[h][1] = DOMAIN s[1]
        BY Zenon, <1>11
      <3>2. DOMAIN s[1] = DOMAIN NoFrame
        BY Zenon, <1>2, <1>6, <1>9
      <3>3. \A i \in 1 .. DEPTH : i # 1 /\ i # 3 => mem'[h][i] = s[i]
        BY Zenon, <1>8, <1>10
      <3>4. mem'[h][3] = NoFrame
        BY <1>8, <1>10 DEF DEPTH
      <3>5. \A i \in 1 .. DEPTH : DOMAIN s[i] = DOMAIN NoFrame
        BY Zenon, <1>2, <1>6
      <3> QED BY <3>1, <3>2, <3>3, <3>4, <3>5, Zenon
    <2>3. \A m \in Memories, i \in 1 .. DEPTH : DOMAIN mem'[m][i] = DOMAIN NoFrame
      <3>1. SUFFICES ASSUME NEW m \in Memories, NEW i \in 1 .. DEPTH
                     PROVE  DOMAIN mem'[m][i] = DOMAIN NoFrame
        BY Zenon
      <3>2. CASE m = h
        BY Zenon, <2>2, <3>1, <3>2
      <3>3. CASE m # h
        <4>1. mem'[m][i] = mem[m][i]
          BY Zenon, <1>7, <3>1, <3>3
        <4> QED BY Zenon, <1>6, <3>1, <4>1
      <3> QED BY Zenon, <3>2, <3>3
    <2> QED BY Zenon, <1>7, <2>1, <2>3 DEF MemShape
  <1> QED BY Zenon, <1>3, <1>5, <1>7, <1>11, <1>12

\* The result of the call is in the r0 of the first frame.
LEMMA HandlerReturnStep ==
  ASSUME IInv, HandlerReturn
  PROVE  Flow'
  <1>1. /\ at = "handler" /\ JumpTo(Top.lr) /\ user' = [user EXCEPT ![current].r0 = Result(current)]
        /\ UNCHANGED <<mode, masked, lr, spsr, sp_usr, mmu, sched, intc>>
    BY Zenon DEF HandlerReturn
  <1>2. at \in OwnPlaces /\ at \notin UserPlaces
    BY Zenon, <1>1 DEF OwnPlaces, UserPlaces, SvcPlaces
  <1>3. /\ Own(Now) /\ current \in Tasks /\ ~serving /\ mode = ModeOf(at)
        /\ \A t \in Tasks : Home(t) \in Memories /\ (t # current => Home(t) # Home(current))
        /\ Home(current) \in Memories
    BY Zenon, <1>2, OwnNow
  <1>4. InHandler(Now, current, sp_usr, lr.usr)
    BY Zenon, <1>1, <1>3, NowFacts DEF Own, Called
  <1>5. /\ sp'.area = sp.area /\ sp'.depth = 2 /\ Top = mem[Home(current)][3]
        /\ mem'[Home(current)][1] = [mem[Home(current)][1] EXCEPT !.r0 = Result(current)]
        /\ mem'[Home(current)][2] = mem[Home(current)][2]
        /\ \A m \in Memories : m # Home(current) => mem'[m] = mem[m]
    BY Zenon, <1>1, ResultFacts
  <1>6. at' = "exit_pop" /\ at' \in OwnPlaces /\ at' \notin UserPlaces
    <2>1. Top.lr = Addr("exit_pop")
      BY Zenon, <1>4, <1>5, NowFacts DEF InHandler
    <2>2. at' = "exit_pop"
      BY Zenon, <1>1, <2>1, Jumps
    <2> QED BY Zenon, <2>2 DEF OwnPlaces, ExitPlaces, UserPlaces
  <1>7. /\ user'[current].of = user[current].of /\ user'[current].r0 = Result(current)
        /\ \A t \in Tasks \ {current} : user'[t] = user[t]
    BY <1>1, <1>3 DEF IInv, Shape
  <1>8. LET f == mem[Home(current)][1]
            e == mem'[Home(current)][1]
        IN  e.r0 = Result(current) /\ e.r1 = f.r1 /\ e.scr = f.scr /\ e.cal = f.cal /\ e.lr = f.lr
    <2> DEFINE f == mem[Home(current)][1]
    <2>1. DOMAIN f = FrameFields
      <3>1. 1 \in 1 .. DEPTH
        BY DEF DEPTH
      <3> QED BY Zenon, <1>3, <3>1, NoFrameFields DEF IInv, Shape, MemShape
    <2> HIDE DEF f
    <2>2. LET e == [f EXCEPT !.r0 = Result(current)]
          IN  e.r0 = Result(current) /\ e.r1 = f.r1 /\ e.scr = f.scr /\ e.cal = f.cal /\ e.lr = f.lr
      BY Zenon, <2>1 DEF FrameFields
    <2>3. mem'[Home(current)][1] = [f EXCEPT !.r0 = Result(current)]
      BY Zenon, <1>5 DEF f
    <2> QED BY Zenon, <2>2, <2>3 DEF f
  <1>9. Exiting(Now', current, sp_usr, lr.usr)
    <2>1. current # "idle" /\ Exiting(Now, current, sp_usr, lr.usr)
      BY Zenon, <1>4 DEF InHandler
    <2>2. Entry(Now', current, sp_usr, lr.usr)
      <3>1. Entry(Now, current, sp_usr, lr.usr)
        BY Zenon, <2>1 DEF Exiting
      <3> DEFINE f == mem[Home(current)][1]
                 e == mem'[Home(current)][1]
      <3>2. \/ f.lr = Addr("user_start")
            \/ /\ f.lr = Addr("returned")
               /\ \A w \in {f.r1, f.scr, f.cal, sp_usr, lr.usr} : w = Val(user[current].of)
        BY Zenon, <2>1, <3>1, NowFacts DEF Entry
      <3>3. /\ e.r0 = user'[current].r0 /\ e.r1 = f.r1 /\ e.scr = f.scr /\ e.cal = f.cal /\ e.lr = f.lr
            /\ user'[current].of = user[current].of
        BY Zenon, <1>7, <1>8
      <3> HIDE DEF f
      <3>4. \/ e.lr = Addr("user_start")
            \/ /\ e.lr = Addr("returned") /\ e.r0 = user'[current].r0
               /\ \A w \in {e.r1, e.scr, e.cal, sp_usr, lr.usr} : w = Val(user'[current].of)
        BY Zenon, <3>2, <3>3
      <3> QED BY Zenon, <2>1, <3>4, NextFacts DEF Entry
    <2>3. mem'[Home(current)][2].spsr = PsrOf(current)
      BY Zenon, <1>5, <2>1, NowFacts DEF Exiting
    <2> QED BY Zenon, <2>2, <2>3, NextFacts DEF Exiting
  <1>10. Called(Now')
    BY Zenon, <1>1, <1>5, <1>6, <1>9, NextFacts DEF Called, sched, UserPlaces
  <1>11. Idles(Now') /\ Loads(Now')
    BY Zenon, <1>6, NextFacts, Elsewhere DEF IdlePlaces, LoadPlaces
  <1>12. mode' = ModeOf(at') /\ ~serving'
    BY Zenon, <1>1, <1>2, <1>3, <1>6 DEF ModeOf, intc
  <1>13. \A t \in Tasks, i \in 1 .. DEPTH : t # current => mem'[Home(t)][i] = mem[Home(t)][i]
    BY Zenon, <1>3, <1>5
  <1> QED BY Zenon, <1>1, <1>2, <1>5, <1>6, <1>7, <1>10, <1>11, <1>12, <1>13, OwnArrives DEF mmu, sched

\* do_fork(): the memory of the child.
LEMMA ForkFacts ==
  ASSUME IInv, at = "handler", NEW c \in Forked \ live,
         mem' = [mem EXCEPT
             ![<<"user", c>>] = mem[<<"user", Pgd(current)>>],
             ![<<"kernel", c>>] =
                [[i \in 1 .. DEPTH |-> NoFrame] EXCEPT
                    ![1] = [mem[Behind(sp.area)][sp.depth - 2] EXCEPT !.r0 = <<"zero">>],
                    ![2] = mem[Behind(sp.area)][sp.depth - 1],
                    ![3] = task_stack_kernel]]
  PROVE  /\ c \in Tasks /\ c # current /\ c # "idle" /\ Home(c) = <<"kernel", c>>
         /\ mem'[Home(c)][1] = [mem[Home(current)][1] EXCEPT !.r0 = <<"zero">>]
         /\ mem'[Home(c)][2] = mem[Home(current)][2]
         /\ mem'[Home(c)][3] = task_stack_kernel
         /\ \A t \in Tasks : t # c => mem'[Home(t)] = mem[Home(t)]
         /\ MemShape'
  <1>1. at \in OwnPlaces
    BY Zenon DEF OwnPlaces, SvcPlaces
  <1>2. /\ Own(Now) /\ Behind(sp.area) = Home(current) /\ Home(current) \in Memories
        /\ current \in live /\ \A t \in Tasks : Home(t) \in Memories
    BY Zenon, <1>1, OwnNow
  <1>3. sp.depth = 3
    BY Zenon, <1>2, NowFacts DEF Own, Called
  <1>4. sp.depth - 2 = 1 /\ sp.depth - 1 = 2
    BY <1>3
  <1>5. c \in Tasks /\ c # current /\ c # "idle" /\ c # "init" /\ Home(c) = <<"kernel", c>> /\ c # "kernel"
    BY Zenon, <1>2, CpuAssumption DEF Tasks, Home
  <1> DEFINE h == Home(current)
             f1 == [mem[h][1] EXCEPT !.r0 = <<"zero">>]
             f2 == mem[h][2]
             new == [[i \in 1 .. DEPTH |-> NoFrame] EXCEPT ![1] = f1, ![2] = f2, ![3] = task_stack_kernel]
             old == mem[<<"user", Pgd(current)>>]
             uc == <<"user", c>>
             kc == <<"kernel", c>>
  <1>6. mem' = [mem EXCEPT ![uc] = old, ![kc] = new]
    BY Zenon, <1>2, <1>4
  <1>7. DOMAIN mem = Memories /\ (\A m \in Memories : DOMAIN mem[m] = 1 .. DEPTH)
        /\ (\A m \in Memories, i \in 1 .. DEPTH : DOMAIN mem[m][i] = DOMAIN NoFrame)
    BY Zenon DEF IInv, Shape, MemShape
  <1>8. uc \in Memories /\ kc \in Memories /\ uc # kc /\ <<"user", Pgd(current)>> \in Memories
    BY Zenon DEF Memories, Pgd
  <1>9. /\ DOMAIN new = 1 .. DEPTH /\ new[1] = f1 /\ new[2] = f2 /\ new[3] = task_stack_kernel
        /\ \A i \in 1 .. DEPTH : i \notin {1, 2, 3} => new[i] = NoFrame
    BY DEF DEPTH
  <1>10. /\ DOMAIN f1 = DOMAIN NoFrame /\ DOMAIN f2 = DOMAIN NoFrame
         /\ DOMAIN task_stack_kernel = DOMAIN NoFrame
    <2>1. 1 \in 1 .. DEPTH /\ 2 \in 1 .. DEPTH
      BY DEF DEPTH
    <2>2. DOMAIN mem[h][1] = DOMAIN NoFrame /\ DOMAIN f2 = DOMAIN NoFrame
      BY Zenon, <1>2, <1>7, <2>1
    <2>3. DOMAIN task_stack_kernel = DOMAIN NoFrame
      BY Zenon DEF task_stack_kernel, NoFrame
    <2>4. DOMAIN f1 = DOMAIN mem[h][1]
      BY Zenon
    <2> QED BY Zenon, <2>2, <2>3, <2>4
  <1>11. DOMAIN old = 1 .. DEPTH /\ \A i \in 1 .. DEPTH : DOMAIN old[i] = DOMAIN NoFrame
    BY Zenon, <1>7, <1>8
  <1> HIDE DEF f1, f2, new, old, uc, kc, h
  <1>12. /\ DOMAIN mem' = Memories /\ mem'[kc] = new /\ mem'[uc] = old
         /\ \A m \in Memories : m # uc /\ m # kc => mem'[m] = mem[m]
    BY Zenon, <1>6, <1>7, <1>8
  <1>13. \A t \in Tasks : t # c => Home(t) # uc /\ Home(t) # kc
    BY Zenon, <1>5 DEF Home, uc, kc
  <1>14. \A i \in 1 .. DEPTH : DOMAIN new[i] = DOMAIN NoFrame
    BY <1>9, <1>10, Zenon
  <1>15. MemShape'
    <2>1. \A m \in Memories : DOMAIN mem'[m] = 1 .. DEPTH
      BY Zenon, <1>7, <1>9, <1>11, <1>12
    <2>2. ASSUME NEW m \in Memories, NEW i \in 1 .. DEPTH
          PROVE  DOMAIN mem'[m][i] = DOMAIN NoFrame
      <3>1. CASE m = kc
        BY Zenon, <1>12, <1>14, <3>1
      <3>2. CASE m = uc
        BY Zenon, <1>11, <1>12, <3>2
      <3>3. CASE m # kc /\ m # uc
        <4>1. mem'[m] = mem[m]
          BY Zenon, <1>12, <3>3
        <4> QED BY ZenonT(30), <1>7, <4>1
      <3> QED BY Zenon, <3>1, <3>2, <3>3
    <2> QED BY Zenon, <1>12, <2>1, <2>2 DEF MemShape
  <1>16. mem'[Home(c)] = new
    BY Zenon, <1>5, <1>12 DEF kc
  <1>17. \A t \in Tasks : t # c => mem'[Home(t)] = mem[Home(t)]
    BY Zenon, <1>2, <1>12, <1>13
  <1> QED BY Zenon, <1>5, <1>9, <1>15, <1>16, <1>17 DEF f1, f2, h

\* do_fork() leaves the parent as it is and a child that context_switch() can
\* resume.
LEMMA HandlerForkStep ==
  ASSUME IInv, HandlerFork
  PROVE  Flow'
  <1>1. at = "handler" /\ UNCHANGED <<at, mode, masked, regs, mmu, current, frames_abt, intc>>
    BY Zenon DEF HandlerFork
  <1>2. PICK c \in Forked \ live :
        /\ mem' = [mem EXCEPT
             ![<<"user", c>>] = mem[<<"user", Pgd(current)>>],
             ![<<"kernel", c>>] =
                [[i \in 1 .. DEPTH |-> NoFrame] EXCEPT
                    ![1] = [mem[Behind(sp.area)][sp.depth - 2] EXCEPT !.r0 = <<"zero">>],
                    ![2] = mem[Behind(sp.area)][sp.depth - 1],
                    ![3] = task_stack_kernel]]
        /\ context' = [context EXCEPT ![c] = [sp |-> [area |-> c, depth |-> 3],
                                              sp_usr |-> sp_usr, lr_usr |-> lr.usr]]
        /\ live' = live \cup {c}
        /\ user' = [user EXCEPT ![c] = [of |-> user[current].of, r0 |-> <<"zero">>]]
    BY Zenon DEF HandlerFork
  <1>3. /\ c \in Tasks /\ c # current /\ c # "idle"
        /\ mem'[Home(c)][1] = [mem[Home(current)][1] EXCEPT !.r0 = <<"zero">>]
        /\ mem'[Home(c)][2] = mem[Home(current)][2]
        /\ mem'[Home(c)][3] = task_stack_kernel
        /\ \A t \in Tasks : t # c => mem'[Home(t)] = mem[Home(t)]
    BY Zenon, <1>1, <1>2, ForkFacts
  <1>4. at \in OwnPlaces /\ at' \in Places /\ at \notin UserPlaces /\ at' = at
    BY Zenon, <1>1 DEF Places, OwnPlaces, UserPlaces, SvcPlaces
  <1>5. /\ Running(Now) /\ Own(Now) /\ current \in Tasks /\ ~serving /\ mode = ModeOf(at)
        /\ Home(current) \in Memories /\ current \in live /\ live \in SUBSET Tasks
    BY Zenon, <1>4, OwnNow
  <1>6. sp.depth = 3 /\ InHandler(Now, current, sp_usr, lr.usr)
    BY Zenon, <1>1, <1>5, NowFacts DEF Own, Called
  <1>7. /\ context'[c] = [sp |-> [area |-> c, depth |-> 3], sp_usr |-> sp_usr, lr_usr |-> lr.usr]
        /\ user'[c] = [of |-> user[current].of, r0 |-> <<"zero">>]
        /\ \A t \in Tasks : t # c => context'[t] = context[t] /\ user'[t] = user[t]
    BY Zenon, <1>2, <1>3 DEF IInv, Shape
  <1>8. LET f == mem[Home(current)][1]
            e == mem'[Home(c)][1]
        IN  e.r0 = <<"zero">> /\ e.r1 = f.r1 /\ e.scr = f.scr /\ e.cal = f.cal /\ e.lr = f.lr
    <2> DEFINE f == mem[Home(current)][1]
    <2>1. DOMAIN f = FrameFields
      <3>1. 1 \in 1 .. DEPTH
        BY DEF DEPTH
      <3> QED BY Zenon, <1>5, <3>1, NoFrameFields DEF IInv, Shape, MemShape
    <2> HIDE DEF f
    <2>2. LET e == [f EXCEPT !.r0 = <<"zero">>]
          IN  e.r0 = <<"zero">> /\ e.r1 = f.r1 /\ e.scr = f.scr /\ e.cal = f.cal /\ e.lr = f.lr
      BY Zenon, <2>1 DEF FrameFields
    <2>3. mem'[Home(c)][1] = [f EXCEPT !.r0 = <<"zero">>]
      BY Zenon, <1>3 DEF f
    <2> QED BY Zenon, <2>2, <2>3 DEF f
  <1>9. current # "idle" /\ Exiting(Now, current, sp_usr, lr.usr) /\ Entry(Now, current, sp_usr, lr.usr)
    BY Zenon, <1>6 DEF InHandler, Exiting
  <1>10. Saved(Now', c)
    <2>1. Entry(Now', c, sp_usr, lr.usr)
      <3> DEFINE f == mem[Home(current)][1]
                 e == mem'[Home(c)][1]
      <3>1. /\ e.r0 = <<"zero">> /\ e.r1 = f.r1 /\ e.scr = f.scr /\ e.cal = f.cal /\ e.lr = f.lr
            /\ user'[c].r0 = <<"zero">> /\ user'[c].of = user[current].of
        BY SMTT(30), <1>7, <1>8
      <3>2. \/ f.lr = Addr("user_start")
            \/ /\ f.lr = Addr("returned")
               /\ \A w \in {f.r1, f.scr, f.cal, sp_usr, lr.usr} : w = Val(user[current].of)
        BY Zenon, <1>9, NowFacts DEF Entry
      <3> HIDE DEF f
      <3>3. \/ e.lr = Addr("user_start")
            \/ /\ e.lr = Addr("returned") /\ e.r0 = user'[c].r0
               /\ \A w \in {e.r1, e.scr, e.cal, sp_usr, lr.usr} : w = Val(user'[c].of)
        BY Zenon, <3>1, <3>2
      <3> QED BY Zenon, <1>3, <3>3, NextFacts DEF Entry
    <2>2. mem'[Home(c)][2].spsr = PsrOf(c)
      BY Zenon, <1>3, <1>9, NowFacts DEF Exiting, PsrOf
    <2>3. Exiting(Now', c, sp_usr, lr.usr)
      BY Zenon, <2>1, <2>2, NextFacts DEF Exiting
    <2>4. mem'[Home(c)][3].lr = Addr("exit_pop")
      BY Zenon, <1>3 DEF task_stack_kernel, NoFrame
    <2>5. Returns(Now', c, 2, Addr("exit_pop"), sp_usr, lr.usr)
      BY Zenon, <2>3 DEF Returns
    <2>6. Stacked(Now', c, 3, sp_usr, lr.usr)
      <3>1. 3 \in 2 .. 5 /\ 3 - 1 = 2
        OBVIOUS
      <3> QED BY Zenon, <2>4, <2>5, <3>1, NextFacts DEF Stacked
    <2>7. /\ context'[c].sp.area = c /\ context'[c].sp.depth = 3
          /\ context'[c].sp_usr = sp_usr /\ context'[c].lr_usr = lr.usr
      BY SMTT(30), <1>7
    <2> QED BY Zenon, <2>6, <2>7, NextFacts DEF Saved
  <1>11. SameBelow(Now, Now', c, 0)
    <2>1. \A i \in 1 .. DEPTH : ~(i <= 0)
      BY DEF DEPTH
    <2> QED BY Zenon, <1>3, <2>1, NowFacts, NextFacts DEF SameBelow
  <1>12. AllSaved(Now', live' \ {current})
    <2>1. \A t \in live \ {current} : Saved(Now, t)
      BY Zenon, <1>5, NowFacts DEF Own, AllSaved
    <2>2. \A t \in live : t \in Tasks /\ t # c
      BY Zenon, <1>2, <1>5
    <2>3. \A t \in live : Now'.context[t] = Now.context[t] /\ Now'.user[t] = Now.user[t]
      BY Zenon, <1>7, <2>2, NowFacts, NextFacts
    <2>4. \A t \in live \ {current} : Saved(Now', t)
      BY Zenon, <1>11, <2>1, <2>2, <2>3, SavedKeep
    <2> QED BY Zenon, <1>2, <1>10, <2>4 DEF AllSaved
  <1>13. InHandler(Now', current, sp_usr, lr.usr)
    <2>1. mem'[Home(current)] = mem[Home(current)] /\ user'[current] = user[current]
      BY Zenon, <1>3, <1>5, <1>7
    <2>2. Now'.mem[Home(current)] = Now.mem[Home(current)] /\ Now'.user[current] = Now.user[current]
      BY Zenon, <2>1, NowFacts, NextFacts
    <2> QED BY Zenon, <1>6, <2>2, FramesKeep
  <1>14. Called(Now')
    BY Zenon, <1>1, <1>6, <1>13, NextFacts DEF Called, regs, UserPlaces
  <1>15. Idles(Now') /\ Loads(Now')
    BY Zenon, <1>1, NextFacts, Elsewhere DEF IdlePlaces, LoadPlaces
  <1>16. Own(Now')
    BY ZenonT(30), <1>1, <1>5, <1>12, <1>14, <1>15, NowFacts, NextFacts DEF Own, regs, mmu
  <1>17. Running(Now')
    BY SMTT(30), <1>1, <1>2, <1>4, <1>5, <1>16, NextFacts, PlacesApart DEF Running
  <1> QED BY Zenon, <1>1, <1>4, <1>5, <1>17, Arrives DEF intc

\* scheduler_yield() returns to the system call that called it.
LEMMA HandlerBackStep ==
  ASSUME IInv, HandlerBack
  PROVE  Flow'
  <1>1. /\ at = "handler_back" /\ at' = "handler" /\ lr' = [lr EXCEPT !.svc = Top.lr] /\ Drop
        /\ UNCHANGED <<mode, masked, spsr, sp_usr, mmu, sched, intc, user>>
    BY Zenon DEF HandlerBack, Go
  <1>2. at \in OwnPlaces /\ at' \in OwnPlaces /\ at' \notin UserPlaces /\ at \notin UserPlaces
    BY Zenon, <1>1 DEF OwnPlaces, UserPlaces, SvcPlaces
  <1>3. Own(Now) /\ current \in Tasks /\ ~serving /\ mode = ModeOf(at)
    BY Zenon, <1>2, OwnNow
  <1>4. sp.depth = 4 /\ InHandler(Now, current, sp_usr, lr.usr)
    BY Zenon, <1>1, <1>3, NowFacts DEF Own, Called
  <1>5. /\ sp'.area = sp.area /\ sp'.depth = 3
        /\ mem'[Home(current)][1] = mem[Home(current)][1]
        /\ mem'[Home(current)][2] = mem[Home(current)][2]
        /\ mem'[Home(current)][3] = mem[Home(current)][3]
        /\ \A t \in Tasks, i \in 1 .. DEPTH : t # current => mem'[Home(t)][i] = mem[Home(t)][i]
    <2>1. /\ \A i \in {1, 2, 3} : i \in 1 .. DEPTH /\ i <= sp.depth - 1
          /\ sp.depth - 1 = 3 /\ sp.depth > 0
      BY <1>4 DEF DEPTH
    <2> QED BY Zenon, <1>1, <1>2, <2>1, DropOwn
  <1>6. lr'.usr = lr.usr
    BY Zenon, <1>1 DEF IInv, Shape
  <1>7. InHandler(Now', current, sp_usr, lr.usr)
    BY <1>1, <1>4, <1>5, NowFacts, NextFacts DEF InHandler, Exiting, Entry
  <1>8. Called(Now')
    BY Zenon, <1>1, <1>5, <1>6, <1>7, NextFacts DEF Called, sched, UserPlaces
  <1>9. Idles(Now') /\ Loads(Now')
    BY Zenon, <1>1, NextFacts, Elsewhere DEF IdlePlaces, LoadPlaces
  <1>10. mode' = ModeOf(at') /\ ~serving'
    BY Zenon, <1>1, <1>2, <1>3 DEF ModeOf, intc
  <1> QED BY Zenon, <1>1, <1>2, <1>5, <1>8, <1>9, <1>10, OwnArrives DEF mmu, sched

\* The mode to return to is in r0.
LEMMA ExitPopStep ==
  ASSUME IInv, exit_pop
  PROVE  Flow'
  <1>1. /\ at = "exit_pop" /\ at' = "exit_msr" /\ g' = [g EXCEPT !.r0 = Top.spsr, !.r1 = Top.r1] /\ Drop
        /\ UNCHANGED <<mode, masked, lr, spsr, sp_usr, mmu, sched, intc, user>>
    BY Zenon DEF exit_pop, Go
  <1>2. at \in OwnPlaces /\ at' \in OwnPlaces /\ at' \notin UserPlaces /\ at \notin UserPlaces
    BY Zenon, <1>1 DEF OwnPlaces, UserPlaces, ExitPlaces
  <1>3. Own(Now) /\ current \in Tasks /\ ~serving /\ mode = ModeOf(at)
    BY Zenon, <1>2, OwnNow
  <1>4. sp.depth = 2 /\ Exiting(Now, current, sp_usr, lr.usr)
    BY Zenon, <1>1, <1>3, NowFacts DEF Own, Called
  <1>5. /\ sp'.area = sp.area /\ sp'.depth = 1
        /\ mem'[Home(current)][1] = mem[Home(current)][1]
        /\ Top = mem[Home(current)][2]
        /\ \A t \in Tasks, i \in 1 .. DEPTH : t # current => mem'[Home(t)][i] = mem[Home(t)][i]
    <2>1. 1 \in 1 .. DEPTH /\ 1 <= sp.depth - 1 /\ sp.depth - 1 = 1 /\ sp.depth > 0
      BY <1>4 DEF DEPTH
    <2> QED BY Zenon, <1>1, <1>2, <1>4, <2>1, DropOwn
  <1>6. g'.r0 = PsrOf(current)
    <2>1. Top.spsr = PsrOf(current)
      BY Zenon, <1>4, <1>5, NowFacts DEF Exiting
    <2> QED BY Zenon, <1>1, <2>1 DEF IInv, Shape
  <1>7. Entry(Now', current, sp_usr, lr.usr)
    BY SMTT(30), <1>1, <1>4, <1>5, NowFacts, NextFacts DEF Exiting, Entry
  <1>8. Called(Now')
    BY Zenon, <1>1, <1>5, <1>6, <1>7, NextFacts DEF Called, sched, UserPlaces
  <1>9. Idles(Now') /\ Loads(Now')
    BY Zenon, <1>1, NextFacts, Elsewhere DEF IdlePlaces, LoadPlaces
  <1>10. mode' = ModeOf(at') /\ ~serving'
    BY Zenon, <1>1, <1>2, <1>3 DEF ModeOf, intc
  <1> QED BY Zenon, <1>1, <1>2, <1>5, <1>8, <1>9, <1>10, OwnArrives DEF mmu, sched

\* The mode to return to is in SPSR.
LEMMA ExitMsrStep ==
  ASSUME IInv, exit_msr
  PROVE  Flow'
  <1>1. /\ at = "exit_msr" /\ at' = "exit_return" /\ spsr' = [spsr EXCEPT !.svc = g.r0]
        /\ UNCHANGED <<mode, masked, g, lr, sp, sp_usr, mmu, mem, sched, intc, user>>
    BY Zenon DEF exit_msr, Go
  <1>2. at \in OwnPlaces /\ at' \in OwnPlaces /\ at' \notin UserPlaces /\ at \notin UserPlaces
    BY Zenon, <1>1 DEF OwnPlaces, UserPlaces, ExitPlaces
  <1>3. Own(Now) /\ current \in Tasks /\ ~serving /\ mode = ModeOf(at)
    BY Zenon, <1>2, OwnNow
  <1>4. sp.depth = 1 /\ Entry(Now, current, sp_usr, lr.usr) /\ g.r0 = PsrOf(current)
    BY Zenon, <1>1, <1>3, NowFacts DEF Own, Called
  <1>5. spsr'.svc = PsrOf(current)
    BY Zenon, <1>1, <1>4 DEF IInv, Shape
  <1>6. Entry(Now', current, sp_usr, lr.usr)
    BY <1>1, <1>4, NowFacts, NextFacts DEF Entry
  <1>7. Called(Now')
    BY Zenon, <1>1, <1>4, <1>5, <1>6, NextFacts DEF Called, sched, UserPlaces
  <1>8. Idles(Now') /\ Loads(Now')
    BY Zenon, <1>1, NextFacts, Elsewhere DEF IdlePlaces, LoadPlaces
  <1>9. mode' = ModeOf(at') /\ ~serving'
    BY Zenon, <1>1, <1>2, <1>3 DEF ModeOf, intc
  <1> QED BY Zenon, <1>1, <1>2, <1>7, <1>8, <1>9, OwnArrives DEF mmu, sched

\* The program, or the idle loop, goes on with the registers of the frame.
LEMMA ExitReturnStep ==
  ASSUME IInv, exit_return
  PROVE  Flow'
  <1>1. /\ at = "exit_return" /\ JumpTo(Top.lr) /\ g' = [r \in DOMAIN g |-> Top[r]] /\ Drop
        /\ mode' = IF spsr.svc[1] = "psr" THEN spsr.svc[2] ELSE mode
        /\ masked' = (spsr.svc[1] = "psr" /\ spsr.svc[3] = "masked")
        /\ UNCHANGED <<lr, spsr, sp_usr, mmu, sched, intc, user>>
    BY Zenon DEF exit_return
  <1>2. at \in OwnPlaces
    BY Zenon, <1>1 DEF OwnPlaces, ExitPlaces
  <1>3. Own(Now) /\ current \in Tasks /\ ~serving
    BY Zenon, <1>2, OwnNow
  <1>4. sp.depth = 1 /\ Entry(Now, current, sp_usr, lr.usr) /\ spsr.svc = PsrOf(current)
    BY Zenon, <1>1, <1>3, NowFacts DEF Own, Called
  <1>5. /\ sp'.area = sp.area /\ sp'.depth = 0 /\ Top = mem[Home(current)][1]
        /\ \A t \in Tasks, i \in 1 .. DEPTH : t # current => mem'[Home(t)][i] = mem[Home(t)][i]
    <2>1. sp.depth - 1 = 0 /\ sp.depth > 0
      BY <1>4
    <2> QED BY Zenon, <1>1, <1>2, <1>4, <2>1, DropOwn
  <1>6. mode' = (IF current = "idle" THEN "svc" ELSE "usr") /\ ~masked'
    <2> DEFINE m == IF current = "idle" THEN "svc" ELSE "usr"
    <2>1. spsr.svc = Psr(m, FALSE)
      BY Zenon, <1>4 DEF PsrOf
    <2> HIDE DEF m
    <2>2. spsr.svc = <<"psr", m, "open">>
      BY Zenon, <2>1 DEF Psr
    <2>3. mode' = m /\ ~masked'
      <3>1. spsr.svc[1] = "psr" /\ spsr.svc[2] = m /\ spsr.svc[3] = "open"
        BY SMTT(30), <2>2
      <3> QED BY Zenon, <1>1, <3>1
    <2> QED BY Zenon, <2>3 DEF m
  <1>7. g'.r0 = Top.r0 /\ g'.r1 = Top.r1 /\ g'.scr = Top.scr /\ g'.cal = Top.cal
    <2>1. DOMAIN g = {"r0", "r1", "scr", "cal"}
      BY Zenon DEF IInv, Shape
    <2> QED BY Zenon, <1>1, <2>1
  <1>8. CASE current = "idle"
    <2>1. at' = "idle_start"
      BY Zenon, <1>1, <1>4, <1>5, <1>8, Jumps, NowFacts DEF Entry
    <2>2. Idles(Now')
      BY Zenon, <1>1, <1>5, <1>8, <2>1, NextFacts DEF Idles, IdlePlaces, sched
    <2>3. Called(Now') /\ Loads(Now')
      BY Zenon, <2>1, NextFacts, Elsewhere DEF UserPlaces, SvcPlaces, ExitPlaces, LoadPlaces
    <2>4. at' \in OwnPlaces /\ mode' = ModeOf(at') /\ at' \notin UserPlaces
      BY Zenon, <1>6, <1>8, <2>1 DEF OwnPlaces, IdlePlaces, ModeOf, UserPlaces
    <2> QED BY Zenon, <1>1, <1>2, <1>3, <1>5, <2>2, <2>3, <2>4, OwnArrives DEF mmu, sched, intc
  <1>9. CASE current # "idle"
    <2>1. \/ at' = "user_start"
          \/ at' = "returned" /\ Registers(Now')
      <3>1. CASE Top.lr = Addr("user_start")
        BY Zenon, <1>1, <3>1, Jumps
      <3>2. CASE /\ Top.lr = Addr("returned") /\ Top.r0 = user[current].r0
                 /\ \A w \in {Top.r1, Top.scr, Top.cal, sp_usr, lr.usr} : w = Val(user[current].of)
        <4>1. at' = "returned"
          BY Zenon, <1>1, <3>2, Jumps
        <4>2. Registers(Now')
          BY Zenon, <1>1, <1>7, <3>2, NextFacts DEF Registers, sched
        <4> QED BY Zenon, <4>1, <4>2
      <3> QED BY Zenon, <1>4, <1>5, <1>9, <3>1, <3>2, NowFacts DEF Entry
    <2>2. Called(Now')
      BY Zenon, <1>1, <1>5, <1>9, <2>1, NextFacts DEF Called, UserPlaces, sched
    <2>3. Idles(Now') /\ Loads(Now')
      BY Zenon, <2>1, NextFacts, Elsewhere DEF IdlePlaces, LoadPlaces
    <2>4. at' \in OwnPlaces /\ mode' = ModeOf(at')
      BY Zenon, <1>6, <1>9, <2>1 DEF OwnPlaces, ModeOf, UserPlaces
    <2> QED BY Zenon, <1>1, <1>2, <1>3, <1>5, <1>6, <2>2, <2>3, <2>4, OwnArrives DEF mmu, sched, intc
  <1> QED BY Zenon, <1>8, <1>9

-----------------------------------------------------------------------------
(* Into context_switch() *)

\* The frame of scheduler_yield() is the only one that is new.
LEMMA SwitchPush ==
  ASSUME IInv, at \in OwnPlaces, NEW t, NEW back, CallSwitch(t, back)
  PROVE  /\ sp'.area = current /\ sp'.depth = sp.depth + 1
         /\ mem'[Home(current)][sp.depth + 1].cal = g.cal
         /\ \A i \in 1 .. DEPTH : i <= sp.depth => mem'[Home(current)][i] = mem[Home(current)][i]
         /\ \A s \in Tasks, i \in 1 .. DEPTH : s # current => mem'[Home(s)][i] = mem[Home(s)][i]
         /\ g'.r0 = Val(current) /\ g'.r1 = Val(t)
         /\ lr'.svc = Addr(back) /\ lr'.usr = lr.usr
         /\ at' = "switch_save" /\ current' = t
  <1> DEFINE f == [NoFrame EXCEPT !.cal = g.cal, !.lr = lr.svc]
  <1>1. /\ at' = "switch_save" /\ Push(f) /\ lr' = [lr EXCEPT !.svc = Addr(back)]
        /\ g' = [r0 |-> Val(current), r1 |-> Val(t), scr |-> Junk, cal |-> Junk] /\ current' = t
    BY Zenon DEF CallSwitch
  <1>2. DOMAIN f = DOMAIN NoFrame /\ f.cal = g.cal
    BY Zenon DEF NoFrame
  <1> HIDE DEF f
  <1>3. sp.area = current
    BY Zenon, OwnNow
  <1>4. /\ sp'.area = sp.area /\ sp'.depth = sp.depth + 1
        /\ mem'[Home(current)][sp.depth + 1] = f
        /\ \A i \in 1 .. DEPTH : i <= sp.depth => mem'[Home(current)][i] = mem[Home(current)][i]
        /\ \A s \in Tasks, i \in 1 .. DEPTH :
              s # current \/ i <= sp.depth => mem'[Home(s)][i] = mem[Home(s)][i]
    BY Zenon, <1>1, <1>2, PushOwn
  <1>5. lr'.svc = Addr(back) /\ lr'.usr = lr.usr
    BY Zenon, <1>1 DEF IInv, Shape
  <1>6. g'.r0 = Val(current) /\ g'.r1 = Val(t)
    BY Zenon, <1>1
  <1> QED BY Zenon, <1>1, <1>2, <1>3, <1>4, <1>5, <1>6

\* The task that is left can be resumed at the return address, or is a zombie.
LEMMA SwitchCalled ==
  ASSUME IInv, at \in OwnPlaces, NEW t \in live \ {current}, NEW back, CallSwitch(t, back),
         sp.depth <= 3, mode' = "svc", UNCHANGED <<serving, ttbr, tlb, context, user>>,
         live' \in {live, live \ {current}},
         current \in live' => Returns(Now', current, sp.depth + 1, Addr(back), sp_usr', lr.usr)
  PROVE  Flow'
  <1>1. /\ Running(Now) /\ Own(Now) /\ ~serving /\ sp.area = current
        /\ ttbr = Pgd(current) /\ tlb = ttbr
        /\ current \in live /\ current \in Tasks /\ live \in SUBSET Tasks /\ sp.depth \in 0 .. 5
    BY Zenon, OwnNow
  <1>2. /\ sp'.area = current /\ sp'.depth = sp.depth + 1
        /\ \A s \in Tasks, i \in 1 .. DEPTH : s # current => mem'[Home(s)][i] = mem[Home(s)][i]
        /\ g'.r0 = Val(current) /\ g'.r1 = Val(t)
        /\ lr'.svc = Addr(back) /\ lr'.usr = lr.usr
        /\ at' = "switch_save" /\ current' = t
    BY Zenon, SwitchPush
  <1>3. SameBelow(Now, Now', current, 0)
    <2>1. \A i \in 1 .. DEPTH : ~(i <= 0)
      BY SMTT(30) DEF DEPTH
    <2> QED BY Zenon, <1>2, <2>1, NowFacts, NextFacts DEF SameBelow
  <1>4. AllSaved(Now', live' \ {current})
    <2>1. \A s \in live \ {current} : Saved(Now, s)
      BY Zenon, <1>1, NowFacts DEF Own, AllSaved
    <2>2. \A s \in Tasks : Now'.context[s] = Now.context[s] /\ Now'.user[s] = Now.user[s]
      BY Zenon, NowFacts, NextFacts
    <2>3. \A s \in live \ {current} : Saved(Now', s)
      BY ZenonT(30), <1>1, <1>3, <2>1, <2>2, SavedKeep
    <2> QED BY Zenon, <2>3 DEF AllSaved
  <1>5. sp'.depth \in 1 .. 5 /\ sp'.depth <= 4
    BY SMTT(30), <1>1, <1>2
  <1>6. at' \in LeavePlaces /\ at' \notin MidPlaces
    BY Zenon, <1>2 DEF LeavePlaces, MidPlaces
  <1>7. Leaving(Now')
    BY ZenonT(30), <1>1, <1>2, <1>4, <1>5, <1>6, NextFacts DEF Leaving, MidPlaces
  <1>8. Running(Now')
    <2>1. t \in live'
      BY Zenon
    <2> QED BY Zenon, <1>2, <1>6, <1>7, <2>1, NextFacts, PlacesApart DEF Running
  <1>9. at' \in Places /\ mode' = ModeOf(at') /\ at' \notin UserPlaces
    BY Zenon, <1>2 DEF Places, LeavePlaces, ModeOf, UserPlaces
  <1> QED BY Zenon, <1>1, <1>8, <1>9, Arrives

\* The idle loop sets up its registers.
LEMMA IdleComputeStep ==
  ASSUME IInv, IdleCompute
  PROVE  Flow'
  <1>1. /\ at = "idle_start" /\ at' = "idle" /\ g' = [r \in DOMAIN g |-> Val("idle")]
        /\ UNCHANGED <<mode, masked, lr, spsr, sp, sp_usr, mmu, mem, sched, intc, user>>
    BY Zenon DEF IdleCompute, Go
  <1>2. at \in OwnPlaces /\ at' \in OwnPlaces /\ at' \notin UserPlaces /\ at \notin UserPlaces
    BY Zenon, <1>1 DEF OwnPlaces, UserPlaces, IdlePlaces
  <1>3. Own(Now) /\ current \in Tasks /\ ~serving /\ mode = ModeOf(at)
    BY Zenon, <1>2, OwnNow
  <1>4. sp.depth = 0 /\ current = "idle"
    BY Zenon, <1>1, <1>3, NowFacts DEF Own, Idles, IdlePlaces
  <1>5. g'.cal = Val("idle")
    BY Zenon, <1>1 DEF IInv, Shape
  <1>6. Idles(Now')
    BY Zenon, <1>1, <1>4, <1>5, NextFacts DEF Idles, sched
  <1>7. Called(Now') /\ Loads(Now')
    BY Zenon, <1>1, NextFacts, Elsewhere DEF UserPlaces, SvcPlaces, ExitPlaces, LoadPlaces
  <1>8. mode' = ModeOf(at') /\ ~serving'
    BY Zenon, <1>1, <1>2, <1>3 DEF ModeOf, intc
  <1> QED BY Zenon, <1>1, <1>2, <1>6, <1>7, <1>8, OwnArrives DEF mmu, sched

\* The idle loop leaves its registers in its frame.
LEMMA IdleYieldStep ==
  ASSUME IInv, IdleYield
  PROVE  Flow'
  <1>1. /\ at = "idle"
        /\ UNCHANGED <<mode, masked, spsr, sp_usr, mmu, context, live, frames_abt, intc, user>>
    BY Zenon DEF IdleYield
  <1>2. at \in OwnPlaces /\ mode = ModeOf(at) => mode = "svc"
    BY Zenon, <1>1 DEF OwnPlaces, IdlePlaces, ModeOf, UserPlaces
  <1>3. at \in OwnPlaces
    BY Zenon, <1>1 DEF OwnPlaces, IdlePlaces
  <1>4. Own(Now) /\ mode = "svc"
    BY Zenon, <1>2, <1>3, OwnNow
  <1>5. sp.depth = 0 /\ current = "idle" /\ g.cal = Val("idle")
    BY Zenon, <1>1, <1>4, NowFacts DEF Own, Idles, IdlePlaces
  <1>6. PICK t \in live \ {current} : CallSwitch(t, "idle_back")
    BY Zenon, <1>5 DEF IdleYield
  <1>7. mem'[Home(current)][1].cal = g.cal
    <2>1. sp.depth + 1 = 1
      BY SMTT(30), <1>5
    <2> QED BY Zenon, <1>3, <1>6, <2>1, SwitchPush
  <1>8. Returns(Now', current, sp.depth + 1, Addr("idle_back"), sp_usr', lr.usr)
    <2>1. sp.depth + 1 = 1
      BY SMTT(30), <1>5
    <2>2. Now'.mem[Home(current)][1].cal = Val("idle")
      BY Zenon, <1>5, <1>7, NextFacts
    <2> QED BY Zenon, <1>5, <2>1, <2>2 DEF Returns
  <1>9. sp.depth <= 3
    BY SMTT(30), <1>5
  <1> QED BY Zenon, <1>1, <1>3, <1>4, <1>6, <1>8, <1>9, SwitchCalled DEF mmu, intc

\* A system call that gives up the CPU leaves its return address in its frame.
LEMMA HandlerYieldStep ==
  ASSUME IInv, HandlerYield
  PROVE  Flow'
  <1>1. /\ at = "handler"
        /\ UNCHANGED <<mode, masked, spsr, sp_usr, mmu, context, live, frames_abt, intc, user>>
    BY Zenon DEF HandlerYield
  <1>2. at \in OwnPlaces /\ mode = ModeOf(at) => mode = "svc"
    BY Zenon, <1>1 DEF OwnPlaces, SvcPlaces, ModeOf, UserPlaces
  <1>3. at \in OwnPlaces
    BY Zenon, <1>1 DEF OwnPlaces, SvcPlaces
  <1>4. Own(Now) /\ mode = "svc" /\ current \in Tasks
    BY Zenon, <1>2, <1>3, OwnNow
  <1>5. sp.depth = 3 /\ InHandler(Now, current, sp_usr, lr.usr)
    BY Zenon, <1>1, <1>4, NowFacts DEF Own, Called
  <1>6. PICK t \in live \ {current} : CallSwitch(t, "handler_back")
    BY Zenon DEF HandlerYield
  <1>7. /\ mem'[Home(current)][1] = mem[Home(current)][1]
        /\ mem'[Home(current)][2] = mem[Home(current)][2]
        /\ mem'[Home(current)][3] = mem[Home(current)][3]
    <2>1. \A i \in {1, 2, 3} : i \in 1 .. DEPTH /\ i <= sp.depth
      BY SMTT(30), <1>5 DEF DEPTH
    <2> QED BY Zenon, <1>3, <1>6, <2>1, SwitchPush
  <1>8. InHandler(Now', current, sp_usr, lr.usr)
    <2>1. /\ Now'.user[current] = Now.user[current]
          /\ Now'.mem[Home(current)][1] = Now.mem[Home(current)][1]
          /\ Now'.mem[Home(current)][2] = Now.mem[Home(current)][2]
          /\ Now'.mem[Home(current)][3] = Now.mem[Home(current)][3]
      BY Zenon, <1>1, <1>7, NowFacts, NextFacts
    <2> QED BY Zenon, <1>5, <2>1, FramesKeep
  <1>9. Returns(Now', current, sp.depth + 1, Addr("handler_back"), sp_usr', lr.usr)
    <2>1. sp.depth + 1 = 4 /\ sp_usr' = sp_usr
      BY <1>1, <1>5
    <2> QED BY Zenon, <1>8, <2>1 DEF Returns
  <1>10. sp.depth <= 3
    BY SMTT(30), <1>5
  <1> QED BY Zenon, <1>1, <1>3, <1>4, <1>6, <1>9, <1>10, SwitchCalled DEF mmu, intc

\* do_exit() of a task that faulted: nothing is asked of its stack any more.
LEMMA UserAbortStep ==
  ASSUME IInv, UserAbort
  PROVE  Flow'
  <1>1. /\ at = "user" /\ mode' = "svc" /\ live' = live \ {current}
        /\ UNCHANGED <<spsr, sp_usr, mmu, context, intc, user>>
    BY Zenon DEF UserAbort
  <1>2. at \in OwnPlaces
    BY Zenon, <1>1 DEF OwnPlaces, UserPlaces
  <1>3. Own(Now)
    BY Zenon, <1>2, OwnNow
  <1>4. sp.depth = 0
    BY Zenon, <1>1, <1>3, NowFacts DEF Own, Called, UserPlaces
  <1>5. PICK t \in live \ {current} : CallSwitch(t, "dead")
    BY Zenon DEF UserAbort
  <1>6. sp.depth <= 3 /\ current \notin live'
    BY SMTT(30), <1>1, <1>4
  <1> QED BY Zenon, <1>1, <1>2, <1>5, <1>6, SwitchCalled DEF mmu, intc

\* The idle loop finds no other task.
LEMMA IdleAloneStep ==
  ASSUME IInv, IdleAlone
  PROVE  Flow'
  <1>1. at = "idle" /\ UNCHANGED <<at, mode, masked, regs, mmu, mem, context, current, live, intc, user>>
    BY Zenon DEF IdleAlone
  <1>2. at \in OwnPlaces /\ at \notin UserPlaces
    BY Zenon, <1>1 DEF OwnPlaces, IdlePlaces, UserPlaces
  <1>3. Running(Now) /\ mode = ModeOf(at) /\ ~serving
    BY Zenon, <1>2, OwnNow
  <1>4. Now' = Now
    BY Zenon, <1>1 DEF Now, View, regs, mmu
  <1>5. at' \in Places /\ mode' = ModeOf(at') /\ ~serving' /\ at' \notin UserPlaces
    BY Zenon, <1>1, <1>2, <1>3, PlacesApart DEF intc
  <1> QED BY Zenon, <1>3, <1>4, <1>5, Arrives

\* scheduler_yield() returns to the idle loop.
LEMMA IdleBackStep ==
  ASSUME IInv, IdleBack
  PROVE  Flow'
  <1>1. /\ at = "idle_back" /\ at' = "idle" /\ Drop
        /\ g' = [r0 |-> Val("idle"), r1 |-> Val("idle"), scr |-> Val("idle"), cal |-> Top.cal]
        /\ UNCHANGED <<mode, masked, spsr, sp_usr, mmu, sched, intc, user>>
    BY Zenon DEF IdleBack, Go
  <1>2. at \in OwnPlaces /\ at' \in OwnPlaces /\ at' \notin UserPlaces /\ at \notin UserPlaces
    BY Zenon, <1>1 DEF OwnPlaces, UserPlaces, IdlePlaces
  <1>3. Own(Now) /\ current \in Tasks /\ ~serving /\ mode = ModeOf(at)
    BY Zenon, <1>2, OwnNow
  <1>4. sp.depth = 1 /\ current = "idle" /\ mem[Home(current)][1].cal = Val("idle")
    BY Zenon, <1>1, <1>3, NowFacts DEF Own, Idles, IdlePlaces
  <1>5. /\ sp'.area = sp.area /\ sp'.depth = 0 /\ Top = mem[Home(current)][1]
        /\ \A t \in Tasks, i \in 1 .. DEPTH : t # current => mem'[Home(t)][i] = mem[Home(t)][i]
    <2>1. sp.depth - 1 = 0 /\ sp.depth > 0
      BY SMTT(30), <1>4
    <2> QED BY Zenon, <1>1, <1>2, <1>4, <2>1, DropOwn
  <1>6. g'.cal = Val("idle")
    BY Zenon, <1>1, <1>4, <1>5
  <1>7. Idles(Now')
    BY Zenon, <1>1, <1>4, <1>5, <1>6, NextFacts DEF Idles, sched
  <1>8. Called(Now') /\ Loads(Now')
    BY Zenon, <1>1, NextFacts, Elsewhere DEF UserPlaces, SvcPlaces, ExitPlaces, LoadPlaces
  <1>9. mode' = ModeOf(at') /\ ~serving'
    BY Zenon, <1>1, <1>2, <1>3 DEF ModeOf, intc
  <1> QED BY Zenon, <1>1, <1>2, <1>5, <1>7, <1>8, <1>9, OwnArrives DEF mmu, sched

\* The end of the kernel.
LEMMA HaltStep ==
  ASSUME IInv, at' = "halted"
  PROVE  Flow'
  BY Zenon DEF Flow, Places, OwnPlaces, UserPlaces, SvcPlaces, ExitPlaces, IdlePlaces, LoadPlaces,
         LeavePlaces, MidPlaces, IrqPlaces

-----------------------------------------------------------------------------
(* context_switch() and start_first_task() *)

\* What the invariant says while the previous task is on its stack.
LEMMA LeaveNow ==
  ASSUME IInv, at \in LeavePlaces \cup MidPlaces
  PROVE  /\ Leaving(Now) /\ mode = ModeOf(at) /\ ~serving /\ at \notin UserPlaces
         /\ sp.area \in Tasks /\ sp.area # current /\ current \in live /\ current \in Tasks
         /\ live \in SUBSET Tasks /\ sp.depth \in 1 .. 5
         /\ g.r0 = Val(sp.area) /\ g.r1 = Val(current) /\ g.r0[2] = sp.area /\ Resumed = current
         /\ \A t \in live \ {sp.area} : Saved(Now, t)
         /\ at \in LeavePlaces => Behind(sp.area) = Home(sp.area) /\ tlb = ttbr
  <1>1. at \in Places
    BY Zenon, PlacesApart
  <1>2. Running(Now) /\ mode = ModeOf(at) /\ ~serving
    BY Zenon, <1>1 DEF IInv, Flow, Now
  <1>3. Leaving(Now)
    BY Zenon, <1>2, NowFacts DEF Running
  <1>4. /\ sp.area \in Tasks /\ sp.area # current /\ sp.depth \in 1 .. 5
        /\ g.r0 = Val(sp.area) /\ g.r1 = Val(current)
        /\ \A t \in live \ {sp.area} : Saved(Now, t)
    BY Zenon, <1>3, NowFacts DEF Leaving, AllSaved
  <1>5. current \in live /\ live \in SUBSET Tasks /\ current \in Tasks
    BY Zenon, <1>2, NowFacts DEF Running, IInv, Shape
  <1>6. g.r0[2] = sp.area /\ Resumed = current
    BY SMTT(30), <1>4 DEF Resumed, Val
  <1>7. ASSUME at \in LeavePlaces PROVE Behind(sp.area) = Home(sp.area) /\ tlb = ttbr
    <2>1. ttbr = Pgd(sp.area) /\ tlb = ttbr
      BY Zenon, <1>3, <1>7, NowFacts DEF Leaving
    <2>2. sp.area # "init" \/ tlb = "kernel"
      BY Zenon, <2>1, CpuAssumption DEF Pgd
    <2> QED BY Zenon, <1>4, <2>1, <2>2, Apart DEF IInv, Shape
  <1>8. at \notin UserPlaces
    BY Zenon DEF LeavePlaces, MidPlaces, UserPlaces
  <1> QED BY Zenon, <1>2, <1>3, <1>4, <1>5, <1>6, <1>7, <1>8

\* The task that is to run next and all others wait in their task_structs.
LEMMA LeaveOthers ==
  ASSUME IInv, at \in LeavePlaces \cup MidPlaces,
         UNCHANGED <<user, live>>, sp'.area = sp.area,
         \A t \in Tasks \ {sp.area} : context'[t] = context[t],
         \A t \in Tasks, i \in 1 .. DEPTH : t # sp.area => mem'[Home(t)][i] = mem[Home(t)][i]
  PROVE  AllSaved(Now', Now'.live \ {Now'.area})
  <1>1. live \in SUBSET Tasks /\ \A t \in live \ {sp.area} : Saved(Now, t)
    BY Zenon, LeaveNow
  <1>2. SameBelow(Now, Now', sp.area, 0)
    <2>1. \A i \in 1 .. DEPTH : ~(i <= 0)
      BY SMTT(30) DEF DEPTH
    <2> QED BY Zenon, <2>1, NowFacts, NextFacts DEF SameBelow
  <1>3. \A t \in live \ {sp.area} : Now'.context[t] = Now.context[t] /\ Now'.user[t] = Now.user[t]
    BY Zenon, <1>1, NowFacts, NextFacts
  <1>4. \A t \in live \ {sp.area} : Saved(Now', t)
    BY Zenon, <1>1, <1>2, <1>3, SavedKeep
  <1> QED BY Zenon, <1>4, NextFacts DEF AllSaved

\* The next instruction of context_switch().
LEMMA LeaveArrives ==
  ASSUME IInv, at \in LeavePlaces \cup MidPlaces, at' \in LeavePlaces \cup MidPlaces,
         mode' = ModeOf(at'), UNCHANGED <<serving, current, live>>, Leaving(Now')
  PROVE  Flow'
  <1>1. ~serving /\ current \in live
    BY Zenon, LeaveNow
  <1>2. Running(Now')
    BY Zenon, <1>1, NextFacts, PlacesApart DEF Running
  <1>3. at' \in Places /\ at' \notin UserPlaces
    BY Zenon, PlacesApart DEF LeavePlaces, MidPlaces, UserPlaces
  <1> QED BY Zenon, <1>1, <1>2, <1>3, Arrives

\* An instruction that changes no more than the mode.
LEMMA LeaveQuiet ==
  ASSUME IInv, at \in {"switch_sys", "switch_svc"},
         at' = (IF at = "switch_sys" THEN "switch_usr" ELSE "switch_ttbr"),
         mode' = (IF at = "switch_sys" THEN "sys" ELSE "svc"),
         UNCHANGED <<regs, mmu, mem, sched, intc, user>>
  PROVE  Flow'
  <1>1. at \in LeavePlaces /\ at' \in LeavePlaces /\ mode' = ModeOf(at')
    BY Zenon DEF LeavePlaces, ModeOf, UserPlaces
  <1>2. Leaving(Now) /\ sp.area \in Tasks
    BY Zenon, <1>1, LeaveNow
  <1>3. AllSaved(Now', Now'.live \ {Now'.area})
    BY Zenon, <1>1, LeaveOthers DEF sched, regs
  <1>4. Stacked(Now, sp.area, sp.depth, sp_usr, lr.usr) => Stacked(Now', sp.area, sp.depth, sp_usr, lr.usr)
    BY Zenon, FramesStay
  <1>5. Saved(Now, sp.area) => Saved(Now', sp.area)
    BY Zenon, FramesStay DEF sched
  <1>6. Leaving(Now')
    <2>1. /\ sp.area \in Tasks \ {current} /\ sp.depth \in 1 .. 5
          /\ g.r0 = Val(sp.area) /\ g.r1 = Val(current) /\ ttbr = Pgd(sp.area) /\ tlb = ttbr
          /\ context[sp.area].sp = [area |-> sp.area, depth |-> sp.depth]
          /\ sp.area \in live /\ at = "switch_sys" => Stacked(Now, sp.area, sp.depth, sp_usr, lr.usr)
          /\ sp.area \in live /\ at = "switch_svc" => Saved(Now, sp.area)
      BY Zenon, <1>1, <1>2, NowFacts DEF Leaving
    <2> DEFINE w == Now'
    <2>2. /\ w.at = at' /\ w.area = sp.area /\ w.current = current /\ w.d = sp.depth /\ w.r = g
          /\ w.ttbr = ttbr /\ w.tlb = tlb /\ w.su = sp_usr /\ w.lu = lr.usr
      BY Zenon, NextFacts DEF regs, mmu, sched
    <2>3. w.context = context /\ w.live = live
      BY Zenon, NextFacts DEF sched
    <2>4. w.at \in {"switch_usr", "switch_ttbr"} /\ w.at \notin MidPlaces
      BY Zenon, <2>2 DEF MidPlaces
    <2>5. /\ w.area \in w.live /\ w.at = "switch_usr" => Stacked(w, w.area, w.d, w.su, w.lu)
          /\ w.area \in w.live /\ w.at = "switch_ttbr" => Saved(w, w.area)
      BY Zenon, <1>4, <1>5, <2>1, <2>2, <2>3
    <2>6. /\ w.area \in Tasks \ {w.current} /\ w.d \in 1 .. 5
          /\ w.r.r0 = Val(w.area) /\ w.r.r1 = Val(w.current) /\ w.ttbr = Pgd(w.area) /\ w.tlb = w.ttbr
          /\ w.context[w.area].sp = [area |-> w.area, depth |-> w.d]
      BY Zenon, <2>1, <2>2, <2>3
    <2>7. AllSaved(w, w.live \ {w.area})
      BY Zenon, <1>3
    <2> HIDE DEF w
    <2>8. Leaving(w)
      BY Zenon, <2>4, <2>5, <2>6, <2>7 DEF Leaving
    <2> QED BY Zenon, <2>8 DEF w
  <1> QED BY Zenon, <1>1, <1>6, LeaveArrives DEF intc, sched

\* push {r4-r11, lr}: the return address is on top of the stack.
LEMMA SwitchSaveStep ==
  ASSUME IInv, switch_save
  PROVE  Flow'
  <1> DEFINE f == [NoFrame EXCEPT !.cal = g.cal, !.lr = lr.svc]
             a == sp.area
  <1>1. /\ at = "switch_save" /\ at' = "switch_sp" /\ Push(f)
        /\ UNCHANGED <<mode, masked, g, lr, spsr, sp_usr, mmu, sched, intc, user>>
    BY Zenon DEF switch_save, Go
  <1>2. at \in LeavePlaces /\ at' \in LeavePlaces
    BY Zenon, <1>1 DEF LeavePlaces
  <1>3. /\ Leaving(Now) /\ mode = ModeOf(at) /\ a \in Tasks /\ Behind(a) = Home(a)
        /\ sp.depth \in 1 .. 5
    BY Zenon, <1>2, LeaveNow
  <1>4. sp.depth \in 1 .. 4 /\ sp.depth < DEPTH
    BY SMTT(30), <1>1, <1>3, NowFacts DEF Leaving, DEPTH
  <1>5. DOMAIN f = DOMAIN NoFrame /\ f.lr = lr.svc
    BY Zenon DEF NoFrame
  <1> HIDE DEF f
  <1>6. /\ sp'.area = a /\ sp'.depth = sp.depth + 1 /\ mem'[Home(a)][sp.depth + 1] = f
        /\ \A m \in Memories, i \in 1 .. DEPTH :
              m # Behind(sp.area) \/ i # sp.depth + 1 => mem'[m][i] = mem[m][i]
    BY Zenon, <1>1, <1>3, <1>4, <1>5, PushFacts DEF IInv
  <1>7. \A t \in Tasks, i \in 1 .. DEPTH :
              t # a \/ i <= sp.depth => mem'[Home(t)][i] = mem[Home(t)][i]
    BY Zenon, <1>4, <1>6, PushBelow DEF IInv
  <1>8. AllSaved(Now', Now'.live \ {Now'.area})
    BY Zenon, <1>1, <1>2, <1>6, <1>7, LeaveOthers DEF sched
  <1>9. a \in live => Stacked(Now', a, sp.depth + 1, sp_usr, lr.usr)
    <2>1. SUFFICES ASSUME a \in live PROVE Stacked(Now', a, sp.depth + 1, sp_usr, lr.usr)
      BY Zenon
    <2>2. Returns(Now, a, sp.depth, lr.svc, sp_usr, lr.usr)
      BY Zenon, <1>1, <1>3, <2>1, NowFacts DEF Leaving
    <2>3. \A i \in 1 .. sp.depth : Now'.mem[Home(a)][i] = Now.mem[Home(a)][i]
      <3>1. \A i \in 1 .. sp.depth : i \in 1 .. DEPTH /\ i <= sp.depth
        BY SMTT(30), <1>4 DEF DEPTH
      <3> QED BY Zenon, <1>3, <1>7, <3>1, NowFacts, NextFacts
    <2>4. Now'.user[a] = Now.user[a]
      BY Zenon, <1>1, NowFacts, NextFacts
    <2>5. Returns(Now', a, sp.depth, lr.svc, sp_usr, lr.usr)
      BY Zenon, <2>2, <2>3, <2>4, ReturnsKeep
    <2>6. Now'.mem[Home(a)][sp.depth + 1].lr = lr.svc
      BY Zenon, <1>5, <1>6, NextFacts
    <2>7. sp.depth + 1 \in 2 .. 5 /\ (sp.depth + 1) - 1 = sp.depth
      BY SMTT(30), <1>4
    <2> QED BY Zenon, <2>5, <2>6, <2>7 DEF Stacked
  <1>10. sp'.depth \in 1 .. 5
    BY SMTT(30), <1>4, <1>6
  <1>11. Leaving(Now')
    <2>1. /\ sp.area \in Tasks \ {current} /\ g.r0 = Val(sp.area) /\ g.r1 = Val(current)
          /\ ttbr = Pgd(sp.area) /\ tlb = ttbr
      BY Zenon, <1>2, <1>3, NowFacts DEF Leaving
    <2> DEFINE w == Now'
    <2>2. /\ w.at = "switch_sp" /\ w.area = a /\ w.current = current /\ w.d = sp'.depth /\ w.r = g
          /\ w.ttbr = ttbr /\ w.tlb = tlb /\ w.su = sp_usr /\ w.lu = lr.usr /\ w.live = live
      BY Zenon, <1>1, <1>6, NextFacts DEF mmu, sched
    <2>3. w.at \notin MidPlaces
      BY Zenon, <2>2 DEF MidPlaces
    <2>4. /\ w.area \in Tasks \ {w.current} /\ w.d \in 1 .. 5
          /\ w.r.r0 = Val(w.area) /\ w.r.r1 = Val(w.current) /\ w.ttbr = Pgd(w.area) /\ w.tlb = w.ttbr
      BY Zenon, <1>10, <2>1, <2>2
    <2>5. w.area \in w.live => Stacked(w, w.area, w.d, w.su, w.lu)
      BY Zenon, <1>6, <1>9, <2>2
    <2>6. AllSaved(w, w.live \ {w.area})
      BY Zenon, <1>8
    <2> HIDE DEF w
    <2>7. Leaving(w)
      BY Zenon, <2>2, <2>3, <2>4, <2>5, <2>6 DEF Leaving
    <2> QED BY Zenon, <2>7 DEF w
  <1>12. mode' = ModeOf(at')
    BY Zenon, <1>1, <1>3 DEF ModeOf, UserPlaces
  <1> QED BY Zenon, <1>1, <1>2, <1>11, <1>12, LeaveArrives DEF intc, sched

\* The stack pointer is in the task_struct of the previous task.
LEMMA SwitchSpStep ==
  ASSUME IInv, switch_sp
  PROVE  Flow'
  <1> DEFINE a == sp.area
  <1>1. /\ at = "switch_sp" /\ at' = "switch_sys" /\ context' = [context EXCEPT ![g.r0[2]].sp = sp]
        /\ UNCHANGED <<mode, masked, regs, mmu, mem, current, live, frames_abt, intc, user>>
    BY Zenon DEF switch_sp, Go
  <1>2. at \in LeavePlaces /\ at' \in LeavePlaces
    BY Zenon, <1>1 DEF LeavePlaces
  <1>3. Leaving(Now) /\ mode = ModeOf(at) /\ a \in Tasks /\ g.r0[2] = a
    BY Zenon, <1>2, LeaveNow
  <1>4. context'[a].sp = sp /\ \A t \in Tasks \ {a} : context'[t] = context[t]
    BY SMTT(30), <1>1, <1>3 DEF IInv, Shape
  <1>5. sp = [area |-> sp.area, depth |-> sp.depth]
    BY Zenon DEF IInv, Shape, StackPointer
  <1>6. AllSaved(Now', Now'.live \ {Now'.area})
    BY Zenon, <1>1, <1>2, <1>4, LeaveOthers DEF regs
  <1>7. a \in live => Stacked(Now', a, sp.depth, sp_usr, lr.usr)
    <2>1. a \in live => Stacked(Now, a, sp.depth, sp_usr, lr.usr)
      BY Zenon, <1>1, <1>3, NowFacts DEF Leaving
    <2> QED BY Zenon, <1>1, <2>1, FramesStay
  <1>8. Leaving(Now')
    <2>1. /\ sp.area \in Tasks \ {current} /\ sp.depth \in 1 .. 5 /\ g.r0 = Val(sp.area)
          /\ g.r1 = Val(current) /\ ttbr = Pgd(sp.area) /\ tlb = ttbr
      BY Zenon, <1>2, <1>3, NowFacts DEF Leaving
    <2> DEFINE w == Now'
    <2>2. /\ w.at = "switch_sys" /\ w.area = a /\ w.current = current /\ w.d = sp.depth /\ w.r = g
          /\ w.ttbr = ttbr /\ w.tlb = tlb /\ w.su = sp_usr /\ w.lu = lr.usr /\ w.live = live
      BY Zenon, <1>1, NextFacts DEF mmu, regs
    <2>3. w.context[w.area].sp = [area |-> w.area, depth |-> w.d]
      BY Zenon, <1>4, <1>5, <2>2, NextFacts
    <2>4. w.at \notin MidPlaces
      BY Zenon, <2>2 DEF MidPlaces
    <2>5. /\ w.area \in Tasks \ {w.current} /\ w.d \in 1 .. 5
          /\ w.r.r0 = Val(w.area) /\ w.r.r1 = Val(w.current) /\ w.ttbr = Pgd(w.area) /\ w.tlb = w.ttbr
      BY Zenon, <2>1, <2>2
    <2>6. w.area \in w.live => Stacked(w, w.area, w.d, w.su, w.lu)
      BY Zenon, <1>7, <2>2
    <2>7. AllSaved(w, w.live \ {w.area})
      BY Zenon, <1>6
    <2> HIDE DEF w
    <2>8. Leaving(w)
      BY Zenon, <2>2, <2>3, <2>4, <2>5, <2>6, <2>7 DEF Leaving
    <2> QED BY Zenon, <2>8 DEF w
  <1>9. mode' = ModeOf(at')
    BY Zenon, <1>1, <1>3 DEF ModeOf, UserPlaces
  <1> QED BY Zenon, <1>1, <1>2, <1>8, <1>9, LeaveArrives DEF intc

\* SP_usr and LR_usr are saved as well: the previous task can be resumed.
LEMMA SwitchUsrStep ==
  ASSUME IInv, switch_usr
  PROVE  Flow'
  <1> DEFINE a == sp.area
  <1>1. /\ at = "switch_usr" /\ at' = "switch_svc"
        /\ context' = [context EXCEPT ![g.r0[2]].sp_usr = sp_usr, ![g.r0[2]].lr_usr = lr.usr]
        /\ g' = [g EXCEPT !.scr = Junk]
        /\ UNCHANGED <<mode, masked, lr, spsr, sp, sp_usr, mmu, mem, current,
                       live, frames_abt, intc, user>>
    BY Zenon DEF switch_usr, Go
  <1>2. at \in LeavePlaces /\ at' \in LeavePlaces
    BY Zenon, <1>1 DEF LeavePlaces
  <1>3. Leaving(Now) /\ mode = ModeOf(at) /\ a \in Tasks /\ g.r0[2] = a
    BY Zenon, <1>2, LeaveNow
  <1>4. /\ context'[a].sp = context[a].sp /\ context'[a].sp_usr = sp_usr /\ context'[a].lr_usr = lr.usr
        /\ \A t \in Tasks \ {a} : context'[t] = context[t]
    <2>1. context' = [[context EXCEPT ![a].sp_usr = sp_usr] EXCEPT ![a].lr_usr = lr.usr]
      BY Zenon, <1>1, <1>3
    <2>2. /\ DOMAIN context = Tasks
          /\ context[a] = [sp |-> context[a].sp, sp_usr |-> context[a].sp_usr, lr_usr |-> context[a].lr_usr]
      BY Zenon, <1>3 DEF IInv, Shape
    <2> DEFINE x == [context EXCEPT ![a].sp_usr = sp_usr]
    <2>3. /\ DOMAIN x = Tasks
          /\ x[a] = [sp |-> context[a].sp, sp_usr |-> sp_usr, lr_usr |-> context[a].lr_usr]
          /\ \A t \in Tasks \ {a} : x[t] = context[t]
      BY Zenon, <1>3, <2>2
    <2> HIDE DEF x
    <2>4. context' = [x EXCEPT ![a].lr_usr = lr.usr]
      BY Zenon, <2>1 DEF x
    <2> QED BY SMTT(30), <1>3, <2>3, <2>4
  <1>5. g'.r0 = g.r0 /\ g'.r1 = g.r1
    BY Zenon, <1>1 DEF IInv, Shape
  <1>6. AllSaved(Now', Now'.live \ {Now'.area})
    BY Zenon, <1>1, <1>2, <1>4, LeaveOthers
  <1>7. context[a].sp = [area |-> a, depth |-> sp.depth]
    BY Zenon, <1>1, <1>3, NowFacts DEF Leaving
  <1>8. a \in live => Saved(Now', a)
    <2>1. SUFFICES ASSUME a \in live PROVE Saved(Now', a)
      BY Zenon
    <2>2. Stacked(Now, a, sp.depth, sp_usr, lr.usr)
      BY Zenon, <1>1, <1>3, <2>1, NowFacts DEF Leaving
    <2>3. Stacked(Now', a, sp.depth, sp_usr, lr.usr)
      BY Zenon, <1>1, <2>2, FramesStay
    <2>4. context'[a].sp.area = a /\ context'[a].sp.depth = sp.depth
      BY SMTT(30), <1>4, <1>7
    <2> QED BY Zenon, <1>4, <2>3, <2>4, NextFacts DEF Saved
  <1>9. Leaving(Now')
    <2>1. context'[a].sp = [area |-> a, depth |-> sp.depth]
      BY Zenon, <1>4, <1>7
    <2>2. /\ sp.area \in Tasks \ {current} /\ sp.depth \in 1 .. 5
          /\ g.r0 = Val(sp.area) /\ g.r1 = Val(current) /\ ttbr = Pgd(sp.area) /\ tlb = ttbr
      BY Zenon, <1>2, <1>3, NowFacts DEF Leaving
    <2>3. at' \notin MidPlaces /\ at' = "switch_svc"
      BY ZenonT(30), <1>1 DEF MidPlaces
    <2> DEFINE w == Now'
    <2>4. /\ w.at = "switch_svc" /\ w.area \in Tasks \ {w.current} /\ w.d \in 1 .. 5
          /\ w.r.r0 = Val(w.area) /\ w.r.r1 = Val(w.current) /\ w.ttbr = Pgd(w.area) /\ w.tlb = w.ttbr
      BY SMTT(30), <1>1, <1>5, <2>2, <2>3, NextFacts DEF mmu
    <2>5. w.context[w.area].sp = [area |-> w.area, depth |-> w.d]
      BY Zenon, <1>1, <2>1, NextFacts
    <2>6. AllSaved(w, w.live \ {w.area}) /\ (w.area \in w.live => Saved(w, w.area))
      BY Zenon, <1>1, <1>6, <1>8, NextFacts
    <2>7. w.at \notin MidPlaces
      BY Zenon, <2>4 DEF MidPlaces
    <2> HIDE DEF w
    <2>8. Leaving(w)
      BY Zenon, <2>4, <2>5, <2>6, <2>7 DEF Leaving
    <2> QED BY Zenon, <2>8 DEF w
  <1>10. mode' = ModeOf(at')
    BY Zenon, <1>1, <1>3 DEF ModeOf, UserPlaces
  <1> QED BY Zenon, <1>1, <1>2, <1>9, <1>10, LeaveArrives DEF intc

\* The page table of the next task is installed, on the previous one's stack.
LEMMA SwitchTtbrStep ==
  ASSUME IInv, switch_ttbr
  PROVE  Flow'
  <1> DEFINE a == sp.area
  <1>1. /\ at = "switch_ttbr" /\ at' = "switch_tlb" /\ ttbr' = Pgd(g.r1[2])
        /\ UNCHANGED <<mode, masked, regs, mem, sched, intc, user>>
    BY Zenon DEF switch_ttbr, Go
  <1>2. at \in LeavePlaces /\ at' \in MidPlaces /\ at' \notin LeavePlaces
    BY Zenon, <1>1 DEF LeavePlaces, MidPlaces
  <1>3. Leaving(Now) /\ mode = ModeOf(at) /\ a \in Tasks /\ g.r1 = Val(current)
    BY Zenon, <1>2, LeaveNow
  <1>4. ttbr' = Pgd(current)
    BY Zenon, <1>1, <1>3, WordFacts
  <1>5. AllSaved(Now', Now'.live \ {Now'.area})
    BY Zenon, <1>1, <1>2, LeaveOthers DEF regs, sched
  <1>6. Saved(Now, a) => Saved(Now', a)
    BY Zenon, <1>1, NowFacts, NextFacts, StackedKeep DEF Saved, sched
  <1>7. Leaving(Now')
    BY Zenon, <1>1, <1>2, <1>3, <1>4, <1>5, <1>6, NowFacts, NextFacts
       DEF Leaving, MidPlaces, regs, sched
  <1>8. mode' = ModeOf(at')
    BY Zenon, <1>1, <1>3 DEF ModeOf, UserPlaces
  <1> QED BY Zenon, <1>1, <1>2, <1>7, <1>8, LeaveArrives DEF intc, sched

\* TLBIALL: user addresses resolve through the page table of the next task.
LEMMA SwitchTlbStep ==
  ASSUME IInv, switch_tlb
  PROVE  Flow'
  <1> DEFINE a == sp.area
  <1>1. /\ at = "switch_tlb" /\ at' = "switch_load" /\ tlb' = ttbr /\ g' = [g EXCEPT !.scr = Junk]
        /\ UNCHANGED <<mode, masked, lr, spsr, sp, sp_usr, ttbr, mem, sched, intc, user>>
    BY Zenon DEF switch_tlb, Go
  <1>2. at \in MidPlaces /\ at' \in MidPlaces /\ at' \notin LeavePlaces
    BY Zenon, <1>1 DEF LeavePlaces, MidPlaces
  <1>3. Leaving(Now) /\ mode = ModeOf(at) /\ a \in Tasks
    BY Zenon, <1>2, LeaveNow
  <1>4. g'.r0 = g.r0 /\ g'.r1 = g.r1
    BY Zenon, <1>1 DEF IInv, Shape
  <1>5. AllSaved(Now', Now'.live \ {Now'.area})
    BY Zenon, <1>1, <1>2, LeaveOthers DEF sched
  <1>6. Saved(Now, a) => Saved(Now', a)
    BY Zenon, <1>1, FramesStay DEF sched
  <1>7. Leaving(Now')
    <2>1. /\ sp.area \in Tasks \ {current} /\ sp.depth \in 1 .. 5 /\ g.r0 = Val(sp.area)
          /\ g.r1 = Val(current) /\ ttbr = Pgd(current)
          /\ context[sp.area].sp = [area |-> sp.area, depth |-> sp.depth]
          /\ sp.area \in live => Saved(Now, sp.area)
      BY Zenon, <1>1, <1>2, <1>3, NowFacts DEF Leaving
    <2> DEFINE w == Now'
    <2>2. /\ w.at = "switch_load" /\ w.area = a /\ w.current = current /\ w.d = sp.depth /\ w.r = g'
          /\ w.ttbr = ttbr /\ w.tlb = ttbr /\ w.live = live /\ w.context = context
      BY Zenon, <1>1, NextFacts DEF sched
    <2>3. w.at \in MidPlaces /\ w.at \notin LeavePlaces
      BY Zenon, <2>2 DEF MidPlaces, LeavePlaces
    <2>4. /\ w.area \in Tasks \ {w.current} /\ w.d \in 1 .. 5
          /\ w.r.r0 = Val(w.area) /\ w.r.r1 = Val(w.current) /\ w.ttbr = Pgd(w.current) /\ w.tlb = w.ttbr
          /\ w.context[w.area].sp = [area |-> w.area, depth |-> w.d]
      BY Zenon, <1>4, <2>1, <2>2
    <2>5. w.area \in w.live => Saved(w, w.area)
      BY Zenon, <1>6, <2>1, <2>2
    <2>6. AllSaved(w, w.live \ {w.area})
      BY Zenon, <1>5
    <2> HIDE DEF w
    <2>7. Leaving(w)
      BY Zenon, <2>2, <2>3, <2>4, <2>5, <2>6 DEF Leaving
    <2> QED BY Zenon, <2>7 DEF w
  <1>8. mode' = ModeOf(at')
    BY Zenon, <1>1, <1>3 DEF ModeOf, UserPlaces
  <1> QED BY Zenon, <1>1, <1>2, <1>7, <1>8, LeaveArrives DEF intc, sched

\* The next task is on its own stack, in its own address space.
LEMMA SwitchLoadStep ==
  ASSUME IInv, switch_load
  PROVE  Flow'
  <1>1. /\ at = "switch_load" /\ at' = "load_sys" /\ sp' = context[Resumed].sp
        /\ UNCHANGED <<mode, masked, g, lr, spsr, sp_usr, mmu, mem, sched, intc, user>>
    BY Zenon DEF switch_load, Go
  <1>2. at \in MidPlaces /\ at' \in OwnPlaces
    BY Zenon, <1>1 DEF MidPlaces, OwnPlaces, LoadPlaces
  <1>3. /\ Leaving(Now) /\ mode = ModeOf(at) /\ ~serving /\ g.r1 = Val(current) /\ Resumed = current
        /\ sp.area # current /\ current \in live /\ \A t \in live \ {sp.area} : Saved(Now, t)
    BY Zenon, <1>2, LeaveNow
  <1>4. ttbr = Pgd(current) /\ tlb = ttbr /\ (sp.area \in live => Saved(Now, sp.area))
    BY Zenon, <1>1, <1>3, NowFacts DEF Leaving, MidPlaces
  <1>5. \A t \in live : Saved(Now', t)
    <2>1. \A t \in live : Saved(Now, t)
      BY Zenon, <1>3, <1>4
    <2>2. \A t \in live : Saved(Now, t) => Saved(Now', t)
      BY Zenon, <1>1, FramesStay DEF sched
    <2> QED BY Zenon, <2>1, <2>2
  <1>6. sp'.area = current /\ sp'.depth = context[current].sp.depth
    BY Zenon, <1>1, <1>3, <1>5, NextFacts DEF Saved, sched
  <1>7. Loads(Now')
    BY Zenon, <1>1, <1>3, <1>5, <1>6, NextFacts DEF Loads, sched
  <1>8. Called(Now') /\ Idles(Now')
    BY Zenon, <1>1, NextFacts, Elsewhere DEF UserPlaces, SvcPlaces, ExitPlaces, IdlePlaces
  <1>9. Own(Now')
    BY Zenon, <1>1, <1>4, <1>5, <1>6, <1>7, <1>8, NextFacts DEF Own, AllSaved, mmu, sched
  <1>10. Running(Now')
    BY Zenon, <1>1, <1>2, <1>3, <1>9, NextFacts, PlacesApart DEF Running, sched
  <1>11. mode' = ModeOf(at') /\ ~serving' /\ at' \in Places /\ at' \notin UserPlaces
    BY Zenon, <1>1, <1>2, <1>3, PlacesApart DEF ModeOf, UserPlaces, intc
  <1> QED BY Zenon, <1>10, <1>11, Arrives

\* start_first_task() leaves the boot stack for that of idle.
LEMMA FirstSpStep ==
  ASSUME IInv, first_sp
  PROVE  Flow'
  <1>1. /\ at = "first_sp" /\ at' = "load_sys" /\ sp' = context[Resumed].sp
        /\ UNCHANGED <<mode, masked, g, lr, spsr, sp_usr, mmu, mem, sched, intc, user>>
    BY Zenon DEF first_sp, Go
  <1>2. at \in Places /\ at' \in OwnPlaces
    BY Zenon, <1>1 DEF Places, OwnPlaces, LoadPlaces
  <1>3. Running(Now) /\ mode = ModeOf(at) /\ ~serving
    BY Zenon, <1>2 DEF IInv, Flow, Now
  <1>4. Starting(Now) /\ current \in live
    BY Zenon, <1>1, <1>3, NowFacts DEF Running
  <1>5. /\ current = "idle" /\ g.r0 = Val(current) /\ g.r1 = Junk /\ ttbr = "kernel" /\ tlb = "kernel"
        /\ \A t \in live : Saved(Now, t)
    BY Zenon, <1>4, NowFacts DEF Starting, AllSaved
  <1>6. Resumed = current
    BY <1>5, ResumedFacts
  <1>7. \A t \in live : Saved(Now', t)
    BY Zenon, <1>1, <1>5, FramesStay DEF sched
  <1>8. sp'.area = current /\ sp'.depth = context[current].sp.depth
    BY Zenon, <1>1, <1>4, <1>6, <1>7, NextFacts DEF Saved, sched
  <1>9. Pgd(current) = "kernel"
    BY Zenon, <1>5, CpuAssumption DEF Pgd
  <1>10. Loads(Now')
    BY Zenon, <1>1, <1>4, <1>5, <1>7, <1>8, NextFacts DEF Loads, sched
  <1>11. Called(Now') /\ Idles(Now')
    BY Zenon, <1>1, NextFacts, Elsewhere DEF UserPlaces, SvcPlaces, ExitPlaces, IdlePlaces
  <1>12. Own(Now')
    BY Zenon, <1>1, <1>5, <1>7, <1>8, <1>9, <1>10, <1>11, NextFacts DEF Own, AllSaved, mmu, sched
  <1>13. Running(Now')
    BY Zenon, <1>1, <1>2, <1>4, <1>12, NextFacts, PlacesApart DEF Running, sched
  <1>14. mode' = ModeOf(at') /\ ~serving' /\ at' \in Places /\ at' \notin UserPlaces
    BY Zenon, <1>1, <1>2, <1>3, PlacesApart DEF ModeOf, UserPlaces, intc
  <1> QED BY Zenon, <1>13, <1>14, Arrives

\* System mode, to reach the user's banked registers.
LEMMA LoadSysStep ==
  ASSUME IInv, load_sys
  PROVE  Flow'
  <1>1. /\ at = "load_sys" /\ at' = "load_usr" /\ mode' = "sys"
        /\ UNCHANGED <<masked, regs, mmu, mem, sched, intc, user>>
    BY Zenon DEF load_sys, Go
  <1>2. at \in OwnPlaces /\ at' \in OwnPlaces /\ at' \notin UserPlaces
    BY Zenon, <1>1 DEF OwnPlaces, UserPlaces, LoadPlaces
  <1>3. Own(Now) /\ current \in Tasks /\ ~serving
    BY Zenon, <1>2, OwnNow
  <1>4. Saved(Now', current)
    <2>1. Saved(Now, current)
      BY Zenon, <1>1, <1>3, NowFacts DEF Own, Loads
    <2> QED BY Zenon, <1>1, <2>1, FramesStay DEF sched
  <1>5. Loads(Now')
    BY Zenon, <1>1, <1>3, <1>4, NowFacts, NextFacts DEF Own, Loads, sched, regs
  <1>6. Called(Now') /\ Idles(Now')
    BY Zenon, <1>1, NextFacts, Elsewhere DEF UserPlaces, SvcPlaces, ExitPlaces, IdlePlaces
  <1>7. mode' = ModeOf(at') /\ ~serving'
    BY Zenon, <1>1, <1>3 DEF ModeOf, UserPlaces, intc
  <1> QED BY Zenon, <1>1, <1>2, <1>5, <1>6, <1>7, OwnArrives DEF mmu, sched, regs

\* SP_usr and LR_usr are those the task was left with.
LEMMA LoadUsrStep ==
  ASSUME IInv, load_usr
  PROVE  Flow'
  <1>1. /\ at = "load_usr" /\ at' = "load_svc" /\ sp_usr' = context[Resumed].sp_usr
        /\ lr' = [lr EXCEPT !.usr = context[Resumed].lr_usr]
        /\ UNCHANGED <<mode, masked, spsr, sp, mmu, mem, sched, intc, user>>
    BY Zenon DEF load_usr, Go
  <1>2. at \in OwnPlaces /\ at' \in OwnPlaces /\ at' \notin UserPlaces
    BY Zenon, <1>1 DEF OwnPlaces, UserPlaces, LoadPlaces
  <1>3. Own(Now) /\ current \in Tasks /\ ~serving /\ mode = ModeOf(at)
    BY Zenon, <1>2, OwnNow
  <1>4. /\ Saved(Now, current) /\ sp.depth = context[current].sp.depth
        /\ g.r1 = Val(current) \/ (g.r1 = Junk /\ g.r0 = Val(current))
    BY Zenon, <1>1, <1>3, NowFacts DEF Own, Loads
  <1>5. Resumed = current
    BY Zenon, <1>4, ResumedFacts
  <1>6. sp_usr' = context[current].sp_usr /\ lr'.usr = context[current].lr_usr
    BY Zenon, <1>1, <1>5 DEF IInv, Shape
  <1>7. Stacked(Now, current, sp.depth, sp_usr', lr'.usr)
    BY Zenon, <1>4, <1>6, NowFacts DEF Saved
  <1>8. Stacked(Now', current, sp.depth, sp_usr', lr'.usr)
    BY Zenon, <1>1, <1>7, FramesStay
  <1>9. Loads(Now')
    BY Zenon, <1>1, <1>8, NextFacts DEF Loads, sched
  <1>10. Called(Now') /\ Idles(Now')
    BY Zenon, <1>1, NextFacts, Elsewhere DEF UserPlaces, SvcPlaces, ExitPlaces, IdlePlaces
  <1>11. mode' = ModeOf(at') /\ ~serving'
    BY Zenon, <1>1, <1>3 DEF ModeOf, UserPlaces, intc
  <1> QED BY Zenon, <1>1, <1>2, <1>9, <1>10, <1>11, OwnArrives DEF mmu, sched

\* Back to supervisor mode.
LEMMA LoadSvcStep ==
  ASSUME IInv, load_svc
  PROVE  Flow'
  <1>1. /\ at = "load_svc" /\ at' = "load_pop" /\ mode' = "svc"
        /\ UNCHANGED <<masked, regs, mmu, mem, sched, intc, user>>
    BY Zenon DEF load_svc, Go
  <1>2. at \in OwnPlaces /\ at' \in OwnPlaces /\ at' \notin UserPlaces
    BY Zenon, <1>1 DEF OwnPlaces, UserPlaces, LoadPlaces
  <1>3. Own(Now) /\ current \in Tasks /\ ~serving
    BY Zenon, <1>2, OwnNow
  <1>4. Stacked(Now', current, sp.depth, sp_usr, lr.usr)
    <2>1. Stacked(Now, current, sp.depth, sp_usr, lr.usr)
      BY Zenon, <1>1, <1>3, NowFacts DEF Own, Loads
    <2> QED BY Zenon, <1>1, <2>1, NowFacts, NextFacts, StackedKeep
  <1>5. Loads(Now')
    BY Zenon, <1>1, <1>4, NextFacts DEF Loads, sched, regs
  <1>6. Called(Now') /\ Idles(Now')
    BY Zenon, <1>1, NextFacts, Elsewhere DEF UserPlaces, SvcPlaces, ExitPlaces, IdlePlaces
  <1>7. mode' = ModeOf(at') /\ ~serving'
    BY Zenon, <1>1, <1>3 DEF ModeOf, UserPlaces, intc
  <1> QED BY Zenon, <1>1, <1>2, <1>5, <1>6, <1>7, OwnArrives DEF mmu, sched, regs

\* pop {r4-r11, lr}: LR is where context_switch() was called.
LEMMA LoadPopStep ==
  ASSUME IInv, load_pop
  PROVE  Flow'
  <1>1. /\ at = "load_pop" /\ at' = "load_return" /\ lr' = [lr EXCEPT !.svc = Top.lr] /\ Drop
        /\ UNCHANGED <<mode, masked, spsr, sp_usr, mmu, sched, intc, user>>
    BY Zenon DEF load_pop, Go
  <1>2. at \in OwnPlaces /\ at' \in OwnPlaces /\ at' \notin UserPlaces /\ at \notin UserPlaces
    BY Zenon, <1>1 DEF OwnPlaces, UserPlaces, LoadPlaces
  <1>3. Own(Now) /\ current \in Tasks /\ ~serving /\ mode = ModeOf(at)
    BY Zenon, <1>2, OwnNow
  <1>4. Stacked(Now, current, sp.depth, sp_usr, lr.usr)
    BY Zenon, <1>1, <1>3, NowFacts DEF Own, Loads
  <1>5. /\ sp.depth \in 2 .. 5
        /\ Returns(Now, current, sp.depth - 1, mem[Home(current)][sp.depth].lr, sp_usr, lr.usr)
    BY Zenon, <1>4, NowFacts DEF Stacked
  <1>6. /\ sp'.area = sp.area /\ sp'.depth = sp.depth - 1
        /\ Top = mem[Home(current)][sp.depth]
        /\ \A i \in 1 .. DEPTH : i <= sp.depth - 1 => mem'[Home(current)][i] = mem[Home(current)][i]
        /\ \A t \in Tasks, i \in 1 .. DEPTH : t # current => mem'[Home(t)][i] = mem[Home(t)][i]
    <2>1. sp.depth > 0
      BY SMTT(30), <1>5
    <2> QED BY Zenon, <1>1, <1>2, <2>1, DropOwn
  <1>7. lr'.usr = lr.usr /\ lr'.svc = mem[Home(current)][sp.depth].lr
    BY Zenon, <1>1, <1>6 DEF IInv, Shape
  <1>8. Returns(Now', current, sp.depth - 1, lr'.svc, sp_usr, lr.usr)
    <2> DEFINE e == sp.depth - 1
    <2>1. \A i \in 1 .. e : i \in 1 .. DEPTH /\ i <= e
      BY SMTT(30), <1>5 DEF DEPTH
    <2>2. \A i \in 1 .. e : Now'.mem[Home(current)][i] = Now.mem[Home(current)][i]
      BY Zenon, <1>6, <2>1, NowFacts, NextFacts
    <2>3. Returns(Now, current, e, lr'.svc, sp_usr, lr.usr)
      BY Zenon, <1>5, <1>7
    <2>4. Now'.user[current] = Now.user[current]
      BY Zenon, <1>1, NowFacts, NextFacts
    <2> HIDE DEF e
    <2>5. Returns(Now', current, e, lr'.svc, sp_usr, lr.usr)
      BY Zenon, <2>2, <2>3, <2>4, ReturnsKeep
    <2> QED BY Zenon, <2>5 DEF e
  <1>9. Loads(Now')
    BY Zenon, <1>1, <1>6, <1>7, <1>8, NextFacts DEF Loads, sched
  <1>10. Called(Now') /\ Idles(Now')
    BY Zenon, <1>1, NextFacts, Elsewhere DEF UserPlaces, SvcPlaces, ExitPlaces, IdlePlaces
  <1>11. mode' = ModeOf(at') /\ ~serving'
    BY Zenon, <1>1, <1>3 DEF ModeOf, UserPlaces, intc
  <1> QED BY Zenon, <1>1, <1>2, <1>6, <1>9, <1>10, <1>11, OwnArrives DEF mmu, sched

\* bx lr ends context_switch() in the task that is resumed: at the trampoline
\* of a task that has not run, in its system call or in the idle loop.
LEMMA LoadReturnStep ==
  ASSUME IInv, load_return
  PROVE  Flow'
  <1>1. /\ at = "load_return" /\ JumpTo(lr.svc)
        /\ UNCHANGED <<mode, masked, regs, mmu, mem, sched, intc, user>>
    BY Zenon DEF load_return
  <1>2. at \in OwnPlaces /\ at \notin UserPlaces
    BY Zenon, <1>1 DEF OwnPlaces, UserPlaces, LoadPlaces
  <1>3. Own(Now) /\ current \in Tasks /\ ~serving /\ mode = ModeOf(at)
    BY Zenon, <1>2, OwnNow
  <1>4. Returns(Now, current, sp.depth, lr.svc, sp_usr, lr.usr)
    BY Zenon, <1>1, <1>3, NowFacts DEF Own, Loads
  <1>5. mode = "svc"
    BY Zenon, <1>1, <1>3 DEF ModeOf, UserPlaces
  <1>6. CASE lr.svc = Addr("exit_pop") /\ sp.depth = 2 /\ Exiting(Now, current, sp_usr, lr.usr)
    <2>1. at' = "exit_pop"
      BY Zenon, <1>1, <1>6, Jumps
    <2>2. at' \in OwnPlaces /\ at' \notin UserPlaces
      BY Zenon, <2>1 DEF OwnPlaces, UserPlaces, ExitPlaces
    <2>3. Exiting(Now', current, sp_usr, lr.usr)
      BY Zenon, <1>1, <1>6, FramesStay
    <2>4. Called(Now')
      BY Zenon, <1>1, <1>6, <2>1, <2>3, NextFacts DEF Called, sched, regs, UserPlaces
    <2>5. Idles(Now') /\ Loads(Now')
      BY Zenon, <2>1, NextFacts, Elsewhere DEF IdlePlaces, LoadPlaces
    <2>6. mode' = ModeOf(at') /\ ~serving'
      BY Zenon, <1>1, <1>3, <1>5, <2>1 DEF ModeOf, UserPlaces, intc
    <2> QED BY Zenon, <1>1, <1>2, <2>2, <2>4, <2>5, <2>6, OwnArrives DEF mmu, sched, regs
  <1>7. CASE lr.svc = Addr("handler_back") /\ sp.depth = 4 /\ InHandler(Now, current, sp_usr, lr.usr)
    <2>1. at' = "handler_back"
      BY Zenon, <1>1, <1>7, Jumps
    <2>2. at' \in OwnPlaces /\ at' \notin UserPlaces
      BY Zenon, <2>1 DEF OwnPlaces, UserPlaces, SvcPlaces
    <2>3. InHandler(Now', current, sp_usr, lr.usr)
      BY Zenon, <1>1, <1>7, FramesStay
    <2>4. Called(Now')
      BY Zenon, <1>1, <1>7, <2>1, <2>3, NextFacts DEF Called, sched, regs, UserPlaces
    <2>5. Idles(Now') /\ Loads(Now')
      BY Zenon, <2>1, NextFacts, Elsewhere DEF IdlePlaces, LoadPlaces
    <2>6. mode' = ModeOf(at') /\ ~serving'
      BY Zenon, <1>1, <1>3, <1>5, <2>1 DEF ModeOf, UserPlaces, intc
    <2> QED BY Zenon, <1>1, <1>2, <2>2, <2>4, <2>5, <2>6, OwnArrives DEF mmu, sched, regs
  <1>8. CASE /\ lr.svc = Addr("idle_back") /\ sp.depth = 1 /\ current = "idle"
             /\ Now.mem[Home(current)][1].cal = Val("idle")
    <2>1. at' = "idle_back"
      BY Zenon, <1>1, <1>8, Jumps
    <2>2. at' \in OwnPlaces /\ at' \notin UserPlaces
      BY Zenon, <2>1 DEF OwnPlaces, UserPlaces, IdlePlaces
    <2>3. Idles(Now')
      BY Zenon, <1>1, <1>8, <2>1, NowFacts, NextFacts DEF Idles, sched, regs
    <2>4. Called(Now') /\ Loads(Now')
      BY Zenon, <2>1, NextFacts, Elsewhere DEF UserPlaces, SvcPlaces, ExitPlaces, LoadPlaces
    <2>5. mode' = ModeOf(at') /\ ~serving'
      BY Zenon, <1>1, <1>3, <1>5, <2>1 DEF ModeOf, UserPlaces, intc
    <2> QED BY Zenon, <1>1, <1>2, <2>2, <2>3, <2>4, <2>5, OwnArrives DEF mmu, sched, regs
  <1> QED BY Zenon, <1>4, <1>6, <1>7, <1>8 DEF Returns

-----------------------------------------------------------------------------
(* The devices and the TLB *)

\* A device that raises or withdraws its line changes nothing for the tasks.
LEMMA QuietStep ==
  ASSUME IInv, UNCHANGED <<at, mode, masked, regs, mmu, mem, sched, serving, user>>
  PROVE  Flow'
  <1>1. /\ at' = at /\ mode' = mode /\ masked' = masked /\ g' = g /\ lr' = lr /\ spsr' = spsr
        /\ sp' = sp /\ sp_usr' = sp_usr /\ ttbr' = ttbr /\ tlb' = tlb /\ mem' = mem
        /\ context' = context /\ current' = current /\ live' = live /\ serving' = serving /\ user' = user
    BY Zenon DEF regs, mmu, sched
  <1>2. \A l, r, ls, d : View(l, r, ls, d)' = View(l, r, ls, d)
    BY Zenon, <1>1 DEF View
  <1>3. CASE at \in Places
    <2>1. Running(Now') /\ mode' = ModeOf(at') /\ ~serving'
      <3>1. Running(Now) /\ mode = ModeOf(at) /\ ~serving
        BY Zenon, <1>3 DEF IInv, Flow, Now
      <3>2. Now' = Now
        BY Zenon, <1>1 DEF Now, View
      <3> QED BY SMTT(30), <1>1, <3>1, <3>2
    <2>2. at' \in UserPlaces => ~masked'
      BY SMTT(30), <1>1 DEF IInv, Flow
    <2> QED BY Zenon, <1>1, <1>3, <2>1, <2>2, Arrives
  <1>4. CASE at \in IrqPlaces
    <2>1. PICK l \in Places : Interrupted(l)
      BY Zenon, <1>4 DEF IInv, Flow
    <2>2. Interrupted(l)'
      <3>1. Under(0)' = Under(0) /\ Under(1)' = Under(1)
        BY Zenon, <1>1 DEF Under, Behind
      <3>2. /\ View(l, g, lr.svc, sp.depth)' = View(l, g, lr.svc, sp.depth)
            /\ View(l, g, lr.svc, sp.depth - 1)' = View(l, g, lr.svc, sp.depth - 1)
        BY Zenon, <1>1 DEF View
      <3>3. View(l, RegsOf(Under(0)), Under(0).lr, sp.depth - 2)'
              = View(l, RegsOf(Under(0)), Under(0).lr, sp.depth - 2)
        BY Zenon, <1>1, <3>1 DEF View, RegsOf
      <3> QED BY Zenon, <1>1, <2>1, <3>1, <3>2, <3>3 DEF Interrupted
    <2>3. masked' /\ (at' \in {"irq_restore", "irq_rfe"} => ~serving')
      BY SMTT(30), <1>1, <1>4 DEF IInv, Flow
    <2> QED BY Zenon, <1>1, <1>4, <2>2, <2>3, FlowIrq
  <1>5. CASE at = "halted"
    BY Zenon, <1>1, <1>5, HaltStep
  <1> QED BY Zenon, <1>3, <1>4, <1>5 DEF IInv, Flow

\* The table that is installed is not the one of the TLB only between the
\* write of TTBR0 and the TLB flush, and no more is assumed of the TLB there.
LEMMA EvictView ==
  ASSUME NEW v, NEW w, v.at \in Places, v.tlb # v.ttbr, Running(v),
         w.at = v.at, w.r = v.r, w.ls = v.ls, w.d = v.d, w.area = v.area,
         w.su = v.su, w.lu = v.lu, w.psr = v.psr, w.ttbr = v.ttbr, w.mem = v.mem,
         w.context = v.context, w.current = v.current, w.live = v.live, w.user = v.user
  PROVE  Running(w)
  <1>1. v.at \notin OwnPlaces
    BY Zenon DEF Running, Own
  <1>2. v.at # "first_sp"
    BY Zenon DEF Running, Starting
  <1>3. Leaving(v)
    BY Zenon, <1>1, <1>2 DEF Running, Places
  <1>4. v.at = "switch_tlb"
    BY Zenon, <1>1, <1>2, <1>3 DEF Leaving, Places, MidPlaces
  <1>5. v.at \notin LeavePlaces /\ v.at \in MidPlaces
    BY Zenon, <1>4 DEF LeavePlaces, MidPlaces
  <1>6. \A t : Saved(v, t) => Saved(w, t)
    BY Zenon, StackedKeep DEF Saved
  <1>7. AllSaved(w, w.live \ {w.area})
    BY Zenon, <1>3, <1>6 DEF Leaving, AllSaved
  <1>8. Leaving(w)
    BY Zenon, <1>3, <1>4, <1>5, <1>6, <1>7 DEF Leaving
  <1> QED BY Zenon, <1>1, <1>2, <1>8 DEF Running

\* An eviction matters only to a stack in user space.
LEMMA EvictStep ==
  ASSUME IInv, ~Evicts, Evict
  PROVE  Flow'
  <1>1. /\ tlb # ttbr /\ sp.area # "init"
        /\ UNCHANGED <<at, mode, masked, regs, ttbr, mem, sched, intc, user>>
    BY Zenon DEF Evict
  <1>2. /\ at' = at /\ mode' = mode /\ masked' = masked /\ g' = g /\ lr' = lr /\ spsr' = spsr
        /\ sp' = sp /\ sp_usr' = sp_usr /\ ttbr' = ttbr /\ mem' = mem
        /\ context' = context /\ current' = current /\ live' = live /\ serving' = serving /\ user' = user
    BY Zenon, <1>1 DEF regs, sched, intc
  <1>3. ASSUME NEW l \in Places, NEW r, NEW ls, NEW d, Running(View(l, r, ls, d))
        PROVE  Running(View(l, r, ls, d)')
    <2> DEFINE v == View(l, r, ls, d)
               w == View(l, r, ls, d)'
    <2>1. /\ v.at \in Places /\ v.tlb # v.ttbr
          /\ w.at = v.at /\ w.r = v.r /\ w.ls = v.ls /\ w.d = v.d /\ w.area = v.area
          /\ w.su = v.su /\ w.lu = v.lu /\ w.psr = v.psr /\ w.ttbr = v.ttbr /\ w.mem = v.mem
          /\ w.context = v.context /\ w.current = v.current /\ w.live = v.live /\ w.user = v.user
      BY Zenon, <1>1, <1>2 DEF View
    <2>2. Running(v)
      BY Zenon, <1>3
    <2> HIDE DEF v, w
    <2>3. Running(w)
      BY Zenon, <2>1, <2>2, EvictView
    <2> QED BY Zenon, <2>3 DEF w
  <1>4. CASE at \in Places
    <2>1. Running(Now) /\ mode = ModeOf(at) /\ ~serving
      BY Zenon, <1>4 DEF IInv, Flow, Now
    <2>2. Running(Now')
      <3>1. Running(View(at, g, lr.svc, sp.depth))
        BY Zenon, <2>1 DEF Now
      <3>2. PICK l, r, ls, d : l = at /\ r = g /\ ls = lr.svc /\ d = sp.depth
        BY Zenon
      <3>3. Running(View(l, r, ls, d))
        BY Zenon, <3>1, <3>2
      <3>4. Running(View(l, r, ls, d)')
        BY Zenon, <1>3, <1>4, <3>2, <3>3
      <3>5. Now' = View(l, r, ls, d)'
        BY Zenon, <1>2, <3>2 DEF Now, View
      <3> QED BY Zenon, <3>4, <3>5
    <2>3. at' \in UserPlaces => ~masked'
      BY Zenon, <1>2 DEF IInv, Flow
    <2> QED BY ZenonT(30), <1>2, <1>4, <2>1, <2>2, <2>3, Arrives
  <1>5. CASE at \in IrqPlaces
    <2>1. PICK l \in Places : Interrupted(l)
      BY Zenon, <1>5 DEF IInv, Flow
    <2>2. Under(0)' = Under(0) /\ Under(1)' = Under(1)
      BY Zenon, <1>1, <1>2 DEF Under, Behind
    <2>3. Interrupted(l)'
      <3>1. \A r, ls, d : Running(View(l, r, ls, d)) => Running(View(l, r, ls, d)')
        BY Zenon, <1>3
      <3>2. /\ Running(View(l, g, lr.svc, sp.depth)) => Running(View(l, g, lr.svc, sp.depth)')
            /\ Running(View(l, g, lr.svc, sp.depth - 1)) => Running(View(l, g, lr.svc, sp.depth - 1)')
        BY Zenon, <1>2, <3>1
      <3>3. Running(View(l, RegsOf(Under(0)), Under(0).lr, sp.depth - 2))
              => Running(View(l, RegsOf(Under(0)), Under(0).lr, sp.depth - 2)')
        <4>1. RegsOf(Under(0))' = RegsOf(Under(0))
          BY Zenon, <2>2 DEF RegsOf
        <4> QED BY Zenon, <1>2, <2>2, <3>1, <4>1
      <3> QED BY Zenon, <1>2, <2>1, <2>2, <3>2, <3>3 DEF Interrupted
    <2>4. masked' /\ (at' \in {"irq_restore", "irq_rfe"} => ~serving')
      BY Zenon, <1>2, <1>5 DEF IInv, Flow
    <2> QED BY Zenon, <1>2, <1>5, <2>3, <2>4, FlowIrq
  <1>6. CASE at = "halted"
    BY Zenon, <1>2, <1>6, HaltStep
  <1> QED BY Zenon, <1>4, <1>5, <1>6 DEF IInv, Flow

-----------------------------------------------------------------------------
(* Registers and memory keep their fields *)

RegsShape == /\ g = [r0 |-> g.r0, r1 |-> g.r1, scr |-> g.scr, cal |-> g.cal]
             /\ lr = [usr |-> lr.usr, svc |-> lr.svc, irq |-> lr.irq]
             /\ spsr = [svc |-> spsr.svc, irq |-> spsr.irq]

TableShape == /\ live \subseteq Tasks /\ current \in Tasks
              /\ ttbr \in {"kernel"} \cup Forked /\ tlb \in {"kernel"} \cup Forked

TasksShape == /\ DOMAIN context = Tasks /\ DOMAIN user = Tasks
              /\ \A t \in Tasks :
                   /\ context[t] = [sp |-> context[t].sp, sp_usr |-> context[t].sp_usr,
                                    lr_usr |-> context[t].lr_usr]
                   /\ context[t].sp \in StackPointer
                   /\ user[t] = [of |-> user[t].of, r0 |-> user[t].r0]

\* The parts of Shape, proved one by one below.
LEMMA ShapeParts == Shape <=> RegsShape /\ TableShape /\ TasksShape /\ sp \in StackPointer /\ MemShape
  BY Zenon DEF Shape, RegsShape, TableShape, TasksShape

\* The same of the next state.
LEMMA NextShapeParts ==
  RegsShape' /\ TableShape' /\ TasksShape' /\ sp' \in StackPointer /\ MemShape' => Shape'
  BY Zenon DEF Shape, RegsShape, TableShape, TasksShape

\* Every instruction leaves the banked registers in place.
LEMMA RegsStep ==
  ASSUME RegsShape, [Next]_vars
  PROVE  RegsShape'
  <1>1. DOMAIN g = {"r0", "r1", "scr", "cal"}
    BY Zenon DEF RegsShape
  <1>2. CASE UserCompute \/ IdleCompute \/ svc_call \/ exit_return \/ irq_restore
    <2>1. PICK e : g' = [r \in {"r0", "r1", "scr", "cal"} |-> e[r]]
      <3>1. CASE UserCompute
        <4>1. g' = [r \in DOMAIN g |-> [x \in DOMAIN g |-> Val(current)][r]]
          BY Zenon, <3>1 DEF UserCompute
        <4> QED BY <1>1, <4>1
      <3>2. CASE IdleCompute
        <4>1. g' = [r \in DOMAIN g |-> [x \in DOMAIN g |-> Val("idle")][r]]
          BY Zenon, <3>2 DEF IdleCompute
        <4> QED BY SMTT(30), <1>1, <4>1
      <3>3. CASE svc_call
        <4>1. g' = [r \in DOMAIN g |-> [x \in DOMAIN g |-> Junk][r]]
          BY Zenon, <3>3 DEF svc_call
        <4> QED BY <1>1, <4>1
      <3>4. CASE exit_return \/ irq_restore
        BY Zenon, <1>1, <3>4 DEF exit_return, irq_restore
      <3> QED BY Zenon, <1>2, <3>1, <3>2, <3>3, <3>4
    <2>2. g' = [r0 |-> g'.r0, r1 |-> g'.r1, scr |-> g'.scr, cal |-> g'.cal]
      BY Zenon, <2>1
    <2>3. spsr' = spsr
      BY Zenon, <1>2 DEF UserCompute, IdleCompute, svc_call, exit_return, irq_restore
    <2>4. \/ lr' = lr \/ lr' = [lr EXCEPT !.usr = Val(current)]
          \/ lr' = [lr EXCEPT !.svc = Junk] \/ lr' = [lr EXCEPT !.svc = Top.lr]
      BY Zenon, <1>2 DEF UserCompute, IdleCompute, svc_call, exit_return, irq_restore
    <2>5. lr' = [usr |-> lr'.usr, svc |-> lr'.svc, irq |-> lr'.irq]
      BY Zenon, <2>4 DEF RegsShape
    <2> QED BY Zenon, <2>2, <2>3, <2>5 DEF RegsShape
  <1>3. CASE UserCall \/ Interrupt \/ irq_adjust \/ IdleBack \/ HandlerBack
    BY Zenon, <1>3 DEF UserCall, Interrupt, irq_adjust, IdleBack, HandlerBack, RegsShape
  <1>4. ASSUME NEW t, NEW back, CallSwitch(t, back), spsr' = spsr PROVE RegsShape'
    BY Zenon, <1>4 DEF CallSwitch, RegsShape
  <1>5. CASE IdleYield \/ HandlerYield \/ UserAbort
    BY Zenon, <1>4, <1>5 DEF IdleYield, HandlerYield, UserAbort
  <1>6. CASE svc_mrs \/ HandlerReturn \/ exit_pop \/ exit_msr \/ irq_dispatch
    BY Zenon, <1>6 DEF svc_mrs, HandlerReturn, exit_pop, exit_msr, irq_dispatch, RegsShape
  <1>7. CASE switch_usr \/ switch_tlb \/ load_usr \/ load_pop
    BY Zenon, <1>7 DEF switch_usr, switch_tlb, load_usr, load_pop, RegsShape
  <1>8. CASE \/ UserUndefined \/ halt_kernel \/ IdleAlone \/ svc_save \/ svc_psr \/ svc_enable
             \/ HandlerFork \/ Raise \/ Withdraw
    BY Zenon, <1>8 DEF UserUndefined, halt_kernel, IdleAlone, svc_save, svc_psr, svc_enable,
                HandlerFork, Raise, Withdraw, RegsShape, regs, vars
  <1>9. CASE \/ irq_srs \/ irq_cps \/ irq_save \/ irq_rfe \/ switch_save \/ switch_sp \/ switch_sys
             \/ switch_svc \/ switch_ttbr \/ Evict \/ switch_load \/ first_sp \/ load_sys \/ load_svc
             \/ load_return \/ UNCHANGED vars
    BY Zenon, <1>9 DEF irq_srs, irq_cps, irq_save, irq_rfe, switch_save, switch_sp, switch_sys, switch_svc,
                switch_ttbr, Evict, switch_load, first_sp, load_sys, load_svc, load_return,
                RegsShape, regs, vars
  <1> QED BY Zenon, <1>2, <1>3, <1>5, <1>6, <1>7, <1>8, <1>9 DEF Next

\* current, the tasks that are alive and the page tables stay known ones.
LEMMA TableStep ==
  ASSUME IInv, [Next]_vars
  PROVE  TableShape'
  <1>1. TableShape
    BY Zenon DEF IInv, Shape, TableShape
  <1>2. CASE \/ UserCompute \/ UserCall \/ UserUndefined \/ halt_kernel \/ IdleCompute \/ IdleAlone
             \/ IdleBack \/ svc_save \/ svc_mrs \/ svc_psr \/ svc_enable \/ svc_call
             \/ HandlerReturn \/ HandlerBack \/ exit_pop \/ exit_msr \/ exit_return
    <2>1. UNCHANGED <<ttbr, tlb, current, live>>
      BY Zenon, <1>2 DEF UserCompute, UserCall, UserUndefined, halt_kernel, IdleCompute, IdleAlone,
         IdleBack, svc_save, svc_mrs, svc_psr, svc_enable, svc_call, HandlerReturn, HandlerBack,
         exit_pop, exit_msr, exit_return, vars, mmu, sched
    <2> QED BY Zenon, <1>1, <2>1 DEF TableShape
  <1>3. CASE \/ Raise \/ Withdraw \/ Interrupt \/ irq_adjust \/ irq_srs \/ irq_cps \/ irq_save
             \/ irq_dispatch \/ irq_restore \/ irq_rfe \/ switch_save \/ switch_sp \/ switch_sys
             \/ switch_usr \/ switch_svc \/ switch_load \/ first_sp \/ load_sys \/ load_usr
             \/ load_svc \/ load_pop \/ load_return \/ UNCHANGED vars
    <2>1. UNCHANGED <<ttbr, tlb, current, live>>
      BY Zenon, <1>3 DEF Raise, Withdraw, Interrupt, irq_adjust, irq_srs, irq_cps, irq_save, irq_dispatch,
         irq_restore, irq_rfe, switch_save, switch_sp, switch_sys, switch_usr, switch_svc,
         switch_load, first_sp, load_sys, load_usr, load_svc, load_pop, load_return, vars, mmu, sched
    <2> QED BY Zenon, <1>1, <2>1 DEF TableShape
  <1>4. CASE IdleYield \/ HandlerYield \/ UserAbort
    <2>1. UNCHANGED <<ttbr, tlb>> /\ live' \subseteq live /\ current' \in live
      BY Zenon, <1>4 DEF IdleYield, HandlerYield, UserAbort, CallSwitch, mmu
    <2> QED BY Zenon, <1>1, <2>1 DEF TableShape
  <1>5. CASE HandlerFork
    <2>1. UNCHANGED <<ttbr, tlb, current>> /\ \E c \in Forked : live' = live \cup {c}
      BY Zenon, <1>5 DEF HandlerFork, mmu
    <2> QED BY Zenon, <1>1, <2>1 DEF TableShape, Tasks
  <1>6. CASE switch_ttbr
    <2>1. UNCHANGED <<current, live>> /\ ttbr' = Pgd(g.r1[2]) /\ tlb' \in {tlb, ttbr'}
      BY Zenon, <1>6 DEF switch_ttbr, sched
    <2> QED BY Zenon, <1>1, <2>1 DEF TableShape, Pgd
  <1>7. CASE Evict \/ switch_tlb
    <2>1. UNCHANGED <<current, live, ttbr>> /\ tlb' = ttbr
      BY Zenon, <1>7 DEF Evict, switch_tlb, sched
    <2> QED BY Zenon, <1>1, <2>1 DEF TableShape
  <1> QED BY ZenonT(30), <1>2, <1>3, <1>4, <1>5, <1>6, <1>7 DEF Next

\* Every task keeps its context and its program.
LEMMA TasksStep ==
  ASSUME IInv, [Next]_vars
  PROVE  TasksShape'
  <1>1. TasksShape /\ current \in Tasks /\ sp \in StackPointer
    BY Zenon DEF IInv, Shape, TasksShape
  <1>2. CASE \/ UserCall \/ UserAbort \/ UserUndefined \/ halt_kernel \/ IdleCompute \/ IdleYield
             \/ IdleAlone \/ IdleBack \/ svc_save \/ svc_mrs \/ svc_psr \/ svc_enable \/ svc_call
             \/ HandlerYield \/ HandlerBack \/ exit_pop \/ exit_msr \/ exit_return
             \/ Raise \/ Withdraw \/ Interrupt
    <2>1. UNCHANGED <<context, user>>
      BY Zenon, <1>2 DEF UserCall, UserAbort, UserUndefined, halt_kernel, IdleCompute, IdleYield, IdleAlone,
         IdleBack, svc_save, svc_mrs, svc_psr, svc_enable, svc_call, HandlerYield, HandlerBack,
         exit_pop, exit_msr, exit_return, Raise, Withdraw, Interrupt, vars, sched
    <2> QED BY Zenon, <1>1, <2>1 DEF TasksShape
  <1>3. CASE \/ irq_adjust \/ irq_srs \/ irq_cps \/ irq_save \/ irq_dispatch \/ irq_restore \/ irq_rfe
             \/ switch_save \/ switch_sys \/ switch_svc \/ switch_ttbr \/ Evict \/ switch_tlb
             \/ switch_load \/ first_sp \/ load_sys \/ load_usr \/ load_svc \/ load_pop
             \/ load_return \/ UNCHANGED vars
    <2>1. UNCHANGED <<context, user>>
      BY Zenon, <1>3 DEF irq_adjust, irq_srs, irq_cps, irq_save, irq_dispatch, irq_restore, irq_rfe,
         switch_save, switch_sys, switch_svc, switch_ttbr, Evict, switch_tlb, switch_load, first_sp,
         load_sys, load_usr, load_svc, load_pop, load_return, vars, sched
    <2> QED BY Zenon, <1>1, <2>1 DEF TasksShape
  <1>4. CASE UserCompute \/ HandlerReturn
    <2>1. context' = context
      BY Zenon, <1>4 DEF UserCompute, HandlerReturn, sched
    <2>2. \/ user' = [user EXCEPT ![current] = [of |-> current, r0 |-> Val(current)]]
          \/ user' = [user EXCEPT ![current].r0 = Result(current)]
      BY Zenon, <1>4 DEF UserCompute, HandlerReturn
    <2>3. DOMAIN user' = Tasks /\ \A t \in Tasks : user'[t] = [of |-> user'[t].of, r0 |-> user'[t].r0]
      BY SMTT(30), <1>1, <2>2 DEF TasksShape
    <2> QED BY Zenon, <1>1, <2>1, <2>3 DEF TasksShape
  <1>5. CASE HandlerFork
    <2>1. PICK c \in Forked :
            /\ context' = [context EXCEPT ![c] = [sp |-> [area |-> c, depth |-> 3],
                                                  sp_usr |-> sp_usr, lr_usr |-> lr.usr]]
            /\ user' = [user EXCEPT ![c] = [of |-> user[current].of, r0 |-> <<"zero">>]]
      BY Zenon, <1>5 DEF HandlerFork
    <2>2. c \in Tasks /\ [area |-> c, depth |-> 3] \in StackPointer
      BY DEF Tasks, StackPointer, DEPTH
    <2>3. /\ DOMAIN context' = Tasks /\ DOMAIN user' = Tasks
          /\ context'[c] = [sp |-> [area |-> c, depth |-> 3], sp_usr |-> sp_usr, lr_usr |-> lr.usr]
          /\ user'[c] = [of |-> user[current].of, r0 |-> <<"zero">>]
          /\ \A t \in Tasks \ {c} : context'[t] = context[t] /\ user'[t] = user[t]
      BY ZenonT(30), <1>1, <2>1, <2>2 DEF TasksShape
    <2>4. /\ context'[c] = [sp |-> context'[c].sp, sp_usr |-> context'[c].sp_usr,
                            lr_usr |-> context'[c].lr_usr]
          /\ context'[c].sp \in StackPointer
          /\ user'[c] = [of |-> user'[c].of, r0 |-> user'[c].r0]
      BY SMTT(30), <2>2, <2>3
    <2> QED BY Zenon, <1>1, <2>3, <2>4 DEF TasksShape
  <1>6. CASE switch_sp
    <2>1. user' = user /\ context' = [context EXCEPT ![g.r0[2]].sp = sp]
      BY Zenon, <1>6 DEF switch_sp
    <2>2. g.r0[2] \in Tasks
      BY Zenon, <1>6, LeaveNow DEF switch_sp, Go, LeavePlaces
    <2>3. /\ DOMAIN context' = Tasks
          /\ \A t \in Tasks : /\ context'[t] = [sp |-> context'[t].sp, sp_usr |-> context'[t].sp_usr,
                                               lr_usr |-> context'[t].lr_usr]
                              /\ context'[t].sp \in StackPointer
      BY <1>1, <2>1, <2>2 DEF TasksShape
    <2> QED BY Zenon, <1>1, <2>1, <2>3 DEF TasksShape
  <1>7. CASE switch_usr
    <2> DEFINE a == g.r0[2]
               x == [context EXCEPT ![a].sp_usr = sp_usr]
    <2>1. user' = user /\ context' = [x EXCEPT ![a].lr_usr = lr.usr]
      BY Zenon, <1>7 DEF switch_usr
    <2>2. a \in Tasks
      BY Zenon, <1>7, LeaveNow DEF switch_usr, Go, LeavePlaces
    <2>3. /\ DOMAIN x = Tasks
          /\ \A t \in Tasks : /\ x[t] = [sp |-> x[t].sp, sp_usr |-> x[t].sp_usr, lr_usr |-> x[t].lr_usr]
                              /\ x[t].sp \in StackPointer
      BY <1>1, <2>2 DEF TasksShape
    <2> HIDE DEF a, x
    <2>4. /\ DOMAIN context' = Tasks
          /\ \A t \in Tasks : /\ context'[t] = [sp |-> context'[t].sp, sp_usr |-> context'[t].sp_usr,
                                               lr_usr |-> context'[t].lr_usr]
                              /\ context'[t].sp \in StackPointer
      BY SMTT(30), <2>1, <2>2, <2>3
    <2> QED BY Zenon, <1>1, <2>1, <2>4 DEF TasksShape
  <1> QED BY Zenon, <1>2, <1>3, <1>4, <1>5, <1>6, <1>7 DEF Next

\* Where a frame is popped there is one.
LEMMA PopDepth ==
  ASSUME IInv, at \in {"idle_back", "handler_back", "exit_pop", "exit_return", "load_pop",
                       "irq_restore", "irq_rfe"}
  PROVE  sp.depth > 0
  <1>1. CASE at \in {"irq_restore", "irq_rfe"}
    BY SMTT(30), <1>1, Depths
  <1>2. CASE at \in {"idle_back", "handler_back", "exit_pop", "exit_return", "load_pop"}
    <2>1. at \in OwnPlaces
      BY Zenon, <1>2 DEF OwnPlaces, IdlePlaces, SvcPlaces, ExitPlaces, LoadPlaces
    <2>2. Own(Now)
      BY Zenon, <2>1, OwnNow
    <2>3. at = "load_pop" => sp.depth \in 2 .. 5
      BY Zenon, <2>2, NowFacts DEF Own, Loads, Stacked
    <2>4. at = "idle_back" => sp.depth = 1
      BY Zenon, <2>2, NowFacts DEF Own, Idles
    <2>5. at \in {"handler_back", "exit_pop", "exit_return"} => sp.depth \in {1, 2, 4}
      BY Zenon, <2>2, NowFacts DEF Own, Called
    <2>6. sp.depth \in 2 .. 5 \/ sp.depth \in {1, 2, 4}
      BY Zenon, <1>2, <2>3, <2>4, <2>5
    <2> QED BY SMTT(30), <2>6
  <1> QED BY Zenon, <1>1, <1>2

\* No instruction pushes beyond a stack or pops an empty one.
LEMMA StackStep ==
  ASSUME IInv, [Next]_vars
  PROVE  sp' \in StackPointer /\ MemShape'
  <1>1. sp \in StackPointer /\ MemShape /\ Shape
    BY Zenon DEF IInv, Shape
  <1>2. ASSUME UNCHANGED <<sp, mem>> PROVE sp' \in StackPointer /\ MemShape'
    BY Zenon, <1>1, <1>2 DEF MemShape
  <1>3. ASSUME NEW f, Push(f), DOMAIN f = DOMAIN NoFrame,
               at \in Places \cup {"irq_srs", "irq_save"}
        PROVE  sp' \in StackPointer /\ MemShape'
    <2>1. sp.depth < DEPTH
      BY SMTT(30), <1>3, Depths DEF DEPTH
    <2> QED BY Zenon, <1>1, <1>3, <2>1, PushFacts
  <1>4. CASE \/ UserCompute \/ UserCall \/ UserUndefined \/ halt_kernel \/ IdleCompute \/ IdleAlone
             \/ svc_mrs \/ svc_enable \/ exit_msr \/ Raise \/ Withdraw \/ Interrupt \/ irq_adjust
             \/ irq_cps \/ irq_dispatch \/ switch_sp \/ switch_sys \/ switch_usr \/ switch_svc
             \/ switch_ttbr \/ Evict \/ switch_tlb \/ load_sys \/ load_usr \/ load_svc
             \/ load_return \/ UNCHANGED vars
    <2>1. UNCHANGED <<sp, mem>>
      BY Zenon, <1>4 DEF UserCompute, UserCall, UserUndefined, halt_kernel, IdleCompute, IdleAlone, svc_mrs,
         svc_enable, exit_msr, Raise, Withdraw, Interrupt, irq_adjust, irq_cps, irq_dispatch,
         switch_sp, switch_sys, switch_usr, switch_svc, switch_ttbr, Evict, switch_tlb, load_sys,
         load_usr, load_svc, load_return, vars, regs
    <2> QED BY Zenon, <1>2, <2>1
  <1>5. CASE svc_save \/ svc_psr \/ svc_call \/ irq_srs \/ irq_save \/ switch_save
    <2>1. at \in Places \cup {"irq_srs", "irq_save"}
      BY Zenon, <1>5 DEF svc_save, svc_psr, svc_call, irq_srs, irq_save, switch_save, Go,
                  Places, OwnPlaces, SvcPlaces, LeavePlaces
    <2>2. CASE svc_save \/ irq_save
      <3> DEFINE f == [NoFrame EXCEPT !.r0 = g.r0, !.r1 = g.r1, !.scr = g.scr, !.cal = g.cal,
                                      !.lr = lr.svc]
      <3>1. Push(f)
        BY Zenon, <2>2 DEF svc_save, irq_save
      <3>2. DOMAIN f = DOMAIN NoFrame
        BY Zenon DEF NoFrame
      <3> HIDE DEF f
      <3> QED BY Zenon, <1>3, <2>1, <3>1, <3>2
    <2>3. CASE svc_psr
      <3> DEFINE f == [NoFrame EXCEPT !.spsr = g.r0, !.r1 = g.r1]
      <3>1. Push(f)
        BY Zenon, <2>3 DEF svc_psr
      <3>2. DOMAIN f = DOMAIN NoFrame
        BY Zenon DEF NoFrame
      <3> HIDE DEF f
      <3> QED BY Zenon, <1>3, <2>1, <3>1, <3>2
    <2>4. CASE svc_call
      <3> DEFINE f == [NoFrame EXCEPT !.cal = g.cal, !.lr = Addr("exit_pop")]
      <3>1. Push(f)
        BY Zenon, <2>4 DEF svc_call
      <3>2. DOMAIN f = DOMAIN NoFrame
        BY Zenon DEF NoFrame
      <3> HIDE DEF f
      <3> QED BY Zenon, <1>3, <2>1, <3>1, <3>2
    <2>5. CASE irq_srs
      <3> DEFINE f == [NoFrame EXCEPT !.lr = lr.irq, !.spsr = spsr.irq]
      <3>1. Push(f)
        BY Zenon, <2>5 DEF irq_srs
      <3>2. DOMAIN f = DOMAIN NoFrame
        BY Zenon DEF NoFrame
      <3> HIDE DEF f
      <3> QED BY Zenon, <1>3, <2>1, <3>1, <3>2
    <2>6. CASE switch_save
      <3> DEFINE f == [NoFrame EXCEPT !.cal = g.cal, !.lr = lr.svc]
      <3>1. Push(f)
        BY Zenon, <2>6 DEF switch_save
      <3>2. DOMAIN f = DOMAIN NoFrame
        BY Zenon DEF NoFrame
      <3> HIDE DEF f
      <3> QED BY Zenon, <1>3, <2>1, <3>1, <3>2
    <2> QED BY Zenon, <1>5, <2>2, <2>3, <2>4, <2>5, <2>6
  <1>6. CASE IdleYield \/ HandlerYield \/ UserAbort
    <2> DEFINE f == [NoFrame EXCEPT !.cal = g.cal, !.lr = lr.svc]
    <2>1. Push(f)
      BY Zenon, <1>6 DEF IdleYield, HandlerYield, UserAbort, CallSwitch
    <2>2. DOMAIN f = DOMAIN NoFrame
      BY Zenon DEF NoFrame
    <2>3. at \in Places
      BY Zenon, <1>6 DEF IdleYield, HandlerYield, UserAbort, Places, OwnPlaces, UserPlaces, SvcPlaces, IdlePlaces
    <2> HIDE DEF f
    <2> QED BY Zenon, <1>3, <2>1, <2>2, <2>3
  <1>7. CASE IdleBack \/ HandlerBack \/ exit_pop \/ exit_return \/ irq_restore \/ irq_rfe \/ load_pop
    <2>1. Drop
      BY Zenon, <1>7 DEF IdleBack, HandlerBack, exit_pop, exit_return, irq_restore, irq_rfe, load_pop
    <2>2. at \in {"idle_back", "handler_back", "exit_pop", "exit_return", "load_pop",
                  "irq_restore", "irq_rfe"}
      BY Zenon, <1>7 DEF IdleBack, HandlerBack, exit_pop, exit_return, irq_restore, irq_rfe, load_pop, Go
    <2>3. sp.depth > 0
      BY Zenon, <2>2, PopDepth
    <2> QED BY Zenon, <1>1, <2>1, <2>3, DropFacts
  <1>8. CASE HandlerReturn
    <2>1. at = "handler" /\ sp' = [sp EXCEPT !.depth = @ - 1]
      BY Zenon, <1>8 DEF HandlerReturn
    <2>2. MemShape' /\ sp.depth = 3
      BY Zenon, <1>8, <2>1, ResultFacts
    <2>3. sp' \in StackPointer
      BY SMTT(30), <1>1, <2>1, <2>2 DEF StackPointer, DEPTH
    <2> QED BY Zenon, <2>2, <2>3
  <1>9. CASE HandlerFork
    <2>1. at = "handler" /\ sp' = sp
      BY Zenon, <1>9 DEF HandlerFork, regs
    <2>2. PICK c \in Forked \ live :
            mem' = [mem EXCEPT
             ![<<"user", c>>] = mem[<<"user", Pgd(current)>>],
             ![<<"kernel", c>>] =
                [[i \in 1 .. DEPTH |-> NoFrame] EXCEPT
                    ![1] = [mem[Behind(sp.area)][sp.depth - 2] EXCEPT !.r0 = <<"zero">>],
                    ![2] = mem[Behind(sp.area)][sp.depth - 1],
                    ![3] = task_stack_kernel]]
      BY Zenon, <1>9 DEF HandlerFork
    <2>3. MemShape'
      BY Zenon, <2>1, <2>2, ForkFacts
    <2> QED BY Zenon, <1>1, <2>1, <2>3
  <1>10. CASE switch_load \/ first_sp
    <2>1. mem' = mem /\ sp' = context[Resumed].sp
      BY Zenon, <1>10 DEF switch_load, first_sp
    <2>2. Resumed \in Tasks
      <3>1. CASE switch_load
        BY Zenon, <3>1, LeaveNow DEF switch_load, Go, MidPlaces
      <3>2. CASE first_sp
        <4>1. at = "first_sp" /\ at \in Places
          BY Zenon, <3>2 DEF first_sp, Go, Places
        <4>2. Running(Now)
          BY Zenon, <4>1 DEF IInv, Flow, Now
        <4>3. g.r0 = Val(current) /\ g.r1 = Junk /\ current \in Tasks
          BY Zenon, <4>1, <4>2, NowFacts DEF Running, Starting, IInv, Shape
        <4> QED BY SMTT(30), <4>3, WordFacts DEF Resumed
      <3> QED BY Zenon, <1>10, <3>1, <3>2
    <2>3. sp' \in StackPointer
      BY Zenon, <1>1, <2>1, <2>2 DEF Shape
    <2> QED BY Zenon, <1>1, <2>1, <2>3 DEF MemShape
  <1> QED BY Zenon, <1>4, <1>5, <1>6, <1>7, <1>8, <1>9, <1>10 DEF Next

-----------------------------------------------------------------------------
(* The invariant is inductive *)

\* A new stack has three frames, and there is room for them.
LEMMA DepthFacts == 0 \in 0 .. DEPTH /\ 3 \in 0 .. DEPTH /\ 3 \in 2 .. 5 /\ 3 - 1 = 2
  BY DEF DEPTH

\* start_first_task() finds idle and init as task_create() has made them.
LEMMA InitInv ==
  ASSUME Init
  PROVE  IInv
  <1> DEFINE k == <<"user", "kernel">>
             n == <<"kernel", "idle">>
  <1>1. /\ "idle" \in Tasks /\ "init" \in Tasks /\ "idle" # "init" /\ "init" \notin Forked
        /\ "idle" \notin Forked
    BY Zenon, CpuAssumption DEF Tasks
  <1>2. /\ k \in Memories /\ n \in Memories /\ k # n
        /\ Home("init") = k /\ Home("idle") = n
    BY Zenon DEF Memories, Home
  <1>3. \A e, m : /\ NewStack(e, m)[1] = task_stack_init(e)
                  /\ NewStack(e, m)[2] = task_stack_spsr(m)
                  /\ NewStack(e, m)[3] = task_stack_kernel
    BY SMTT(30) DEF NewStack, DEPTH
  <1>4. /\ mem[k] = NewStack("user_start", "usr") /\ mem[n] = NewStack("idle_start", "svc")
        /\ DOMAIN mem = Memories
        /\ \A m \in Memories : \/ mem[m] = NewStack("user_start", "usr")
                               \/ mem[m] = NewStack("idle_start", "svc")
                               \/ mem[m] = [i \in 1 .. DEPTH |-> NoFrame]
    BY Zenon, <1>2 DEF Init
  <1>5. Shape
    <2>1. MemShape
      <3>1. \A e, m, i : i \in 1 .. DEPTH =>
               NewStack(e, m)[i] \in {task_stack_init(e), task_stack_spsr(m), task_stack_kernel, NoFrame}
        BY Zenon DEF NewStack
      <3>2. \A e, m : /\ DOMAIN task_stack_init(e) = DOMAIN NoFrame
                      /\ DOMAIN task_stack_spsr(m) = DOMAIN NoFrame
                      /\ DOMAIN task_stack_kernel = DOMAIN NoFrame
        BY Zenon DEF task_stack_init, task_stack_spsr, task_stack_kernel, NoFrame
      <3>3. \A e, m : DOMAIN NewStack(e, m) = 1 .. DEPTH
        BY Zenon DEF NewStack
      <3>4. \A e, m, i : i \in 1 .. DEPTH => DOMAIN NewStack(e, m)[i] = DOMAIN NoFrame
        BY Zenon, <3>1, <3>2
      <3>5. \A m \in Memories : DOMAIN mem[m] = 1 .. DEPTH
        BY SMTT(30), <1>4, <3>3
      <3>6. \A m \in Memories, i \in 1 .. DEPTH : DOMAIN mem[m][i] = DOMAIN NoFrame
        <4> SUFFICES ASSUME NEW m \in Memories, NEW i \in 1 .. DEPTH
                     PROVE  DOMAIN mem[m][i] = DOMAIN NoFrame
          BY Zenon
        <4>1. CASE mem[m] = NewStack("user_start", "usr") \/ mem[m] = NewStack("idle_start", "svc")
          BY <3>4, <4>1, Zenon
        <4>2. CASE mem[m] = [j \in 1 .. DEPTH |-> NoFrame]
          <5>1. mem[m][i] = NoFrame
            BY Zenon, <4>2
          <5> QED BY Zenon, <5>1
        <4> QED BY Zenon, <1>4, <4>1, <4>2
      <3> QED BY Zenon, <1>4, <3>5, <3>6 DEF MemShape
    <2>2. RegsShape
      BY Zenon DEF Init, RegsShape
    <2>3. TableShape
      BY Zenon, <1>1 DEF Init, TableShape
    <2>4. sp \in StackPointer
      <3>1. sp = [area |-> "boot", depth |-> 0]
        BY Zenon DEF Init
      <3> QED BY Zenon, <3>1, DepthFacts DEF StackPointer
    <2>5. TasksShape
      <3>1. /\ DOMAIN context = Tasks /\ DOMAIN user = Tasks
            /\ \A t \in Tasks : \E d \in {0, 3} :
                  context[t] = [sp |-> [area |-> t, depth |-> d], sp_usr |-> Val(t),
                                lr_usr |-> Addr("user_start")]
            /\ \A t \in Tasks : user[t] = [of |-> t, r0 |-> Val(t)]
        BY Zenon DEF Init
      <3>2. \A t \in Tasks, d \in {0, 3} : [area |-> t, depth |-> d] \in StackPointer
        BY Zenon, DepthFacts DEF StackPointer
      <3>3. \A t \in Tasks : user[t] = [of |-> user[t].of, r0 |-> user[t].r0]
        BY SMTT(30), <3>1
      <3>4. ASSUME NEW t \in Tasks
            PROVE  /\ context[t].sp \in StackPointer
                   /\ context[t] = [sp |-> context[t].sp, sp_usr |-> context[t].sp_usr,
                                    lr_usr |-> context[t].lr_usr]
        <4>1. PICK d \in {0, 3} :
                  context[t] = [sp |-> [area |-> t, depth |-> d], sp_usr |-> Val(t),
                                lr_usr |-> Addr("user_start")]
          BY Zenon, <3>1
        <4>2. [area |-> t, depth |-> d] \in StackPointer
          BY Zenon, <3>2
        <4> QED BY SMTT(30), <4>1, <4>2
      <3> QED BY Zenon, <3>1, <3>3, <3>4 DEF TasksShape
    <2> QED BY Zenon, <2>1, <2>2, <2>3, <2>4, <2>5, ShapeParts
  <1>6. Saved(Now, "idle")
    <2>1. context["idle"].sp.area = "idle" /\ context["idle"].sp.depth = 3
      BY Zenon, <1>1 DEF Init
    <2>2. /\ task_stack_init("idle_start").lr = Addr("idle_start")
          /\ task_stack_spsr("svc").spsr = Psr("svc", FALSE)
          /\ task_stack_kernel.lr = Addr("exit_pop")
      BY Zenon DEF task_stack_init, task_stack_spsr, task_stack_kernel, NoFrame
    <2>3. /\ mem[n][1].lr = Addr("idle_start") /\ mem[n][2].spsr = PsrOf("idle")
          /\ mem[n][3].lr = Addr("exit_pop")
      <3> DEFINE s == NewStack("idle_start", "svc")
      <3>1. mem[n] = s
        BY Zenon, <1>4
      <3>2. s[1] = task_stack_init("idle_start") /\ s[2] = task_stack_spsr("svc") /\ s[3] = task_stack_kernel
        BY Zenon, <1>3
      <3>3. PsrOf("idle") = Psr("svc", FALSE)
        BY Zenon, <1>1 DEF PsrOf
      <3> HIDE DEF n, s
      <3> QED BY Zenon, <2>2, <3>1, <3>2, <3>3
    <2>4. \A su, lu : Exiting(Now, "idle", su, lu)
      BY Zenon, <1>2, <2>3, NowFacts DEF Exiting, Entry
    <2>5. \A su, lu : Stacked(Now, "idle", 3, su, lu)
      <3>1. Now.mem[Home("idle")][3].lr = Addr("exit_pop")
        BY Zenon, <1>2, <2>3, NowFacts
      <3>2. \A su, lu : Returns(Now, "idle", 2, Addr("exit_pop"), su, lu)
        BY Zenon, <2>4 DEF Returns
      <3> QED BY Zenon, <3>1, <3>2, DepthFacts DEF Stacked
    <2> QED BY Zenon, <2>1, <2>5, NowFacts DEF Saved
  <1>7. Saved(Now, "init")
    <2>1. context["init"].sp.area = "init" /\ context["init"].sp.depth = 3
      BY Zenon, <1>1 DEF Init
    <2>2. /\ task_stack_init("user_start").lr = Addr("user_start")
          /\ task_stack_spsr("usr").spsr = Psr("usr", FALSE)
          /\ task_stack_kernel.lr = Addr("exit_pop")
      BY Zenon DEF task_stack_init, task_stack_spsr, task_stack_kernel, NoFrame
    <2>3. /\ mem[k][1].lr = Addr("user_start") /\ mem[k][2].spsr = PsrOf("init")
          /\ mem[k][3].lr = Addr("exit_pop")
      <3> DEFINE s == NewStack("user_start", "usr")
      <3>1. mem[k] = s
        BY Zenon, <1>4
      <3>2. s[1] = task_stack_init("user_start") /\ s[2] = task_stack_spsr("usr") /\ s[3] = task_stack_kernel
        BY Zenon, <1>3
      <3>3. PsrOf("init") = Psr("usr", FALSE)
        BY Zenon, <1>1 DEF PsrOf
      <3> HIDE DEF k, s
      <3> QED BY Zenon, <2>2, <3>1, <3>2, <3>3
    <2>4. \A su, lu : Exiting(Now, "init", su, lu)
      BY Zenon, <1>1, <1>2, <2>3, NowFacts DEF Exiting, Entry
    <2>5. \A su, lu : Stacked(Now, "init", 3, su, lu)
      <3>1. Now.mem[Home("init")][3].lr = Addr("exit_pop")
        BY Zenon, <1>2, <2>3, NowFacts
      <3>2. \A su, lu : Returns(Now, "init", 2, Addr("exit_pop"), su, lu)
        BY Zenon, <2>4 DEF Returns
      <3> QED BY Zenon, <3>1, <3>2, DepthFacts DEF Stacked
    <2> QED BY Zenon, <2>1, <2>5, NowFacts DEF Saved
  <1>8. Starting(Now)
    <2>1. Now.live = {"idle", "init"}
      BY Zenon, NowFacts DEF Init
    <2>2. AllSaved(Now, Now.live)
      BY Zenon, <1>6, <1>7, <2>1 DEF AllSaved
    <2>3. /\ Now.area = "boot" /\ Now.d = 0 /\ Now.current = "idle"
          /\ Now.ttbr = "kernel" /\ Now.tlb = "kernel"
      BY Zenon, NowFacts DEF Init
    <2>4. Now.r.r0 = Val("idle") /\ Now.r.r1 = Junk
      <3>1. Now.r = [r0 |-> Val("idle"), r1 |-> Junk, scr |-> Junk, cal |-> Junk]
        BY Zenon, NowFacts DEF Init
      <3> QED BY SMTT(30), <3>1
    <2> QED BY Zenon, <2>2, <2>3, <2>4 DEF Starting
  <1>9. Running(Now) /\ at = "first_sp" /\ at \in Places
    BY Zenon, <1>8, NowFacts, PlacesApart DEF Running, Init
  <1>10. Flow
    BY Zenon, <1>9 DEF Flow, Init, Now, ModeOf, UserPlaces, IrqPlaces
  <1> QED BY Zenon, <1>5, <1>10 DEF IInv

\* Every instruction finds, and leaves, what the next one relies on.
LEMMA FlowStep ==
  ASSUME IInv, ~Evicts, [Next]_vars
  PROVE  Flow'
  <1>1. CASE UserCompute \/ UserCall \/ UserAbort
    BY Zenon, <1>1, UserComputeStep, UserCallStep, UserAbortStep
  <1>2. CASE UserUndefined
    BY Zenon, <1>2, HaltStep DEF UserUndefined, Go
  <1>3. CASE halt_kernel \/ UNCHANGED vars
    BY Zenon, <1>3, QuietStep DEF halt_kernel, vars, intc
  <1>4. CASE IdleCompute \/ IdleYield \/ IdleAlone \/ IdleBack
    BY Zenon, <1>4, IdleComputeStep, IdleYieldStep, IdleAloneStep, IdleBackStep
  <1>5. CASE svc_save \/ svc_mrs \/ svc_psr \/ svc_enable \/ svc_call
    BY Zenon, <1>5, SvcSaveStep, SvcMrsStep, SvcPsrStep, SvcEnableStep, SvcCallStep
  <1>6. CASE HandlerReturn \/ HandlerYield \/ HandlerBack \/ HandlerFork
    BY Zenon, <1>6, HandlerReturnStep, HandlerYieldStep, HandlerBackStep, HandlerForkStep
  <1>7. CASE exit_pop \/ exit_msr \/ exit_return
    BY Zenon, <1>7, ExitPopStep, ExitMsrStep, ExitReturnStep
  <1>8. CASE Raise \/ Withdraw
    BY SMTT(30), <1>8, QuietStep DEF Raise, Withdraw
  <1>9. CASE Interrupt \/ irq_adjust \/ irq_srs \/ irq_cps
    BY Zenon, <1>9, InterruptStep, AdjustStep, SrsStep, CpsStep
  <1>10. CASE irq_save \/ irq_dispatch \/ irq_restore \/ irq_rfe
    BY Zenon, <1>10, SaveStep, DispatchStep, RestoreStep, RfeStep
  <1>11. CASE switch_save \/ switch_sp \/ switch_usr \/ switch_ttbr
    BY Zenon, <1>11, SwitchSaveStep, SwitchSpStep, SwitchUsrStep, SwitchTtbrStep
  <1>12. CASE switch_sys
    BY Zenon, <1>12, LeaveQuiet DEF switch_sys, Go
  <1>13. CASE switch_svc
    BY Zenon, <1>13, LeaveQuiet DEF switch_svc, Go
  <1>14. CASE Evict \/ switch_tlb \/ switch_load \/ first_sp
    BY Zenon, <1>14, EvictStep, SwitchTlbStep, SwitchLoadStep, FirstSpStep
  <1>15. CASE load_sys \/ load_usr \/ load_svc \/ load_pop \/ load_return
    BY Zenon, <1>15, LoadSysStep, LoadUsrStep, LoadSvcStep, LoadPopStep, LoadReturnStep
  <1> QED BY Zenon, <1>1, <1>2, <1>3, <1>4, <1>5, <1>6, <1>7, <1>8, <1>9, <1>10, <1>11, <1>12, <1>13,
             <1>14, <1>15 DEF Next

\* Before every instruction of the kernel and of the programs, whatever
\* interrupt, switch, fork or abort came before it, the stacks hold what the
\* next instructions of the assembly rely on.  It is assumed that the TLB keeps
\* the entry of init's kernel stack while context_switch() is on that stack.
THEOREM Inductive == ASSUME ~Evicts PROVE Spec => []IInv
  <1>1. Init => IInv
    BY Zenon, InitInv
  <1>2. IInv /\ [Next]_vars => IInv'
    <2>1. SUFFICES ASSUME IInv, [Next]_vars PROVE IInv'
      BY Zenon
    <2>2. Flow'
      BY Zenon, <2>1, FlowStep
    <2>3. RegsShape
      BY Zenon, <2>1 DEF IInv, Shape, RegsShape
    <2>4. RegsShape' /\ TableShape' /\ TasksShape' /\ sp' \in StackPointer /\ MemShape'
      BY Zenon, <2>1, <2>3, RegsStep, TableStep, TasksStep, StackStep
    <2>5. Shape'
      BY Zenon, <2>4, NextShapeParts
    <2> QED BY Zenon, <2>2, <2>5 DEF IInv
  <1> QED BY <1>1, <1>2, PTL DEF Spec

\* What the invariant says of a program and of the idle loop.
LEMMA AtHome ==
  ASSUME IInv
  PROVE  ContextKept /\ NothingLeftBehind
  <1>1. at # "lost"
    BY Zenon DEF IInv, Flow, Places, OwnPlaces, UserPlaces, SvcPlaces, ExitPlaces, IdlePlaces, LoadPlaces,
           LeavePlaces, MidPlaces, IrqPlaces
  <1>2. ASSUME at \in {"user", "returned", "idle"}
        PROVE  /\ Own(Now) /\ mode = ModeOf(at) /\ ~serving
               /\ sp.area = current /\ ttbr = Pgd(current) /\ tlb = ttbr
    <2>1. at \in OwnPlaces
      BY Zenon, <1>2 DEF OwnPlaces, UserPlaces, IdlePlaces
    <2> QED BY Zenon, <2>1, OwnNow
  <1>3. at \in {"user", "returned"} =>
           /\ mode = "usr" /\ ~masked
           /\ g.r0 = user[current].r0 /\ sp.depth = 0
           /\ \A w \in {g.r1, g.scr, g.cal, lr.usr, sp_usr} : w = Val(user[current].of)
    BY Zenon, <1>2, NowFacts DEF Own, Called, Registers, UserPlaces, ModeOf, IInv, Flow
  <1>4. at = "idle" => g.cal = Val("idle") /\ sp.depth = 0
    BY Zenon, <1>2, NowFacts DEF Own, Idles
  <1>5. sp = [area |-> sp.area, depth |-> sp.depth]
    BY Zenon DEF IInv, Shape, StackPointer
  <1>6. ContextKept
    BY Zenon, <1>1, <1>2, <1>3, <1>4 DEF ContextKept
  <1>7. NothingLeftBehind
    BY Zenon, <1>2, <1>3, <1>4, <1>5 DEF NothingLeftBehind
  <1> QED BY Zenon, <1>6, <1>7

\* exception_entry.S and context_switch.S give every program its registers,
\* its stack pointer, its link register and its page table back as it left
\* them, with the result of a system call in r0, for any number of tasks and
\* of faults; the idle loop keeps its callee-saved registers.
THEOREM ContextIsKept == ASSUME ~Evicts PROVE Spec => []ContextKept
  <1>1. IInv => ContextKept
    BY Zenon, AtHome
  <1> QED BY <1>1, Inductive, PTL

\* A program or the idle loop runs on an empty kernel stack and with no
\* interrupt unacknowledged: no sequence of system calls, interrupts, switches
\* and aborts uses up a kernel stack or silences the interrupt controller.
THEOREM NothingIsLeftBehind == ASSUME ~Evicts PROVE Spec => []NothingLeftBehind
  <1>1. IInv => NothingLeftBehind
    BY Zenon, AtHome
  <1> QED BY <1>1, Inductive, PTL

=============================================================================
