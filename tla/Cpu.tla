--------------------------------- MODULE Cpu ---------------------------------
(***************************************************************************)
(* What the assembly of the kernel promises to every task: whatever        *)
(* happens between two of its instructions, the task finds its registers,  *)
(* its stack and its address space as it left them.  The module follows    *)
(* exception_entry.S and context_switch.S instruction by instruction; an   *)
(* interrupt can be taken before each of them while CPSR.I is clear.       *)
(*                                                                         *)
(* Registers are grouped by what the code does with them: r0 and r1, the   *)
(* other caller-saved registers (r2, r3, r12) and the callee-saved ones    *)
(* (r4-r11).  A store-multiple is one frame of the stack it writes.        *)
(*                                                                         *)
(* The kernel stack of init lies in user space (main.c), so its address    *)
(* means what the translation of the user section says; the stacks of idle *)
(* and of forked tasks are mapped by every page table.                     *)
(***************************************************************************)
EXTENDS Integers, FiniteSets, Sequences, TLC

CONSTANTS
    Forked,        \* names of the tasks that fork() can make
    MAX_FAULTS,    \* bound: user faults of a behaviour
    Evicts         \* the TLB entry of init's stack can be evicted while init is on it

Tasks == {"idle", "init"} \cup Forked

\* Every stack of the model fits in DEPTH frames.
DEPTH == 7

ASSUME CpuAssumption ==
    /\ Forked \cap {"idle", "init", "boot", "kernel"} = {}
    /\ MAX_FAULTS \in Nat
    /\ Evicts \in BOOLEAN

VARIABLES
    at,         \* the instruction to be executed
    mode,       \* CPSR mode
    masked,     \* CPSR.I
    g,          \* r0, r1, the scratch and the callee-saved registers
    lr,         \* LR of user, supervisor and interrupt mode
    spsr,       \* SPSR of supervisor and interrupt mode
    sp,         \* SP_svc: a stack and how many frames it holds
    sp_usr,     \* SP_usr
    ttbr,       \* TTBR0: whose page table is installed
    tlb,        \* the page table through which user addresses resolve
    mem,        \* the memory behind the stacks
    context,    \* task_struct.context of every task
    current,    \* current_task
    live,       \* tasks of the table that are not zombies
    frames_abt, \* frames on the ABT stack
    lines,      \* interrupt lines that are raised
    serving,    \* the INTC waits for the end-of-interrupt
    user        \* ghost: what the program of each task left in its registers

regs == <<g, lr, spsr, sp, sp_usr>>
mmu  == <<ttbr, tlb>>
sched == <<context, current, live, frames_abt>>
intc == <<lines, serving>>
vars == <<at, mode, masked, regs, mmu, mem, sched, intc, user>>

-----------------------------------------------------------------------------
(* Words, frames and stacks *)

Junk       == <<"junk">>
Val(t)     == <<"val", t>>          \* a value the program of t computed
Result(t)  == <<"result", t>>       \* what a system call returned to t
Addr(l)    == <<"addr", l>>
Addr4(l)   == <<"addr+4", l>>       \* what the CPU leaves in LR
Psr(m, i)  == <<"psr", m, IF i THEN "masked" ELSE "open">>

NoFrame == [r0 |-> Junk, r1 |-> Junk, scr |-> Junk, cal |-> Junk,
            lr |-> Junk, spsr |-> Junk]

Pgd(t) == IF t \in Forked THEN t ELSE "kernel"

\* The memory a stack address denotes: that of init's stack depends on the
\* translation of the user section.
Behind(area) == IF area = "init" THEN <<"user", tlb>> ELSE <<"kernel", area>>

Memories == ({"user"} \X ({"kernel"} \cup Forked))
            \cup ({"kernel"} \X ({"boot", "idle"} \cup Forked))

Push(f) ==
    /\ mem' = [mem EXCEPT ![Behind(sp.area)][sp.depth + 1] = f]
    /\ sp'  = [sp EXCEPT !.depth = @ + 1]

Top == mem[Behind(sp.area)][sp.depth]

Drop ==
    /\ mem' = [mem EXCEPT ![Behind(sp.area)][sp.depth] = NoFrame]
    /\ sp'  = [sp EXCEPT !.depth = @ - 1]

Go(from, to) == at = from /\ at' = to

\* A jump to a word of the stack or of a register.
JumpTo(w) == at' = IF w[1] = "addr" THEN w[2] ELSE "lost"

-----------------------------------------------------------------------------
(* Frames that the kernel builds for a task that has not run *)

\* task_stack_init(): r0 and r1 are zero, the context returns to the
\* trampoline, and kernel tasks start in supervisor mode.
task_stack_init(entry) ==
    [NoFrame EXCEPT !.r0 = <<"zero">>, !.r1 = <<"zero">>, !.scr = Val("bad"),
                    !.cal = Val("bad"), !.lr = Addr(entry)]
task_stack_spsr(m) == [NoFrame EXCEPT !.spsr = Psr(m, FALSE)]
task_stack_kernel  == [NoFrame EXCEPT !.lr = Addr("exit_pop")]

NewStack(entry, m) ==
    [i \in 1 .. DEPTH |-> CASE i = 1 -> task_stack_init(entry)
                            [] i = 2 -> task_stack_spsr(m)
                            [] i = 3 -> task_stack_kernel
                            [] OTHER -> NoFrame]

\* scheduler_start() has made idle current and start_first_task() begins, on
\* the boot stack, with interrupts enabled by irq_enable().
Init ==
    /\ at = "first_sp" /\ mode = "svc" /\ masked = FALSE
    /\ g = [r0 |-> Val("idle"), r1 |-> Junk, scr |-> Junk, cal |-> Junk]
    /\ lr = [usr |-> Junk, svc |-> Junk, irq |-> Junk]
    /\ spsr = [svc |-> Junk, irq |-> Junk]
    /\ sp = [area |-> "boot", depth |-> 0] /\ sp_usr = Junk
    /\ ttbr = "kernel" /\ tlb = "kernel"
    /\ mem = [m \in Memories |->
                IF m = <<"user", "kernel">> THEN NewStack("user_start", "usr")
                ELSE IF m = <<"kernel", "idle">> THEN NewStack("idle_start", "svc")
                ELSE [i \in 1 .. DEPTH |-> NoFrame]]
    /\ context = [t \in Tasks |->
                    [sp     |-> [area |-> t, depth |-> IF t \in Forked THEN 0 ELSE 3],
                     sp_usr |-> Val(t), lr_usr |-> Addr("user_start")]]
    /\ current = "idle" /\ live = {"idle", "init"}
    /\ frames_abt = 0
    /\ lines = {} /\ serving = FALSE
    /\ user = [t \in Tasks |-> [of |-> t, r0 |-> Val(t)]]

-----------------------------------------------------------------------------
(* The programs *)

\* A program in user mode computes: its registers, its stack pointer and its
\* link register now hold values of its own.
UserCompute ==
    /\ at \in {"user_start", "user", "returned"} /\ mode = "usr" /\ at' = "user"
    /\ g' = [r \in DOMAIN g |-> Val(current)]
    /\ lr' = [lr EXCEPT !.usr = Val(current)] /\ sp_usr' = Val(current)
    /\ user' = [user EXCEPT ![current] = [of |-> current, r0 |-> Val(current)]]
    /\ UNCHANGED <<mode, masked, spsr, sp, mmu, mem, sched, intc>>

\* svc #0: the CPU enters supervisor mode with interrupts masked.
UserCall ==
    /\ Go("user", "svc_save") /\ mode = "usr"
    /\ mode' = "svc" /\ masked' = TRUE
    /\ lr' = [lr EXCEPT !.svc = Addr("returned")]
    /\ spsr' = [spsr EXCEPT !.svc = Psr("usr", masked)]
    /\ UNCHANGED <<g, sp, sp_usr, mmu, mem, sched, intc, user>>

\* The idle loop keeps its state in callee-saved registers.
IdleCompute ==
    /\ Go("idle_start", "idle")
    /\ g' = [r \in DOMAIN g |-> Val("idle")]
    /\ UNCHANGED <<mode, masked, lr, spsr, sp, sp_usr, mmu, mem, sched, intc, user>>

\* scheduler_yield() calls context_switch(prev, next): C code has saved what
\* it must preserve in its own frame and passes the tasks in r0 and r1.
CallSwitch(next, back) ==
    /\ at' = "switch_save"
    /\ Push([NoFrame EXCEPT !.cal = g.cal, !.lr = lr.svc])
    /\ g' = [r0 |-> Val(current), r1 |-> Val(next), scr |-> Junk, cal |-> Junk]
    /\ lr' = [lr EXCEPT !.svc = Addr(back)]
    /\ current' = next

\* The idle loop yields; without another task the call returns.  Like every
\* caller of scheduler_yield() it sets need_reschedule first, so the gate of
\* scheduler_yield() is open (module Process).
IdleYield ==
    /\ at = "idle" /\ \E t \in live \ {"idle"} : CallSwitch(t, "idle_back")
    /\ UNCHANGED <<mode, masked, spsr, sp_usr, mmu, context, live, frames_abt, intc, user>>

IdleAlone ==
    /\ at = "idle" /\ live = {"idle"}
    /\ UNCHANGED <<at, mode, masked, regs, mmu, mem, context, current, live,
                   frames_abt, intc, user>>

IdleBack ==
    /\ Go("idle_back", "idle")
    /\ g' = [r0 |-> Val("idle"), r1 |-> Val("idle"), scr |-> Val("idle"), cal |-> Top.cal]
    /\ lr' = [lr EXCEPT !.svc = Top.lr] /\ Drop
    /\ UNCHANGED <<mode, masked, spsr, sp_usr, mmu, sched, intc, user>>

-----------------------------------------------------------------------------
(* exception_entry_svc and svc_exit_trampoline *)

svc_save ==
    /\ Go("svc_save", "svc_mrs")
    /\ Push([NoFrame EXCEPT !.r0 = g.r0, !.r1 = g.r1, !.scr = g.scr,
                            !.cal = g.cal, !.lr = lr.svc])
    /\ UNCHANGED <<mode, masked, g, lr, spsr, sp_usr, mmu, sched, intc, user>>

svc_mrs ==
    /\ Go("svc_mrs", "svc_psr")
    /\ g' = [g EXCEPT !.r0 = spsr.svc, !.r1 = <<"zero">>]
    /\ UNCHANGED <<mode, masked, lr, spsr, sp, sp_usr, mmu, mem, sched, intc, user>>

svc_psr ==
    /\ Go("svc_psr", "svc_enable")
    /\ Push([NoFrame EXCEPT !.spsr = g.r0, !.r1 = g.r1])
    /\ UNCHANGED <<mode, masked, g, lr, spsr, sp_usr, mmu, sched, intc, user>>

svc_enable ==
    /\ Go("svc_enable", "svc_call")
    /\ masked' = FALSE
    /\ UNCHANGED <<mode, regs, mmu, mem, sched, intc, user>>

\* bl svc_handler: C code keeps the callee-saved registers and the return
\* address in its frame and uses all the others.
svc_call ==
    /\ Go("svc_call", "handler")
    /\ Push([NoFrame EXCEPT !.cal = g.cal, !.lr = Addr("exit_pop")])
    /\ g' = [r \in DOMAIN g |-> Junk]
    /\ lr' = [lr EXCEPT !.svc = Junk]
    /\ UNCHANGED <<mode, masked, spsr, sp_usr, mmu, sched, intc, user>>

\* svc_handler() stores the result in the r0 of the saved context.
HandlerReturn ==
    /\ at = "handler" /\ JumpTo(Top.lr)
    /\ mem' = [mem EXCEPT ![Behind(sp.area)][sp.depth] = NoFrame,
                          ![Behind(sp.area)][sp.depth - 2].r0 = Result(current)]
    /\ sp' = [sp EXCEPT !.depth = @ - 1]
    /\ g' = [g EXCEPT !.cal = Top.cal]
    /\ user' = [user EXCEPT ![current].r0 = Result(current)]
    /\ UNCHANGED <<mode, masked, lr, spsr, sp_usr, mmu, sched, intc>>

\* sys_yield(), and the calls that block.
HandlerYield ==
    /\ at = "handler"
    /\ \E t \in live \ {current} : CallSwitch(t, "handler_back")
    /\ UNCHANGED <<mode, masked, spsr, sp_usr, mmu, context, live, frames_abt, intc, user>>

HandlerBack ==
    /\ Go("handler_back", "handler")
    /\ g' = [g EXCEPT !.cal = Top.cal] /\ lr' = [lr EXCEPT !.svc = Top.lr] /\ Drop
    /\ UNCHANGED <<mode, masked, spsr, sp_usr, mmu, sched, intc, user>>

\* do_fork(): the user memory is copied, the child's kernel stack repeats the
\* saved context of the parent with r0 = 0, and the user SP and LR are read
\* from the live registers.
HandlerFork ==
    /\ at = "handler"
    /\ \E c \in Forked \ live :
        /\ context[c].sp.depth = 0      \* each name is used once
        /\ mem' = [mem EXCEPT
             ![<<"user", c>>] = mem[<<"user", Pgd(current)>>],
             ![<<"kernel", c>>] =
                [[i \in 1 .. DEPTH |-> NoFrame] EXCEPT
                    ![1] = [mem[Behind(sp.area)][sp.depth - 2] EXCEPT !.r0 = <<"zero">>],
                    ![2] = mem[Behind(sp.area)][sp.depth - 1],
                    ![3] = task_stack_kernel]]
        /\ context' = [context EXCEPT ![c] = [sp |-> [area |-> c, depth |-> 3],
                                              sp_usr |-> sp_usr, lr_usr |-> lr.usr]]
        /\ live' = live \cup {c}
        /\ user' = [user EXCEPT ![c] = [of |-> user[current].of, r0 |-> <<"zero">>]]
    /\ UNCHANGED <<at, mode, masked, regs, mmu, current, frames_abt, intc>>

exit_pop ==
    /\ Go("exit_pop", "exit_msr")
    /\ g' = [g EXCEPT !.r0 = Top.spsr, !.r1 = Top.r1] /\ Drop
    /\ UNCHANGED <<mode, masked, lr, spsr, sp_usr, mmu, sched, intc, user>>

exit_msr ==
    /\ Go("exit_msr", "exit_return")
    /\ spsr' = [spsr EXCEPT !.svc = g.r0]
    /\ UNCHANGED <<mode, masked, g, lr, sp, sp_usr, mmu, mem, sched, intc, user>>

\* ldmfd sp!, {r0-r12, pc}^ also reloads CPSR.
exit_return ==
    /\ at = "exit_return" /\ JumpTo(Top.lr)
    /\ g' = [r \in DOMAIN g |-> Top[r]]
    /\ mode' = IF spsr.svc[1] = "psr" THEN spsr.svc[2] ELSE mode
    /\ masked' = (spsr.svc[1] = "psr" /\ spsr.svc[3] = "masked")
    /\ Drop
    /\ UNCHANGED <<lr, spsr, sp_usr, mmu, sched, intc, user>>

-----------------------------------------------------------------------------
(* exception_entry_irq, irq_dispatch() and the devices *)

Raise ==
    /\ \E l \in {"timer", "uart"} \ lines : lines' = lines \cup {l}
    /\ UNCHANGED <<at, mode, masked, regs, mmu, mem, sched, serving, user>>

\* A line falls before the kernel has asked which one it was.
Withdraw ==
    /\ "uart" \in lines /\ lines' = lines \ {"uart"}
    /\ UNCHANGED <<at, mode, masked, regs, mmu, mem, sched, serving, user>>

Interrupt ==
    /\ ~masked /\ lines # {} /\ ~serving /\ at \notin {"lost", "halted"}
    /\ at' = "irq_adjust" /\ mode' = "irq" /\ masked' = TRUE /\ serving' = TRUE
    /\ lr' = [lr EXCEPT !.irq = Addr4(at)]
    /\ spsr' = [spsr EXCEPT !.irq = Psr(mode, masked)]
    /\ UNCHANGED <<g, sp, sp_usr, mmu, mem, sched, lines, user>>

irq_adjust ==
    /\ Go("irq_adjust", "irq_srs")
    /\ lr' = [lr EXCEPT !.irq = Addr(@[2])]
    /\ UNCHANGED <<mode, masked, g, spsr, sp, sp_usr, mmu, mem, sched, intc, user>>

\* srsdb sp!, #0x13 stores on the supervisor stack of the interrupted task.
irq_srs ==
    /\ Go("irq_srs", "irq_cps")
    /\ Push([NoFrame EXCEPT !.lr = lr.irq, !.spsr = spsr.irq])
    /\ UNCHANGED <<mode, masked, g, lr, spsr, sp_usr, mmu, sched, intc, user>>

irq_cps ==
    /\ Go("irq_cps", "irq_save")
    /\ mode' = "svc"
    /\ UNCHANGED <<masked, regs, mmu, mem, sched, intc, user>>

irq_save ==
    /\ Go("irq_save", "irq_call")
    /\ Push([NoFrame EXCEPT !.r0 = g.r0, !.r1 = g.r1, !.scr = g.scr,
                            !.cal = g.cal, !.lr = lr.svc])
    /\ UNCHANGED <<mode, masked, g, lr, spsr, sp_usr, mmu, sched, intc, user>>

\* Mutant: a spurious interrupt is not acknowledged.
irq_dispatch_no_eoi ==
    /\ Go("irq_call", "irq_restore")
    /\ g' = [g EXCEPT !.r0 = Junk, !.r1 = Junk, !.scr = Junk]
    /\ lr' = [lr EXCEPT !.svc = Addr("irq_restore")]
    /\ \/ lines = {} /\ UNCHANGED <<lines, serving>>
       \/ \E l \in lines : lines' = lines \ {l} /\ serving' = FALSE
    /\ UNCHANGED <<mode, masked, spsr, sp, sp_usr, mmu, mem, context, current,
                   live, frames_abt, user>>

\* bl irq_dispatch: intc_get_active_irq() names a raised line, or a spurious
\* one when it has fallen; the handler quiets its device; intc_eoi() always.
irq_dispatch ==
    /\ Go("irq_call", "irq_restore")
    /\ g' = [g EXCEPT !.r0 = Junk, !.r1 = Junk, !.scr = Junk]
    /\ lr' = [lr EXCEPT !.svc = Addr("irq_restore")]
    /\ \/ lines = {} /\ UNCHANGED lines
       \/ \E l \in lines : lines' = lines \ {l}
    /\ serving' = FALSE
    /\ UNCHANGED <<mode, masked, spsr, sp, sp_usr, mmu, mem, context, current,
                   live, frames_abt, user>>

irq_restore ==
    /\ Go("irq_restore", "irq_rfe")
    /\ g' = [r \in DOMAIN g |-> Top[r]] /\ lr' = [lr EXCEPT !.svc = Top.lr] /\ Drop
    /\ UNCHANGED <<mode, masked, spsr, sp_usr, mmu, sched, intc, user>>

irq_rfe ==
    /\ at = "irq_rfe" /\ JumpTo(Top.lr)
    /\ mode' = IF Top.spsr[1] = "psr" THEN Top.spsr[2] ELSE mode
    /\ masked' = (Top.spsr[1] = "psr" /\ Top.spsr[3] = "masked")
    /\ Drop
    /\ UNCHANGED <<g, lr, spsr, sp_usr, mmu, sched, intc, user>>

-----------------------------------------------------------------------------
(* The aborts of a user program *)

\* Data and prefetch abort: a frame on the ABT stack, supervisor mode with
\* interrupts masked, and do_exit(): the task becomes a zombie and yields.
\* The stubs expect no return, so the frame on the ABT stack stays.
UserAbort ==
    /\ mode = "usr" /\ at = "user" /\ frames_abt < MAX_FAULTS
    /\ mode' = "svc" /\ masked' = TRUE
    /\ frames_abt' = frames_abt + 1
    /\ live' = live \ {current}
    /\ \E t \in live \ {current} : CallSwitch(t, "dead")
    /\ UNCHANGED <<spsr, sp_usr, mmu, context, intc, user>>

\* An undefined instruction halts the kernel whoever executed it.
UserUndefined ==
    /\ mode = "usr" /\ Go("user", "halted") /\ MAX_FAULTS > 0
    /\ mode' = "svc" /\ masked' = TRUE
    /\ UNCHANGED <<regs, mmu, mem, sched, intc, user>>

halt_kernel == at = "halted" /\ UNCHANGED vars

-----------------------------------------------------------------------------
(* context_switch() and start_first_task() *)

switch_save ==
    /\ Go("switch_save", "switch_sp")
    /\ Push([NoFrame EXCEPT !.cal = g.cal, !.lr = lr.svc])
    /\ UNCHANGED <<mode, masked, g, lr, spsr, sp_usr, mmu, sched, intc, user>>

switch_sp ==
    /\ Go("switch_sp", "switch_sys")
    /\ context' = [context EXCEPT ![g.r0[2]].sp = sp]
    /\ UNCHANGED <<mode, masked, regs, mmu, mem, current, live, frames_abt, intc, user>>

switch_sys ==
    /\ Go("switch_sys", "switch_usr")
    /\ mode' = "sys"
    /\ UNCHANGED <<masked, regs, mmu, mem, sched, intc, user>>

\* Mutant: only SP_usr is saved.
switch_usr_sp_only ==
    /\ Go("switch_usr", "switch_svc")
    /\ context' = [context EXCEPT ![g.r0[2]].sp_usr = sp_usr]
    /\ g' = [g EXCEPT !.scr = Junk]
    /\ UNCHANGED <<mode, masked, lr, spsr, sp, sp_usr, mmu, mem, current,
                   live, frames_abt, intc, user>>

switch_usr ==
    /\ Go("switch_usr", "switch_svc")
    /\ context' = [context EXCEPT ![g.r0[2]].sp_usr = sp_usr,
                                  ![g.r0[2]].lr_usr = lr.usr]
    /\ g' = [g EXCEPT !.scr = Junk]
    /\ UNCHANGED <<mode, masked, lr, spsr, sp, sp_usr, mmu, mem, current,
                   live, frames_abt, intc, user>>

switch_svc ==
    /\ Go("switch_svc", "switch_ttbr")
    /\ mode' = "svc"
    /\ UNCHANGED <<masked, regs, mmu, mem, sched, intc, user>>

\* The translation of the user section may still come from the TLB.
switch_ttbr ==
    /\ Go("switch_ttbr", "switch_tlb")
    /\ ttbr' = Pgd(g.r1[2]) /\ tlb' \in {tlb, ttbr'}
    /\ UNCHANGED <<mode, masked, regs, mem, sched, intc, user>>

\* Before TLBIALL an entry of the previous address space can be evicted.
Evict ==
    /\ tlb # ttbr /\ (Evicts \/ sp.area # "init")
    /\ tlb' = ttbr
    /\ UNCHANGED <<at, mode, masked, regs, ttbr, mem, sched, intc, user>>

switch_tlb ==
    /\ Go("switch_tlb", "switch_load")
    /\ tlb' = ttbr
    /\ g' = [g EXCEPT !.scr = Junk]
    /\ UNCHANGED <<mode, masked, lr, spsr, sp, sp_usr, ttbr, mem, sched, intc, user>>

\* The task to be resumed: the second argument of context_switch(), the only
\* one of start_first_task().
Resumed == IF g.r1[1] = "val" THEN g.r1[2] ELSE g.r0[2]

switch_load ==
    /\ Go("switch_load", "load_sys")
    /\ sp' = context[Resumed].sp
    /\ UNCHANGED <<mode, masked, g, lr, spsr, sp_usr, mmu, mem, sched, intc, user>>

first_sp ==
    /\ Go("first_sp", "load_sys")
    /\ sp' = context[Resumed].sp
    /\ UNCHANGED <<mode, masked, g, lr, spsr, sp_usr, mmu, mem, sched, intc, user>>

load_sys ==
    /\ Go("load_sys", "load_usr")
    /\ mode' = "sys"
    /\ UNCHANGED <<masked, regs, mmu, mem, sched, intc, user>>

load_usr ==
    /\ Go("load_usr", "load_svc")
    /\ sp_usr' = context[Resumed].sp_usr
    /\ lr' = [lr EXCEPT !.usr = context[Resumed].lr_usr]
    /\ g' = [g EXCEPT !.scr = Junk]
    /\ UNCHANGED <<mode, masked, spsr, sp, mmu, mem, sched, intc, user>>

load_svc ==
    /\ Go("load_svc", "load_pop")
    /\ mode' = "svc"
    /\ UNCHANGED <<masked, regs, mmu, mem, sched, intc, user>>

load_pop ==
    /\ Go("load_pop", "load_return")
    /\ g' = [g EXCEPT !.cal = Top.cal] /\ lr' = [lr EXCEPT !.svc = Top.lr] /\ Drop
    /\ UNCHANGED <<mode, masked, spsr, sp_usr, mmu, sched, intc, user>>

load_return ==
    /\ at = "load_return" /\ JumpTo(lr.svc)
    /\ UNCHANGED <<mode, masked, regs, mmu, mem, sched, intc, user>>

-----------------------------------------------------------------------------

Next ==
    \/ UserCompute \/ UserCall \/ UserAbort \/ UserUndefined \/ halt_kernel
    \/ IdleCompute \/ IdleYield \/ IdleAlone \/ IdleBack
    \/ svc_save \/ svc_mrs \/ svc_psr \/ svc_enable \/ svc_call
    \/ HandlerReturn \/ HandlerYield \/ HandlerBack \/ HandlerFork
    \/ exit_pop \/ exit_msr \/ exit_return
    \/ Raise \/ Withdraw \/ Interrupt
    \/ irq_adjust \/ irq_srs \/ irq_cps \/ irq_save \/ irq_dispatch
    \/ irq_restore \/ irq_rfe
    \/ switch_save \/ switch_sp \/ switch_sys \/ switch_usr \/ switch_svc
    \/ switch_ttbr \/ Evict \/ switch_tlb \/ switch_load
    \/ first_sp \/ load_sys \/ load_usr \/ load_svc \/ load_pop \/ load_return

Spec == Init /\ [][Next]_vars

-----------------------------------------------------------------------------
(* Properties *)

\* A program finds its registers, user stack pointer, link register and page
\* table as it left them, and in r0 the result of its system call, whatever
\* interrupts, switches, forks and faults of others came between two of its
\* instructions; and it runs with interrupts enabled.  The idle loop finds
\* its callee-saved registers.
ContextKept ==
    /\ at # "lost"
    /\ at \in {"user", "returned"} =>
        /\ mode = "usr" /\ ~masked
        /\ ttbr = Pgd(current) /\ tlb = ttbr
        /\ g.r0 = user[current].r0
        /\ \A w \in {g.r1, g.scr, g.cal, lr.usr, sp_usr} : w = Val(user[current].of)
    /\ at = "idle" => g.cal = Val("idle")

\* Whenever a program or the idle loop runs, its kernel stack is unwound
\* completely and no interrupt is left without its end-of-interrupt: no
\* number of calls and interrupts uses up the stack or silences the INTC.
NothingLeftBehind ==
    at \in {"user", "returned", "idle"} =>
        sp = [area |-> current, depth |-> 0] /\ ~serving

\* context_switch.S says that the stack addresses on either side stay valid
\* while TTBR0 is switched: nothing is stored to or loaded from the kernel
\* stack of a task under the page table of another.
StackVAsStayValid ==
    (at \in {"irq_srs", "irq_save", "irq_restore", "irq_rfe"} /\ sp.area = "init")
        => tlb = "kernel"

=============================================================================
