---------------------------- MODULE CodeGenerator ----------------------------
(***************************************************************************)
(* The back end of the compiler: code_generator.py, register_allocator.py  *)
(* and syscall_support.py, on the instructions of module IRGenerator.      *)
(*                                                                         *)
(* The generator state c has the assembly emitted so far, the allocator's  *)
(* free_registers and allocated, current_function and pending_params.      *)
(* free_registers is a set, popped in an order that Python's hash seed     *)
(* fixes: here the sequence Order of the registers.  r is the register the *)
(* last call of allocate() or get_operand() returned.                      *)
(***************************************************************************)
EXTENDS Parser

CONSTANT AVAILABLE_REGISTERS                    \* r4 .. r11

SYSCALL_NUMBERS == [write |-> 0, exit |-> 1, yield |-> 2, read |-> 3]
is_syscall(f) == f \in DOMAIN SYSCALL_NUMBERS

\* int() of a numeral.
int(numeral) == CHOOSE n \in Literals : ToString(n) = numeral

Emit(c, code) == [c EXCEPT !.asm = @ \o code]

-----------------------------------------------------------------------------
(* register_allocator.py *)

reset(c, Order) == [c EXCEPT !.free = Order, !.alloc = None]

\* The register of a name; r4 for every name when none is free.
allocate(c, name) ==
    CASE name \in DOMAIN c.alloc -> [c EXCEPT !.r = c.alloc[name]]
      [] name \notin DOMAIN c.alloc /\ c.free # None ->
            [c EXCEPT !.free = Tail(@),
                      !.alloc = [x \in DOMAIN @ \cup {name} |->
                                   IF x = name THEN Head(c.free) ELSE @[x]],
                      !.r = Head(c.free)]
      [] OTHER -> [c EXCEPT !.r = "r4"]

-----------------------------------------------------------------------------
(* code_generator.py *)

\* A constant is loaded into r12, whatever r12 holds.
get_operand(c, operand) ==
    IF operand \in Numerals
    THEN [Emit(c, <<<<"movi", "r12", int(operand)>>>>) EXCEPT !.r = "r12"]
    ELSE allocate(c, operand)

Opposite == [op \in {"==", "!=", "<", ">", "<=", ">="} |->
               CASE op = "==" -> "!=" [] op = "!=" -> "==" [] op = "<" -> ">="
                 [] op = ">" -> "<=" [] op = "<=" -> ">" [] op = ">=" -> "<"]

\* if (a op b) d := 1 else d := 0
Test(op, d, a, b) == <<<<"cmp", a, b>>, <<"movc", op, d, 1>>, <<"movc", Opposite[op], d, 0>>>>

BinaryCode(op, d, l, r) ==
    CASE op = "/" -> <<<<"mov", "r0", l>>, <<"mov", "r1", r>>, <<"bl", "__aeabi_idiv">>,
                       <<"mov", d, "r0">>>>
      [] op = "%" -> <<<<"mov", "r0", l>>, <<"mov", "r1", r>>, <<"bl", "__aeabi_idivmod">>,
                       <<"mov", d, "r1">>>>
      [] op \in DOMAIN Opposite -> Test(op, d, l, r)
      [] op = "&&" -> Test("!=", d, l, "#0") \o <<<<"cmp", r, "#0">>, <<"movc", "==", d, 0>>>>
      [] op = "||" -> <<<<"alu", "|", d, l, r>>, <<"cmp", d, "#0">>, <<"movc", "!=", d, 1>>>>
      [] OTHER -> <<<<"alu", op, d, l, r>>>>

UnaryCode(op, d, o) ==
    CASE op = "-" -> <<<<"rsb", d, o>>>>
      [] op = "!" -> Test("==", d, o, "#0")
      [] op = "&" -> <<<<"mov", d, o>>>>

\* A move that a register to itself does not need.
Move(d, s) == IF d = s THEN None ELSE <<<<"mov", d, s>>>>

visit_binary_op(c, i) ==
    LET l == get_operand(c, i[4])
        r == get_operand(l, i[5])
        d == allocate(r, i[2])
    IN Emit(d, BinaryCode(i[3], d.r, l.r, r.r))

visit_unary_op(c, i) ==
    LET o == get_operand(c, i[4])
        d == allocate(o, i[2])
    IN Emit(d, UnaryCode(i[3], d.r, o.r))

visit_assign(c, i) ==
    LET s == get_operand(c, i[3])
        d == allocate(s, i[2])
    IN Emit(d, Move(d.r, s.r))

visit_load(c, i) ==
    LET a == get_operand(c, i[3])
        d == allocate(a, i[2])
    IN Emit(d, <<<<"ldr", d.r, a.r>>>>)

visit_store(c, i) ==
    LET a == get_operand(c, i[2])
        v == get_operand(a, i[3])
    IN Emit(v, <<<<"str", v.r, a.r>>>>)

visit_cond_goto(c, i) ==
    LET o == get_operand(c, i[2])
    IN Emit(o, <<<<"cmp", o.r, "#0">>, <<"beq", <<c.fn, i[3]>>>>>>)

\* The k-th pending parameter and those behind it, the first four only.
RECURSIVE Arguments(_, _)
Arguments(c, k) ==
    IF k > Len(c.params) \/ k > 4 THEN [c EXCEPT !.params = None]
    ELSE LET o == get_operand(c, c.params[k])
         IN Arguments(Emit(o, <<<<"mov", <<"r0", "r1", "r2", "r3">>[k], o.r>>>>), k + 1)

\* All pending parameters go to this call.
visit_call(c, i) ==
    LET a == Arguments(c, 1)
        called == Emit(a, IF is_syscall(i[3])
                          THEN <<<<"movi", "r7", SYSCALL_NUMBERS[i[3]]>>, <<"svc">>>>
                          ELSE <<<<"bl", i[3]>>>>)
        d == allocate(called, i[2])
    IN Emit(d, <<<<"mov", d.r, "r0">>>>)

visit_return(c, i) ==
    LET v == get_operand(c, i[2])
    IN Emit(IF i[2] = "" THEN c ELSE Emit(v, <<<<"mov", "r0", v.r>>>>),
            <<<<"b", <<c.fn, "epilogue">>>>>>)

visit_function_entry(c, name, Order) ==
    Emit([reset(c, Order) EXCEPT !.fn = name], <<<<"label", <<name, "entry">>>>, <<"push">>>>)

visit_function_exit(c, name) == Emit(c, <<<<"label", <<name, "epilogue">>>>, <<"pop">>>>)

visit_instruction(c, i, Order) ==
    CASE i[1] = "entry"   -> visit_function_entry(c, i[2], Order)
      [] i[1] = "exit"    -> visit_function_exit(c, i[2])
      [] i[1] = "bin"     -> visit_binary_op(c, i)
      [] i[1] = "un"      -> visit_unary_op(c, i)
      [] i[1] = "assign"  -> visit_assign(c, i)
      [] i[1] = "load"    -> visit_load(c, i)
      [] i[1] = "store"   -> visit_store(c, i)
      [] i[1] = "label"   -> Emit(c, <<<<"label", <<c.fn, i[2]>>>>>>)
      [] i[1] = "goto"    -> Emit(c, <<<<"b", <<c.fn, i[2]>>>>>>)
      [] i[1] = "ifFalse" -> visit_cond_goto(c, i)
      [] i[1] = "param"   -> [c EXCEPT !.params = Append(@, i[2])]
      [] i[1] = "call"    -> visit_call(c, i)
      [] i[1] = "return"  -> visit_return(c, i)

\* The generator before the first instruction of generate().
Start == [asm |-> None, free |-> None, alloc |-> None, fn |-> "", params |-> None, r |-> ""]
==============================================================================
