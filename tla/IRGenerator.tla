----------------------------- MODULE IRGenerator -----------------------------
(***************************************************************************)
(* The three-address code of the compiler: ir_generator.py and             *)
(* generators.py, on the trees of module Parser.                           *)
(*                                                                         *)
(* A generator state g has the instructions emitted so far, the counters   *)
(* of TempGenerator and LabelGenerator, and in v what the last visited     *)
(* expression returned: a variable, a temporary or a numeral.  Variables   *)
(* and temporaries are both known by name, and share one name space.       *)
(***************************************************************************)
EXTENDS Integers, Sequences, TLC

LOCAL None == <<>>

Fresh == [ir |-> None, temps |-> 0, labels |-> 0, v |-> ""]

emit(g, instr) == [g EXCEPT !.ir = Append(@, instr)]
Temp(n) == "t" \o ToString(n)
Label(n) == "L" \o ToString(n)

\* new_temp(), and the instruction that sets it.
Emit(g, Instr(_)) ==
    [g EXCEPT !.ir = Append(@, Instr(Temp(g.temps))), !.temps = @ + 1, !.v = Temp(g.temps)]

RECURSIVE visit_expression(_, _), visit_args(_, _), visit_statement(_, _), visit_list(_, _)

-----------------------------------------------------------------------------
(* Expressions *)

\* Mutant: the operands are swapped.
SwappedBinaryOp(g, e) ==
    LET l == visit_expression(g, e[3])
        r == visit_expression(l, e[4])
    IN Emit(r, LAMBDA t : <<"bin", t, e[2], r.v, l.v>>)

visit_binary_op(g, e) ==
    LET l == visit_expression(g, e[3])
        r == visit_expression(l, e[4])
    IN Emit(r, LAMBDA t : <<"bin", t, e[2], l.v, r.v>>)

visit_unary_op(g, e) ==
    LET o == visit_expression(g, e[3]) IN
    Emit(o, LAMBDA t : IF e[2] = "*" THEN <<"load", t, o.v>> ELSE <<"un", t, e[2], o.v>>)

\* The address of an element: array + index, not scaled.
Element(g, e) ==
    LET a == visit_expression(g, e[2])
        i == visit_expression(a, e[3])
    IN Emit(i, LAMBDA t : <<"bin", t, "+", a.v, i.v>>)

visit_assignment(g, e) ==
    LET value == visit_expression(g, e[3])
        target == e[2]
        address == IF target[1] = "idx" THEN Element(value, target)
                   ELSE visit_expression(value, target[3])
    IN IF target[1] = "id"
       THEN [emit(value, <<"assign", target[2], value.v>>) EXCEPT !.v = target[2]]
       ELSE [emit(address, <<"store", address.v, value.v>>) EXCEPT !.v = value.v]

visit_args(g, args) ==
    IF args = None THEN g
    ELSE LET a == visit_expression(g, Head(args))
         IN visit_args(emit(a, <<"param", a.v>>), Tail(args))

visit_function_call(g, name, args) ==
    Emit(visit_args(g, args), LAMBDA t : <<"call", t, name, Len(args)>>)

visit_array_access(g, e) ==
    LET address == Element(g, e) IN Emit(address, LAMBDA t : <<"load", t, address.v>>)

visit_expression(g, e) ==
    CASE e[1] \in {"id", "num"} -> [g EXCEPT !.v = e[2]]
      [] e[1] = "bin"  -> visit_binary_op(g, e)
      [] e[1] = "un"   -> visit_unary_op(g, e)
      [] e[1] = "asg"  -> visit_assignment(g, e)
      [] e[1] = "call" -> visit_function_call(g, e[2], e[3])
      [] e[1] = "idx"  -> visit_array_access(g, e)

\* An expression that may be absent.
Optional(g, e) == IF e = None THEN g ELSE visit_expression(g, e)

-----------------------------------------------------------------------------
(* Statements *)

Labels2(g) == [g EXCEPT !.labels = @ + 2]

visit_if_stmt(g, s) ==
    LET c == visit_expression(g, s[2])
        else_label == Label(c.labels)
        end_label  == Label(c.labels + 1)
        t == visit_statement(emit(Labels2(c), <<"ifFalse", c.v, else_label>>), s[3])
        e == visit_list(emit(emit(t, <<"goto", end_label>>), <<"label", else_label>>),
                        IF s[4] = None THEN None ELSE <<s[4]>>)
    IN emit(e, <<"label", end_label>>)

\* The loop of while and for statements.
Loop(g, condition, body, increment) ==
    LET start_label == Label(g.labels)
        end_label   == Label(g.labels + 1)
        c == Optional(emit(Labels2(g), <<"label", start_label>>), condition)
        t == IF condition = None THEN c ELSE emit(c, <<"ifFalse", c.v, end_label>>)
        b == visit_statement(t, body)
        i == Optional(b, increment)
    IN emit(emit(i, <<"goto", start_label>>), <<"label", end_label>>)

visit_while_stmt(g, s) == Loop(g, s[2], s[3], None)
visit_for_stmt(g, s) == Loop(Optional(g, s[2]), s[3], s[5], s[4])

visit_return_stmt(g, e) ==
    LET value == visit_expression(g, e) IN
    IF e = None THEN emit(g, <<"return", "">>) ELSE emit(value, <<"return", value.v>>)

\* A declaration is an assignment, if it has an initialiser.
visit_var_decl_stmt(g, d) ==
    LET init == visit_expression(g, d[5]) IN
    IF d[5] = None THEN g ELSE emit(init, <<"assign", d[3], init.v>>)

visit_statement(g, s) ==
    CASE s[1] = "decl"   -> visit_var_decl_stmt(g, s)
      [] s[1] = "block"  -> visit_list(g, s[2])
      [] s[1] = "expr"   -> Optional(g, s[2])
      [] s[1] = "if"     -> visit_if_stmt(g, s)
      [] s[1] = "while"  -> visit_while_stmt(g, s)
      [] s[1] = "for"    -> visit_for_stmt(g, s)
      [] s[1] = "return" -> visit_return_stmt(g, s[2])

visit_list(g, stmts) ==
    IF g.temps \in Nat /\ stmts = None THEN g ELSE visit_list(visit_statement(g, Head(stmts)), Tail(stmts))

\* One function, with counters of its own.
visit_function_decl(f) ==
    <<<<"entry", f[3]>>>> \o visit_statement(Fresh, f[5]).ir \o <<<<"exit", f[3]>>>>

\* Global variables and functions without statements have no code.
visit_declaration(d) ==
    IF d[1] = "func" /\ d[5][2] # None THEN visit_function_decl(d) ELSE None
==============================================================================
