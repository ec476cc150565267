------------------------------ MODULE Analyzer ------------------------------
(***************************************************************************)
(* The semantic analysis of the compiler: symbol_table.py, type_checker.py *)
(* and semantic_analyzer.py, on the trees of module Parser.                *)
(*                                                                         *)
(* The symbol table is a stack of scopes, each a function from the names   *)
(* declared in it to their symbols: <<"var", type>> or <<"func", return    *)
(* type, parameter types>>.  A type is <<base, pointer level>>.  A visit   *)
(* of an expression returns its type t, None if it has none, and whether   *)
(* no error was reported; a visit of a statement returns the table.        *)
(***************************************************************************)
EXTENDS Parser, SequencesExt

-----------------------------------------------------------------------------
(* symbol_table.py *)

EmptyTable == <<None>>
enter_scope(table) == Append(table, None)

\* Mutant: the names of a block stay in the table.
KeepScope(table) == table
exit_scope(table) == SubSeq(table, 1, Len(table) - 1)

Declares(table, name) == name \in DOMAIN table[Len(table)]

\* declare(): a name that its scope already has is left as it is.
declare(table, name, symbol) ==
    IF Declares(table, name) THEN table
    ELSE [table EXCEPT ![Len(table)] =
            [x \in DOMAIN @ \cup {name} |-> IF x = name THEN symbol ELSE @[x]]]

\* The innermost symbol of a name, or None.
lookup(table, name) ==
    LET scopes == {i \in DOMAIN table : name \in DOMAIN table[i]} IN
    IF scopes = {} THEN None
    ELSE table[CHOOSE i \in scopes : \A j \in scopes : j <= i][name]

-----------------------------------------------------------------------------
(* type_checker.py *)

IntType == <<"int", 0>>
is_pointer(t) == t[2] > 0
Integral(t) == t[1] \in {"int", "char"} /\ ~is_pointer(t)

are_compatible(t1, t2) == t1 = t2 \/ (Integral(t1) /\ Integral(t2))

UnaryType(op, t) ==
    CASE op = "-" -> IF Integral(t) THEN IntType ELSE None
      [] op = "!" -> IntType
      [] op = "*" -> IF is_pointer(t) THEN <<t[1], t[2] - 1>> ELSE None
      [] op = "&" -> <<t[1], t[2] + 1>>

get_result_type(op, l, r) ==
    CASE op \in {"+", "-"} /\ is_pointer(l) /\ Integral(r) -> l
      [] op \in {"+", "-"} /\ is_pointer(r) /\ Integral(l) -> r
      [] op \in {"-", "==", "!=", "<", ">", "<=", ">="} /\ is_pointer(l) /\ l = r -> IntType
      [] op \in {"&&", "||"} -> IntType
      [] OTHER -> IF Integral(l) /\ Integral(r) THEN IntType ELSE None

is_lvalue(e) == e[1] \in {"id", "idx"} \/ (e[1] = "un" /\ e[2] = "*")

-----------------------------------------------------------------------------
(* semantic_analyzer.py: expressions *)

Typed(t, ok) == [t |-> t, ok |-> ok]

\* A visited expression v may be given to something of a type.
Assignable(type, v) == v.ok /\ (v.t # None => are_compatible(type, v.t))

\* A result type t of an operation whose operands l and r were visited.
Combine(l, r, t) ==
    IF l.t = None \/ r.t = None THEN Typed(None, l.ok /\ r.ok)
    ELSE Typed(t, l.ok /\ r.ok /\ t # None)

\* An expression that has another requirement, where it has a type.
Requires(v, required) == Typed(v.t, v.ok /\ (v.t # None => required))

visit_binary_op(op, l, r) == Combine(l, r, get_result_type(op, l.t, r.t))

visit_unary_op(op, operand, o) ==
    Requires(Combine(o, o, UnaryType(op, o.t)), op = "&" => is_lvalue(operand))

visit_assignment(target, l, r) ==
    LET c == Requires(Combine(l, r, l.t), are_compatible(l.t, r.t))
    IN Typed(c.t, c.ok /\ is_lvalue(target))

visit_array_access(a, i) ==
    LET c == Combine(a, i, IF is_pointer(a.t) THEN <<a.t[1], a.t[2] - 1>> ELSE None)
    IN Typed(c.t, c.ok /\ (i.t # None /\ a.t # None => Integral(i.t)))

RECURSIVE visit_expression(_, _), visit_statement(_, _, _), visit_list(_, _, _)

visit_identifier(table, name) ==
    LET symbol == lookup(table, name) IN
    IF symbol # None /\ symbol[1] = "var" THEN Typed(symbol[2], TRUE) ELSE Typed(None, FALSE)

visit_function_call(table, name, args) ==
    LET symbol == lookup(table, name) IN
    IF symbol = None \/ (symbol # None /\ symbol[1] # "func") THEN Typed(None, FALSE)
    ELSE Typed(symbol[2],
               /\ Len(args) = Len(symbol[3])
               /\ \A i \in DOMAIN args :
                     Assignable(symbol[3][i], visit_expression(table, args[i])))

visit_expression(table, e) ==
    CASE e[1] = "id" -> visit_identifier(table, e[2])
      [] e[1] = "num" -> Typed(IntType, TRUE)
      [] e[1] = "bin" ->
            visit_binary_op(e[2], visit_expression(table, e[3]), visit_expression(table, e[4]))
      [] e[1] = "un" -> visit_unary_op(e[2], e[3], visit_expression(table, e[3]))
      [] e[1] = "asg" ->
            visit_assignment(e[2], visit_expression(table, e[2]), visit_expression(table, e[3]))
      [] e[1] = "call" -> visit_function_call(table, e[2], e[3])
      [] e[1] = "idx" ->
            visit_array_access(visit_expression(table, e[2]), visit_expression(table, e[3]))

-----------------------------------------------------------------------------
(* Statements.  A visit returns the table and whether no error was reported. *)

Visited(table, ok) == [table |-> table, ok |-> ok]
Checked(v, ok) == Visited(v.table, v.ok /\ ok)
LeaveScope(v) == Visited(exit_scope(v.table), v.ok)

\* An array has a pointer type; the initialiser is checked against the
\* element's, with the name already in scope.
visit_var_decl(table, d) ==
    LET type == IF d[4] = "" THEN d[2] ELSE <<d[2][1], d[2][2] + 1>>
        next == declare(table, d[3], <<"var", type>>)
    IN Visited(next, /\ ~Declares(table, d[3])
                     /\ d[5] # None => Assignable(d[2], visit_expression(next, d[5])))

OkExpr(table, e) == e = None \/ visit_expression(table, e).ok

\* result is current_function_return_type.
visit_return_stmt(table, e, result) ==
    IF e = None THEN result = <<"void", 0>> ELSE Assignable(result, visit_expression(table, e))

\* The statements behind one that left v.
VisitRest(v, stmts, result) == Checked(visit_list(v.table, stmts, result), v.ok)

visit_list(table, stmts, result) ==
    IF Len(table) > 0 /\ stmts = None THEN Visited(table, TRUE)
    ELSE VisitRest(visit_statement(table, Head(stmts), result), Tail(stmts), result)

\* A branch or a loop body: a declaration in it, without braces, stays in scope.
visit_statement(table, s, result) ==
    CASE s[1] = "decl" -> visit_var_decl(table, s)
      [] s[1] = "block" -> LeaveScope(visit_list(enter_scope(table), s[2], result))
      [] s[1] = "expr" -> Visited(table, OkExpr(table, s[2]))
      [] s[1] = "if" ->
            Checked(visit_list(table, IF s[4] = None THEN <<s[3]>> ELSE <<s[3], s[4]>>, result),
                    OkExpr(table, s[2]))
      [] s[1] = "while" -> Checked(visit_statement(table, s[3], result), OkExpr(table, s[2]))
      [] s[1] = "for" -> Checked(visit_statement(table, s[5], result),
                                 \A i \in 2 .. 4 : OkExpr(table, s[i]))
      [] s[1] = "return" -> Visited(table, visit_return_stmt(table, s[2], result))

-----------------------------------------------------------------------------
(* Declarations *)

declare_function(v, f) ==
    Visited(declare(v.table, f[3], <<"func", f[2], [i \in DOMAIN f[4] |-> f[4][i][2]]>>),
            v.ok /\ ~Declares(v.table, f[3]))

\* The parameters have a scope, the body one inside it.
VisitBody(params, f) ==
    LeaveScope(Checked(visit_statement(params.table, f[5], f[2]), params.ok))

\* A function without statements is taken for a prototype.
visit_function_decl(table, f) ==
    IF f[5][2] = None THEN Visited(table, TRUE)
    ELSE VisitBody(visit_list(enter_scope(table), f[4], f[2]), f)

visit_declaration(v, d) ==
    Checked(IF d[1] = "func" THEN visit_function_decl(v.table, d) ELSE visit_var_decl(v.table, d),
            v.ok)

\* Two passes: all functions first, then everything in the order of the text.
analyze(decls) ==
    LET isFunc(d) == d[1] = "func"
        first == FoldLeft(declare_function, Visited(EmptyTable, TRUE), SelectSeq(decls, isFunc))
    IN FoldLeft(visit_declaration, first, decls).ok
=============================================================================
