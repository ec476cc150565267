------------------------------- MODULE Parser -------------------------------
(***************************************************************************)
(* The recursive-descent parser of the subset-C compiler (parser.py).      *)
(*                                                                         *)
(* A source text is its sequence of tokens; a token is a string, and its   *)
(* TokenType is told by membership in Idents, Numerals or one of the sets  *)
(* below.  Each parse_...(s, p) starts at position p of s and returns the  *)
(* node n it built, the position p behind it and whether no error was      *)
(* reported.  A node is a tuple that begins with its class; an absent      *)
(* child is <<>>.  Character and string literals are left out.             *)
(***************************************************************************)
EXTENDS Integers, Sequences, TLC

CONSTANTS Idents,      \* the identifiers of the source texts
          Literals     \* the values of their integer literals

Numerals == {ToString(n) : n \in Literals}

None == <<>>

At(s, p) == IF p <= Len(s) THEN s[p] ELSE "EOF"
Advance(s, p) == IF p <= Len(s) THEN p + 1 ELSE p
Res(n, p, ok) == [n |-> n, p |-> p, ok |-> ok]

\* A node is put together from results whose n is the sequence of its parts.
Nothing(p) == Res(None, p, TRUE)
Token(s, p) == Res(<<s[p]>>, p + 1, TRUE)
Only(r) == Res(<<r.n>>, r.p, r.ok)
Behind(parts, r) == Res(Append(parts.n, r.n), r.p, parts.ok /\ r.ok)
Skip(parts) == Res(parts.n, parts.p + 1, parts.ok)
Node(class, parts) == Res(<<class>> \o parts.n, parts.p, parts.ok)

\* An expected token is consumed, and so is any other, with an error.
expect(s, r, t) == Res(r.n, Advance(s, r.p), r.ok /\ At(s, r.p) = t)

Types == {"int", "char", "void"}
Unary == {"!", "-", "*", "&"}

\* The binary operators, from parse_logical_or() down to
\* parse_multiplicative(): one function of the parser for each level.
Levels == << {"||"}, {"&&"}, {"|"}, {"^"}, {"&"}, {"==", "!="},
             {"<", ">", "<=", ">="}, {"<<", ">>"}, {"+", "-"}, {"*", "/", "%"} >>

RECURSIVE parse_expression(_, _), parse_binary(_, _, _), Operators(_, _, _),
          parse_unary(_, _), Postfix(_, _), parse_arg_list(_, _),
          parse_statement(_, _), Statements(_, _), Params(_, _)

-----------------------------------------------------------------------------
(* Expressions *)

Assignment(s, target) ==
    IF At(s, target.p) # "=" THEN target
    ELSE Node("asg", Behind(Only(target), parse_expression(s, target.p + 1)))

parse_expression(s, p) == Assignment(s, parse_binary(s, 1, p))

\* The level of the operator at p; 0 if there is none.
LevelAt(s, p) == IF \E l \in DOMAIN Levels : At(s, p) \in Levels[l]
                 THEN CHOOSE l \in DOMAIN Levels : At(s, p) \in Levels[l] ELSE 0

\* The function of level l parses an operand with that of level l + 1, and so
\* on down to parse_unary(); then the loops of the levels take the operators
\* that follow, the tightest first.
parse_binary(s, l, p) == Operators(s, l, parse_unary(s, p))

\* The operator is at the position behind its left operand.
BinaryNode(s, left, right) == Node("bin", Behind(Behind(Token(s, left.p), left), right))

\* Mutant: the operators of a level associate to the right.
OperatorsRight(s, l, left) ==
    LET m == LevelAt(s, left.p)
    IN IF m < l THEN left
       ELSE Operators(s, l, BinaryNode(s, left, parse_binary(s, m, left.p + 1)))

\* The while loops of the levels l and tighter, behind the operand left: an
\* operator's right operand comes from the level below its own, so operators
\* of a level associate to the left.
Operators(s, l, left) ==
    LET m == LevelAt(s, left.p)
    IN IF m < l THEN left
       ELSE Operators(s, l, BinaryNode(s, left, parse_binary(s, m + 1, left.p + 1)))

\* An unexpected token is skipped, with an error, and stands for 0.
parse_primary(s, p) ==
    CASE At(s, p) \in Idents -> Res(<<"id", s[p]>>, p + 1, TRUE)
      [] At(s, p) \in Numerals -> Res(<<"num", s[p]>>, p + 1, TRUE)
      [] At(s, p) = "(" -> expect(s, parse_expression(s, p + 1), ")")
      [] OTHER -> Res(<<"num", "0">>, Advance(s, p), FALSE)

parse_unary(s, p) ==
    IF At(s, p) \notin Unary THEN Postfix(s, parse_primary(s, p))
    ELSE Node("un", Behind(Token(s, p), parse_unary(s, p + 1)))

CallNode(e, args) == LET named == e.n[1] = "id"
                     IN Res(IF named THEN <<"call", e.n[2], args.n>> ELSE e.n, args.p,
                            e.ok /\ args.ok /\ named)

\* The loop of parse_postfix(): subscripts and calls.  Only a name is called.
Postfix(s, e) ==
    CASE At(s, e.p) = "[" ->
            Postfix(s, Node("idx", Behind(Only(e), expect(s, parse_expression(s, e.p + 1), "]"))))
      [] At(s, e.p) = "(" ->
            Postfix(s, CallNode(e, expect(s, IF At(s, e.p + 1) = ")" THEN Nothing(e.p + 1)
                                             ELSE parse_arg_list(s, Nothing(e.p + 1)), ")")))
      [] OTHER -> e

MoreArgs(s, args) == IF At(s, args.p) = "," THEN parse_arg_list(s, Skip(args)) ELSE args

parse_arg_list(s, args) == MoreArgs(s, Behind(args, parse_expression(s, args.p)))

\* An expression that ends before the token t, or nothing.
Optional(s, p, t) == IF At(s, p) = t THEN Nothing(p) ELSE parse_expression(s, p)

-----------------------------------------------------------------------------
(* Declarations *)

\* The type at p, which is a token of Types, and the stars behind it.
parse_type(s, p) ==
    LET q == CHOOSE q \in p + 1 .. Len(s) + 1 :
                /\ At(s, q) # "*"
                /\ \A k \in p + 1 .. q - 1 : s[k] = "*"
    IN Res(<<s[p], q - p - 1>>, q, TRUE)

\* What follows `type name' in the declaration of a variable.
parse_var_decl(s, type, name, p) ==
    LET sized == At(s, p) = "[" /\ At(s, p + 1) \in Numerals
        array == IF At(s, p) = "["
                 THEN expect(s, Res(None, IF sized THEN p + 2 ELSE p + 1, sized), "]")
                 ELSE Nothing(p)
        parts == Res(<<type, name, IF sized THEN s[p + 1] ELSE "">>, array.p, array.ok)
        init  == IF At(s, array.p) = "=" THEN parse_expression(s, array.p + 1)
                 ELSE Nothing(array.p)
    IN expect(s, Node("decl", Behind(parts, init)), ";")

\* parse_param_list(): stops without an error where no type follows.
Params(s, r) ==
    IF At(s, r.p) \notin Types THEN r
    ELSE LET type  == parse_type(s, r.p)
             named == At(s, type.p) \in Idents
             param == <<"decl", type.n, At(s, type.p), "", None>>
             next  == Res(Append(r.n, param), type.p + 1, r.ok)
         IN IF ~named THEN Res(r.n, type.p, FALSE)
            ELSE IF At(s, next.p) = "," THEN Params(s, Skip(next))
            ELSE next

\* synchronize(): behind the next semicolon or closing brace, or at the end.
synchronize(s, p) ==
    IF \E q \in p .. Len(s) : s[q] \in {";", "}"}
    THEN 1 + CHOOSE q \in p .. Len(s) : /\ s[q] \in {";", "}"}
                                        /\ \A k \in p .. q - 1 : s[k] \notin {";", "}"}
    ELSE Len(s) + 1

-----------------------------------------------------------------------------
(* Statements *)

parse_compound_stmt(s, p) ==
    Node("block", Only(expect(s, Statements(s, expect(s, Nothing(p), "{")), "}")))

Statement(stmts, stmt) == IF stmt.n = None THEN Res(stmts.n, stmt.p, stmts.ok /\ stmt.ok)
                          ELSE Behind(stmts, stmt)

\* The loop of parse_compound_stmt().
Statements(s, stmts) ==
    IF At(s, stmts.p) \in {"}", "EOF"} THEN stmts
    ELSE Statements(s, Statement(stmts, parse_statement(s, stmts.p)))

\* `keyword (', `condition )', a clause of a for statement up to the token t,
\* and the statements behind them.
Open(s, p) == expect(s, Nothing(p + 1), "(")
Condition(s, open) == expect(s, Behind(open, parse_expression(s, open.p)), ")")
Clause(s, parts, t) == expect(s, Behind(parts, Optional(s, parts.p, t)), t)
Body(s, parts) == Behind(parts, parse_statement(s, parts.p))
Else(s, parts) == IF At(s, parts.p) = "else" THEN Body(s, Skip(parts))
                  ELSE Behind(parts, Nothing(parts.p))

parse_if_stmt(s, p) == Node("if", Else(s, Body(s, Condition(s, Open(s, p)))))

parse_while_stmt(s, p) == Node("while", Body(s, Condition(s, Open(s, p))))

parse_for_stmt(s, p) ==
    Node("for", Body(s, Clause(s, Clause(s, Clause(s, Open(s, p), ";"), ";"), ")")))

parse_statement(s, p) ==
    CASE At(s, p) \in {"int", "char"} ->
            LET type == parse_type(s, p) IN
            IF At(s, type.p) \in Idents
            THEN parse_var_decl(s, type.n, s[type.p], type.p + 1)
            ELSE Res(None, synchronize(s, type.p), FALSE)
      [] At(s, p) = "{"      -> parse_compound_stmt(s, p)
      [] At(s, p) = "if"     -> parse_if_stmt(s, p)
      [] At(s, p) = "while"  -> parse_while_stmt(s, p)
      [] At(s, p) = "for"    -> parse_for_stmt(s, p)
      [] At(s, p) = "return" -> expect(s, Node("return", Only(Optional(s, p + 1, ";"))), ";")
      [] OTHER -> expect(s, Node("expr", Only(Optional(s, p, ";"))), ";")  \* parse_expr_stmt()

-----------------------------------------------------------------------------
(* Top level *)

\* Called behind `type name'.  A prototype has no statements.
parse_function_decl(s, type, name, p) ==
    LET params == expect(s, Params(s, Nothing(p + 1)), ")")
        parts  == Res(<<type, name, params.n>>, params.p, params.ok)
        body   == IF At(s, params.p) = ";" THEN Res(<<"block", None>>, params.p + 1, TRUE)
                  ELSE parse_compound_stmt(s, params.p)
    IN Node("func", Behind(parts, body))

\* Without a type at p nothing is consumed and no error is reported.
parse_declaration(s, p) ==
    IF At(s, p) \notin Types THEN Nothing(p)
    ELSE LET type == parse_type(s, p) IN
         CASE At(s, type.p) \notin Idents -> Res(None, synchronize(s, type.p), FALSE)
           [] At(s, type.p + 1) = "(" ->
                parse_function_decl(s, type.n, s[type.p], type.p + 1)
           [] OTHER -> parse_var_decl(s, type.n, s[type.p], type.p + 1)
=============================================================================
