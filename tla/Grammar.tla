------------------------------- MODULE Grammar -------------------------------
(***************************************************************************)
(* What the parser of the compiler should accept: the grammar of the       *)
(* docstrings of parser.py, with the precedences and associativities of C  *)
(* (not those of the table in docs/subset_c_spec.md: see GroupedAsManual   *)
(* of Compiler) and the comma that parser.py:237-239 lets follow the last  *)
(* parameter, as a set of derivations.  Each operator gives the set of the *)
(* trees that derive the tokens s[i] .. s[j]: it guesses where the parts   *)
(* of a phrase begin and end, and never scans, looks ahead or recovers, as *)
(* the parser does.  Trees are those of module Parser.                     *)
(***************************************************************************)
EXTENDS Parser

\* The combinations of an element of A with one of B.
Pairs(A, B, F(_, _)) == IF A = {} THEN {} ELSE {F(a, b) : a \in A, b \in B}

\* The operators of C, the loosest first.
Precedence == << {"||"}, {"&&"}, {"|"}, {"^"}, {"&"}, {"==", "!="},
                 {"<", ">", "<=", ">="}, {"<<", ">>"}, {"+", "-"}, {"*", "/", "%"} >>

RECURSIVE Expr(_, _, _), Binary(_, _, _, _), UnaryOf(_, _, _), PostfixOf(_, _, _),
          ArgLists(_, _, _), Stmt(_, _, _), StmtLists(_, _, _), ParamLists(_, _, _),
          DeclLists(_, _, _)

\* assignment -> logical_or ('=' assignment)?, from which no token of the
\* statements around it is derived.
Expr(s, i, j) ==
    IF \E k \in i .. j : s[k] \in {";", "{", "}"} THEN {}
    ELSE Binary(s, 1, i, j) \cup
         UNION { Pairs(Binary(s, 1, i, k - 1), Expr(s, k + 1, j), LAMBDA t, v : <<"asg", t, v>>) :
                 k \in {k \in i + 1 .. j - 1 : s[k] = "="} }

\* A phrase of level l is an operand, or two phrases about an operator of
\* that level or a tighter one: its left phrase has no looser operator, its
\* right phrase only tighter ones.
Binary(s, l, i, j) ==
    UnaryOf(s, i, j) \cup
    UNION { Pairs(Binary(s, x[2], i, x[1] - 1), Binary(s, x[2] + 1, x[1] + 1, j),
                  LAMBDA a, b : <<"bin", s[x[1]], a, b>>) :
            x \in {x \in (i + 1 .. j - 1) \X (l .. Len(Precedence)) :
                            s[x[1]] \in Precedence[x[2]]} }

\* unary -> ('!' | '-' | '*' | '&') unary | postfix
UnaryOf(s, i, j) ==
    CASE i > j -> {}
      [] i <= j /\ s[i] \in {"!", "-", "*", "&"} ->
            {<<"un", s[i], e>> : e \in UnaryOf(s, i + 1, j)}
      [] OTHER -> PostfixOf(s, i, j)

\* postfix -> primary ('[' expression ']' | '(' arg_list? ')')*
PostfixOf(s, i, j) ==
    CASE i > j -> {}
      [] i = j -> IF s[i] \in Idents THEN {<<"id", s[i]>>}
                  ELSE IF s[i] \in Numerals THEN {<<"num", s[i]>>} ELSE {}
      [] OTHER ->
            (IF s[i] = "(" /\ s[j] = ")" THEN Expr(s, i + 1, j - 1) ELSE {}) \cup
            (IF s[j] = "]"
             THEN UNION { Pairs(PostfixOf(s, i, k - 1), Expr(s, k + 1, j - 1),
                                LAMBDA a, x : <<"idx", a, x>>) :
                          k \in {k \in i + 1 .. j - 1 : s[k] = "["} }
             ELSE {}) \cup
            (IF s[j] = ")"
             THEN UNION { Pairs({f \in PostfixOf(s, i, k - 1) : f[1] = "id"},
                                IF k + 1 = j THEN {None} ELSE ArgLists(s, k + 1, j - 1),
                                LAMBDA f, a : <<"call", f[2], a>>) :
                          k \in {k \in i + 1 .. j - 1 : s[k] = "("} }
             ELSE {})

ArgLists(s, i, j) ==
    {<<e>> : e \in Expr(s, i, j)} \cup
    UNION { Pairs(Expr(s, i, k - 1), ArgLists(s, k + 1, j), LAMBDA e, rest : <<e>> \o rest) :
            k \in {k \in i + 1 .. j - 1 : s[k] = ","} }

\* expression?
OptExpr(s, i, j) == IF i > j THEN {None} ELSE Expr(s, i, j)

-----------------------------------------------------------------------------

\* The type at i, and the position behind it.
TypeAt(s, i) ==
    {[t |-> <<s[i], n>>, p |-> i + n + 1] :
        n \in {n \in 0 .. Len(s) - i : /\ s[i] \in Types
                                       /\ \A k \in i + 1 .. i + n : s[k] = "*"}}

\* type IDENTIFIER ('[' INTEGER ']')? ('=' expression)? ';'
VarDecls(s, i, j, types) ==
    UNION { LET p == t.p + 1
                arrays == {[size |-> "", p |-> p]} \cup
                          (IF p + 2 < j /\ s[p] = "[" /\ s[p + 1] \in Numerals /\ s[p + 2] = "]"
                           THEN {[size |-> s[p + 1], p |-> p + 3]} ELSE {})
            IN UNION { {<<"decl", t.t, s[t.p], a.size, e>> :
                           e \in (IF a.p = j THEN {None} ELSE {}) \cup
                                 (IF a.p < j /\ s[a.p] = "=" THEN Expr(s, a.p + 1, j - 1)
                                  ELSE {})} :
                       a \in arrays } :
            t \in {t \in TypeAt(s, i) : /\ s[i] \in types
                                        /\ t.p < j
                                        /\ s[t.p] \in Idents
                                        /\ s[j] = ";"} }

StmtLists(s, i, j) ==
    IF i > j THEN {None}
    ELSE UNION { Pairs(Stmt(s, i, k), StmtLists(s, k + 1, j), LAMBDA st, rest : <<st>> \o rest) :
                 k \in {k \in i .. j : s[k] \in {";", "}"}} }

\* '{' statement* '}'
Blocks(s, i, j) ==
    IF i < j /\ s[i] = "{" /\ s[j] = "}"
    THEN {<<"block", b>> : b \in StmtLists(s, i + 1, j - 1)} ELSE {}

\* Where `keyword ( ... )' may end.
Closing(s, i, j) == IF i + 1 < j /\ s[i + 1] = "(" THEN {k \in i + 2 .. j : s[k] = ")"} ELSE {}

\* statement ('else' statement)?
Branches(s, i, j) ==
    {<<t, None>> : t \in Stmt(s, i, j)} \cup
    UNION { Pairs(Stmt(s, i, m - 1), Stmt(s, m + 1, j), LAMBDA t, e : <<t, e>>) :
            m \in {m \in i + 1 .. j - 1 : s[m] = "else"} }

\* expression? ';' expression? ';' expression?
Headers(s, i, j) ==
    UNION { {<<a, c, u>> : a \in OptExpr(s, i, m[1] - 1),
                           c \in OptExpr(s, m[1] + 1, m[2] - 1),
                           u \in OptExpr(s, m[2] + 1, j)} :
            m \in {m \in (i .. j) \X (i .. j) :
                     m[1] < m[2] /\ s[m[1]] = ";" /\ s[m[2]] = ";"} }

Stmt(s, i, j) ==
    IF i > j \/ s[j] \notin {";", "}"} THEN {}
    ELSE CASE s[i] \in Types -> VarDecls(s, i, j, {"int", "char"})
      [] s[i] = "{" -> Blocks(s, i, j)
      [] s[i] = "if" ->
            UNION { Pairs(Expr(s, i + 2, k - 1), Branches(s, k + 1, j),
                          LAMBDA c, b : <<"if", c, b[1], b[2]>>) :
                    k \in Closing(s, i, j) }
      [] s[i] = "while" ->
            UNION { Pairs(Expr(s, i + 2, k - 1), Stmt(s, k + 1, j), LAMBDA c, b : <<"while", c, b>>) :
                    k \in Closing(s, i, j) }
      [] s[i] = "for" ->
            UNION { Pairs(Headers(s, i + 2, k - 1), Stmt(s, k + 1, j),
                          LAMBDA h, b : <<"for", h[1], h[2], h[3], b>>) :
                    k \in Closing(s, i, j) }
      [] s[i] = "return" /\ s[j] = ";" -> {<<"return", e>> : e \in OptExpr(s, i + 1, j - 1)}
      [] s[j] = ";" -> {<<"expr", e>> : e \in OptExpr(s, i, j - 1)}
      [] OTHER -> {}

-----------------------------------------------------------------------------

ParamLists(s, i, j) ==
    LET Param(a, b) == {<<"decl", t.t, s[b], "", None>> :
                           t \in {t \in TypeAt(s, a) : t.p = b /\ s[b] \in Idents}}
    IN {<<p>> : p \in Param(i, j)} \cup
       UNION { Pairs(Param(i, k - 1), ParamLists(s, k + 1, j), LAMBDA p, rest : <<p>> \o rest) :
               k \in {k \in i + 1 .. j - 1 : s[k] = ","} }

\* type IDENTIFIER '(' (param_list ','?)? ')' (compound_stmt | ';')
FuncDecls(s, i, j) ==
    UNION { Pairs(IF k = t.p + 2 THEN {None}
                  ELSE ParamLists(s, t.p + 2, IF s[k - 1] = "," THEN k - 2 ELSE k - 1),
                  IF k + 1 = j /\ s[j] = ";" THEN {<<"block", None>>} ELSE Blocks(s, k + 1, j),
                  LAMBDA ps, b : <<"func", t.t, s[t.p], ps, b>>) :
            t \in {t \in TypeAt(s, i) : t.p + 1 < j /\ s[t.p] \in Idents /\ s[t.p + 1] = "("},
            k \in {k \in i + 3 .. j - 1 : s[k] = ")"} }

DeclLists(s, i, j) ==
    IF i > j THEN {None}
    ELSE UNION { Pairs(FuncDecls(s, i, k) \cup VarDecls(s, i, k, Types), DeclLists(s, k + 1, j),
                       LAMBDA d, rest : <<d>> \o rest) :
                 k \in {k \in i .. j : s[k] \in {";", "}"}} }

\* The parses of a source text.
Program(s) == DeclLists(s, 1, Len(s))
==============================================================================
