------------------------------- MODULE Meaning -------------------------------
(***************************************************************************)
(* What a program in subset C means: the value main() returns, computed on *)
(* the tree, with the integers of C.  The reference the compiled code is   *)
(* held against; it knows no registers, temporaries or branches.           *)
(*                                                                         *)
(* A state st has the values of the initialised variables, the value v of  *)
(* the last expression, whether the function has returned, whether all was *)
(* defined so far, and how many more loop rounds and calls it may make.    *)
(***************************************************************************)
EXTENDS Parser, Bitwise

CONSTANT WORD                                   \* bits of an int: 32

Fits(n) == -(2 ^ (WORD - 1)) <= n /\ n < 2 ^ (WORD - 1)
Unsigned(n) == n % 2 ^ WORD
Signed(w) == IF w >= 2 ^ (WORD - 1) THEN w - 2 ^ WORD ELSE w
ValueOf(numeral) == CHOOSE n \in Literals : ToString(n) = numeral
Truth(b) == IF b THEN 1 ELSE 0

\* Division truncates toward zero.
Quotient(a, b) ==
    LET Abs(n) == IF n < 0 THEN -n ELSE n
    IN IF (a < 0) = (b < 0) THEN Abs(a) \div Abs(b) ELSE -(Abs(a) \div Abs(b))

Operate(op, a, b) ==
    CASE op = "+" -> a + b
      [] op = "-" -> a - b
      [] op = "*" -> a * b
      [] op = "/" -> Quotient(a, b)
      [] op = "%" -> a - b * Quotient(a, b)
      [] op = "==" -> Truth(a = b)
      [] op = "!=" -> Truth(a # b)
      [] op = "<" -> Truth(a < b)
      [] op = ">" -> Truth(a > b)
      [] op = "<=" -> Truth(a <= b)
      [] op = ">=" -> Truth(a >= b)
      [] op = "&" -> Signed(Unsigned(a) & Unsigned(b))
      [] op = "|" -> Signed(Unsigned(a) | Unsigned(b))
      [] op = "^" -> Signed(Unsigned(a) ^^ Unsigned(b))
      [] op = "<<" -> a * 2 ^ b
      [] op = ">>" -> a \div 2 ^ b

\* Where C defines the result; of the numerators, those that divmod.S can
\* align a divisor with, which leaves a bit above them and the sign bit.
Defined(op, a, b) ==
    CASE op \in {"/", "%"} -> b # 0 /\ -(2 ^ (WORD - 2)) < a /\ a < 2 ^ (WORD - 2)
      [] op = "<<" -> a >= 0 /\ b \in 0 .. WORD - 1 /\ Fits(a * 2 ^ b)
      [] op = ">>" -> b \in 0 .. WORD - 1
      [] OTHER -> Fits(Operate(op, a, b))

Returned(st, v, ok) == [st EXCEPT !.v = IF ok THEN v ELSE 0, !.ok = @ /\ ok]

\* What becomes of the operands of an operation and of the end of a call.
AsTruth(r) == Returned(r, Truth(r.v # 0), r.ok)
Operation(op, l, r) == Returned(r, Operate(op, l.v, r.v), r.ok /\ Defined(op, l.v, r.v))
SignOrNot(op, o) == IF op = "!" THEN Returned(o, Truth(o.v = 0), o.ok)
                    ELSE Returned(o, -o.v, o.ok /\ op = "-" /\ Fits(-o.v))
Assign(target, r) == [r EXCEPT !.ok = @ /\ target[1] = "id",
                               !.env = [x \in DOMAIN @ \cup {target[2]} |->
                                          IF x = target[2] THEN r.v ELSE @[x]]]
Back(st, type, b) == [b EXCEPT !.env = st.env, !.ret = FALSE,
                               !.ok = @ /\ (b.ret \/ type = <<"void", 0>>)]

RECURSIVE Eval(_, _, _), Exec(_, _, _), ExecList(_, _, _), Repeat(_, _, _, _, _)

Call(P, st, name) ==
    LET f == P[CHOOSE i \in DOMAIN P : P[i][1] = "func" /\ P[i][3] = name /\ P[i][5][2] # None]
    IN IF st.fuel = 0 THEN [st EXCEPT !.ok = FALSE]
       ELSE Back(st, f[2], Exec(P, [st EXCEPT !.env = None, !.ret = FALSE, !.fuel = @ - 1], f[5]))

\* The binary operation e behind its left operand l.
Right(P, l, e) ==
    IF e[2] \notin {"&&", "||"} THEN Operation(e[2], l, Eval(P, l, e[4]))
    ELSE IF l.ok /\ (l.v # 0) = (e[2] = "||") THEN AsTruth(l)
    ELSE AsTruth(Eval(P, l, e[4]))

Eval(P, st, e) ==
    CASE ~st.ok -> st
      [] st.ok /\ e[1] = "id" -> Returned(st, st.env[e[2]], e[2] \in DOMAIN st.env)
      [] st.ok /\ e[1] = "num" -> Returned(st, ValueOf(e[2]), Fits(ValueOf(e[2])))
      [] st.ok /\ e[1] = "bin" -> Right(P, Eval(P, st, e[3]), e)
      [] st.ok /\ e[1] = "un" -> SignOrNot(e[2], Eval(P, st, e[3]))
      [] st.ok /\ e[1] = "asg" -> Assign(e[2], Eval(P, st, e[3]))
      [] st.ok /\ e[1] = "call" -> Call(P, st, e[2])
      [] OTHER -> [st EXCEPT !.ok = FALSE]

OptEval(P, st, e) == IF e = None THEN st ELSE Eval(P, st, e)

ExecList(P, st, stmts) ==
    IF stmts = None THEN st ELSE ExecList(P, Exec(P, st, Head(stmts)), Tail(stmts))

\* A loop behind its body, behind its condition, and before it.
Again(P, b, condition, body, increment) ==
    IF b.ret \/ ~b.ok THEN b
    ELSE Repeat(P, OptEval(P, b, increment), condition, body, increment)

Round(P, c, condition, body, increment) ==
    CASE ~c.ok \/ (condition # None /\ c.v = 0) -> c
      [] OTHER -> IF c.fuel = 0 THEN [c EXCEPT !.ok = FALSE]
                  ELSE Again(P, Exec(P, [c EXCEPT !.fuel = @ - 1], body), condition, body, increment)

Repeat(P, st, condition, body, increment) ==
    Round(P, OptEval(P, st, condition), condition, body, increment)

Branches(P, c, s) == IF c.v # 0 THEN Exec(P, c, s[3])
                     ELSE IF s[4] = None THEN c ELSE Exec(P, c, s[4])

Exec(P, st, s) ==
    IF st.ret \/ ~st.ok THEN st
    ELSE CASE s[1] = "decl" ->
                IF s[5] = None
                THEN [st EXCEPT !.env = [x \in DOMAIN @ \ {s[3]} |-> @[x]]]
                ELSE Eval(P, st, <<"asg", <<"id", s[3]>>, s[5]>>)
           [] s[1] = "block" -> ExecList(P, st, s[2])
           [] s[1] = "expr" -> OptEval(P, st, s[2])
           [] s[1] = "if" -> Branches(P, Eval(P, st, s[2]), s)
           [] s[1] = "while" -> Repeat(P, st, s[2], s[3], None)
           [] s[1] = "for" -> Repeat(P, OptEval(P, st, s[2]), s[3], s[5], s[4])
           [] s[1] = "return" -> [OptEval(P, st, s[2]) EXCEPT !.ret = TRUE]

\* The value of main(), and whether it is defined within the given rounds.
Value(P, rounds) ==
    Call(P, [env |-> None, v |-> 0, ret |-> FALSE, ok |-> TRUE, fuel |-> rounds], "main")
==============================================================================
