------------------------------ MODULE Compiler ------------------------------
(***************************************************************************)
(* The subset-C compiler from source to result: main.py runs the parser    *)
(* (module Parser), the semantic analyser (Analyzer), the IR generator     *)
(* (IRGenerator) and the code generator (CodeGenerator), the program is    *)
(* linked with crt0.S and divmod.S, and an ARMv7-A processor runs it.      *)
(*                                                                         *)
(* A machine word has WORD bits.  Registers and memory hold words; what    *)
(* they hold at the start is Junk.  The stack holds the frames push saved. *)
(***************************************************************************)
EXTENDS Meaning, SequencesExt

CONSTANTS Sources,              \* the source texts, as token sequences
          AVAILABLE_REGISTERS,  \* r4 .. r11
          Orders,               \* orders in which set.pop() yields them
          Results,              \* what a system call may return
          Junk,                 \* an uninitialised word
          Rounds                \* loop rounds and calls of a source's meaning

VARIABLES src, phase,           \* main(): the text, the phase reached
          pos, ok, decls,       \* the parser: current_token, no error, declarations
          ir, gen, order,       \* the code to generate from, the generator, the register order
          asm,                  \* the linked program
          pc, regs, flags, stack, mem,  \* the processor
          want                  \* <<v>>: the text is in scope and means v

machine == <<asm, pc, regs, flags, stack, mem>>
front == <<src, pos, ok, decls>>
back == <<ir, gen, order>>
vars == <<front, phase, back, want, machine>>

Sem == INSTANCE Analyzer
IR == INSTANCE IRGenerator
Code == INSTANCE CodeGenerator
Reference == INSTANCE Grammar

Regs == {"r" \o ToString(n) : n \in 0 .. 12} \cup {"lr"}
Saved == {"r" \o ToString(n) : n \in 4 .. 11}

-----------------------------------------------------------------------------
(* The sources the compiler is right about.  IR generation shows what a    *)
(* function keeps in registers and how its operations meet.                *)

RECURSIVE Nodes(_)
\* The nodes of a tree, itself included.
Nodes(n) == {n} \cup
    CASE n = None -> {}
      [] n # None /\ n[1] \in {"id", "num"} -> {}
      [] n # None /\ n[1] = "func" -> Nodes(n[5])
      [] n # None /\ n[1] = "decl" -> Nodes(n[5])
      [] n # None /\ n[1] = "block" -> UNION {Nodes(n[2][i]) : i \in DOMAIN n[2]}
      [] n # None /\ n[1] = "call" -> UNION {Nodes(n[3][i]) : i \in DOMAIN n[3]}
      [] n # None /\ n[1] \in {"bin", "un"} -> UNION {Nodes(n[i]) : i \in 3 .. Len(n)}
      [] OTHER -> UNION {Nodes(n[i]) : i \in 2 .. Len(n)}

\* An expression without an assignment, or a chain of assignments to names.
RECURSIVE PlainAssignments(_)
PlainAssignments(e) ==
    IF e # None /\ e[1] = "asg" THEN e[2][1] = "id" /\ PlainAssignments(e[3])
    ELSE \A n \in Nodes(e) : n = None \/ n[1] # "asg"

\* The variables and temporaries of a list of IR instructions.
Names(tac) == UNION { LET i == tac[k] IN
                     CASE i[1] = "bin" -> {i[2], i[4], i[5]}
                       [] i[1] = "un" -> {i[2], i[4]}
                       [] i[1] = "assign" -> {i[2], i[3]}
                       [] i[1] \in {"ifFalse", "return", "call"} -> {i[2]}
                       [] OTHER -> {} : k \in DOMAIN tac } \ (Numerals \cup {""})

\* The position p of the text declares the name at it.
Declaration(p) == /\ src[p] \in Idents
                  /\ \E q \in 1 .. p - 1 : /\ src[q] \in Types
                                           /\ \A k \in q + 1 .. p - 1 : src[k] = "*"
Declarations == {p \in DOMAIN src : Declaration(p)}

SupportedFunction(f) ==
    LET nodes == Nodes(f) \ {None}
        tac == IR!visit_declaration(f)
    IN /\ f[1] = "func" /\ f[4] = None
       /\ \A n \in nodes :
            /\ n[1] # "idx"
            /\ n[1] = "un" => n[2] \in {"-", "!"}
            /\ n[1] = "decl" => n[2] = <<"int", 0>> /\ n[4] = "" /\ PlainAssignments(n[5])
            /\ n[1] \in {"expr", "return", "while", "if"} => PlainAssignments(n[2])
            /\ n[1] = "for" => \A i \in 2 .. 4 : PlainAssignments(n[i])
            /\ n[1] = "call" => ~Code!is_syscall(n[2])
       /\ \A k \in DOMAIN tac : tac[k][1] = "bin" => ~({tac[k][4], tac[k][5]} \subseteq Numerals)
       /\ Cardinality(Names(tac)) <= Cardinality(AVAILABLE_REGISTERS)

\* No global variables, parameters, pointers, arrays or chars; assignments as
\* statements; no operation on two constants; no system call; as many
\* variables and temporaries as registers, none named like another.
Supported == /\ \A i \in DOMAIN decls : SupportedFunction(decls[i])
             /\ \A p, q \in Declarations : src[p] = src[q] => p = q
             /\ \A p \in Declarations, n \in 0 .. Len(src) : src[p] # IR!Temp(n)

-----------------------------------------------------------------------------
(* main() *)

Init ==
    /\ src \in Sources
    /\ phase = "parse" /\ pos = 1 /\ ok = TRUE /\ decls = None /\ want = None
    /\ ir = None /\ gen = None /\ order = None
    /\ asm = None /\ pc = 0 /\ regs = None /\ flags = None /\ stack = None /\ mem = None

\* One round of the loop of parse().  Where parse_declaration() consumes
\* nothing the round changes nothing, and the compiler never ends.
ParseDeclaration ==
    /\ phase = "parse" /\ At(src, pos) # "EOF"
    /\ LET r == parse_declaration(src, pos) IN
       /\ pos' = r.p
       /\ decls' = IF r.n = None THEN decls ELSE Append(decls, r.n)
       /\ ok' = (ok /\ r.ok)
    /\ UNCHANGED <<src, phase, back, want, machine>>

ParseEnd ==
    /\ phase = "parse" /\ At(src, pos) = "EOF"
    /\ phase' = IF ok THEN "analyze" ELSE "rejected"
    /\ UNCHANGED <<front, back, want, machine>>

Analyze ==
    /\ phase = "analyze"
    /\ phase' = IF Sem!analyze(decls) THEN "ir" ELSE "rejected"
    /\ UNCHANGED <<front, back, want, machine>>

\* crt0.S: call main, exit with what it returns.
start == <<<<"bl", "main">>, <<"movi", "r7", 1>>, <<"svc">>>>

Runtime == {"__aeabi_idiv", "__aeabi_idivmod"}

\* The linker finds every function that is called.
Linked(code) == \A i \in DOMAIN code : code[i][1] = "bl" /\ code[i][2] \notin Runtime =>
                    \E j \in DOMAIN code : code[j] = <<"label", <<code[i][2], "entry">>>>

\* IRGenerator.generate(), and an order for the register allocator.
GenerateIR ==
    /\ phase = "ir"
    /\ ir' = FlattenSeq([i \in DOMAIN decls |-> IR!visit_declaration(decls[i])])
    /\ gen' = Code!Start
    /\ order' \in Orders
    /\ phase' = "code"
    /\ UNCHANGED <<front, want, machine>>

\* One round of the loop of CodeGenerator.generate().
VisitInstruction ==
    /\ phase = "code" /\ ir # None
    /\ gen' = Code!visit_instruction(gen, Head(ir), order)
    /\ ir' = Tail(ir)
    /\ UNCHANGED <<front, phase, order, want, machine>>

\* The linker, and the program's start.
Link ==
    /\ phase = "code" /\ ir = None
    /\ LET code == start \o gen.asm
           m == Value(decls, Rounds)
       IN IF ~Linked(code) THEN /\ phase' = "rejected"
                                /\ UNCHANGED <<want, machine>>
          ELSE /\ phase' = "run"
               /\ asm' = code /\ pc' = 1 /\ flags' = <<0, 0>> /\ stack' = None /\ mem' = None
               /\ regs' = [r \in Regs |-> Junk]
               /\ want' = IF Supported /\ m.ok THEN <<m.v>> ELSE None
    /\ gen' = None /\ order' = None
    /\ UNCHANGED <<front, ir>>

-----------------------------------------------------------------------------
(* The processor *)

Reg(r) == IF r = "#0" THEN 0 ELSE regs[r]

Alu(op, a, b) ==
    CASE op = "+" -> (a + b) % 2 ^ WORD
      [] op = "-" -> (a - b) % 2 ^ WORD
      [] op = "*" -> (a * b) % 2 ^ WORD
      [] op = "&" -> a & b
      [] op = "|" -> a | b
      [] op = "^" -> a ^^ b
      [] op = "<<" -> IF b >= WORD THEN 0 ELSE (a * 2 ^ b) % 2 ^ WORD
      [] op = ">>" -> Unsigned(Signed(a) \div 2 ^ (IF b >= WORD THEN WORD ELSE b))

\* A condition, on what the last cmp compared.
Holds(cond) == LET a == Signed(flags[1])
                   b == Signed(flags[2])
               IN CASE cond = "==" -> a = b [] cond = "!=" -> a # b
                    [] cond = "<" -> a < b [] cond = ">=" -> a >= b
                    [] cond = ">" -> a > b [] cond = "<=" -> a <= b

Running(op) == phase = "run" /\ asm[pc][1] = op
Target(l) == CHOOSE i \in DOMAIN asm : asm[i] = <<"label", l>>

Set(r, v) == /\ regs' = [regs EXCEPT ![r] = v]
             /\ pc' = pc + 1
             /\ UNCHANGED <<front, phase, back, want, asm, flags, stack, mem>>

Jump(to) == /\ pc' = to
            /\ UNCHANGED <<front, phase, back, want, asm, regs, flags, stack, mem>>

DataProcessing ==
    LET i == asm[pc] IN
    \/ Running("movi") /\ Set(i[2], Unsigned(i[3]))
    \/ Running("mov") /\ Set(i[2], Reg(i[3]))
    \/ Running("movc") /\ Set(i[3], IF Holds(i[2]) THEN i[4] ELSE Reg(i[3]))
    \/ Running("alu") /\ Set(i[3], Alu(i[2], Reg(i[4]), Reg(i[5])))
    \/ Running("rsb") /\ Set(i[2], Alu("-", 0, Reg(i[3])))

Compare ==
    /\ Running("cmp")
    /\ flags' = <<Reg(asm[pc][2]), Reg(asm[pc][3])>>
    /\ pc' = pc + 1
    /\ UNCHANGED <<front, phase, back, want, asm, regs, stack, mem>>

Branch ==
    \/ Running("label") /\ Jump(pc + 1)
    \/ Running("b") /\ Jump(Target(asm[pc][2]))
    \/ Running("beq") /\ Jump(IF Holds("==") THEN Target(asm[pc][2]) ELSE pc + 1)

Memory ==
    LET i == asm[pc] IN
    \/ Running("ldr") /\ Set(i[2], IF Reg(i[3]) \in DOMAIN mem THEN mem[Reg(i[3])] ELSE Junk)
    \/ /\ Running("str")
       /\ mem' = [a \in DOMAIN mem \cup {Reg(i[3])} |->
                    IF a = Reg(i[3]) THEN Reg(i[2]) ELSE mem[a]]
       /\ pc' = pc + 1
       /\ UNCHANGED <<front, phase, back, want, asm, regs, flags, stack>>

\* push {r4-r11, lr} and pop {r4-r11, pc}
Frame ==
    \/ /\ Running("push")
       /\ stack' = <<[r \in Saved \cup {"lr"} |-> regs[r]]>> \o stack
       /\ pc' = pc + 1
       /\ UNCHANGED <<front, phase, back, want, asm, regs, flags, mem>>
    \/ /\ Running("pop")
       /\ stack' = Tail(stack)
       /\ regs' = [r \in Regs |-> IF r \in Saved THEN stack[1][r] ELSE regs[r]]
       /\ pc' = stack[1]["lr"]
       /\ UNCHANGED <<front, phase, back, want, asm, flags, mem>>

Enter(f) ==
    /\ regs' = [regs EXCEPT !["lr"] = pc + 1]
    /\ pc' = Target(<<f, "entry">>)
    /\ UNCHANGED <<front, phase, back, want, asm, flags, stack, mem>>

-----------------------------------------------------------------------------
(* divmod.S *)

RECURSIVE idiv_align(_, _, _), idiv_loop(_, _, _, _)

\* The divisor and the bit, shifted left until the divisor is above the
\* numerator; None when it is shifted out, and the loop never ends.
idiv_align(n, d, bit) ==
    CASE d = 0 -> None
      [] d > n -> <<d, bit>>
      [] OTHER -> idiv_align(n, (2 * d) % 2 ^ WORD, (2 * bit) % 2 ^ WORD)

\* The quotient; numerator and divisor are compared as signed words.
idiv_loop(n, d, bit, q) ==
    IF bit = 0 THEN q
    ELSE LET ge == Signed(n) >= Signed(d)
         IN idiv_loop(IF ge THEN Alu("-", n, d) ELSE n, d \div 2, bit \div 2,
                      IF ge THEN Alu("+", q, bit) ELSE q)

\* __aeabi_idiv, which may not return.
Never == -1
idiv(n, d) ==
    LET Abs(w) == IF Signed(w) < 0 THEN Alu("-", 0, w) ELSE w
        a == idiv_align(Abs(n), Abs(d), 1)
        q == idiv_loop(Abs(n), a[1], a[2], 0)
    IN CASE d = 0 -> 0
         [] d # 0 /\ a = None -> Never
         [] OTHER -> IF (Signed(n) < 0) = (Signed(d) < 0) THEN q ELSE Alu("-", 0, q)

\* bl to a runtime routine.  Only r0, and r1 of __aeabi_idivmod, are used
\* afterwards; r1, r2 and r3 hold what the division left in them: Junk.
Divide(f) ==
    LET n == regs["r0"]
        d == regs["r1"]
        q == idiv(n, d)
    IN IF q = Never
       THEN /\ phase' = "hung"
            /\ UNCHANGED <<front, back, want, machine>>
       ELSE /\ regs' = [regs EXCEPT !["r0"] = q,
                          !["r1"] = IF f = "__aeabi_idivmod" THEN Alu("-", n, Alu("*", q, d))
                                    ELSE Junk,
                          !["r2"] = Junk, !["r3"] = Junk, !["lr"] = pc + 1]
            /\ pc' = pc + 1
            /\ UNCHANGED <<front, phase, back, want, asm, flags, stack, mem>>

BranchLink ==
    /\ Running("bl")
    /\ LET f == asm[pc][2] IN IF f \in Runtime THEN Divide(f) ELSE Enter(f)

\* svc #0: SYS_EXIT ends the program, the others return in r0.
Svc ==
    /\ Running("svc")
    /\ IF regs["r7"] = 1
       THEN /\ phase' = "done"
            /\ UNCHANGED <<front, back, want, machine>>
       ELSE \E v \in Results : Set("r0", v)

Step == DataProcessing \/ Compare \/ Branch \/ Memory \/ Frame \/ BranchLink \/ Svc

\* The compiler rejects the text, or the program is over.
Finished == phase \in {"rejected", "hung", "done"} /\ UNCHANGED vars

Next == ParseDeclaration \/ ParseEnd \/ Analyze \/ GenerateIR \/ VisitInstruction \/ Link \/ Step \/ Finished

\* The processor keeps running.
Spec == Init /\ [][Next]_vars /\ WF_vars(Step)

-----------------------------------------------------------------------------
(* Properties *)

\* parse() is right about the grammar of its docstrings: what it accepts has a
\* derivation, and the tree it builds is that derivation's, whatever the
\* lookahead and the recovery from errors did on the way; what it rejects, or
\* never ends on, has none.
ParserIsGrammar ==
    LET stalled == phase = "parse" /\ At(src, pos) \notin Types \cup {"EOF"} IN
    /\ phase = "analyze" => decls \in Reference!Program(src)
    /\ phase = "rejected" /\ ~ok => Reference!Program(src) = {}
    /\ stalled => Reference!Program(src) = {}

\* The rows of the table of operators in docs/subset_c_spec.md:245-256 that hold
\* binary operators, the loosest first; all associate to the left.
ManualRows == << {"&", "^", "|", "&&", "||"}, {"<", ">", "<=", ">=", "==", "!="}, {"<<", ">>"},
                 {"+", "-"}, {"*", "/", "%"} >>
Row(o) == CHOOSE r \in DOMAIN ManualRows : o \in ManualRows[r]

\* The pairs of one row that the parser has on different levels, the first on
\* the looser one.
LogicalOrder == <<"||", "&&", "|", "^", "&">>
Departures == ({"==", "!="} \X {"<", ">", "<=", ">="}) \cup
              {<<LogicalOrder[x[1]], LogicalOrder[x[2]]>> : x \in {x \in (1 .. 5) \X (1 .. 5) : x[1] < x[2]}}

\* What the last declaration returns, when it ends with a return statement.
ReturnedTree == LET body == Last(decls)[5][2] IN IF Last(body)[1] = "return" THEN Last(body)[2] ELSE None
Ends(tokens) == IsSuffix(<<"return">> \o tokens \o <<";", "}">>, src)
Operand(t) == IF t \in Idents THEN <<"id", t>> ELSE <<"num", t>>

\* Two operators on plain operands are grouped as the table of the manual says
\* but for the Departures: x || y && 2 is x || (y && 2) and x == y < 2 is
\* x == (y < 2), as in C, where the manual has (x || y) && 2 and (x == y) < 2.
\* A subscript binds tighter than a sign before it, where the manual has it
\* looser.
GroupedAsManual ==
    phase = "analyze" /\ Len(src) > 6 =>
      /\ LET e == SubSeq(src, Len(src) - 6, Len(src) - 2)
             o == e[2]
             p == e[4]
         IN  Ends(e) /\ {o, p} \subseteq UNION Range(ManualRows) /\ {e[1], e[3], e[5]} \subseteq Idents \cup Numerals =>
               ReturnedTree = IF Row(o) >= Row(p) /\ <<o, p>> \notin Departures
                          THEN <<"bin", p, <<"bin", o, Operand(e[1]), Operand(e[3])>>, Operand(e[5])>>
                          ELSE <<"bin", o, Operand(e[1]), <<"bin", p, Operand(e[3]), Operand(e[5])>>>>
      /\ \A u \in Unary, a \in Idents, k \in Numerals :
           Ends(<<u, a, "[", k, "]">>) => ReturnedTree = <<"un", u, <<"idx", <<"id", a>>, <<"num", k>>>>>>

\* The number of blocks open at a position of the text.
Depth(p) == Cardinality({k \in 1 .. p : src[k] = "{"}) - Cardinality({k \in 1 .. p : src[k] = "}"})

\* The declaration at d is in a block that is still open at p.
StillOpen(d, p) == d < p /\ \A k \in d .. p : Depth(k) >= Depth(d)

\* The symbol table gives names the scopes of C: in a text that analyze()
\* accepts, every use of a name is behind a declaration of it whose block is
\* still open, or is a use of a function, and no block declares a name twice.
AcceptedIsScoped ==
    phase = "ir" =>
        /\ \A p \in {p \in DOMAIN src : src[p] \in Idents} \ Declarations :
              \E d \in Declarations : /\ src[d] = src[p]
                                      /\ StillOpen(d, p) \/ Depth(d) = 0
        /\ \A d, e \in Declarations :
              src[d] = src[e] /\ Depth(d) = Depth(e) /\ d < e => ~StillOpen(d, e)

\* parse() and analyze() let through what the grammar derives and the scopes
\* of C allow, and parse() all that is derived.  Where the manual's table of
\* operators differs from that grammar, GroupedAsManual says so: the parser of
\* parser.py:464-616 follows C and departs from the table on the named pairs,
\* and on no other pair.
FrontEndRight == ParserIsGrammar /\ GroupedAsManual /\ AcceptedIsScoped

\* The compiled program means what its source means: when the source is in
\* the supported part of the language and its meaning is defined, the program
\* ends, through registers, branches, frames and the division routines, with
\* the value of the source as its exit status.
CompiledMeansSource ==
    (phase = "run" /\ want # None) ~> (phase = "done" /\ <<Signed(regs["r0"])>> = want)
=============================================================================
