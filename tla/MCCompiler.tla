----------------------------- MODULE MCCompiler -----------------------------
(***************************************************************************)
(* Source texts for TLC: every short statement list over a small alphabet, *)
(* every pair of operators in four groupings, every combination of a few   *)
(* statements that branch, loop and call, and programs outside the part of *)
(* the language that Supported describes.                                  *)
(***************************************************************************)
EXTENDS Compiler

CONSTANTS Alphabet,     \* tokens of the enumerated statement lists
          MaxBody       \* tokens in one

Function(name, body) == <<"int", name, "(", ")", "{">> \o body \o <<"}">>
Var(x, value) == <<"int", x, "=", value, ";">>
Main(body) == Function("main", body)

\* All statement lists of up to MaxBody tokens, after one and before another.
Bodies == { Main(Var("x", "3") \o b \o <<"return", "x", ";">>) :
            b \in UNION {[1 .. n -> Alphabet] : n \in 0 .. MaxBody} }

\* Two operators on x, y and 2, with and without parentheses and signs.
BinaryOps == UNION {Levels[l] : l \in DOMAIN Levels}
Groupings(o, p) == { <<"x", o, "y", p, "2">>,
                     <<"x", o, "(", "y", p, "2", ")">>,
                     <<"(", "x", o, "y", ")", p, "2">>,
                     <<"-", "x", o, "!", "y", p, "2">> }
Operations == { Main(Var("x", v[1]) \o Var("y", v[2]) \o <<"return">> \o e \o <<";">>) :
                v \in {<<"0", "3">>, <<"63", "2">>},
                e \in UNION {Groupings(o, p) : o \in BinaryOps, p \in BinaryOps} }

Fragments ==
    { <<"if", "(", "x", ")", "if", "(", "y", ")", "x", "=", "5", ";", "else", "y", "=", "7", ";">>,
      <<"while", "(", "x", ">", "1", ")", "{", "x", "=", "x", "-", "1", ";", "y", "=", "y", "+", "x", ";", "}">>,
      <<"for", "(", "x", "=", "y", "=", "0", ";", "x", "<", "3", ";", "x", "=", "x", "+", "1", ")",
        "if", "(", "x", "==", "2", ")", "return", "x", ";">>,
      <<"for", "(", ";", ";", ")", "{", "x", "=", "x", "+", "y", ";",
        "if", "(", "x", "%", "3", "<", "y", ")", "return", "x", "/", "2", ";", "y", "=", "y", "+", "1", ";", "}">>,
      <<"x", "=", "f", "(", ")", "-", "y", "*", "f", "(", ")", ";">>,
      <<"{", "int", "z", "=", "x", ";", "x", "=", "y", ";", "y", "=", "z", ";", "}">> }

\* Two statements in a row, with a function that uses the same registers and
\* is declared behind its caller.
ControlFlow ==
    { Main(Var("x", v[1]) \o Var("y", v[2]) \o s \o t \o <<"return", "x", "+", "y", ";">>)
      \o Function("f", Var("u", "3") \o <<"return", "-", "u", "+", "1", ";">>) :
      v \in {<<"0", "1">>, <<"3", "0">>, <<"2", "2">>}, s \in Fragments, t \in Fragments }

Prototype(name) == <<"int", name, "(", ")", ";">>

\* Programs that are accepted, and rejected, for one reason or another.
Others ==
    { Prototype("yield") \o Main(Var("x", "3") \o <<"yield", "(", ")", ";", "return", "x", ";">>),
      Prototype("f") \o Main(<<"return", "f", "(", ")", ";">>),
      Prototype("f") \o Function("f", <<"return", "1", ";">>) \o Main(<<"return", "f", "(", ")", ";">>),
      <<"int", "f", "(", "int", "x", ",", "char", "y", ")", "{", "return", "x", "-", "y", ";", "}">> \o
        Main(Var("u", "3") \o <<"return", "f", "(", "u", ",", "1", ")", ";">>),
      <<"int", "f", "(", "int", "x", ",", ")", "{", "return", "x", ";", "}">> \o Main(<<"return", "f", "(", "1", ")", ";">>),
      <<"int", "f", "(", ",", ")", ";">> \o Main(<<"return", "1", ";">>),
      <<"int", "f", "(", "int", "x", ",", ",", ")", ";">> \o Main(<<"return", "1", ";">>),
      <<"int", "x", ";">> \o Main(<<"x", "=", "1", ";", "return", "x", ";">>),
      <<"void", "f", "(", ")", "{", "return", ";", "}">> \o Main(<<"f", "(", ")", ";", "return", "0", ";">>),
      Main(<<"int", "x", "[", "3", "]", ";", "x", "[", "1", "]", "=", "2", ";", "return", "x", "[", "1", "]", ";">>),
      Main(<<"int", "x", "[", "3", "]", ";", "x", "[", "1", "]", "=", "2", ";", "return", "-", "x", "[", "1", "]", ";">>),
      Main(Var("x", "3") \o <<"int", "*", "y", "=", "&", "x", ";", "*", "y", "=", "2", ";", "return", "*", "y", ";">>),
      Main(Var("x", "3") \o <<"int", "*", "y", "=", "x", ";", "return", "0", ";">>),
      Main(Var("x", "64") \o Var("y", "1") \o <<"return", "(", "-", "x", "-", "x", ")", "/", "y", ";">>),
      Main(Var("x", "64") \o Var("y", "1") \o <<"return", "x", "/", "y", ";">>),
      Main(Var("x", "1") \o Var("y", "2") \o Var("z", "3") \o Var("u", "5") \o
           <<"return", "x", "+", "y", "+", "z", "+", "u", "+", "x", "+", "y", "-", "z", ";">>),
      Main(Var("x", "3") \o <<"{">> \o Var("z", "1") \o <<"}", "return", "z", ";">>),
      Function("f", Var("u", "3") \o <<"return", "u", ";">>) \o Main(<<"return", "u", ";">>),
      <<";">> \o Main(<<"return", "0", ";">>) }

MCSources == Bodies \cup Operations \cup ControlFlow \cup Others

\* One order: supported programs treat the registers alike.
MCOrders == {<<"r6", "r4", "r9", "r7", "r11", "r5", "r10", "r8">>}
=============================================================================
