------------------------------- MODULE Lexer -------------------------------
(***************************************************************************)
(* The compiler's front end on characters: frontend/lexer/lexer.py, and    *)
(* the expansion of #include in frontend/preprocessor/preprocessor.py.     *)
(* A source text is a sequence of one-character strings.                   *)
(***************************************************************************)
EXTENDS Integers, Sequences, FiniteSetsExt, SequencesExt

Whitespace == {" ", "\n"}
Letters == {"a", "n", "_"}
Numerals == {"0", "1"}
Operators1 == {"+", "-", "*", "/", "%", "<", ">", "!", "&", "|", "^", "=", "(", ")", "{", "}", "[", "]", ";", ","}
Operators2 == {<<"=", "=">>, <<"!", "=">>, <<"<", "=">>, <<">", "=">>, <<"&", "&">>, <<"|", "|">>, <<"<", "<">>, <<">", ">">>}
Quote == "q"              \* the double quote
Escape == "\\"

EndOf(s) == Len(s) + 1
At(s, i) == IF i \in DOMAIN s THEN s[i] ELSE "end"
Two(s, i) == SubSeq(s, i, Min({i + 1, Len(s)}))

\* The first place from i on that is not in set, or that is.
PastAll(s, i, set) == Min({j \in i .. Len(s) : s[j] \notin set} \cup {EndOf(s)})
UpTo(s, i, set) == Min({j \in i .. Len(s) : s[j] \in set} \cup {EndOf(s)})

\* A step of tokenize(): the kind of what starts at i, its value and where the
\* lexer goes on.
Lexeme(kind, value, next) == [kind |-> kind, value |-> value, next |-> next]

skip_line_comment(s, i) == Lexeme("blank", <<>>, UpTo(s, i + 2, {"\n"}))

skip_block_comment(s, i) ==
    LET closes == {j \in i + 2 .. Len(s) - 1 : s[j] = "*" /\ s[j + 1] = "/"}
    IN  IF closes = {} THEN Lexeme("error", <<>>, EndOf(s)) ELSE Lexeme("blank", <<>>, Min(closes) + 2)

skip_preprocessor_directive(s, i) == Lexeme("blank", <<>>, Min({UpTo(s, i, {"\n"}) + 1, EndOf(s)}))

read_identifier(s, i) == LET j == PastAll(s, i, Letters \cup Numerals) IN Lexeme("name", SubSeq(s, i, j - 1), j)
read_number(s, i) == LET j == PastAll(s, i, Numerals) IN Lexeme("int", SubSeq(s, i, j - 1), j)

\* The character after the quote is taken whatever it is.
read_char_literal(s, i) ==
    IF i = Len(s) THEN Lexeme("error", <<>>, EndOf(s))
    ELSE IF At(s, i + 2) = "'" THEN Lexeme("char", <<s[i + 1]>>, i + 3)
    ELSE Lexeme("error", <<>>, i + 2)

\* From j on: the value so far, until the closing quote.
RECURSIVE StringFrom(_, _, _)
StringFrom(s, j, value) ==
    CASE j > Len(s) -> Lexeme("error", <<>>, EndOf(s))
      [] At(s, j) = Quote -> Lexeme("string", value, j + 1)
      [] At(s, j) = Escape /\ j = Len(s) -> Lexeme("error", <<>>, EndOf(s))
      [] At(s, j) = Escape /\ j < Len(s) -> StringFrom(s, j + 2, Append(value, <<"escaped", s[j + 1]>>))
      [] OTHER -> StringFrom(s, j + 1, Append(value, <<"plain", s[j]>>))
read_string_literal(s, i) == StringFrom(s, i + 1, <<>>)

read_operator_short(s, i) ==
    IF s[i] \in Operators1 THEN Lexeme("op", <<s[i]>>, i + 1)
    ELSE IF Two(s, i) \in Operators2 THEN Lexeme("op", Two(s, i), i + 2)
    ELSE Lexeme("error", <<>>, i + 1)
read_operator(s, i) ==
    IF Two(s, i) \in Operators2 THEN Lexeme("op", Two(s, i), i + 2)
    ELSE IF s[i] \in Operators1 THEN Lexeme("op", <<s[i]>>, i + 1)
    ELSE Lexeme("error", <<>>, i + 1)

\* The tests of tokenize(), in its order.
LexemeAt(s, i) ==
    CASE s[i] \in Whitespace -> Lexeme("blank", <<>>, PastAll(s, i, Whitespace))
      [] s[i] = "#" -> skip_preprocessor_directive(s, i)
      [] s[i] = "/" /\ At(s, i + 1) = "/" -> skip_line_comment(s, i)
      [] s[i] = "/" /\ At(s, i + 1) = "*" -> skip_block_comment(s, i)
      [] s[i] \in Letters -> read_identifier(s, i)
      [] s[i] \in Numerals -> read_number(s, i)
      [] s[i] = "'" -> read_char_literal(s, i)
      [] s[i] = Quote -> read_string_literal(s, i)
      [] OTHER -> read_operator(s, i)

RECURSIVE LexFrom(_, _, _)
LexFrom(s, i, out) == IF i > Len(s) THEN out
                      ELSE LET l == LexemeAt(s, i)
                           IN  LexFrom(s, l.next, Append(out, [kind |-> l.kind, value |-> l.value, from |-> i, to |-> l.next - 1]))

\* All that tokenize() meets, in order: tokens, blanks and errors.
tokenize(s) == LexFrom(s, 1, <<>>)

-----------------------------------------------------------------------------
(* #include.  A file is a sequence of lines: [text |-> ...] or             *)
(* [include |-> name]; headers gives the lines of those that exist.        *)

IsInclude(line) == "include" \in DOMAIN line

\* processed_files and the errors go along.  A header is expanded the first
\* time it is met, and marked before its own lines are.
RECURSIVE process(_, _, _)
process(headers, lines, state) ==
    IF lines = <<>> THEN state
    ELSE LET line == Head(lines)
             one == IF ~IsInclude(line) THEN [state EXCEPT !.out = Append(@, line)]
                    ELSE IF line.include \notin DOMAIN headers
                    THEN [state EXCEPT !.out = Append(@, line), !.errors = @ + 1]
                    ELSE IF line.include \in state.processed THEN state
                    ELSE process(headers, headers[line.include],
                                 [state EXCEPT !.processed = @ \cup {line.include}])
         IN  process(headers, Tail(lines), one)

Preprocessed(headers, lines) == process(headers, lines, [out |-> <<>>, processed |-> {}, errors |-> 0])
=============================================================================
