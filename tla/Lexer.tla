------------------------------- MODULE Lexer -------------------------------
(***************************************************************************)
(* lex_file of Lexer.cpp: from the characters of a file to tokens.  A text *)
(* is a sequence of characters, and the state between two turns of the     *)
(* loop a record: `is` holds the names of the flags that are true.         *)
(* Lines and columns are left out.                                         *)
(***************************************************************************)
EXTENDS Naturals, Sequences, SequencesExt

CONSTANTS Letter, Digit,    \* characters of an identifier, and of a number
          Keyword           \* the words that are tokens of their own, and their types

SPACE == " "
NEWLINE == "\n"
NUL == "NUL"
Delim == {SPACE, NEWLINE, "\t", "\r"}

\* Token: its type, what getToken gives for its data_index, and its flags.
Token(type, data) == [type |-> type, data |-> data, flags |-> {}]
NoData == << >>
Tight(token) == token.flags = {}        \* no TOKEN_FLAG_SUFFIX_ANY

Start == [is |-> {}, skip |-> FALSE, data_start |-> 1, string_content |-> << >>,
          tokens |-> << >>, failed |-> FALSE]

Add(s, token) == [s EXCEPT !.tokens = Append(@, token)]
SetIs(s, f) == [s EXCEPT !.is = @ \cup {f}]
ClearIs(s, f) == [s EXCEPT !.is = @ \ {f}]
Skip(s) == [s EXCEPT !.skip = TRUE]

\* The flags of the last token; a newline takes the space away.
Suffix(s, chr) ==
    LET n == Len(s.tokens)
    IN  CASE n > 0 /\ chr = NEWLINE -> [s EXCEPT !.tokens[n].flags = {NEWLINE}]
          [] n > 0 /\ chr = SPACE /\ NEWLINE \notin s.tokens[n].flags ->
                [s EXCEPT !.tokens[n].flags = {SPACE}]
          [] OTHER -> s

\* A quote that opens or closes; a closing one takes what was read since.
Quote(s, f, i, token) ==
    IF f \in s.is
    THEN [Add(ClearIs(s, f), token) EXCEPT !.string_content = << >>]
    ELSE [SetIs(s, f) EXCEPT !.data_start = i + 1]

\* string_content[0] of an empty string is the character 0.
FirstOf(content) == IF content = << >> THEN NUL ELSE content[1]

Content(s, chr, next) ==
    LET Put(c) == [s EXCEPT !.string_content = Append(@, c)]
    IN  CASE chr = "\\" /\ next = "\\" -> Skip(Put("\\"))
          [] chr = "\\" /\ next = "n" -> Skip(Put(NEWLINE))
          [] OTHER -> Put(chr)

\* The state after a character that continues an identifier or a number; the last
\* character of the file is also its end.
Word(s, chr, next, i) ==
    LET from == [s EXCEPT !.data_start = i]
    IN  CASE chr \in Letter ->
                IF s.is \cap {"num", "decimal"} # {} THEN [s EXCEPT !.failed = TRUE]
                ELSE IF "id" \in s.is THEN s ELSE SetIs(from, "id")
          [] chr \in Digit ->
                IF s.is \cap {"id", "num", "decimal"} # {} THEN s ELSE SetIs(from, "num")
          [] OTHER ->       \* a dot
                IF "decimal" \in s.is THEN [s EXCEPT !.failed = TRUE]
                ELSE SetIs(ClearIs(IF "num" \in s.is THEN s ELSE from, "num"), "decimal")

\* atoi and atof see the digits at the start.
Digits(word) == SelectSeq(word, LAMBDA c : c \in Digit)
Value(word) == FoldLeft(LAMBDA n, c : 10 * n + (CHOOSE d \in 0 .. 9 : ToString(d) = c),
                        0, Digits(word))
Decimal(word) == SelectSeq(word, LAMBDA c : c \in Digit \cup {"."})

Spell(f, word) ==
    CASE f = "decimal" -> Token("lit_dec", Decimal(word))
      [] f = "num"     -> Token("lit_int", Value(word))
      [] f = "id"      -> IF word \in DOMAIN Keyword THEN Token(Keyword[word], NoData) ELSE Token("id", word)

\* Mutant: a number is not ended by what follows it.
EndWord_IdOnly(s, text, last) ==
    LET word == SubSeq(text, s.data_start, last)
    IN  IF "id" \in s.is THEN ClearIs(Add(s, Spell("id", word)), "id") ELSE s

\* The open decimal, number and identifier become tokens, in this order.
EndWord(s, text, last) ==
    LET word == SubSeq(text, s.data_start, last)
    IN  FoldLeft(LAMBDA t, f : IF f \in t.is THEN ClearIs(Add(t, Spell(f, word)), f) ELSE t,
                 s, <<"decimal", "num", "id">>)

\* At the end of the file the last character belongs to the word that was open, and
\* only the first of the open ones becomes a token.
EndFile(s, text) ==
    LET f == SelectSeq(<<"decimal", "num", "id">>, LAMBDA g : g \in s.is)[1]
    IN  Add(ClearIs(s, f), Spell(f, SubSeq(text, s.data_start, Len(text))))

Symbol(s, chr) == IF chr \in Delim THEN Suffix(s, chr) ELSE Add(s, Token(chr, NoData))

Continues(s, chr, next) ==
    \/ chr \in Letter \cup Digit
    \/ chr = "." /\ ("num" \in s.is \/ next \in Digit)

\* One turn of the loop at a character that is in no comment or string.
Plain(s, text, chr, next, i) ==
    LET word   == IF Continues(s, chr, next) THEN Word(s, chr, next, i) ELSE s
        ending == i = Len(text)
    IN  CASE word.failed -> word
          [] ~ending /\ Continues(s, chr, next) -> word
          [] ending /\ word.is # {} -> EndFile(word, text)
          [] OTHER -> Symbol(EndWord(word, text, i - 1), chr)

Turn(s, text, chr, next, i) ==
    CASE "comment" \in s.is -> IF chr = NEWLINE THEN ClearIs(s, "comment") ELSE s
      [] "multicomment" \in s.is ->
            IF chr = "*" /\ next = "/" THEN Skip(ClearIs(s, "multicomment")) ELSE s
      [] chr = "/" /\ next = "/" -> Skip(SetIs(s, "comment"))
      [] chr = "/" /\ next = "*" -> Skip(SetIs(s, "multicomment"))
      [] chr = "\"" -> Quote(s, "str", i, Token("lit_str", s.string_content))
      [] chr = "'" -> Quote(s, "char", i, Token("lit_char", FirstOf(s.string_content)))
      [] s.is \cap {"str", "char"} # {} -> Content(s, chr, next)
      [] OTHER -> Plain(s, text, chr, next, i)

Lex(text) ==
    LET Next(i) == IF i < Len(text) THEN text[i + 1] ELSE NUL
        Step(s, i) ==
            IF s.failed THEN s
            ELSE IF s.skip THEN [s EXCEPT !.skip = FALSE]
            ELSE Turn(Suffix(s, text[i]), text, text[i], Next(i), i)
    IN  FoldLeft(Step, Start, [i \in 1 .. Len(text) |-> i])
=============================================================================
