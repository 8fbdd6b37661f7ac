------------------------------ MODULE Spelling ------------------------------
(***************************************************************************)
(* What a text spells (docs/lang_design.md, number, string and id): the    *)
(* longest lexeme first, with blanks and comments between lexemes.  The    *)
(* definitions use nothing of the lexer but its classes of characters and  *)
(* its form of tokens.                                                     *)
(***************************************************************************)
EXTENDS Lexer

Chars(w) == ToSet(w)
Has(w, u) == \E k \in 1 .. Len(w) - 1 : SubSeq(w, k, k + 1) = u
Inner(w) == SubSeq(w, 2, Len(w) - 1)

IsBlank(w) == Chars(w) \subseteq Delim
IsLineComment(w) ==
    /\ Len(w) >= 2 /\ SubSeq(w, 1, 2) = <<"/", "/">>
    /\ NEWLINE \notin Chars(Front(w))
IsBlockComment(w) ==
    /\ Len(w) >= 4 /\ SubSeq(w, 1, 2) = <<"/", "*">>
    /\ SubSeq(w, Len(w) - 1, Len(w)) = <<"*", "/">>
    /\ ~Has(SubSeq(w, 3, Len(w) - 1), <<"*", "/">>)
IsId(w)  == w[1] \in Letter /\ Chars(w) \subseteq Letter \cup Digit
IsInt(w) == Chars(w) \subseteq Digit
IsDec(w) ==
    /\ Chars(w) \subseteq Digit \cup {"."} /\ Len(w) >= 2
    /\ Len(SelectSeq(w, LAMBDA c : c = ".")) = 1
Quoted(w, q) == Len(w) >= 2 /\ w[1] = q /\ Last(w) = q /\ q \notin Chars(Inner(w))
IsStr(w) == Quoted(w, "\"")
IsChar(w) == Quoted(w, "'")
IsSymbol(w) ==
    /\ Len(w) = 1
    /\ w[1] \notin Letter \cup Digit \cup Delim \cup {"\"", "'"}

Gap == {"blank", "comment"}
Class(w) ==
    CASE IsBlank(w) -> "blank"
      [] IsLineComment(w) \/ IsBlockComment(w) -> "comment"
      [] IsInt(w) -> "lit_int"
      [] IsDec(w) -> "lit_dec"
      [] IsId(w) -> "id"
      [] IsStr(w) -> "lit_str"
      [] IsChar(w) -> "lit_char"
      [] IsSymbol(w) -> "symbol"
      [] OTHER -> "none"

\* The lexemes of a text from position i on, as records of their class and place; a
\* quote or a comment that is not closed leaves a lexeme of class "none".
Lexemes(text) ==
    LET Opens(i) == i < Len(text) /\ SubSeq(text, i, i + 1) = <<"/", "*">>
        Ends(i) == {j \in i .. Len(text) :
                        Class(SubSeq(text, i, j)) \notin
                            IF Opens(i) THEN {"none", "symbol"} ELSE {"none"}}
        Longest(i) == IF Ends(i) = {} THEN Len(text) ELSE Max(Ends(i))
        From[i \in 1 .. Len(text) + 1] ==
            IF i > Len(text) THEN << >>
            ELSE LET j == Longest(i)
                     w == SubSeq(text, i, j)
                 IN  <<[class |-> IF Ends(i) = {} THEN "none" ELSE Class(w), word |-> w, first |-> i, last |-> j]>> \o From[j + 1]
    IN  From[1]

\* \\ and \n stand for one character; any other backslash for itself.
Escapes(w) ==
    LET Step(s, c) ==
            IF ~s.open THEN IF c = "\\" THEN [s EXCEPT !.open = TRUE]
                                        ELSE [s EXCEPT !.out = Append(@, c)]
            ELSE [open |-> FALSE,
                  out  |-> s.out \o (CASE c = "\\" -> <<"\\">>
                                      [] c = "n"  -> <<NEWLINE>>
                                      [] OTHER    -> <<"\\", c>>)]
        end == FoldLeft(Step, [open |-> FALSE, out |-> << >>], w)
    IN  IF end.open THEN Append(end.out, "\\") ELSE end.out

Meant(l) ==
    CASE l.class = "lit_str"  -> <<"lit_str", Escapes(Inner(l.word))>>
      [] l.class = "lit_char" -> <<"lit_char", Escapes(Inner(l.word))[1]>>
      [] l.class = "lit_int"  -> <<"lit_int", Value(l.word)>>
      [] l.class = "lit_dec"  -> <<"lit_dec", l.word>>
      [] l.class = "symbol"   -> <<l.word[1], NoData>>
      [] l.class = "id"       -> IF l.word \in DOMAIN Keyword THEN <<Keyword[l.word], NoData>>
                                   ELSE <<"id", l.word>>

TokensOf(lexemes) == SelectSeq(lexemes, LAMBDA l : l.class \notin Gap)
Spelled(text) == [k \in DOMAIN TokensOf(Lexemes(text)) |-> Meant(TokensOf(Lexemes(text))[k])]

\* A number may not run into letters or into a second dot (tests/bad_lexer.tin).
BadNumber(text, l) ==
    LET At(k) == IF k <= Len(text) THEN text[k] ELSE NUL
    IN  \/ l.class \in {"lit_int", "lit_dec"} /\ At(l.last + 1) \in Letter
        \/ l.class = "lit_dec" /\ At(l.last + 1) = "." /\ At(l.last + 2) \in Digit
Misspelled(text) == \E k \in DOMAIN Lexemes(text) : BadNumber(text, Lexemes(text)[k])

-----------------------------------------------------------------------------
(* The texts that the lexer is known to read otherwise                     *)

IsWord(l) == l.class \in {"id", "lit_int", "lit_dec"}

\* A string or comment that is not closed is dropped without an error.
Closed(ls) == \A k \in DOMAIN ls : ls[k].class # "none"

\* Comments and the other quote are recognised inside of a string, and a character
\* has one character.
PlainQuotes(ls) ==
    \A k \in DOMAIN ls : ls[k].class \in {"lit_str", "lit_char"} =>
        LET w == Inner(ls[k].word)
        IN  /\ ~Has(w, <<"/", "/">>) /\ ~Has(w, <<"/", "*">>)
            /\ {"\"", "'"} \cap Chars(w) = {}
            /\ ls[k].class = "lit_char" => Len(Escapes(w)) = 1

\* A quote, a comment or a decimal does not end the word in front of it.
WordsApart(ls) ==
    \A k \in 1 .. Len(ls) - 1 : IsWord(ls[k]) =>
        /\ ls[k + 1].class \notin {"comment", "lit_str", "lit_char"}
        /\ ls[k].class = "id" => ls[k + 1].class # "lit_dec"

\* One last character behind a word is taken for a part of it.
EndsApart(ls) ==
    LET n == Len(ls)
    IN  n > 1 /\ IsWord(ls[n - 1]) => IsWord(ls[n]) \/ ls[n].first < ls[n].last

Clean(text) ==
    LET ls == Lexemes(text)
    IN  Closed(ls) /\ PlainQuotes(ls) /\ WordsApart(ls) /\ EndsApart(ls)
=============================================================================
