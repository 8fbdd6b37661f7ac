------------------------------ MODULE Frontend ------------------------------
(***************************************************************************)
(* The lexer and the parser on everything that somebody may write, one     *)
(* character, token or operator after the other.                           *)
(***************************************************************************)
EXTENDS Spelling, Grammar

CONSTANTS
    Character, MaxText,             \* of a text
    Given,                          \* texts that are given as a whole
    ExpressionToken, MaxExpression, \* the tokens of an expression, with "tight" or "apart"
    Operator, MaxChain,             \* the operators of a chain of operands
    FileToken, MaxFile,             \* the tokens of a file
    BodyToken, MaxBody              \* and of the body of a function

VARIABLES kind, input
vars == <<kind, input>>

\* A token is told from others by its place.
Name(k) == "x" \o ToString(k)
TokenOf(t, k) ==
    [Token(t[1], IF t[1] = "lit_int" THEN k ELSE Name(k)) EXCEPT
        !.flags = IF t[2] = "tight" THEN {} ELSE {SPACE}]
tokens == [k \in DOMAIN input |-> TokenOf(input[k], k)]

\* fun x2() {
Opened == << <<"fun", "apart">>, <<"id", "apart">>, <<"(", "apart">>, <<")", "apart">>,
             <<"{", "apart">> >>

Init ==
    \/ kind \in {"text", "expression", "file"} /\ input = << >>
    \/ kind = "text" /\ input \in Given
    \/ kind = "chain" /\ input = << <<"id", "apart">> >>
    \/ kind = "body" /\ input = Opened

\* What has failed before its last token can only fail.
Open(r) == r.error_at = 0 \/ r.error_at >= Len(input)

AddCharacter ==
    /\ kind = "text" /\ Len(input) < MaxText
    /\ \E c \in Character : input' = Append(input, c)
    /\ UNCHANGED kind

AddToken ==
    /\ kind = "expression" /\ Len(input) < MaxExpression
    /\ LET r == parseExpression(tokens, Context)
       IN  Open(r) /\ (~Failed(r) => r.head > Len(input))
    /\ \E t \in ExpressionToken : input' = Append(input, t)
    /\ UNCHANGED kind

\* An operator is a sequence of tokens.
AddOperation ==
    /\ kind = "chain" /\ Len(SelectSeq(input, LAMBDA t : t[1] = "id")) < MaxChain
    /\ \E op \in Operator : input' = input \o op \o << <<"id", "apart">> >>
    /\ UNCHANGED kind

AddFileToken ==
    /\ kind = "file" /\ Len(input) < MaxFile
    /\ Open(ParseTokenStream(tokens))
    /\ \E t \in FileToken : input' = Append(input, t)
    /\ UNCHANGED kind

AddBodyToken ==
    /\ kind = "body" /\ Len(input) < MaxBody
    /\ Open(ParseTokenStream(tokens))
    /\ \E t \in BodyToken : input' = Append(input, t)
    /\ UNCHANGED kind

Next == AddCharacter \/ AddToken \/ AddOperation \/ AddFileToken \/ AddBodyToken

Spec == Init /\ [][Next]_vars

-----------------------------------------------------------------------------
\* What lex_file gives is what is written: the same tokens with the same contents, and
\* a token is followed at once by a symbol in the stream if no space is between them in
\* the text, for the parser to see == and int*.  A number that runs into letters or a
\* second dot is an error.
\* The texts that are not Clean are those that the lexer is known to read otherwise.
SameTokens(ts, meant) == [k \in DOMAIN ts |-> <<ts[k].type, ts[k].data>>] = meant

Between(text, l, m) == ToSet(SubSeq(text, l.last + 1, m.first - 1))
SameFlags(ts, ls) ==
    \A k \in 1 .. Len(ls) - 1 : ls[k + 1].class = "symbol" =>
        (Tight(ts[k]) <=> {SPACE, NEWLINE} \cap Between(input, ls[k], ls[k + 1]) = {})

LexSpells ==
    kind = "text" /\ Clean(input) =>
        LET s  == Lex(input)
            ls == TokensOf(Lexemes(input))
        IN  IF Misspelled(input) THEN s.failed
            ELSE /\ ~s.failed
                 /\ SameTokens(s.tokens, [k \in DOMAIN ls |-> Meant(ls[k])])
                 /\ SameFlags(s.tokens, ls)

\* An expression is accepted if it is one of the grammar, and its tree is the only one
\* that the grammar gives to it: operators of a higher level bind tighter, those of one
\* level from the left.  Those that are ReadOtherwise are left out.
\* A type is not asked for behind cast and sizeof: the generator does not know it.
Followed(types, next) ==
    \A k \in 1 .. Len(input) - 1 : input[k][1] \in types => input[k + 1][1] = next

Accepted(r) == r.error_at = 0 /\ ~Failed(r) /\ r.head > Len(input)

ExpressionsParse ==
    kind \in {"expression", "chain"} /\ Followed({"cast", "sizeof"}, "id") =>
        LET r     == parseExpression(tokens, Context)
            trees == Expressions(tokens)
        IN  \/ \E e \in trees : ReadOtherwise(e)
            \/ trees = IF Accepted(r) THEN {r.out} ELSE {}

\* A file is accepted without an error if it is one of the grammar, with the items that
\* it has; nothing that is left out, or too much, goes unreported.  The one kind of file
\* of the grammar that is refused SetsGlobal, and none of these is accepted.  The name
\* after global and const is only tested by an assertion.
FilesParse ==
    kind \in {"file", "body"} /\ Followed({"global", "const"}, "id") =>
        LET r == ParseTokenStream(tokens)
            read == Items(tokens, 1)
        IN  IF Accepted(r)
            THEN ~SetsGlobal(tokens) /\ \E items \in read : read = {items} /\ Means(r.out, items)
            ELSE read = {} \/ SetsGlobal(tokens)

\* A text that spells an expression is read as this expression, one that spells a file is
\* accepted as a file, and any other text is not (docs/lang_design.md): the three above
\* together, with nothing left out.
Written(text) ==
    LET ls == TokensOf(Lexemes(text))
        Apart(k) == k < Len(ls) /\ {SPACE, NEWLINE} \cap Between(text, ls[k], ls[k + 1]) # {}
    IN  [k \in DOMAIN ls |-> [Token(Meant(ls[k])[1], Meant(ls[k])[2]) EXCEPT
                                !.flags = IF Apart(k) THEN {SPACE} ELSE {}]]

ReadsAsWritten ==
    kind = "text" =>
        LET s == Lex(input)
            r == parseExpression(s.tokens, Context)
            f == ParseTokenStream(s.tokens)
            Whole(c) == ~s.failed /\ ~Failed(c) /\ c.error_at = 0 /\ c.head > Len(s.tokens)
            spelled  == ~Misspelled(input) /\ Closed(Lexemes(input))
        IN  /\ (IF Whole(r) THEN {r.out} ELSE {}) =
                    (IF spelled THEN Expressions(Written(input)) ELSE {})
            /\ Whole(f) <=> spelled /\ Items(Written(input), 1) # {}
=============================================================================
