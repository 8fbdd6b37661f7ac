----------------------------- MODULE MCFrontend -----------------------------
(***************************************************************************)
(* Small alphabets for the front end.                                      *)
(***************************************************************************)
EXTENDS Frontend

MCKeyword == ( <<"n", "n">> :> "null" ) @@ ( <<"n", "n", "n">> :> "global" )
MCCharacter == {"n", "1", ".", "\"", "'", "/", "*", "\\", " ", "\n"}

\* Comments and blanks of all kinds, keywords and escapes between words and symbols.
MCGiven ==
    {<<"n", " ", "/", "*", "n", "\n", "*", "/", "=", " ", "n", "1", "n">>,
     <<"*", "=", "/", "/", "\"", "\n", "n", "n", "*", "*", " ", "n">>,
     <<"(", "\"", "n", "\\", "\\", "n", "\\", "n", "\"", ")", " ">>,
     <<"1", "1", ".", "1", "=", "=", ".", "1", "-", "'", "\\", "n", "'", ";", ";">>,
     <<"=", " ", " ", "\n", " ", "=", "\t", "=", "n", "n", " ", "\n">>}

\* -1 and !n.n and "n'n" and (n), with no newline at the end, and global n: n = 1;
MisreadGiven ==
    {<<"-", "1">>, <<"!", "n", ".", "n">>, <<"\"", "n", "'", "n", "\"">>, <<"(", "n", ")">>,
     <<"n", "n", "n", " ", "n", ":", " ", "n", " ", "=", " ", "1", ";", "\n">>}

Apart(types) == {<<t, "apart">> : t \in types}
Tightly(types) == {<<t, "tight">> : t \in types}

MCExpressionToken ==
    Apart({"id", "lit_int", "(", ")", "[", "]", ".", "!", "*", "+", "-", "=", ",", "cast"})
        \cup Tightly({"+", "-", "=", "<", "&"})

One(type) == << <<type, "apart">> >>
Two(a, b) == << <<a, "tight">>, <<b, "apart">> >>
MCOperator ==
    {One(t) : t \in {"*", "/", "+", "-", "<", "="}} \cup
    {Two("=", "="), Two("&", "&"), Two("|", "|")}

MCFileToken ==
    Apart({"fun", "struct", "global", "const", "import", "lit_str", "id", ":", "*", "(", ")",
           "{", "}", ",", ";", "=", "while", "return"})
        \cup Tightly({"id"})
MCBodyToken == Apart({"id", ":", "=", ";", "{", "}", "while", "if", "else", "return", "break", "fun"})
=============================================================================
