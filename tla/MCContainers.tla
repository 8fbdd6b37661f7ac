---------------------------- MODULE MCContainers ----------------------------
(***************************************************************************)
(* Small amounts of work for three threads.                                *)
(***************************************************************************)
EXTENDS SharedContainers

CONSTANTS t1, t2, t3, fn1, fn2, hello

MCLength(s) == 1

Piece(fun)     == [op |-> "function", in |-> fun]
String(fun, s) == [op |-> "string", in |-> fun, str |-> s]
Call(fun, to)  == [op |-> "call", in |-> fun, callee |-> to]
Global         == [op |-> "global"]
Body           == [op |-> "body"]

Works3(first, second, third) ==
    [t \in Thread |-> CASE t = t1 -> first [] t = t2 -> second [] t = t3 -> third]

\* Each of two threads generates a function that calls the other's, with one string in both,
\* while a third checks the globals of a file.
Generate ==
    LET Linked(fun, callee) == <<Piece(fun), String(fun, hello), Call(fun, callee)>>
    IN  Works3(Linked(fn1, fn2), Linked(fn2, fn1), <<Global>>)

\* A file with globals is checked, another one is generated and a third is parsed.
Check == Works3(<<Global, Global, Body>>,
                <<Piece(fn2), String(fn2, hello), String(fn2, hello)>>, <<Body>>)

\* Two files are parsed while another one is generated.
ParseAndGenerate == Works3(<<Body, Body, Piece(fn1)>>,
                           <<Piece(fn2), Global, Call(fn2, fn1)>>, <<Body>>)

\* Three files are parsed, with all the scopes there are; two of them in one block.
Parse == Works3(<<Body>>, <<Body>>, <<Body>>)

\* A function is called that nobody generates.
Dropped == Works3(<<Piece(fn1), Call(fn1, fn2), Call(fn1, fn1)>>, <<Global>>, << >>)

\* One scope too many.
TooMany == Works3(<<Body, Body>>, <<Body, Body>>, << >>)

MCWorks == {Generate, Check, ParseAndGenerate, Parse, Dropped, TooMany}
=============================================================================
