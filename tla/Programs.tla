------------------------------ MODULE Programs ------------------------------
(***************************************************************************)
(* Small programs for the model checker, in families: the sequences that   *)
(* a run takes for its Sources.                                            *)
(***************************************************************************)
EXTENDS AST

\* Every pair of an element of s and an element of t.
Product(s, t) ==
    << >> \o [i \in 1..(Len(s) * Len(t)) |->
        <<s[((i - 1) \div Len(t)) + 1], t[((i - 1) % Len(t)) + 1]>>]

-----------------------------------------------------------------------------
I(n) == LiteralInt(n)
X(x) == Identifier(x)

Show(e) == Expression(FunctionCall("printi", <<e>>))

Num(x, e) == Var(x, TYPE_INT, e)

Inc(x) == Unary("POST_INCREMENT", X(x))

Assign(l, r) == Expression(Binary("ASSIGN", l, r))

Main(body) == Function("main", << >>, TYPE_VOID, body)

Alone(body) == ASTBody(<< >>, << >>, <<Main(body)>>)

-----------------------------------------------------------------------------
(* Every operator under every other, on either side.  The generator rejects  *)
(* those with a comparison or a sum of a bool, which a run then leaves out.  *)

Operators == <<"ADD", "SUB", "MUL", "DIV", "AND", "OR", "EQUAL", "NOT_EQUAL",
               "LESS", "GREATER", "LESS_EQUAL", "GREATER_EQUAL">>


\* The same, from the left and from the right, with ints and with chars.
Nested(op1, op2) ==
    << Binary(op1, Binary(op2, I(7), X("x")), I(2)),
       Binary(op1, I(7), Binary(op2, X("x"), I(2))),
       Binary(op1, LiteralChar(2), Binary(op2, X("c"), I(1))) >>

\* A comparison or a logical operation may give 0.
Divides(op1, op2) == op1 = "DIV" => op2 \in Arithmetic

ShowAll(e) ==
    Alone(<<Num("x", I(3)), Var("c", TYPE_CHAR, LiteralChar(2)),
            Show(Cast(TYPE_INT, e)),
            If(e, <<Show(I(1))>>),
            Show(X("x"))>>)

NestedOperators ==
    LET pairs == SelectSeq(Product(Operators, Operators),
                           LAMBDA p : Divides(p[1], p[2]))
        both  == Product(pairs, <<1, 2, 3>>)
    IN  [k \in DOMAIN both |-> LET p == both[k]
                               IN  ShowAll(Nested(p[1][1], p[1][2])[p[2]])]

-----------------------------------------------------------------------------
(* Expressions that change something. *)

Changes ==
    LET Pre(x) == Unary("PRE_INCREMENT", X(x))
        Dec(x) == Unary("POST_DECREMENT", X(x))
        Set(x, e) == Binary("ASSIGN", X(x), e)
    IN  << Binary("ADD", Inc("x"), X("x")), Binary("ADD", X("x"), Inc("x")),
           Binary("MUL", Pre("x"), Dec("x")), Binary("SUB", Dec("x"), Pre("y")),
           Set("x", Set("y", I(4))), Binary("ADD", Set("x", Inc("y")), X("y")),
           Binary("LESS", Dec("x"), X("x")), Binary("AND", I(0), Inc("x")),
           Unary("NOT", Dec("y")), Sizeof(PointerTo("int")),
           Binary("SUB", I(2), X("x")), Binary("DIV", Unary("NOT", X("x")), I(2)) >>

Effects ==
    << >> \o
    [k \in DOMAIN Changes |->
        Alone(<<Num("x", I(3)), Num("y", I(1)),
                Show(Cast(TYPE_INT, Changes[k])), Show(X("x")), Show(X("y"))>>)]

Expressions == NestedOperators \o Effects

-----------------------------------------------------------------------------
(* Loops that are left at every depth, with locals on the way. *)

Leaves(jump) ==
    << << >>, <<jump>>,
       <<Num("p", X("i")), jump>>,
       <<If(Binary("EQUAL", X("i"), I(2)), <<Num("q", I(5)), jump>>)>>,
       <<IfElse(Binary("LESS", X("i"), I(2)), <<Num("q", I(6)), Show(X("q"))>>,
                <<jump>>)>>,
       <<While(LiteralTrue, <<Num("r", X("i")), Break>>), jump>>,
       <<Num("j", I(0)),
         While(Binary("LESS", X("j"), I(2)),
               <<Expression(Inc("j")), Num("r", X("j")),
                 If(Binary("EQUAL", X("r"), X("i")), <<Num("t", I(7)), jump>>),
                 Show(X("r"))>>)>> >>

CountTo(n, body) ==
    While(Binary("LESS", X("i"), I(n)),
          <<Expression(Inc("i")), Num("k", X("i"))>> \o body \o <<Show(X("k"))>>)

\* Each way to leave a loop, directly and in a function that returns a value.
Loops ==
    LET ways == Product(<<Break, Continue, Return(NoExpression)>>,
                        <<1, 2, 3, 4, 5, 6, 7>>)
    IN  [k \in DOMAIN ways |->
            Alone(<<Num("i", I(0)), CountTo(3, Leaves(ways[k][1])[ways[k][2]]),
                    Show(X("i"))>>)]

Results ==
    [k \in 2..7 |->
        ASTBody(<< >>, << >>,
            <<Main(<<Num("m", I(1)),
                     Show(Binary("ADD", X("m"), FunctionCall("f", <<X("m")>>))),
                     Show(X("m"))>>),
              Function("f", <<Field("n", TYPE_INT)>>, TYPE_INT,
                <<Num("i", I(0)), CountTo(3, Leaves(Return(X("i")))[k]),
                  Return(Binary("ADD", X("i"), X("n")))>>)>>)]

ControlFlow == Loops \o [k \in 1..6 |-> Results[k + 1]]

-----------------------------------------------------------------------------
(* Parameters of every kind, in every order, and the results of calls. *)

Pair == Struct("Pair", <<Field("n", TYPE_INT), Field("c", TYPE_CHAR)>>)

TYPE_PAIR == TypeId("Pair", 0)

PutChar(e) == Expression(FunctionCall("printc", <<e>>))

Refer(x) == Unary("REFER", X(x))

Follow(e) == Unary("DEREF", e)

\* How a parameter p is printed, and an argument from the locals of main.
ShowParameter(type, p) ==
    CASE type = TYPE_CHAR -> <<PutChar(X(p))>>
      [] type = TYPE_INT  -> <<Show(X(p))>>
      [] type = TYPE_PAIR -> <<Show(Member(X(p), "n")), PutChar(Member(X(p), "c"))>>
      [] OTHER            -> <<Show(Follow(X(p)))>>

Argument(type, i) ==
    CASE type = TYPE_CHAR -> LiteralChar(i)
      [] type = TYPE_INT  -> Binary("ADD", X("m"), I(i))
      [] type = TYPE_PAIR -> X(<<"s", "t", "s">>[i])
      [] OTHER            -> Refer(<<"m", "n", "m">>[i])

Names == <<"p", "q", "r">>

TakesAll(types) ==
    LET f == Function("f", [i \in DOMAIN types |-> Field(Names[i], types[i])], TYPE_INT,
                      FlattenSeq([i \in DOMAIN types |-> ShowParameter(types[i], Names[i])])
                      \o <<Num("l", I(Len(types))), Return(X("l"))>>)
        SetPair(x, n, c) == <<Var(x, TYPE_PAIR, NoExpression),
                              Assign(Member(X(x), "n"), I(n)),
                              Assign(Member(X(x), "c"), LiteralChar(c))>>
        call == FunctionCall("f", [i \in DOMAIN types |-> Argument(types[i], i)])
    IN  ASTBody(<<Pair>>, << >>,
            <<Main(<<Num("m", I(70)), Num("n", I(80))>>
                   \o SetPair("s", 21, 1) \o SetPair("t", 22, 3)
                   \o <<Show(Binary("SUB", X("n"), call)), Show(Member(X("t"), "n"))>>),
              f>>)

ParameterTypes == <<TYPE_CHAR, TYPE_INT, TYPE_PAIR, PointerTo("int")>>

Parameters ==
    LET two   == Product(ParameterTypes, ParameterTypes)
        three == Product(two, ParameterTypes)
    IN  [k \in 1..4 |-> TakesAll(<<ParameterTypes[k]>>)]
        \o [k \in DOMAIN two |-> TakesAll(two[k])]
        \o [k \in DOMAIN three |-> TakesAll(Append(three[k][1], three[k][2]))]

Call(f, arguments) == FunctionCall(f, arguments)

\* fib of tests/fib.tin, two functions that call each other, calls in the
\* arguments of calls, and a result that is a struct (tests/args_ret.tin).
Functions ==
    LET n    == X("n")
        Less(k) == Binary("SUB", n, I(k))
        fib  == Function("fib", <<Field("n", TYPE_INT)>>, TYPE_INT,
                    <<If(Binary("LESS", n, I(2)), <<Return(I(1))>>),
                      Return(Binary("ADD", Call("fib", <<Less(1)>>),
                                           Call("fib", <<Less(2)>>)))>>)
        Turn(f, g, r) ==
            Function(f, <<Field("n", TYPE_INT)>>, TYPE_BOOL,
                <<If(Binary("EQUAL", n, I(0)), <<Return(r)>>),
                  Var("b", TYPE_BOOL, Call(g, <<Less(1)>>)), Return(X("b"))>>)
        add  == Function("add", <<Field("c", TYPE_CHAR), Field("n", TYPE_INT)>>, TYPE_INT,
                    <<Show(n), Return(Binary("ADD", X("c"), n))>>)
        Add(c, e) == Call("add", <<LiteralChar(c), e>>)
        swap == Function("swap", <<Field("s", TYPE_PAIR), Field("n", TYPE_INT)>>, TYPE_PAIR,
                    <<Var("o", TYPE_PAIR, X("s")), Assign(Member(X("o"), "n"), n),
                      Return(X("o"))>>)
        void == Function("void", << >>, TYPE_VOID,
                    <<Num("x", I(9)), Show(X("x"))>>)
    IN  << ASTBody(<< >>, << >>, <<fib, Main(<<Show(Call("fib", <<I(4)>>))>>)>>),
           ASTBody(<< >>, << >>,
               <<Main(<<If(Call("even", <<I(3)>>), <<Show(I(1))>>),
                        If(Call("odd", <<I(3)>>), <<Show(I(2))>>)>>),
                 Turn("even", "odd", LiteralTrue), Turn("odd", "even", LiteralFalse)>>),
           ASTBody(<< >>, << >>,
               <<Main(<<Num("n", I(50)),
                        Show(Binary("SUB", Add(1, Add(2, n)),
                                    Add(3, Binary("ADD", n, Add(1, I(6)))))),
                        Expression(Call("void", << >>)), Show(n)>>),
                 add, void>>),
           ASTBody(<<Pair>>, << >>,
               <<Main(<<Var("a", TYPE_PAIR, NoExpression),
                        Assign(Member(X("a"), "c"), LiteralChar(3)),
                        Var("b", TYPE_PAIR,
                            Call("swap", <<Call("swap", <<X("a"), I(4)>>), I(5)>>)),
                        Show(Member(X("b"), "n")), PutChar(Member(X("b"), "c")),
                        Show(Member(X("a"), "n"))>>),
                 swap>>) >>

Calls == Parameters \o Functions

-----------------------------------------------------------------------------
(* Pointers, structs in structs, globals, strings, blocks and scopes. *)

Const(x, type, e) == Declare("CONST_DECLARATION", x, type, e)

Element(e, i) == Binary("INDEX", e, i)

Ints == PointerTo("int")

Malloc(n, type) == Call("malloc", <<Binary("MUL", n, Sizeof(type))>>)

Run(f, arguments) == Expression(Call(f, arguments))

Box == Struct("Box", <<Field("k", TYPE_CHAR), Field("pair", TYPE_PAIR),
                       Field("at", PointerTo("Pair")), Field("z", TYPE_CHAR)>>)

TYPE_BOX == TypeId("Box", 0)

\* Members at every distance, through pointers and without.
Structs ==
    LET b == X("b")
        fill == Function("fill", <<Field("box", PointerTo("Box")), Field("n", TYPE_INT)>>,
                    TYPE_VOID,
                    <<Assign(Member(Member(X("box"), "pair"), "c"), LiteralChar(2)),
                      Assign(Member(Member(X("box"), "at"), "n"), X("n")),
                      Assign(Member(X("box"), "z"), LiteralChar(1)),
                      Expression(Unary("POST_INCREMENT",
                                       Member(Member(X("box"), "pair"), "n")))>>)
    IN  ASTBody(<<Pair, Box>>, << >>,
            <<Main(<<Var("p", TYPE_PAIR, NoExpression), Var("b", TYPE_BOX, NoExpression),
                     Assign(Member(b, "at"), Refer("p")),
                     Run("fill", <<Refer("b"), I(60)>>),
                     Show(Member(Member(b, "pair"), "n")),
                     PutChar(Member(Member(b, "pair"), "c")),
                     Show(Member(X("p"), "n")), PutChar(Member(b, "z")),
                     Var("d", TYPE_BOX, b), Assign(Member(b, "pair"), X("p")),
                     Show(Member(Member(b, "pair"), "n")),
                     Show(Member(Member(X("d"), "pair"), "n")),
                     Assign(Member(Member(X("d"), "at"), "c"), LiteralChar(3)),
                     PutChar(Member(X("p"), "c")), Show(Sizeof(TYPE_BOX))>>),
              fill>>)

\* Globals that are set from each other and from calls, and changed by calls.
Globals ==
    LET bump == Function("bump", <<Field("at", PointerTo("int"))>>, TYPE_INT,
                    <<Assign(Follow(X("at")), Binary("ADD", Follow(X("at")), X("g"))),
                      Expression(Inc("g")), Return(X("g"))>>)
    IN  ASTBody(<<Pair>>,
            <<Num("g", I(7)), Var("c", TYPE_CHAR, NoExpression),
              Num("h", Call("bump", <<Refer("g")>>)), Var("s", TYPE_PAIR, NoExpression),
              Var("text", PointerTo("char"), LiteralStr(<<2, 1>>))>>,
            <<Main(<<Show(X("g")), Show(X("h")), PutChar(X("c")),
                     Num("x", I(1)), Show(Call("bump", <<Refer("x")>>)), Show(X("x")),
                     Assign(Member(X("s"), "c"), LiteralChar(3)),
                     Show(Member(X("s"), "n")), PutChar(Member(X("s"), "c")),
                     PutChar(X("c")), Run("prints", <<X("text")>>),
                     Run("prints", <<LiteralStr(<<1>>)>>),
                     Run("prints", <<LiteralStr(<<2, 1>>)>>),
                     PutChar(Element(X("text"), I(1)))>>),
              bump>>)

\* An array that grows, as in tests/test_base.tin.
Blocks ==
    LET a == X("a")
        Grow(type) ==
            <<Var("b", type, Malloc(I(3), WithLevel(type, -1))),
              Run("memcpy", <<X("b"), a, Binary("MUL", I(2), Sizeof(WithLevel(type, -1)))>>),
              Run("mfree", <<a>>), Assign(a, X("b"))>>
        Fill == While(Binary("LESS", X("i"), I(2)),
                      <<Assign(Element(a, X("i")), Binary("ADD", X("i"), I(40))),
                        Expression(Inc("i"))>>)
    IN  << Alone(<<Var("a", Ints, Malloc(I(2), TYPE_INT)), Num("i", I(0)), Fill>>
                 \o Grow(Ints) \o
                 <<Assign(Element(a, I(2)), Binary("SUB", Element(a, I(1)), Element(a, I(0)))),
                   Show(Element(a, I(0))), Show(Element(a, I(1))), Show(Element(a, I(2))),
                   Run("mfree", <<a>>), Run("mfree", <<LiteralNull>>)>>),
           ASTBody(<<Pair>>, << >>,
               <<Main(<<Var("a", PointerTo("Pair"), Malloc(I(2), TYPE_PAIR)),
                        Num("i", I(1)),
                        Assign(Member(Element(a, X("i")), "n"), I(30)),
                        Assign(Member(Element(a, Binary("SUB", X("i"), I(1))), "c"),
                               LiteralChar(1)),
                        Assign(Member(Element(a, I(0)), "n"), I(10)),
                        Assign(Member(Element(a, X("i")), "c"), Member(Element(a, I(0)), "c"))>>
                      \o Grow(PointerTo("Pair")) \o
                      <<Var("p", TYPE_PAIR, Element(a, X("i"))), Show(Member(X("p"), "n")),
                        PutChar(Member(X("p"), "c")), Show(Member(Element(a, I(0)), "n"))>>)>>) >>

\* The same name in bodies, parameters and globals, and constants.
Scopes ==
    LET f == Function("f", <<Field("x", TYPE_INT)>>, TYPE_INT,
                <<If(LiteralTrue, <<Num("y", X("x")), Num("x", I(5)),
                                    Assign(X("y"), X("x")), Show(X("y"))>>),
                  Return(X("x"))>>)
    IN  ASTBody(<< >>, <<Num("x", I(1)), Num("y", I(2))>>,
            <<Main(<<Show(X("x")), Num("x", I(3)), Show(Call("f", <<I(4)>>)),
                     Const("k", TYPE_INT, I(8)),
                     IfElse(Binary("LESS", X("x"), X("k")),
                            <<Const("k", TYPE_INT, I(20)), Num("x", I(6)),
                              If(X("k"), <<Num("x", X("x")), Assign(X("y"), I(9))>>),
                              Show(X("k")), Show(X("x"))>>, << >>),
                     Show(X("k")), Show(X("x")), Show(X("y"))>>),
              f>>)

Storage == <<Structs, Globals, Scopes>> \o Blocks

-----------------------------------------------------------------------------
(* Programs that do not do what the tests and comments of the repository     *)
(* say.                                                                      *)

Quad == Struct("Quad", [i \in 1..4 |-> Field(<<"n1", "n2", "n3", "n4">>[i], TYPE_INT)])

TYPE_QUAD == TypeId("Quad", 0)

\* The second loop of tests/loops.tin, with fewer turns, chars for strings, and
\* 0 - 1 for the -1 that the parser does not read (see Frontend).
NegativeLoop ==
    LET i == X("i")
    IN  <<Alone(<<Num("i", Binary("SUB", I(0), I(1))),
                  While(Binary("LESS", i, I(3)),
                        <<Expression(Inc("i")),
                          If(Binary("EQUAL", i, I(2)), <<Break>>), Show(i)>>)>>)>>

\* Counting down before the value is taken.
PreDecrement ==
    <<Alone(<<Num("x", I(5)), Show(Unary("PRE_DECREMENT", X("x"))), Show(X("x"))>>)>>

\* tests/ptrs.tin, with a global.
GlobalPointer ==
    <<ASTBody(<< >>, <<Num("n", I(4))>>,
        <<Main(<<Var("p", Ints, Refer("n")), Show(Follow(X("p")))>>)>>)>>

\* A function that returns a struct, as add of tests/args_ret.tin, without
\* parameters: a struct of 2 and one of 4 ints.
StructResults ==
    LET Vec == Struct("Vec", <<Field("x", TYPE_INT), Field("y", TYPE_INT)>>)
        Make(struct) ==
            LET type == TypeId(struct.name, 0)
                o    == X("o")
                ms   == [k \in DOMAIN struct.members |-> struct.members[k].name]
            IN  ASTBody(<<struct>>, << >>,
                    <<Main(<<Var("o", type, Call("make", << >>))>>
                           \o [k \in DOMAIN ms |-> Show(Member(o, ms[k]))]),
                      Function("make", << >>, type,
                        <<Var("o", type, NoExpression)>>
                        \o [k \in DOMAIN ms |-> Assign(Member(o, ms[k]), I(10 * k))]
                        \o <<Return(o)>>)>>)
    IN  <<Make(Vec), Make(Quad)>>

\* n ints, and the last one is printed.
Locals(n) ==
    Alone([k \in 1..n |-> Num(<<"x", k>>, I(k))] \o <<Show(X(<<"x", n>>))>>)

ManyLocals == <<Locals(15), Locals(16)>>

\* A variable that is set to the result of a function that has none.
VoidInitialiser ==
    <<ASTBody(<< >>, << >>,
        <<Main(<<Show(I(1)), Num("x", Call("f", << >>)), Show(I(2))>>),
          Function("f", << >>, TYPE_VOID, <<Show(I(3))>>)>>)>>

-----------------------------------------------------------------------------
(* Programs that the machine has to stop, or that go wrong, and how each may *)
(* end and, where it matters, what it has printed then.                      *)

\* A function that calls itself for ever, with n locals and parameters.
Endless(n) ==
    LET xs == SubSeq(Names, 1, n)
    IN  ASTBody(<< >>, << >>,
            <<Main(<<Run("f", [i \in DOMAIN xs |-> I(i)])>>),
              Function("f", [i \in DOMAIN xs |-> Field(xs[i], TYPE_INT)], TYPE_VOID,
                <<If(LiteralTrue, <<Num("l", I(n))>>),
                  Run("f", [i \in DOMAIN xs |-> X(xs[i])])>>)>>)

\* Calls that are n deep and then use what is left of the stack.
Deep(n, structs, body) ==
    LET name(i) == <<"f", "g", "h", "i", "j", "k", "l">>[i]
    IN  ASTBody(structs, << >>,
            <<Main(<<Run(name(1), << >>)>>)>>
            \o [i \in 1..n |-> Function(name(i), << >>, TYPE_VOID,
                                    IF i = n THEN body ELSE <<Run(name(i + 1), << >>)>>)])

\* A variable of a struct that is set to an int takes the slots of others.
Misfit(x) == Var(x, TYPE_QUAD, I(1))

Null(x) == Var(x, Ints, LiteralNull)

\* Functions without a return statement at the end: an empty one, and one whose
\* last word is a ret all the same.
Forgotten ==
    << Deep(1, << >>, << >>),
       ASTBody(<< >>, << >>,
            <<Main(<<Run("f", <<I(1)>>)>>),
              Function("f", <<Field("x", TYPE_INT)>>, TYPE_VOID,
                <<Show(X("x")),
                  If(Binary("EQUAL", X("x"), I(2)), <<Return(NoExpression)>>)>>)>>) >>

\* A block for two ints, which may be null.
TwoInts == Var("a", Ints, Malloc(I(2), TYPE_INT))

\* A pointer to a global, used k ints below it.
BelowGlobal(k, Use(_)) ==
    LET slot == Element(X("p"), Binary("SUB", I(0), I(k)))
    IN  ASTBody(<< >>, <<Num("n", I(4))>>, <<Main(<<Var("p", Ints, Refer("n")), Use(slot)>>)>>)

\* What printi shows of a sequence of ints.
Shows(ns) == [k \in DOMAIN ns |-> <<"int", ns[k]>>]

Faulty ==
    LET Violates == {"access_violation"}
        Stores   == {"access_violation", "undefined"}
        a        == X("a")
        Set(i)   == Assign(Element(a, I(i)), I(5))
    IN  << <<Alone(<<Null("a"), Show(Follow(a))>>), Violates>>,
           <<Alone(<<Null("a"), Assign(Follow(a), I(1))>>), Stores>>,
           <<Alone(<<TwoInts, Show(Element(a, I(2)))>>), Violates>>,
           <<Alone(<<TwoInts, Set(2)>>), Stores>>,
           <<Alone(<<Var("a", Ints, Call("malloc", <<I(6)>>)), Show(Element(a, I(1)))>>),
             Violates>>,
           <<Alone(<<TwoInts, Set(1), Show(Element(a, I(1)))>>), Stores \cup {"finished"}>>,
           <<Alone(<<TwoInts, Run("mfree", <<a>>), Show(Element(a, I(0)))>>), Violates>>,
           <<Alone(<<Num("x", I(0)), Run("mfree", <<Refer("x")>>)>>),
             {"finished"}>>,
           <<Alone(<<Var("c", PointerTo("char"), Call("malloc", <<I(1)>>)),
                     Run("memcpy", <<X("c"), LiteralStr(<<1>>), I(2)>>)>>), {"undefined"}>>,
           <<Alone(<<Run("memcpy", <<LiteralStr(<<1>>), LiteralStr(<<2>>),
                                     Binary("SUB", I(1), I(2))>>)>>), {"undefined"}>>,
           <<Alone(<<Var("c", PointerTo("char"), LiteralNull),
                     Run("prints", <<X("c")>>)>>), {"undefined"}>>,
           <<Alone(<<Num("x", I(0)), Show(Binary("DIV", I(4), X("x")))>>), {"undefined"}>>,
           <<Endless(0), {"stack_overflow"}>>,
           <<Endless(1), {"stack_overflow"}>>,
           <<Endless(2), {"stack_overflow"}>>,
           <<Endless(3), {"stack_overflow"}>>,
           <<ASTBody(<<Quad>>, << >>, <<Main(<<Misfit("s")>>)>>), {"stack_overflow", "undefined"}>>,
           <<Deep(2, <<Quad>>, <<Misfit("s")>>), {"mismatch"}>>,
           <<Deep(6, <<Quad>>, <<Misfit("s"), Var("t", TYPE_QUAD, NoExpression),
                                 Var("u", TYPE_QUAD, NoExpression)>>), {"undefined"}>>,
           <<Deep(6, <<Quad>>, <<Misfit("s"), Var("t", TYPE_QUAD, NoExpression),
                                 Num("u", NoExpression)>>), Violates>>,
           <<Deep(5, << >>, <<TwoInts>>), {"finished"}>>,
           <<Deep(6, << >>, <<TwoInts>>), {"undefined"}>>,
           <<Deep(7, << >>, <<TwoInts>>), {"stack_overflow"}>>,
           <<BelowGlobal(1, Show), {"undefined"}>>,
           <<BelowGlobal(1, LAMBDA slot : Assign(slot, I(5))), {"undefined"}>>,
           <<BelowGlobal(2, Show), Violates>>,
           <<BelowGlobal(2, LAMBDA slot : Assign(slot, I(5))), Stores>>,
           <<Alone(<< >>), {"no_instructions"}>>,
           <<Forgotten[1], {"pc_out_of_bounds"}>>,
           <<Forgotten[2], {"pc_out_of_bounds"}>>,
           <<GlobalPointer[1], Violates>>,
           <<NegativeLoop[1], {"finished"}, << >> >>,
           <<PreDecrement[1], {"finished"}, Shows(<<6, 6>>)>>,
           <<StructResults[1], {"finished"}, Shows(<<10, 20>>)>>,
           <<StructResults[2], {"finished"}, Shows(<<10, 20, 30, 0>>)>>,
           <<VoidInitialiser[1], {"finished"}, Shows(<<1, 3>>)>> >>

Faults == << >> \o [k \in DOMAIN Faulty |-> Faulty[k][1]]
=============================================================================
