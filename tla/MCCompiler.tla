----------------------------- MODULE MCCompiler -----------------------------
(***************************************************************************)
(* Small programs for TLC.  Each names the situation it is there for.      *)
(***************************************************************************)
EXTENDS Compiler

CONSTANTS a, b, c

\* One file that imports nothing.
Alone == [ outcome |-> [f \in File |-> "ok"],
           imports |-> [f \in File |-> << >>],
           structs |-> [f \in File |-> << >>],
           params  |-> [f \in File |-> {}],
           locals  |-> [f \in File |-> {}],
           calls   |-> [f \in File |-> {}],
           globals |-> [f \in File |-> FALSE] ]

\* Two files import b: both may be the first to ask for it.
Shared == [Alone EXCEPT !.imports[Main] = <<a, b>>, !.imports[a] = <<b>>]

\* main and a import each other, and a itself; one import is repeated.
Cycle == [Alone EXCEPT !.imports[Main] = <<a, a>>, !.imports[a] = <<Main, a>>]

\* Imports in a row.
Chain(p) == [p EXCEPT !.imports[Main] = <<a>>, !.imports[a] = <<b>>]

Missing == [Chain(Alone) EXCEPT !.outcome[b] = "missing"]
Partial == [Chain(Alone) EXCEPT !.outcome[a] = "partial"]
NoTree  == [Chain(Alone) EXCEPT !.outcome[a] = "null"]

Pointer(f, k) == [type |-> <<f, k>>, pointer |-> TRUE]
Value(f, k)   == [type |-> <<f, k>>, pointer |-> FALSE]

\* tests/test_a.tin and tests/test_b.tin: they import each other, each has a
\* struct with a pointer to the struct of the other, and the function main of
\* test_a.tin has a variable of each.
TestAB == [Cycle EXCEPT !.structs[Main] = <<{Pointer(a, 1)}>>,
                        !.structs[a] = <<{Pointer(Main, 1)}>>,
                        !.locals[Main] = {<<Main, 1>>, <<a, 1>>}]

\* A struct has a member of a type that does not exist.
BadStruct == [Alone EXCEPT !.imports[Main] = <<a>>,
                           !.structs[a] = <<{}, {Value(b, 1)}>>]

\* A file imported by main is used by it: a type, a function, a global.
Library == [Alone EXCEPT !.imports[Main] = <<a>>, !.structs[a] = <<{}>>,
                         !.params[Main] = {<<a, 1>>}, !.calls[Main] = {a},
                         !.globals[a] = TRUE]

\* Four files in a row; the last declares a global.
Deep == [Chain(Alone) EXCEPT !.imports[b] = <<c>>, !.globals[c] = TRUE]

\* The first struct of main waits for a type of a; the second has the first as a
\* member, and is laid out although the first has no size yet.
Late == [Alone EXCEPT !.imports[Main] = <<a>>, !.structs[a] = <<{}>>,
                      !.structs[Main] = <<{Pointer(a, 1)}, {Value(Main, 1)}>>]

\* main needs the type of a file that is named three imports away.
Far == [Chain(Alone) EXCEPT !.imports[b] = <<c>>, !.structs[c] = <<{}>>,
                            !.structs[Main] = <<{Pointer(c, 1)}>>]

\* main calls a function of a file whose structs are still waiting for a type.
Caller == [Chain(Alone) EXCEPT !.structs[b] = <<{}>>, !.calls[Main] = {a},
                               !.structs[a] = <<{Pointer(b, 1)}>>]

MCPrograms == {Alone, Shared, Cycle, Missing, Partial, NoTree, TestAB,
               BadStruct, Library}

\* All of them, for one thread.
SequentialPrograms == MCPrograms \cup {Deep, Late, Far, Caller}

RacingPrograms == {Shared, TestAB}

OrderedPrograms == {Late, Far, Caller}

DeepProgram    == {Deep}
=============================================================================
