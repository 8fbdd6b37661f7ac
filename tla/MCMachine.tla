----------------------------- MODULE MCMachine -----------------------------
(***************************************************************************)
(* Small programs (see Programs) compiled by the generator and executed by *)
(* the virtual machine, against what Language says they mean.              *)
(***************************************************************************)
EXTENDS Execution

CONSTANTS
    Sources,        \* the programs of a run, a sequence
    Compiled(_),    \* Compile
    Meant(_)        \* Meaning

LOCAL Gen  == INSTANCE Generator
LOCAL Lang == INSTANCE Language
LOCAL Prog == INSTANCE Programs

Compile(source) == LET image == Gen!Compile(source) IN image
Meaning(source) == LET items == Lang!Meaning(source) IN items

Accepted   == Prog!Expressions \o Prog!ControlFlow \o Prog!Calls \o Prog!Storage
Faults     == Prog!Faults
Misprinted == Prog!NegativeLoop \o Prog!PreDecrement \o Prog!StructResults
              \o Prog!Forgotten \o Prog!GlobalPointer \o Prog!ManyLocals

\* f for each program that the generator accepts.
ForAccepted(f(_)) ==
    LET accepted == SelectSeq(Sources, LAMBDA p : ~Compiled(p).errors)
    IN  << >> \o [k \in DOMAIN accepted |-> f(accepted[k])]

Images  == ForAccepted(LAMBDA p : LET c == Compiled(p)
                                  IN  [pieces |-> c.pieces, main |-> c.main,
                                       data |-> c.data])

Outputs == ForAccepted(Meant)

MCProgram   == LET images == Images IN DOMAIN images
MCImage(p)  == LET images == Images IN images[p]
MCOutput(p) == LET outputs == Outputs IN outputs[p]

\* A program that follows a pointer to nowhere, divides by zero, needs more
\* stack than there is or unbalances it is stopped by the test for that, and
\* by no other; a program that the generator gets wrong goes wrong as Programs
\* says and in no other way.
EndsAsExpected ==
    LET expected == Prog!Faulty[program]
    IN  status # "running" =>
            /\ status \in expected[2]
            /\ Len(expected) = 3 => printed = expected[3]

\* tests/loops.tin counts from -1 up, tests/args_ret.tin returns a struct,
\* tests/ptrs.tin follows a pointer, PRE_DECREMENT is a decrement, and GenerateFunction
\* adds the ret "if the user forgot the return statement": a program that stops has
\* come to its end and printed what it means.
PrintsMeaning ==
    status # "running" => status = "finished" /\ printed = Output(program)
=============================================================================
