------------------------------- MODULE Promise -------------------------------
(***************************************************************************)
(* What the execution of a compiled program promises: it prints what the   *)
(* program means, item by item, and ends when all of it is printed.        *)
(***************************************************************************)
EXTENDS Sequences, SequencesExt

CONSTANTS
    Program,
    Output(_)    \* the meaning of each program

VARIABLES program, printed, ended

Init == program \in Program /\ printed = << >> /\ ended = FALSE

Show ==
    /\ ~ended
    /\ IsStrictPrefix(printed, printed')
    /\ IsPrefix(printed', Output(program))
    /\ UNCHANGED <<program, ended>>

End ==
    /\ ~ended
    /\ printed = Output(program)
    /\ ended' = TRUE
    /\ UNCHANGED <<program, printed>>

Spec == Init /\ [][Show \/ End]_<<program, printed, ended>>
=============================================================================
