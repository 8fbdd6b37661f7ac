-------------------------------- MODULE Jobs --------------------------------
(***************************************************************************)
(* The worker threads between two of their tasks: each has a sequence of   *)
(* operations on the shared containers to do, and is at some stage of the  *)
(* first of them.                                                          *)
(***************************************************************************)
EXTENDS Mutex, Sequences

VARIABLES
    work,           \* the operations that a thread has still to do
    stage,          \* where it is in the first of them
    found           \* its local copy of a size, an index, an offset or an id

workVars == <<work, stage, found>>

JobsInit(w) ==
    /\ work = w
    /\ stage = [t \in Thread |-> "begin"]
    /\ found = [t \in Thread |-> 0]

Op(t) == Head(work[t])
At(t, kind, s) == work[t] # << >> /\ Op(t).op = kind /\ stage[t] = s

\* The next operation, or another stage of this one.
Finish(t) ==
    /\ work' = [work EXCEPT ![t] = Tail(@)]
    /\ stage' = [stage EXCEPT ![t] = "begin"]
Goto(t, s) == stage' = [stage EXCEPT ![t] = s] /\ UNCHANGED work

\* The thread is past the test of lock(), on its way to the section.
Enter(t) == Locking(t) /\ UNCHANGED workVars

AllDone == \A t \in Thread : work[t] = << >>
=============================================================================
