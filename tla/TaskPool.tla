------------------------------ MODULE TaskPool ------------------------------
(***************************************************************************)
(* What Compiler::processTasks (src/src/Compiler.cpp) promises, without    *)
(* its semaphore, flag, mutex and counter: a queue of items from which a   *)
(* worker takes the first one that is not blocked, atomically.  A worker   *)
(* leaves for good only when no item can be taken and none is being worked *)
(* on; a step of a worker may block only the key it works on.              *)
(***************************************************************************)
EXTENDS Naturals, Sequences, SequencesExt

CONSTANTS
    Worker, Item,
    Key(_),     \* what an item is about
    NoItem

VARIABLES
    queue,      \* the items that wait
    held,       \* the item of each worker, or NoItem
    blocked,    \* the keys whose items may not be taken
    left,       \* the workers that have left
    failed      \* the pool has broken down

vars == <<queue, held, blocked, left, failed>>

Free(k) == Key(queue[k]) \notin blocked

NothingFree == \A k \in DOMAIN queue : ~Free(k)

NobodyWorks == \A w \in Worker : held[w] = NoItem

\* The first item that is free is taken.
Take(w) ==
    /\ ~failed
    /\ w \notin left
    /\ held[w] = NoItem
    /\ \E k \in DOMAIN queue :
          /\ Free(k) /\ \A j \in 1..(k-1) : ~Free(j)
          /\ held' = [held EXCEPT ![w] = queue[k]]
          /\ queue' = RemoveAt(queue, k)
    /\ UNCHANGED <<blocked, left, failed>>

\* A step of the work: it may change the item, queue another one, free any
\* key, and block its own.
Work(w) ==
    /\ ~failed
    /\ held[w] # NoItem
    /\ held'[w] \in Item
    /\ held' = [held EXCEPT ![w] = held'[w]]
    /\ \/ queue' = queue
       \/ Len(queue') = Len(queue) + 1 /\ IsPrefix(queue, queue')
    /\ blocked' \subseteq blocked \cup {Key(held[w])}
    /\ UNCHANGED left
    /\ failed' \in BOOLEAN

\* The work is over: the item is dropped or queued again.
Return(w) ==
    /\ ~failed
    /\ held[w] # NoItem
    /\ held' = [held EXCEPT ![w] = NoItem]
    /\ queue' \in {queue, Append(queue, held[w])}
    /\ UNCHANGED <<blocked, left, failed>>

Leave(w) ==
    /\ ~failed
    /\ w \notin left
    /\ NothingFree
    /\ NobodyWorks
    /\ left' = left \cup {w}
    /\ UNCHANGED <<queue, held, blocked, failed>>

Init == /\ queue \in Seq(Item)
        /\ held = [w \in Worker |-> NoItem]
        /\ blocked = {}
        /\ left = {}
        /\ failed = FALSE

Next == \E w \in Worker : Take(w) \/ Work(w) \/ Return(w) \/ Leave(w)

\* A free item is taken if a worker is at hand, and workers that can leave do.
Fairness == /\ WF_vars(\E w \in Worker : Take(w))
            /\ WF_vars(\E w \in Worker : Leave(w))

Safety == Init /\ [][Next]_vars

Spec == Safety /\ Fairness
=============================================================================
