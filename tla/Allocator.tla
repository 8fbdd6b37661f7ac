----------------------------- MODULE Allocator -----------------------------
(***************************************************************************)
(* What a shared container promises its users: a cell that was given to    *)
(* one of them is given to nobody else and is never taken back.            *)
(***************************************************************************)
CONSTANT User

VARIABLE given          \* the cells of each user

Init == given = [u \in User |-> {}]

Give(u) ==
    /\ \E more \in {given'[u] \ given[u]} :
            /\ \A v \in User : more \cap given[v] = {}
            /\ given' = [given EXCEPT ![u] = @ \cup more]

Next == \E u \in User : Give(u)

Spec == Init /\ [][Next]_given
=============================================================================
