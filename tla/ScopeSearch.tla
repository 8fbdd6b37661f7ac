---------------------------- MODULE ScopeSearch ----------------------------
(***************************************************************************)
(* A search for a name (findType, findVariable and findFunction of         *)
(* AST.cpp): the scope itself, then breadth first the scopes it shares and *)
(* the one around it, while other threads still let imports share their    *)
(* scopes and declare names.                                               *)
(***************************************************************************)
EXTENDS Naturals, Sequences, SequencesExt, FiniteSets

CONSTANTS
    Scope,              \* ids of scopes
    Parent,             \* the parent of each; the global scope is its own parent
    Import,             \* the scopes of the bodies of imports
    Start,              \* where searches begin
    MaxShares,          \* bound on the length of shared_scopes, all together
    MaxDeclares,        \* bound on the number of scopes that declare the name
    NotFound            \* the null pointer

ASSUME SearchAssumption ==
    /\ IsFiniteSet(Scope)
    /\ Parent \in [Scope -> Scope] /\ Import \subseteq Scope /\ Start \subseteq Scope
    /\ MaxShares \in Nat /\ MaxDeclares \in Nat /\ NotFound \notin Scope

VARIABLES
    shared_scopes,      \* of each scope, in the order they were pushed
    declares,           \* the scopes in which the name is declared
    searchScopes, search_index, \* the ScopeIterator; empty before the search
    visiting,           \* the scope whose shared_scopes the loop is in, or NotFound
    result,             \* what the search has returned: <<>> while it goes on
    before,             \* history: shared_scopes and declares when the search began
    raced               \* a vector or a map is changed while another thread is in it

searchVars == <<searchScopes, search_index, visiting, result, before>>
vars == <<shared_scopes, declares, searchVars, raced>>

Shares == FoldFunction(LAMBDA s, n : Len(s) + n, 0, shared_scopes)

Init ==
    /\ shared_scopes = [s \in Scope |-> << >>]
    /\ declares \in {d \in SUBSET Scope : Cardinality(d) <= MaxDeclares}
    /\ searchScopes = << >> /\ search_index = 0
    /\ visiting = NotFound /\ result = << >> /\ raced = FALSE
    /\ before = [shared_scopes |-> shared_scopes, declares |-> declares]

\* Compiler.cpp:276 and 308, under tasks_lock, which a search does not take.
Share(a, b) ==
    /\ Shares < MaxShares
    /\ shared_scopes' = [shared_scopes EXCEPT ![a] = Append(@, b)]
    /\ raced' = (visiting = a)
    /\ UNCHANGED <<declares, searchVars>>

Searching == searchScopes # << >> /\ result = << >>

\* createType and addVariable, of another thread: the map of the scope is not locked
\* (OPTIONAL_LOCK is empty), and the search may be in it.
Declare(s) ==
    /\ Searching /\ Cardinality(declares) < MaxDeclares
    /\ declares' = declares \cup {s}
    /\ raced' \in {FALSE, visiting = s}
    /\ UNCHANGED <<shared_scopes, searchVars>>

\* createScopeIterator
Begin(s) ==
    /\ searchScopes = << >>
    /\ searchScopes' = <<s>>
    /\ before' = [shared_scopes |-> shared_scopes, declares |-> declares]
    /\ UNCHANGED <<shared_scopes, declares, search_index, visiting, result, raced>>

\* The lambda add: only scopes that have been visited are left out, so that one may
\* stand in the queue twice.
Add(queue, n, s) ==
    IF \E k \in 1 .. n : queue[k] = s THEN queue ELSE Append(queue, s)

\* The loop over shared_scopes, and the parent after them.
AddShared(queue, n, info) ==
    LET shared == shared_scopes[info]
        added[k \in 0 .. Len(shared)] ==
            IF k = 0 THEN queue ELSE Add(added[k - 1], n, shared[k])
    IN  added[Len(shared)]

\* Mutant: the parent is only added for a scope that shares nothing.
AddParent_Alone(queue, n, info) ==
    IF Parent[info] = info \/ shared_scopes[info] # << >> THEN queue
    ELSE Add(queue, n, Parent[info])

AddParent(queue, n, info) ==
    IF Parent[info] = info THEN queue ELSE Add(queue, n, Parent[info])

\* iterate: the next scope, up to the loop over what it shares ...
Visit ==
    /\ Searching /\ visiting = NotFound
    /\ search_index < Len(searchScopes)
    /\ search_index' = search_index + 1
    /\ visiting' = searchScopes[search_index + 1]
    /\ UNCHANGED <<shared_scopes, declares, searchScopes, result, before, raced>>

\* ... and from there to the test of its caller for the name.
Expand ==
    LET info == visiting
        queue == AddShared(searchScopes, search_index, info)
    IN  /\ Searching /\ visiting # NotFound
        /\ searchScopes' = AddParent(queue, search_index, info)
        /\ result' = IF info \in declares THEN <<info>> ELSE << >>
        /\ visiting' = NotFound
        /\ UNCHANGED <<shared_scopes, declares, search_index, before, raced>>

\* Mutant: the loop makes one turn too many.
GiveUp_Late ==
    /\ Searching /\ visiting = NotFound
    /\ search_index > Len(searchScopes)
    /\ result' = <<NotFound>>
    /\ UNCHANGED <<shared_scopes, declares, searchScopes, search_index, visiting, before, raced>>

\* iterate returns nullptr, and so does the search.
GiveUp ==
    /\ Searching /\ visiting = NotFound
    /\ search_index = Len(searchScopes)
    /\ result' = <<NotFound>>
    /\ UNCHANGED <<shared_scopes, declares, searchScopes, search_index, visiting, before, raced>>

Search == ~raced /\ (Visit \/ Expand \/ GiveUp)

Others ==
    \/ \E a, b \in Import : Share(a, b)
    \/ \E s \in Scope : Declare(s)

Next ==
    \/ Search
    \/ ~raced /\ ((\E s \in Start : Begin(s)) \/ Others)

Spec == Init /\ [][Next]_vars

\* The searching thread keeps running.
FairSpec == Spec /\ WF_vars(Search)

-----------------------------------------------------------------------------
\* The scopes next to one: its parent and those it shares.
Near(shared, x) == {Parent[x]} \cup Range(shared[x])

\* The scopes at n steps or fewer.
Within(shared, s) ==
    LET reach[n \in 0 .. Cardinality(Scope)] ==
            IF n = 0 THEN {s}
            ELSE reach[n - 1] \cup UNION {Near(shared, x) : x \in reach[n - 1]}
    IN  reach

Found == result # << >> /\ result # <<NotFound>>

\* The search gives a scope that declares the name, and no scope that declared it
\* when the search began is nearer; it gives up only when none was in reach.  Scopes
\* that are shared meanwhile may bring others nearer, but hide none.
FindsNearest ==
    result # << >> =>
        LET then == Within(before.shared_scopes, searchScopes[1])
            now  == Within(shared_scopes, searchScopes[1])
        IN  /\ Found => result[1] \in declares
            /\ \A n \in 0 .. Cardinality(Scope) :
                  then[n] \cap before.declares # {} =>
                      Found /\ result[1] \in now[n]

\* A search ends, also when imports share each other's scopes or their own, and
\* sharing goes on.
SearchEnds == (searchScopes # << >>) ~> (result # << >> \/ raced)
=============================================================================
