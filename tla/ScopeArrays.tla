---------------------------- MODULE ScopeArrays ----------------------------
(***************************************************************************)
(* The scopes of struct AST (DOUBLE_AST_ARRAYS): blocks of scopes_max2     *)
(* scopes that are allocated by the first thread that needs one, under     *)
(* scopes_lock, after a test without it.  The operation "body" of a        *)
(* thread's work is createBody(parent) with the scope the thread created   *)
(* last as the parent.                                                     *)
(***************************************************************************)
EXTENDS Jobs

CONSTANTS
    scopes_max1, scopes_max2,
    scopes_lock

VARIABLES
    scopes_used,
    scopes,                 \* the block behind each place of the outer array, or Null
    entries,                \* scopeId and parent of each scope of each block, or Null
    current_scopeId,        \* the scope that a thread has created last
    created,                \* history: the parent of each scope that createScope gave out
    crashed                 \* a null pointer was dereferenced

scopeVars == <<scopes_used, scopes, entries, current_scopeId, created, crashed>>

GLOBAL_SCOPE == 0
scopes_max == scopes_max1 * scopes_max2
Place == 0 .. scopes_max1 - 1
Index == 0 .. scopes_max2 - 1

\* The block that thread t allocates for a place is <<i, t>>.
Block == Place \X (Thread \cup {MainThread})
BlankBlock == [j \in Index |-> Null]
index_1(id) == id \div scopes_max2
index_2(id) == id % scopes_max2

ASSUME ScopesAssumption ==
    /\ scopes_max1 \in Nat \ {0} /\ scopes_max2 \in Nat \ {0}
    /\ Null \notin Block

\* AST::AST has created the body of the global scope.
ScopesInit ==
    /\ scopes_used = 1
    /\ scopes = [i \in Place |-> IF i = 0 THEN <<0, MainThread>> ELSE Null]
    /\ entries = [b \in Block |->
                    IF b = <<0, MainThread>>
                    THEN [BlankBlock EXCEPT ![0] = [scopeId |-> 0, parent |-> GLOBAL_SCOPE]]
                    ELSE Null]
    /\ current_scopeId = [t \in Thread |-> GLOBAL_SCOPE]
    /\ created = [id \in 0 .. scopes_max - 1 |-> IF id = 0 THEN GLOBAL_SCOPE ELSE Null]
    /\ crashed = FALSE

\* Mutant: the 1 is not subtracted.
TakeScopeId_Next(t) ==
    /\ At(t, "body", "begin")
    /\ scopes_used' = scopes_used + 1
    /\ found' = [found EXCEPT ![t] = scopes_used + 1]
    /\ crashed' = (scopes_used + 1 >= scopes_max)
    /\ Goto(t, "check")
    /\ UNCHANGED <<mutexVars, scopes, entries, current_scopeId, created>>

\* atomic_add(&scopes_used, 1) - 1; createBody dereferences the null pointer that
\* createScope returns at the limit.
TakeScopeId(t) ==
    /\ At(t, "body", "begin")
    /\ scopes_used' = scopes_used + 1
    /\ found' = [found EXCEPT ![t] = scopes_used]
    /\ crashed' = (scopes_used >= scopes_max)
    /\ Goto(t, "check")
    /\ UNCHANGED <<mutexVars, scopes, entries, current_scopeId, created>>

\* The quick check.
CheckBlock(t) ==
    /\ At(t, "body", "check")
    /\ Goto(t, IF scopes[index_1(found[t])] = Null THEN "lock" ELSE "fill")
    /\ UNCHANGED <<mutexVars, found, scopeVars>>

LockScopes(t) ==
    /\ At(t, "body", "lock")
    /\ TestHandle(t, scopes_lock)
    /\ UNCHANGED <<workVars, scopeVars>>

\* Now we lock and perform a thread-safe check: the block is there ...
BlockExists(t) ==
    /\ At(t, "body", "lock") /\ Inside(t, scopes_lock) /\ Unlock(t)
    /\ scopes[index_1(found[t])] # Null
    /\ Goto(t, "fill")
    /\ UNCHANGED <<found, scopeVars>>

\* Mutant: the test is not made again with the lock.
NewBlock_Unchecked(t) ==
    LET i == index_1(found[t])
    IN  /\ At(t, "body", "lock") /\ Inside(t, scopes_lock)
        /\ entries' = [entries EXCEPT ![<<i, t>>] = BlankBlock]
        /\ Goto(t, "publish")
        /\ UNCHANGED <<mutexVars, found, scopes_used, scopes, current_scopeId, created, crashed>>

\* ... or it is allocated and initialised,
NewBlock(t) ==
    LET i == index_1(found[t])
    IN  /\ At(t, "body", "lock") /\ Inside(t, scopes_lock)
        /\ scopes[i] = Null
        /\ entries' = [entries EXCEPT ![<<i, t>>] = BlankBlock]
        /\ Goto(t, "publish")
        /\ UNCHANGED <<mutexVars, found, scopes_used, scopes, current_scopeId, created, crashed>>

\* and then made visible to other threads.
PublishBlock(t) ==
    LET i == index_1(found[t])
    IN  /\ At(t, "body", "publish") /\ Unlock(t)
        /\ scopes' = [scopes EXCEPT ![i] = <<i, t>>]
        /\ Goto(t, "fill")
        /\ UNCHANGED <<found, scopes_used, entries, current_scopeId, created, crashed>>

\* createScope sets scopeId and parent through getScope's address, and returns.
FillScope(t) ==
    LET id == found[t]
        b  == scopes[index_1(id)]
    IN  /\ At(t, "body", "fill")
        /\ entries' = [entries EXCEPT ![b][index_2(id)] =
                            [scopeId |-> id, parent |-> current_scopeId[t]]]
        /\ created' = [created EXCEPT ![id] = current_scopeId[t]]
        /\ current_scopeId' = [current_scopeId EXCEPT ![t] = id]
        /\ Finish(t)
        /\ UNCHANGED <<mutexVars, found, scopes_used, scopes, crashed>>

CreateBody(t) ==
    \/ TakeScopeId(t) \/ CheckBlock(t) \/ LockScopes(t) \/ BlockExists(t)
    \/ NewBlock(t) \/ PublishBlock(t) \/ FillScope(t)

\* getScope: what a thread finds under an id.
getScope(id) == entries[scopes[index_1(id)]][index_2(id)]

-----------------------------------------------------------------------------
\* Every scope that createScope gave out is found under its id, with its parent: no
\* block is replaced by a second one after another thread has filled scopes of the
\* first (AST.h:418-425); and no two threads are in one scope but the global one.
ScopesKept ==
    /\ \A id \in DOMAIN created :
        created[id] # Null =>
            /\ scopes[index_1(id)] # Null
            /\ getScope(id) = [scopeId |-> id, parent |-> created[id]]
    /\ \A t, u \in Thread :
        t # u /\ current_scopeId[t] = current_scopeId[u] => current_scopeId[t] = GLOBAL_SCOPE
=============================================================================
