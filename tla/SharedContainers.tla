-------------------------- MODULE SharedContainers --------------------------
(***************************************************************************)
(* The worker threads on everything they share under general_lock and      *)
(* scopes_lock: one of them parses, and creates scopes, while others       *)
(* generate code.                                                          *)
(***************************************************************************)
EXTENDS BytecodeContainer, ScopeArrays, FiniteSets

CONSTANT Works      \* what the threads have to do, one of these

Operation ==
    [op : {"function"}, in : Function]
        \cup [op : {"string"}, in : Function, str : Str]
        \cup [op : {"call"}, in : Function, callee : Function]
        \cup [op : {"global", "body"}]

ASSUME WorkAssumption ==
    /\ Works \subseteq [Thread -> Seq(Operation)]
    /\ general_lock \in Lock /\ scopes_lock \in Lock
    /\ GlobalSize \in Nat /\ \A s \in Str : Length(s) \in Nat

\* A thread generates the function.
Generated(w, f) == \E t \in Thread : \E k \in DOMAIN w[t] : w[t][k].op = "function" /\ w[t][k].in = f

\* Code is only written to functions that are generated (Generator.cpp:1108-1115).  What they
\* call need not be: the task of its file may have been dropped.
ASSUME LinkAssumption ==
    \A w \in Works : \A t \in Thread : \A k \in DOMAIN w[t] :
        w[t][k].op \in {"string", "call"} => Generated(w, w[t][k].in)

vars == <<mutexVars, workVars, containerVars, scopeVars>>

Init ==
    /\ \E w \in Works : JobsInit(w)
    /\ MutexInit
    /\ ContainerInit
    /\ ScopesInit

\* A step of the lock, of the bytecode container or of the scopes.
Step(t) ==
    \/ Enter(t) /\ UNCHANGED <<containerVars, scopeVars>>
    \/ Container(t) /\ UNCHANGED scopeVars
    \/ CreateBody(t) /\ UNCHANGED containerVars

\* What C++ gives no meaning is not continued.
Running == ~Broken /\ ~crashed

Linking == Link /\ UNCHANGED scopeVars

Stopped == (linked \/ ~Running \/ \E t \in Thread : Orphaned(t)) /\ UNCHANGED vars

Next ==
    \/ Running /\ (\E t \in Thread : Step(t))
    \/ Running /\ Linking
    \/ Stopped

Spec == Init /\ [][Next]_vars

\* A thread keeps running; the main thread links when the workers have been joined.
FairSpec ==
    /\ Spec
    /\ \A t \in Thread : WF_vars(Running /\ Step(t))
    /\ WF_vars(Running /\ Linking)

-----------------------------------------------------------------------------
\* Sections of one lock overlap only if two threads have created the object of the
\* mutex, each before it saw the other's (Util.cpp:378); those of a lock that the
\* main thread has used never do.
Exclusion ==
    \A l \in Lock :
        Overlap(l) => /\ l \notin Ready
                      /\ \E g, h \in made : g # h /\ g[1] = l /\ h[1] = l

\* Bytes of the data section are given to one appendData each, and they are fresh; that
\* they are within the array is part of StringsHold.
Data == INSTANCE Allocator WITH User <- Thread, given <- appended
GivesBytesOnce == Data!Spec

StoredAt(off, s) ==
    /\ off + Length(s) < global_data_size
    /\ \A i \in 1 .. Length(s) + 1 : global_data[off + i] = <<s, i>>

\* The table of strings only has offsets at which the whole string is, although the
\* search and the insertion are in different sections (Bytecode.cpp:351), and the
\* data ends within the array.
StringsHold ==
    /\ global_data_size <= global_data_max /\ Len(global_data) = global_data_size
    /\ \A s \in Str : string_map[s] # Null => StoredAt(string_map[s], s)

\* After apply_relocations each call has the number of the piece of its callee,
\* whatever the order in which the threads created the pieces, and -1 when no thread has
\* generated the callee; an immediate of a string is an offset at which the string is.
HasPiece(f) == \E k \in DOMAIN pieces : pieces[k] = f

Resolves(op, n) ==
    CASE op.op = "string" -> StoredAt(n, op.str)
      [] op.op = "call" /\ HasPiece(op.callee)  -> n \in DOMAIN pieces /\ pieces[n] = op.callee
      [] op.op = "call" /\ ~HasPiece(op.callee) -> n = NoPiece

LinksResolve ==
    linked => \A f \in Function :
        /\ Len(immediates[f]) = Len(emitted[f])
        /\ \A i \in DOMAIN emitted[f] : Resolves(emitted[f][i], immediates[f][i])

\* The bodies that the threads have still to create.
Bodies == UNION {{t} \X {k \in DOMAIN work[t] : work[t][k].op = "body"} : t \in Thread}

\* If there are scopes for all bodies, the last one included (AST.h:409-411), then every
\* thread gets through its work and the image is linked; only two objects of one mutex
\* (Util.cpp:378) can prevent it, by letting two threads in or by leaving one outside.
GetsLinked ==
    scopes_used + Cardinality(Bodies) <= scopes_max
        => <>(linked \/ Broken \/ \E t \in Thread : Orphaned(t))
=============================================================================
