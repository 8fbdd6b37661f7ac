------------------------- MODULE BytecodeContainer -------------------------
(***************************************************************************)
(* struct Bytecode: the pieces of code, the data section and the table of  *)
(* strings that all threads append to under general_lock.  A thread does   *)
(* the operations of its work in turn; an operation names the function     *)
(* whose code it is for.  Of the code of a function only the immediates    *)
(* that refer to the container are kept.                                   *)
(***************************************************************************)
EXTENDS Jobs, Integers

CONSTANTS
    Function,       \* the functions of the program
    Str,            \* its string literals
    Length(_),      \* the length of a string
    GlobalSize,     \* the size of a global
    general_lock

VARIABLES
    pieces, piece_code_index, immediates, relocations,
    global_data, global_data_size, global_data_max, string_map,
    appended,       \* history: the bytes that each thread has been given
    emitted,        \* history: the operation behind each immediate
    linked          \* apply_relocations has run

containerVars == <<pieces, piece_code_index, immediates, relocations,
                   global_data, global_data_size, global_data_max, string_map,
                   appended, emitted, linked>>

NoPiece == -1           \* int piece_code_index = -1

ContainerInit ==
    /\ pieces = << >>
    /\ piece_code_index = [f \in Function |-> NoPiece]
    /\ immediates  = [f \in Function |-> << >>]
    /\ relocations = [f \in Function |-> << >>]
    /\ global_data = << >>
    /\ global_data_size = 0
    /\ global_data_max = 0
    /\ string_map = [s \in Str |-> Null]
    /\ appended = [t \in Thread |-> {}]
    /\ emitted = [f \in Function |-> << >>]
    /\ linked = FALSE

\* emit_dataptr and emit_call: one more immediate in the code of the function.
EmitImmediate(op, n) ==
    /\ immediates' = [immediates EXCEPT ![op.in] = Append(@, n)]
    /\ emitted' = [emitted EXCEPT ![op.in] = Append(@, op)]

\* MUTEX_LOCK(general_lock) at the start of a stage.
GeneralStages == { <<"function", "begin">>, <<"string", "begin">>, <<"string", "append">>,
                   <<"string", "insert">>, <<"global", "begin">> }
LockGeneral(t) ==
    /\ work[t] # << >> /\ <<Op(t).op, stage[t]>> \in GeneralStages
    /\ TestHandle(t, general_lock)
    /\ UNCHANGED <<workVars, containerVars>>

\* createPiece reads the number of pieces, then appends to them.
NumberPiece(t) ==
    /\ At(t, "function", "begin") /\ Inside(t, general_lock)
    /\ found' = [found EXCEPT ![t] = Len(pieces)]
    /\ Goto(t, "push")
    /\ UNCHANGED <<mutexVars, containerVars>>

PushPiece(t) ==
    /\ At(t, "function", "push") /\ Unlock(t)
    /\ pieces' = Append(pieces, Op(t).in)
    /\ piece_code_index' = [piece_code_index EXCEPT ![Op(t).in] = found[t]]
    /\ Finish(t)
    /\ UNCHANGED <<found, immediates, relocations, global_data, global_data_size,
                   global_data_max, string_map, appended, emitted, linked>>

\* appendString: a string that is in the table is used again.
KnownString(t) ==
    /\ At(t, "string", "begin") /\ Inside(t, general_lock) /\ Unlock(t)
    /\ string_map[Op(t).str] # Null
    /\ EmitImmediate(Op(t), string_map[Op(t).str])
    /\ Finish(t)
    /\ UNCHANGED <<found, pieces, piece_code_index, relocations, global_data,
                   global_data_size, global_data_max, string_map, appended, linked>>

\* Mutant: the string is entered with the offset it is going to get.
NewString_Early(t) ==
    /\ At(t, "string", "begin") /\ Inside(t, general_lock) /\ Unlock(t)
    /\ string_map[Op(t).str] = Null
    /\ string_map' = [string_map EXCEPT ![Op(t).str] = global_data_size]
    /\ Goto(t, "append")
    /\ UNCHANGED <<found, pieces, piece_code_index, immediates, relocations, global_data,
                   global_data_size, global_data_max, appended, emitted, linked>>

\* The lock is given up before appendData takes it again.
NewString(t) ==
    /\ At(t, "string", "begin") /\ Inside(t, general_lock) /\ Unlock(t)
    /\ string_map[Op(t).str] = Null
    /\ Goto(t, "append")
    /\ UNCHANGED <<found, containerVars>>

\* What appendData copies: the string with its 0, or underscores.
Bytes(t) == IF Op(t).op = "string" THEN [i \in 1 .. Length(Op(t).str) + 1 |-> <<Op(t).str, i>>]
                                   ELSE [i \in 1 .. GlobalSize |-> <<"_", 0>>]

Appending(t) == At(t, "string", "append") \/ At(t, "global", "begin")
Storing(t)   == At(t, "string", "store") \/ At(t, "global", "store")

\* The array is made large enough, and off is the size before the append.
Grown(size) == IF size + global_data_size > global_data_max
               THEN global_data_max * 2 + size * 2 ELSE global_data_max

TakeOffset(t) ==
    /\ Appending(t) /\ Inside(t, general_lock)
    /\ global_data_max' = Grown(Len(Bytes(t)))
    /\ found' = [found EXCEPT ![t] = global_data_size]
    /\ Goto(t, "store")
    /\ UNCHANGED <<mutexVars, pieces, piece_code_index, immediates, relocations, global_data,
                   global_data_size, string_map, appended, emitted, linked>>

\* The data behind the offset is written, whatever it was.
Written(off, bytes) ==
    [i \in 1 .. off + Len(bytes) |-> IF i <= off THEN global_data[i] ELSE bytes[i - off]]

\* Mutant: the size does not count the 0 at the end.
StoreData_Short(t) ==
    LET bytes == Bytes(t)
    IN  /\ Storing(t) /\ Unlock(t)
        /\ global_data' = Written(found[t], bytes)
        /\ global_data_size' = found[t] + Len(bytes) - 1
        /\ appended' = [appended EXCEPT ![t] = @ \cup (found[t] .. found[t] + Len(bytes) - 1)]
        /\ IF Op(t).op = "string" THEN Goto(t, "insert") ELSE Finish(t)
        /\ UNCHANGED <<found, pieces, piece_code_index, immediates, relocations,
                       global_data_max, string_map, emitted, linked>>

StoreData(t) ==
    LET bytes == Bytes(t)
    IN  /\ Storing(t) /\ Unlock(t)
        /\ global_data' = Written(found[t], bytes)
        /\ global_data_size' = found[t] + Len(bytes)
        /\ appended' = [appended EXCEPT ![t] = @ \cup (found[t] .. found[t] + Len(bytes) - 1)]
        /\ IF Op(t).op = "string" THEN Goto(t, "insert") ELSE Finish(t)
        /\ UNCHANGED <<found, pieces, piece_code_index, immediates, relocations,
                       global_data_max, string_map, emitted, linked>>

InsertString(t) ==
    /\ At(t, "string", "insert") /\ Inside(t, general_lock) /\ Unlock(t)
    /\ string_map' = [string_map EXCEPT ![Op(t).str] = found[t]]
    /\ EmitImmediate(Op(t), found[t])
    /\ Finish(t)
    /\ UNCHANGED <<found, pieces, piece_code_index, relocations, global_data,
                   global_data_size, global_data_max, appended, linked>>

\* Mutant: the relocation has the index of the word before the immediate.
EmitCall_Early(t) ==
    LET f == Op(t).in
    IN  /\ At(t, "call", "begin")
        /\ EmitImmediate(Op(t), 0)
        /\ relocations' = [relocations EXCEPT ![f] = Append(@, <<Op(t).callee, Len(immediates[f])>>)]
        /\ Finish(t)
        /\ UNCHANGED <<mutexVars, found, pieces, piece_code_index, global_data,
                       global_data_size, global_data_max, string_map, appended, linked>>

\* A call is emitted with immediate 0 and a relocation.
EmitCall(t) ==
    LET f == Op(t).in
    IN  /\ At(t, "call", "begin")
        /\ EmitImmediate(Op(t), 0)
        /\ relocations' = [relocations EXCEPT ![f] = Append(@, <<Op(t).callee, Len(immediates[f]) + 1>>)]
        /\ Finish(t)
        /\ UNCHANGED <<mutexVars, found, pieces, piece_code_index, global_data,
                       global_data_size, global_data_max, string_map, appended, linked>>

Container(t) ==
    \/ LockGeneral(t)
    \/ NumberPiece(t) \/ PushPiece(t)
    \/ KnownString(t) \/ NewString(t)
    \/ TakeOffset(t) \/ StoreData(t) \/ InsertString(t)
    \/ EmitCall(t)

\* apply_relocations: + 1 because 0 is seen as invalid; a function without a piece
\* keeps its -1.
CodeIndex(g) == IF piece_code_index[g] < 0 THEN piece_code_index[g] ELSE piece_code_index[g] + 1

Patched(f) ==
    [i \in DOMAIN immediates[f] |->
        LET here == {r \in DOMAIN relocations[f] : relocations[f][r][2] = i}
        IN  IF here = {} THEN immediates[f][i]
            ELSE CodeIndex(relocations[f][CHOOSE r \in here : TRUE][1])]

\* The interpreter links the pieces when all threads have been joined.
Link ==
    /\ ~linked /\ AllDone
    /\ immediates' = [f \in Function |->
                        IF \E i \in DOMAIN pieces : pieces[i] = f THEN Patched(f) ELSE immediates[f]]
    /\ linked' = TRUE
    /\ UNCHANGED <<mutexVars, workVars, pieces, piece_code_index, relocations, global_data,
                   global_data_size, global_data_max, string_map, appended, emitted>>
=============================================================================
