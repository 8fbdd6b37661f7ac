------------------------------ MODULE Compiler ------------------------------
(***************************************************************************)
(* The parallel driver of the compiler: Compiler::processTasks and the     *)
(* handlers it runs (src/src/Compiler.cpp), the top level of the parser    *)
(* (src/src/Parser.cpp), the import table (src/include/AST.h) and the      *)
(* struct, function, global and code generation passes seen from the       *)
(* outside (src/src/Generator.cpp).                                        *)
(*                                                                         *)
(* Every thread runs processTasks.  It takes one token of the semaphore    *)
(* tasks_queue_lock, picks the first ready task under tasks_lock, runs it, *)
(* and returns the task to the queue in its next phase.  A section under   *)
(* tasks_lock or imports_lock never blocks inside, so it is one action;    *)
(* the code between two sections is one action per access to state that    *)
(* another thread can see.                                                 *)
(*                                                                         *)
(* An import object (AST::Import) is the number of its place in            *)
(* ast->imports; 0 is the null pointer.                                    *)
(***************************************************************************)
EXTENDS Naturals, Sequences, FiniteSets, SequencesExt

CONSTANTS
    Thread,      \* the threads that run processTasks
    File,        \* the names an import object can have
    Main,        \* options->initial_file
    Preload,     \* the name of the import object of the native functions
    MaxImports,  \* bound: places for import objects
    Programs     \* the programs to compile, one is chosen in Init

(***************************************************************************)
(* What the driver can tell about a program.  A struct is named by its     *)
(* file and its position in it, and is given by the struct types of its    *)
(* members.                                                                *)
(***************************************************************************)
Outcome == {"ok",       \* lexed and parsed
            "missing",  \* lex_file reports that the file is not there
            "partial",  \* a struct or function fails to parse: parsing stops
            "null"}     \* another syntax error: ParseTokenStream gives nullptr

StructName == File \X Nat

Member == [type : StructName, pointer : BOOLEAN]

Program == [ outcome : [File -> Outcome],
             imports : [File -> Seq(File)],           \* import "..." in order
             structs : [File -> Seq(SUBSET Member)],
             params  : [File -> SUBSET StructName],   \* types in signatures
             locals  : [File -> SUBSET StructName],   \* types of variables
             calls   : [File -> SUBSET File],         \* files of the callees
             globals : [File -> BOOLEAN] ]            \* it declares a global

\* The main thread runs processTasks too, so there is at least one.
ASSUME ThreadAssumption == IsFiniteSet(Thread) /\ Thread # {}

ASSUME FileAssumption == Main \in File /\ Preload \in File /\ Main # Preload

ASSUME MaxImportsAssumption == MaxImports \in Nat /\ MaxImports >= 1

\* The preload import holds native functions only, and no file is read for it.
ASSUME ProgramsAssumption ==
    \A p \in Programs : /\ p \in Program
                        /\ p.outcome[Preload] = "ok"
                        /\ p.imports[Preload] = << >>
                        /\ p.structs[Preload] = << >>

ImportId == 1..MaxImports

NoImport == 0

TaskType == {"TASK_LEX_FILE", "TASK_CHECK_STRUCTS",
             "TASK_CHECK_FUNCTIONS", "TASK_GEN_FUNCTIONS"}

Task == [type : TaskType, name : File, imp : ImportId \cup {NoImport},
         no_change : BOOLEAN]

VARIABLES
    program,             \* the program being compiled; never changes
    \* struct Compiler
    tasks,               \* the task queue
    is_signaled,         \* the queue's "somebody has been woken" flag
    tasks_queue_lock,    \* count of the semaphore, created with max 1
    threads_processing,  \* count of threads that hold a task
    \* AST::imports, AST::import_map and the fields of AST::Import
    imports,             \* names of the import objects, in order of creation
    import_map,          \* name -> import object
    body,                \* "none", "parsing" or "parsed"
    fixups,              \* the imports that wait for this one's body
    deps_count,          \* how many bodies this import waits for
    deps_now,            \* how many of them have arrived
    shared_scopes,       \* the imports whose scopes this one searches
    \* results
    created_types,       \* <<import, k>>: findType can find its k-th struct
    complete_types,      \* <<import, k>>: its layout is complete
    functions_checked,   \* imports whose signatures are laid out
    globals_added,       \* imports whose globals have an offset
    initialised,         \* imports whose globals main sets before it starts
    sizes_used,          \* <<import, struct, was the size known?>>
    generated,           \* imports whose functions have code
    errors,              \* reporter->errors # 0
    crashed,             \* a null pointer was dereferenced
    \* locals of processTasks, per thread
    pc, task, queue_task,
    i,                   \* index in the loop over dependencies or structs
    dep_imp, changed, failure, ignore_errors

queueVars  == <<tasks, is_signaled, tasks_queue_lock, threads_processing>>
importVars == <<imports, import_map, body, fixups, deps_count, deps_now,
                shared_scopes>>
resultVars == <<created_types, complete_types, functions_checked,
                globals_added, initialised, sizes_used, generated>>
localVars  == <<task, queue_task, i, dep_imp, changed, failure,
                ignore_errors>>
vars == <<program, queueVars, importVars, resultVars, errors, crashed, pc,
          localVars>>

-----------------------------------------------------------------------------
(***************************************************************************)
(* Where a thread is.                                                      *)
(***************************************************************************)
LexPc == {"lex", "body", "fixups", "find", "create", "enqueue", "attach"}
StructPc == {"struct", "members"}
FunctionPc == {"functions", "gate", "globals"}
GenPc == {"gen_main", "gen_calls"}

\* The thread holds a task: it is counted in threads_processing.
WorkPc == LexPc \cup StructPc \cup FunctionPc \cup GenPc \cup {"finish"}

Pc == {"wait", "select", "done"} \cup WorkPc

Entry == [type \in TaskType |->
            CASE type = "TASK_LEX_FILE"        -> "lex"
              [] type = "TASK_CHECK_STRUCTS"   -> "struct"
              [] type = "TASK_CHECK_FUNCTIONS" -> "functions"
              [] type = "TASK_GEN_FUNCTIONS"   -> "gen_main"]

Goto(t, l) == pc' = [pc EXCEPT ![t] = l]

At(t, l) == ~crashed /\ pc[t] = l

LexTask(f, imp) ==
    [type |-> "TASK_LEX_FILE", name |-> f, imp |-> imp, no_change |-> FALSE]

PreloadTask ==
    [type |-> "TASK_CHECK_STRUCTS", name |-> Preload, imp |-> 1,
     no_change |-> FALSE]

(***************************************************************************)
(* CompileFile up to the start of the threads: the preload import has a    *)
(* body (the global one) and a task, the initial file has a task without   *)
(* an import, and the semaphore starts at 1.                               *)
(***************************************************************************)
Init ==
    /\ program \in Programs
    /\ tasks = <<PreloadTask, LexTask(Main, NoImport)>>
    /\ is_signaled = FALSE
    /\ tasks_queue_lock = 1
    /\ threads_processing = 0
    /\ imports = <<Preload>>
    /\ import_map = [f \in File |-> IF f = Preload THEN 1 ELSE NoImport]
    /\ body = [id \in ImportId |-> IF id = 1 THEN "parsed" ELSE "none"]
    /\ fixups = [id \in ImportId |-> << >>]
    /\ deps_count = [id \in ImportId |-> 0]
    /\ deps_now = [id \in ImportId |-> 0]
    /\ shared_scopes = [id \in ImportId |-> {}]
    /\ created_types = {} /\ complete_types = {}
    /\ functions_checked = {} /\ globals_added = {}
    /\ initialised = {} /\ sizes_used = {} /\ generated = {}
    /\ errors = FALSE
    /\ crashed = FALSE
    /\ pc = [t \in Thread |-> "wait"]
    /\ task = [t \in Thread |-> LexTask(Main, NoImport)]
    /\ queue_task = [t \in Thread |-> FALSE]
    /\ i = [t \in Thread |-> 1]
    /\ dep_imp = [t \in Thread |-> NoImport]
    /\ changed = [t \in Thread |-> FALSE]
    /\ failure = [t \in Thread |-> FALSE]
    /\ ignore_errors = [t \in Thread |-> TRUE]

-----------------------------------------------------------------------------
(***************************************************************************)
(* The scheduler.                                                          *)
(***************************************************************************)
\* SEM_SIGNAL: ReleaseSemaphore on a full semaphore fails and changes nothing.
Signal == /\ is_signaled' = TRUE
          /\ tasks_queue_lock' = 1

\* Mutants: the test of is_signaled is left out; the signal is left out.
SignalOnce_Untested == Signal
SignalOnce_Missing == UNCHANGED <<is_signaled, tasks_queue_lock>>

\* if(!is_signaled) { is_signaled = true; SEM_SIGNAL(tasks_queue_lock) }
SignalOnce ==
    IF is_signaled THEN UNCHANGED <<is_signaled, tasks_queue_lock>> ELSE Signal

\* Mutants: the task is not counted; a flag instead of a count.
StartProcessing_Missing == UNCHANGED threads_processing
StartProcessing_Flag == threads_processing' = 1

\* atomic_add(&threads_processing, 1) and the opposite.
StartProcessing == threads_processing' = threads_processing + 1

StopProcessing == threads_processing' = threads_processing - 1

\* A task without an import or with all the bodies it waits for.
Ready(k) ==
    tasks[k].imp # NoImport =>
        deps_count[tasks[k].imp] = deps_now[tasks[k].imp]

NothingReady == \A k \in DOMAIN tasks : ~Ready(k)

\* Mutant: the task stays in the queue.
Erase_Missing(k) == tasks

\* tasks.erase(tasks.begin() + task_index)
Erase(k) == RemoveAt(tasks, k)

\* SEM_WAIT(tasks_queue_lock)
Wait(t) ==
    /\ At(t, "wait")
    /\ tasks_queue_lock = 1
    /\ tasks_queue_lock' = 0
    /\ Goto(t, "select")
    /\ UNCHANGED <<program, tasks, is_signaled, threads_processing, importVars,
                   resultVars, errors, crashed, localVars>>

\* The first ready task is taken; if others stay another thread is woken
\* (is_signaled has just been reset, so the test of it is true).
TakeTask(t) ==
    /\ At(t, "select")
    /\ \E k \in DOMAIN tasks :
          /\ Ready(k) /\ \A j \in 1..(k-1) : ~Ready(j)
          /\ task' = [task EXCEPT ![t] = tasks[k]]
          /\ tasks' = Erase(k)
          /\ Goto(t, Entry[tasks[k].type])
    /\ StartProcessing
    /\ IF tasks' # << >> THEN Signal
       ELSE is_signaled' = FALSE /\ UNCHANGED tasks_queue_lock
    /\ UNCHANGED <<program, importVars, resultVars, errors, crashed, queue_task,
                   i, dep_imp, changed, failure, ignore_errors>>

\* Nothing is ready and nobody works: either the queue is empty, or no task
\* can ever become ready.  The thread leaves the loop and wakes another one.
Quit(t) ==
    /\ At(t, "select")
    /\ NothingReady
    /\ threads_processing = 0
    /\ Signal
    /\ Goto(t, "done")
    /\ UNCHANGED <<program, tasks, threads_processing, importVars, resultVars,
                   errors, crashed, localVars>>

\* Nothing is ready but somebody works: wait for the next signal.
Idle(t) ==
    /\ At(t, "select")
    /\ NothingReady
    /\ threads_processing # 0
    /\ is_signaled' = FALSE
    /\ Goto(t, "wait")
    /\ UNCHANGED <<program, tasks, tasks_queue_lock, threads_processing,
                   importVars, resultVars, errors, crashed, localVars>>

\* The end of the loop body, where its locals go out of scope.
Finish(t) ==
    /\ At(t, "finish")
    /\ StopProcessing
    /\ tasks' = IF queue_task[t] THEN Append(tasks, task[t]) ELSE tasks
    /\ SignalOnce
    /\ Goto(t, "wait")
    /\ task' = [task EXCEPT ![t] = LexTask(Main, NoImport)]
    /\ queue_task' = [queue_task EXCEPT ![t] = FALSE]
    /\ i' = [i EXCEPT ![t] = 1]
    /\ dep_imp' = [dep_imp EXCEPT ![t] = NoImport]
    /\ changed' = [changed EXCEPT ![t] = FALSE]
    /\ failure' = [failure EXCEPT ![t] = FALSE]
    /\ ignore_errors' = [ignore_errors EXCEPT ![t] = TRUE]
    /\ UNCHANGED <<program, importVars, resultVars, errors, crashed>>

-----------------------------------------------------------------------------
(***************************************************************************)
(* TASK_LEX_FILE.                                                          *)
(***************************************************************************)
\* Mutant: the object is not entered in the map.
CreateImport_Unmapped(f, id) ==
    /\ id = Len(imports) + 1
    /\ id \in ImportId
    /\ imports' = Append(imports, f)
    /\ UNCHANGED import_map

\* AST::createImport, under imports_lock: an object of the same name that is
\* already there is only noticed by an Assert, which the build compiles out.
CreateImport(f, id) ==
    /\ id = Len(imports) + 1
    /\ id \in ImportId
    /\ imports' = Append(imports, f)
    /\ import_map' = [import_map EXCEPT ![f] = id]

\* lex_file fails and has reported it: the import never gets a body.
LexFailure(t) ==
    /\ At(t, "lex")
    /\ program.outcome[task[t].name] = "missing"
    /\ errors' = TRUE
    /\ Goto(t, "finish")
    /\ UNCHANGED <<program, queueVars, importVars, resultVars, crashed,
                   localVars>>

\* lex_file, then ParseTokenStream up to its loop: the import object of the
\* initial file is created here, and the body becomes visible before anything
\* is parsed.
ParseBegin(t) ==
    /\ At(t, "lex")
    /\ program.outcome[task[t].name] # "missing"
    /\ IF task[t].imp = NoImport
       THEN \E id \in ImportId :
               /\ CreateImport(task[t].name, id)
               /\ task' = [task EXCEPT ![t].imp = id]
               /\ body' = [body EXCEPT ![id] = "parsing"]
       ELSE /\ body' = [body EXCEPT ![task[t].imp] = "parsing"]
            /\ UNCHANGED <<imports, import_map, task>>
    /\ Goto(t, "body")
    /\ UNCHANGED <<program, queueVars, fixups, deps_count, deps_now,
                   shared_scopes, resultVars, errors, crashed, queue_task, i,
                   dep_imp, changed, failure, ignore_errors>>

\* The loop of ParseTokenStream; every failure has been reported.
ParseEnd(t) ==
    /\ At(t, "body")
    /\ LET outcome == program.outcome[task[t].name]
       IN  /\ errors' = (errors \/ outcome # "ok")
           /\ IF outcome = "null"
              THEN /\ task' = [task EXCEPT ![t].imp = NoImport]
                   /\ UNCHANGED body
              ELSE /\ body' = [body EXCEPT ![task[t].imp] = "parsed"]
                   /\ UNCHANGED task
    /\ Goto(t, "fixups")
    /\ UNCHANGED <<program, queueVars, imports, import_map, fixups, deps_count,
                   deps_now, shared_scopes, resultVars, crashed, queue_task, i,
                   dep_imp, changed, failure, ignore_errors>>

Occurrences(s, x) == Cardinality({k \in DOMAIN s : s[k] = x})

\* Under tasks_lock every import that waits for this body is told, then the
\* counts of this import start from zero.  The loop reads imp->fixups before
\* imp is tested, so a failed parse stops the program here.
Fixups(t) ==
    /\ At(t, "fixups")
    /\ LET imp == task[t].imp
       IN  IF imp = NoImport
           THEN /\ crashed' = TRUE
                /\ UNCHANGED <<deps_now, deps_count, shared_scopes, fixups, pc>>
           ELSE /\ deps_now' = [id \in ImportId |->
                        IF id = imp THEN 0
                        ELSE deps_now[id] + Occurrences(fixups[imp], id)]
                /\ deps_count' = [deps_count EXCEPT ![imp] = 0]
                /\ shared_scopes' = [id \in ImportId |->
                        IF Occurrences(fixups[imp], id) > 0
                        THEN shared_scopes[id] \cup {imp}
                        ELSE shared_scopes[id]]
                /\ fixups' = [fixups EXCEPT ![imp] = << >>]
                /\ Goto(t, "find")
                /\ UNCHANGED crashed
    /\ UNCHANGED <<program, queueVars, imports, import_map, body, resultVars,
                   errors, localVars>>

Imported(t) == program.imports[task[t].name]

\* The parser keeps the first of several imports of one path.
Repeated(t) == \E j \in 1..(i[t] - 1) : Imported(t)[j] = Imported(t)[i[t]]

\* Mutant: an import that was not found is used.
AfterFind_Attach(imp) == "attach"

AfterFind(imp) == IF imp = NoImport THEN "create" ELSE "attach"

\* AST::findImport, under imports_lock, for the next dependency.
FindImport(t) ==
    /\ At(t, "find")
    /\ i[t] \in DOMAIN Imported(t)
    /\ ~Repeated(t)
    /\ dep_imp' = [dep_imp EXCEPT ![t] = import_map[Imported(t)[i[t]]]]
    /\ Goto(t, AfterFind(dep_imp'[t]))
    /\ UNCHANGED <<program, queueVars, importVars, resultVars, errors, crashed,
                   task, queue_task, i, changed, failure, ignore_errors>>

SkipRepeated(t) ==
    /\ At(t, "find")
    /\ i[t] \in DOMAIN Imported(t)
    /\ Repeated(t)
    /\ i' = [i EXCEPT ![t] = @ + 1]
    /\ UNCHANGED <<program, queueVars, importVars, resultVars, errors, crashed,
                   pc, task, queue_task, dep_imp, changed, failure,
                   ignore_errors>>

\* The import was not found: create it.  Another thread may have done so since.
CreateDep(t) ==
    /\ At(t, "create")
    /\ \E id \in ImportId :
          /\ CreateImport(Imported(t)[i[t]], id)
          /\ dep_imp' = [dep_imp EXCEPT ![t] = id]
    /\ Goto(t, "enqueue")
    /\ UNCHANGED <<program, queueVars, body, fixups, deps_count, deps_now,
                   shared_scopes, resultVars, errors, crashed, task, queue_task,
                   i, changed, failure, ignore_errors>>

\* Mutant: the wait is not counted.
WaitFor_Uncounted(imp, dep) ==
    /\ fixups' = [fixups EXCEPT ![dep] = Append(@, imp)]
    /\ UNCHANGED deps_count

\* imp waits for the body of dep (both statements under tasks_lock).
WaitFor(imp, dep) ==
    /\ fixups' = [fixups EXCEPT ![dep] = Append(@, imp)]
    /\ deps_count' = [deps_count EXCEPT ![imp] = @ + 1]

\* Under tasks_lock: queue the new import and wait for its body.
EnqueueDep(t) ==
    /\ At(t, "enqueue")
    /\ WaitFor(task[t].imp, dep_imp[t])
    /\ tasks' = Append(tasks, LexTask(Imported(t)[i[t]], dep_imp[t]))
    /\ i' = [i EXCEPT ![t] = @ + 1]
    /\ Goto(t, "find")
    /\ UNCHANGED <<program, is_signaled, tasks_queue_lock, threads_processing,
                   imports, import_map, body, deps_now, shared_scopes,
                   resultVars, errors, crashed, task, queue_task, dep_imp,
                   changed, failure, ignore_errors>>

\* Mutant: the test for a body is left out.
HasBody_Untested(imp) == FALSE

HasBody(imp) == body[imp] # "none"

\* Under tasks_lock: use the scope of an import that has a body already, wait
\* for the body of one that has none.
AttachDep(t) ==
    /\ At(t, "attach")
    /\ IF HasBody(dep_imp[t])
       THEN /\ shared_scopes' = [shared_scopes EXCEPT ![task[t].imp] =
                                                        @ \cup {dep_imp[t]}]
            /\ UNCHANGED <<fixups, deps_count>>
       ELSE /\ WaitFor(task[t].imp, dep_imp[t])
            /\ UNCHANGED shared_scopes
    /\ i' = [i EXCEPT ![t] = @ + 1]
    /\ Goto(t, "find")
    /\ UNCHANGED <<program, queueVars, imports, import_map, body, deps_now,
                   resultVars, errors, crashed, task, queue_task, dep_imp,
                   changed, failure, ignore_errors>>

\* All dependencies are known: go on with the structs.
LexDone(t) ==
    /\ At(t, "find")
    /\ i[t] \notin DOMAIN Imported(t)
    /\ task' = [task EXCEPT ![t].type = "TASK_CHECK_STRUCTS"]
    /\ queue_task' = [queue_task EXCEPT ![t] = TRUE]
    /\ Goto(t, "finish")
    /\ UNCHANGED <<program, queueVars, importVars, resultVars, errors, crashed,
                   i, dep_imp, changed, failure, ignore_errors>>

-----------------------------------------------------------------------------
(***************************************************************************)
(* Name lookup: AST::createScopeIterator and AST::iterate visit the scope  *)
(* of an import and, transitively, the scopes it shares.  The global scope *)
(* that ends every search holds no struct and no function of a program.    *)
(***************************************************************************)
Visible(imp) ==
    LET reach[n \in 0..MaxImports] ==
            IF n = 0 THEN {imp}
            ELSE reach[n-1] \cup UNION {shared_scopes[id] : id \in reach[n-1]}
    IN  reach[MaxImports]

\* AST::findType finds the struct from the scope of imp.
FindType(imp, s) ==
    \E id \in Visible(imp) \cap DOMAIN imports :
        imports[id] = s[1] /\ <<id, s[2]>> \in created_types

\* AST::sizeOfType gives the size of that struct; it is 0 until its layout is
\* complete.
SizeKnown(imp, s) ==
    \E id \in Visible(imp) \cap DOMAIN imports :
        imports[id] = s[1] /\ <<id, s[2]>> \in complete_types

UseSizes(imp, S) ==
    sizes_used' = sizes_used \cup {<<imp, s, SizeKnown(imp, s)>> : s \in S}

\* What AST::findFunction can give for a function of file f: a callee is found
\* once it is parsed.
FindFunction(imp, f) ==
    LET found == {id \in Visible(imp) \cap DOMAIN imports :
                    imports[id] = f /\ body[id] = "parsed"}
    IN  IF found = {} THEN {NoImport} ELSE found

-----------------------------------------------------------------------------
(***************************************************************************)
(* TASK_CHECK_STRUCTS: CheckStructs calls generateStruct for every struct  *)
(* that is not complete.                                                   *)
(***************************************************************************)
Structs(t) == program.structs[task[t].name]

\* The next struct: skipped if complete, else its type is created (once).
CreateStruct(t) ==
    /\ At(t, "struct")
    /\ i[t] \in DOMAIN Structs(t)
    /\ IF <<task[t].imp, i[t]>> \in complete_types
       THEN /\ i' = [i EXCEPT ![t] = @ + 1]
            /\ UNCHANGED <<created_types, pc>>
       ELSE /\ created_types' = created_types \cup {<<task[t].imp, i[t]>>}
            /\ Goto(t, "members")
            /\ UNCHANGED i
    /\ UNCHANGED <<program, queueVars, importVars, complete_types,
                   functions_checked, globals_added, initialised, sizes_used,
                   generated, errors, crashed, task, queue_task, dep_imp,
                   changed, failure, ignore_errors>>

\* Mutant: errors stay ignored in the attempt that should report them.
ReportType_Never(t) == UNCHANGED errors

\* if(!ignore_errors) REPORT(mem.location, "Invalid type ...")
ReportType(t) == errors' = (errors \/ ~ignore_errors[t])

\* The types of the members are looked up; the first that is not found ends
\* the attempt, with an error if this is the second try of the task.
CheckMembers(t) ==
    /\ At(t, "members")
    /\ LET imp == task[t].imp
           members == Structs(t)[i[t]]
       IN  IF \A m \in members : FindType(imp, m.type)
           THEN /\ complete_types' = complete_types \cup {<<imp, i[t]>>}
                /\ UseSizes(imp, {m.type : m \in {n \in members : ~n.pointer}})
                /\ changed' = [changed EXCEPT ![t] = TRUE]
                /\ UNCHANGED <<failure, errors>>
           ELSE /\ failure' = [failure EXCEPT ![t] = TRUE]
                /\ ReportType(t)
                /\ UNCHANGED <<complete_types, changed, sizes_used>>
    /\ i' = [i EXCEPT ![t] = @ + 1]
    /\ Goto(t, "struct")
    /\ UNCHANGED <<program, queueVars, importVars, created_types,
                   functions_checked, globals_added, initialised, generated,
                   crashed, task, queue_task, dep_imp, ignore_errors>>

StructsChecked(t) == At(t, "struct") /\ i[t] \notin DOMAIN Structs(t)

\* CheckStructs returns !failure
Success(t) == ~failure[t]

\* Every struct is complete: on to the functions.
StructsSucceed(t) ==
    /\ StructsChecked(t)
    /\ ignore_errors[t]
    /\ Success(t)
    /\ task' = [task EXCEPT ![t].type = "TASK_CHECK_FUNCTIONS"]
    /\ queue_task' = [queue_task EXCEPT ![t] = TRUE]
    /\ Goto(t, "finish")
    /\ UNCHANGED <<program, queueVars, importVars, resultVars, errors, crashed,
                   i, dep_imp, changed, failure, ignore_errors>>

\* Mutant: no number of attempts is enough to give up.
NoProgress_Never(t) == FALSE

\* Two attempts in a row failed without progress.
NoProgress(t) == ~changed[t] /\ task[t].no_change

\* Check once more, and report this time.
StructsReport(t) ==
    /\ StructsChecked(t)
    /\ ignore_errors[t]
    /\ ~Success(t) /\ NoProgress(t)
    /\ ignore_errors' = [ignore_errors EXCEPT ![t] = FALSE]
    /\ failure' = [failure EXCEPT ![t] = FALSE]
    /\ i' = [i EXCEPT ![t] = 1]
    /\ UNCHANGED <<program, queueVars, importVars, resultVars, errors, crashed,
                   pc, task, queue_task, dep_imp, changed>>

\* Some struct failed, but there was progress now or in the last attempt.
StructsRetry(t) ==
    /\ StructsChecked(t)
    /\ ignore_errors[t]
    /\ ~Success(t) /\ ~NoProgress(t)
    /\ task' = [task EXCEPT ![t].no_change = ~changed[t]]
    /\ queue_task' = [queue_task EXCEPT ![t] = TRUE]
    /\ Goto(t, "finish")
    /\ UNCHANGED <<program, queueVars, importVars, resultVars, errors, crashed,
                   i, dep_imp, changed, failure, ignore_errors>>

\* After the reporting attempt the task is not queued again, whatever the
\* attempt found.
StructsDrop(t) ==
    /\ StructsChecked(t)
    /\ ~ignore_errors[t]
    /\ task' = [task EXCEPT ![t].no_change = ~changed[t]]
    /\ Goto(t, "finish")
    /\ UNCHANGED <<program, queueVars, importVars, resultVars, errors, crashed,
                   queue_task, i, dep_imp, changed, failure, ignore_errors>>

-----------------------------------------------------------------------------
(***************************************************************************)
(* TASK_CHECK_FUNCTIONS.                                                   *)
(***************************************************************************)
\* CheckFunction for every function: the signatures get their layout.
CheckFunctions(t) ==
    /\ At(t, "functions")
    /\ errors' = (errors \/ \E s \in program.params[task[t].name] :
                                ~FindType(task[t].imp, s))
    /\ UseSizes(task[t].imp, program.params[task[t].name])
    /\ functions_checked' = functions_checked \cup {task[t].imp}
    /\ Goto(t, "gate")
    /\ UNCHANGED <<program, queueVars, importVars, created_types,
                   complete_types, globals_added, initialised, generated,
                   crashed, localVars>>

\* if(reporter->errors == 0): anybody's error stops this import.
Gate(t) ==
    /\ At(t, "gate")
    /\ queue_task' = [queue_task EXCEPT ![t] = ~errors]
    /\ task' = IF errors THEN task
               ELSE [task EXCEPT ![t].type = "TASK_GEN_FUNCTIONS"]
    /\ Goto(t, "globals")
    /\ UNCHANGED <<program, queueVars, importVars, resultVars, errors, crashed,
                   i, dep_imp, changed, failure, ignore_errors>>

\* CheckGlobals gives every global an offset and a name.
CheckGlobals(t) ==
    /\ At(t, "globals")
    /\ globals_added' = IF program.globals[task[t].name]
                        THEN globals_added \cup {task[t].imp}
                        ELSE globals_added
    /\ Goto(t, "finish")
    /\ UNCHANGED <<program, queueVars, importVars, created_types,
                   complete_types, functions_checked, initialised, sizes_used,
                   generated, errors, crashed, localVars>>

-----------------------------------------------------------------------------
(***************************************************************************)
(* TASK_GEN_FUNCTIONS: GenerateFunction for every function.                *)
(***************************************************************************)
\* The function main starts by setting the globals of every import object
\* there is, whatever has become of it.
GenMain(t) ==
    /\ At(t, "gen_main")
    /\ task[t].name = Main
    /\ IF \E id \in DOMAIN imports : body[id] = "none"
       THEN crashed' = TRUE /\ UNCHANGED <<initialised, pc>>
       ELSE /\ initialised' = globals_added
            /\ Goto(t, "gen_calls")
            /\ UNCHANGED crashed
    /\ UNCHANGED <<program, queueVars, importVars, created_types,
                   complete_types, functions_checked, globals_added,
                   sizes_used, generated, errors, localVars>>

\* The bodies.  A call fails if its callee is not found, or has no signature
\* yet: its parameters then have no type an argument could match.
GenCalls(t) ==
    /\ At(t, "gen_calls") \/ (At(t, "gen_main") /\ task[t].name # Main)
    /\ LET imp == task[t].imp
       IN  /\ UseSizes(imp, program.locals[task[t].name])
           /\ \E callee \in [program.calls[task[t].name] ->
                                {NoImport} \cup DOMAIN imports] :
                 /\ \A f \in DOMAIN callee : callee[f] \in FindFunction(imp, f)
                 /\ errors' =
                      \/ errors
                      \/ \E f \in DOMAIN callee :
                                callee[f] \notin functions_checked
                      \/ \E s \in program.locals[task[t].name] :
                                ~FindType(imp, s)
    /\ generated' = generated \cup {task[t].imp}
    /\ Goto(t, "finish")
    /\ UNCHANGED <<program, queueVars, importVars, created_types,
                   complete_types, functions_checked, globals_added,
                   initialised, crashed, localVars>>

-----------------------------------------------------------------------------
Schedule(t) == Wait(t) \/ TakeTask(t) \/ Quit(t) \/ Idle(t) \/ Finish(t)

LexFile(t) == \/ LexFailure(t) \/ ParseBegin(t) \/ ParseEnd(t) \/ Fixups(t)
              \/ FindImport(t) \/ SkipRepeated(t) \/ CreateDep(t)
              \/ EnqueueDep(t) \/ AttachDep(t) \/ LexDone(t)

CheckStructs(t) == \/ CreateStruct(t) \/ CheckMembers(t) \/ StructsSucceed(t)
                   \/ StructsReport(t) \/ StructsRetry(t) \/ StructsDrop(t)

CheckAndGenerate(t) == \/ CheckFunctions(t) \/ Gate(t) \/ CheckGlobals(t)
                       \/ GenMain(t) \/ GenCalls(t)

ThreadStep(t) == \/ Schedule(t) \/ LexFile(t) \/ CheckStructs(t)
                 \/ CheckAndGenerate(t)

AllDone == \A t \in Thread : pc[t] = "done"

\* CompileFile has joined the threads, or the program has crashed.
Terminated == /\ AllDone \/ crashed
              /\ UNCHANGED vars

Next == Terminated \/ \E t \in Thread : ThreadStep(t)

\* The operating system runs every thread that can run.
Fairness == \A t \in Thread : WF_vars(ThreadStep(t))

Spec == Init /\ [][Next]_vars

FairSpec == Spec /\ Fairness

-----------------------------------------------------------------------------
QueueTypeOK ==
    /\ tasks \in Seq(Task)
    /\ is_signaled \in BOOLEAN
    /\ tasks_queue_lock \in 0..1
    /\ threads_processing \in Nat

ImportTypeOK ==
    /\ imports \in Seq(File) /\ Len(imports) \in ImportId
    /\ import_map \in [File -> ImportId \cup {NoImport}]
    /\ body \in [ImportId -> {"none", "parsing", "parsed"}]
    /\ fixups \in [ImportId -> Seq(ImportId)]
    /\ deps_count \in [ImportId -> Nat]
    /\ deps_now \in [ImportId -> Nat]
    /\ shared_scopes \in [ImportId -> SUBSET ImportId]

ResultTypeOK ==
    /\ created_types \subseteq ImportId \X Nat
    /\ complete_types \subseteq ImportId \X Nat
    /\ functions_checked \subseteq ImportId
    /\ globals_added \subseteq ImportId
    /\ initialised \subseteq ImportId
    /\ sizes_used \subseteq ImportId \X StructName \X BOOLEAN
    /\ generated \subseteq ImportId
    /\ errors \in BOOLEAN
    /\ crashed \in BOOLEAN

LocalTypeOK ==
    /\ pc \in [Thread -> Pc]
    /\ task \in [Thread -> Task]
    /\ queue_task \in [Thread -> BOOLEAN]
    /\ i \in [Thread -> Nat \ {0}]
    /\ dep_imp \in [Thread -> ImportId \cup {NoImport}]
    /\ changed \in [Thread -> BOOLEAN]
    /\ failure \in [Thread -> BOOLEAN]
    /\ ignore_errors \in [Thread -> BOOLEAN]

\* The types of all variables.  The import objects stay within MaxImports.
TypeOK == /\ program \in Programs
          /\ QueueTypeOK /\ ImportTypeOK /\ ResultTypeOK /\ LocalTypeOK

-----------------------------------------------------------------------------
(***************************************************************************)
(* The scheduler: the semaphore, is_signaled and threads_processing.       *)
(***************************************************************************)
Selecting == {t \in Thread : pc[t] = "select"}

Working == {t \in Thread : pc[t] \in WorkPc}

\* At most one thread has passed the semaphore and not yet the queue, and a
\* SEM_SIGNAL never meets a full semaphore (ERROR_TOO_MANY_POSTS in Util.cpp):
\* when a thread that works finds is_signaled false, no wake-up is under way,
\* and when it finds it true, one is.
OneToken ==
    /\ \A t, u \in Selecting : t = u
    /\ Selecting # {} => tasks_queue_lock = 0
    /\ Working # {} /\ ~is_signaled => tasks_queue_lock = 0 /\ Selecting = {}
    /\ is_signaled => tasks_queue_lock = 1 \/ Selecting # {}

\* While a thread has not left processTasks, a wake-up is on its way: the
\* semaphore is open, a thread looks at the queue, or one that works will
\* signal when it finishes.
NoLostWakeup ==
    AllDone \/ tasks_queue_lock = 1 \/ Selecting # {} \/ Working # {}

\* threads_processing, which decides whether a thread may leave, is the number
\* of threads that hold a task.
CountIsWorkers == threads_processing = Cardinality(Working)

\* Once a thread has left processTasks nobody works any more and nothing that
\* is still queued can become ready.
QuitIsFinal == (\E t \in Thread : pc[t] = "done") => Working = {} /\ NothingReady

\* An import object is in one task at most, queued or worked on: its fields
\* are only ever written by one thread outside the locks.
OneTaskPerImport ==
    \A id \in ImportId :
        Cardinality({k \in DOMAIN tasks : tasks[k].imp = id})
          + Cardinality({t \in Working : task[t].imp = id}) <= 1

\* The import of a task is known except before a file is parsed, and after a
\* parse that failed: no handler works on a null import.
ImportKnown ==
    /\ \A k \in DOMAIN tasks : tasks[k].type # "TASK_LEX_FILE" =>
            tasks[k].imp # NoImport
    /\ \A t \in Thread :
          /\ pc[t] \in WorkPc \ {"lex", "fixups", "finish"} =>
                task[t].imp # NoImport
          /\ queue_task[t] => /\ pc[t] \in {"globals", "finish"}
                              /\ task[t].imp # NoImport
          /\ pc[t] \in {"enqueue", "attach"} => dep_imp[t] # NoImport

\* The loops over dependencies and structs stay within their bounds.
IndexKnown ==
    \A t \in Thread :
        /\ pc[t] \in {"create", "enqueue", "attach"} =>
                i[t] \in DOMAIN Imported(t)
        /\ pc[t] = "members" => i[t] \in DOMAIN Structs(t)

(***************************************************************************)
(* The wait for the bodies of imports: fixups, deps_count and deps_now.    *)
(***************************************************************************)
\* The places at which an import is registered to wait.
Waits(id) ==
    UNION {{dep} \X {k \in DOMAIN fixups[dep] : fixups[dep][k] = id} : dep \in ImportId}

\* What an import still waits for is exactly what is registered: a wait that
\* is not counted lets a task run too early, a count that is not registered
\* holds it for ever.
PendingDeps ==
    \A id \in ImportId : deps_count[id] = deps_now[id] + Cardinality(Waits(id))

\* An import that others wait for will deliver: it is about to be queued, is
\* queued, or is being parsed and has not come to its fixups yet.  Otherwise
\* its file could not be read or parsed, and that has been reported.
NoLostFixup ==
    \A id \in ImportId : fixups[id] # << >> =>
        \/ \E k \in DOMAIN tasks : tasks[k] = LexTask(imports[id], id)
        \/ \E t \in Thread :
              \/ pc[t] \in {"lex", "body", "fixups"} /\ task[t].imp = id
              \/ pc[t] = "enqueue" /\ dep_imp[t] = id
        \/ errors /\ body[id] # "parsed"

\* When the threads leave tasks behind, an error has been reported.
StuckMeansError == AllDone /\ tasks # << >> => errors

\* From the struct check on, the body of every file an import names is published
\* and its scope is among those the import searches, whoever created the
\* import objects and in whatever order they were parsed.  Whether all of the file
\* is in it by then is ReadsWholeBodies.
ScopesComplete ==
    \A t \in Thread : pc[t] \in StructPc \cup FunctionPc \cup GenPc =>
        \A k \in DOMAIN Imported(t) :
            \E id \in shared_scopes[task[t].imp] :
                imports[id] = Imported(t)[k] /\ body[id] # "none"

(***************************************************************************)
(* What a compilation gives.                                               *)
(***************************************************************************)
\* CompileFile returns true.
Accepted == AllDone /\ ~crashed /\ ~errors

\* The import id has been read, each of its structs has its layout, and each
\* file it names is an import too.
ImportComplete(id) ==
    /\ program.outcome[imports[id]] = "ok"
    /\ \A k \in DOMAIN program.structs[imports[id]] : <<id, k>> \in complete_types
    /\ Range(program.imports[imports[id]]) \subseteq Range(imports)

\* A program is accepted only if its initial file and every file that is named
\* from there was read and parsed and each struct got its layout: no error is
\* lost on the way, whichever thread met it and whatever the others were doing.
AcceptedIsComplete ==
    Accepted => /\ Main \in Range(imports)
                /\ \A id \in DOMAIN imports : ImportComplete(id)

\* A program is accepted only if all its functions have code.
AcceptedIsGenerated == Accepted => generated = DOMAIN imports

\* Every error that is reported has its cause in the program.
TypesUsed(p, f) ==
    p.params[f] \cup p.locals[f] \cup
        UNION {{m.type : m \in p.structs[f][k]} : k \in DOMAIN p.structs[f]}

WellFormed(p) ==
    /\ \A f \in File : p.outcome[f] = "ok"
    /\ \A f \in File : \A s \in TypesUsed(p, f) :
            s[2] \in DOMAIN p.structs[s[1]]

ErrorsAreReal == errors => ~WellFormed(program)

\* A size is only used once the layout it comes from is complete.
SizesAreComplete == ~errors => \A u \in sizes_used : u[3]

\* When the code of main is generated, every global of every file is there to
\* be set.
MainSeesGlobals ==
    \A t \in Thread : pc[t] = "gen_main" /\ task[t].name = Main /\ ~errors =>
        \A id \in DOMAIN imports :
            /\ body[id] = "parsed"
            /\ program.globals[imports[id]] => id \in globals_added

\* A file is one import object.
NoDuplicateImport ==
    \A j, k \in DOMAIN imports : imports[j] = imports[k] => j = k

\* Whoever checks or generates an import finds all of the files it names in their bodies,
\* although a body is published before the file is parsed into it (Parser.cpp:871).
ReadsWholeBodies ==
    \A t \in Thread : pc[t] \in StructPc \cup FunctionPc \cup GenPc =>
        \A id \in shared_scopes[task[t].imp] : body[id] = "parsed"

\* The number of threads does not matter: no function of an accepted program is left
\* without code, no file is compiled twice, and none is read while it is parsed.
IndependentOfThreads == AcceptedIsGenerated /\ NoDuplicateImport /\ ReadsWholeBodies

\* The order in which a thread comes to the files and structs does not matter: a right
\* program is not rejected, and no size is used before it is known.
IndependentOfOrder == ErrorsAreReal /\ SizesAreComplete

\* Every thread leaves processTasks in the end.
Termination == <>(AllDone \/ crashed)

(***************************************************************************)
(* The scheduler implements an atomic pool of tasks.                       *)
(***************************************************************************)
NoTask == [type |-> "none", name |-> Main, imp |-> NoImport,
           no_change |-> FALSE]

TaskKey(k) == k.imp

Pool == INSTANCE TaskPool WITH
            Worker  <- Thread,
            Item    <- Task,
            Key     <- TaskKey,
            NoItem  <- NoTask,
            queue   <- tasks,
            held    <- [t \in Thread |-> IF pc[t] \in WorkPc THEN task[t]
                                         ELSE NoTask],
            blocked <- {id \in ImportId : deps_count[id] # deps_now[id]},
            left    <- {t \in Thread : pc[t] = "done"},
            failed  <- crashed

\* Seen from outside, processTasks takes the first ready task atomically, works on it,
\* queues it again or drops it, and a thread leaves only when nothing can be taken and
\* nobody works.
PoolSteps == Pool!Safety

\* A ready task is taken while a thread is free, and threads that can leave do.
PoolServes == Pool!Fairness
=============================================================================
