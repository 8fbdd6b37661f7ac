---------------------------- MODULE ResultProofs ----------------------------
(***************************************************************************)
(* Theorems about what a compilation gives (module Compiler): tasks that   *)
(* are left behind mean an error, and a program that is accepted has been  *)
(* read and laid out completely.  With a single thread, whose steps nobody *)
(* else's come between, what run two_threads refutes holds.                *)
(***************************************************************************)
EXTENDS ImportProofs

-----------------------------------------------------------------------------
(***************************************************************************)
(* Tasks that are left behind.                                             *)
(***************************************************************************)
\* An import that waits for nothing is ready.
LEMMA ReadyOrWaiting ==
    ASSUME TypeInv, WaitsInv, NEW k \in DOMAIN tasks, ~Ready(k)
    PROVE  tasks[k].imp \in ImportId /\ Waits(tasks[k].imp) # {}
<1> DEFINE x == tasks[k].imp
<1>1. x \in ImportId /\ deps_count[x] # deps_now[x]
  <2>1. tasks[k] \in Task
    BY DEF TypeInv, TypeOK, QueueTypeOK
  <2> QED
    BY <2>1 DEF Task, Ready
<1>2. deps_count[x] = deps_now[x] + Cardinality(Waits(x)) /\ deps_now[x] \in Nat
  BY <1>1 DEF WaitsInv, TypeInv, TypeOK, ImportTypeOK
<1>3. Cardinality({}) = 0
  BY FS_EmptySet
<1> HIDE DEF x
<1>4. Waits(x) # {}
  BY <1>1, <1>2, <1>3
<1> QED
  BY <1>1, <1>4 DEF x

\* When all threads have left and a task is still queued, an error has been reported:
\* imports that wait for each other do not hold each other up, so a wait that does not
\* end is for a file that failed.
THEOREM StuckTasksMeanError == Spec => []StuckMeansError
<1>1. IInv /\ ImportsInv => StuckMeansError
  <2> SUFFICES ASSUME TypeInv, QuitIsFinal, WaitsInv, DeliveryInv, AllDone, tasks # << >>
               PROVE  errors
    BY DEF IInv, SchedInv, ImportsInv, StuckMeansError
  <2>1. NothingReady
    BY ThreadAssumption DEF QuitIsFinal, AllDone
  <2>2. 1 \in DOMAIN tasks
    BY DEF TypeInv, TypeOK, QueueTypeOK
  <2>3. Waits(tasks[1].imp) # {}
    BY <2>1, <2>2, ReadyOrWaiting DEF NothingReady
  <2>4. PICK dep \in ImportId : DOMAIN fixups[dep] # {}
    BY <2>3, WaitsElements
  <2>5. fixups[dep] # << >>
    BY <2>4
  <2>6. dep <= Len(imports)
    <3>1. dep \in Nat /\ Len(imports) \in Nat
      BY MaxImportsAssumption DEF TypeInv, TypeOK, ImportTypeOK, ImportId
    <3> QED
      BY <2>5, <3>1 DEF DeliveryInv, KnownInv
  <2>7. ~Coming(dep)
    <3> SUFFICES ASSUME Coming(dep) PROVE FALSE
      OBVIOUS
    <3>1. PICK k \in DOMAIN tasks : tasks[k].imp = dep
      BY DEF Coming, AllDone
    <3>2. Waits(dep) = {}
      BY DEF WaitsInv, Fresh
    <3> QED
      BY <2>1, <3>1, <3>2, ReadyOrWaiting DEF NothingReady
  <2> QED
    BY <2>5, <2>6, <2>7 DEF DeliveryInv, Settled
<1> QED
  BY <1>1, Invariance, ImportsHold, PTL

-----------------------------------------------------------------------------
(***************************************************************************)
(* What is known of a task and of a thread while there is no error.        *)
(***************************************************************************)
Proper(y) == y.imp # NoImport => y.imp <= Len(imports) /\ imports[y.imp] = y.name

Read(y) == program.outcome[y.name] = "ok"

LaidOut(y) == \A j \in DOMAIN program.structs[y.name] : <<y.imp, j>> \in complete_types

Named(y) == \A f \in Range(program.imports[y.name]) : f \in Range(imports)

First(y) == y.imp = NoImport => y.name = Main

Passed(y) == y.type \in {"TASK_CHECK_FUNCTIONS", "TASK_GEN_FUNCTIONS"} => LaidOut(y)

\* A task in the queue.
TaskOK(y) ==
    /\ Proper(y) /\ First(y) /\ Passed(y)
    /\ y.type # "TASK_LEX_FILE" => Read(y)

\* A thread, whose attempt to lay out the structs has come to i[t].
ThreadOK(t) ==
    /\ pc[t] \in WorkPc => Proper(task[t])
    /\ pc[t] = "lex" => First(task[t])
    /\ pc[t] \in WorkPc \ {"lex", "body"} => Read(task[t])
    /\ pc[t] \in FunctionPc \cup GenPc \/ (pc[t] = "finish" /\ ~queue_task[t]) => LaidOut(task[t])
    /\ pc[t] = "finish" => Named(task[t]) /\ Passed(task[t]) /\ task[t].imp # NoImport
    /\ pc[t] = "globals" => queue_task[t]
    /\ pc[t] \in {"wait", "select"} => ignore_errors[t]
    /\ pc[t] \in StructPc =>
           /\ task[t].type = "TASK_CHECK_STRUCTS"
           /\ failure[t] => ignore_errors[t]
           /\ ~failure[t] => \A j \in DOMAIN Structs(t) : j < i[t] => <<task[t].imp, j>> \in complete_types

Underway(id) ==
    \/ \E k \in DOMAIN tasks : tasks[k].imp = id
    \/ \E t \in Thread : id \in Held(t)

MainUnderway ==
    \/ \E k \in DOMAIN tasks : tasks[k].imp = NoImport
    \/ \E t \in Thread : pc[t] = "lex" /\ task[t].imp = NoImport

ResultInv ==
    ~errors =>
        /\ \A k \in DOMAIN tasks : TaskOK(tasks[k])
        /\ \A t \in Thread : ThreadOK(t)
        /\ \A id \in DOMAIN imports : Underway(id) \/ ImportComplete(id)
        /\ Main \in Range(imports) \/ MainUnderway

-----------------------------------------------------------------------------
(***************************************************************************)
(* What a step leaves as it is.                                            *)
(***************************************************************************)
Extends ==
    /\ program' = program
    /\ errors => errors'
    /\ Len(imports) \in Nat /\ Len(imports') \in Nat /\ Len(imports) <= Len(imports')
    /\ DOMAIN imports = 1 .. Len(imports) /\ DOMAIN imports' = 1 .. Len(imports')
    /\ \A id \in 1 .. Len(imports) : imports'[id] = imports[id]
    /\ complete_types \subseteq complete_types'

\* An attempt of another thread to lay out its structs is not disturbed.
AttemptsKept(t) ==
    \A u \in Thread \ {t} : UNCHANGED <<i[u], failure[u], ignore_errors[u]>>

LEMMA StepExtends ==
    ASSUME TypeInv, DeliveryInv, NEW t \in Thread, ThreadStep(t)
    PROVE  Extends /\ AttemptsKept(t)
<1>1. program' = program /\ \A id \in 1 .. Len(imports) : imports'[id] = imports[id]
  BY StepGrows, StepKeepsPlaces DEF Grows
<1>2. imports \in Seq(File)
  BY DEF TypeInv, TypeOK, ImportTypeOK
<1>3. imports' = imports \/ \E f \in File : imports' = Append(imports, f)
  <2>1. CASE CreateDep(t)
    <3>1. imports' = Append(imports, Imported(t)[i[t]])
      BY <2>1 DEF CreateDep, CreateImport
    <3>2. Imported(t)[i[t]] \in File
      BY <2>1, ImportedType DEF TypeInv, IndexKnown, CreateDep, At
    <3> QED
      BY <3>1, <3>2
  <2>2. CASE ParseBegin(t)
    <3>1. imports' = imports \/ imports' = Append(imports, task[t].name)
      BY <2>2 DEF ParseBegin, CreateImport
    <3>2. task[t].name \in File
      BY ImportedType DEF TypeInv
    <3> QED
      BY <3>1, <3>2
  <2>3. CASE ~CreateDep(t) /\ ~ParseBegin(t)
    <3>1. CASE TakeTask(t) \/ Finish(t) \/ EnqueueDep(t)
      BY <3>1 DEF TakeTask, Finish, EnqueueDep, importVars
    <3>2. CASE ~(TakeTask(t) \/ Finish(t) \/ EnqueueDep(t))
      BY <2>3, <3>2, OthersAreQuiet DEF ThreadStep, Schedule, Quiet
    <3> QED
      BY <3>1, <3>2
  <2> QED
    BY <2>1, <2>2, <2>3
<1>4. /\ Len(imports) \in Nat /\ Len(imports') \in Nat /\ Len(imports) <= Len(imports')
      /\ DOMAIN imports = 1 .. Len(imports) /\ DOMAIN imports' = 1 .. Len(imports')
  <2>1. CASE imports' = imports
    BY <1>2, <2>1
  <2>2. ASSUME NEW f \in File, imports' = Append(imports, f) 
        PROVE  /\ Len(imports) \in Nat /\ Len(imports') \in Nat /\ Len(imports) <= Len(imports')
               /\ DOMAIN imports = 1 .. Len(imports) /\ DOMAIN imports' = 1 .. Len(imports')
    BY <1>2, <2>2, AppendProperties
  <2> QED
    BY <1>3, <2>1, <2>2
<1>5. errors => errors'
  <2>1. CASE Schedule(t)
    BY <2>1 DEF Schedule, Wait, TakeTask, Quit, Idle, Finish
  <2>2. CASE LexFile(t)
    BY <2>2, Zenon DEF LexFile, LexFailure, ParseBegin, ParseEnd, Fixups, FindImport, SkipRepeated, CreateDep,
                       EnqueueDep, AttachDep, LexDone
  <2> QED
    BY <2>1, <2>2, ErrorsStay DEF ThreadStep
<1>6. complete_types \subseteq complete_types' /\ AttemptsKept(t)
  <2> USE DEF TypeInv, TypeOK, LocalTypeOK, AttemptsKept
  <2>1. CASE Schedule(t)
    BY <2>1, StepKeepsPlaces DEF Schedule, Wait, TakeTask, Quit, Idle, Finish, resultVars, localVars
  <2>2. CASE LexFile(t)
    <3>1. UNCHANGED <<complete_types, failure, ignore_errors>>
      BY <2>2 DEF LexFile, LexFailure, ParseBegin, ParseEnd, Fixups, FindImport, SkipRepeated, CreateDep,
                  EnqueueDep, AttachDep, LexDone, resultVars, localVars
    <3> QED
      BY <3>1, StepKeepsPlaces
  <2>3. CASE CheckStructs(t)
    BY <2>3, StepKeepsPlaces DEF CheckStructs, CreateStruct, CheckMembers, StructsSucceed, StructsReport,
                                 StructsRetry, StructsDrop, resultVars
  <2>4. CASE CheckAndGenerate(t)
    BY <2>4, StepKeepsPlaces DEF CheckAndGenerate, CheckFunctions, Gate, CheckGlobals, GenMain, GenCalls,
                                 resultVars, localVars
  <2> QED
    BY <2>1, <2>2, <2>3, <2>4 DEF ThreadStep
<1> QED
  BY <1>1, <1>4, <1>5, <1>6 DEF Extends

\* What is known of a task stays true.
LEMMA TaskKept ==
    ASSUME TypeInv, Extends, NEW y \in Task
    PROVE  /\ Proper(y) => Proper(y)'
           /\ First(y) <=> First(y)'
           /\ Read(y) <=> Read(y)'
           /\ LaidOut(y) => LaidOut(y)'
           /\ Named(y) => Named(y)'
           /\ Passed(y) => Passed(y)'
<1>1. y.imp # NoImport => y.imp \in Nat /\ y.imp >= 1
  BY MaxImportsAssumption DEF Task, ImportId
<1>2. Proper(y) => Proper(y)'
  BY <1>1 DEF Extends, Proper
<1>3. LaidOut(y) => LaidOut(y)'
  BY DEF Extends, LaidOut
<1>4. Range(imports) \subseteq Range(imports')
  BY DEF Extends, Range
<1> QED
  BY <1>2, <1>3, <1>4 DEF Extends, First, Read, Named, Passed

\* And of a thread that does not move.
LEMMA OthersOK ==
    ASSUME TypeInv, NEW t \in Thread, Local(t), Extends, AttemptsKept(t), NEW u \in Thread \ {t}, ThreadOK(u)
    PROVE  ThreadOK(u)'
<1>1. /\ pc'[u] = pc[u] /\ task'[u] = task[u] /\ queue_task'[u] = queue_task[u]
      /\ i'[u] = i[u] /\ failure'[u] = failure[u] /\ ignore_errors'[u] = ignore_errors[u]
  BY DEF Local, AttemptsKept
<1>2. PICK y \in Task : y = task[u]
  BY DEF TypeInv, TypeOK, LocalTypeOK
<1>3. /\ Proper(y) => Proper(y)'
      /\ First(y) => First(y)'
      /\ Read(y) => Read(y)'
      /\ LaidOut(y) => LaidOut(y)'
      /\ Named(y) => Named(y)'
      /\ Passed(y) => Passed(y)'
  BY TaskKept
<1>4. /\ Proper(y)' => Proper(task[u])'
      /\ First(y)' => First(task[u])'
      /\ Read(y)' => Read(task[u])'
      /\ LaidOut(y)' => LaidOut(task[u])'
      /\ Named(y)' => Named(task[u])'
      /\ Passed(y)' => Passed(task[u])'
  BY <1>1, <1>2 DEF Proper, First, Read, LaidOut, Named, Passed
<1>5. ASSUME pc[u] \in StructPc, ~failure[u]
      PROVE  \A j \in DOMAIN Structs(u)' : j < i[u] => <<task[u].imp, j>> \in complete_types'
  BY <1>1, <1>5 DEF ThreadOK, Structs, Extends
<1> QED
  BY <1>1, <1>2, <1>3, <1>4, <1>5 DEF ThreadOK

-----------------------------------------------------------------------------
(***************************************************************************)
(* The thread that moves.                                                  *)
(***************************************************************************)
\* It works on the same import of the same file.
LEMMA SameTask ==
    ASSUME TypeInv, Extends, NEW t \in Thread,
           task'[t].name = task[t].name, task'[t].imp = task[t].imp
    PROVE  /\ Proper(task[t]) => Proper(task[t])'
           /\ Read(task[t]) => Read(task[t])'
           /\ LaidOut(task[t]) => LaidOut(task[t])'
<1>1. PICK y \in Task : y = task[t]
  BY DEF TypeInv, TypeOK, LocalTypeOK
<1>2. /\ Proper(y) => Proper(y)'
      /\ Read(y) => Read(y)'
      /\ LaidOut(y) => LaidOut(y)'
  BY TaskKept
<1> QED
  BY <1>1, <1>2 DEF Proper, Read, LaidOut

\* The files that an import has been told of are imports.
LEMMA InformedIsNamed ==
    ASSUME TypeInv, NEW t \in Thread, Informed(task[t]) \/ Complete(task[t])
    PROVE  Named(task[t])
<1> SUFFICES ASSUME NEW f \in Range(program.imports[task[t].name]) PROVE f \in Range(imports)
  BY DEF Named
<1>1. Has(task[t].imp, f) \/ Awaits(task[t].imp, f)
  BY DEF Informed, Complete
<1>2. PICK id \in ImportId : id <= Len(imports) /\ imports[id] = f
  BY <1>1 DEF Has, Awaits
<1>3. id \in DOMAIN imports
  BY <1>2, MaxImportsAssumption DEF TypeInv, TypeOK, ImportTypeOK, ImportId
<1> QED
  BY <1>2, <1>3 DEF Range

LEMMA SchedulerOK ==
    ASSUME TypeInv, ScopesInv, NEW t \in Thread, Schedule(t), ThreadOK(t),
           \A k \in DOMAIN tasks : TaskOK(tasks[k])
    PROVE  ThreadOK(t)'
<1> USE DEF ThreadOK, WorkPc, LexPc, StructPc, FunctionPc, GenPc
<1>1. pc \in [Thread -> Pc] /\ ignore_errors \in [Thread -> BOOLEAN]
  BY DEF TypeInv, TypeOK, LocalTypeOK
<1>2. CASE Wait(t) \/ Quit(t) \/ Idle(t)
  <2>1. pc'[t] \in {"wait", "select", "done"} /\ ignore_errors'[t]
    BY <1>1, <1>2 DEF Wait, Quit, Idle, At, Goto, localVars
  <2> QED
    BY <2>1
<1>3. CASE Finish(t)
  <2>1. pc'[t] = "wait" /\ ignore_errors'[t]
    BY <1>1, <1>3 DEF Finish, Goto
  <2> QED
    BY <2>1
<1>4. CASE TakeTask(t)
  <2>1. PICK k \in DOMAIN tasks : task' = [task EXCEPT ![t] = tasks[k]] /\ Goto(t, Entry[tasks[k].type])
    BY <1>4 DEF TakeTask
  <2>2. PICK y \in Task : y = tasks[k]
    BY DEF TypeInv, TypeOK, QueueTypeOK
  <2>3. task'[t] = y /\ pc'[t] = Entry[y.type]
    BY <1>1, <2>1, <2>2 DEF Goto, TypeInv, TypeOK, LocalTypeOK
  <2>4. TaskOK(y)
    BY <2>2
  <2>5. UNCHANGED <<program, imports, complete_types, i, failure, ignore_errors>> /\ pc[t] = "select"
    BY <1>4 DEF TakeTask, At, importVars, resultVars
  <2>6. ignore_errors[t] /\ i[t] = 1
    BY <2>5 DEF ScopesInv, ScopesOf
  <2>7. /\ Proper(task[t])' <=> Proper(y)
        /\ First(task[t])' <=> First(y)
        /\ Read(task[t])' <=> Read(y)
        /\ LaidOut(task[t])' <=> LaidOut(y)
    BY <2>3, <2>5 DEF Proper, First, Read, LaidOut
  <2>8. CASE y.type = "TASK_LEX_FILE"
    <3>1. pc'[t] = "lex"
      BY <2>3, <2>8 DEF Entry, TaskType
    <3> QED
      BY <2>4, <2>7, <3>1 DEF TaskOK
  <2>9. CASE y.type = "TASK_CHECK_STRUCTS"
    <3>1. pc'[t] = "struct"
      BY <2>3, <2>9 DEF Entry, TaskType
    <3>2. \A j \in DOMAIN Structs(t)' : ~(j < i'[t])
      <4>1. program.structs[y.name] \in Seq(SUBSET Member)
        BY ProgramsAssumption DEF Program, Task, TypeInv, TypeOK
      <4>2. \A j \in DOMAIN program.structs[y.name] : j \in Nat /\ j >= 1
        BY <4>1
      <4> QED
        BY <2>3, <2>5, <2>6, <4>2 DEF Structs
    <3> QED
      BY <2>3, <2>4, <2>5, <2>6, <2>7, <2>9, <3>1, <3>2 DEF TaskOK
  <2>10. CASE y.type = "TASK_CHECK_FUNCTIONS" \/ y.type = "TASK_GEN_FUNCTIONS"
    <3>1. pc'[t] \in {"functions", "gen_main"}
      BY <2>3, <2>10 DEF Entry, TaskType
    <3>2. Proper(y) /\ Read(y) /\ LaidOut(y)
      BY <2>4, <2>10 DEF TaskOK, Passed
    <3> QED
      BY <2>7, <3>1, <3>2
  <2> QED
    BY <2>8, <2>9, <2>10 DEF Task, TaskType
<1> QED
  BY <1>2, <1>3, <1>4 DEF Schedule

LEMMA LexerOK ==
    ASSUME TypeInv, TypeInv', ScopesInv', Extends, NEW t \in Thread, LexFile(t), ThreadOK(t), ~errors'
    PROVE  ThreadOK(t)'
<1> USE DEF ThreadOK, WorkPc, LexPc, StructPc, FunctionPc, GenPc
<1>1. pc \in [Thread -> Pc] /\ task \in [Thread -> Task]
  BY DEF TypeInv, TypeOK, LocalTypeOK
<1>2. ~LexFailure(t)
  BY DEF LexFailure
<1>3. CASE ParseBegin(t)
  <2>1. pc[t] = "lex" /\ pc'[t] = "body"
    BY <1>1, <1>3 DEF ParseBegin, At, Goto
  <2>2. CASE task[t].imp # NoImport
    <3>1. task' = task
      BY <1>3, <2>2 DEF ParseBegin
    <3> QED
      BY <2>1, <3>1, SameTask
  <2>3. CASE task[t].imp = NoImport
    <3>1. PICK id \in ImportId : CreateImport(task[t].name, id) /\ task' = [task EXCEPT ![t].imp = id]
      BY <1>3, <2>3 DEF ParseBegin
    <3>2. task'[t].imp = id /\ task'[t].name = task[t].name /\ task[t].name \in File
      BY <1>1, <3>1 DEF Task
    <3>3. imports' = Append(imports, task[t].name) /\ id = Len(imports) + 1 /\ imports \in Seq(File)
      BY <3>1 DEF CreateImport, TypeInv, TypeOK, ImportTypeOK
    <3>4. id <= Len(imports') /\ imports'[id] = task[t].name
      BY <3>2, <3>3, AppendProperties
    <3> QED
      BY <2>1, <3>2, <3>4 DEF Proper
  <2> QED
    BY <2>2, <2>3
<1>4. CASE ParseEnd(t)
  <2>1. program.outcome[task[t].name] = "ok"
    BY <1>4 DEF ParseEnd
  <2>2. pc[t] = "body" /\ pc'[t] = "fixups" /\ task' = task
    BY <1>1, <1>4, <2>1 DEF ParseEnd, At, Goto
  <2> QED
    BY <2>1, <2>2, SameTask DEF Read
<1>5. CASE Fixups(t) \/ FindImport(t) \/ SkipRepeated(t) \/ CreateDep(t) \/ EnqueueDep(t) \/ AttachDep(t)
  <2>1. task' = task
    BY <1>5 DEF Fixups, FindImport, SkipRepeated, CreateDep, EnqueueDep, AttachDep, localVars
  <2>2. pc[t] \in {"fixups", "find", "create", "enqueue", "attach"}
    BY <1>5 DEF Fixups, FindImport, SkipRepeated, CreateDep, EnqueueDep, AttachDep, At
  <2>3. pc'[t] \in {"fixups", "find", "create", "enqueue", "attach"}
    BY <1>1, <1>5, <2>2 DEF Fixups, FindImport, SkipRepeated, CreateDep, EnqueueDep, AttachDep, Goto, AfterFind
  <2> QED
    BY <2>1, <2>2, <2>3, SameTask
<1>6. CASE LexDone(t)
  <2>1. /\ pc[t] = "find" /\ pc'[t] = "finish" /\ queue_task'[t]
        /\ task' = [task EXCEPT ![t].type = "TASK_CHECK_STRUCTS"]
    BY <1>1, <1>6 DEF LexDone, At, Goto, TypeInv, TypeOK, LocalTypeOK
  <2>2. /\ task'[t].name = task[t].name /\ task'[t].imp = task[t].imp
        /\ task'[t].type = "TASK_CHECK_STRUCTS"
    BY <1>1, <2>1 DEF Task
  <2>3. Informed(task[t])'
    BY <2>1 DEF ScopesInv, ScopesOf
  <2>4. Named(task[t])'
    <3> SUFFICES ASSUME NEW f \in Range(program'.imports[task'[t].name]) PROVE f \in Range(imports')
      BY DEF Named
    <3>1. (Has(task[t].imp, f) \/ Awaits(task[t].imp, f))'
      BY <2>3 DEF Informed
    <3>2. PICK id \in ImportId : id <= Len(imports') /\ imports'[id] = f
      BY <3>1 DEF Has, Awaits
    <3>3. id \in DOMAIN imports'
      BY <3>2, MaxImportsAssumption DEF Extends, ImportId
    <3> QED
      BY <3>2, <3>3 DEF Range
  <2>5. task'[t].imp # NoImport
    BY <2>1 DEF TypeInv, ImportKnown
  <2> QED
    BY <2>1, <2>2, <2>4, <2>5, SameTask DEF Passed
<1> QED
  BY <1>2, <1>3, <1>4, <1>5, <1>6 DEF LexFile

LEMMA StructsOK ==
    ASSUME TypeInv, ScopesInv, Extends, NEW t \in Thread, CheckStructs(t), ThreadOK(t), ~errors'
    PROVE  ThreadOK(t)'
<1> USE DEF ThreadOK, WorkPc, LexPc, StructPc, FunctionPc, GenPc
<1>1. /\ pc \in [Thread -> Pc] /\ task \in [Thread -> Task] /\ i \in [Thread -> Nat \ {0}]
      /\ queue_task \in [Thread -> BOOLEAN] /\ failure \in [Thread -> BOOLEAN]
      /\ ignore_errors \in [Thread -> BOOLEAN]
  BY DEF TypeInv, TypeOK, LocalTypeOK
<1>2. pc[t] \in {"struct", "members"} /\ program' = program
  BY DEF CheckStructs, CreateStruct, CheckMembers, StructsSucceed, StructsReport, StructsRetry, StructsDrop,
         StructsChecked, At
<1>3. Named(task[t]) /\ task[t].imp # NoImport
  BY <1>2, InformedIsNamed DEF ScopesInv, ScopesOf, TypeInv, ImportKnown
<1>4. /\ DOMAIN Structs(t) = 1 .. Len(Structs(t)) /\ Len(Structs(t)) \in Nat
      /\ Structs(t) = program.structs[task[t].name]
  BY <1>1, ProgramsAssumption DEF Structs, Program, Task, TypeInv, TypeOK
\* The attempt goes on.
<1>5. ASSUME UNCHANGED task, pc'[t] \in {"struct", "members"}, failure'[t] => ignore_errors'[t],
             ~failure'[t] => \A j \in DOMAIN Structs(t) : j < i'[t] => <<task[t].imp, j>> \in complete_types'
      PROVE  ThreadOK(t)'
  BY <1>2, <1>5, SameTask DEF Structs
\* The attempt ends.
<1>6. ASSUME pc'[t] = "finish", task'[t].name = task[t].name, task'[t].imp = task[t].imp,
             Passed(task[t])', queue_task'[t] \/ LaidOut(task[t]),
             UNCHANGED imports
      PROVE  ThreadOK(t)'
  <2>1. Named(task[t])'
    BY <1>2, <1>3, <1>6 DEF Named
  <2> QED
    BY <1>2, <1>3, <1>6, <2>1, SameTask
<1>7. CASE CreateStruct(t)
  <2>1. /\ UNCHANGED <<task, failure, ignore_errors, complete_types>> /\ pc[t] = "struct"
        /\ pc'[t] \in {"struct", "members"}
        /\ i'[t] = i[t] \/ (i'[t] = i[t] + 1 /\ <<task[t].imp, i[t]>> \in complete_types)
    BY <1>1, <1>7 DEF CreateStruct, At, Goto
  <2>2. ASSUME ~failure[t], NEW j \in DOMAIN Structs(t), j < i'[t] PROVE <<task[t].imp, j>> \in complete_types
    <3>1. j \in Nat /\ i[t] \in Nat
      BY <1>1, <1>4
    <3>2. j < i[t] \/ (j = i[t] /\ <<task[t].imp, i[t]>> \in complete_types)
      BY <2>1, <2>2, <3>1
    <3> QED
      BY <2>1, <2>2, <3>2
  <2> QED
    BY <1>5, <2>1, <2>2
<1>8. CASE CheckMembers(t)
  <2>1. /\ UNCHANGED <<task, ignore_errors>> /\ pc[t] = "members" /\ pc'[t] = "struct" /\ i'[t] = i[t] + 1
        /\ \/ UNCHANGED failure /\ complete_types' = complete_types \cup {<<task[t].imp, i[t]>>}
           \/ failure'[t] /\ ignore_errors[t]
    BY <1>1, <1>8 DEF CheckMembers, ReportType, At, Goto
  <2>2. ASSUME ~failure'[t], NEW j \in DOMAIN Structs(t), j < i'[t] PROVE <<task[t].imp, j>> \in complete_types'
    <3>1. j \in Nat /\ i[t] \in Nat
      BY <1>1, <1>4
    <3>2. j < i[t] \/ j = i[t]
      BY <2>1, <2>2, <3>1
    <3> QED
      BY <2>1, <2>2, <3>2
  <2> QED
    BY <1>5, <2>1, <2>2
<1>9. ASSUME StructsChecked(t), ~failure[t] PROVE LaidOut(task[t])
  <2> SUFFICES ASSUME NEW j \in DOMAIN Structs(t) PROVE <<task[t].imp, j>> \in complete_types
    BY <1>4 DEF LaidOut
  <2>1. pc[t] = "struct" /\ i[t] \notin DOMAIN Structs(t)
    BY <1>9 DEF StructsChecked, At
  <2>2. j < i[t]
    BY <1>1, <1>4, <2>1
  <2> QED
    BY <1>9, <2>1, <2>2
<1>10. CASE StructsSucceed(t)
  <2>1. /\ pc'[t] = "finish" /\ queue_task'[t] /\ UNCHANGED <<imports, complete_types>>
        /\ task'[t].name = task[t].name /\ task'[t].imp = task[t].imp
    BY <1>1, <1>10 DEF StructsSucceed, Goto, importVars, resultVars, Task
  <2>2. LaidOut(task[t])
    BY <1>9, <1>10 DEF StructsSucceed, Success
  <2> QED
    BY <1>6, <2>1, <2>2, SameTask DEF Passed
<1>11. CASE StructsReport(t)
  <2>1. /\ UNCHANGED <<task, complete_types>> /\ pc'[t] = pc[t] /\ ~failure'[t] /\ i'[t] = 1
    BY <1>1, <1>11 DEF StructsReport, resultVars
  <2>2. \A j \in DOMAIN Structs(t) : ~(j < i'[t])
    BY <1>4, <2>1
  <2> QED
    BY <1>2, <1>5, <2>1, <2>2
<1>12. CASE StructsRetry(t)
  <2>1. /\ pc'[t] = "finish" /\ queue_task'[t] /\ UNCHANGED imports
        /\ task'[t].name = task[t].name /\ task'[t].imp = task[t].imp
        /\ task'[t].type = task[t].type
    BY <1>1, <1>12 DEF StructsRetry, Goto, importVars, Task
  <2> QED
    BY <1>2, <1>6, <2>1 DEF Passed
<1>13. CASE StructsDrop(t)
  <2>1. /\ pc'[t] = "finish" /\ UNCHANGED imports
        /\ task'[t].name = task[t].name /\ task'[t].imp = task[t].imp
        /\ task'[t].type = task[t].type
    BY <1>1, <1>13 DEF StructsDrop, Goto, importVars, Task
  <2>2. LaidOut(task[t])
    BY <1>2, <1>9, <1>13 DEF StructsDrop
  <2> QED
    BY <1>2, <1>6, <2>1, <2>2 DEF Passed
<1> QED
  BY <1>7, <1>8, <1>10, <1>11, <1>12, <1>13 DEF CheckStructs

LEMMA ChecksOK ==
    ASSUME TypeInv, ScopesInv, Extends, NEW t \in Thread, CheckAndGenerate(t), ThreadOK(t), ~errors'
    PROVE  ThreadOK(t)'
<1> USE DEF ThreadOK, WorkPc, LexPc, StructPc, FunctionPc, GenPc
<1>1. pc \in [Thread -> Pc] /\ task \in [Thread -> Task] /\ queue_task \in [Thread -> BOOLEAN]
  BY DEF TypeInv, TypeOK, LocalTypeOK
<1>2. /\ pc[t] \in {"functions", "gate", "globals", "gen_main", "gen_calls"} /\ ~errors
      /\ program' = program /\ imports' = imports
  BY DEF CheckAndGenerate, CheckFunctions, Gate, CheckGlobals, GenMain, GenCalls, At, Extends, importVars
<1>3. Named(task[t]) /\ task[t].imp # NoImport
  BY <1>2, InformedIsNamed DEF ScopesInv, ScopesOf, TypeInv, ImportKnown
<1>4. task'[t].name = task[t].name /\ task'[t].imp = task[t].imp
  <2>1. UNCHANGED task \/ task' = [task EXCEPT ![t].type = "TASK_GEN_FUNCTIONS"]
    BY DEF CheckAndGenerate, CheckFunctions, Gate, CheckGlobals, GenMain, GenCalls, localVars
  <2> QED
    BY <1>1, <2>1 DEF Task
<1>5. (Proper(task[t]) /\ Read(task[t]) /\ LaidOut(task[t]) /\ Named(task[t]))'
  <2>1. Proper(task[t]) /\ Read(task[t]) /\ LaidOut(task[t])
    BY <1>2
  <2>2. Named(task[t])'
    BY <1>2, <1>3, <1>4 DEF Named
  <2> QED
    BY <1>4, <2>1, <2>2, SameTask
<1>6. pc'[t] \in {"gate", "globals", "gen_main", "gen_calls", "finish"}
  BY <1>1, <1>2 DEF CheckAndGenerate, CheckFunctions, Gate, CheckGlobals, GenMain, GenCalls, At, Goto
<1>7. pc'[t] = "globals" => queue_task'[t]
  BY <1>1, <1>2 DEF CheckAndGenerate, CheckFunctions, Gate, CheckGlobals, GenMain, GenCalls, At, Goto, localVars
<1>8. Passed(task[t])'
  BY <1>5 DEF Passed
<1> QED
  BY <1>3, <1>4, <1>5, <1>6, <1>7, <1>8

-----------------------------------------------------------------------------
(***************************************************************************)
(* The queue.                                                              *)
(***************************************************************************)
\* Where the task that a step queues comes from.
Queued(t, y) ==
    \/ Finish(t) /\ queue_task[t] /\ y = task[t]
    \/ EnqueueDep(t) /\ y = LexTask(Imported(t)[i[t]], dep_imp[t])

LEMMA AppendedTask ==
    ASSUME TypeInv, NEW y \in Task, tasks' = Append(tasks, y)
    PROVE  /\ \A k \in DOMAIN tasks' : tasks'[k] = y \/ \E m \in DOMAIN tasks : tasks'[k] = tasks[m]
           /\ \A m \in DOMAIN tasks : \E k \in DOMAIN tasks' : tasks'[k] = tasks[m]
           /\ \E k \in DOMAIN tasks' : tasks'[k] = y
<1>1. tasks \in Seq(Task)
  BY DEF TypeInv, TypeOK, QueueTypeOK
<1>2. /\ DOMAIN tasks = 1 .. Len(tasks) /\ Len(tasks) \in Nat /\ DOMAIN tasks' = 1 .. Len(tasks) + 1
      /\ \A k \in 1 .. Len(tasks) : tasks'[k] = tasks[k]
      /\ tasks'[Len(tasks) + 1] = y
  BY <1>1, AppendProperties
<1>3. \A m \in DOMAIN tasks : m \in DOMAIN tasks' /\ tasks'[m] = tasks[m]
  BY <1>2
<1>4. Len(tasks) + 1 \in DOMAIN tasks'
  BY <1>2
<1>5. \A k \in DOMAIN tasks' : k \in DOMAIN tasks \/ k = Len(tasks) + 1
  BY <1>2
<1> QED
  BY <1>2, <1>3, <1>4, <1>5

\* Tasks are kept until a thread takes them, and none appears from nowhere.
LEMMA QueueSteps ==
    ASSUME TypeInv, NEW t \in Thread, ThreadStep(t)
    PROVE  /\ \A k \in DOMAIN tasks' :
                  Queued(t, tasks'[k]) \/ \E m \in DOMAIN tasks : tasks'[k] = tasks[m]
           /\ \A m \in DOMAIN tasks :
                  \/ \E k \in DOMAIN tasks' : tasks'[k] = tasks[m]
                  \/ TakeTask(t) /\ task'[t] = tasks[m] /\ pc'[t] = Entry[tasks[m].type]
           /\ \A y : Queued(t, y) => \E k \in DOMAIN tasks' : tasks'[k] = y
<1>1. tasks \in Seq(Task) /\ task \in [Thread -> Task] /\ pc \in [Thread -> Pc]
  BY DEF TypeInv, TypeOK, QueueTypeOK, LocalTypeOK
<1>2. CASE TakeTask(t)
  <2>1. PICK k \in DOMAIN tasks :
            tasks' = RemoveAt(tasks, k) /\ task' = [task EXCEPT ![t] = tasks[k]] /\ Goto(t, Entry[tasks[k].type])
    BY <1>2 DEF TakeTask, Erase
  <2>2. /\ DOMAIN tasks' = 1 .. Len(tasks) - 1
        /\ \A j \in 1 .. Len(tasks) - 1 : Shift(k, j) \in DOMAIN tasks /\ tasks'[j] = tasks[Shift(k, j)]
    BY <1>1, <2>1, EraseElements
  <2>3. ASSUME NEW m \in DOMAIN tasks, m # k PROVE \E j \in DOMAIN tasks' : tasks'[j] = tasks[m]
    <3>1. DOMAIN tasks = 1 .. Len(tasks) /\ Len(tasks) \in Nat
      BY <1>1
    <3>2. CASE m < k
      <4>1. m \in DOMAIN tasks' /\ Shift(k, m) = m
        BY <2>2, <3>1, <3>2 DEF Shift
      <4> QED
        BY <2>2, <4>1
    <3>3. CASE m > k
      <4>1. m - 1 \in DOMAIN tasks' /\ Shift(k, m - 1) = m
        BY <2>2, <3>1, <3>3 DEF Shift
      <4> QED
        BY <2>2, <4>1
    <3> QED
      BY <2>3, <3>1, <3>2, <3>3
  <2>4. task'[t] = tasks[k] /\ pc'[t] = Entry[tasks[k].type]
    BY <1>1, <2>1 DEF Goto
  <2>5. \A y : ~Queued(t, y)
    BY <1>2 DEF Queued, TakeTask, Finish, EnqueueDep, At
  <2> QED
    BY <1>2, <2>2, <2>3, <2>4, <2>5
<1>3. CASE Finish(t)
  <2>1. ~EnqueueDep(t) /\ ~TakeTask(t)
    BY <1>3 DEF TakeTask, Finish, EnqueueDep, At
  <2>2. CASE queue_task[t]
    <3>1. tasks' = Append(tasks, task[t]) /\ task[t] \in Task
      BY <1>1, <1>3, <2>2 DEF Finish
    <3> QED
      BY <1>3, <2>1, <2>2, <3>1, AppendedTask DEF Queued
  <2>3. CASE ~queue_task[t]
    BY <1>3, <2>1, <2>3 DEF Queued, Finish
  <2> QED
    BY <2>2, <2>3
<1>4. CASE EnqueueDep(t)
  <2>1. ~Finish(t) /\ ~TakeTask(t)
    BY <1>4 DEF TakeTask, Finish, EnqueueDep, At
  <2> DEFINE y == LexTask(Imported(t)[i[t]], dep_imp[t])
  <2>2. tasks' = Append(tasks, y)
    BY <1>4 DEF EnqueueDep
  <2>3. y \in Task
    <3>1. pc[t] = "enqueue"
      BY <1>4 DEF EnqueueDep, At
    <3>2. i[t] \in DOMAIN Imported(t) /\ dep_imp[t] \in ImportId \cup {NoImport}
      BY <3>1 DEF TypeInv, TypeOK, LocalTypeOK, IndexKnown
    <3>3. Imported(t)[i[t]] \in File
      BY <3>2, ImportedType DEF TypeInv
    <3> QED
      BY <3>2, <3>3 DEF Task, LexTask, TaskType
  <2> HIDE DEF y
  <2>4. \A z : Queued(t, z) <=> z = y
    BY <1>4, <2>1 DEF Queued, y
  <2> QED
    BY <2>2, <2>3, <2>4, AppendedTask
<1>5. CASE ~TakeTask(t) /\ ~Finish(t) /\ ~EnqueueDep(t)
  <2>1. UNCHANGED tasks
    <3>1. CASE ParseBegin(t) \/ CreateDep(t)
      BY <3>1 DEF ParseBegin, CreateDep, queueVars
    <3>2. CASE ~ParseBegin(t) /\ ~CreateDep(t)
      BY <1>5, <3>2, OthersAreQuiet DEF ThreadStep, Schedule, Quiet
    <3> QED
      BY <3>1, <3>2
  <2>2. \A y : ~Queued(t, y)
    BY <1>5 DEF Queued
  <2> QED
    BY <2>1, <2>2
<1> QED
  BY <1>2, <1>3, <1>4, <1>5

LEMMA QueueOK ==
    ASSUME TypeInv, DeliveryInv, Extends, NEW t \in Thread, ThreadStep(t), ThreadOK(t),
           \A k \in DOMAIN tasks : TaskOK(tasks[k]), NEW k \in DOMAIN tasks'
    PROVE  TaskOK(tasks[k])'
<1>1. ASSUME NEW y \in Task, TaskOK(y), tasks'[k] = y PROVE TaskOK(tasks[k])'
  <2>1. TaskOK(y)'
    BY <1>1, TaskKept DEF TaskOK
  <2> QED
    BY <1>1, <2>1 DEF TaskOK, Proper, First, Passed, LaidOut, Read
<1>2. ASSUME NEW m \in DOMAIN tasks, tasks'[k] = tasks[m] PROVE TaskOK(tasks[k])'
  <2>1. PICK y \in Task : y = tasks[m]
    BY DEF TypeInv, TypeOK, QueueTypeOK
  <2>2. TaskOK(y)
    BY <2>1
  <2> QED
    BY <1>1, <1>2, <2>1, <2>2
<1>3. CASE Queued(t, tasks'[k])
  <2>1. CASE Finish(t) /\ tasks'[k] = task[t]
    <3>1. PICK y \in Task : y = task[t]
      BY DEF TypeInv, TypeOK, LocalTypeOK
    <3>2. pc[t] = "finish"
      BY <2>1 DEF Finish, At
    <3>3. Proper(y) /\ Passed(y) /\ Read(y) /\ y.imp # NoImport
      BY <3>1, <3>2 DEF ThreadOK, WorkPc
    <3> QED
      BY <1>1, <2>1, <3>1, <3>3 DEF TaskOK, First
  <2>2. CASE EnqueueDep(t) /\ tasks'[k] = LexTask(Imported(t)[i[t]], dep_imp[t])
    <3>1. pc[t] = "enqueue"
      BY <2>2 DEF EnqueueDep, At
    <3>2. i[t] \in DOMAIN Imported(t) /\ dep_imp[t] \in ImportId /\ dep_imp[t] # NoImport
      BY <3>1 DEF TypeInv, TypeOK, LocalTypeOK, IndexKnown, ImportKnown
    <3>3. PICK f \in File : f = Imported(t)[i[t]]
      BY <3>2, ImportedType DEF TypeInv
    <3>4. imports[dep_imp[t]] = f /\ dep_imp[t] <= Len(imports)
      BY <3>1, <3>3 DEF DeliveryInv, BodyOf
    <3>5. PICK y \in Task : y = LexTask(f, dep_imp[t])
      BY <3>2 DEF LexTask, Task, TaskType
    <3>6. TaskOK(y)
      BY <3>2, <3>4, <3>5 DEF TaskOK, Proper, First, Passed, LexTask
    <3> QED
      BY <1>1, <2>2, <3>3, <3>5, <3>6
  <2> QED
    BY <1>3, <2>1, <2>2 DEF Queued
<1> QED
  BY <1>2, <1>3, QueueSteps

-----------------------------------------------------------------------------
(***************************************************************************)
(* No import is lost: it is worked on until it is complete.                *)
(***************************************************************************)
LEMMA CompleteStays ==
    ASSUME Extends, NEW id \in DOMAIN imports, ImportComplete(id)
    PROVE  ImportComplete(id)'
<1>1. imports'[id] = imports[id]
  BY DEF Extends
<1>2. Range(imports) \subseteq Range(imports')
  BY DEF Extends, Range
<1> QED
  BY <1>1, <1>2 DEF Extends, ImportComplete

\* A handler keeps the import of its task, until Finish gives the task back.
LEMMA HandlerKeepsImport ==
    ASSUME TypeInv, NEW t \in Thread, LexFile(t) \/ CheckStructs(t) \/ CheckAndGenerate(t), ~errors'
    PROVE  /\ pc[t] \in WorkPc /\ pc'[t] \in WorkPc
           /\ task[t].imp # NoImport => task'[t].imp = task[t].imp
<1>1. pc[t] \in WorkPc /\ pc'[t] \in WorkPc
  BY HandlersAreInternal DEF Internal, Working
<1>2. task \in [Thread -> Task]
  BY DEF TypeInv, TypeOK, LocalTypeOK
<1>3. task[t].imp # NoImport => task'[t].imp = task[t].imp
  <2>1. CASE LexFile(t)
    <3>1. CASE ParseBegin(t)
      BY <3>1 DEF ParseBegin
    <3>2. CASE ParseEnd(t)
      BY <3>2 DEF ParseEnd
    <3>3. CASE ~ParseBegin(t) /\ ~ParseEnd(t)
      BY <1>2, <2>1, <3>3 DEF LexFile, LexFailure, Fixups, FindImport, SkipRepeated, CreateDep, EnqueueDep,
                              AttachDep, LexDone, localVars, Task
    <3> QED
      BY <3>1, <3>2, <3>3
  <2>2. CASE CheckStructs(t)
    BY <1>2, <2>2 DEF CheckStructs, CreateStruct, CheckMembers, StructsSucceed, StructsReport, StructsRetry,
                      StructsDrop, Task
  <2>3. CASE CheckAndGenerate(t)
    BY <1>2, <2>3 DEF CheckAndGenerate, CheckFunctions, Gate, CheckGlobals, GenMain, GenCalls, localVars, Task
  <2> QED
    BY <2>1, <2>2, <2>3
<1> QED
  BY <1>1, <1>3

\* A thread that drops its task has completed its import.
LEMMA DroppedIsComplete ==
    ASSUME TypeInv, NEW t \in Thread, pc[t] = "finish", ~queue_task[t], ThreadOK(t)
    PROVE  ImportComplete(task[t].imp)
<1>1. /\ Proper(task[t]) /\ Read(task[t]) /\ LaidOut(task[t]) /\ Named(task[t])
      /\ task[t].imp # NoImport
  BY DEF ThreadOK, WorkPc
<1>2. imports[task[t].imp] = task[t].name
  BY <1>1 DEF Proper
<1> QED
  BY <1>1, <1>2 DEF ImportComplete, Read, LaidOut, Named

LEMMA NoImportIsLost ==
    ASSUME TypeInv, TypeInv', Extends, NEW t \in Thread, ThreadStep(t), ~errors',
           NEW id \in DOMAIN imports, Underway(id)
    PROVE  Underway(id)' \/ (Finish(t) /\ ~queue_task[t] /\ pc[t] = "finish" /\ task[t].imp = id)
<1>1. id \in ImportId
  <2>1. Len(imports) \in 1 .. MaxImports /\ id \in 1 .. Len(imports)
    BY DEF Extends, TypeInv, TypeOK, ImportTypeOK, ImportId
  <2> QED
    BY <2>1, MaxImportsAssumption DEF ImportId
<1>2. Local(t)
  BY StepIsLocal
<1>3. ASSUME NEW y, y.imp = id, \E k \in DOMAIN tasks' : tasks'[k] = y PROVE Underway(id)'
  BY <1>3 DEF Underway
<1>4. ASSUME NEW m \in DOMAIN tasks, tasks[m].imp = id PROVE Underway(id)'
  <2>1. CASE TakeTask(t) /\ task'[t] = tasks[m] /\ pc'[t] = Entry[tasks[m].type]
    <3>1. tasks[m] \in Task
      BY DEF TypeInv, TypeOK, QueueTypeOK
    <3>2. pc'[t] \in WorkPc
      BY <2>1, <3>1 DEF Entry, Task, TaskType, WorkPc, LexPc, StructPc, FunctionPc, GenPc
    <3> QED
      BY <1>1, <1>4, <2>1, <3>2 DEF Underway, Held
  <2> QED
    BY <1>3, <1>4, <2>1, QueueSteps
<1>5. ASSUME NEW u \in Thread \ {t}, id \in Held(u) PROVE Underway(id)'
  BY <1>2, <1>5, HeldApart DEF Underway, Local, Apart
<1>6. ASSUME pc[t] = "enqueue", dep_imp[t] = id PROVE Underway(id)'
  <2>1. CASE EnqueueDep(t)
    <3>1. PICK y : y = LexTask(Imported(t)[i[t]], dep_imp[t])
      OBVIOUS
    <3>2. y.imp = id /\ Queued(t, y)
      BY <1>6, <2>1, <3>1 DEF Queued, LexTask
    <3> QED
      BY <1>3, <3>2, QueueSteps
  <2>2. CASE ~EnqueueDep(t)
    BY <1>6, <2>2 DEF ThreadStep, Schedule, Wait, TakeTask, Quit, Idle, Finish, LexFile, LexFailure, ParseBegin,
                      ParseEnd, Fixups, FindImport, SkipRepeated, CreateDep, AttachDep, LexDone, CheckStructs,
                      CreateStruct, CheckMembers, StructsSucceed, StructsReport, StructsRetry, StructsDrop,
                      StructsChecked, CheckAndGenerate, CheckFunctions, Gate, CheckGlobals, GenMain, GenCalls, At
  <2> QED
    BY <2>1, <2>2
<1>7. ASSUME pc[t] \in WorkPc, task[t].imp = id PROVE Underway(id)' \/ (Finish(t) /\ ~queue_task[t] /\ pc[t] = "finish")
  <2>0. id # NoImport
    BY <1>1 DEF ImportId, NoImport
  <2>1. CASE Schedule(t)
    <3>1. Finish(t) /\ pc[t] = "finish"
      BY <1>7, <2>1 DEF Schedule, Wait, TakeTask, Quit, Idle, Finish, At, WorkPc, LexPc, StructPc, FunctionPc, GenPc
    <3>2. CASE queue_task[t]
      <4>1. Queued(t, task[t])
        BY <3>1, <3>2 DEF Queued
      <4> QED
        BY <1>3, <1>7, <4>1, QueueSteps
    <3>3. CASE ~queue_task[t]
      BY <3>1, <3>3
    <3> QED
      BY <3>2, <3>3
  <2>2. CASE LexFile(t) \/ CheckStructs(t) \/ CheckAndGenerate(t)
    <3>1. pc'[t] \in WorkPc /\ task'[t].imp = id
      BY <1>7, <2>0, <2>2, HandlerKeepsImport
    <3> QED
      BY <1>1, <3>1 DEF Underway, Held
  <2> QED
    BY <2>1, <2>2 DEF ThreadStep
<1> QED
  BY <1>4, <1>5, <1>6, <1>7 DEF Underway, Held

\* An import that a step creates is with the thread that creates it.
LEMMA NewIsUnderway ==
    ASSUME TypeInv, TypeInv', Extends, NEW t \in Thread, ThreadStep(t), NEW id \in DOMAIN imports', id \notin DOMAIN imports
    PROVE  Underway(id)'
<1>1. imports \in Seq(File) /\ pc \in [Thread -> Pc] /\ task \in [Thread -> Task] /\ dep_imp \in [Thread -> ImportId \cup {NoImport}]
  BY DEF TypeInv, TypeOK, ImportTypeOK, LocalTypeOK
<1>2. ASSUME NEW f \in File, NEW n \in ImportId, CreateImport(f, n) PROVE n = id
  <2>1. n = Len(imports) + 1 /\ imports' = Append(imports, f)
    BY <1>2 DEF CreateImport
  <2>2. DOMAIN imports' = 1 .. Len(imports) + 1 /\ DOMAIN imports = 1 .. Len(imports)
    BY <1>1, <2>1, AppendProperties
  <2> QED
    BY <2>1, <2>2
<1>3. CASE CreateDep(t)
  <2>1. PICK n \in ImportId : CreateImport(Imported(t)[i[t]], n) /\ dep_imp' = [dep_imp EXCEPT ![t] = n]
    BY <1>3 DEF CreateDep
  <2>2. pc[t] = "create" /\ pc'[t] = "enqueue" /\ dep_imp'[t] = n
    BY <1>1, <1>3, <2>1 DEF CreateDep, At, Goto
  <2>3. Imported(t)[i[t]] \in File
    BY <2>2, ImportedType DEF TypeInv, IndexKnown
  <2>4. n = id
    BY <1>2, <2>1, <2>3
  <2> QED
    BY <2>2, <2>4 DEF Underway, Held
<1>4. CASE ParseBegin(t)
  <2>1. CASE task[t].imp = NoImport
    <3>1. PICK n \in ImportId : CreateImport(task[t].name, n) /\ task' = [task EXCEPT ![t].imp = n]
      BY <1>4, <2>1 DEF ParseBegin
    <3>2. pc'[t] = "body" /\ task'[t].imp = n
      BY <1>1, <1>4, <3>1 DEF ParseBegin, Goto, Task
    <3>3. n = id
      BY <1>2, <3>1, ImportedType DEF TypeInv
    <3> QED
      BY <3>2, <3>3 DEF Underway, Held, WorkPc, LexPc
  <2>2. CASE task[t].imp # NoImport
    BY <1>4, <2>2 DEF ParseBegin
  <2> QED
    BY <2>1, <2>2
<1>5. CASE ~CreateDep(t) /\ ~ParseBegin(t)
  <2>1. CASE TakeTask(t) \/ Finish(t) \/ EnqueueDep(t)
    BY <2>1 DEF TakeTask, Finish, EnqueueDep, importVars
  <2>2. CASE ~(TakeTask(t) \/ Finish(t) \/ EnqueueDep(t))
    BY <1>5, <2>2, OthersAreQuiet DEF ThreadStep, Schedule, Quiet
  <2> QED
    BY <2>1, <2>2
<1> QED
  BY <1>3, <1>4, <1>5

\* The task of the initial file, until it has an import.
LEMMA MainIsNotLost ==
    ASSUME TypeInv, Extends, NEW t \in Thread, ThreadStep(t), ThreadOK(t), ~errors', MainUnderway
    PROVE  Main \in Range(imports') \/ MainUnderway'
<1>1. Local(t)
  BY StepIsLocal
<1>2. ASSUME NEW m \in DOMAIN tasks, tasks[m].imp = NoImport PROVE MainUnderway'
  <2>1. CASE TakeTask(t) /\ task'[t] = tasks[m] /\ pc'[t] = Entry[tasks[m].type]
    <3>1. tasks[m].type = "TASK_LEX_FILE"
      BY <1>2 DEF TypeInv, ImportKnown
    <3>2. pc'[t] = "lex"
      BY <2>1, <3>1 DEF Entry, TaskType
    <3> QED
      BY <1>2, <2>1, <3>2 DEF MainUnderway
  <2> QED
    BY <1>2, <2>1, QueueSteps DEF MainUnderway
<1>3. ASSUME NEW u \in Thread \ {t}, pc[u] = "lex", task[u].imp = NoImport PROVE MainUnderway'
  BY <1>1, <1>3 DEF Local, MainUnderway
<1>4. ASSUME pc[t] = "lex", task[t].imp = NoImport PROVE Main \in Range(imports')
  <2>1. ParseBegin(t)
    BY <1>4 DEF ThreadStep, Schedule, Wait, TakeTask, Quit, Idle, Finish, LexFile, LexFailure,
                ParseEnd, Fixups, FindImport, SkipRepeated, CreateDep, EnqueueDep, AttachDep, LexDone, CheckStructs,
                CreateStruct, CheckMembers, StructsSucceed, StructsReport, StructsRetry, StructsDrop,
                StructsChecked, CheckAndGenerate, CheckFunctions, Gate, CheckGlobals, GenMain, GenCalls, At
  <2>2. task[t].name = Main /\ Main \in File
    BY <1>4, FileAssumption DEF ThreadOK, First
  <2>3. PICK n \in ImportId : n = Len(imports) + 1 /\ imports' = Append(imports, Main)
    BY <1>4, <2>1, <2>2 DEF ParseBegin, CreateImport
  <2>4. imports'[n] = Main /\ n \in DOMAIN imports'
    BY <2>2, <2>3, AppendProperties DEF TypeInv, TypeOK, ImportTypeOK
  <2> QED
    BY <2>4 DEF Range
<1> QED
  BY <1>2, <1>3, <1>4 DEF MainUnderway

-----------------------------------------------------------------------------
LEMMA ResultStep ==
    ASSUME TypeInv, TypeInv', DeliveryInv, ScopesInv, ScopesInv', ResultInv, NEW t \in Thread, ThreadStep(t)
    PROVE  ResultInv'
<1> SUFFICES ASSUME ~errors'
             PROVE  /\ \A k \in DOMAIN tasks' : TaskOK(tasks[k])'
                    /\ \A u \in Thread : ThreadOK(u)'
                    /\ \A id \in DOMAIN imports' : Underway(id)' \/ ImportComplete(id)'
                    /\ Main \in Range(imports') \/ MainUnderway'
  BY DEF ResultInv
<1>1. Extends /\ AttemptsKept(t) /\ Local(t)
  BY StepExtends, StepIsLocal
<1>2. /\ \A k \in DOMAIN tasks : TaskOK(tasks[k])
      /\ \A u \in Thread : ThreadOK(u)
      /\ \A id \in DOMAIN imports : Underway(id) \/ ImportComplete(id)
      /\ Main \in Range(imports) \/ MainUnderway
  BY <1>1 DEF ResultInv, Extends
<1>3. \A k \in DOMAIN tasks' : TaskOK(tasks[k])'
  BY <1>1, <1>2, QueueOK
<1>4. ASSUME NEW u \in Thread PROVE ThreadOK(u)'
  <2>1. CASE u = t
    BY <1>1, <1>2, <2>1, SchedulerOK, LexerOK, StructsOK, ChecksOK DEF ThreadStep
  <2>2. CASE u # t
    BY <1>1, <1>2, <2>2, OthersOK
  <2> QED
    BY <2>1, <2>2
<1>5. ASSUME NEW id \in DOMAIN imports' PROVE Underway(id)' \/ ImportComplete(id)'
  <2>1. CASE id \in DOMAIN imports
    BY <1>1, <1>2, <2>1, CompleteStays, NoImportIsLost, DroppedIsComplete
  <2>2. CASE id \notin DOMAIN imports
    BY <1>1, <2>2, NewIsUnderway
  <2> QED
    BY <2>1, <2>2
<1>6. Main \in Range(imports') \/ MainUnderway'
  <2>1. CASE Main \in Range(imports)
    BY <1>1, <2>1 DEF Extends, Range
  <2>2. CASE MainUnderway
    BY <1>1, <1>2, <2>2, MainIsNotLost
  <2> QED
    BY <1>2, <2>1, <2>2
<1> QED
  BY <1>3, <1>4, <1>5, <1>6

LEMMA InitResult == Init => ResultInv
<1> SUFFICES ASSUME Init PROVE ResultInv
  OBVIOUS
<1>1. /\ tasks = <<PreloadTask, LexTask(Main, NoImport)>> /\ imports = <<Preload>>
      /\ DOMAIN tasks = 1 .. 2 /\ DOMAIN imports = {1}
  BY DEF Init
<1>2. ASSUME NEW k \in DOMAIN tasks PROVE TaskOK(tasks[k])
  <2>1. CASE tasks[k] = PreloadTask
    <3>1. program.outcome[Preload] = "ok"
      BY ProgramsAssumption DEF Init
    <3> QED
      BY <1>1, <2>1, <3>1 DEF TaskOK, Proper, First, Passed, Read, PreloadTask, NoImport
  <2>2. CASE tasks[k] = LexTask(Main, NoImport)
    BY <2>2 DEF TaskOK, Proper, First, Passed, LexTask
  <2> QED
    BY <1>1, <2>1, <2>2
<1>3. ASSUME NEW t \in Thread PROVE ThreadOK(t)
  BY DEF Init, ThreadOK, WorkPc, LexPc, StructPc, FunctionPc, GenPc
<1>4. ASSUME NEW id \in DOMAIN imports PROVE Underway(id)
  <2>1. tasks[1].imp = id
    BY <1>1 DEF PreloadTask
  <2> QED
    BY <1>1, <2>1 DEF Underway
<1>5. MainUnderway
  <2>1. tasks[2].imp = NoImport
    BY <1>1 DEF LexTask
  <2> QED
    BY <1>1, <2>1 DEF MainUnderway
<1> QED
  BY <1>2, <1>3, <1>4, <1>5 DEF ResultInv

LEMMA StutterResult == ResultInv /\ UNCHANGED vars => ResultInv'
<1> SUFFICES ASSUME ResultInv, UNCHANGED vars PROVE ResultInv'
  OBVIOUS
<1>1. UNCHANGED <<program, tasks, imports, complete_types, errors, pc, task, dep_imp, i, queue_task, failure,
                  ignore_errors>>
  BY DEF vars, queueVars, importVars, resultVars, localVars
<1>2. \A t \in Thread : ThreadOK(t)' <=> ThreadOK(t)
  BY <1>1 DEF ThreadOK, Proper, First, Read, LaidOut, Named, Passed, Structs
<1>3. \A k \in DOMAIN tasks : TaskOK(tasks[k])' <=> TaskOK(tasks[k])
  BY <1>1 DEF TaskOK, Proper, First, Read, LaidOut, Passed
<1>4. \A id \in DOMAIN imports : (Underway(id)' <=> Underway(id)) /\ (ImportComplete(id)' <=> ImportComplete(id))
  BY <1>1 DEF Underway, Held, ImportComplete
<1>5. MainUnderway' <=> MainUnderway
  BY <1>1 DEF MainUnderway
<1> QED
  BY <1>1, <1>2, <1>3, <1>4, <1>5 DEF ResultInv

LEMMA ResultHolds == Spec => []ResultInv
<1>1. Init => ResultInv
  BY InitResult
<1>2. TypeInv /\ TypeInv' /\ ImportsInv /\ ImportsInv' /\ ResultInv /\ [Next]_vars => ResultInv'
  BY ResultStep, StutterResult DEF ImportsInv, Next, Terminated
<1>3. IInv => TypeInv
  BY DEF IInv
<1> QED
  BY <1>1, <1>2, <1>3, Invariance, ImportsHold, PTL DEF Spec

\* A program is accepted only if its initial file and every file that is named from there
\* was read and parsed, and each struct of them got its layout: whichever thread met an
\* error, however the threads overtake each other, it is not lost.
THEOREM AcceptedProgramsAreComplete == Spec => []AcceptedIsComplete
<1>1. IInv /\ ImportsInv /\ StuckMeansError /\ ResultInv => AcceptedIsComplete
  <2> SUFFICES ASSUME StuckMeansError, ResultInv, AllDone, ~errors
               PROVE  Main \in Range(imports) /\ \A id \in DOMAIN imports : ImportComplete(id)
    BY DEF AcceptedIsComplete, Accepted
  <2>1. tasks = << >>
    BY DEF StuckMeansError
  <2>2. \A t \in Thread : pc[t] = "done"
    BY DEF AllDone
  <2>3. ~MainUnderway /\ \A id : ~Underway(id)
    BY <2>1, <2>2 DEF MainUnderway, Underway, Held, WorkPc, LexPc, StructPc, FunctionPc, GenPc
  <2> QED
    BY <2>3 DEF ResultInv
<1> QED
  BY <1>1, Invariance, ImportsHold, StuckTasksMeanError, ResultHolds, PTL

-----------------------------------------------------------------------------
(***************************************************************************)
(* A single thread.                                                        *)
(***************************************************************************)
Lone(t) == Thread = {t}

-----------------------------------------------------------------------------
(***************************************************************************)
(* A file is one import object.                                            *)
(***************************************************************************)
\* The map has the one import of a name.
MapExact == \A j \in DOMAIN imports : import_map[imports[j]] = j

\* The import that was not found is still not there.
StillMissing(t) == pc[t] = "create" => import_map[Imported(t)[i[t]]] = NoImport

\* There is one task without an import, that of the initial file.
NullOnce(t) ==
    /\ \A k \in DOMAIN tasks : First(tasks[k])
    /\ pc[t] = "lex" => First(task[t])
    /\ \A k, l \in DOMAIN tasks : tasks[k].imp = NoImport /\ tasks[l].imp = NoImport => k = l
    /\ pc[t] = "lex" /\ task[t].imp = NoImport => \A k \in DOMAIN tasks : tasks[k].imp # NoImport

\* Nothing is imported before the initial file.
MainFirst(t) ==
    MainUnderway =>
        /\ imports = <<Preload>>
        /\ pc[t] \in LexPc => pc[t] = "lex" /\ task[t].imp = NoImport
        /\ \A k \in DOMAIN tasks : tasks[k].type = "TASK_LEX_FILE" => tasks[k].imp = NoImport

MapInv(t) == MapExact /\ StillMissing(t) /\ NullOnce(t) /\ MainFirst(t)

\* A step that creates, takes and queues nothing.
LEMMA MapCalm ==
    ASSUME TypeInv, NEW t \in Thread, Lone(t), MapInv(t), UNCHANGED <<program, tasks, imports, import_map>>,
           pc'[t] = "lex" => pc[t] = "lex" /\ task'[t] = task[t],
           pc'[t] \in LexPc \ {"lex"} => pc[t] \in LexPc \ {"lex"},
           StillMissing(t)'
    PROVE  MapInv(t)'
<1>1. MapExact' /\ NullOnce(t)'
  BY DEF MapInv, MapExact, NullOnce, First
<1>2. MainFirst(t)'
  <2> SUFFICES ASSUME MainUnderway'
               PROVE  /\ imports = <<Preload>>
                      /\ pc'[t] \in LexPc => pc'[t] = "lex" /\ task'[t].imp = NoImport
                      /\ \A k \in DOMAIN tasks : tasks[k].type = "TASK_LEX_FILE" => tasks[k].imp = NoImport
    BY DEF MainFirst
  <2>1. MainUnderway
    BY DEF MainUnderway, Lone
  <2> QED
    BY <2>1 DEF MapInv, MainFirst
<1> QED
  BY <1>1, <1>2 DEF MapInv

LEMMA TakeTaskMap ==
    ASSUME TypeInv, NEW t \in Thread, Lone(t), MapInv(t), TakeTask(t)
    PROVE  MapInv(t)'
<1>1. PICK k \in DOMAIN tasks :
          tasks' = RemoveAt(tasks, k) /\ task' = [task EXCEPT ![t] = tasks[k]] /\ Goto(t, Entry[tasks[k].type])
  BY DEF TakeTask, Erase
<1>2. tasks \in Seq(Task) /\ tasks[k] \in Task /\ task \in [Thread -> Task] /\ pc \in [Thread -> Pc]
  BY DEF TypeInv, TypeOK, QueueTypeOK, LocalTypeOK
<1>3. /\ UNCHANGED <<program, imports, import_map>> /\ pc[t] = "select"
      /\ task'[t] = tasks[k] /\ pc'[t] = Entry[tasks[k].type]
  BY <1>1, <1>2 DEF TakeTask, importVars, At, Goto
<1>4. /\ DOMAIN tasks' = 1 .. Len(tasks) - 1 /\ DOMAIN tasks = 1 .. Len(tasks) /\ Len(tasks) \in Nat
      /\ \A j \in 1 .. Len(tasks) - 1 : Shift(k, j) \in DOMAIN tasks /\ tasks'[j] = tasks[Shift(k, j)]
  <2>1. DOMAIN tasks = 1 .. Len(tasks) /\ Len(tasks) \in Nat
    BY <1>2
  <2>2. /\ DOMAIN tasks' = 1 .. Len(tasks) - 1
        /\ \A j \in 1 .. Len(tasks) - 1 : Shift(k, j) \in DOMAIN tasks /\ tasks'[j] = tasks[Shift(k, j)]
    BY <1>1, <1>2, EraseElements
  <2> QED
    BY <2>1, <2>2
<1>5. \A j \in DOMAIN tasks' : Shift(k, j) # k /\ \A l \in DOMAIN tasks' : Shift(k, j) = Shift(k, l) => j = l
  BY <1>2, <1>4 DEF Shift
<1>6. /\ pc'[t] \in LexPc => pc'[t] = "lex" /\ tasks[k].type = "TASK_LEX_FILE"
      /\ pc'[t] # "create"
  BY <1>2, <1>3 DEF Entry, Task, TaskType, LexPc
<1>7. MapExact' /\ StillMissing(t)'
  BY <1>3, <1>6 DEF MapInv, MapExact, StillMissing
<1>8. NullOnce(t)'
  <2>1. \A j \in DOMAIN tasks' : First(tasks[j])'
    BY <1>4 DEF MapInv, NullOnce, First
  <2>2. pc'[t] = "lex" => First(task[t])'
    BY <1>3 DEF MapInv, NullOnce, First
  <2>3. \A j, l \in DOMAIN tasks' : tasks'[j].imp = NoImport /\ tasks'[l].imp = NoImport => j = l
    BY <1>4, <1>5 DEF MapInv, NullOnce
  <2>4. task'[t].imp = NoImport => \A j \in DOMAIN tasks' : tasks'[j].imp # NoImport
    BY <1>3, <1>4, <1>5 DEF MapInv, NullOnce
  <2> QED
    BY <2>1, <2>2, <2>3, <2>4 DEF NullOnce
<1>9. MainFirst(t)'
  <2> SUFFICES ASSUME MainUnderway'
               PROVE  /\ imports = <<Preload>>
                      /\ pc'[t] \in LexPc => pc'[t] = "lex" /\ task'[t].imp = NoImport
                      /\ \A j \in DOMAIN tasks' : tasks'[j].type = "TASK_LEX_FILE" => tasks'[j].imp = NoImport
    BY <1>3 DEF MainFirst
  <2>1. MainUnderway
    <3>1. CASE \E j \in DOMAIN tasks' : tasks'[j].imp = NoImport
      BY <1>4, <3>1 DEF MainUnderway
    <3>2. CASE task'[t].imp = NoImport
      BY <1>3, <3>2 DEF MainUnderway
    <3> QED
      BY <3>1, <3>2 DEF MainUnderway, Lone
  <2> QED
    BY <1>3, <1>4, <1>6, <2>1 DEF MapInv, MainFirst
<1> QED
  BY <1>7, <1>8, <1>9 DEF MapInv

\* A step that queues a task with an import.
LEMMA MapQueues ==
    ASSUME TypeInv, NEW t \in Thread, Lone(t), MapInv(t), UNCHANGED <<program, imports, import_map>>,
           NEW y \in Task, tasks' = Append(tasks, y), y.imp # NoImport,
           y.type = "TASK_LEX_FILE" => pc[t] \in LexPc \ {"lex"},
           pc'[t] \in {"wait", "find"}, pc'[t] = "find" => pc[t] \in LexPc \ {"lex"}
    PROVE  MapInv(t)'
<1>1. tasks \in Seq(Task)
  BY DEF TypeInv, TypeOK, QueueTypeOK
<1>2. /\ DOMAIN tasks = 1 .. Len(tasks) /\ Len(tasks) \in Nat /\ DOMAIN tasks' = 1 .. Len(tasks) + 1
      /\ \A k \in 1 .. Len(tasks) : tasks'[k] = tasks[k]
      /\ tasks'[Len(tasks) + 1] = y
  BY <1>1, AppendProperties
<1>3. \A k \in DOMAIN tasks' : tasks'[k] = y \/ (k \in DOMAIN tasks /\ tasks'[k] = tasks[k])
  BY <1>2
<1>4. MapExact' /\ StillMissing(t)'
  BY DEF MapInv, MapExact, StillMissing
<1>5. NullOnce(t)'
  BY <1>3 DEF MapInv, NullOnce, First
<1>6. MainFirst(t)'
  <2> SUFFICES ASSUME MainUnderway'
               PROVE  /\ imports = <<Preload>>
                      /\ pc'[t] \in LexPc => pc'[t] = "lex" /\ task'[t].imp = NoImport
                      /\ \A k \in DOMAIN tasks' : tasks'[k].type = "TASK_LEX_FILE" => tasks'[k].imp = NoImport
    BY DEF MainFirst
  <2>1. MainUnderway
    BY <1>3 DEF MainUnderway, Lone
  <2> QED
    BY <1>3, <2>1 DEF MapInv, MainFirst, LexPc
<1> QED
  BY <1>4, <1>5, <1>6 DEF MapInv

\* A step that creates the import of a name that has none.
LEMMA MapCreates ==
    ASSUME TypeInv, DeliveryInv, ScopesInv, MapExact, NEW f \in File, NEW id \in ImportId, CreateImport(f, id),
           import_map[f] = NoImport
    PROVE  MapExact'
<1>1. imports \in Seq(File) /\ import_map \in [File -> ImportId \cup {NoImport}]
  BY DEF TypeInv, TypeOK, ImportTypeOK
<1>2. id = Len(imports) + 1 /\ imports' = Append(imports, f) /\ import_map' = [import_map EXCEPT ![f] = id]
  BY DEF CreateImport
<1>3. /\ DOMAIN imports = 1 .. Len(imports) /\ DOMAIN imports' = 1 .. Len(imports) + 1
      /\ imports'[id] = f /\ \A j \in 1 .. Len(imports) : imports'[j] = imports[j] /\ imports[j] \in File
  BY <1>1, <1>2, AppendProperties
<1> SUFFICES ASSUME NEW j \in DOMAIN imports' PROVE import_map'[imports'[j]] = j
  BY DEF MapExact
<1>4. CASE j = id
  BY <1>1, <1>2, <1>3, <1>4
<1>5. CASE j # id
  <2>1. j \in DOMAIN imports /\ imports'[j] = imports[j] /\ imports[j] \in File
    BY <1>1, <1>2, <1>3, <1>5
  <2>2. import_map[imports[j]] = j /\ j # NoImport
    BY <1>3, <2>1 DEF MapExact, NoImport
  <2>3. imports[j] # f
    BY <2>2
  <2> QED
    BY <1>1, <1>2, <2>1, <2>2, <2>3
<1> QED
  BY <1>4, <1>5

LEMMA CreateDepMap ==
    ASSUME TypeInv, DeliveryInv, ScopesInv, NEW t \in Thread, Lone(t), MapInv(t), CreateDep(t)
    PROVE  MapInv(t)'
<1>1. /\ pc[t] = "create" /\ pc'[t] = "enqueue" /\ UNCHANGED <<program, tasks, task>>
  BY DEF CreateDep, At, Goto, queueVars, TypeInv, TypeOK, LocalTypeOK
<1>2. PICK f \in File : f = Imported(t)[i[t]]
  BY <1>1, ImportedType DEF TypeInv, IndexKnown
<1>3. MapExact'
  BY <1>1, <1>2, MapCreates DEF CreateDep, MapInv, StillMissing
<1>4. StillMissing(t)' /\ NullOnce(t)'
  BY <1>1 DEF MapInv, StillMissing, NullOnce, First
<1>5. ~MainUnderway'
  BY <1>1 DEF MapInv, MainFirst, MainUnderway, Lone, LexPc
<1> QED
  BY <1>3, <1>4, <1>5 DEF MapInv, MainFirst

LEMMA ParseBeginMap ==
    ASSUME TypeInv, DeliveryInv, ScopesInv, NEW t \in Thread, Lone(t), MapInv(t), ParseBegin(t)
    PROVE  MapInv(t)'
<1>1. /\ pc[t] = "lex" /\ pc'[t] = "body" /\ UNCHANGED <<program, tasks>>
  BY DEF ParseBegin, At, Goto, queueVars, TypeInv, TypeOK, LocalTypeOK
<1>2. StillMissing(t)' /\ NullOnce(t)'
  BY <1>1 DEF MapInv, StillMissing, NullOnce, First
<1>3. ~MainUnderway'
  BY <1>1 DEF MapInv, MainFirst, NullOnce, MainUnderway, Lone, LexPc
<1>4. MapExact'
  <2>1. CASE task[t].imp # NoImport
    BY <2>1 DEF ParseBegin, MapInv, MapExact
  <2>2. CASE task[t].imp = NoImport
    <3>1. task[t].name = Main /\ Main \in File
      BY <1>1, <2>2, FileAssumption DEF MapInv, NullOnce, First
    <3>2. imports = <<Preload>>
      BY <1>1, <2>2 DEF MapInv, MainFirst, MainUnderway
    <3>3. import_map[Main] = NoImport
      <4> SUFFICES ASSUME import_map[Main] # NoImport PROVE FALSE
        OBVIOUS
      <4>1. imports[import_map[Main]] = Main /\ import_map[Main] <= Len(imports)
        BY <3>1 DEF ScopesInv, DeliveryInv, KnownInv
      <4>2. import_map[Main] \in ImportId
        BY <3>1 DEF TypeInv, TypeOK, ImportTypeOK
      <4>3. import_map[Main] = 1
        BY <3>2, <4>1, <4>2, MaxImportsAssumption DEF ImportId
      <4> QED
        BY <3>2, <4>1, <4>3, FileAssumption
    <3>4. PICK id \in ImportId : CreateImport(Main, id)
      BY <2>2, <3>1 DEF ParseBegin
    <3> QED
      BY <3>1, <3>3, <3>4, MapCreates DEF MapInv
  <2> QED
    BY <2>1, <2>2
<1> QED
  BY <1>2, <1>3, <1>4 DEF MapInv, MainFirst

LEMMA MapStep ==
    ASSUME TypeInv, PhaseInv, DeliveryInv, ScopesInv, NEW t \in Thread, Lone(t), MapInv(t), ThreadStep(t)
    PROVE  MapInv(t)'
<1>1. pc \in [Thread -> Pc] /\ task \in [Thread -> Task]
  BY DEF TypeInv, TypeOK, LocalTypeOK
<1>2. CASE Wait(t) \/ Quit(t) \/ Idle(t)
  <2>1. UNCHANGED <<program, tasks, imports, import_map>> /\ pc'[t] \in {"wait", "select", "done"}
    BY <1>1, <1>2 DEF Wait, Quit, Idle, Goto, importVars
  <2> QED
    BY <2>1, MapCalm DEF LexPc, StillMissing
<1>3. CASE Finish(t)
  <2>1. UNCHANGED <<program, imports, import_map>> /\ pc'[t] = "wait"
    BY <1>1, <1>3 DEF Finish, Goto, importVars
  <2>2. CASE queue_task[t]
    <3>1. task[t].imp # NoImport /\ task[t].type # "TASK_LEX_FILE" /\ tasks' = Append(tasks, task[t])
      BY <1>3, <2>2 DEF Finish, PhaseInv, TypeInv, ImportKnown
    <3> QED
      BY <1>1, <2>1, <3>1, MapQueues
  <2>3. CASE ~queue_task[t]
    BY <1>3, <2>1, <2>3, MapCalm DEF Finish, LexPc, StillMissing
  <2> QED
    BY <2>2, <2>3
<1>4. CASE EnqueueDep(t)
  <2>1. /\ UNCHANGED <<program, imports, import_map>> /\ pc'[t] = "find" /\ pc[t] = "enqueue"
        /\ tasks' = Append(tasks, LexTask(Imported(t)[i[t]], dep_imp[t]))
    BY <1>1, <1>4 DEF EnqueueDep, At, Goto
  <2>2. dep_imp[t] \in ImportId /\ dep_imp[t] # NoImport /\ Imported(t)[i[t]] \in File
    BY <2>1, ImportedType DEF TypeInv, TypeOK, LocalTypeOK, ImportKnown, IndexKnown
  <2>3. PICK y \in Task : y = LexTask(Imported(t)[i[t]], dep_imp[t])
    BY <2>2 DEF LexTask, Task, TaskType
  <2>4. y.imp # NoImport
    BY <2>2, <2>3 DEF LexTask
  <2> QED
    BY <2>1, <2>3, <2>4, MapQueues DEF LexPc
<1>5. CASE LexFile(t) /\ ~ParseBegin(t) /\ ~CreateDep(t) /\ ~EnqueueDep(t)
  <2>1. UNCHANGED <<program, tasks, imports, import_map>>
    BY <1>5 DEF LexFile, LexFailure, ParseEnd, Fixups, FindImport, SkipRepeated, AttachDep, LexDone,
                importVars, queueVars
  <2>2. CASE LexFailure(t)
    BY <1>1, <2>1, <2>2, MapCalm DEF LexFailure, Goto, LexPc, StillMissing
  <2>3. CASE ParseEnd(t) \/ Fixups(t) \/ SkipRepeated(t) \/ AttachDep(t) \/ LexDone(t)
    <3>1. pc[t] \in {"body", "fixups", "find", "attach"} /\ pc'[t] \in {"fixups", "find", "finish"}
      BY <1>1, <2>3 DEF ParseEnd, Fixups, SkipRepeated, AttachDep, LexDone, At, Goto
    <3> QED
      BY <2>1, <3>1, MapCalm DEF LexPc, StillMissing
  <2>4. CASE FindImport(t)
    <3>1. /\ pc[t] = "find" /\ UNCHANGED <<task, i>>
          /\ dep_imp'[t] = import_map[Imported(t)[i[t]]] /\ pc'[t] = AfterFind(dep_imp'[t])
      BY <1>1, <2>4 DEF FindImport, At, Goto, TypeInv, TypeOK, LocalTypeOK
    <3>2. StillMissing(t)'
      BY <2>1, <3>1 DEF StillMissing, AfterFind, Imported
    <3> QED
      BY <2>1, <3>1, <3>2, MapCalm DEF LexPc, AfterFind
  <2> QED
    BY <1>5, <2>2, <2>3, <2>4 DEF LexFile
<1>6. CASE CheckStructs(t)
  <2>1. UNCHANGED <<program, tasks, imports, import_map>>
    BY <1>6 DEF CheckStructs, CreateStruct, CheckMembers, StructsSucceed, StructsReport, StructsRetry,
                StructsDrop, importVars, queueVars
  <2>2. pc'[t] \in {"struct", "members", "finish"}
    BY <1>1, <1>6 DEF CheckStructs, CreateStruct, CheckMembers, StructsSucceed, StructsReport, StructsRetry,
                      StructsDrop, StructsChecked, At, Goto
  <2> QED
    BY <2>1, <2>2, MapCalm DEF LexPc, StillMissing
<1>7. CASE CheckAndGenerate(t)
  <2>1. UNCHANGED <<program, tasks, imports, import_map>>
    BY <1>7 DEF CheckAndGenerate, CheckFunctions, Gate, CheckGlobals, GenMain, GenCalls, importVars, queueVars
  <2>2. pc'[t] \in {"gate", "globals", "gen_main", "gen_calls", "finish"}
    BY <1>1, <1>7 DEF CheckAndGenerate, CheckFunctions, Gate, CheckGlobals, GenMain, GenCalls, At, Goto
  <2> QED
    BY <2>1, <2>2, MapCalm DEF LexPc, StillMissing
<1> QED
  BY <1>2, <1>3, <1>4, <1>5, <1>6, <1>7, TakeTaskMap, CreateDepMap, ParseBeginMap DEF ThreadStep, Schedule, LexFile

LEMMA MapHolds ==
    ASSUME NEW t \in Thread, Lone(t)
    PROVE  Spec => []MapInv(t)
<1>1. Init => MapInv(t)
  <2> SUFFICES ASSUME Init PROVE MapInv(t)
    OBVIOUS
  <2>1. /\ tasks = <<PreloadTask, LexTask(Main, NoImport)>> /\ imports = <<Preload>> /\ pc[t] = "wait"
        /\ DOMAIN tasks = 1 .. 2 /\ DOMAIN imports = {1} /\ import_map[Preload] = 1
    BY FileAssumption DEF Init
  <2>2. /\ tasks[1].imp = 1 /\ tasks[1].type = "TASK_CHECK_STRUCTS"
        /\ tasks[2].imp = NoImport /\ tasks[2].name = Main
    BY <2>1 DEF PreloadTask, LexTask
  <2> QED
    BY <2>1, <2>2 DEF MapInv, MapExact, StillMissing, NullOnce, First, MainFirst, LexPc, NoImport
<1>2. TypeInv /\ ImportsInv /\ MapInv(t) /\ [Next]_vars => MapInv(t)'
  <2> SUFFICES ASSUME TypeInv, ImportsInv, MapInv(t), [Next]_vars PROVE MapInv(t)'
    OBVIOUS
  <2>1. CASE UNCHANGED vars
    BY <2>1, MapCalm DEF vars, queueVars, importVars, localVars, MapInv, StillMissing, Imported
  <2>2. ASSUME NEW u \in Thread, ThreadStep(u) PROVE MapInv(t)'
    BY <2>2, MapStep DEF Lone, ImportsInv
  <2> QED
    BY <2>1, <2>2 DEF Next, Terminated
<1>3. IInv => TypeInv
  BY DEF IInv
<1> QED
  BY <1>1, <1>2, <1>3, Invariance, ImportsHold, PTL DEF Spec

\* With one thread no file is two import objects: nobody comes between findImport and
\* createImport, and the initial file is read before anything is imported.
THEOREM OneThreadImportsOnce ==
    ASSUME NEW t \in Thread, Lone(t)
    PROVE  Spec => []NoDuplicateImport
<1>1. MapInv(t) => NoDuplicateImport
  BY DEF MapInv, MapExact, NoDuplicateImport
<1> QED
  BY <1>1, MapHolds, PTL

-----------------------------------------------------------------------------
(***************************************************************************)
(* A struct that cannot be laid out is reported.                           *)
(***************************************************************************)
\* Every struct of the file can be found.
AllCreated(y) == \A k \in DOMAIN program.structs[y.name] : <<y.imp, k>> \in created_types

\* The k-th struct of the file has a member of a type that is not found.
Unknown(y, k) ==
    /\ <<y.imp, k>> \notin complete_types
    /\ \E m \in program.structs[y.name][k] : ~FindType(y.imp, m.type)

\* The attempt has come to struct i[t]; in the one that reports, the struct that will be
\* reported is still ahead.
Attempt(t) ==
    /\ \A j \in DOMAIN Structs(t) : j < i[t] => <<task[t].imp, j>> \in created_types
    /\ pc[t] = "members" => <<task[t].imp, i[t]>> \in created_types \ complete_types
    /\ ignore_errors[t] /\ failure[t] /\ NoProgress(t) => \E k \in DOMAIN Structs(t) : Unknown(task[t], k)
    /\ ~ignore_errors[t] =>
           /\ AllCreated(task[t])
           /\ \E k \in DOMAIN Structs(t) : k >= i[t] /\ Unknown(task[t], k)

\* A thread, whose task is dropped once its import has code.
ThreadGenerates(t) ==
    /\ pc[t] \in {"wait", "select"} => ~failure[t]
    /\ pc[t] \in LexPc => ~task[t].no_change
    /\ pc[t] \in WorkPc /\ task[t].no_change => AllCreated(task[t])
    /\ pc[t] \in StructPc => Attempt(t)
    /\ pc[t] = "finish" /\ ~queue_task[t] => task[t].imp \in generated

\* A task in the queue.
TaskGenerates(y) == y.no_change => y.type # "TASK_LEX_FILE" /\ AllCreated(y)

GeneratedInv(t) ==
    ~errors =>
        /\ complete_types \subseteq created_types
        /\ \A k \in DOMAIN tasks : TaskGenerates(tasks[k])
        /\ ThreadGenerates(t)
        /\ generated \subseteq DOMAIN imports
        /\ \A id \in DOMAIN imports : Underway(id) \/ id \in generated

\* What is created stays created.
LEMMA AllCreatedKept ==
    ASSUME NEW y \in Task, program' = program, created_types \subseteq created_types', AllCreated(y)
    PROVE  AllCreated(y)'
BY DEF AllCreated

\* With the same structs created, what is unknown stays unknown until it is complete.
LEMMA UnknownKept ==
    ASSUME NEW y \in Task, NEW k, UNCHANGED <<program, shared_scopes, imports, created_types>>,
           Unknown(y, k), <<y.imp, k>> \notin complete_types'
    PROVE  Unknown(y, k)'
<1>1. \A id : Visible(id)' = Visible(id)
  BY DEF Visible
<1>2. \A m \in program.structs[y.name][k] : FindType(y.imp, m.type)' = FindType(y.imp, m.type)
  BY <1>1 DEF FindType
<1> QED
  BY <1>2 DEF Unknown

\* The tasks in the queue.
LEMMA QueueGenerates ==
    ASSUME TypeInv, PhaseInv, Extends, NEW t \in Thread, ThreadStep(t), created_types \subseteq created_types',
           ThreadGenerates(t), \A k \in DOMAIN tasks : TaskGenerates(tasks[k])
    PROVE  \A k \in DOMAIN tasks' : TaskGenerates(tasks[k])'
<1>1. \A y \in Task : TaskGenerates(y) => TaskGenerates(y)'
  BY AllCreatedKept DEF TaskGenerates, Extends
<1>2. \A m \in DOMAIN tasks : tasks[m] \in Task
  BY DEF TypeInv, TypeOK, QueueTypeOK
<1>3. ASSUME NEW k \in DOMAIN tasks', NEW m \in DOMAIN tasks, tasks'[k] = tasks[m] PROVE TaskGenerates(tasks[k])'
  <2>1. PICK y \in Task : y = tasks[m]
    BY <1>2
  <2>2. TaskGenerates(y)'
    BY <1>1, <2>1
  <2> QED
    BY <1>3, <2>1, <2>2 DEF TaskGenerates, AllCreated
<1>4. ASSUME NEW k \in DOMAIN tasks', Queued(t, tasks'[k]) PROVE TaskGenerates(tasks[k])'
  <2>1. CASE EnqueueDep(t) /\ tasks'[k] = LexTask(Imported(t)[i[t]], dep_imp[t])
    BY <2>1 DEF LexTask, TaskGenerates
  <2>2. CASE Finish(t) /\ queue_task[t] /\ tasks'[k] = task[t]
    <3>1. PICK y \in Task : y = task[t]
      BY DEF TypeInv, TypeOK, LocalTypeOK
    <3>2. y.type # "TASK_LEX_FILE" /\ pc[t] = "finish"
      BY <2>2, <3>1 DEF Finish, At, PhaseInv
    <3>3. TaskGenerates(y)
      BY <3>1, <3>2 DEF ThreadGenerates, TaskGenerates, WorkPc
    <3>4. TaskGenerates(y)'
      BY <1>1, <3>1, <3>3
    <3> QED
      BY <2>2, <3>1, <3>4 DEF TaskGenerates, AllCreated
  <2> QED
    BY <1>4, <2>1, <2>2 DEF Queued
<1> QED
  BY <1>3, <1>4, QueueSteps

LEMMA SchedulerGenerates ==
    ASSUME TypeInv, ScopesInv, NEW t \in Thread, Schedule(t), ThreadOK(t), ThreadGenerates(t),
           \A k \in DOMAIN tasks : TaskGenerates(tasks[k])
    PROVE  ThreadGenerates(t)'
<1> USE DEF ThreadGenerates, WorkPc, LexPc, StructPc, FunctionPc, GenPc
<1>1. pc \in [Thread -> Pc] /\ failure \in [Thread -> BOOLEAN]
  BY DEF TypeInv, TypeOK, LocalTypeOK
<1>2. CASE Wait(t) \/ Quit(t) \/ Idle(t)
  <2>1. pc'[t] \in {"wait", "select", "done"} /\ failure'[t] = failure[t] /\ pc[t] \in {"wait", "select"}
    BY <1>1, <1>2 DEF Wait, Quit, Idle, At, Goto, localVars
  <2> QED
    BY <2>1
<1>3. CASE Finish(t)
  <2>1. pc'[t] = "wait" /\ ~failure'[t]
    BY <1>1, <1>3 DEF Finish, Goto
  <2> QED
    BY <2>1
<1>4. CASE TakeTask(t)
  <2>1. PICK k \in DOMAIN tasks : task' = [task EXCEPT ![t] = tasks[k]] /\ Goto(t, Entry[tasks[k].type])
    BY <1>4 DEF TakeTask
  <2>2. PICK y \in Task : y = tasks[k]
    BY DEF TypeInv, TypeOK, QueueTypeOK
  <2>3. task'[t] = y /\ pc'[t] = Entry[y.type]
    BY <1>1, <2>1, <2>2 DEF Goto, TypeInv, TypeOK, LocalTypeOK
  <2>4. /\ UNCHANGED <<program, created_types, i, failure, ignore_errors>> /\ pc[t] = "select"
        /\ ignore_errors[t] /\ i[t] = 1 /\ ~failure[t]
    BY <1>4 DEF TakeTask, At, importVars, resultVars, ScopesInv, ScopesOf, ThreadOK
  <2>5. pc'[t] \in {"lex", "struct", "functions", "gen_main"} /\ (pc'[t] = "lex" => y.type = "TASK_LEX_FILE")
    BY <2>3 DEF Entry, Task, TaskType
  <2>6. /\ y.no_change => AllCreated(y) /\ y.type # "TASK_LEX_FILE"
        /\ AllCreated(y) <=> AllCreated(task[t])'
    BY <2>2, <2>3, <2>4 DEF TaskGenerates, AllCreated
  <2>7. pc'[t] = "struct" => Attempt(t)'
    <3>1. program.structs[y.name] \in Seq(SUBSET Member)
      BY ProgramsAssumption DEF Program, Task, TypeInv, TypeOK
    <3>2. \A j \in DOMAIN program.structs[y.name] : j \in Nat /\ ~(j < 1)
      BY <3>1
    <3> QED
      BY <2>3, <2>4, <3>2 DEF Attempt, Structs
  <2> QED
    BY <2>3, <2>5, <2>6, <2>7
<1> QED
  BY <1>2, <1>3, <1>4 DEF Schedule

LEMMA LexerGenerates ==
    ASSUME TypeInv, Extends, NEW t \in Thread, LexFile(t), ThreadGenerates(t), ~errors'
    PROVE  ThreadGenerates(t)'
<1> USE DEF ThreadGenerates, WorkPc, LexPc, StructPc, FunctionPc, GenPc
<1>1. /\ pc \in [Thread -> Pc] /\ task \in [Thread -> Task] /\ queue_task \in [Thread -> BOOLEAN]
  BY DEF TypeInv, TypeOK, LocalTypeOK
<1>2. pc[t] \in LexPc
  BY DEF LexFile, LexFailure, ParseBegin, ParseEnd, Fixups, FindImport, SkipRepeated, CreateDep, EnqueueDep,
         AttachDep, LexDone, At
<1>3. ~task'[t].no_change
  <2>1. CASE ParseBegin(t) \/ ParseEnd(t)
    BY <1>1, <1>2, <2>1 DEF ParseBegin, ParseEnd, Task
  <2>2. CASE ~ParseBegin(t) /\ ~ParseEnd(t)
    BY <1>1, <1>2, <2>2 DEF LexFile, LexFailure, Fixups, FindImport, SkipRepeated, CreateDep, EnqueueDep,
                            AttachDep, LexDone, localVars, Task
  <2> QED
    BY <2>1, <2>2
<1>4. CASE LexDone(t)
  <2>1. pc'[t] = "finish" /\ queue_task'[t]
    BY <1>1, <1>4 DEF LexDone, Goto
  <2> QED
    BY <1>3, <2>1
<1>5. CASE ~LexDone(t)
  <2>1. pc'[t] \in LexPc
    BY <1>1, <1>2, <1>5 DEF LexFile, LexFailure, ParseBegin, ParseEnd, Fixups, FindImport, SkipRepeated, CreateDep,
                            EnqueueDep, AttachDep, Goto, AfterFind
  <2> QED
    BY <1>3, <2>1
<1> QED
  BY <1>4, <1>5

LEMMA ChecksGenerate ==
    ASSUME TypeInv, Extends, NEW t \in Thread, CheckAndGenerate(t), ThreadOK(t), ThreadGenerates(t), ~errors'
    PROVE  ThreadGenerates(t)'
<1> USE DEF ThreadGenerates, WorkPc, LexPc, StructPc, FunctionPc, GenPc
<1>1. /\ pc \in [Thread -> Pc] /\ task \in [Thread -> Task] /\ queue_task \in [Thread -> BOOLEAN]
  BY DEF TypeInv, TypeOK, LocalTypeOK
<1>2. /\ pc[t] \in {"functions", "gate", "globals", "gen_main", "gen_calls"}
      /\ program' = program /\ created_types' = created_types
  BY DEF CheckAndGenerate, CheckFunctions, Gate, CheckGlobals, GenMain, GenCalls, At, Extends, resultVars
<1>3. /\ task'[t].name = task[t].name /\ task'[t].imp = task[t].imp /\ task'[t].no_change = task[t].no_change
  <2>1. UNCHANGED task \/ task' = [task EXCEPT ![t].type = "TASK_GEN_FUNCTIONS"]
    BY DEF CheckAndGenerate, CheckFunctions, Gate, CheckGlobals, GenMain, GenCalls, localVars
  <2> QED
    BY <1>1, <2>1 DEF Task
<1>4. task'[t].no_change => AllCreated(task[t])'
  BY <1>2, <1>3 DEF AllCreated
<1>5. CASE GenCalls(t)
  <2>1. pc'[t] = "finish" /\ task'[t].imp \in generated'
    BY <1>1, <1>3, <1>5 DEF GenCalls, Goto
  <2> QED
    BY <1>4, <2>1
<1>6. CASE CheckGlobals(t)
  <2>1. pc'[t] = "finish" /\ queue_task'[t]
    BY <1>1, <1>6 DEF CheckGlobals, Goto, At, localVars, ThreadOK
  <2> QED
    BY <1>4, <2>1
<1>7. CASE CheckFunctions(t) \/ Gate(t) \/ GenMain(t)
  <2>1. pc'[t] \in {"gate", "globals", "gen_main", "gen_calls"}
    BY <1>1, <1>2, <1>7 DEF CheckFunctions, Gate, GenMain, At, Goto
  <2> QED
    BY <1>4, <2>1
<1> QED
  BY <1>5, <1>6, <1>7 DEF CheckAndGenerate

LEMMA StructsGenerate ==
    ASSUME TypeInv, NEW t \in Thread, CheckStructs(t), ThreadGenerates(t), complete_types \subseteq created_types, ~errors'
    PROVE  ThreadGenerates(t)' /\ complete_types' \subseteq created_types'
<1> USE DEF ThreadGenerates, WorkPc, LexPc, StructPc, FunctionPc, GenPc
<1>1. /\ pc \in [Thread -> Pc] /\ task \in [Thread -> Task] /\ i \in [Thread -> Nat \ {0}]
      /\ queue_task \in [Thread -> BOOLEAN] /\ failure \in [Thread -> BOOLEAN]
      /\ ignore_errors \in [Thread -> BOOLEAN] /\ changed \in [Thread -> BOOLEAN]
  BY DEF TypeInv, TypeOK, LocalTypeOK
<1>2. /\ pc[t] \in {"struct", "members"} /\ UNCHANGED <<program, imports, shared_scopes>>
      /\ created_types \subseteq created_types'
  BY DEF CheckStructs, CreateStruct, CheckMembers, StructsSucceed, StructsReport, StructsRetry, StructsDrop,
         StructsChecked, At, importVars, resultVars
<1>3. PICK y \in Task : y = task[t]
  BY <1>1
<1>4. /\ Attempt(t) /\ (y.no_change => AllCreated(y))
      /\ Structs(t) = program.structs[y.name]
      /\ DOMAIN Structs(t) = 1 .. Len(Structs(t)) /\ Len(Structs(t)) \in Nat /\ i[t] \in Nat /\ i[t] >= 1
  BY <1>1, <1>2, <1>3, ProgramsAssumption DEF Structs, Program, Task, TypeInv, TypeOK
<1>5. y.no_change => AllCreated(y)'
  BY <1>2, <1>4, AllCreatedKept
\* The attempt goes on, or its task is queued again.
<1>6. ASSUME pc'[t] \in {"struct", "members"}, task' = task, Attempt(t)' PROVE ThreadGenerates(t)'
  BY <1>3, <1>5, <1>6 DEF AllCreated
<1>7. ASSUME pc'[t] = "finish", queue_task'[t], task'[t].name = y.name, task'[t].imp = y.imp,
             task'[t].no_change => AllCreated(y)'
      PROVE  ThreadGenerates(t)'
  BY <1>7 DEF AllCreated
<1>8. CASE CreateStruct(t)
  <2>1. /\ UNCHANGED <<task, changed, failure, ignore_errors, complete_types>> /\ pc[t] = "struct"
        /\ i[t] \in DOMAIN Structs(t)
        /\ \/ /\ <<y.imp, i[t]>> \in complete_types /\ i'[t] = i[t] + 1
              /\ created_types' = created_types /\ pc'[t] = "struct"
           \/ /\ <<y.imp, i[t]>> \notin complete_types /\ i'[t] = i[t]
              /\ created_types' = created_types \cup {<<y.imp, i[t]>>} /\ pc'[t] = "members"
    BY <1>1, <1>3, <1>8 DEF CreateStruct, At, Goto
  <2>2. /\ task'[t] = y /\ Structs(t)' = Structs(t)
    BY <1>2, <1>3, <2>1 DEF Structs
  <2>3. ASSUME AllCreated(y), NEW k \in DOMAIN Structs(t), Unknown(y, k) PROVE Unknown(y, k)'
    <3>1. created_types' = created_types
      BY <1>4, <2>1, <2>3 DEF AllCreated
    <3> QED
      BY <1>2, <2>1, <2>3, <3>1, UnknownKept DEF Unknown
  <2>4. Attempt(t)'
    <3>1. ASSUME NEW j \in DOMAIN Structs(t), j < i'[t] PROVE <<y.imp, j>> \in created_types'
      <4>1. j < i[t] \/ (j = i[t] /\ <<y.imp, j>> \in complete_types)
        BY <1>4, <2>1, <3>1
      <4> QED
        BY <1>2, <1>3, <1>4, <4>1 DEF Attempt
    <3>2. pc'[t] = "members" => <<y.imp, i'[t]>> \in created_types' \ complete_types'
      BY <2>1
    <3>3. ASSUME ignore_errors[t], failure[t], NoProgress(t) PROVE \E k \in DOMAIN Structs(t) : Unknown(y, k)'
      BY <1>3, <1>4, <2>3, <3>3 DEF Attempt, NoProgress
    <3>4. ASSUME ~ignore_errors[t] PROVE AllCreated(y)' /\ \E k \in DOMAIN Structs(t) : k >= i'[t] /\ Unknown(y, k)'
      <4>1. AllCreated(y) /\ \E k \in DOMAIN Structs(t) : k >= i[t] /\ Unknown(y, k)
        BY <1>3, <1>4, <3>4 DEF Attempt
      <4>2. PICK k \in DOMAIN Structs(t) : k >= i[t] /\ Unknown(y, k)
        BY <4>1
      <4>3. k >= i'[t]
        BY <1>4, <2>1, <4>2 DEF Unknown
      <4> QED
        BY <1>2, <2>3, <4>1, <4>2, <4>3, AllCreatedKept
    <3>5. NoProgress(t)' <=> NoProgress(t)
      BY <2>1 DEF NoProgress
    <3> QED
      BY <2>1, <2>2, <3>1, <3>2, <3>3, <3>4, <3>5 DEF Attempt, Unknown, AllCreated
  <2> QED
    BY <1>2, <1>6, <2>1, <2>4
<1>9. CASE CheckMembers(t)
  <2>1. /\ UNCHANGED <<task, ignore_errors, created_types>> /\ pc[t] = "members" /\ pc'[t] = "struct"
        /\ i'[t] = i[t] + 1 /\ i[t] \in DOMAIN Structs(t)
        /\ \/ /\ \A m \in Structs(t)[i[t]] : FindType(y.imp, m.type)
              /\ UNCHANGED failure /\ complete_types' = complete_types \cup {<<y.imp, i[t]>>} /\ changed'[t]
           \/ /\ ~ \A m \in Structs(t)[i[t]] : FindType(y.imp, m.type)
              /\ failure'[t] /\ ignore_errors[t] /\ UNCHANGED <<complete_types, changed>>
    BY <1>1, <1>3, <1>9 DEF CheckMembers, ReportType, At, Goto, TypeInv, IndexKnown
  <2>2. /\ task'[t] = y /\ Structs(t)' = Structs(t)
    BY <1>2, <1>3, <2>1 DEF Structs
  <2>3. <<y.imp, i[t]>> \in created_types \ complete_types
    BY <1>3, <1>4, <2>1 DEF Attempt
  <2>4. Attempt(t)'
    <3>1. ASSUME NEW j \in DOMAIN Structs(t), j < i'[t] PROVE <<y.imp, j>> \in created_types'
      <4>1. j < i[t] \/ j = i[t]
        BY <1>4, <2>1, <3>1
      <4> QED
        BY <1>3, <1>4, <2>1, <2>3, <4>1 DEF Attempt
    <3>2. ASSUME failure'[t], NoProgress(t)' PROVE \E k \in DOMAIN Structs(t) : Unknown(y, k)'
      <4>1. UNCHANGED complete_types /\ \E m \in Structs(t)[i[t]] : ~FindType(y.imp, m.type)
        BY <2>1, <3>2 DEF NoProgress
      <4>2. Unknown(y, i[t])
        BY <1>4, <2>3, <4>1 DEF Unknown
      <4> QED
        BY <1>2, <2>1, <2>3, <4>1, <4>2, UnknownKept
    <3>3. ASSUME ~ignore_errors[t] PROVE AllCreated(y)' /\ \E k \in DOMAIN Structs(t) : k >= i'[t] /\ Unknown(y, k)'
      <4>1. AllCreated(y) /\ \E k \in DOMAIN Structs(t) : k >= i[t] /\ Unknown(y, k)
        BY <1>3, <1>4, <3>3 DEF Attempt
      <4>2. PICK k \in DOMAIN Structs(t) : k >= i[t] /\ Unknown(y, k)
        BY <4>1
      <4>3. k # i[t] /\ complete_types' = complete_types \cup {<<y.imp, i[t]>>}
        BY <1>4, <2>1, <3>3, <4>2 DEF Unknown
      <4>4. k >= i'[t]
        BY <1>4, <2>1, <4>2, <4>3
      <4>5. Unknown(y, k)'
        BY <1>2, <2>1, <4>2, <4>3, UnknownKept DEF Unknown
      <4> QED
        BY <1>2, <4>1, <4>4, <4>5, AllCreatedKept
    <3> QED
      BY <2>1, <2>2, <3>1, <3>2, <3>3 DEF Attempt, Unknown, AllCreated
  <2> QED
    BY <1>6, <2>1, <2>3, <2>4
<1>10. CASE StructsReport(t)
  <2>1. /\ UNCHANGED <<task, created_types, complete_types>> /\ pc'[t] = "struct" /\ ~failure'[t] /\ i'[t] = 1
        /\ ignore_errors[t] /\ failure[t] /\ NoProgress(t)
    BY <1>1, <1>10 DEF StructsReport, StructsChecked, At, Success, resultVars
  <2>2. /\ task'[t] = y /\ Structs(t)' = Structs(t)
    BY <1>2, <1>3, <2>1 DEF Structs
  <2>3. AllCreated(y) /\ \E k \in DOMAIN Structs(t) : Unknown(y, k)
    BY <1>3, <1>4, <2>1 DEF Attempt, NoProgress
  <2>4. PICK k \in DOMAIN Structs(t) : Unknown(y, k)
    BY <2>3
  <2>5. Unknown(y, k)'
    BY <1>2, <2>1, <2>4, UnknownKept DEF Unknown
  <2>6. AllCreated(y)'
    BY <1>2, <2>3, AllCreatedKept
  <2>7. k >= 1 /\ \A j \in DOMAIN Structs(t) : ~(j < 1)
    BY <1>4
  <2>8. Attempt(t)'
    BY <2>1, <2>2, <2>5, <2>6, <2>7 DEF Attempt, Unknown, AllCreated
  <2> QED
    BY <1>6, <2>1, <2>8
<1>11. ASSUME StructsChecked(t), created_types' = created_types PROVE AllCreated(y)'
  <2>1. pc[t] = "struct" /\ i[t] \notin DOMAIN Structs(t)
    BY <1>11 DEF StructsChecked, At
  <2>2. \A j \in DOMAIN Structs(t) : j < i[t]
    BY <1>4, <2>1
  <2>3. AllCreated(y)
    BY <1>3, <1>4, <2>2 DEF Attempt, AllCreated
  <2> QED
    BY <1>2, <2>3, AllCreatedKept
<1>12. CASE StructsSucceed(t) \/ StructsRetry(t)
  <2>1. /\ StructsChecked(t) /\ pc'[t] = "finish" /\ queue_task'[t] /\ UNCHANGED <<created_types, complete_types>>
        /\ task'[t].name = y.name /\ task'[t].imp = y.imp
    BY <1>1, <1>3, <1>12 DEF StructsSucceed, StructsRetry, Goto, resultVars, Task
  <2> QED
    BY <1>7, <1>11, <2>1
<1>13. CASE StructsDrop(t)
  <2>1. pc[t] = "struct" /\ i[t] \notin DOMAIN Structs(t) /\ ~ignore_errors[t]
    BY <1>13 DEF StructsDrop, StructsChecked, At
  <2>2. PICK k \in DOMAIN Structs(t) : k >= i[t]
    BY <1>4, <2>1 DEF Attempt
  <2> QED
    BY <1>4, <2>1, <2>2
<1> QED
  BY <1>8, <1>9, <1>10, <1>12, <1>13 DEF CheckStructs

LEMMA GeneratedStep ==
    ASSUME TypeInv, TypeInv', PhaseInv, DeliveryInv, ScopesInv, ResultInv, NEW t \in Thread, GeneratedInv(t),
           ThreadStep(t)
    PROVE  GeneratedInv(t)'
<1> SUFFICES ASSUME ~errors'
             PROVE  /\ complete_types' \subseteq created_types'
                    /\ \A k \in DOMAIN tasks' : TaskGenerates(tasks[k])'
                    /\ ThreadGenerates(t)'
                    /\ generated' \subseteq DOMAIN imports'
                    /\ \A id \in DOMAIN imports' : Underway(id)' \/ id \in generated'
  BY DEF GeneratedInv
<1>1. Extends
  BY StepExtends
<1>2. /\ complete_types \subseteq created_types
      /\ \A k \in DOMAIN tasks : TaskGenerates(tasks[k])
      /\ ThreadGenerates(t)
      /\ generated \subseteq DOMAIN imports
      /\ \A id \in DOMAIN imports : Underway(id) \/ id \in generated
      /\ ThreadOK(t)
  BY <1>1 DEF GeneratedInv, ResultInv, Extends
<1>3. UNCHANGED <<created_types, complete_types>> \/ CheckStructs(t)
  BY DEF ThreadStep, Schedule, Wait, TakeTask, Quit, Idle, Finish, LexFile, LexFailure, ParseBegin, ParseEnd,
         Fixups, FindImport, SkipRepeated, CreateDep, EnqueueDep, AttachDep, LexDone, CheckAndGenerate,
         CheckFunctions, Gate, CheckGlobals, GenMain, GenCalls, resultVars
<1>4. generated' = generated \/ (GenCalls(t) /\ generated' = generated \cup {task[t].imp})
  BY DEF ThreadStep, Schedule, Wait, TakeTask, Quit, Idle, Finish, LexFile, LexFailure, ParseBegin, ParseEnd,
         Fixups, FindImport, SkipRepeated, CreateDep, EnqueueDep, AttachDep, LexDone, CheckStructs, CreateStruct,
         CheckMembers, StructsSucceed, StructsReport, StructsRetry, StructsDrop, CheckAndGenerate, CheckFunctions,
         Gate, CheckGlobals, GenMain, GenCalls, resultVars
<1>5. created_types \subseteq created_types'
  <2>1. CASE CheckStructs(t)
    BY <2>1 DEF CheckStructs, CreateStruct, CheckMembers, StructsSucceed, StructsReport, StructsRetry, StructsDrop,
                resultVars
  <2> QED
    BY <1>3, <2>1
<1>6. complete_types' \subseteq created_types' /\ ThreadGenerates(t)'
  <2>1. CASE CheckStructs(t)
    BY <1>2, <2>1, StructsGenerate
  <2>2. CASE ~CheckStructs(t)
    BY <1>1, <1>2, <1>3, <2>2, SchedulerGenerates, LexerGenerates, ChecksGenerate DEF ThreadStep
  <2> QED
    BY <2>1, <2>2
<1>7. \A k \in DOMAIN tasks' : TaskGenerates(tasks[k])'
  BY <1>1, <1>2, <1>5, QueueGenerates
<1>8. generated' \subseteq DOMAIN imports'
  <2>1. DOMAIN imports \subseteq DOMAIN imports'
    BY <1>1 DEF Extends
  <2>2. CASE GenCalls(t)
    <3>1. pc[t] \in GenPc
      BY <2>2 DEF GenCalls, At, GenPc
    <3>2. /\ task[t].imp # NoImport /\ Proper(task[t])
          /\ task[t].imp \in ImportId \cup {NoImport}
      BY <1>2, <3>1 DEF TypeInv, TypeOK, LocalTypeOK, Task, ImportKnown, ThreadOK, WorkPc, GenPc
    <3>3. task[t].imp \in DOMAIN imports
      BY <1>1, <3>2, MaxImportsAssumption DEF Proper, Extends, ImportId
    <3> QED
      BY <1>2, <1>4, <2>1, <3>3
  <2> QED
    BY <1>2, <1>4, <2>1, <2>2
<1>9. ASSUME NEW id \in DOMAIN imports' PROVE Underway(id)' \/ id \in generated'
  <2>1. CASE id \notin DOMAIN imports
    BY <1>1, <2>1, NewIsUnderway
  <2>2. CASE id \in DOMAIN imports /\ Underway(id)
    <3>1. CASE Finish(t) /\ ~queue_task[t] /\ pc[t] = "finish" /\ task[t].imp = id
      BY <1>2, <1>4, <3>1 DEF ThreadGenerates
    <3> QED
      BY <1>1, <2>2, <3>1, NoImportIsLost
  <2>3. CASE id \in generated
    BY <1>4, <2>3
  <2> QED
    BY <1>2, <2>1, <2>2, <2>3
<1> QED
  BY <1>6, <1>7, <1>8, <1>9

LEMMA InitGenerated == ASSUME Init, NEW t \in Thread PROVE GeneratedInv(t)
<1>1. /\ tasks = <<PreloadTask, LexTask(Main, NoImport)>> /\ imports = <<Preload>> /\ pc[t] = "wait" /\ ~failure[t]
      /\ complete_types = {} /\ generated = {}
      /\ DOMAIN tasks = 1 .. 2 /\ DOMAIN imports = {1}
  BY DEF Init
<1>2. \A k \in DOMAIN tasks : TaskGenerates(tasks[k])
  BY <1>1 DEF TaskGenerates, PreloadTask, LexTask
<1>3. ThreadGenerates(t)
  BY <1>1 DEF ThreadGenerates, WorkPc, LexPc, StructPc, FunctionPc, GenPc
<1>4. ASSUME NEW id \in DOMAIN imports PROVE Underway(id)
  <2>1. tasks[1].imp = id
    BY <1>1 DEF PreloadTask
  <2> QED
    BY <1>1, <2>1 DEF Underway
<1> QED
  BY <1>1, <1>2, <1>3, <1>4 DEF GeneratedInv

LEMMA StutterGenerated == ASSUME NEW t \in Thread, GeneratedInv(t), UNCHANGED vars PROVE GeneratedInv(t)'
<1>1. UNCHANGED <<program, tasks, imports, shared_scopes, created_types, complete_types, generated, errors, pc, task,
                  dep_imp, i, queue_task, changed, failure, ignore_errors>>
  BY DEF vars, queueVars, importVars, resultVars, localVars
<1>2. \A id : Visible(id)' = Visible(id)
  BY <1>1 DEF Visible
<1>3. \A id, s : FindType(id, s)' <=> FindType(id, s)
  BY <1>1, <1>2 DEF FindType
<1>4. \A y, k : (Unknown(y, k)' <=> Unknown(y, k)) /\ (AllCreated(y)' <=> AllCreated(y))
  BY <1>1, <1>3 DEF Unknown, AllCreated
<1>5. ThreadGenerates(t)' <=> ThreadGenerates(t)
  <2>1. Attempt(t)' <=> Attempt(t)
    BY <1>1, <1>3 DEF Attempt, Structs, NoProgress, Unknown, AllCreated
  <2> QED
    BY <1>1, <2>1 DEF ThreadGenerates, AllCreated
<1>6. \A k \in DOMAIN tasks : TaskGenerates(tasks[k])' <=> TaskGenerates(tasks[k])
  BY <1>1 DEF TaskGenerates, AllCreated
<1>7. \A id \in DOMAIN imports : Underway(id)' <=> Underway(id)
  BY <1>1 DEF Underway, Held
<1> QED
  BY <1>1, <1>5, <1>6, <1>7 DEF GeneratedInv

LEMMA GeneratedHolds ==
    ASSUME NEW t \in Thread, Lone(t)
    PROVE  Spec => []GeneratedInv(t)
<1>1. Init => GeneratedInv(t)
  BY InitGenerated
<1>2. TypeInv /\ TypeInv' /\ PhaseInv /\ ImportsInv /\ ResultInv /\ GeneratedInv(t) /\ [Next]_vars => GeneratedInv(t)'
  BY GeneratedStep, StutterGenerated DEF ImportsInv, Next, Terminated, Lone
<1>3. IInv => TypeInv
  BY DEF IInv
<1>4. ImportsInv => PhaseInv
  BY DEF ImportsInv
<1> QED
  BY <1>1, <1>2, <1>3, <1>4, Invariance, ImportsHold, ResultHolds, PTL DEF Spec

\* With one thread a program is accepted only if every import has its code: the attempt
\* that reports always comes to the struct it has to report, since nobody creates the
\* missing type in the meantime, so no task is dropped in silence.
THEOREM OneThreadGeneratesAll ==
    ASSUME NEW t \in Thread, Lone(t)
    PROVE  Spec => []AcceptedIsGenerated
<1>1. StuckMeansError /\ GeneratedInv(t) => AcceptedIsGenerated
  <2> SUFFICES ASSUME StuckMeansError, GeneratedInv(t), AllDone, ~errors
               PROVE  generated = DOMAIN imports
    BY DEF AcceptedIsGenerated, Accepted
  <2>1. tasks = << >> /\ \A u \in Thread : pc[u] = "done"
    BY DEF StuckMeansError, AllDone
  <2>2. \A id : ~Underway(id)
    BY <2>1 DEF Underway, Held, WorkPc, LexPc, StructPc, FunctionPc, GenPc
  <2> QED
    BY <2>2 DEF GeneratedInv
<1> QED
  BY <1>1, StuckTasksMeanError, GeneratedHolds, PTL

=============================================================================
