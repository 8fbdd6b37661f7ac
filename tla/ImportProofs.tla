---------------------------- MODULE ImportProofs ----------------------------
(***************************************************************************)
(* Theorems about the import objects of the driver (module Compiler):      *)
(* each is in one task at most, what it waits for is what is registered,   *)
(* it gets a body once, and only the complete ones are generated.          *)
(***************************************************************************)
EXTENDS CompilerProofs

-----------------------------------------------------------------------------
(***************************************************************************)
(* One task for each import: an import object belongs to the task that is  *)
(* queued or worked on, or to the thread that has created it and is about  *)
(* to queue its task.                                                      *)
(***************************************************************************)
Held(t) ==
    {id \in ImportId : \/ pc[t] \in WorkPc /\ task[t].imp = id
                       \/ pc[t] = "enqueue" /\ dep_imp[t] = id}

QueuedOnce ==
    \A k, l \in DOMAIN tasks :
        tasks[k].imp = tasks[l].imp => k = l \/ tasks[k].imp = NoImport

QueuedFree ==
    \A k \in DOMAIN tasks :
        /\ tasks[k].imp <= Len(imports)
        /\ \A t \in Thread : tasks[k].imp \notin Held(t)

HeldOnce ==
    \A t \in Thread :
        /\ \A id \in Held(t) : id <= Len(imports)
        /\ \A u \in Thread \ {t} : Held(t) \cap Held(u) = {}
        /\ pc[t] = "enqueue" => dep_imp[t] # task[t].imp

TasksInv == QueuedOnce /\ QueuedFree /\ HeldOnce

\* What a step of a thread leaves to the others.
Apart(t) ==
    \A u \in Thread \ {t} : pc'[u] = pc[u] /\ task'[u] = task[u] /\ dep_imp'[u] = dep_imp[u]

LEMMA HeldApart ==
    ASSUME NEW t \in Thread, Apart(t), NEW u \in Thread \ {t}
    PROVE  Held(u)' = Held(u)
  BY DEF Apart, Held

\* A step that leaves the queue alone, and at most adds new imports to the thread.
LEMMA HandlerStep ==
    ASSUME TypeInv, TasksInv, NEW t \in Thread, Apart(t), UNCHANGED tasks,
           Len(imports') \in Nat, Len(imports) <= Len(imports'),
           \A id \in Held(t)' : id \in Held(t) \/ (id > Len(imports) /\ id <= Len(imports')),
           pc'[t] = "enqueue" => dep_imp'[t] # task'[t].imp
    PROVE  TasksInv'
<1>1. /\ \A k \in DOMAIN tasks : tasks[k].imp \in Nat
      /\ \A u \in Thread : Held(u) \subseteq Nat
      /\ Held(t)' \subseteq Nat /\ Len(imports) \in Nat
  <2>1. ImportId \subseteq Nat /\ NoImport \in Nat /\ Len(imports) \in Nat
    BY MaxImportsAssumption DEF TypeInv, TypeOK, ImportTypeOK, ImportId, NoImport
  <2>2. \A k \in DOMAIN tasks : tasks[k] \in Task
    BY DEF TypeInv, TypeOK, QueueTypeOK
  <2>3. \A k \in DOMAIN tasks : tasks[k].imp \in Nat
    BY <2>1, <2>2 DEF Task
  <2> QED
    BY <2>1, <2>3 DEF Held
<1>2. \A u \in Thread \ {t} : Held(u)' = Held(u)
  BY HeldApart
<1>3. QueuedOnce'
  BY DEF TasksInv, QueuedOnce
<1>4. QueuedFree'
  BY <1>1, <1>2 DEF TasksInv, QueuedFree
<1>5. HeldOnce'
  <2>1. ASSUME NEW u \in Thread PROVE \A id \in Held(u)' : id <= Len(imports')
    BY <1>1, <1>2 DEF TasksInv, HeldOnce
  <2>2. ASSUME NEW u \in Thread \ {t} PROVE Held(t)' \cap Held(u)' = {}
    BY <1>1, <1>2 DEF TasksInv, HeldOnce
  <2>3. ASSUME NEW u \in Thread, NEW v \in Thread \ {u} PROVE Held(u)' \cap Held(v)' = {}
    BY <1>2, <2>2 DEF TasksInv, HeldOnce
  <2>4. ASSUME NEW u \in Thread PROVE pc'[u] = "enqueue" => dep_imp'[u] # task'[u].imp
    BY DEF Apart, TasksInv, HeldOnce
  <2> QED
    BY <2>1, <2>3, <2>4 DEF HeldOnce
<1> QED
  BY <1>3, <1>4, <1>5 DEF TasksInv

\* A step that queues a task whose import the thread gives up.
LEMMA QueueStep ==
    ASSUME TypeInv, TasksInv, NEW t \in Thread, Apart(t), UNCHANGED imports,
           NEW x \in Task, x.imp \in Held(t) \cup {NoImport}, tasks' = Append(tasks, x),
           Held(t)' \subseteq Held(t) \ {x.imp}, pc'[t] # "enqueue"
    PROVE  TasksInv'
<1> DEFINE n == Len(tasks)
<1>1. /\ tasks \in Seq(Task) /\ n \in Nat /\ DOMAIN tasks = 1 .. n
      /\ DOMAIN tasks' = 1 .. n + 1 /\ tasks'[n + 1] = x
      /\ \A k \in 1 .. n : tasks'[k] = tasks[k]
  BY AppendProperties DEF TypeInv, TypeOK, QueueTypeOK
<1>2. Len(imports) \in Nat /\ Len(imports) >= 1 /\ NoImport = 0 /\ 0 \notin ImportId
  BY MaxImportsAssumption DEF TypeInv, TypeOK, ImportTypeOK, ImportId, NoImport
<1>3. \A u \in Thread \ {t} : Held(u)' = Held(u)
  BY HeldApart
<1>4. /\ \A k \in 1 .. n : tasks[k].imp = x.imp => x.imp = NoImport
      /\ \A u \in Thread : x.imp \notin Held(u)'
      /\ x.imp <= Len(imports)
  <2>1. \A u \in Thread : NoImport \notin Held(u) /\ NoImport \notin Held(u)'
    BY <1>2 DEF Held
  <2>2. \A k \in 1 .. n : tasks[k].imp = x.imp => x.imp = NoImport
    BY <1>1 DEF TasksInv, QueuedFree
  <2>3. x.imp <= Len(imports)
    BY <1>2 DEF TasksInv, HeldOnce
  <2>4. ASSUME NEW u \in Thread PROVE x.imp \notin Held(u)'
    BY <1>3, <2>1 DEF TasksInv, HeldOnce
  <2> QED
    BY <2>2, <2>3, <2>4
<1>5. QueuedOnce'
  <2> SUFFICES ASSUME NEW k \in 1 .. n + 1, NEW l \in 1 .. n + 1, tasks'[k].imp = tasks'[l].imp
               PROVE  k = l \/ tasks'[k].imp = NoImport
    BY <1>1 DEF QueuedOnce
  <2>1. CASE k = n + 1 \/ l = n + 1
    BY <1>1, <1>4, <2>1
  <2>2. CASE k \in 1 .. n /\ l \in 1 .. n
    BY <1>1, <2>2 DEF TasksInv, QueuedOnce
  <2> QED
    BY <1>1, <2>1, <2>2
<1>6. QueuedFree'
  <2> SUFFICES ASSUME NEW k \in 1 .. n + 1
               PROVE  tasks'[k].imp <= Len(imports) /\ \A u \in Thread : tasks'[k].imp \notin Held(u)'
    BY <1>1 DEF QueuedFree
  <2>1. CASE k = n + 1
    BY <1>1, <1>4, <2>1
  <2>2. CASE k \in 1 .. n
    BY <1>1, <1>3, <2>2 DEF TasksInv, QueuedFree
  <2> QED
    BY <1>1, <2>1, <2>2
<1>7. HeldOnce'
  <2>1. ASSUME NEW u \in Thread PROVE \A id \in Held(u)' : id <= Len(imports')
    BY <1>3 DEF TasksInv, HeldOnce
  <2>2. ASSUME NEW u \in Thread, NEW v \in Thread \ {u} PROVE Held(u)' \cap Held(v)' = {}
    BY <1>3 DEF TasksInv, HeldOnce
  <2>3. ASSUME NEW u \in Thread PROVE pc'[u] = "enqueue" => dep_imp'[u] # task'[u].imp
    BY DEF Apart, TasksInv, HeldOnce
  <2> QED
    BY <2>1, <2>2, <2>3 DEF HeldOnce
<1> QED
  BY <1>5, <1>6, <1>7 DEF TasksInv

\* The thread that takes a task holds its import, and nothing else.
LEMMA TakeTaskStep ==
    ASSUME TypeInv, TasksInv, NEW t \in Thread, TakeTask(t)
    PROVE  TasksInv'
<1>1. PICK k \in DOMAIN tasks :
          /\ task' = [task EXCEPT ![t] = tasks[k]]
          /\ tasks' = Erase(k)
          /\ Goto(t, Entry[tasks[k].type])
  BY DEF TakeTask
<1>2. UNCHANGED <<imports, dep_imp>>
  BY DEF TakeTask, importVars
<1>3. /\ tasks[k] \in Task /\ pc'[t] \in {"lex", "struct", "functions", "gen_main"} /\ task'[t] = tasks[k]
      /\ Apart(t)
  <2>1. tasks[k] \in Task
    BY DEF TypeInv, TypeOK, QueueTypeOK
  <2>2. Entry[tasks[k].type] \in {"lex", "struct", "functions", "gen_main"}
    BY <2>1 DEF Task, TaskType, Entry
  <2> QED
    BY <1>1, <1>2, <2>1, <2>2 DEF Goto, Apart, TypeInv, TypeOK, LocalTypeOK
<1>4. Held(t)' \subseteq {tasks[k].imp}
  BY <1>3 DEF Held
<1>5. \A u \in Thread \ {t} : Held(u)' = Held(u)
  BY <1>3, HeldApart
<1> DEFINE n == Len(tasks) - 1
           From(j) == Shift(k, j)
<1>6. /\ tasks \in Seq(Task) /\ k \in 1 .. n + 1 /\ n \in Nat /\ DOMAIN tasks = 1 .. n + 1
      /\ DOMAIN tasks' = 1 .. n
      /\ \A j \in 1 .. n : From(j) \in DOMAIN tasks /\ tasks'[j] = tasks[From(j)]
  BY <1>1, EraseElements DEF Erase, TypeInv, TypeOK, QueueTypeOK
<1>7. \A j \in 1 .. n : From(j) # k /\ \A l \in 1 .. n : From(j) = From(l) => j = l
  BY <1>6 DEF Shift
<1> HIDE DEF n, From
<1>8. NoImport \notin Held(t)'
  BY MaxImportsAssumption DEF Held, ImportId, NoImport
<1>9. QueuedOnce'
  BY <1>6, <1>7 DEF TasksInv, QueuedOnce
<1>10. QueuedFree'
  <2> SUFFICES ASSUME NEW j \in 1 .. n
               PROVE  tasks'[j].imp <= Len(imports) /\ \A u \in Thread : tasks'[j].imp \notin Held(u)'
    BY <1>2, <1>6 DEF QueuedFree
  <2>1. tasks'[j].imp <= Len(imports) /\ \A u \in Thread \ {t} : tasks'[j].imp \notin Held(u)'
    BY <1>5, <1>6 DEF TasksInv, QueuedFree
  <2>2. tasks'[j].imp \notin Held(t)'
    BY <1>4, <1>6, <1>7, <1>8 DEF TasksInv, QueuedOnce
  <2> QED
    BY <2>1, <2>2
<1>11. HeldOnce'
  <2>1. ASSUME NEW u \in Thread PROVE \A id \in Held(u)' : id <= Len(imports')
    BY <1>2, <1>4, <1>5 DEF TasksInv, HeldOnce, QueuedFree
  <2>2. ASSUME NEW u \in Thread \ {t} PROVE Held(t)' \cap Held(u)' = {}
    BY <1>4, <1>5 DEF TasksInv, QueuedFree
  <2>3. ASSUME NEW u \in Thread, NEW v \in Thread \ {u} PROVE Held(u)' \cap Held(v)' = {}
    BY <1>5, <2>2 DEF TasksInv, HeldOnce
  <2>4. ASSUME NEW u \in Thread PROVE pc'[u] = "enqueue" => dep_imp'[u] # task'[u].imp
    BY <1>3 DEF Apart, TasksInv, HeldOnce
  <2> QED
    BY <2>1, <2>3, <2>4 DEF HeldOnce
<1> QED
  BY <1>9, <1>10, <1>11 DEF TasksInv

\* The thread gives its task back, or drops it.
LEMMA FinishStep ==
    ASSUME TypeInv, TasksInv, NEW t \in Thread, Finish(t)
    PROVE  TasksInv'
<1>1. /\ pc[t] = "finish" /\ pc' = [pc EXCEPT ![t] = "wait"] /\ UNCHANGED imports
      /\ task' = [task EXCEPT ![t] = LexTask(Main, NoImport)]
      /\ dep_imp' = [dep_imp EXCEPT ![t] = NoImport]
  BY DEF Finish, At, Goto, importVars
<1>2. pc'[t] = "wait" /\ Apart(t)
  BY <1>1 DEF Apart, TypeInv, TypeOK, LocalTypeOK
<1>3. Held(t)' = {}
  BY <1>2 DEF Held, WorkPc, LexPc, StructPc, FunctionPc, GenPc
<1>4. Len(imports) \in Nat
  BY MaxImportsAssumption DEF TypeInv, TypeOK, ImportTypeOK, ImportId
<1>5. CASE tasks' = tasks
  BY <1>1, <1>2, <1>3, <1>4, <1>5, HandlerStep
<1>6. CASE tasks' = Append(tasks, task[t])
  <2>1. task[t] \in Task /\ task[t].imp \in Held(t) \cup {NoImport}
    BY <1>1 DEF TypeInv, TypeOK, LocalTypeOK, Task, Held, WorkPc
  <2> QED
    BY <1>1, <1>2, <1>3, <1>6, <2>1, QueueStep
<1> QED
  BY <1>5, <1>6 DEF Finish

\* The import that the thread has created is queued.
LEMMA EnqueueDepStep ==
    ASSUME TypeInv, TasksInv, NEW t \in Thread, EnqueueDep(t)
    PROVE  TasksInv'
<1> DEFINE x == LexTask(Imported(t)[i[t]], dep_imp[t])
<1>1. /\ pc[t] = "enqueue" /\ pc' = [pc EXCEPT ![t] = "find"] /\ UNCHANGED <<imports, task, dep_imp>>
      /\ tasks' = Append(tasks, x)
  BY DEF EnqueueDep, At, Goto
<1>2. pc'[t] = "find" /\ Apart(t)
  BY <1>1 DEF Apart, TypeInv, TypeOK, LocalTypeOK
<1>3. dep_imp[t] \in ImportId
  BY <1>1 DEF TypeInv, TypeOK, LocalTypeOK, ImportKnown
<1>4. x \in Task /\ x.imp = dep_imp[t]
  <2>1. i[t] \in DOMAIN Imported(t)
    BY <1>1 DEF TypeInv, IndexKnown
  <2>2. Imported(t)[i[t]] \in File
    BY <2>1, ImportedType DEF TypeInv
  <2> QED
    BY <1>3, <2>2 DEF Task, LexTask, TaskType
<1>5. dep_imp[t] \in Held(t)
  BY <1>1, <1>3 DEF Held
<1>6. Held(t)' \subseteq Held(t) \ {dep_imp[t]}
  BY <1>1, <1>2 DEF Held, TasksInv, HeldOnce, WorkPc, LexPc
<1> HIDE DEF x
<1> QED
  BY <1>1, <1>2, <1>4, <1>5, <1>6, QueueStep

\* An import object is created with a number that is not in use.
LEMMA CreateDepStep ==
    ASSUME TypeInv, TasksInv, NEW t \in Thread, CreateDep(t)
    PROVE  TasksInv'
<1>1. PICK id \in ImportId :
          CreateImport(Imported(t)[i[t]], id) /\ dep_imp' = [dep_imp EXCEPT ![t] = id]
  BY DEF CreateDep
<1>2. /\ pc[t] = "create" /\ pc' = [pc EXCEPT ![t] = "enqueue"] /\ UNCHANGED <<tasks, task>>
  BY DEF CreateDep, At, Goto, queueVars
<1>3. imports \in Seq(File) /\ Len(imports) \in Nat /\ id = Len(imports) + 1 /\ Len(imports') = Len(imports) + 1
  BY <1>1, AppendProperties DEF CreateImport, TypeInv, TypeOK, ImportTypeOK
<1>4. pc'[t] = "enqueue" /\ dep_imp'[t] = id /\ Apart(t)
  BY <1>1, <1>2 DEF Apart, TypeInv, TypeOK, LocalTypeOK
<1>5. task[t].imp \in Held(t) \/ task[t].imp = NoImport
  BY <1>2 DEF TypeInv, TypeOK, LocalTypeOK, Task, Held, WorkPc, LexPc
<1>6. task[t].imp # id
  BY <1>3, <1>5, MaxImportsAssumption DEF TasksInv, HeldOnce, NoImport
<1>7. Held(t)' \subseteq Held(t) \cup {id}
  BY <1>2, <1>4 DEF Held, WorkPc, LexPc
<1> QED
  BY <1>2, <1>3, <1>4, <1>6, <1>7, HandlerStep

LEMMA ParseBeginStep ==
    ASSUME TypeInv, TasksInv, NEW t \in Thread, ParseBegin(t)
    PROVE  TasksInv'
<1>1. /\ pc[t] = "lex" /\ pc' = [pc EXCEPT ![t] = "body"] /\ UNCHANGED <<tasks, dep_imp>>
  BY DEF ParseBegin, At, Goto, queueVars
<1>2. imports \in Seq(File) /\ Len(imports) \in Nat
  BY DEF TypeInv, TypeOK, ImportTypeOK
<1>3. CASE task[t].imp # NoImport
  <2>1. UNCHANGED <<imports, task>>
    BY <1>3 DEF ParseBegin
  <2>2. pc'[t] = "body" /\ Apart(t)
    BY <1>1, <2>1 DEF Apart, TypeInv, TypeOK, LocalTypeOK
  <2>3. Held(t)' \subseteq Held(t)
    BY <1>1, <2>1, <2>2 DEF Held, WorkPc, LexPc
  <2> QED
    BY <1>1, <1>2, <2>1, <2>2, <2>3, HandlerStep
<1>4. CASE task[t].imp = NoImport
  <2>1. PICK id \in ImportId : CreateImport(task[t].name, id) /\ task' = [task EXCEPT ![t].imp = id]
    BY <1>4 DEF ParseBegin
  <2>2. id = Len(imports) + 1 /\ Len(imports') = Len(imports) + 1
    BY <1>2, <2>1, ImportedType, AppendProperties DEF CreateImport, TypeInv
  <2>3. pc'[t] = "body" /\ task'[t].imp = id /\ Apart(t)
    BY <1>1, <2>1 DEF Apart, TypeInv, TypeOK, LocalTypeOK, Task
  <2>4. Held(t)' \subseteq {id}
    BY <2>3 DEF Held
  <2> QED
    BY <1>1, <1>2, <2>2, <2>3, <2>4, HandlerStep
<1> QED
  BY <1>3, <1>4

\* A step that creates and queues nothing.
Quiet(t) ==
    /\ UNCHANGED <<tasks, imports>> /\ Apart(t)
    /\ pc'[t] # "enqueue" /\ (pc'[t] \in WorkPc => pc[t] \in WorkPc)
    /\ task'[t].imp \in {task[t].imp, NoImport}

LEMMA QuietStep ==
    ASSUME TypeInv, TasksInv, NEW t \in Thread, Quiet(t)
    PROVE  TasksInv'
<1>1. Len(imports) \in Nat
  BY DEF TypeInv, TypeOK, ImportTypeOK
<1>2. NoImport \notin ImportId
  BY DEF ImportId, NoImport
<1>3. Held(t)' \subseteq Held(t)
  BY <1>2 DEF Quiet, Held
<1> QED
  BY <1>1, <1>3, HandlerStep DEF Quiet

\* The other steps of the scheduler, and the handlers but for the two that create
\* an import and the one that queues a task.
LEMMA OthersAreQuiet ==
    ASSUME TypeInv, NEW t \in Thread,
           \/ Wait(t) \/ Quit(t) \/ Idle(t)
           \/ LexFile(t) /\ ~ParseBegin(t) /\ ~CreateDep(t) /\ ~EnqueueDep(t)
           \/ CheckStructs(t) \/ CheckAndGenerate(t)
    PROVE  Quiet(t)
<1> USE DEF TypeInv, TypeOK, LocalTypeOK, Task, Quiet, Apart, WorkPc, LexPc, StructPc, FunctionPc, GenPc
<1>1. CASE Wait(t) \/ Quit(t) \/ Idle(t)
  BY <1>1 DEF Wait, Quit, Idle, At, Goto, importVars, localVars
<1>2. CASE LexFile(t) /\ ~ParseBegin(t) /\ ~CreateDep(t) /\ ~EnqueueDep(t)
  <2>1. CASE LexFailure(t) \/ Fixups(t)
    BY <2>1 DEF LexFailure, Fixups, At, Goto, queueVars, importVars, localVars
  <2>2. CASE ParseEnd(t)
    BY <2>2 DEF ParseEnd, At, Goto, queueVars
  <2>3. CASE FindImport(t)
    BY <2>3 DEF FindImport, AfterFind, At, Goto, queueVars, importVars
  <2>4. CASE SkipRepeated(t) \/ AttachDep(t)
    BY <2>4 DEF SkipRepeated, AttachDep, At, Goto, queueVars, importVars
  <2>5. CASE LexDone(t)
    BY <2>5 DEF LexDone, At, Goto, queueVars, importVars
  <2> QED
    BY <1>2, <2>1, <2>2, <2>3, <2>4, <2>5 DEF LexFile
<1>3. CASE CheckStructs(t)
  <2>1. CASE CreateStruct(t) \/ CheckMembers(t)
    BY <2>1 DEF CreateStruct, CheckMembers, At, Goto, queueVars, importVars
  <2>2. CASE StructsSucceed(t)
    BY <2>2 DEF StructsSucceed, StructsChecked, At, Goto, queueVars, importVars
  <2>3. CASE StructsReport(t)
    BY <2>3 DEF StructsReport, StructsChecked, At, Goto, queueVars, importVars
  <2>4. CASE StructsRetry(t) \/ StructsDrop(t)
    BY <2>4 DEF StructsRetry, StructsDrop, StructsChecked, At, Goto, queueVars, importVars
  <2> QED
    BY <1>3, <2>1, <2>2, <2>3, <2>4 DEF CheckStructs
<1>4. CASE CheckAndGenerate(t)
  <2>1. CASE CheckFunctions(t) \/ CheckGlobals(t)
    BY <2>1 DEF CheckFunctions, CheckGlobals, At, Goto, queueVars, importVars, localVars
  <2>2. CASE Gate(t)
    BY <2>2 DEF Gate, At, Goto, queueVars, importVars
  <2>3. CASE GenMain(t) \/ GenCalls(t)
    BY <2>3 DEF GenMain, GenCalls, At, Goto, queueVars, importVars, localVars
  <2> QED
    BY <1>4, <2>1, <2>2, <2>3 DEF CheckAndGenerate
<1> QED
  BY <1>1, <1>2, <1>3, <1>4

LEMMA InitTasks == Init => TasksInv
<1> SUFFICES ASSUME Init PROVE TasksInv
  OBVIOUS
<1>1. \A t \in Thread : Held(t) = {} /\ pc[t] # "enqueue"
  BY DEF Init, Held, WorkPc, LexPc, StructPc, FunctionPc, GenPc
<1>2. /\ DOMAIN tasks = 1 .. 2 /\ tasks[1].imp = 1 /\ tasks[2].imp = NoImport
      /\ Len(imports) = 1 /\ NoImport = 0
  BY DEF Init, PreloadTask, LexTask, NoImport
<1> QED
  BY <1>1, <1>2 DEF TasksInv, QueuedOnce, QueuedFree, HeldOnce

LEMMA TasksStep == TypeInv /\ TasksInv /\ [Next]_vars => TasksInv'
<1> SUFFICES ASSUME TypeInv, TasksInv, [Next]_vars PROVE TasksInv'
  OBVIOUS
<1>1. CASE UNCHANGED vars
  BY <1>1 DEF vars, queueVars, importVars, localVars, TasksInv, QueuedOnce, QueuedFree, HeldOnce, Held
<1>2. ASSUME NEW t \in Thread, ThreadStep(t) PROVE TasksInv'
  BY <1>2, TakeTaskStep, FinishStep, ParseBeginStep, CreateDepStep, EnqueueDepStep,
     OthersAreQuiet, QuietStep DEF ThreadStep, Schedule
<1> QED
  BY <1>1, <1>2 DEF Next, Terminated

\* Of the two sets of a set of at most one element between them.
LEMMA AtMostOne ==
    ASSUME NEW A, NEW B, A = {} \/ B = {},
           \A x, y \in A : x = y, \A x, y \in B : x = y
    PROVE  Cardinality(A) + Cardinality(B) <= 1
<1>1. ASSUME NEW S, \A x, y \in S : x = y
      PROVE  Cardinality(S) \in {0, 1}
  <2>1. CASE S = {}
    BY <2>1, FS_EmptySet
  <2>2. CASE S # {}
    <3>1. PICK x \in S : S = {x}
      BY <1>1, <2>2
    <3> QED
      BY <3>1, FS_Singleton
  <2> QED
    BY <2>1, <2>2
<1>2. Cardinality(A) \in {0, 1} /\ Cardinality(B) \in {0, 1}
  BY <1>1
<1>3. Cardinality(A) = 0 \/ Cardinality(B) = 0
  BY FS_EmptySet
<1> QED
  BY <1>2, <1>3

\* No import object is ever in two tasks, queued or worked on, so that its fields have
\* one writer outside of the locks: although two threads may create two objects for
\* one file, in any number of threads and imports, with circles and failed parses.
THEOREM ImportsAreTakenOnce == Spec => []OneTaskPerImport
<1>1. TasksInv => OneTaskPerImport
  <2> SUFFICES ASSUME TasksInv, NEW id \in ImportId
               PROVE  Cardinality({k \in DOMAIN tasks : tasks[k].imp = id})
                        + Cardinality({t \in Working : task[t].imp = id}) <= 1
    BY DEF OneTaskPerImport
  <2> DEFINE Q == {k \in DOMAIN tasks : tasks[k].imp = id}
             W == {t \in Working : task[t].imp = id}
  <2>1. id # NoImport
    BY DEF ImportId, NoImport
  <2>2. \A t \in W : t \in Thread /\ id \in Held(t)
    BY DEF Working, Held
  <2>3. \A k, l \in Q : k = l
    BY <2>1 DEF TasksInv, QueuedOnce
  <2>4. \A t, u \in W : t = u
    BY <2>2 DEF TasksInv, HeldOnce
  <2>5. Q = {} \/ W = {}
    BY <2>2 DEF TasksInv, QueuedFree
  <2> HIDE DEF Q, W
  <2>6. Cardinality(Q) + Cardinality(W) <= 1
    BY <2>3, <2>4, <2>5, AtMostOne
  <2> QED
    BY <2>6 DEF Q, W
<1>2. IInv => TypeInv
  BY DEF IInv
<1> QED
  BY <1>1, <1>2, InitTasks, TasksStep, Invariance, PTL DEF Spec


-----------------------------------------------------------------------------
(***************************************************************************)
(* The wait for the bodies of imports.                                     *)
(***************************************************************************)
\* The fixups of an import are still to come.
Coming(id) ==
    \/ \E k \in DOMAIN tasks : tasks[k].type = "TASK_LEX_FILE" /\ tasks[k].imp = id
    \/ \E t \in Thread : \/ pc[t] \in {"lex", "body", "fixups"} /\ task[t].imp = id
                         \/ pc[t] = "enqueue" /\ dep_imp[t] = id

\* Until then an import does not wait for anything itself.
Fresh(id) == id > Len(imports) \/ Coming(id)

\* A task in a later phase does not go back to the first.
PhaseInv ==
    \A t \in Thread :
        pc[t] \in StructPc \cup FunctionPc \cup GenPc \/ queue_task[t] =>
            task[t].type # "TASK_LEX_FILE"

WaitsInv ==
    \A id \in ImportId :
        /\ IsFiniteSet(Waits(id))
        /\ deps_count[id] = deps_now[id] + Cardinality(Waits(id))
        /\ Fresh(id) => Waits(id) = {}

\* The other threads keep their place.
Local(t) ==
    \A u \in Thread \ {t} : UNCHANGED <<pc[u], task[u], dep_imp[u], queue_task[u]>>

LEMMA ScheduleIsLocal ==
    ASSUME TypeInv, NEW t \in Thread, Schedule(t)
    PROVE  Local(t)
<1> USE DEF TypeInv, TypeOK, LocalTypeOK, Local, Goto
<1>1. CASE Wait(t) \/ Quit(t) \/ Idle(t)
  BY <1>1 DEF Wait, Quit, Idle, localVars
<1>2. CASE TakeTask(t)
  <2>1. PICK k \in DOMAIN tasks :
            task' = [task EXCEPT ![t] = tasks[k]] /\ Goto(t, Entry[tasks[k].type])
    BY <1>2 DEF TakeTask
  <2> QED
    BY <1>2, <2>1 DEF TakeTask
<1>3. CASE Finish(t)
  BY <1>3 DEF Finish
<1> QED
  BY <1>1, <1>2, <1>3 DEF Schedule

LEMMA LexIsLocal ==
    ASSUME TypeInv, NEW t \in Thread, LexFile(t)
    PROVE  Local(t)
<1> USE DEF TypeInv, TypeOK, LocalTypeOK, Local, Goto
<1>1. CASE LexFailure(t) \/ Fixups(t)
  BY <1>1 DEF LexFailure, Fixups, localVars
<1>2. CASE ParseBegin(t) \/ ParseEnd(t)
  BY <1>2 DEF ParseBegin, ParseEnd
<1>3. CASE FindImport(t) \/ SkipRepeated(t) \/ CreateDep(t)
  BY <1>3 DEF FindImport, SkipRepeated, CreateDep
<1>4. CASE EnqueueDep(t) \/ AttachDep(t) \/ LexDone(t)
  BY <1>4 DEF EnqueueDep, AttachDep, LexDone
<1> QED
  BY <1>1, <1>2, <1>3, <1>4 DEF LexFile

LEMMA ChecksAreLocal ==
    ASSUME TypeInv, NEW t \in Thread, CheckStructs(t) \/ CheckAndGenerate(t)
    PROVE  Local(t)
<1> USE DEF TypeInv, TypeOK, LocalTypeOK, Local, Goto
<1>1. CASE CreateStruct(t) \/ CheckMembers(t) \/ StructsReport(t)
  BY <1>1 DEF CreateStruct, CheckMembers, StructsReport
<1>2. CASE StructsSucceed(t) \/ StructsRetry(t) \/ StructsDrop(t)
  BY <1>2 DEF StructsSucceed, StructsRetry, StructsDrop
<1>3. CASE CheckFunctions(t) \/ Gate(t) \/ CheckGlobals(t)
  BY <1>3 DEF CheckFunctions, Gate, CheckGlobals, localVars
<1>4. CASE GenMain(t) \/ GenCalls(t)
  BY <1>4 DEF GenMain, GenCalls, localVars
<1> QED
  BY <1>1, <1>2, <1>3, <1>4 DEF CheckStructs, CheckAndGenerate

LEMMA StepIsLocal ==
    ASSUME TypeInv, NEW t \in Thread, ThreadStep(t)
    PROVE  Local(t)
  BY ScheduleIsLocal, LexIsLocal, ChecksAreLocal DEF ThreadStep

LEMMA PhaseStep ==
    ASSUME TypeInv, PhaseInv, NEW t \in Thread, ThreadStep(t)
    PROVE  PhaseInv'
<1> DEFINE Later(u) == pc[u] \in StructPc \cup FunctionPc \cup GenPc \/ queue_task[u]
           Lex(u) == task[u].type = "TASK_LEX_FILE"
<1>1. \A u \in Thread \ {t} : Later(u)' => ~Lex(u)'
  BY StepIsLocal DEF Local, PhaseInv
<1>2. Later(t)' => ~Lex(t)'
  <2>0. \A k \in DOMAIN tasks : tasks[k] \in Task
    BY DEF TypeInv, TypeOK, QueueTypeOK
  <2> USE DEF TypeInv, TypeOK, LocalTypeOK, Task, PhaseInv, StructPc, FunctionPc, GenPc, Goto, At
  <2>1. CASE Wait(t) \/ Quit(t) \/ Idle(t) \/ Finish(t)
    BY <2>1 DEF Wait, Quit, Idle, Finish, localVars
  <2>2. CASE TakeTask(t)
    <3>1. PICK k \in DOMAIN tasks :
              task' = [task EXCEPT ![t] = tasks[k]] /\ Goto(t, Entry[tasks[k].type])
      BY <2>2 DEF TakeTask
    <3>2. tasks[k] \in Task /\ task'[t] = tasks[k] /\ pc'[t] = Entry[tasks[k].type]
      BY <2>0, <3>1
    <3>3. tasks[k].type = "TASK_LEX_FILE" => pc'[t] = "lex"
      BY <3>2 DEF Entry, TaskType
    <3>4. pc[t] = "select" /\ UNCHANGED queue_task
      BY <2>2 DEF TakeTask
    <3>5. ~queue_task[t]
      BY <3>4 DEF ImportKnown
    <3> QED
      BY <3>2, <3>3, <3>4, <3>5
  <2>3. CASE LexFile(t)
    <3>1. CASE LexDone(t)
      BY <3>1 DEF LexDone
    <3>2. CASE ~LexDone(t)
      <4>1. /\ UNCHANGED queue_task
            /\ pc[t] \in LexPc /\ pc'[t] \in LexPc \cup {"finish"}
        BY <2>3, <3>2 DEF LexFile, LexFailure, ParseBegin, ParseEnd, Fixups, FindImport, SkipRepeated,
                          CreateDep, EnqueueDep, AttachDep, AfterFind, localVars, LexPc
      <4>2. ~queue_task[t]
        BY <4>1 DEF ImportKnown, LexPc
      <4> QED
        BY <4>1, <4>2 DEF LexPc
    <3> QED
      BY <3>1, <3>2
  <2>4. CASE CheckStructs(t)
    <3>1. pc[t] \in StructPc
      BY <2>4 DEF CheckStructs, CreateStruct, CheckMembers, StructsSucceed,
                  StructsReport, StructsRetry, StructsDrop, StructsChecked
    <3>2. ~Lex(t)
      BY <3>1
    <3>3. task'[t].type \in {task[t].type, "TASK_CHECK_FUNCTIONS"}
      BY <2>4 DEF CheckStructs, CreateStruct, CheckMembers, StructsSucceed,
                  StructsReport, StructsRetry, StructsDrop
    <3> QED
      BY <3>2, <3>3
  <2>5. CASE CheckAndGenerate(t)
    <3>1. pc[t] \in FunctionPc \cup GenPc
      BY <2>5 DEF CheckAndGenerate, CheckFunctions, Gate, CheckGlobals, GenMain, GenCalls
    <3>2. ~Lex(t)
      BY <3>1
    <3>3. CASE Gate(t)
      BY <3>2, <3>3 DEF Gate
    <3>4. CASE ~Gate(t)
      BY <2>5, <3>2, <3>4 DEF CheckAndGenerate, CheckFunctions, CheckGlobals, GenMain, GenCalls, localVars
    <3> QED
      BY <3>3, <3>4
  <2> QED
    BY <2>1, <2>2, <2>3, <2>4, <2>5 DEF ThreadStep, Schedule
<1> QED
  BY <1>1, <1>2 DEF PhaseInv

\* The ways in which a step can bring an import to the state before its fixups.
LEMMA FreshFrom ==
    ASSUME NEW t \in Thread, Local(t), NEW id \in ImportId, Fresh(id)',
           Len(imports) \in Nat, Len(imports') \in Nat, Len(imports) <= Len(imports'),
           \A k \in DOMAIN tasks' : tasks'[k].type = "TASK_LEX_FILE" /\ tasks'[k].imp = id => Fresh(id),
           pc'[t] \in {"lex", "body", "fixups"} /\ task'[t].imp = id => Fresh(id),
           pc'[t] = "enqueue" /\ dep_imp'[t] = id => Fresh(id)
    PROVE  Fresh(id)
<1>1. CASE id > Len(imports')
  BY <1>1, MaxImportsAssumption DEF Fresh, Coming, ImportId
<1>2. ASSUME NEW u \in Thread \ {t}, \/ pc'[u] \in {"lex", "body", "fixups"} /\ task'[u].imp = id
                                     \/ pc'[u] = "enqueue" /\ dep_imp'[u] = id
      PROVE  Fresh(id)
  BY <1>2 DEF Local, Fresh, Coming
<1> QED
  BY <1>1, <1>2 DEF Fresh, Coming

LEMMA FreshShrinks ==
    ASSUME TypeInv, PhaseInv, NEW t \in Thread, ThreadStep(t), NEW id \in ImportId, Fresh(id)'
    PROVE  Fresh(id)
<1> USE DEF TypeInv, TypeOK, LocalTypeOK
<1>1. Local(t)
  BY StepIsLocal
<1>2. imports \in Seq(File) /\ Len(imports) \in Nat /\ NoImport # id
  BY DEF ImportTypeOK, NoImport, ImportId
<1>3. CASE Quiet(t) /\ (pc'[t] \in {"lex", "body", "fixups"} => pc[t] \in {"lex", "body", "fixups"})
  BY <1>1, <1>2, <1>3, FreshFrom DEF Quiet, Fresh, Coming
<1>4. CASE TakeTask(t)
  <2>1. PICK k \in DOMAIN tasks :
            task' = [task EXCEPT ![t] = tasks[k]] /\ tasks' = Erase(k) /\ Goto(t, Entry[tasks[k].type])
    BY <1>4 DEF TakeTask
  <2>2. /\ tasks[k] \in Task /\ task'[t] = tasks[k] /\ pc'[t] = Entry[tasks[k].type]
        /\ \A j \in DOMAIN tasks' : \E m \in DOMAIN tasks : tasks'[j] = tasks[m]
    BY <2>1, EraseType DEF QueueTypeOK, Goto
  <2>3. pc'[t] \in {"lex", "body", "fixups"} => tasks[k].type = "TASK_LEX_FILE"
    BY <2>2 DEF Entry, TaskType, Task
  <2>4. pc'[t] # "enqueue"
    BY <2>2 DEF Entry, TaskType, Task
  <2>5. UNCHANGED imports
    BY <1>4 DEF TakeTask, importVars
  <2>6. \A j \in DOMAIN tasks' : tasks'[j].type = "TASK_LEX_FILE" /\ tasks'[j].imp = id => Fresh(id)
    BY <2>2 DEF Fresh, Coming
  <2>7. pc'[t] \in {"lex", "body", "fixups"} /\ task'[t].imp = id => Fresh(id)
    BY <2>2, <2>3 DEF Fresh, Coming
  <2> QED
    BY <1>1, <1>2, <2>4, <2>5, <2>6, <2>7, FreshFrom
<1>5. CASE Finish(t)
  <2>1. UNCHANGED imports /\ pc'[t] = "wait"
    BY <1>5 DEF Finish, Goto, importVars
  <2>2. ASSUME NEW k \in DOMAIN tasks', tasks'[k].type = "TASK_LEX_FILE"
        PROVE  \E m \in DOMAIN tasks : tasks'[k] = tasks[m]
    <3>1. CASE queue_task[t]
      <4>1. task[t].type # "TASK_LEX_FILE" /\ tasks' = Append(tasks, task[t])
        BY <1>5, <3>1 DEF Finish, PhaseInv
      <4>2. tasks \in Seq(Task) /\ task[t] \in Task
        BY DEF QueueTypeOK
      <4> QED
        BY <2>2, <4>1, <4>2, AppendProperties
    <3>2. CASE ~queue_task[t]
      BY <1>5, <3>2 DEF Finish
    <3> QED
      BY <3>1, <3>2
  <2>3. \A k \in DOMAIN tasks' : tasks'[k].type = "TASK_LEX_FILE" /\ tasks'[k].imp = id => Fresh(id)
    BY <2>2 DEF Fresh, Coming
  <2>4. Len(imports') \in Nat /\ Len(imports) <= Len(imports') /\ pc'[t] \notin {"lex", "body", "fixups", "enqueue"}
    BY <1>2, <2>1
  <2> QED
    BY <1>1, <1>2, <2>3, <2>4, FreshFrom
<1>6. CASE EnqueueDep(t)
  <2>1. /\ UNCHANGED imports /\ pc[t] = "enqueue" /\ pc'[t] = "find"
        /\ tasks' = Append(tasks, LexTask(Imported(t)[i[t]], dep_imp[t]))
    BY <1>6 DEF EnqueueDep, At, Goto
  <2>2. ASSUME NEW k \in DOMAIN tasks'
        PROVE  (\E m \in DOMAIN tasks : tasks'[k] = tasks[m]) \/ tasks'[k].imp = dep_imp[t]
    <3>1. tasks \in Seq(Task)
      BY DEF QueueTypeOK
    <3> QED
      BY <2>1, <3>1, AppendProperties DEF LexTask
  <2>3. \A k \in DOMAIN tasks' : tasks'[k].type = "TASK_LEX_FILE" /\ tasks'[k].imp = id => Fresh(id)
    BY <2>1, <2>2 DEF Fresh, Coming
  <2>4. Len(imports') \in Nat /\ Len(imports) <= Len(imports') /\ pc'[t] \notin {"lex", "body", "fixups", "enqueue"}
    BY <1>2, <2>1
  <2> QED
    BY <1>1, <1>2, <2>3, <2>4, FreshFrom
<1>7. CASE CreateDep(t)
  <2>1. PICK new \in ImportId : CreateImport(Imported(t)[i[t]], new) /\ dep_imp' = [dep_imp EXCEPT ![t] = new]
    BY <1>7 DEF CreateDep
  <2>2. new = Len(imports) + 1 /\ Len(imports') = Len(imports) + 1
    BY <1>2, <2>1, AppendProperties DEF CreateImport
  <2>3. UNCHANGED tasks /\ pc'[t] = "enqueue" /\ dep_imp'[t] = new
    BY <1>7, <2>1 DEF CreateDep, Goto, queueVars
  <2>4. \A k \in DOMAIN tasks' : tasks'[k].type = "TASK_LEX_FILE" /\ tasks'[k].imp = id => Fresh(id)
    BY <2>3 DEF Fresh, Coming
  <2>5. new > Len(imports) /\ Len(imports) <= Len(imports') /\ Len(imports') \in Nat
    BY <1>2, <2>2
  <2>6. new = id => Fresh(id)
    BY <2>5 DEF Fresh, Coming
  <2> QED
    BY <1>1, <1>2, <2>3, <2>4, <2>5, <2>6, FreshFrom
<1>8. CASE ParseBegin(t)
  <2>1. UNCHANGED tasks /\ pc[t] = "lex" /\ pc'[t] = "body"
    BY <1>8 DEF ParseBegin, At, Goto, queueVars
  <2>2. \A k \in DOMAIN tasks' : tasks'[k].type = "TASK_LEX_FILE" /\ tasks'[k].imp = id => Fresh(id)
    BY <2>1 DEF Fresh, Coming
  <2>3. CASE task[t].imp # NoImport
    <3>1. UNCHANGED <<imports, task>>
      BY <1>8, <2>3 DEF ParseBegin
    <3>2. task'[t].imp = id => Fresh(id)
      BY <2>1, <3>1 DEF Fresh, Coming
    <3> QED
      BY <1>1, <1>2, <2>1, <2>2, <3>1, <3>2, FreshFrom
  <2>4. CASE task[t].imp = NoImport
    <3>1. PICK new \in ImportId : CreateImport(task[t].name, new) /\ task' = [task EXCEPT ![t].imp = new]
      BY <1>8, <2>4 DEF ParseBegin
    <3>2. new = Len(imports) + 1 /\ Len(imports') = Len(imports) + 1 /\ task'[t].imp = new
      BY <1>2, <3>1, AppendProperties DEF CreateImport, Task
    <3>3. new > Len(imports) /\ Len(imports) <= Len(imports') /\ Len(imports') \in Nat
      BY <1>2, <3>2
    <3>4. task'[t].imp = id => Fresh(id)
      BY <3>2, <3>3 DEF Fresh, Coming
    <3> QED
      BY <1>1, <1>2, <2>1, <2>2, <3>3, <3>4, FreshFrom
  <2> QED
    BY <2>3, <2>4
<1>9. CASE \/ Wait(t) \/ Quit(t) \/ Idle(t)
           \/ LexFile(t) /\ ~ParseBegin(t) /\ ~CreateDep(t) /\ ~EnqueueDep(t)
           \/ CheckStructs(t) \/ CheckAndGenerate(t)
  <2>1. Quiet(t)
    BY <1>9, OthersAreQuiet
  <2>2. pc'[t] \in {"lex", "body", "fixups"} => pc[t] \in {"lex", "body", "fixups"}
    BY <1>9 DEF At, Goto, Wait, Quit, Idle, LexFile, LexFailure, ParseEnd, Fixups, FindImport, SkipRepeated,
                AttachDep, LexDone, AfterFind, CheckStructs, CreateStruct, CheckMembers, StructsSucceed,
                StructsReport, StructsRetry, StructsDrop, CheckAndGenerate, CheckFunctions, Gate,
                CheckGlobals, GenMain, GenCalls
  <2> QED
    BY <1>3, <2>1, <2>2
<1> QED
  BY <1>4, <1>5, <1>6, <1>7, <1>8, <1>9 DEF ThreadStep, Schedule

LEMMA PlacesElements ==
    ASSUME NEW f, NEW id, NEW w
    PROVE  w \in UNION {{dep} \X {k \in DOMAIN f[dep] : f[dep][k] = id} : dep \in ImportId}
             <=> \E dep \in ImportId : \E k \in DOMAIN f[dep] : w = <<dep, k>> /\ f[dep][k] = id
<1>1. ASSUME NEW dep
      PROVE  w \in {dep} \X {k \in DOMAIN f[dep] : f[dep][k] = id}
               <=> \E k \in DOMAIN f[dep] : w = <<dep, k>> /\ f[dep][k] = id
  OBVIOUS
<1>2. w \in UNION {{dep} \X {k \in DOMAIN f[dep] : f[dep][k] = id} : dep \in ImportId}
        <=> \E dep \in ImportId : w \in {dep} \X {k \in DOMAIN f[dep] : f[dep][k] = id}
  BY Zenon
<1> QED
  BY <1>1, <1>2, Zenon

LEMMA WaitsElements ==
    ASSUME NEW id, NEW w
    PROVE  w \in Waits(id) <=>
               \E dep \in ImportId : \E k \in DOMAIN fixups[dep] :
                   w = <<dep, k>> /\ fixups[dep][k] = id
  BY PlacesElements, Z3 DEF Waits

LEMMA WaitsElementsNext ==
    ASSUME NEW id, NEW w
    PROVE  w \in Waits(id)' <=>
               \E dep \in ImportId : \E k \in DOMAIN fixups'[dep] :
                   w = <<dep, k>> /\ fixups'[dep][k] = id
  BY PlacesElements, Z3 DEF Waits

\* A registered wait is one more place for the import that waits, and for no other.
LEMMA WaitForWaits ==
    ASSUME TypeInv, NEW imp \in ImportId, NEW dep \in ImportId, WaitFor(imp, dep)
    PROVE  \E w : /\ w \notin Waits(imp)
                  /\ Waits(imp)' = Waits(imp) \cup {w}
                  /\ \A id \in ImportId \ {imp} : Waits(id)' = Waits(id)
<1> DEFINE n == Len(fixups[dep])
           w == <<dep, n + 1>>
<1>1. /\ fixups \in [ImportId -> Seq(ImportId)] /\ fixups[dep] \in Seq(ImportId)
      /\ n \in Nat /\ DOMAIN fixups[dep] = 1 .. n
  BY DEF TypeInv, TypeOK, ImportTypeOK
<1>2. /\ \A d \in ImportId \ {dep} : fixups'[d] = fixups[d]
      /\ fixups'[dep] = Append(fixups[dep], imp)
  BY <1>1 DEF WaitFor
<1>3. /\ DOMAIN fixups'[dep] = 1 .. n + 1 /\ fixups'[dep][n + 1] = imp
      /\ \A k \in 1 .. n : fixups'[dep][k] = fixups[dep][k]
  BY <1>1, <1>2, AppendProperties
<1>4. ASSUME NEW id \in ImportId
      PROVE  \A x : x \in Waits(id)' <=> x \in Waits(id) \/ (x = w /\ id = imp)
  <2>1. ASSUME NEW d \in ImportId, NEW k
        PROVE  k \in DOMAIN fixups'[d] /\ fixups'[d][k] = id
                 <=> \/ k \in DOMAIN fixups[d] /\ fixups[d][k] = id
                     \/ d = dep /\ k = n + 1 /\ id = imp
    <3>1. CASE d = dep
      BY <1>1, <1>3, <3>1
    <3>2. CASE d # dep
      BY <1>2, <3>2
    <3> QED
      BY <3>1, <3>2
  <2>2. \A x : x \in Waits(id)' <=>
               \E d \in ImportId : \E k \in DOMAIN fixups'[d] : x = <<d, k>> /\ fixups'[d][k] = id
    BY WaitsElementsNext
  <2> HIDE DEF n
  <2> QED
    BY <2>1, <2>2, WaitsElements
<1>5. w \notin Waits(imp)
  <2>1. n + 1 \notin DOMAIN fixups[dep]
    BY <1>1
  <2> QED
    BY <2>1, WaitsElements
<1> QED
  BY <1>4, <1>5

\* The delivery of a body takes away the places at which its import was waited for.
LEMMA DeliveryWaits ==
    ASSUME TypeInv, NEW imp \in ImportId, fixups' = [fixups EXCEPT ![imp] = << >>],
           NEW id \in ImportId, IsFiniteSet(Waits(id))
    PROVE  /\ Waits(id)' \subseteq Waits(id)
           /\ IsFiniteSet(Waits(id)')
           /\ Cardinality(Waits(id)) = Cardinality(Waits(id)') + Occurrences(fixups[imp], id)
           /\ Occurrences(fixups[imp], id) \in Nat
<1> DEFINE K == {k \in DOMAIN fixups[imp] : fixups[imp][k] = id}
           R == {imp} \X K
<1>1. fixups \in [ImportId -> Seq(ImportId)]
  BY DEF TypeInv, TypeOK, ImportTypeOK
<1>2. /\ \A d \in ImportId \ {imp} : fixups'[d] = fixups[d]
      /\ DOMAIN fixups'[imp] = {}
  BY <1>1
<1>3. \A x : x \in Waits(id)' <=>
             \E d \in ImportId : \E k \in DOMAIN fixups'[d] : x = <<d, k>> /\ fixups'[d][k] = id
  BY WaitsElementsNext
<1>4. \A x : x \in R <=> \E k \in DOMAIN fixups[imp] : x = <<imp, k>> /\ fixups[imp][k] = id
  OBVIOUS
<1>5. R \subseteq Waits(id)
  BY <1>4, WaitsElements
<1>6. Waits(id)' = Waits(id) \ R
  BY <1>2, <1>3, <1>4, WaitsElements
<1>7. IsFiniteSet(K)
  <2>1. fixups[imp] \in Seq(ImportId)
    BY <1>1
  <2>2. DOMAIN fixups[imp] = 1 .. Len(fixups[imp]) /\ Len(fixups[imp]) \in Nat
    BY <2>1
  <2>3. IsFiniteSet(DOMAIN fixups[imp])
    BY <2>2, FS_Interval
  <2> QED
    BY <2>3, FS_Subset
<1>8. IsFiniteSet(R) /\ Cardinality(R) = Cardinality(K) /\ Cardinality(K) \in Nat
  <2>1. IsFiniteSet({imp}) /\ Cardinality({imp}) = 1
    BY FS_Singleton
  <2>2. Cardinality(K) \in Nat
    BY <1>7, FS_CardinalityType
  <2>3. IsFiniteSet(R) /\ Cardinality(R) = Cardinality({imp}) * Cardinality(K)
    BY <1>7, <2>1, FS_Product
  <2> QED
    BY <2>1, <2>2, <2>3
<1>9. IsFiniteSet(Waits(id)') /\ Cardinality(Waits(id)') = Cardinality(Waits(id)) - Cardinality(R)
  <2>1. Waits(id) \cap R = R
    BY <1>5
  <2>2. /\ IsFiniteSet(Waits(id) \ R)
        /\ Cardinality(Waits(id) \ R) = Cardinality(Waits(id)) - Cardinality(Waits(id) \cap R)
    BY <1>8, FS_Difference
  <2> QED
    BY <1>6, <2>1, <2>2
<1>10. Cardinality(Waits(id)) \in Nat
  BY FS_CardinalityType
<1>11. Occurrences(fixups[imp], id) = Cardinality(K)
  BY DEF Occurrences
<1> HIDE DEF K, R
<1> QED
  BY <1>6, <1>8, <1>9, <1>10, <1>11


\* A step that registers nothing and delivers nothing.
LEMMA NoWaitStep ==
    ASSUME TypeInv, PhaseInv, WaitsInv, NEW t \in Thread, ThreadStep(t),
           UNCHANGED <<fixups, deps_count, deps_now>>
    PROVE  WaitsInv'
<1>1. ASSUME NEW id \in ImportId, Fresh(id)' PROVE Waits(id) = {}
  BY <1>1, FreshShrinks DEF WaitsInv
<1>2. \A id \in ImportId : Waits(id)' = Waits(id)
  BY DEF Waits
<1> QED
  BY <1>1, <1>2 DEF WaitsInv

\* The thread registers the import of its task, which is not fresh any more.
LEMMA WaitForStep ==
    ASSUME TypeInv, PhaseInv, TasksInv, WaitsInv, NEW t \in Thread, ThreadStep(t),
           pc[t] \in {"enqueue", "attach"}, WaitFor(task[t].imp, dep_imp[t]), UNCHANGED deps_now
    PROVE  WaitsInv'
<1>1. PICK imp \in ImportId, dep \in ImportId : imp = task[t].imp /\ dep = dep_imp[t] /\ WaitFor(imp, dep)
  BY DEF TypeInv, TypeOK, LocalTypeOK, ImportKnown, Task, WorkPc, LexPc
<1>2. ~Fresh(imp)
  <2>1. imp \in Held(t) /\ pc[t] \notin {"lex", "body", "fixups"}
    BY <1>1 DEF Held, WorkPc, LexPc
  <2>2. imp <= Len(imports) /\ Len(imports) \in Nat /\ imp \in Nat
    <3>1. imp <= Len(imports)
      BY <2>1 DEF TasksInv, HeldOnce
    <3>2. Len(imports) \in Nat
      BY DEF TypeInv, TypeOK, ImportTypeOK
    <3>3. imp \in Nat
      BY DEF ImportId
    <3> QED
      BY <3>1, <3>2, <3>3
  <2>3. \A k \in DOMAIN tasks : tasks[k].imp # imp
    BY <2>1 DEF TasksInv, QueuedFree
  <2>4. \A u \in Thread \ {t} : /\ ~(pc[u] \in {"lex", "body", "fixups"} /\ task[u].imp = imp)
                                /\ ~(pc[u] = "enqueue" /\ dep_imp[u] = imp)
    BY <1>1, <2>1 DEF TasksInv, HeldOnce, Held, WorkPc, LexPc
  <2>5. ~(pc[t] = "enqueue" /\ dep_imp[t] = imp)
    BY <1>1 DEF TasksInv, HeldOnce
  <2> QED
    BY <2>1, <2>2, <2>3, <2>4, <2>5 DEF Fresh, Coming
<1>3. PICK w : /\ w \notin Waits(imp)
               /\ Waits(imp)' = Waits(imp) \cup {w}
               /\ \A id \in ImportId \ {imp} : Waits(id)' = Waits(id)
  BY <1>1, WaitForWaits
<1>4. /\ deps_count'[imp] = deps_count[imp] + 1
      /\ \A id \in ImportId \ {imp} : deps_count'[id] = deps_count[id]
      /\ \A id \in ImportId : deps_count[id] \in Nat /\ deps_now[id] \in Nat
  BY <1>1 DEF WaitFor, TypeInv, TypeOK, ImportTypeOK
<1>5. ASSUME NEW id \in ImportId, Fresh(id)' PROVE Fresh(id)
  BY <1>5, FreshShrinks
<1> SUFFICES ASSUME NEW id \in ImportId
             PROVE  /\ IsFiniteSet(Waits(id)')
                    /\ deps_count'[id] = deps_now[id] + Cardinality(Waits(id)')
                    /\ Fresh(id)' => Waits(id)' = {}
  BY DEF WaitsInv
<1>6. CASE id = imp
  <2>1. IsFiniteSet(Waits(imp)') /\ Cardinality(Waits(imp)') = Cardinality(Waits(imp)) + 1
    BY <1>1, <1>3, FS_AddElement DEF WaitsInv
  <2>2. Cardinality(Waits(imp)) \in Nat
    BY <1>1, FS_CardinalityType DEF WaitsInv
  <2>3. deps_count[imp] = deps_now[imp] + Cardinality(Waits(imp))
    BY <1>1 DEF WaitsInv
  <2> QED
    BY <1>1, <1>2, <1>4, <1>5, <1>6, <2>1, <2>2, <2>3
<1>7. CASE id # imp
  BY <1>3, <1>4, <1>5, <1>7 DEF WaitsInv
<1> QED
  BY <1>6, <1>7

\* The body arrives: what is told to an import that waits is what was registered.
LEMMA FixupsStep ==
    ASSUME TypeInv, PhaseInv, WaitsInv, NEW t \in Thread, ThreadStep(t), Fixups(t)
    PROVE  WaitsInv'
<1> DEFINE imp == task[t].imp
<1>1. CASE imp = NoImport
  BY <1>1, NoWaitStep DEF Fixups
<1>2. CASE imp # NoImport
  <2>1. imp \in ImportId
    BY <1>2 DEF TypeInv, TypeOK, LocalTypeOK, Task
  <2>2. /\ pc[t] = "fixups" /\ fixups' = [fixups EXCEPT ![imp] = << >>]
        /\ deps_count' = [deps_count EXCEPT ![imp] = 0]
        /\ deps_now' = [id \in ImportId |->
                           IF id = imp THEN 0 ELSE deps_now[id] + Occurrences(fixups[imp], id)]
    BY <1>2 DEF Fixups, At
  <2>3. Waits(imp) = {}
    <3>1. Fresh(imp)
      BY <2>2 DEF Fresh, Coming
    <3> QED
      BY <2>1, <3>1 DEF WaitsInv
  <2> HIDE DEF imp
  <2> SUFFICES ASSUME NEW id \in ImportId
               PROVE  /\ IsFiniteSet(Waits(id)')
                      /\ deps_count'[id] = deps_now'[id] + Cardinality(Waits(id)')
                      /\ Fresh(id)' => Waits(id)' = {}
    BY DEF WaitsInv
  <2>4. /\ IsFiniteSet(Waits(id)) /\ deps_count[id] = deps_now[id] + Cardinality(Waits(id))
        /\ Fresh(id) => Waits(id) = {}
    BY DEF WaitsInv
  <2>5. /\ Waits(id)' \subseteq Waits(id)
        /\ IsFiniteSet(Waits(id)')
        /\ Cardinality(Waits(id)) = Cardinality(Waits(id)') + Occurrences(fixups[imp], id)
        /\ Occurrences(fixups[imp], id) \in Nat
    BY <2>1, <2>2, <2>4, DeliveryWaits
  <2>6. Fresh(id)' => Waits(id)' = {}
    BY <2>4, <2>5, FreshShrinks
  <2>7. deps_count'[id] = deps_now'[id] + Cardinality(Waits(id)')
    <3>1. deps_count[id] \in Nat /\ deps_now[id] \in Nat /\ deps_count \in [ImportId -> Nat]
      BY DEF TypeInv, TypeOK, ImportTypeOK
    <3>2. Cardinality(Waits(id)') \in Nat /\ Cardinality(Waits(id)) \in Nat
      BY <2>4, <2>5, FS_CardinalityType
    <3>3. CASE id = imp
      <4>1. Waits(id)' = {} /\ Cardinality({}) = 0
        BY <2>3, <2>5, <3>3, FS_EmptySet
      <4>2. deps_count'[id] = 0 /\ deps_now'[id] = 0
        BY <2>2, <3>1, <3>3
      <4> QED
        BY <4>1, <4>2
    <3>4. CASE id # imp
      <4>1. /\ deps_count'[id] = deps_count[id]
            /\ deps_now'[id] = deps_now[id] + Occurrences(fixups[imp], id)
        BY <2>2, <3>1, <3>4
      <4> QED
        BY <2>4, <2>5, <3>1, <3>2, <4>1
    <3> QED
      BY <3>3, <3>4
  <2> QED
    BY <2>5, <2>6, <2>7
<1> QED
  BY <1>1, <1>2


\* The other steps leave the waits alone.
LEMMA OthersDoNotWait ==
    ASSUME NEW t \in Thread, ThreadStep(t), ~Fixups(t), ~EnqueueDep(t), ~AttachDep(t)
    PROVE  UNCHANGED <<fixups, deps_count, deps_now>>
<1>1. CASE Wait(t) \/ Quit(t) \/ Idle(t) \/ TakeTask(t) \/ Finish(t)
  BY <1>1 DEF Wait, Quit, Idle, TakeTask, Finish, importVars
<1>2. CASE LexFailure(t) \/ ParseBegin(t) \/ ParseEnd(t) \/ LexDone(t)
  BY <1>2 DEF LexFailure, ParseBegin, ParseEnd, LexDone, importVars
<1>3. CASE FindImport(t) \/ SkipRepeated(t) \/ CreateDep(t)
  BY <1>3 DEF FindImport, SkipRepeated, CreateDep, importVars
<1>4. CASE CreateStruct(t) \/ CheckMembers(t) \/ StructsReport(t)
  BY <1>4 DEF CreateStruct, CheckMembers, StructsReport, importVars
<1>5. CASE StructsSucceed(t) \/ StructsRetry(t) \/ StructsDrop(t)
  BY <1>5 DEF StructsSucceed, StructsRetry, StructsDrop, importVars
<1>6. CASE CheckFunctions(t) \/ Gate(t) \/ CheckGlobals(t)
  BY <1>6 DEF CheckFunctions, Gate, CheckGlobals, importVars
<1>7. CASE GenMain(t) \/ GenCalls(t)
  BY <1>7 DEF GenMain, GenCalls, importVars
<1> QED
  BY <1>1, <1>2, <1>3, <1>4, <1>5, <1>6, <1>7
     DEF ThreadStep, Schedule, LexFile, CheckStructs, CheckAndGenerate

LEMMA WaitsStep ==
    ASSUME TypeInv, PhaseInv, TasksInv, WaitsInv, NEW t \in Thread, ThreadStep(t)
    PROVE  WaitsInv'
<1>1. CASE Fixups(t)
  BY <1>1, FixupsStep
<1>2. CASE EnqueueDep(t)
  BY <1>2, WaitForStep DEF EnqueueDep, At
<1>3. CASE AttachDep(t)
  <2>1. CASE HasBody(dep_imp[t])
    BY <1>3, <2>1, NoWaitStep DEF AttachDep
  <2>2. CASE ~HasBody(dep_imp[t])
    BY <1>3, <2>2, WaitForStep DEF AttachDep, At
  <2> QED
    BY <2>1, <2>2
<1>4. CASE ~Fixups(t) /\ ~EnqueueDep(t) /\ ~AttachDep(t)
  BY <1>4, OthersDoNotWait, NoWaitStep
<1> QED
  BY <1>1, <1>2, <1>3, <1>4

LEMMA InitWaits == Init => PhaseInv /\ WaitsInv
<1> SUFFICES ASSUME Init PROVE PhaseInv /\ WaitsInv
  OBVIOUS
<1>1. PhaseInv
  BY DEF Init, PhaseInv, StructPc, FunctionPc, GenPc
<1>2. ASSUME NEW id \in ImportId PROVE Waits(id) = {}
  <2>1. \A dep \in ImportId : DOMAIN fixups[dep] = {}
    BY DEF Init
  <2> QED
    BY <2>1, WaitsElements
<1>3. \A id \in ImportId : deps_count[id] = 0 /\ deps_now[id] = 0
  BY DEF Init
<1>4. IsFiniteSet({}) /\ Cardinality({}) = 0
  BY FS_EmptySet
<1> QED
  BY <1>1, <1>2, <1>3, <1>4 DEF WaitsInv

\* What an import still waits for is what is registered, in any order of creation,
\* attachment and delivery: no body is lost to an import that waits, and none is
\* counted that will not come.
THEOREM WaitsAreExact == Spec => []PendingDeps
<1> DEFINE Inv == PhaseInv /\ TasksInv /\ WaitsInv
<1>1. Init => Inv
  BY InitTasks, InitWaits
<1>2. TypeInv /\ Inv /\ [Next]_vars => Inv'
  <2> SUFFICES ASSUME TypeInv, Inv, [Next]_vars PROVE Inv'
    OBVIOUS
  <2>1. TasksInv'
    BY TasksStep
  <2>2. CASE UNCHANGED vars
    <3>1. UNCHANGED <<fixups, deps_count, deps_now, imports, tasks, pc, task, dep_imp, queue_task>>
      BY <2>2 DEF vars, queueVars, importVars, localVars
    <3>2. PhaseInv'
      BY <3>1 DEF PhaseInv
    <3>3. \A id \in ImportId : Waits(id)' = Waits(id) /\ Fresh(id)' = Fresh(id)
      BY <3>1 DEF Waits, Fresh, Coming
    <3>4. WaitsInv'
      BY <3>1, <3>3 DEF WaitsInv
    <3> QED
      BY <2>1, <3>2, <3>4
  <2>3. ASSUME NEW t \in Thread, ThreadStep(t) PROVE PhaseInv' /\ WaitsInv'
    BY <2>3, PhaseStep, WaitsStep
  <2> QED
    BY <2>1, <2>2, <2>3 DEF Next, Terminated
<1>3. IInv => TypeInv
  BY DEF IInv
<1>4. Inv => PendingDeps
  BY DEF WaitsInv, PendingDeps
<1> HIDE DEF Inv
<1> QED
  BY <1>1, <1>2, <1>3, <1>4, Invariance, PTL DEF Spec


-----------------------------------------------------------------------------
(***************************************************************************)
(* The delivery of bodies: whoever is waited for will deliver, or the      *)
(* failure has been reported.                                              *)
(***************************************************************************)
\* The fixups of an import are still to come, or done, or they will never come.
Settled(id) ==
    \/ Coming(id)
    \/ fixups[id] = << >> /\ body[id] # "none"
    \/ errors /\ body[id] # "parsed"

\* A queued file belongs to its import, which has no body yet.
QueueInv ==
    \A k \in DOMAIN tasks :
        tasks[k].type = "TASK_LEX_FILE" /\ tasks[k].imp # NoImport =>
            /\ tasks[k] = LexTask(imports[tasks[k].imp], tasks[k].imp)
            /\ body[tasks[k].imp] = "none"

\* How far the body of the import of a thread is.
BodyOf(t) ==
    /\ dep_imp[t] <= Len(imports)
    /\ pc[t] = "lex" /\ task[t].imp # NoImport => body[task[t].imp] = "none"
    /\ pc[t] = "body" => body[task[t].imp] = "parsing"
    /\ pc[t] = "fixups" /\ task[t].imp # NoImport => body[task[t].imp] = "parsed"
    /\ pc[t] = "enqueue" => body[dep_imp[t]] = "none" /\ imports[dep_imp[t]] = Imported(t)[i[t]]

\* No import is known before it is created.
KnownInv ==
    /\ \A f \in File : import_map[f] <= Len(imports)
    /\ \A id \in ImportId : id > Len(imports) => fixups[id] = << >> /\ body[id] = "none"

DeliveryInv ==
    /\ QueueInv
    /\ \A t \in Thread : BodyOf(t)
    /\ KnownInv
    /\ \A id \in ImportId : id <= Len(imports) => Settled(id)

\* What every step respects.
Respects(t) ==
    /\ \A u \in Thread \ {t} : i'[u] = i[u]
    /\ program' = program
    /\ Len(imports') \in Nat /\ Len(imports) <= Len(imports')
    /\ \A id \in 1 .. Len(imports) : imports'[id] = imports[id]
    /\ errors => errors'
    /\ \A id \in ImportId :
          /\ body'[id] # body[id] => pc'[t] \in {"body", "fixups"} /\ task'[t].imp = id
          /\ \/ fixups'[id] \in {fixups[id], << >>}
             \/ body[id] = "none" /\ id <= Len(imports)

\* What a step does with the tasks of the first phase.
QueueMoves(t) ==
    /\ \A k \in DOMAIN tasks' :
          \/ \E m \in DOMAIN tasks : tasks'[k] = tasks[m]
          \/ tasks'[k].type # "TASK_LEX_FILE"
          \/ pc[t] = "enqueue" /\ tasks'[k] = LexTask(Imported(t)[i[t]], dep_imp[t])
    /\ \A m \in DOMAIN tasks :
          \/ \E k \in DOMAIN tasks' : tasks'[k] = tasks[m]
          \/ tasks[m].type # "TASK_LEX_FILE"
          \/ pc'[t] = "lex" /\ task'[t] = tasks[m]

LEMMA QueueKept ==
    ASSUME TypeInv, TasksInv, TasksInv', DeliveryInv, NEW t \in Thread, Respects(t), QueueMoves(t)
    PROVE  QueueInv'
<1> SUFFICES ASSUME NEW k \in DOMAIN tasks', tasks'[k].type = "TASK_LEX_FILE", tasks'[k].imp # NoImport
             PROVE  /\ tasks'[k] = LexTask(imports'[tasks'[k].imp], tasks'[k].imp)
                    /\ body'[tasks'[k].imp] = "none"
  BY DEF QueueInv, LexTask
<1> DEFINE x == tasks'[k]
<1>1. /\ \A id \in ImportId : id \in Nat /\ id >= 1 /\ id # NoImport
      /\ \A u \in Thread : dep_imp[u] \in ImportId \cup {NoImport}
      /\ \A m \in DOMAIN tasks : tasks[m].imp \in ImportId \cup {NoImport}
      /\ Len(imports) \in Nat
  <2>1. \A m \in DOMAIN tasks : tasks[m] \in Task
    BY DEF TypeInv, TypeOK, QueueTypeOK
  <2> QED
    BY <2>1 DEF TypeInv, TypeOK, LocalTypeOK, ImportTypeOK, ImportId, NoImport, Task
<1>2. /\ x.imp \in ImportId /\ x.imp <= Len(imports)
      /\ x = LexTask(imports[x.imp], x.imp) /\ body[x.imp] = "none"
  <2>1. CASE \E m \in DOMAIN tasks : x = tasks[m]
    BY <1>1, <2>1 DEF DeliveryInv, QueueInv, TasksInv, QueuedFree
  <2>2. CASE pc[t] = "enqueue" /\ x = LexTask(Imported(t)[i[t]], dep_imp[t])
    <3>1. x.imp = dep_imp[t]
      BY <2>2 DEF LexTask
    <3> QED
      BY <1>1, <2>2, <3>1 DEF DeliveryInv, BodyOf
  <2> QED
    BY <2>1, <2>2 DEF QueueMoves
<1>3. body'[x.imp] = body[x.imp]
  <2>1. x.imp \notin Held(t)'
    BY DEF TasksInv, QueuedFree
  <2>2. ~(pc'[t] \in {"body", "fixups"} /\ task'[t].imp = x.imp)
    BY <1>2, <2>1 DEF Held, WorkPc, LexPc
  <2> QED
    BY <1>2, <2>2 DEF Respects
<1>4. imports'[x.imp] = imports[x.imp]
  BY <1>1, <1>2 DEF Respects
<1> HIDE DEF x
<1>5. x = LexTask(imports'[x.imp], x.imp) /\ body'[x.imp] = "none"
  BY <1>2, <1>3, <1>4
<1> QED
  BY <1>5 DEF x

LEMMA BodiesKept ==
    ASSUME TypeInv, TasksInv, TasksInv', DeliveryInv, NEW t \in Thread, Local(t), Respects(t),
           NEW u \in Thread \ {t}
    PROVE  BodyOf(u)'
<1>1. /\ UNCHANGED <<pc[u], task[u], dep_imp[u], i[u], program>>
      /\ BodyOf(u) /\ Len(imports) \in Nat /\ Len(imports') \in Nat /\ Len(imports) <= Len(imports')
  BY DEF Local, Respects, DeliveryInv, TypeInv, TypeOK, ImportTypeOK
<1>2. dep_imp[u] \in ImportId \cup {NoImport} /\ task[u].imp \in ImportId \cup {NoImport}
  BY DEF TypeInv, TypeOK, LocalTypeOK, Task
<1>3. /\ pc[u] \in {"body", "enqueue"} => task[u].imp \in ImportId
      /\ pc[u] = "enqueue" => dep_imp[u] \in ImportId
  BY <1>2 DEF TypeInv, ImportKnown, WorkPc, LexPc
<1>4. Imported(u)' = Imported(u)
  BY <1>1 DEF Imported
<1>5. ASSUME NEW id \in ImportId, id \in Held(u) PROVE body'[id] = body[id]
  <2>1. Held(u)' = Held(u) /\ Held(t)' \cap Held(u)' = {}
    BY <1>1 DEF Held, TasksInv, HeldOnce
  <2>2. id \notin Held(t)'
    BY <1>5, <2>1
  <2>3. ~(pc'[t] \in {"body", "fixups"} /\ task'[t].imp = id)
    BY <2>2 DEF Held, WorkPc, LexPc
  <2> QED
    BY <2>3 DEF Respects
<1>6. dep_imp'[u] <= Len(imports')
  <2>1. dep_imp[u] <= Len(imports) /\ dep_imp[u] \in Nat
    BY <1>1, <1>2, MaxImportsAssumption DEF BodyOf, ImportId, NoImport
  <2> QED
    BY <1>1, <2>1
<1>7. pc[u] \in {"lex", "body", "fixups"} /\ task[u].imp # NoImport => body'[task[u].imp] = body[task[u].imp]
  BY <1>2, <1>5 DEF Held, WorkPc, LexPc
<1>8. pc[u] = "enqueue" => body'[dep_imp[u]] = body[dep_imp[u]] /\ imports'[dep_imp[u]] = imports[dep_imp[u]]
  <2> SUFFICES ASSUME pc[u] = "enqueue"
               PROVE  body'[dep_imp[u]] = body[dep_imp[u]] /\ imports'[dep_imp[u]] = imports[dep_imp[u]]
    OBVIOUS
  <2>1. dep_imp[u] \in Held(u) /\ dep_imp[u] \in 1 .. Len(imports)
    BY <1>1, <1>3 DEF Held, BodyOf, ImportId
  <2> QED
    BY <1>3, <1>5, <2>1 DEF Respects
<1>9. pc[u] = "body" => task[u].imp # NoImport
  BY <1>3 DEF ImportId, NoImport
<1> QED
  BY <1>1, <1>4, <1>6, <1>7, <1>8, <1>9 DEF BodyOf


\* What a step owes to the import whose fixups the thread was to come to.
Answers(t) ==
    \A id \in ImportId :
        (\/ pc[t] \in {"lex", "body", "fixups"} /\ task[t].imp = id
         \/ pc[t] = "enqueue" /\ dep_imp[t] = id
         \/ id > Len(imports) /\ id <= Len(imports'))
            => Settled(id)'

LEMMA DeliveryKept ==
    ASSUME TypeInv, TasksInv, TasksInv', DeliveryInv, NEW t \in Thread, Local(t),
           Respects(t), QueueMoves(t), Answers(t), BodyOf(t)',
           \A f \in File : import_map'[f] <= Len(imports')
    PROVE  DeliveryInv'
<1>1. QueueInv'
  BY QueueKept
<1>2. \A u \in Thread : BodyOf(u)'
  BY BodiesKept
<1>3. \A id \in ImportId : id \in Nat /\ id >= 1
  BY DEF ImportId
<1>4. Len(imports) \in Nat /\ Len(imports') \in Nat /\ Len(imports) <= Len(imports')
  BY DEF Respects, TypeInv, TypeOK, ImportTypeOK
<1>5. ASSUME NEW id \in ImportId, body'[id] # body[id] PROVE Coming(id)' /\ id \in Held(t)'
  BY <1>5 DEF Respects, Coming, Held, WorkPc, LexPc
<1>6. KnownInv'
  <2> SUFFICES ASSUME NEW id \in ImportId, id > Len(imports')
               PROVE  fixups'[id] = << >> /\ body'[id] = "none"
    BY DEF KnownInv
  <2>1. id > Len(imports)
    BY <1>3, <1>4
  <2>2. fixups[id] = << >> /\ body[id] = "none"
    BY <2>1 DEF DeliveryInv, KnownInv
  <2>3. id \notin Held(t)'
    BY <1>3, <1>4 DEF TasksInv, HeldOnce
  <2>4. body'[id] = body[id]
    BY <1>5, <2>3
  <2>5. ~(id <= Len(imports))
    BY <1>3, <1>4, <2>1
  <2>6. fixups'[id] \in {fixups[id], << >>}
    BY <2>5 DEF Respects
  <2> QED
    BY <2>2, <2>4, <2>6
<1>7. ASSUME NEW id \in ImportId, id <= Len(imports') PROVE Settled(id)'
  <2>1. CASE id > Len(imports)
    BY <1>7, <2>1 DEF Answers
  <2>2. CASE id <= Len(imports)
    <3>1. CASE Coming(id)
      <4>1. CASE \E u \in Thread : \/ pc[u] \in {"lex", "body", "fixups"} /\ task[u].imp = id
                                   \/ pc[u] = "enqueue" /\ dep_imp[u] = id
        <5>1. PICK u \in Thread : \/ pc[u] \in {"lex", "body", "fixups"} /\ task[u].imp = id
                                  \/ pc[u] = "enqueue" /\ dep_imp[u] = id
          BY <4>1
        <5>2. CASE u = t
          BY <5>1, <5>2 DEF Answers
        <5>3. CASE u # t
          <6>1. UNCHANGED <<pc[u], task[u], dep_imp[u]>>
            BY <5>3 DEF Local
          <6> QED
            BY <5>1, <6>1 DEF Settled, Coming
        <5> QED
          BY <5>2, <5>3
      <4>2. CASE \E m \in DOMAIN tasks : tasks[m].type = "TASK_LEX_FILE" /\ tasks[m].imp = id
        <5>1. PICK m \in DOMAIN tasks : tasks[m].type = "TASK_LEX_FILE" /\ tasks[m].imp = id
          BY <4>2
        <5>2. Coming(id)'
          BY <5>1 DEF QueueMoves, Coming
        <5> QED
          BY <5>2 DEF Settled
      <4> QED
        BY <3>1, <4>1, <4>2 DEF Coming
    <3>2. CASE ~Coming(id) /\ body'[id] # body[id]
      BY <1>5, <3>2 DEF Settled
    <3>3. CASE ~Coming(id) /\ body'[id] = body[id]
      <4>1. \/ fixups[id] = << >> /\ body[id] # "none"
            \/ errors /\ body[id] # "parsed"
        BY <2>2, <3>3 DEF DeliveryInv, Settled
      <4>2. fixups[id] = << >> /\ body[id] # "none" => fixups'[id] = << >>
        BY DEF Respects
      <4> QED
        BY <3>3, <4>1, <4>2 DEF Settled, Respects
    <3> QED
      BY <3>1, <3>2, <3>3
  <2> QED
    BY <1>3, <1>4, <2>1, <2>2
<1> QED
  BY <1>1, <1>2, <1>6, <1>7 DEF DeliveryInv


FirstPc == {"lex", "body", "fixups", "enqueue"}

\* A step that has nothing to do with bodies.
Calm(t) ==
    /\ UNCHANGED <<program, tasks, imports, import_map, body, fixups>>
    /\ \A u \in Thread \ {t} : i'[u] = i[u]
    /\ errors => errors'
    /\ pc[t] \notin FirstPc /\ pc'[t] \notin FirstPc
    /\ dep_imp'[t] \in {dep_imp[t], NoImport} \cup {import_map[f] : f \in File}

LEMMA CalmStep ==
    ASSUME TypeInv, TasksInv, TasksInv', DeliveryInv, NEW t \in Thread, Local(t), Calm(t)
    PROVE  DeliveryInv'
<1>1. Len(imports) \in Nat /\ Len(imports) >= 1
  BY MaxImportsAssumption DEF TypeInv, TypeOK, ImportTypeOK, ImportId
<1>2. Respects(t)
  BY <1>1 DEF Calm, Respects
<1>3. QueueMoves(t)
  BY DEF Calm, QueueMoves
<1>4. Answers(t)
  <2>1. \A id \in ImportId : id \in Nat
    BY DEF ImportId
  <2> QED
    BY <1>1, <2>1 DEF Calm, Answers, FirstPc
<1>5. BodyOf(t)'
  <2>1. dep_imp'[t] <= Len(imports)
    BY <1>1 DEF Calm, NoImport, DeliveryInv, BodyOf, KnownInv
  <2> QED
    BY <2>1 DEF Calm, FirstPc, BodyOf
<1>6. \A f \in File : import_map'[f] <= Len(imports')
  BY DEF Calm, DeliveryInv, KnownInv
<1> QED
  BY <1>2, <1>3, <1>4, <1>5, <1>6, DeliveryKept

LEMMA ErrorsStay ==
    ASSUME errors, NEW t \in Thread, CheckStructs(t) \/ CheckAndGenerate(t)
    PROVE  errors'
<1>1. CASE CreateStruct(t) \/ StructsSucceed(t) \/ StructsReport(t) \/ StructsRetry(t) \/ StructsDrop(t)
  BY <1>1 DEF CreateStruct, StructsSucceed, StructsReport, StructsRetry, StructsDrop
<1>2. CASE CheckMembers(t)
  <2>1. ReportType(t) \/ UNCHANGED errors
    BY <1>2, Zenon DEF CheckMembers
  <2> QED
    BY <2>1, Zenon DEF ReportType
<1>3. CASE CheckFunctions(t)
  BY <1>3, Zenon DEF CheckFunctions
<1>4. CASE Gate(t) \/ CheckGlobals(t) \/ GenMain(t)
  BY <1>4 DEF Gate, CheckGlobals, GenMain
<1>5. CASE GenCalls(t)
  BY <1>5, Zenon DEF GenCalls
<1> QED
  BY <1>1, <1>2, <1>3, <1>4, <1>5 DEF CheckStructs, CheckAndGenerate

LEMMA OthersAreCalm ==
    ASSUME TypeInv, NEW t \in Thread,
           \/ Wait(t) \/ Quit(t) \/ Idle(t)
           \/ FindImport(t) \/ SkipRepeated(t) \/ LexDone(t)
           \/ AttachDep(t) /\ HasBody(dep_imp[t])
           \/ CheckStructs(t) \/ CheckAndGenerate(t)
    PROVE  Calm(t)
<1> USE DEF TypeInv, TypeOK, LocalTypeOK, Calm, FirstPc, At, Goto
<1>0. CheckStructs(t) \/ CheckAndGenerate(t) => (errors => errors')
  BY ErrorsStay
<1>1. CASE Wait(t) \/ Quit(t) \/ Idle(t)
  BY <1>1 DEF Wait, Quit, Idle, importVars, localVars
<1>2. CASE FindImport(t)
  <2>1. Imported(t)[i[t]] \in File
    BY <1>2, ImportedType DEF FindImport
  <2>2. dep_imp'[t] = import_map[Imported(t)[i[t]]]
    BY <1>2 DEF FindImport
  <2> QED
    BY <1>2, <2>1, <2>2 DEF FindImport, AfterFind, queueVars, importVars
<1>3. CASE SkipRepeated(t) \/ LexDone(t)
  BY <1>3 DEF SkipRepeated, LexDone, queueVars, importVars
<1>4. CASE AttachDep(t) /\ HasBody(dep_imp[t])
  BY <1>4 DEF AttachDep, queueVars
<1>5. CASE CheckStructs(t)
  <2>1. CASE CreateStruct(t) \/ CheckMembers(t)
    BY <1>0, <1>5, <2>1 DEF CreateStruct, CheckMembers, queueVars, importVars
  <2>2. CASE StructsSucceed(t)
    BY <1>0, <1>5, <2>2 DEF StructsSucceed, StructsChecked, queueVars, importVars
  <2>3. CASE StructsReport(t)
    BY <1>0, <1>5, <2>3 DEF StructsReport, StructsChecked, queueVars, importVars
  <2>4. CASE StructsRetry(t) \/ StructsDrop(t)
    BY <1>0, <1>5, <2>4 DEF StructsRetry, StructsDrop, StructsChecked, queueVars, importVars
  <2> QED
    BY <1>5, <2>1, <2>2, <2>3, <2>4 DEF CheckStructs
<1>6. CASE CheckAndGenerate(t)
  <2>1. CASE CheckFunctions(t) \/ CheckGlobals(t)
    BY <1>0, <1>6, <2>1 DEF CheckFunctions, CheckGlobals, queueVars, importVars, localVars
  <2>2. CASE Gate(t)
    BY <1>0, <1>6, <2>2 DEF Gate, queueVars, importVars
  <2>3. CASE GenMain(t) \/ GenCalls(t)
    BY <1>0, <1>6, <2>3 DEF GenMain, GenCalls, queueVars, importVars, localVars
  <2> QED
    BY <1>6, <2>1, <2>2, <2>3 DEF CheckAndGenerate
<1> QED
  BY <1>1, <1>2, <1>3, <1>4, <1>5, <1>6

LEMMA StillDelivery ==
    ASSUME DeliveryInv, UNCHANGED <<program, tasks, imports, import_map, body, fixups, errors>>,
           UNCHANGED <<pc, task, dep_imp, i>>
    PROVE  DeliveryInv'
<1>1. QueueInv'
  BY DEF DeliveryInv, QueueInv
<1>2. \A t \in Thread : BodyOf(t)'
  BY DEF DeliveryInv, BodyOf, Imported
<1>3. KnownInv'
  BY DEF DeliveryInv, KnownInv
<1>4. \A id \in ImportId : id <= Len(imports') => Settled(id)'
  BY DEF DeliveryInv, Settled, Coming
<1> QED
  BY <1>1, <1>2, <1>3, <1>4 DEF DeliveryInv


LEMMA TakeTaskDelivers ==
    ASSUME TypeInv, TasksInv, TasksInv', DeliveryInv, NEW t \in Thread, Local(t), TakeTask(t)
    PROVE  DeliveryInv'
<1>1. PICK k \in DOMAIN tasks :
          task' = [task EXCEPT ![t] = tasks[k]] /\ tasks' = Erase(k) /\ Goto(t, Entry[tasks[k].type])
  BY DEF TakeTask
<1>2. UNCHANGED <<program, imports, import_map, body, fixups, errors, i, dep_imp>> /\ pc[t] = "select"
  BY DEF TakeTask, At, importVars
<1>3. tasks[k] \in Task /\ task'[t] = tasks[k] /\ pc'[t] = Entry[tasks[k].type]
  BY <1>1 DEF Goto, TypeInv, TypeOK, QueueTypeOK, LocalTypeOK
<1>4. /\ pc'[t] = "lex" <=> tasks[k].type = "TASK_LEX_FILE"
      /\ pc'[t] \in {"lex", "struct", "functions", "gen_main"}
  BY <1>3 DEF Entry, TaskType, Task
<1>5. Len(imports) \in Nat
  BY DEF TypeInv, TypeOK, ImportTypeOK
<1>6. Respects(t)
  BY <1>2, <1>5 DEF Respects
<1>7. QueueMoves(t)
  <2> DEFINE n == Len(tasks) - 1
  <2>1. /\ n \in Nat /\ DOMAIN tasks = 1 .. n + 1 /\ k \in 1 .. n + 1 /\ DOMAIN tasks' = 1 .. n
        /\ \A j \in 1 .. n : Shift(k, j) \in DOMAIN tasks /\ tasks'[j] = tasks[Shift(k, j)]
    <3>1. tasks \in Seq(Task) /\ tasks' = RemoveAt(tasks, k)
      BY <1>1 DEF Erase, TypeInv, TypeOK, QueueTypeOK
    <3>2. Len(tasks) \in Nat /\ DOMAIN tasks = 1 .. Len(tasks)
      BY <3>1
    <3>3. /\ DOMAIN tasks' = 1 .. n
          /\ \A j \in 1 .. n : Shift(k, j) \in DOMAIN tasks /\ tasks'[j] = tasks[Shift(k, j)]
      BY <3>1, EraseElements
    <3> QED
      BY <3>2, <3>3
  <2> HIDE DEF n
  <2>2. ASSUME NEW m \in DOMAIN tasks, m # k PROVE \E j \in DOMAIN tasks' : tasks'[j] = tasks[m]
    <3> DEFINE j == IF m < k THEN m ELSE m - 1
    <3>1. j \in 1 .. n /\ Shift(k, j) = m
      BY <2>1, <2>2 DEF Shift
    <3> QED
      BY <2>1, <3>1
  <2>3. tasks[k].type # "TASK_LEX_FILE" \/ (pc'[t] = "lex" /\ task'[t] = tasks[k])
    BY <1>3, <1>4
  <2>4. \A j \in DOMAIN tasks' : \E m \in DOMAIN tasks : tasks'[j] = tasks[m]
    BY <2>1
  <2> QED
    BY <2>2, <2>3, <2>4 DEF QueueMoves
<1>8. Answers(t)
  BY <1>2, <1>5 DEF Answers, ImportId
<1>9. BodyOf(t)'
  <2>1. dep_imp'[t] <= Len(imports')
    BY <1>2 DEF DeliveryInv, BodyOf
  <2>2. pc'[t] = "lex" /\ task'[t].imp # NoImport => body'[task'[t].imp] = "none"
    BY <1>2, <1>3, <1>4 DEF DeliveryInv, QueueInv
  <2> QED
    BY <1>4, <2>1, <2>2 DEF BodyOf
<1>10. \A f \in File : import_map'[f] <= Len(imports')
  BY <1>2 DEF DeliveryInv, KnownInv
<1> QED
  BY <1>6, <1>7, <1>8, <1>9, <1>10, DeliveryKept

LEMMA FinishDelivers ==
    ASSUME TypeInv, PhaseInv, TasksInv, TasksInv', DeliveryInv, NEW t \in Thread, Local(t), Finish(t)
    PROVE  DeliveryInv'
<1>1. /\ UNCHANGED <<program, imports, import_map, body, fixups, errors>> /\ pc[t] = "finish"
      /\ pc'[t] = "wait" /\ dep_imp'[t] = NoImport /\ \A u \in Thread \ {t} : i'[u] = i[u]
  BY DEF Finish, At, Goto, importVars, TypeInv, TypeOK, LocalTypeOK
<1>2. Len(imports) \in Nat
  BY DEF TypeInv, TypeOK, ImportTypeOK
<1>3. Respects(t)
  BY <1>1, <1>2 DEF Respects
<1>4. QueueMoves(t)
  <2>1. CASE queue_task[t]
    <3>1. task[t].type # "TASK_LEX_FILE" /\ tasks' = Append(tasks, task[t])
      BY <2>1 DEF Finish, PhaseInv
    <3>2. tasks \in Seq(Task) /\ task[t] \in Task
      BY DEF TypeInv, TypeOK, QueueTypeOK, LocalTypeOK
    <3>3. /\ Len(tasks) \in Nat /\ DOMAIN tasks = 1 .. Len(tasks) /\ DOMAIN tasks' = 1 .. Len(tasks) + 1
          /\ tasks'[Len(tasks) + 1] = task[t] /\ \A k \in 1 .. Len(tasks) : tasks'[k] = tasks[k]
      BY <3>1, <3>2, AppendProperties
    <3>4. ASSUME NEW k \in DOMAIN tasks'
          PROVE  (\E m \in DOMAIN tasks : tasks'[k] = tasks[m]) \/ tasks'[k].type # "TASK_LEX_FILE"
      BY <3>1, <3>3
    <3>5. \A m \in DOMAIN tasks : \E k \in DOMAIN tasks' : tasks'[k] = tasks[m]
      BY <3>3
    <3> QED
      BY <3>4, <3>5 DEF QueueMoves
  <2>2. CASE ~queue_task[t]
    <3>1. tasks' = tasks
      BY <2>2 DEF Finish
    <3> QED
      BY <3>1 DEF QueueMoves
  <2> QED
    BY <2>1, <2>2
<1>5. Answers(t)
  BY <1>1, <1>2 DEF Answers, ImportId
<1>6. BodyOf(t)'
  BY <1>1, <1>2 DEF BodyOf, NoImport
<1>7. \A f \in File : import_map'[f] <= Len(imports')
  BY <1>1 DEF DeliveryInv, KnownInv
<1> QED
  BY <1>3, <1>4, <1>5, <1>6, <1>7, DeliveryKept

\* The file cannot be read: its import never gets a body, and that is reported.
LEMMA LexFailureDelivers ==
    ASSUME TypeInv, TasksInv, TasksInv', DeliveryInv, NEW t \in Thread, Local(t), LexFailure(t)
    PROVE  DeliveryInv'
<1>1. /\ UNCHANGED <<program, tasks, imports, import_map, body, fixups, task, dep_imp, i>>
      /\ errors' /\ pc[t] = "lex" /\ pc'[t] = "finish"
  BY DEF LexFailure, At, Goto, queueVars, importVars, localVars, TypeInv, TypeOK, LocalTypeOK
<1>2. Len(imports) \in Nat
  BY DEF TypeInv, TypeOK, ImportTypeOK
<1>3. Respects(t)
  BY <1>1, <1>2 DEF Respects
<1>4. QueueMoves(t)
  BY <1>1 DEF QueueMoves
<1>5. Answers(t)
  <2>1. ASSUME NEW id \in ImportId, task[t].imp = id PROVE Settled(id)'
    <3>1. body'[id] = "none"
      BY <1>1, <2>1 DEF DeliveryInv, BodyOf, ImportId, NoImport
    <3> QED
      BY <1>1, <3>1 DEF Settled
  <2> QED
    BY <1>1, <1>2, <2>1 DEF Answers, ImportId
<1>6. BodyOf(t)'
  BY <1>1 DEF BodyOf, DeliveryInv
<1>7. \A f \in File : import_map'[f] <= Len(imports')
  BY <1>1 DEF DeliveryInv, KnownInv
<1> QED
  BY <1>3, <1>4, <1>5, <1>6, <1>7, DeliveryKept


\* The body becomes visible: nobody else has the import.
LEMMA ParseBeginDelivers ==
    ASSUME TypeInv, TasksInv, TasksInv', DeliveryInv, NEW t \in Thread, Local(t), ParseBegin(t)
    PROVE  DeliveryInv'
<1>1. /\ UNCHANGED <<program, tasks, fixups, errors, dep_imp, i>> /\ pc[t] = "lex" /\ pc'[t] = "body"
  BY DEF ParseBegin, At, Goto, queueVars, TypeInv, TypeOK, LocalTypeOK
<1>2. /\ Len(imports) \in Nat /\ imports \in Seq(File) /\ dep_imp[t] <= Len(imports)
      /\ dep_imp[t] \in Nat
  BY MaxImportsAssumption DEF TypeInv, TypeOK, ImportTypeOK, LocalTypeOK, ImportId, NoImport, DeliveryInv, BodyOf
<1>3. QueueMoves(t)
  BY <1>1 DEF QueueMoves
<1>4. ASSUME NEW id \in ImportId, task'[t].imp = id PROVE Settled(id)'
  BY <1>1, <1>4 DEF Settled, Coming
<1>5. CASE task[t].imp # NoImport
  <2>1. UNCHANGED <<imports, import_map, task>> /\ body' = [body EXCEPT ![task[t].imp] = "parsing"]
    BY <1>5 DEF ParseBegin
  <2>2. task[t].imp \in ImportId /\ body \in [ImportId -> {"none", "parsing", "parsed"}]
    BY <1>5 DEF TypeInv, TypeOK, ImportTypeOK, LocalTypeOK, Task
  <2>3. Respects(t)
    BY <1>1, <1>2, <2>1, <2>2 DEF Respects
  <2>4. Answers(t)
    BY <1>1, <1>2, <1>4, <2>1 DEF Answers, ImportId
  <2>5. BodyOf(t)'
    BY <1>1, <1>2, <2>1, <2>2 DEF BodyOf
  <2>6. \A f \in File : import_map'[f] <= Len(imports')
    BY <2>1 DEF DeliveryInv, KnownInv
  <2> QED
    BY <1>3, <2>3, <2>4, <2>5, <2>6, DeliveryKept
<1>6. CASE task[t].imp = NoImport
  <2>1. PICK new \in ImportId : /\ CreateImport(task[t].name, new)
                                /\ task' = [task EXCEPT ![t].imp = new]
                                /\ body' = [body EXCEPT ![new] = "parsing"]
    BY <1>6 DEF ParseBegin
  <2>2. /\ task'[t].imp = new /\ body'[new] = "parsing" /\ \A id \in ImportId \ {new} : body'[id] = body[id]
    BY <2>1 DEF TypeInv, TypeOK, ImportTypeOK, LocalTypeOK, Task
  <2>3. /\ new = Len(imports) + 1 /\ Len(imports') = Len(imports) + 1
        /\ \A id \in 1 .. Len(imports) : imports'[id] = imports[id]
    <3>1. task[t].name \in File
      BY ImportedType DEF TypeInv
    <3> QED
      BY <1>2, <2>1, <3>1, AppendProperties DEF CreateImport
  <2>4. new \in Nat /\ NoImport \notin ImportId /\ \A id \in ImportId : id \in Nat
    BY DEF ImportId, NoImport
  <2>5. Len(imports') \in Nat /\ Len(imports) <= Len(imports') /\ new <= Len(imports')
    BY <1>2, <2>3, <2>4
  <2>6. Respects(t)
    BY <1>1, <2>2, <2>3, <2>5 DEF Respects
  <2>7. Answers(t)
    <3>1. ASSUME NEW id \in ImportId, id > Len(imports), id <= Len(imports') PROVE id = new
      BY <1>2, <2>3, <2>4, <3>1
    <3> QED
      BY <1>1, <1>4, <1>6, <2>2, <2>4, <3>1 DEF Answers
  <2>8. BodyOf(t)'
    BY <1>1, <1>2, <2>2, <2>5 DEF BodyOf
  <2>9. \A f \in File : import_map'[f] <= Len(imports')
    <3>1. import_map' = [import_map EXCEPT ![task[t].name] = new] /\ import_map \in [File -> ImportId \cup {NoImport}]
      BY <2>1 DEF CreateImport, TypeInv, TypeOK, ImportTypeOK
    <3>2. ASSUME NEW f \in File PROVE import_map[f] \in Nat /\ import_map[f] <= Len(imports)
      <4>1. import_map[f] \in ImportId \cup {0}
        BY <3>1 DEF NoImport
      <4>2. import_map[f] \in Nat
        BY <4>1 DEF ImportId
      <4>3. import_map[f] <= Len(imports)
        BY DEF DeliveryInv, KnownInv
      <4> QED
        BY <4>2, <4>3
    <3>3. \A f \in File : import_map'[f] \in {import_map[f], new}
      BY <3>1
    <3> QED
      BY <1>2, <2>4, <2>5, <3>2, <3>3
  <2> QED
    BY <1>3, <2>6, <2>7, <2>8, <2>9, DeliveryKept
<1> QED
  BY <1>5, <1>6

\* The parse ends with a body, or the error has been reported.
LEMMA ParseEndDelivers ==
    ASSUME TypeInv, TasksInv, TasksInv', DeliveryInv, NEW t \in Thread, Local(t), ParseEnd(t)
    PROVE  DeliveryInv'
<1> DEFINE outcome == program.outcome[task[t].name]
<1>1. /\ UNCHANGED <<program, tasks, imports, import_map, fixups, dep_imp, i>>
      /\ pc[t] = "body" /\ pc'[t] = "fixups"
  BY DEF ParseEnd, At, Goto, queueVars, TypeInv, TypeOK, LocalTypeOK
<1>2. errors => errors'
  BY Zenon DEF ParseEnd
<1>3. outcome = "null" => errors'
  <2>1. errors' = (errors \/ outcome # "ok")
    BY Zenon DEF ParseEnd
  <2>2. outcome = "null" => outcome # "ok"
    OBVIOUS
  <2> QED
    BY <2>1, <2>2, Zenon
<1>4. Len(imports) \in Nat /\ \A id \in ImportId : id \in Nat
  BY DEF TypeInv, TypeOK, ImportTypeOK, ImportId
<1>5. QueueMoves(t)
  BY <1>1 DEF QueueMoves
<1>6. dep_imp'[t] <= Len(imports') /\ \A f \in File : import_map'[f] <= Len(imports')
  BY <1>1 DEF DeliveryInv, BodyOf, KnownInv
<1>7. task[t].imp \in ImportId /\ body[task[t].imp] = "parsing"
  <2>1. task[t].imp # NoImport /\ task[t] \in Task
    BY <1>1 DEF TypeInv, TypeOK, LocalTypeOK, ImportKnown, WorkPc, LexPc
  <2> QED
    BY <1>1, <2>1 DEF Task, DeliveryInv, BodyOf
<1>8. CASE outcome = "null"
  <2>1. body' = body /\ task' = [task EXCEPT ![t].imp = NoImport]
    BY <1>8 DEF ParseEnd
  <2>2. task'[t].imp = NoImport
    BY <2>1 DEF TypeInv, TypeOK, LocalTypeOK, Task
  <2>3. Respects(t)
    BY <1>1, <1>2, <1>4, <2>1 DEF Respects
  <2>4. Answers(t)
    <3>1. ASSUME NEW id \in ImportId, task[t].imp = id PROVE Settled(id)'
      <4>1. body'[id] # "parsed"
        BY <1>7, <2>1, <3>1
      <4>2. errors'
        BY <1>3, <1>8
      <4> QED
        BY <4>1, <4>2, Zenon DEF Settled
    <3> QED
      BY <1>1, <1>4, <3>1 DEF Answers
  <2>5. BodyOf(t)'
    BY <1>1, <1>6, <2>2 DEF BodyOf
  <2> QED
    BY <1>5, <1>6, <2>3, <2>4, <2>5, DeliveryKept
<1>9. CASE outcome # "null"
  <2>1. task' = task /\ body' = [body EXCEPT ![task[t].imp] = "parsed"]
    BY <1>9 DEF ParseEnd
  <2>2. body'[task[t].imp] = "parsed" /\ \A id \in ImportId : id # task[t].imp => body'[id] = body[id]
    BY <1>7, <2>1 DEF TypeInv, TypeOK, ImportTypeOK
  <2>3. Respects(t)
    BY <1>1, <1>2, <1>4, <2>1, <2>2 DEF Respects
  <2>4. Answers(t)
    BY <1>1, <1>4, <2>1 DEF Answers, Settled, Coming
  <2>5. BodyOf(t)'
    BY <1>1, <1>6, <2>1, <2>2 DEF BodyOf
  <2> QED
    BY <1>5, <1>6, <2>3, <2>4, <2>5, DeliveryKept
<1> QED
  BY <1>8, <1>9


\* The body is delivered: nobody waits for it any more.
LEMMA FixupsDelivers ==
    ASSUME TypeInv, TasksInv, TasksInv', DeliveryInv, NEW t \in Thread, Local(t), Fixups(t)
    PROVE  DeliveryInv'
<1>1. /\ UNCHANGED <<program, tasks, imports, import_map, body, errors, task, dep_imp, i>>
      /\ pc[t] = "fixups"
  BY DEF Fixups, At, queueVars, localVars
<1>2. CASE task[t].imp = NoImport
  BY <1>1, <1>2, StillDelivery DEF Fixups
<1>3. CASE task[t].imp # NoImport
  <2>1. fixups' = [fixups EXCEPT ![task[t].imp] = << >>] /\ pc'[t] = "find"
    BY <1>3 DEF Fixups, Goto, TypeInv, TypeOK, LocalTypeOK
  <2>2. Len(imports) \in Nat /\ \A id \in ImportId : id \in Nat
    BY DEF TypeInv, TypeOK, ImportTypeOK, ImportId
  <2>3. task[t].imp \in ImportId /\ fixups \in [ImportId -> Seq(ImportId)]
    BY <1>3 DEF TypeInv, TypeOK, ImportTypeOK, LocalTypeOK, Task
  <2>4. \A id \in ImportId : fixups'[id] = IF id = task[t].imp THEN << >> ELSE fixups[id]
    BY <2>1, <2>3
  <2>5. Respects(t)
    BY <1>1, <2>2, <2>4 DEF Respects
  <2>6. QueueMoves(t)
    BY <1>1 DEF QueueMoves
  <2>7. Answers(t)
    <3>1. ASSUME NEW id \in ImportId, task[t].imp = id PROVE Settled(id)'
      <4>1. body'[id] = "parsed"
        BY <1>1, <1>3, <3>1 DEF DeliveryInv, BodyOf
      <4>2. fixups'[id] = << >>
        BY <2>4, <3>1
      <4> QED
        BY <4>1, <4>2 DEF Settled
    <3> QED
      BY <1>1, <2>2, <3>1 DEF Answers
  <2>8. BodyOf(t)'
    BY <1>1, <2>1 DEF BodyOf, DeliveryInv
  <2>9. \A f \in File : import_map'[f] <= Len(imports')
    BY <1>1 DEF DeliveryInv, KnownInv
  <2> QED
    BY <2>5, <2>6, <2>7, <2>8, <2>9, DeliveryKept
<1> QED
  BY <1>2, <1>3

LEMMA CreateDepDelivers ==
    ASSUME TypeInv, TasksInv, TasksInv', DeliveryInv, NEW t \in Thread, Local(t), CreateDep(t)
    PROVE  DeliveryInv'
<1>1. PICK new \in ImportId : CreateImport(Imported(t)[i[t]], new) /\ dep_imp' = [dep_imp EXCEPT ![t] = new]
  BY DEF CreateDep
<1>2. /\ UNCHANGED <<program, tasks, body, fixups, errors, task, i>> /\ pc[t] = "create" /\ pc'[t] = "enqueue"
  BY DEF CreateDep, At, Goto, queueVars, TypeInv, TypeOK, LocalTypeOK
<1>3. Imported(t)[i[t]] \in File
  BY <1>2, ImportedType DEF TypeInv, IndexKnown
<1>4. dep_imp'[t] = new
  BY <1>1 DEF TypeInv, TypeOK, LocalTypeOK
<1>5. /\ Len(imports) \in Nat /\ new = Len(imports) + 1 /\ Len(imports') = Len(imports) + 1
      /\ imports'[new] = Imported(t)[i[t]] /\ \A id \in 1 .. Len(imports) : imports'[id] = imports[id]
  <2>1. imports \in Seq(File)
    BY DEF TypeInv, TypeOK, ImportTypeOK
  <2> QED
    BY <1>1, <1>3, <2>1, AppendProperties DEF CreateImport
<1>6. NoImport = 0 /\ \A id \in ImportId : id \in Nat /\ id # 0
  BY DEF ImportId, NoImport
<1>7. Len(imports') \in Nat /\ Len(imports) <= Len(imports') /\ new <= Len(imports') /\ new > Len(imports)
  BY <1>5
<1>8. Respects(t)
  BY <1>2, <1>5, <1>7 DEF Respects
<1>9. QueueMoves(t)
  BY <1>2 DEF QueueMoves
<1>10. Answers(t)
  <2>1. ASSUME NEW id \in ImportId, id > Len(imports), id <= Len(imports') PROVE id = new
    BY <1>5, <1>6, <2>1
  <2>2. Coming(new)'
    BY <1>2, <1>4 DEF Coming
  <2> QED
    BY <1>2, <2>1, <2>2 DEF Answers, Settled
<1>11. BodyOf(t)'
  <2>1. body[new] = "none"
    BY <1>7 DEF DeliveryInv, KnownInv
  <2>2. Imported(t)' = Imported(t)
    BY <1>2 DEF Imported
  <2> QED
    BY <1>2, <1>4, <1>5, <1>7, <2>1, <2>2 DEF BodyOf
<1>12. \A f \in File : import_map'[f] <= Len(imports')
  <2>1. /\ import_map' = [import_map EXCEPT ![Imported(t)[i[t]]] = new]
        /\ import_map \in [File -> ImportId \cup {NoImport}]
    BY <1>1 DEF CreateImport, TypeInv, TypeOK, ImportTypeOK
  <2>2. ASSUME NEW f \in File PROVE import_map[f] \in Nat /\ import_map[f] <= Len(imports)
    <3>1. import_map[f] \in ImportId \cup {0}
      BY <1>6, <2>1
    <3> QED
      BY <1>6, <3>1 DEF DeliveryInv, KnownInv
  <2>3. \A f \in File : import_map'[f] \in {import_map[f], new}
    BY <2>1
  <2> QED
    BY <1>6, <1>7, <2>2, <2>3
<1> QED
  BY <1>8, <1>9, <1>10, <1>11, <1>12, DeliveryKept

\* The task of the new import is queued, and this import is the first that waits for it.
LEMMA EnqueueDepDelivers ==
    ASSUME TypeInv, TasksInv, TasksInv', DeliveryInv, NEW t \in Thread, Local(t), EnqueueDep(t)
    PROVE  DeliveryInv'
<1> DEFINE x == LexTask(Imported(t)[i[t]], dep_imp[t])
<1>1. /\ UNCHANGED <<program, imports, import_map, body, errors, task, dep_imp>> /\ pc[t] = "enqueue"
      /\ pc'[t] = "find" /\ \A u \in Thread \ {t} : i'[u] = i[u]
  BY DEF EnqueueDep, At, Goto, TypeInv, TypeOK, LocalTypeOK
<1>2. tasks' = Append(tasks, x) /\ fixups' = [fixups EXCEPT ![dep_imp[t]] = Append(@, task[t].imp)]
  BY DEF EnqueueDep, WaitFor
<1>3. /\ Len(tasks) \in Nat /\ DOMAIN tasks = 1 .. Len(tasks) /\ DOMAIN tasks' = 1 .. Len(tasks) + 1
      /\ tasks'[Len(tasks) + 1] = x /\ \A k \in 1 .. Len(tasks) : tasks'[k] = tasks[k]
  <2>1. tasks \in Seq(Task)
    BY DEF TypeInv, TypeOK, QueueTypeOK
  <2>2. Imported(t)[i[t]] \in File
    BY <1>1, ImportedType DEF TypeInv, IndexKnown
  <2>3. x \in Task
    BY <1>1, <2>2 DEF TypeInv, TypeOK, LocalTypeOK, Task, LexTask, TaskType
  <2> HIDE DEF x
  <2> QED
    BY <1>2, <2>1, <2>3, AppendProperties
<1>4. Len(imports) \in Nat /\ \A id \in ImportId : id \in Nat
  BY DEF TypeInv, TypeOK, ImportTypeOK, ImportId
<1>5. body[dep_imp[t]] = "none" /\ dep_imp[t] <= Len(imports)
  BY <1>1 DEF DeliveryInv, BodyOf
<1>6. Respects(t)
  <2>1. fixups \in [ImportId -> Seq(ImportId)]
    BY DEF TypeInv, TypeOK, ImportTypeOK
  <2>2. \A id \in ImportId : fixups'[id] = fixups[id] \/ id = dep_imp[t]
    BY <1>2, <2>1
  <2>3. \A id \in ImportId : id = dep_imp[t] => body[id] = "none" /\ id <= Len(imports)
    BY <1>5
  <2> QED
    BY <1>1, <1>4, <2>2, <2>3 DEF Respects
<1>7. QueueMoves(t)
  <2>1. ASSUME NEW k \in DOMAIN tasks'
        PROVE  (\E m \in DOMAIN tasks : tasks'[k] = tasks[m]) \/ tasks'[k] = x
    BY <1>3
  <2>2. \A m \in DOMAIN tasks : \E k \in DOMAIN tasks' : tasks'[k] = tasks[m]
    BY <1>3
  <2> QED
    BY <1>1, <2>1, <2>2 DEF QueueMoves
<1>8. Answers(t)
  <2>1. ASSUME NEW id \in ImportId, dep_imp[t] = id PROVE Settled(id)'
    <3>1. x.type = "TASK_LEX_FILE" /\ x.imp = id
      BY <2>1 DEF LexTask
    <3>2. \E k \in DOMAIN tasks' : tasks'[k] = x
      BY <1>3
    <3> HIDE DEF x
    <3> QED
      BY <3>1, <3>2 DEF Settled, Coming
  <2> QED
    BY <1>1, <1>4, <2>1 DEF Answers
<1>9. BodyOf(t)'
  BY <1>1, <1>5 DEF BodyOf
<1>10. \A f \in File : import_map'[f] <= Len(imports')
  BY <1>1 DEF DeliveryInv, KnownInv
<1> QED
  BY <1>6, <1>7, <1>8, <1>9, <1>10, DeliveryKept

LEMMA AttachDepDelivers ==
    ASSUME TypeInv, TasksInv, TasksInv', DeliveryInv, NEW t \in Thread, Local(t),
           AttachDep(t), ~HasBody(dep_imp[t])
    PROVE  DeliveryInv'
<1>1. /\ UNCHANGED <<program, tasks, imports, import_map, body, errors, task, dep_imp>> /\ pc[t] = "attach"
      /\ pc'[t] = "find" /\ \A u \in Thread \ {t} : i'[u] = i[u]
  BY DEF AttachDep, At, Goto, queueVars, TypeInv, TypeOK, LocalTypeOK
<1>2. fixups' = [fixups EXCEPT ![dep_imp[t]] = Append(@, task[t].imp)] /\ body[dep_imp[t]] = "none"
  BY DEF AttachDep, WaitFor, HasBody
<1>3. Len(imports) \in Nat /\ (\A id \in ImportId : id \in Nat) /\ dep_imp[t] <= Len(imports)
  BY DEF TypeInv, TypeOK, ImportTypeOK, ImportId, DeliveryInv, BodyOf
<1>4. Respects(t)
  <2>1. fixups \in [ImportId -> Seq(ImportId)]
    BY DEF TypeInv, TypeOK, ImportTypeOK
  <2>2. \A id \in ImportId : fixups'[id] = fixups[id] \/ id = dep_imp[t]
    BY <1>2, <2>1
  <2>3. \A id \in ImportId : id = dep_imp[t] => body[id] = "none" /\ id <= Len(imports)
    BY <1>2, <1>3
  <2> QED
    BY <1>1, <1>3, <2>2, <2>3 DEF Respects
<1>5. QueueMoves(t)
  BY <1>1 DEF QueueMoves
<1>6. Answers(t)
  BY <1>1, <1>3 DEF Answers
<1>7. BodyOf(t)'
  BY <1>1, <1>3 DEF BodyOf
<1>8. \A f \in File : import_map'[f] <= Len(imports')
  BY <1>1 DEF DeliveryInv, KnownInv
<1> QED
  BY <1>4, <1>5, <1>6, <1>7, <1>8, DeliveryKept


LEMMA DeliveryStep ==
    ASSUME TypeInv, PhaseInv, TasksInv, TasksInv', DeliveryInv, NEW t \in Thread, ThreadStep(t)
    PROVE  DeliveryInv'
<1>1. Local(t)
  BY StepIsLocal
<1>2. CASE TakeTask(t) \/ Finish(t) \/ LexFailure(t)
  BY <1>1, <1>2, TakeTaskDelivers, FinishDelivers, LexFailureDelivers
<1>3. CASE ParseBegin(t) \/ ParseEnd(t) \/ Fixups(t)
  BY <1>1, <1>3, ParseBeginDelivers, ParseEndDelivers, FixupsDelivers
<1>4. CASE CreateDep(t) \/ EnqueueDep(t)
  BY <1>1, <1>4, CreateDepDelivers, EnqueueDepDelivers
<1>5. CASE \/ Wait(t) \/ Quit(t) \/ Idle(t)
           \/ FindImport(t) \/ SkipRepeated(t) \/ LexDone(t)
           \/ CheckStructs(t) \/ CheckAndGenerate(t)
  <2>1. Calm(t)
    BY <1>5, OthersAreCalm
  <2> QED
    BY <1>1, <2>1, CalmStep
<1>6. CASE AttachDep(t)
  <2>1. CASE HasBody(dep_imp[t])
    <3>1. Calm(t)
      BY <1>6, <2>1, OthersAreCalm
    <3> QED
      BY <1>1, <3>1, CalmStep
  <2>2. CASE ~HasBody(dep_imp[t])
    BY <1>1, <1>6, <2>2, AttachDepDelivers
  <2> QED
    BY <2>1, <2>2
<1> QED
  BY <1>2, <1>3, <1>4, <1>5, <1>6 DEF ThreadStep, Schedule, LexFile

LEMMA InitDelivery == Init => DeliveryInv
<1> SUFFICES ASSUME Init PROVE DeliveryInv
  OBVIOUS
<1>1. /\ Len(imports) = 1 /\ NoImport = 0
      /\ \A id \in ImportId : id \in Nat /\ id >= 1
  BY DEF Init, ImportId, NoImport
<1>2. QueueInv
  BY <1>1 DEF Init, QueueInv, PreloadTask, LexTask
<1>3. \A t \in Thread : BodyOf(t)
  BY <1>1 DEF Init, BodyOf
<1>4. KnownInv
  BY <1>1 DEF Init, KnownInv
<1>5. ASSUME NEW id \in ImportId, id <= Len(imports) PROVE Settled(id)
  <2>1. id = 1
    BY <1>1, <1>5
  <2>2. fixups[id] = << >> /\ body[id] # "none"
    BY <2>1 DEF Init
  <2> QED
    BY <2>2 DEF Settled
<1> QED
  BY <1>2, <1>3, <1>4, <1>5 DEF DeliveryInv

\* Whoever is waited for delivers, or its failure has been reported: no import waits in
\* silence, whichever thread creates, queues or parses the file it waits for.
THEOREM BodiesAreDelivered == Spec => []NoLostFixup
<1> DEFINE Inv == PhaseInv /\ TasksInv /\ DeliveryInv
<1>1. Init => Inv
  BY InitTasks, InitWaits, InitDelivery
<1>2. TypeInv /\ Inv /\ [Next]_vars => Inv'
  <2> SUFFICES ASSUME TypeInv, Inv, [Next]_vars PROVE Inv'
    OBVIOUS
  <2>1. TasksInv'
    BY TasksStep
  <2>2. CASE UNCHANGED vars
    <3>1. UNCHANGED <<program, tasks, imports, import_map, body, fixups, errors, pc, task, dep_imp, i,
                      queue_task>>
      BY <2>2 DEF vars, queueVars, importVars, localVars
    <3>2. PhaseInv'
      BY <3>1 DEF PhaseInv
    <3> QED
      BY <2>1, <3>1, <3>2, StillDelivery
  <2>3. ASSUME NEW t \in Thread, ThreadStep(t) PROVE PhaseInv' /\ DeliveryInv'
    BY <2>1, <2>3, PhaseStep, DeliveryStep
  <2> QED
    BY <2>1, <2>2, <2>3 DEF Next, Terminated
<1>3. IInv => TypeInv
  BY DEF IInv
<1>4. TypeInv /\ DeliveryInv => NoLostFixup
  <2> SUFFICES ASSUME TypeInv, DeliveryInv, NEW id \in ImportId, fixups[id] # << >>
               PROVE  \/ \E k \in DOMAIN tasks : tasks[k] = LexTask(imports[id], id)
                      \/ \E t \in Thread : \/ pc[t] \in {"lex", "body", "fixups"} /\ task[t].imp = id
                                           \/ pc[t] = "enqueue" /\ dep_imp[t] = id
                      \/ errors /\ body[id] # "parsed"
    BY DEF NoLostFixup
  <2>1. Settled(id)
    <3>1. id <= Len(imports) \/ id > Len(imports)
      BY DEF TypeInv, TypeOK, ImportTypeOK, ImportId
    <3> QED
      BY <3>1 DEF DeliveryInv, KnownInv
  <2>2. ASSUME NEW k \in DOMAIN tasks, tasks[k].type = "TASK_LEX_FILE", tasks[k].imp = id
        PROVE  tasks[k] = LexTask(imports[id], id)
    BY <2>2 DEF DeliveryInv, QueueInv, ImportId, NoImport
  <2> QED
    BY <2>1, <2>2 DEF Settled, Coming
<1> HIDE DEF Inv
<1> QED
  BY <1>1, <1>2, <1>3, <1>4, Invariance, PTL DEF Spec, Inv


-----------------------------------------------------------------------------
(***************************************************************************)
(* The scopes of imports: each file an import names is in its scopes or    *)
(* registered to be told to it, and when nothing is registered any more    *)
(* all are there.                                                          *)
(***************************************************************************)
\* The import x searches the scope of a file f.
Has(x, f) ==
    \E id \in ImportId :
        /\ id <= Len(imports) /\ imports[id] = f
        /\ body[id] # "none" /\ id \in shared_scopes[x]

\* It is registered to be told of it.
Awaits(x, f) ==
    \E id \in ImportId :
        /\ id <= Len(imports) /\ imports[id] = f
        /\ \E k \in DOMAIN fixups[id] : fixups[id][k] = x

Complete(y) == \A f \in Range(program.imports[y.name]) : Has(y.imp, f)

Informed(y) == \A f \in Range(program.imports[y.name]) : Has(y.imp, f) \/ Awaits(y.imp, f)

ScopesOf(t) ==
    /\ pc[t] \in {"wait", "select", "lex", "body", "fixups"} => i[t] = 1
    /\ pc[t] \in {"find", "create", "enqueue", "attach"} =>
           \A j \in DOMAIN Imported(t) : j < i[t] =>
               Has(task[t].imp, Imported(t)[j]) \/ Awaits(task[t].imp, Imported(t)[j])
    /\ pc[t] = "attach" => imports[dep_imp[t]] = Imported(t)[i[t]]
    /\ queue_task[t] => Informed(task[t])
    /\ pc[t] \in StructPc \cup FunctionPc \cup GenPc => Complete(task[t])

ScopesInv ==
    /\ \A k \in DOMAIN tasks : tasks[k].type # "TASK_LEX_FILE" => Informed(tasks[k])
    /\ \A t \in Thread : ScopesOf(t)
    /\ \A f \in File : import_map[f] # NoImport => imports[import_map[f]] = f

\* What was said to an import is not taken back.
Grows ==
    /\ program' = program
    /\ \A x \in ImportId, f \in File :
          /\ Has(x, f) => Has(x, f)'
          /\ Awaits(x, f) => Awaits(x, f)' \/ Has(x, f)'

LEMMA GrowsIf ==
    ASSUME TypeInv, program' = program, Len(imports') \in Nat, Len(imports) <= Len(imports'),
           \A id \in 1 .. Len(imports) : imports'[id] = imports[id],
           \A id \in ImportId : body[id] # "none" => body'[id] # "none",
           \A id \in ImportId : shared_scopes[id] \subseteq shared_scopes'[id],
           \A id \in ImportId : \A k \in DOMAIN fixups[id] :
               \/ k \in DOMAIN fixups'[id] /\ fixups'[id][k] = fixups[id][k]
               \/ body'[id] # "none" /\ id \in shared_scopes'[fixups[id][k]]
    PROVE  Grows
<1>1. Len(imports) \in Nat /\ \A id \in ImportId : id \in Nat /\ id >= 1
  BY DEF TypeInv, TypeOK, ImportTypeOK, ImportId
<1>2. ASSUME NEW x \in ImportId, NEW f \in File, Has(x, f) PROVE Has(x, f)'
  <2>1. PICK id \in ImportId : /\ id <= Len(imports) /\ imports[id] = f
                               /\ body[id] # "none" /\ id \in shared_scopes[x]
    BY <1>2 DEF Has
  <2>2. id <= Len(imports') /\ id \in 1 .. Len(imports)
    BY <1>1, <2>1
  <2>3. imports'[id] = f /\ body'[id] # "none" /\ id \in shared_scopes'[x]
    BY <2>1, <2>2
  <2> QED
    BY <2>2, <2>3 DEF Has
<1>3. ASSUME NEW x \in ImportId, NEW f \in File, Awaits(x, f)
      PROVE  Awaits(x, f)' \/ Has(x, f)'
  <2>1. PICK id \in ImportId : /\ id <= Len(imports) /\ imports[id] = f
                               /\ \E k \in DOMAIN fixups[id] : fixups[id][k] = x
    BY <1>3 DEF Awaits
  <2>2. PICK k \in DOMAIN fixups[id] : fixups[id][k] = x
    BY <2>1
  <2>3. id <= Len(imports') /\ id \in 1 .. Len(imports)
    BY <1>1, <2>1
  <2>4. imports'[id] = f
    BY <2>1, <2>3
  <2>5. CASE k \in DOMAIN fixups'[id] /\ fixups'[id][k] = x
    BY <2>3, <2>4, <2>5 DEF Awaits
  <2>6. CASE body'[id] # "none" /\ id \in shared_scopes'[x]
    BY <2>3, <2>4, <2>6 DEF Has
  <2> QED
    BY <2>2, <2>5, <2>6
<1> QED
  BY <1>2, <1>3 DEF Grows


\* Only the attachment and the delivery change what is told to imports.
LEMMA StepGrows ==
    ASSUME TypeInv, DeliveryInv, NEW t \in Thread, ThreadStep(t)
    PROVE  Grows
<1> USE DEF TypeInv, TypeOK
<1>1. /\ imports \in Seq(File) /\ Len(imports) \in Nat
      /\ body \in [ImportId -> {"none", "parsing", "parsed"}]
      /\ fixups \in [ImportId -> Seq(ImportId)]
      /\ shared_scopes \in [ImportId -> SUBSET ImportId]
      /\ task[t].imp \in ImportId \cup {NoImport} /\ task[t].name \in File
  BY DEF ImportTypeOK, LocalTypeOK, Task
<1>2. ASSUME UNCHANGED <<program, imports, body, fixups, shared_scopes>> PROVE Grows
  BY <1>2 DEF Grows, Has, Awaits
<1>3. CASE Fixups(t)
  <2> DEFINE imp == task[t].imp
  <2>1. UNCHANGED <<program, imports, body>> /\ pc[t] = "fixups"
    BY <1>3 DEF Fixups, At
  <2>2. CASE imp = NoImport
    BY <1>2, <1>3, <2>1, <2>2 DEF Fixups
  <2>3. CASE imp # NoImport
    <3>1. /\ imp \in ImportId /\ fixups' = [fixups EXCEPT ![imp] = << >>]
          /\ shared_scopes' = [id \in ImportId |->
                IF Occurrences(fixups[imp], id) > 0 THEN shared_scopes[id] \cup {imp} ELSE shared_scopes[id]]
      BY <1>1, <1>3, <2>3 DEF Fixups
    <3>2. body[imp] = "parsed"
      BY <2>1, <2>3 DEF DeliveryInv, BodyOf
    <3> HIDE DEF imp
    <3>3. ASSUME NEW k \in DOMAIN fixups[imp] PROVE imp \in shared_scopes'[fixups[imp][k]]
      <4> DEFINE x == fixups[imp][k]
                 K == {j \in DOMAIN fixups[imp] : fixups[imp][j] = x}
      <4>1. x \in ImportId /\ DOMAIN fixups[imp] = 1 .. Len(fixups[imp]) /\ Len(fixups[imp]) \in Nat
        BY <1>1, <3>1
      <4>2. IsFiniteSet(K) /\ K # {}
        <5>1. IsFiniteSet(DOMAIN fixups[imp])
          BY <4>1, FS_Interval
        <5> QED
          BY <5>1, FS_Subset
      <4>3. Cardinality(K) \in Nat /\ Cardinality(K) # 0
        BY <4>2, FS_CardinalityType, FS_EmptySet
      <4>4. Occurrences(fixups[imp], x) > 0
        BY <4>3 DEF Occurrences
      <4> HIDE DEF x, K
      <4>5. imp \in shared_scopes'[x]
        BY <3>1, <4>1, <4>4
      <4> QED
        BY <4>5 DEF x
    <3>4. \A id \in ImportId : id # imp => fixups'[id] = fixups[id]
      BY <1>1, <3>1
    <3>5. \A id \in ImportId : shared_scopes[id] \subseteq shared_scopes'[id]
      BY <1>1, <3>1
    <3>6. \A id \in ImportId : \A k \in DOMAIN fixups[id] :
              \/ k \in DOMAIN fixups'[id] /\ fixups'[id][k] = fixups[id][k]
              \/ body'[id] # "none" /\ id \in shared_scopes'[fixups[id][k]]
      BY <2>1, <3>2, <3>3, <3>4
    <3> QED
      BY <1>1, <2>1, <3>5, <3>6, GrowsIf
  <2> QED
    BY <2>2, <2>3
<1>4. ASSUME WaitFor(task[t].imp, dep_imp[t]), UNCHANGED <<program, imports, body, shared_scopes>>,
             task[t].imp \in ImportId, dep_imp[t] \in ImportId
      PROVE  Grows
  <2>1. /\ \A id \in ImportId \ {dep_imp[t]} : fixups'[id] = fixups[id]
        /\ fixups'[dep_imp[t]] = Append(fixups[dep_imp[t]], task[t].imp)
        /\ fixups[dep_imp[t]] \in Seq(ImportId)
    BY <1>1, <1>4 DEF WaitFor
  <2>2. \A k \in DOMAIN fixups[dep_imp[t]] :
            k \in DOMAIN fixups'[dep_imp[t]] /\ fixups'[dep_imp[t]][k] = fixups[dep_imp[t]][k]
    BY <1>4, <2>1, AppendProperties
  <2>3. \A id \in ImportId : \A k \in DOMAIN fixups[id] :
            k \in DOMAIN fixups'[id] /\ fixups'[id][k] = fixups[id][k]
    BY <2>1, <2>2
  <2> QED
    BY <1>1, <1>4, <2>3, GrowsIf
<1>5. pc[t] \in {"enqueue", "attach"} => task[t].imp \in ImportId /\ dep_imp[t] \in ImportId
  BY DEF LocalTypeOK, ImportKnown, Task, WorkPc, LexPc
<1>6. CASE EnqueueDep(t)
  BY <1>4, <1>5, <1>6 DEF EnqueueDep, At
<1>7. CASE AttachDep(t)
  <2>1. UNCHANGED <<program, imports, body>> /\ pc[t] = "attach"
    BY <1>7 DEF AttachDep, At
  <2>2. CASE HasBody(dep_imp[t])
    <3>1. /\ shared_scopes' = [shared_scopes EXCEPT ![task[t].imp] = @ \cup {dep_imp[t]}]
          /\ fixups' = fixups
      BY <1>7, <2>2 DEF AttachDep
    <3>2. \A id \in ImportId : shared_scopes[id] \subseteq shared_scopes'[id]
      BY <1>1, <3>1
    <3> QED
      BY <1>1, <2>1, <3>1, <3>2, GrowsIf
  <2>3. CASE ~HasBody(dep_imp[t])
    BY <1>4, <1>5, <1>7, <2>1, <2>3 DEF AttachDep
  <2> QED
    BY <2>2, <2>3
<1>8. CASE CreateDep(t)
  <2>1. UNCHANGED <<program, body, fixups, shared_scopes>> /\ pc[t] = "create"
    BY <1>8 DEF CreateDep, At
  <2>2. Len(imports') = Len(imports) + 1 /\ \A id \in 1 .. Len(imports) : imports'[id] = imports[id]
    <3>1. imports' = Append(imports, Imported(t)[i[t]])
      BY <1>8 DEF CreateDep, CreateImport
    <3>2. Imported(t)[i[t]] \in File
      BY <2>1, ImportedType DEF IndexKnown
    <3> QED
      BY <1>1, <3>1, <3>2, AppendProperties
  <2>3. Len(imports') \in Nat /\ Len(imports) <= Len(imports')
    BY <1>1, <2>2
  <2> QED
    BY <2>1, <2>2, <2>3, GrowsIf
<1>9. CASE ParseBegin(t)
  <2>1. UNCHANGED <<program, fixups, shared_scopes>>
    BY <1>9 DEF ParseBegin
  <2>2. \A id \in ImportId : body[id] # "none" => body'[id] # "none"
    <3>1. body' = body \/ \E id \in ImportId : body' = [body EXCEPT ![id] = "parsing"]
      BY <1>1, <1>9 DEF ParseBegin
    <3> QED
      BY <1>1, <3>1
  <2>3. CASE task[t].imp # NoImport
    <3>1. imports' = imports
      BY <1>9, <2>3 DEF ParseBegin
    <3> QED
      BY <1>1, <2>1, <2>2, <3>1, GrowsIf
  <2>4. CASE task[t].imp = NoImport
    <3>1. imports' = Append(imports, task[t].name)
      BY <1>9, <2>4 DEF ParseBegin, CreateImport
    <3>2. Len(imports') = Len(imports) + 1 /\ \A id \in 1 .. Len(imports) : imports'[id] = imports[id]
      BY <1>1, <3>1, AppendProperties
    <3>3. Len(imports') \in Nat /\ Len(imports) <= Len(imports')
      BY <1>1, <3>2
    <3> QED
      BY <2>1, <2>2, <3>2, <3>3, GrowsIf
  <2> QED
    BY <2>3, <2>4
<1>10. CASE ParseEnd(t)
  <2>1. UNCHANGED <<program, imports, fixups, shared_scopes>>
    BY <1>10 DEF ParseEnd
  <2>2. body' = body \/ body' = [body EXCEPT ![task[t].imp] = "parsed"]
    BY <1>10 DEF ParseEnd
  <2>3. \A id \in ImportId : body[id] # "none" => body'[id] # "none"
    BY <1>1, <2>2
  <2> QED
    BY <1>1, <2>1, <2>3, GrowsIf
<1>11. CASE Schedule(t)
  BY <1>2, <1>11 DEF Schedule, Wait, Quit, Idle, TakeTask, Finish, importVars
<1>12. CASE LexFailure(t) \/ FindImport(t) \/ SkipRepeated(t) \/ LexDone(t)
  BY <1>2, <1>12 DEF LexFailure, FindImport, SkipRepeated, LexDone, importVars
<1>13. CASE CheckStructs(t)
  BY <1>2, <1>13 DEF CheckStructs, CreateStruct, CheckMembers, StructsSucceed, StructsReport, StructsRetry,
                     StructsDrop, importVars
<1>14. CASE CheckAndGenerate(t)
  BY <1>2, <1>14 DEF CheckAndGenerate, CheckFunctions, Gate, CheckGlobals, GenMain, GenCalls, importVars
<1> QED
  BY <1>3, <1>6, <1>7, <1>8, <1>9, <1>10, <1>11, <1>12, <1>13, <1>14 DEF ThreadStep, LexFile


LEMMA StepKeepsPlaces ==
    ASSUME TypeInv, NEW t \in Thread, ThreadStep(t)
    PROVE  /\ \A u \in Thread \ {t} : i'[u] = i[u]
           /\ \A id \in 1 .. Len(imports) : imports'[id] = imports[id]
<1> USE DEF TypeInv, TypeOK, LocalTypeOK
<1>1. imports \in Seq(File)
  BY DEF ImportTypeOK
<1>2. CASE CreateDep(t)
  <2>1. UNCHANGED i /\ imports' = Append(imports, Imported(t)[i[t]])
    BY <1>2 DEF CreateDep, CreateImport
  <2>2. Imported(t)[i[t]] \in File
    BY <1>2, ImportedType DEF IndexKnown, CreateDep, At
  <2> QED
    BY <1>1, <2>1, <2>2, AppendProperties
<1>3. CASE ParseBegin(t)
  <2>1. UNCHANGED i /\ (imports' = imports \/ imports' = Append(imports, task[t].name))
    BY <1>3 DEF ParseBegin, CreateImport
  <2>2. task[t].name \in File
    BY ImportedType
  <2> QED
    BY <1>1, <2>1, <2>2, AppendProperties
<1>4. CASE Wait(t) \/ Quit(t) \/ Idle(t) \/ TakeTask(t) \/ Finish(t)
  BY <1>4 DEF Wait, Quit, Idle, TakeTask, Finish, importVars, localVars
<1>5. CASE LexFailure(t) \/ ParseEnd(t) \/ Fixups(t)
  BY <1>5 DEF LexFailure, ParseEnd, Fixups, importVars, localVars
<1>6. CASE FindImport(t) \/ SkipRepeated(t) \/ EnqueueDep(t) \/ AttachDep(t) \/ LexDone(t)
  BY <1>6 DEF FindImport, SkipRepeated, EnqueueDep, AttachDep, LexDone, importVars
<1>7. CASE CheckStructs(t)
  BY <1>7 DEF CheckStructs, CreateStruct, CheckMembers, StructsSucceed, StructsReport, StructsRetry,
              StructsDrop, importVars
<1>8. CASE CheckAndGenerate(t)
  BY <1>8 DEF CheckAndGenerate, CheckFunctions, Gate, CheckGlobals, GenMain, GenCalls, importVars, localVars
<1> QED
  BY <1>2, <1>3, <1>4, <1>5, <1>6, <1>7, <1>8 DEF ThreadStep, Schedule, LexFile

LEMMA InformedGrows ==
    ASSUME TypeInv, Grows, NEW y, y.imp \in ImportId, y.name \in File
    PROVE  /\ Informed(y) => Informed(y)'
           /\ Complete(y) => Complete(y)' /\ Informed(y)'
<1>1. program.imports[y.name] \in Seq(File)
  BY ProgramsAssumption DEF TypeInv, TypeOK, Program
<1>2. Range(program.imports[y.name]) \subseteq File
  BY <1>1 DEF Range
<1>3. program' = program
  BY DEF Grows
<1> QED
  BY <1>2, <1>3 DEF Grows, Informed, Complete

\* The other threads.
LEMMA ScopesOfOthers ==
    ASSUME TypeInv, DeliveryInv, ScopesInv, NEW t \in Thread, ThreadStep(t), NEW u \in Thread \ {t}
    PROVE  ScopesOf(u)'
<1>1. Local(t) /\ Grows /\ i'[u] = i[u] /\ \A id \in 1 .. Len(imports) : imports'[id] = imports[id]
  BY StepIsLocal, StepGrows, StepKeepsPlaces
<1>2. /\ pc'[u] = pc[u] /\ task'[u] = task[u] /\ dep_imp'[u] = dep_imp[u] /\ queue_task'[u] = queue_task[u]
      /\ Imported(u)' = Imported(u)
  BY <1>1 DEF Local, Grows, Imported
<1>3. /\ task[u] \in Task /\ task[u].name \in File /\ Imported(u) \in Seq(File)
      /\ Range(program.imports[task[u].name]) \subseteq File
  <2>1. task[u] \in Task /\ task[u].name \in File /\ Imported(u) \in Seq(File)
    BY ImportedType DEF TypeInv
  <2> QED
    BY <2>1 DEF Imported, Range
<1>4. /\ pc[u] \in WorkPc \ {"lex", "fixups", "finish"} \/ queue_task[u] => task[u].imp \in ImportId
      /\ pc[u] = "attach" => dep_imp[u] \in 1 .. Len(imports)
  BY <1>3 DEF TypeInv, TypeOK, LocalTypeOK, Task, ImportKnown, DeliveryInv, BodyOf, ImportId, NoImport
<1>5. ScopesOf(u)
  BY DEF ScopesInv
<1>6. pc[u] \in {"find", "create", "enqueue", "attach"} =>
          \A j \in DOMAIN Imported(u) : j < i[u] =>
              Has(task[u].imp, Imported(u)[j])' \/ Awaits(task[u].imp, Imported(u)[j])'
  <2> SUFFICES ASSUME pc[u] \in {"find", "create", "enqueue", "attach"},
                      NEW j \in DOMAIN Imported(u), j < i[u]
               PROVE  Has(task[u].imp, Imported(u)[j])' \/ Awaits(task[u].imp, Imported(u)[j])'
    OBVIOUS
  <2>1. PICK x \in ImportId, f \in File : x = task[u].imp /\ f = Imported(u)[j]
    BY <1>3, <1>4 DEF WorkPc, LexPc
  <2>2. Has(x, f) \/ Awaits(x, f)
    BY <1>5, <2>1 DEF ScopesOf
  <2>3. Has(x, f)' \/ Awaits(x, f)'
    BY <1>1, <2>2 DEF Grows
  <2>4. task'[u].imp = x /\ Imported(u)'[j] = f
    BY <1>2, <2>1
  <2> QED
    BY <2>3, <2>4 DEF Has, Awaits
<1>7. queue_task[u] => Informed(task[u])'
  <2> SUFFICES ASSUME queue_task[u] PROVE Informed(task[u])'
    OBVIOUS
  <2>1. PICK y : y = task[u]
    OBVIOUS
  <2>2. Informed(y)'
    BY <1>1, <1>3, <1>4, <1>5, <2>1, InformedGrows DEF ScopesOf
  <2> QED
    BY <1>2, <2>1, <2>2
<1>8. pc[u] \in StructPc \cup FunctionPc \cup GenPc => Complete(task[u])'
  <2> SUFFICES ASSUME pc[u] \in StructPc \cup FunctionPc \cup GenPc PROVE Complete(task[u])'
    OBVIOUS
  <2>1. PICK y : y = task[u]
    OBVIOUS
  <2>2. task[u].imp \in ImportId
    BY <1>4 DEF WorkPc, StructPc, FunctionPc, GenPc
  <2>3. Complete(y)'
    BY <1>1, <1>3, <1>5, <2>1, <2>2, InformedGrows DEF ScopesOf
  <2> QED
    BY <1>2, <2>1, <2>3
<1>9. pc[u] = "attach" => imports'[dep_imp[u]] = imports[dep_imp[u]]
  BY <1>1, <1>4
<1> QED
  BY <1>1, <1>2, <1>5, <1>6, <1>7, <1>8, <1>9 DEF ScopesOf


\* A thread past the first phase keeps the scopes it has.
LEMMA ScopesOfChecks ==
    ASSUME TypeInv, DeliveryInv, ScopesInv, NEW t \in Thread, CheckStructs(t) \/ CheckAndGenerate(t)
    PROVE  ScopesOf(t)'
<1> USE DEF TypeInv, TypeOK, LocalTypeOK, Goto
<1> DEFINE Later == StructPc \cup FunctionPc \cup GenPc
<1>1. ASSUME pc[t] \in Later, pc'[t] \in Later \cup {"finish"},
             task'[t].name = task[t].name, task'[t].imp = task[t].imp
      PROVE  ScopesOf(t)'
  <2>1. Grows
    BY StepGrows DEF ThreadStep
  <2>2. task[t].imp \in ImportId /\ task[t].name \in File
    BY <1>1, ImportedType DEF ImportKnown, Task, WorkPc, LexPc, StructPc, FunctionPc, GenPc
  <2>3. PICK y : y = task[t]
    OBVIOUS
  <2>4. Complete(y)' /\ Informed(y)'
    BY <1>1, <2>1, <2>2, <2>3, InformedGrows DEF ScopesInv, ScopesOf
  <2>5. Complete(task[t])' /\ Informed(task[t])'
    <3>1. \A z : z.name = y.name /\ z.imp = y.imp => Complete(z)' /\ Informed(z)'
      BY <2>4 DEF Complete, Informed
    <3> QED
      BY <1>1, <2>3, <3>1
  <2>6. pc'[t] \notin {"wait", "select", "lex", "body", "fixups", "find", "create", "enqueue", "attach"}
    BY <1>1 DEF StructPc, FunctionPc, GenPc
  <2> QED
    BY <2>5, <2>6 DEF ScopesOf
<1>2. CASE CreateStruct(t) \/ CheckMembers(t) \/ StructsReport(t)
  BY <1>1, <1>2 DEF CreateStruct, CheckMembers, StructsReport, StructsChecked, At, StructPc
<1>3. CASE StructsSucceed(t) \/ StructsRetry(t) \/ StructsDrop(t)
  BY <1>1, <1>3 DEF StructsSucceed, StructsRetry, StructsDrop, StructsChecked, At, StructPc, Task
<1>4. CASE CheckFunctions(t) \/ CheckGlobals(t)
  BY <1>1, <1>4 DEF CheckFunctions, CheckGlobals, At, FunctionPc, localVars
<1>5. CASE Gate(t)
  BY <1>1, <1>5 DEF Gate, At, FunctionPc, Task
<1>6. CASE GenMain(t) \/ GenCalls(t)
  BY <1>1, <1>6 DEF GenMain, GenCalls, At, GenPc, localVars
<1> QED
  BY <1>2, <1>3, <1>4, <1>5, <1>6 DEF CheckStructs, CheckAndGenerate

\* A task is taken when nothing is registered any more for its import: it has all scopes.
LEMMA ReadyIsComplete ==
    ASSUME TypeInv, WaitsInv, NEW k \in DOMAIN tasks, Ready(k), tasks[k].type # "TASK_LEX_FILE",
           Informed(tasks[k])
    PROVE  Complete(tasks[k])
<1> DEFINE x == tasks[k].imp
<1>1. x \in ImportId /\ x # NoImport
  <2>1. tasks[k] \in Task
    BY DEF TypeInv, TypeOK, QueueTypeOK
  <2> QED
    BY <2>1 DEF Task, TypeInv, ImportKnown
<1>2. deps_count[x] = deps_now[x] /\ deps_now[x] \in Nat
  BY <1>1 DEF Ready, TypeInv, TypeOK, ImportTypeOK
<1> HIDE DEF x
<1>3. Waits(x) = {}
  <2>1. IsFiniteSet(Waits(x)) /\ deps_count[x] = deps_now[x] + Cardinality(Waits(x))
    BY <1>1 DEF WaitsInv
  <2>2. Cardinality(Waits(x)) \in Nat
    BY <2>1, FS_CardinalityType
  <2>3. Cardinality(Waits(x)) = 0
    BY <1>2, <2>1, <2>2
  <2> QED
    BY <2>1, <2>3, FS_EmptySet
<1>4. \A f : ~Awaits(x, f)
  BY <1>3, WaitsElements DEF Awaits
<1> QED
  BY <1>4 DEF Informed, Complete, x

LEMMA ScopesOfScheduler ==
    ASSUME TypeInv, WaitsInv, DeliveryInv, ScopesInv, NEW t \in Thread, Schedule(t)
    PROVE  ScopesOf(t)'
<1> USE DEF TypeInv, TypeOK, LocalTypeOK, Goto
<1>1. pc[t] \in {"wait", "select"} => i[t] = 1 /\ ~queue_task[t]
  BY DEF ScopesInv, ScopesOf, ImportKnown
<1>2. CASE Wait(t) \/ Quit(t) \/ Idle(t)
  <2>1. /\ pc[t] \in {"wait", "select"} /\ pc'[t] \in {"wait", "select", "done"}
        /\ UNCHANGED <<i, queue_task>>
    BY <1>2 DEF Wait, Quit, Idle, At, localVars
  <2>2. pc'[t] \notin StructPc \cup FunctionPc \cup GenPc
    BY <2>1 DEF StructPc, FunctionPc, GenPc
  <2> QED
    BY <1>1, <2>1, <2>2 DEF ScopesOf
<1>3. CASE TakeTask(t)
  <2>1. PICK k \in DOMAIN tasks :
            Ready(k) /\ task' = [task EXCEPT ![t] = tasks[k]] /\ Goto(t, Entry[tasks[k].type])
    BY <1>3 DEF TakeTask
  <2>2. tasks[k] \in Task /\ task'[t] = tasks[k] /\ pc'[t] = Entry[tasks[k].type]
    BY <2>1 DEF QueueTypeOK
  <2>3. pc[t] = "select" /\ UNCHANGED <<i, queue_task>>
    BY <1>3 DEF TakeTask, At
  <2>4. /\ pc'[t] \in {"lex", "struct", "functions", "gen_main"}
        /\ pc'[t] # "lex" => tasks[k].type # "TASK_LEX_FILE"
    BY <2>2 DEF Entry, TaskType, Task
  <2>5. pc'[t] # "lex" => Complete(task[t])'
    <3> SUFFICES ASSUME pc'[t] # "lex" PROVE Complete(task[t])'
      OBVIOUS
    <3>1. PICK y : y = tasks[k]
      OBVIOUS
    <3>2. y.imp \in ImportId /\ y.name \in File
      BY <2>2, <2>4, <3>1 DEF ImportKnown, Task
    <3>3. Complete(y)
      BY <2>1, <2>4, <3>1, ReadyIsComplete DEF ScopesInv
    <3>4. Grows
      BY <1>3, StepGrows DEF ThreadStep, Schedule
    <3>5. Complete(y)'
      BY <3>2, <3>3, <3>4, InformedGrows
    <3> QED
      BY <2>2, <3>1, <3>5
  <2> QED
    BY <1>1, <2>3, <2>4, <2>5 DEF ScopesOf, StructPc, FunctionPc, GenPc
<1>4. CASE Finish(t)
  <2>1. pc'[t] = "wait" /\ i'[t] = 1 /\ ~queue_task'[t]
    BY <1>4 DEF Finish
  <2> QED
    BY <2>1 DEF ScopesOf, StructPc, FunctionPc, GenPc
<1> QED
  BY <1>2, <1>3, <1>4 DEF Schedule


\* A thread that reads a file: what it has come past is known.
LEMMA ScopesOfLexer ==
    ASSUME TypeInv, DeliveryInv, ScopesInv, NEW t \in Thread, LexFile(t)
    PROVE  ScopesOf(t)'
<1> USE DEF TypeInv, TypeOK, LocalTypeOK, Goto
<1> DEFINE Told(x, f) == Has(x, f) \/ Awaits(x, f)
           Past == \A j \in DOMAIN Imported(t) : j < i[t] => Told(task[t].imp, Imported(t)[j])
           Dep == Imported(t)[i[t]]
<1>1. Grows
  BY StepGrows DEF ThreadStep
<1>2. /\ task[t] \in Task /\ task[t].name \in File /\ Imported(t) \in Seq(File) /\ i[t] \in Nat
      /\ program' = program
  BY <1>1, ImportedType DEF Grows
<1>3. pc[t] \in {"wait", "select", "lex", "body", "fixups"} => i[t] = 1
  BY DEF ScopesInv, ScopesOf
<1>4. pc[t] \in {"find", "create", "enqueue", "attach"} => Past /\ task[t].imp \in ImportId
  BY <1>2 DEF ScopesInv, ScopesOf, ImportKnown, Task, WorkPc, LexPc
<1>5. pc[t] \in LexPc => ~queue_task[t]
  BY DEF ImportKnown, LexPc
<1>6. \A x \in ImportId, f \in File : Told(x, f) => Told(x, f)'
  BY <1>1 DEF Grows
<1>7. CASE LexFailure(t)
  BY <1>5, <1>7 DEF LexFailure, At, localVars, ScopesOf, LexPc, StructPc, FunctionPc, GenPc
<1>8. CASE ParseBegin(t) \/ ParseEnd(t)
  <2>1. /\ pc[t] \in {"lex", "body"} /\ pc'[t] \in {"body", "fixups"} /\ UNCHANGED <<i, queue_task>>
    BY <1>8 DEF ParseBegin, ParseEnd, At
  <2> QED
    BY <1>3, <1>5, <2>1 DEF ScopesOf, LexPc, StructPc, FunctionPc, GenPc
<1>9. CASE Fixups(t)
  <2>1. pc[t] = "fixups" /\ pc'[t] \in {"fixups", "find"} /\ UNCHANGED <<i, queue_task, task>>
    BY <1>9 DEF Fixups, At, localVars
  <2>2. i'[t] = 1 /\ ~queue_task'[t]
    BY <1>3, <1>5, <2>1 DEF LexPc
  <2>3. \A j \in DOMAIN Imported(t)' : ~(j < i'[t])
    <3>1. Imported(t)' = Imported(t)
      BY <1>2, <2>1 DEF Imported
    <3>2. \A j \in DOMAIN Imported(t) : j \in Nat /\ j >= 1
      BY <1>2
    <3> QED
      BY <2>2, <3>1, <3>2
  <2> QED
    BY <2>1, <2>2, <2>3 DEF ScopesOf, StructPc, FunctionPc, GenPc
\* The loop over the dependencies: it stays at one, or has told of it and goes on.
<1>10. ASSUME pc[t] \in {"find", "create", "enqueue", "attach"}, task' = task, UNCHANGED queue_task,
              pc'[t] \in {"find", "create", "enqueue", "attach"},
              pc'[t] = "attach" => imports'[dep_imp'[t]] = Dep /\ i'[t] = i[t],
              \/ i'[t] = i[t]
              \/ /\ i'[t] = i[t] + 1
                 /\ \E x \in ImportId, f \in File :
                        x = task[t].imp /\ f = Dep /\ (Has(x, f)' \/ Awaits(x, f)')
       PROVE  ScopesOf(t)'
  <2>1. Imported(t)' = Imported(t) /\ ~queue_task'[t]
    BY <1>2, <1>5, <1>10 DEF Imported, LexPc
  <2>2. PICK x \in ImportId : x = task[t].imp
    BY <1>4, <1>10
  <2>3. \A j \in DOMAIN Imported(t) : j < i[t] => Has(x, Imported(t)[j]) \/ Awaits(x, Imported(t)[j])
    BY <1>4, <1>10, <2>2
  <2>4. ASSUME NEW j \in DOMAIN Imported(t), j < i'[t]
        PROVE  Has(x, Imported(t)[j])' \/ Awaits(x, Imported(t)[j])'
    <3>1. PICK f \in File : f = Imported(t)[j]
      BY <1>2
    <3>2. CASE j < i[t]
      <4>1. Has(x, f)' \/ Awaits(x, f)'
        BY <1>6, <2>3, <3>1, <3>2
      <4> QED
        BY <2>1, <3>1, <4>1 DEF Has, Awaits
    <3>3. CASE ~(j < i[t])
      <4>1. j \in Nat
        BY <1>2
      <4>2. j = i[t] /\ i'[t] = i[t] + 1
        BY <1>2, <1>10, <2>4, <3>3, <4>1
      <4>3. Has(x, f)' \/ Awaits(x, f)'
        BY <1>2, <1>10, <2>2, <3>1, <4>2
      <4> QED
        BY <2>1, <3>1, <4>3 DEF Has, Awaits
    <3> QED
      BY <3>2, <3>3
  <2>5. pc'[t] = "attach" => imports'[dep_imp'[t]] = Imported(t)'[i'[t]]
    BY <1>10, <2>1
  <2> QED
    BY <1>10, <2>1, <2>2, <2>4, <2>5 DEF ScopesOf, StructPc, FunctionPc, GenPc
<1> HIDE DEF Told, Past
<1>11. CASE FindImport(t)
  <2>1. /\ pc[t] = "find" /\ UNCHANGED <<i, task, queue_task, imports>> /\ Dep \in File
        /\ dep_imp'[t] = import_map[Dep] /\ pc'[t] = AfterFind(dep_imp'[t])
    BY <1>2, <1>11 DEF FindImport, At, importVars
  <2>2. pc'[t] = "attach" => imports[dep_imp'[t]] = Dep
    BY <2>1 DEF AfterFind, ScopesInv
  <2> QED
    BY <1>10, <2>1, <2>2 DEF AfterFind
<1>12. CASE SkipRepeated(t)
  <2>1. /\ pc[t] = "find" /\ pc'[t] = "find" /\ UNCHANGED <<task, queue_task>> /\ i'[t] = i[t] + 1
        /\ i[t] \in DOMAIN Imported(t) /\ Repeated(t)
    BY <1>12 DEF SkipRepeated, At
  <2>2. PICK x \in ImportId, f \in File : x = task[t].imp /\ f = Dep
    BY <1>2, <1>4, <2>1
  <2>3. PICK j \in 1 .. i[t] - 1 : Imported(t)[j] = f
    BY <2>1, <2>2 DEF Repeated
  <2>4. j \in DOMAIN Imported(t) /\ j < i[t]
    BY <1>2, <2>1, <2>3
  <2>5. Told(x, f)
    BY <1>4, <2>1, <2>2, <2>3, <2>4 DEF Past
  <2>6. Has(x, f)' \/ Awaits(x, f)'
    BY <1>6, <2>5 DEF Told
  <2> QED
    BY <1>10, <2>1, <2>2, <2>6
<1>13. CASE CreateDep(t)
  <2>1. pc[t] = "create" /\ pc'[t] = "enqueue" /\ UNCHANGED <<i, task, queue_task>>
    BY <1>13 DEF CreateDep, At
  <2> QED
    BY <1>10, <2>1
<1>14. ASSUME WaitFor(task[t].imp, dep_imp[t]), imports' = imports, imports[dep_imp[t]] = Dep,
              pc[t] \in {"enqueue", "attach"}
       PROVE  \E x \in ImportId, f \in File : x = task[t].imp /\ f = Dep /\ (Has(x, f)' \/ Awaits(x, f)')
  <2>1. PICK x \in ImportId, f \in File : x = task[t].imp /\ f = Dep
    BY <1>2, <1>4, <1>14 DEF IndexKnown
  <2>2. PICK dep \in ImportId : dep = dep_imp[t]
    BY <1>14 DEF ImportKnown
  <2>3. dep <= Len(imports')
    BY <1>14, <2>2 DEF DeliveryInv, BodyOf
  <2>4. fixups[dep] \in Seq(ImportId) /\ fixups'[dep] = Append(fixups[dep], x)
    BY <1>14, <2>1, <2>2 DEF WaitFor, ImportTypeOK
  <2>5. \E k \in DOMAIN fixups'[dep] : fixups'[dep][k] = x
    <3>1. Len(fixups[dep]) + 1 \in DOMAIN fixups'[dep] /\ fixups'[dep][Len(fixups[dep]) + 1] = x
      BY <2>4, AppendProperties
    <3> QED
      BY <3>1
  <2>6. Awaits(x, f)'
    BY <1>14, <2>1, <2>2, <2>3, <2>5 DEF Awaits
  <2> QED
    BY <2>1, <2>6
<1>15. CASE EnqueueDep(t)
  <2>1. /\ pc[t] = "enqueue" /\ pc'[t] = "find" /\ UNCHANGED <<task, queue_task, imports>>
        /\ i'[t] = i[t] + 1 /\ WaitFor(task[t].imp, dep_imp[t])
    BY <1>15 DEF EnqueueDep, At
  <2>2. imports[dep_imp[t]] = Dep
    BY <2>1 DEF DeliveryInv, BodyOf
  <2> QED
    BY <1>10, <1>14, <2>1, <2>2
<1>16. CASE AttachDep(t)
  <2>1. /\ pc[t] = "attach" /\ pc'[t] = "find" /\ UNCHANGED <<task, queue_task, imports, body>>
        /\ i'[t] = i[t] + 1
    BY <1>16 DEF AttachDep, At
  <2>2. imports[dep_imp[t]] = Dep
    BY <2>1 DEF ScopesInv, ScopesOf
  <2>3. CASE ~HasBody(dep_imp[t])
    <3>1. WaitFor(task[t].imp, dep_imp[t])
      BY <1>16, <2>3 DEF AttachDep
    <3> QED
      BY <1>10, <1>14, <2>1, <2>2, <3>1
  <2>4. CASE HasBody(dep_imp[t])
    <3>1. PICK x \in ImportId, f \in File : x = task[t].imp /\ f = Dep
      BY <1>2, <1>4, <2>1 DEF IndexKnown
    <3>2. PICK dep \in ImportId : dep = dep_imp[t]
      BY <2>1 DEF ImportKnown
    <3>3. dep <= Len(imports') /\ imports'[dep] = f /\ body'[dep] # "none"
      BY <2>1, <2>2, <2>4, <3>1, <3>2 DEF DeliveryInv, BodyOf, HasBody
    <3>4. dep \in shared_scopes'[x]
      BY <1>16, <2>4, <3>1, <3>2 DEF AttachDep, ImportTypeOK
    <3>5. Has(x, f)'
      BY <3>3, <3>4 DEF Has
    <3> QED
      BY <1>10, <2>1, <3>1, <3>5
  <2> QED
    BY <2>3, <2>4
<1>17. CASE LexDone(t)
  <2>1. /\ pc[t] = "find" /\ pc'[t] = "finish" /\ UNCHANGED i /\ i[t] \notin DOMAIN Imported(t)
        /\ task'[t].name = task[t].name /\ task'[t].imp = task[t].imp
    BY <1>2, <1>17 DEF LexDone, At, Task
  <2>2. PICK y : y = task[t]
    OBVIOUS
  <2>3. Informed(y)
    <3>1. ASSUME NEW j \in DOMAIN Imported(t) PROVE j < i[t]
      <4>1. DOMAIN Imported(t) = 1 .. Len(Imported(t)) /\ Len(Imported(t)) \in Nat /\ i[t] >= 1
        BY <1>2
      <4> HIDE DEF Dep
      <4> QED
        BY <1>2, <2>1, <3>1, <4>1
    <3>2. \A j \in DOMAIN Imported(t) : Told(y.imp, Imported(t)[j])
      BY <1>4, <2>1, <2>2, <3>1 DEF Past
    <3> QED
      BY <2>2, <3>2 DEF Informed, Told, Range, Imported
  <2>4. Informed(y)'
    BY <1>1, <1>2, <1>4, <2>1, <2>2, <2>3, InformedGrows
  <2>5. Informed(task[t])'
    <3>1. \A z : z.name = y.name /\ z.imp = y.imp => Informed(z)'
      BY <2>4 DEF Informed
    <3> QED
      BY <2>1, <2>2, <3>1
  <2> QED
    BY <2>1, <2>5 DEF ScopesOf, StructPc, FunctionPc, GenPc
<1> QED
  BY <1>7, <1>8, <1>9, <1>11, <1>12, <1>13, <1>15, <1>16, <1>17 DEF LexFile


\* The tasks in the queue.
LEMMA QueuedScopes ==
    ASSUME TypeInv, DeliveryInv, ScopesInv, NEW t \in Thread, ThreadStep(t), NEW k \in DOMAIN tasks',
           tasks'[k].type # "TASK_LEX_FILE"
    PROVE  Informed(tasks[k])'
<1>1. Grows
  BY StepGrows
<1>2. ASSUME NEW y \in Task, y.type # "TASK_LEX_FILE", y.imp # NoImport, Informed(y), tasks'[k] = y
      PROVE  Informed(tasks[k])'
  <2>1. Informed(y)'
    BY <1>1, <1>2, InformedGrows DEF Task
  <2> QED
    BY <1>2, <2>1
<1>3. ASSUME \E m \in DOMAIN tasks : tasks'[k] = tasks[m] PROVE Informed(tasks[k])'
  <2>1. PICK m \in DOMAIN tasks : tasks'[k] = tasks[m]
    BY <1>3
  <2>2. PICK y : y = tasks[m]
    OBVIOUS
  <2>3. y \in Task /\ y.type # "TASK_LEX_FILE" /\ y.imp # NoImport
    BY <2>1, <2>2 DEF TypeInv, TypeOK, QueueTypeOK, ImportKnown
  <2>4. Informed(y)
    BY <2>1, <2>2 DEF ScopesInv
  <2> QED
    BY <1>2, <2>1, <2>2, <2>3, <2>4
<1>4. CASE TakeTask(t)
  <2>1. PICK m \in DOMAIN tasks : tasks' = RemoveAt(tasks, m)
    BY <1>4 DEF TakeTask, Erase
  <2>2. tasks \in Seq(Task)
    BY DEF TypeInv, TypeOK, QueueTypeOK
  <2>3. /\ DOMAIN RemoveAt(tasks, m) = 1 .. Len(tasks) - 1
        /\ \A j \in 1 .. Len(tasks) - 1 :
              Shift(m, j) \in DOMAIN tasks /\ RemoveAt(tasks, m)[j] = tasks[Shift(m, j)]
    BY <2>2, EraseElements
  <2>4. \E l \in DOMAIN tasks : tasks'[k] = tasks[l]
    BY <2>1, <2>3
  <2> QED
    BY <1>3, <2>4
<1>5. CASE Finish(t)
  <2>1. CASE ~queue_task[t]
    BY <1>3, <1>5, <2>1 DEF Finish
  <2>2. CASE queue_task[t]
    <3>1. tasks' = Append(tasks, task[t]) /\ tasks \in Seq(Task) /\ task[t] \in Task
      BY <1>5, <2>2 DEF Finish, TypeInv, TypeOK, QueueTypeOK, LocalTypeOK
    <3>2. (\E m \in DOMAIN tasks : tasks'[k] = tasks[m]) \/ tasks'[k] = task[t]
      BY <3>1, AppendProperties
    <3>3. CASE tasks'[k] = task[t]
      <4>1. PICK y : y = task[t]
        OBVIOUS
      <4>2. y.imp # NoImport /\ Informed(y)
        BY <2>2, <4>1 DEF ScopesInv, ScopesOf, TypeInv, ImportKnown
      <4> QED
        BY <1>2, <3>1, <3>3, <4>1, <4>2
    <3> QED
      BY <1>3, <3>2, <3>3
  <2> QED
    BY <2>1, <2>2
<1>6. CASE EnqueueDep(t)
  <2>1. /\ tasks' = Append(tasks, LexTask(Imported(t)[i[t]], dep_imp[t])) /\ tasks \in Seq(Task)
        /\ pc[t] = "enqueue"
    BY <1>6 DEF EnqueueDep, At, TypeInv, TypeOK, QueueTypeOK
  <2>2. \/ \E m \in DOMAIN tasks : tasks'[k] = tasks[m]
        \/ tasks'[k] = LexTask(Imported(t)[i[t]], dep_imp[t])
    BY <2>1, AppendProperties
  <2>3. tasks'[k] # LexTask(Imported(t)[i[t]], dep_imp[t])
    <3>1. \A f, imp : LexTask(f, imp).type = "TASK_LEX_FILE"
      BY DEF LexTask
    <3> QED
      BY <3>1
  <2> QED
    BY <1>3, <2>2, <2>3
<1>7. CASE ~TakeTask(t) /\ ~Finish(t) /\ ~EnqueueDep(t)
  <2>1. UNCHANGED tasks
    <3>1. CASE ParseBegin(t) \/ CreateDep(t)
      BY <3>1 DEF ParseBegin, CreateDep, queueVars
    <3>2. CASE ~ParseBegin(t) /\ ~CreateDep(t)
      BY <1>7, <3>2, OthersAreQuiet DEF ThreadStep, Schedule, Quiet
    <3> QED
      BY <3>1, <3>2
  <2> QED
    BY <1>3, <2>1
<1> QED
  BY <1>4, <1>5, <1>6, <1>7

\* The map finds an import by its name.
LEMMA MapIsRight ==
    ASSUME TypeInv, DeliveryInv, ScopesInv, NEW t \in Thread, ThreadStep(t),
           NEW f \in File, import_map'[f] # NoImport
    PROVE  imports'[import_map'[f]] = f
<1>1. /\ imports \in Seq(File) /\ import_map \in [File -> ImportId \cup {NoImport}]
      /\ \A id \in 1 .. Len(imports) : imports'[id] = imports[id]
  BY StepKeepsPlaces DEF TypeInv, TypeOK, ImportTypeOK
<1>2. CASE import_map'[f] = import_map[f]
  <2>1. import_map[f] \in 1 .. Len(imports) /\ imports[import_map[f]] = f
    BY <1>1, <1>2 DEF DeliveryInv, KnownInv, ScopesInv, ImportId
  <2> QED
    BY <1>1, <1>2, <2>1
<1>3. ASSUME NEW g \in File, NEW id \in ImportId, CreateImport(g, id) PROVE imports'[import_map'[f]] = f
  <2>1. CASE f = g
    <3>1. import_map'[f] = id /\ imports'[id] = g
      BY <1>1, <1>3, <2>1, AppendProperties DEF CreateImport
    <3> QED
      BY <2>1, <3>1
  <2>2. CASE f # g
    BY <1>1, <1>2, <1>3, <2>2 DEF CreateImport
  <2> QED
    BY <2>1, <2>2
<1>4. CASE CreateDep(t)
  <2>1. Imported(t)[i[t]] \in File
    BY <1>4, ImportedType DEF TypeInv, IndexKnown, CreateDep, At
  <2> QED
    BY <1>3, <1>4, <2>1 DEF CreateDep
<1>5. CASE ParseBegin(t)
  <2>1. task[t].name \in File
    BY ImportedType DEF TypeInv
  <2> QED
    BY <1>2, <1>3, <1>5, <2>1 DEF ParseBegin
<1>6. CASE ~CreateDep(t) /\ ~ParseBegin(t)
  <2>1. CASE Schedule(t)
    BY <1>2, <2>1 DEF Schedule, Wait, Quit, Idle, TakeTask, Finish, importVars
  <2>2. CASE LexFile(t)
    BY <1>2, <1>6, <2>2 DEF LexFile, LexFailure, ParseEnd, Fixups, FindImport, SkipRepeated, EnqueueDep,
                            AttachDep, LexDone, importVars
  <2>3. CASE CheckStructs(t)
    BY <1>2, <2>3 DEF CheckStructs, CreateStruct, CheckMembers, StructsSucceed, StructsReport, StructsRetry,
                      StructsDrop, importVars
  <2>4. CASE CheckAndGenerate(t)
    BY <1>2, <2>4 DEF CheckAndGenerate, CheckFunctions, Gate, CheckGlobals, GenMain, GenCalls, importVars
  <2> QED
    BY <2>1, <2>2, <2>3, <2>4 DEF ThreadStep
<1> QED
  BY <1>4, <1>5, <1>6

LEMMA ScopesStep ==
    ASSUME TypeInv, WaitsInv, DeliveryInv, ScopesInv, NEW t \in Thread, ThreadStep(t)
    PROVE  ScopesInv'
<1>1. \A u \in Thread : ScopesOf(u)'
  BY ScopesOfOthers, ScopesOfScheduler, ScopesOfLexer, ScopesOfChecks DEF ThreadStep
<1>2. \A k \in DOMAIN tasks' : tasks'[k].type # "TASK_LEX_FILE" => Informed(tasks[k])'
  BY QueuedScopes
<1>3. \A f \in File : import_map'[f] # NoImport => imports'[import_map'[f]] = f
  BY MapIsRight
<1> QED
  BY <1>1, <1>2, <1>3 DEF ScopesInv

LEMMA InitScopes == Init => ScopesInv
<1> SUFFICES ASSUME Init PROVE ScopesInv
  OBVIOUS
<1>1. \A k \in DOMAIN tasks : tasks[k].type # "TASK_LEX_FILE" => Informed(tasks[k])
  <2> SUFFICES ASSUME NEW k \in DOMAIN tasks, tasks[k].type # "TASK_LEX_FILE" PROVE Informed(tasks[k])
    OBVIOUS
  <2>1. tasks[k].name = Preload
    BY DEF Init, PreloadTask, LexTask
  <2>2. program.imports[Preload] = << >>
    BY ProgramsAssumption DEF Init
  <2> QED
    BY <2>1, <2>2 DEF Informed, Range
<1>2. \A t \in Thread : ScopesOf(t)
  BY DEF Init, ScopesOf, StructPc, FunctionPc, GenPc
<1>3. \A f \in File : import_map[f] # NoImport => imports[import_map[f]] = f
  BY DEF Init
<1> QED
  BY <1>1, <1>2, <1>3 DEF ScopesInv

\* What is known of the import table beside the scheduler.
ImportsInv == PhaseInv /\ TasksInv /\ WaitsInv /\ DeliveryInv /\ ScopesInv

LEMMA ImportsHold == Spec => []ImportsInv
<1> USE DEF ImportsInv
<1>1. Init => ImportsInv
  BY InitTasks, InitWaits, InitDelivery, InitScopes
<1>2. TypeInv /\ ImportsInv /\ [Next]_vars => ImportsInv'
  <2> SUFFICES ASSUME TypeInv, ImportsInv, [Next]_vars PROVE ImportsInv'
    OBVIOUS
  <2>1. TasksInv'
    BY TasksStep
  <2>2. CASE UNCHANGED vars
    <3>1. UNCHANGED <<program, tasks, imports, import_map, body, fixups, deps_count, deps_now, shared_scopes,
                      errors, pc, task, dep_imp, i, queue_task>>
      BY <2>2 DEF vars, queueVars, importVars, localVars
    <3>2. PhaseInv' /\ DeliveryInv'
      BY <3>1, StillDelivery DEF PhaseInv
    <3>3. WaitsInv'
      <4>1. \A id \in ImportId : Waits(id)' = Waits(id) /\ Fresh(id)' = Fresh(id)
        BY <3>1 DEF Waits, Fresh, Coming
      <4> QED
        BY <3>1, <4>1 DEF WaitsInv
    <3>4. ScopesInv'
      BY <3>1 DEF ScopesInv, ScopesOf, Informed, Complete, Has, Awaits, Imported
    <3> QED
      BY <2>1, <3>2, <3>3, <3>4
  <2>3. ASSUME NEW t \in Thread, ThreadStep(t) PROVE PhaseInv' /\ WaitsInv' /\ DeliveryInv' /\ ScopesInv'
    BY <2>1, <2>3, PhaseStep, WaitsStep, DeliveryStep, ScopesStep
  <2> QED
    BY <2>1, <2>2, <2>3 DEF Next, Terminated
<1>3. IInv => TypeInv
  BY DEF IInv
<1> QED
  BY <1>1, <1>2, <1>3, Invariance, PTL DEF Spec

\* From the struct check on, an import searches the scopes of all the files it names,
\* and their bodies are there: whoever created them, in whatever order they were parsed.
THEOREM ScopesAreComplete == Spec => []ScopesComplete
<1>1. ImportsInv => ScopesComplete
  <2> SUFFICES ASSUME ScopesInv, NEW t \in Thread, pc[t] \in StructPc \cup FunctionPc \cup GenPc,
                      NEW k \in DOMAIN Imported(t)
               PROVE  \E id \in shared_scopes[task[t].imp] : imports[id] = Imported(t)[k] /\ body[id] # "none"
    BY DEF ScopesComplete, ImportsInv
  <2>1. Has(task[t].imp, Imported(t)[k])
    BY DEF ScopesInv, ScopesOf, Complete, Imported, Range
  <2> QED
    BY <2>1 DEF Has
<1> QED
  BY <1>1, ImportsHold, PTL

=============================================================================
