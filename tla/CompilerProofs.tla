--------------------------- MODULE CompilerProofs ---------------------------
(***************************************************************************)
(* Theorems about the driver (module Compiler), for every set of threads,  *)
(* files and programs.                                                     *)
(***************************************************************************)
EXTENDS Compiler, FiniteSetTheorems, SequenceTheorems, TLAPS

\* The place from which an element comes when the one at k is erased.
Shift(k, j) == IF j < k THEN j ELSE j + 1

\* What is left after an erase was there before, in the same order.
LEMMA EraseElements ==
    ASSUME NEW S, NEW s \in Seq(S), NEW k \in DOMAIN s
    PROVE  /\ RemoveAt(s, k) \in Seq(S)
           /\ DOMAIN RemoveAt(s, k) = 1..(Len(s)-1)
           /\ \A j \in 1..(Len(s)-1) : /\ Shift(k, j) \in DOMAIN s
                                       /\ RemoveAt(s, k)[j] = s[Shift(k, j)]
<1> DEFINE a == SubSeq(s, 1, k-1)
           b == SubSeq(s, k+1, Len(s))
<1>1. k \in 1..Len(s) /\ DOMAIN s = 1..Len(s) /\ Len(s) \in Nat
  OBVIOUS
<1>2. /\ a \in Seq(S)
      /\ Len(a) = k-1
      /\ \A j \in 1..(k-1) : a[j] = s[j]
  <2>1. \A j \in 1..(k-1) : s[j] \in S
    BY <1>1
  <2> QED
    BY <1>1, <2>1, SubSeqProperties
<1>3. /\ b \in Seq(S)
      /\ Len(b) = Len(s)-k
      /\ \A j \in 1..(Len(s)-k) : b[j] = s[j+k]
  <2>1. \A j \in (k+1)..Len(s) : s[j] \in S
    BY <1>1
  <2> QED
    BY <1>1, <2>1, SubSeqProperties
<1> HIDE DEF a, b
<1>4. /\ a \o b \in Seq(S)
      /\ Len(a \o b) = Len(s)-1
      /\ \A j \in 1..(Len(s)-1) :
            (a \o b)[j] = IF j <= k-1 THEN a[j] ELSE b[j-(k-1)]
  <2>1. /\ a \o b \in Seq(S)
        /\ Len(a \o b) = Len(a) + Len(b)
        /\ \A j \in 1..(Len(a) + Len(b)) :
              (a \o b)[j] = IF j <= Len(a) THEN a[j] ELSE b[j-Len(a)]
    BY <1>2, <1>3, ConcatProperties
  <2>2. Len(a) = k-1 /\ Len(a) + Len(b) = Len(s)-1
    BY <1>1, <1>2, <1>3
  <2> QED
    BY <2>1, <2>2
<1>5. ASSUME NEW j \in 1..(Len(s)-1)
      PROVE  Shift(k, j) \in DOMAIN s /\ (a \o b)[j] = s[Shift(k, j)]
  <2>1. CASE j <= k-1
    <3>1. (a \o b)[j] = s[j] /\ j \in DOMAIN s
      BY <1>1, <1>2, <1>4, <2>1
    <3>2. Shift(k, j) = j
      BY <1>1, <2>1 DEF Shift
    <3> QED
      BY <3>1, <3>2
  <2>2. CASE j > k-1
    <3>1. /\ j-(k-1) \in 1..(Len(s)-k)
          /\ (j-(k-1)) + k = j+1
          /\ j+1 \in DOMAIN s
          /\ ~(j <= k-1)
      BY <1>1, <2>2
    <3>2. (a \o b)[j] = b[j-(k-1)]
      BY <1>4, <3>1
    <3>3. b[j-(k-1)] = s[j+1]
      BY <1>3, <3>1
    <3>4. Shift(k, j) = j+1
      BY <1>1, <2>2 DEF Shift
    <3> QED
      BY <3>1, <3>2, <3>3, <3>4
  <2>3. j <= k-1 \/ j > k-1
    BY <1>1
  <2> QED
    BY <2>1, <2>2, <2>3
<1>6. RemoveAt(s, k) = a \o b
  BY DEF RemoveAt, a, b
<1>7. DOMAIN (a \o b) = 1..(Len(s)-1)
  BY <1>4
<1> QED
  BY <1>4, <1>5, <1>6, <1>7

\* vector::erase keeps a queue of tasks a queue of tasks.
LEMMA EraseType ==
    ASSUME tasks \in Seq(Task), NEW k \in DOMAIN tasks
    PROVE  /\ Erase(k) \in Seq(Task)
           /\ \A j \in DOMAIN Erase(k) :
                 \E m \in DOMAIN tasks : Erase(k)[j] = tasks[m]
<1>1. \A j \in DOMAIN Erase(k) : Shift(k, j) \in DOMAIN tasks /\ Erase(k)[j] = tasks[Shift(k, j)]
  BY EraseElements DEF Erase
<1> QED
  BY <1>1, EraseElements DEF Erase

\* The number of times an import occurs in a list of waiting imports.
LEMMA OccurrencesType ==
    ASSUME NEW S, NEW s \in Seq(S), NEW x
    PROVE  Occurrences(s, x) \in Nat
<1>1. IsFiniteSet(DOMAIN s)
  BY FS_Interval
<1>2. IsFiniteSet({k \in DOMAIN s : s[k] = x})
  BY <1>1, FS_Subset
<1> QED
  BY <1>2, FS_CardinalityType DEF Occurrences

TypeInv == TypeOK /\ ImportKnown /\ IndexKnown

\* The initial state: the preload task has an import, the other one has none.
LEMMA InitTypeInv == Init => TypeInv
<1> SUFFICES ASSUME Init PROVE TypeInv
  OBVIOUS
<1> USE DEF Init, ImportId, NoImport
<1>1. 1 \in ImportId
  BY MaxImportsAssumption
<1>2. PreloadTask \in Task /\ LexTask(Main, NoImport) \in Task
  BY <1>1, FileAssumption DEF PreloadTask, LexTask, Task, TaskType
<1>3. tasks \in Seq(Task) /\ DOMAIN tasks = 1..2
  BY <1>2
<1>4. imports \in Seq(File) /\ Len(imports) \in ImportId
  BY <1>1, FileAssumption
<1>5. body \in [ImportId -> {"none", "parsing", "parsed"}]
  OBVIOUS
<1>6. fixups \in [ImportId -> Seq(ImportId)]
  OBVIOUS
<1>7. TypeOK
  <2>1. /\ created_types \subseteq ImportId \X Nat
        /\ complete_types \subseteq ImportId \X Nat
        /\ functions_checked \subseteq ImportId
        /\ globals_added \subseteq ImportId
        /\ initialised \subseteq ImportId
        /\ sizes_used \subseteq ImportId \X StructName \X BOOLEAN
        /\ generated \subseteq ImportId
    OBVIOUS
  <2>2. /\ import_map \in [File -> ImportId \cup {NoImport}]
        /\ deps_count \in [ImportId -> Nat]
        /\ deps_now \in [ImportId -> Nat]
        /\ shared_scopes \in [ImportId -> SUBSET ImportId]
    BY <1>1
  <2>3. /\ pc \in [Thread -> Pc]
        /\ task \in [Thread -> Task]
        /\ queue_task \in [Thread -> BOOLEAN]
        /\ i \in [Thread -> Nat \ {0}]
        /\ dep_imp \in [Thread -> ImportId \cup {NoImport}]
        /\ changed \in [Thread -> BOOLEAN]
        /\ failure \in [Thread -> BOOLEAN]
        /\ ignore_errors \in [Thread -> BOOLEAN]
    BY <1>2 DEF Pc
  <2>4. /\ program \in Programs
        /\ tasks_queue_lock \in 0..1
        /\ threads_processing \in Nat
    OBVIOUS
  <2>5. is_signaled \in BOOLEAN /\ errors \in BOOLEAN /\ crashed \in BOOLEAN
    OBVIOUS
  <2> HIDE DEF Init, ImportId, NoImport
  <2> QED
    BY <1>3, <1>4, <1>5, <1>6, <2>1, <2>2, <2>3, <2>4, <2>5 DEF TypeOK, QueueTypeOK, ImportTypeOK,
          ResultTypeOK, LocalTypeOK
<1>8. ImportKnown
  BY DEF ImportKnown, PreloadTask, LexTask, WorkPc, LexPc, StructPc,
         FunctionPc, GenPc
<1>9. IndexKnown
  BY DEF IndexKnown
<1> QED
  BY <1>7, <1>8, <1>9 DEF TypeInv

\* The file a working thread compiles is one of the program's, and so is every
\* file it imports.
LEMMA ImportedType ==
    ASSUME TypeOK, NEW t \in Thread
    PROVE  /\ task[t] \in Task
           /\ task[t].name \in File
           /\ Imported(t) \in Seq(File)
           /\ Structs(t) \in Seq(SUBSET Member)
<1>1. program \in Program
  BY ProgramsAssumption DEF TypeOK
<1>2. task[t] \in Task /\ task[t].name \in File
  BY DEF TypeOK, LocalTypeOK, Task
<1> QED
  BY <1>1, <1>2 DEF Program, Imported, Structs

\* Changing a field of a task gives a task.
LEMMA TaskFields ==
    ASSUME NEW r \in Task, NEW ty \in TaskType,
           NEW id \in ImportId \cup {NoImport}, NEW b \in BOOLEAN
    PROVE  /\ [r EXCEPT !.type = ty] \in Task
           /\ [r EXCEPT !.imp = id] \in Task
           /\ [r EXCEPT !.no_change = b] \in Task
  BY DEF Task

\* Giving a thread another task, or another place in the code.
LEMMA LocalUpdate ==
    ASSUME LocalTypeOK, NEW t \in Thread, NEW r \in Task, NEW l \in Pc
    PROVE  /\ [task EXCEPT ![t] = r] \in [Thread -> Task]
           /\ [pc EXCEPT ![t] = l] \in [Thread -> Pc]
  BY DEF LocalTypeOK

\* Registering a wait keeps the types, whichever import waits for which.
LEMMA WaitForType ==
    ASSUME ImportTypeOK, NEW imp \in ImportId, NEW dep \in ImportId,
           WaitFor(imp, dep)
    PROVE  /\ fixups' \in [ImportId -> Seq(ImportId)]
           /\ deps_count' \in [ImportId -> Nat]
<1>1. Append(fixups[dep], imp) \in Seq(ImportId)
  BY AppendProperties DEF ImportTypeOK
<1>2. deps_count[imp] + 1 \in Nat
  BY DEF ImportTypeOK
<1>3. fixups' \in [ImportId -> Seq(ImportId)]
  BY <1>1 DEF WaitFor, ImportTypeOK
<1>4. deps_count' \in [ImportId -> Nat]
  BY <1>2 DEF WaitFor, ImportTypeOK
<1> QED
  BY <1>3, <1>4

\* No step takes a thread into a loop body with the index out of bounds, or
\* moves the index there.
LEMMA IndexKept ==
    ASSUME TypeInv, NEW t \in Thread, program' = program,
           pc'[t] \notin {"create", "enqueue", "attach", "members"},
           \A u \in Thread \ {t} : /\ pc'[u] = pc[u] /\ i'[u] = i[u]
                                   /\ task'[u] = task[u]
    PROVE  IndexKnown'
  BY DEF TypeInv, IndexKnown, Imported, Structs

LEMMA IndexType ==
    ASSUME TypeInv, NEW t \in Thread, ThreadStep(t)
    PROVE  IndexKnown'
<1> USE DEF TypeInv, TypeOK, LocalTypeOK, Goto
<1>1. CASE Schedule(t)
  <2>1. CASE Wait(t)
    BY <2>1, IndexKept DEF Wait, localVars
  <2>2. CASE TakeTask(t)
    <3>1. PICK k \in DOMAIN tasks :
              /\ task' = [task EXCEPT ![t] = tasks[k]]
              /\ Goto(t, Entry[tasks[k].type])
      BY <2>2 DEF TakeTask
    <3>2. tasks[k] \in Task
      BY DEF QueueTypeOK
    <3>3. pc'[t] \in {"lex", "struct", "functions", "gen_main"}
      BY <3>1, <3>2 DEF Entry, Task, TaskType
    <3> QED
      BY <2>2, <3>1, <3>3, IndexKept DEF TakeTask
  <2>3. CASE Quit(t) \/ Idle(t)
    BY <2>3, IndexKept DEF Quit, Idle, localVars
  <2>4. CASE Finish(t)
    BY <2>4, IndexKept DEF Finish
  <2> QED
    BY <1>1, <2>1, <2>2, <2>3, <2>4 DEF Schedule
<1>2. CASE LexFile(t)
  <2>1. CASE LexFailure(t) \/ LexDone(t) \/ SkipRepeated(t)
    BY <2>1, IndexKept DEF LexFailure, LexDone, SkipRepeated, At, localVars
  <2>2. CASE ParseBegin(t)
    BY <2>2, IndexKept DEF ParseBegin
  <2>3. CASE ParseEnd(t)
    BY <2>3, IndexKept DEF ParseEnd
  <2>4. CASE Fixups(t)
    <3>1. pc'[t] \in {"fixups", "find"} /\ \A u \in Thread \ {t} : pc'[u] = pc[u]
      BY <2>4 DEF Fixups, At
    <3> QED
      BY <2>4, <3>1, IndexKept DEF Fixups, localVars
  <2>5. CASE FindImport(t)
    BY <2>5 DEF FindImport, AfterFind, IndexKnown, Imported, Structs
  <2>6. CASE CreateDep(t)
    BY <2>6 DEF CreateDep, IndexKnown, Imported, Structs, At
  <2>7. CASE EnqueueDep(t) \/ AttachDep(t)
    BY <2>7, IndexKept DEF EnqueueDep, AttachDep
  <2> QED
    BY <1>2, <2>1, <2>2, <2>3, <2>4, <2>5, <2>6, <2>7 DEF LexFile
<1>3. CASE CheckStructs(t)
  <2>1. CASE CreateStruct(t)
    BY <2>1 DEF CreateStruct, IndexKnown, Imported, Structs, At
  <2>2. CASE CheckMembers(t)
    BY <2>2, IndexKept DEF CheckMembers
  <2>3. CASE StructsSucceed(t) \/ StructsRetry(t) \/ StructsDrop(t)
    BY <2>3, IndexKept DEF StructsSucceed, StructsRetry, StructsDrop
  <2>4. CASE StructsReport(t)
    BY <2>4, IndexKept DEF StructsReport, StructsChecked, At
  <2> QED
    BY <1>3, <2>1, <2>2, <2>3, <2>4 DEF CheckStructs
<1>4. CASE CheckAndGenerate(t)
  <2>1. CASE CheckFunctions(t)
    BY <2>1, IndexKept DEF CheckFunctions, localVars
  <2>2. CASE Gate(t)
    BY <2>2, IndexKept DEF Gate
  <2>3. CASE CheckGlobals(t)
    BY <2>3, IndexKept DEF CheckGlobals, localVars
  <2>4. CASE GenMain(t)
    BY <2>4, IndexKept DEF GenMain, At, localVars
  <2>5. CASE GenCalls(t)
    BY <2>5, IndexKept DEF GenCalls, localVars
  <2> QED
    BY <1>4, <2>1, <2>2, <2>3, <2>4, <2>5 DEF CheckAndGenerate
<1> QED
  BY <1>1, <1>2, <1>3, <1>4 DEF ThreadStep

LEMMA WaitType ==
    ASSUME TypeInv, NEW t \in Thread, Wait(t)
    PROVE  TypeOK' /\ ImportKnown'
<1>1. QueueTypeOK'
    BY ImportedType DEF TypeInv, TypeOK, QueueTypeOK, Wait
<1>2. ImportTypeOK'
    BY DEF TypeInv, TypeOK, ImportTypeOK, Wait, importVars
<1>3. ResultTypeOK'
    BY DEF TypeInv, TypeOK, ResultTypeOK, Wait, resultVars
<1>4. LocalTypeOK'
    BY ImportedType DEF TypeInv, TypeOK, LocalTypeOK, Wait, Goto, At, Pc,
       WorkPc, LexPc, StructPc, FunctionPc, GenPc, Task, TaskType, localVars
<1>5. ImportKnown'
    BY DEF TypeInv, TypeOK, QueueTypeOK, LocalTypeOK, ImportKnown, Wait,
       Goto, At, WorkPc, LexPc, StructPc, FunctionPc, GenPc, queueVars,
       localVars, NoImport
<1> QED
  BY <1>1, <1>2, <1>3, <1>4, <1>5 DEF TypeInv, TypeOK, Wait

LEMMA TakeTaskType ==
    ASSUME TypeInv, NEW t \in Thread, TakeTask(t)
    PROVE  TypeOK' /\ ImportKnown'
<1> USE DEF TypeInv, TypeOK
<1>1. PICK k \in DOMAIN tasks :
          /\ task' = [task EXCEPT ![t] = tasks[k]]
          /\ tasks' = Erase(k)
          /\ Goto(t, Entry[tasks[k].type])
  BY DEF TakeTask
<1>2. tasks[k] \in Task
  BY DEF QueueTypeOK
<1>3. /\ Entry[tasks[k].type] \in {"lex", "struct", "functions", "gen_main"}
      /\ Entry[tasks[k].type] = "lex" <=> tasks[k].type = "TASK_LEX_FILE"
  BY <1>2 DEF Task, TaskType, Entry
<1>4. QueueTypeOK'
  <2>1. tasks' \in Seq(Task)
    BY <1>1, EraseType DEF QueueTypeOK
  <2>2. is_signaled' \in BOOLEAN
    BY DEF TakeTask, Signal, QueueTypeOK
  <2>3. tasks_queue_lock' \in 0..1
    BY DEF TakeTask, Signal, QueueTypeOK
  <2>4. threads_processing' \in Nat
    BY DEF TakeTask, StartProcessing, QueueTypeOK
  <2> QED
    BY <2>1, <2>2, <2>3, <2>4 DEF QueueTypeOK
<1>5. ImportTypeOK'
  BY DEF ImportTypeOK, TakeTask, importVars
<1>6. ResultTypeOK'
  BY DEF ResultTypeOK, TakeTask, resultVars
<1>7. LocalTypeOK'
  <2>1. Entry[tasks[k].type] \in Pc
    BY <1>3 DEF Pc, WorkPc, LexPc, StructPc, FunctionPc, GenPc
  <2>2. task' \in [Thread -> Task] /\ pc' \in [Thread -> Pc]
    BY <1>1, <1>2, <2>1, LocalUpdate DEF Goto
  <2> QED
    BY <2>2 DEF LocalTypeOK, TakeTask
<1>8. ImportKnown'
  <2>1. \A j \in DOMAIN tasks' : \E m \in DOMAIN tasks : tasks'[j] = tasks[m]
    BY <1>1, EraseType DEF QueueTypeOK
  <2>2. \A j \in DOMAIN tasks' : tasks'[j].type # "TASK_LEX_FILE" =>
            tasks'[j].imp # NoImport
    BY <2>1 DEF ImportKnown
  <2>3. /\ pc'[t] = Entry[tasks[k].type] /\ task'[t] = tasks[k]
        /\ \A u \in Thread \ {t} : pc'[u] = pc[u] /\ task'[u] = task[u]
    BY <1>1 DEF Goto, LocalTypeOK
  <2>4. tasks[k].type # "TASK_LEX_FILE" => tasks[k].imp # NoImport
    BY DEF ImportKnown
  <2>5. ~queue_task[t] /\ queue_task' = queue_task /\ dep_imp' = dep_imp
    BY DEF ImportKnown, TakeTask, At
  <2>6. /\ pc'[t] \in {"lex", "struct", "functions", "gen_main"}
        /\ pc'[t] \in WorkPc \ {"lex", "fixups", "finish"} =>
                task'[t].imp # NoImport
    BY <1>3, <2>3, <2>4
  <2> QED
    BY <2>2, <2>3, <2>5, <2>6 DEF ImportKnown
<1> QED
  BY <1>4, <1>5, <1>6, <1>7, <1>8 DEF TakeTask

LEMMA QuitType ==
    ASSUME TypeInv, NEW t \in Thread, Quit(t)
    PROVE  TypeOK' /\ ImportKnown'
<1>1. QueueTypeOK'
    BY ImportedType DEF TypeInv, TypeOK, QueueTypeOK, Quit, Signal
<1>2. ImportTypeOK'
    BY DEF TypeInv, TypeOK, ImportTypeOK, Quit, importVars
<1>3. ResultTypeOK'
    BY DEF TypeInv, TypeOK, ResultTypeOK, Quit, resultVars
<1>4. LocalTypeOK'
    BY ImportedType DEF TypeInv, TypeOK, LocalTypeOK, Quit, Goto, At, Pc,
       WorkPc, LexPc, StructPc, FunctionPc, GenPc, Task, TaskType, localVars
<1>5. ImportKnown'
    BY DEF TypeInv, TypeOK, QueueTypeOK, LocalTypeOK, ImportKnown, Quit,
       Signal, Goto, At, WorkPc, LexPc, StructPc, FunctionPc, GenPc,
       queueVars, localVars, NoImport
<1> QED
  BY <1>1, <1>2, <1>3, <1>4, <1>5 DEF TypeInv, TypeOK, Quit

LEMMA IdleType ==
    ASSUME TypeInv, NEW t \in Thread, Idle(t)
    PROVE  TypeOK' /\ ImportKnown'
<1>1. QueueTypeOK'
    BY ImportedType DEF TypeInv, TypeOK, QueueTypeOK, Idle
<1>2. ImportTypeOK'
    BY DEF TypeInv, TypeOK, ImportTypeOK, Idle, importVars
<1>3. ResultTypeOK'
    BY DEF TypeInv, TypeOK, ResultTypeOK, Idle, resultVars
<1>4. LocalTypeOK'
    BY ImportedType DEF TypeInv, TypeOK, LocalTypeOK, Idle, Goto, At, Pc,
       WorkPc, LexPc, StructPc, FunctionPc, GenPc, Task, TaskType, localVars
<1>5. ImportKnown'
    BY DEF TypeInv, TypeOK, QueueTypeOK, LocalTypeOK, ImportKnown, Idle,
       Goto, At, WorkPc, LexPc, StructPc, FunctionPc, GenPc, queueVars,
       localVars, NoImport
<1> QED
  BY <1>1, <1>2, <1>3, <1>4, <1>5 DEF TypeInv, TypeOK, Idle

LEMMA FinishType ==
    ASSUME TypeInv, threads_processing # 0, NEW t \in Thread, Finish(t)
    PROVE  TypeOK' /\ ImportKnown'
<1>1. QueueTypeOK'
  <2>1. tasks' \in Seq(Task)
    BY ImportedType, AppendProperties
       DEF TypeInv, TypeOK, QueueTypeOK, Finish
  <2>2. is_signaled' \in BOOLEAN
    BY DEF TypeInv, TypeOK, Finish, SignalOnce, Signal, QueueTypeOK
  <2>3. tasks_queue_lock' \in 0..1
    BY DEF TypeInv, TypeOK, Finish, SignalOnce, Signal, QueueTypeOK
  <2>4. threads_processing' \in Nat
    BY DEF TypeInv, TypeOK, Finish, StopProcessing, QueueTypeOK
  <2> QED
    BY <2>1, <2>2, <2>3, <2>4 DEF QueueTypeOK
<1>2. ImportTypeOK'
    BY DEF TypeInv, TypeOK, ImportTypeOK, Finish, importVars
<1>3. ResultTypeOK'
    BY DEF TypeInv, TypeOK, ResultTypeOK, Finish, resultVars
<1>4. LocalTypeOK'
  <2>1. LexTask(Main, NoImport) \in Task
    BY FileAssumption DEF LexTask, Task, TaskType
  <2>2. "wait" \in Pc
    BY DEF Pc
  <2>3. task' \in [Thread -> Task] /\ pc' \in [Thread -> Pc]
    BY <2>1, <2>2, LocalUpdate DEF TypeInv, TypeOK, Finish, Goto
  <2> QED
    BY <2>3 DEF TypeInv, TypeOK, LocalTypeOK, Finish
<1>5. ImportKnown'
    BY DEF TypeInv, TypeOK, QueueTypeOK, LocalTypeOK, ImportKnown, Finish,
       StopProcessing, SignalOnce, Signal, LexTask, Goto, At, WorkPc, LexPc,
       StructPc, FunctionPc, GenPc, queueVars, localVars, NoImport
<1> QED
  BY <1>1, <1>2, <1>3, <1>4, <1>5 DEF TypeInv, TypeOK, Finish

LEMMA LexFailureType ==
    ASSUME TypeInv, NEW t \in Thread, LexFailure(t)
    PROVE  TypeOK' /\ ImportKnown'
<1>1. QueueTypeOK'
    BY DEF TypeInv, TypeOK, QueueTypeOK, LexFailure, queueVars
<1>2. ImportTypeOK'
    BY DEF TypeInv, TypeOK, ImportTypeOK, LexFailure, importVars
<1>3. ResultTypeOK'
  <2>1. errors' \in BOOLEAN
    BY DEF TypeInv, TypeOK, ResultTypeOK, LexFailure
  <2> QED
    BY <2>1 DEF TypeInv, TypeOK, ResultTypeOK, LexFailure, resultVars
<1>4. LocalTypeOK'
    BY ImportedType DEF TypeInv, TypeOK, LocalTypeOK, LexFailure, Goto, At,
       Pc, WorkPc, LexPc, StructPc, FunctionPc, GenPc, Task, TaskType,
       localVars
<1>5. ImportKnown'
    BY DEF TypeInv, TypeOK, QueueTypeOK, LocalTypeOK, ImportKnown,
       LexFailure, Goto, At, WorkPc, LexPc, StructPc, FunctionPc, GenPc,
       queueVars, localVars, NoImport
<1> QED
  BY <1>1, <1>2, <1>3, <1>4, <1>5 DEF TypeInv, TypeOK, LexFailure

LEMMA ParseBeginType ==
    ASSUME TypeInv, NEW t \in Thread, ParseBegin(t)
    PROVE  TypeOK' /\ ImportKnown'
<1> USE DEF TypeInv, TypeOK
<1>1. QueueTypeOK'
  BY DEF QueueTypeOK, ParseBegin, queueVars
<1>2. ResultTypeOK'
  BY DEF ResultTypeOK, ParseBegin, resultVars
<1>3. pc' = [pc EXCEPT ![t] = "body"] /\ pc' \in [Thread -> Pc]
  BY DEF ParseBegin, Goto, LocalTypeOK, Pc, WorkPc, LexPc
<1>4. task[t] \in Task /\ task[t].name \in File
  BY ImportedType
<1>5. CASE task[t].imp = NoImport
  <2>1. PICK id \in ImportId :
            /\ CreateImport(task[t].name, id)
            /\ task' = [task EXCEPT ![t].imp = id]
            /\ body' = [body EXCEPT ![id] = "parsing"]
    BY <1>5 DEF ParseBegin
  <2>2. imports' \in Seq(File) /\ Len(imports') \in ImportId
    BY <1>4, <2>1, AppendProperties DEF CreateImport, ImportTypeOK
  <2>3. import_map' \in [File -> ImportId \cup {NoImport}]
    BY <2>1 DEF CreateImport, ImportTypeOK
  <2>4. ImportTypeOK'
    BY <2>1, <2>2, <2>3 DEF ImportTypeOK, ParseBegin
  <2>5. task' = [task EXCEPT ![t] = [task[t] EXCEPT !.imp = id]]
    BY <2>1
  <2>6. [task[t] EXCEPT !.imp = id] \in Task
    BY <1>4, <2>1, TaskFields DEF Task, TaskType
  <2>7. LocalTypeOK'
    BY <1>3, <2>5, <2>6 DEF LocalTypeOK, ParseBegin
  <2>8. task'[t].imp # NoImport
    BY <1>4, <2>5, MaxImportsAssumption DEF LocalTypeOK, ImportId, NoImport, Task
  <2>9. ImportKnown'
    BY <1>3, <2>5, <2>8 DEF ImportKnown, LocalTypeOK, ParseBegin, At, queueVars
  <2> QED
    BY <1>1, <1>2, <2>4, <2>7, <2>9 DEF ParseBegin
<1>6. CASE task[t].imp # NoImport
  <2>1. task' = task
    BY <1>6 DEF ParseBegin
  <2>2. ImportTypeOK'
    BY <1>6 DEF ImportTypeOK, ParseBegin
  <2>3. LocalTypeOK'
    BY <1>3, <2>1 DEF LocalTypeOK, ParseBegin
  <2>4. ImportKnown'
    BY <1>3, <1>6, <2>1 DEF ImportKnown, LocalTypeOK, ParseBegin, At, queueVars
  <2> QED
    BY <1>1, <1>2, <2>2, <2>3, <2>4 DEF ParseBegin
<1> QED
  BY <1>5, <1>6

LEMMA ParseEndType ==
    ASSUME TypeInv, NEW t \in Thread, ParseEnd(t)
    PROVE  TypeOK' /\ ImportKnown'
<1> USE DEF TypeInv, TypeOK
<1>1. QueueTypeOK'
  BY DEF QueueTypeOK, ParseEnd, queueVars
<1>2. ImportTypeOK'
  BY DEF ImportTypeOK, ParseEnd
<1>3. ResultTypeOK'
  <2>1. errors' \in BOOLEAN
    BY DEF ParseEnd
  <2> QED
    BY <2>1 DEF ResultTypeOK, ParseEnd, resultVars
<1>4. pc' = [pc EXCEPT ![t] = "fixups"] /\ pc' \in [Thread -> Pc]
  BY DEF ParseEnd, Goto, LocalTypeOK, Pc, WorkPc, LexPc
<1>5. [task[t] EXCEPT !.imp = NoImport] \in Task
  BY ImportedType DEF Task, TaskType
<1>6. \/ task' = task
      \/ task' = [task EXCEPT ![t] = [task[t] EXCEPT !.imp = NoImport]]
  BY DEF ParseEnd
<1>7. LocalTypeOK'
  BY <1>4, <1>5, <1>6 DEF LocalTypeOK, ParseEnd
<1>8. ImportKnown'
  <2>1. ~queue_task[t]
    BY DEF ParseEnd, At, ImportKnown
  <2> QED
    BY <1>4, <1>6, <2>1 DEF ImportKnown, LocalTypeOK, ParseEnd, At, queueVars
<1> QED
  BY <1>1, <1>2, <1>3, <1>7, <1>8 DEF ParseEnd

LEMMA FixupsType ==
    ASSUME TypeInv, NEW t \in Thread, Fixups(t)
    PROVE  TypeOK' /\ ImportKnown'
<1>1. QueueTypeOK'
    BY DEF TypeInv, TypeOK, QueueTypeOK, Fixups, queueVars
<1>2. ImportTypeOK'
  <2>1. CASE task[t].imp = NoImport
    BY <2>1 DEF TypeInv, TypeOK, ImportTypeOK, Fixups
  <2>2. CASE task[t].imp # NoImport
    <3> DEFINE imp == task[t].imp
    <3>1. imp \in ImportId
      BY <2>2, ImportedType DEF TypeInv, Task
    <3>2. fixups[imp] \in Seq(ImportId)
      BY <3>1 DEF TypeInv, TypeOK, ImportTypeOK
    <3>3. \A id \in ImportId : Occurrences(fixups[imp], id) \in Nat
      BY <3>2, OccurrencesType
    <3>4. deps_now' = [id \in ImportId |->
                IF id = imp THEN 0
                ELSE deps_now[id] + Occurrences(fixups[imp], id)]
      BY <2>2 DEF Fixups
    <3>5. deps_now' \in [ImportId -> Nat]
      BY <3>3, <3>4 DEF TypeInv, TypeOK, ImportTypeOK
    <3>6. shared_scopes' = [id \in ImportId |->
                IF Occurrences(fixups[imp], id) > 0
                THEN shared_scopes[id] \cup {imp} ELSE shared_scopes[id]]
      BY <2>2 DEF Fixups
    <3>7. shared_scopes' \in [ImportId -> SUBSET ImportId]
      BY <3>1, <3>6 DEF TypeInv, TypeOK, ImportTypeOK
    <3>8. fixups' \in [ImportId -> Seq(ImportId)]
      <4>1. fixups' = [fixups EXCEPT ![imp] = << >>]
        BY <2>2 DEF Fixups
      <4>2. << >> \in Seq(ImportId)
        OBVIOUS
      <4> HIDE DEF imp
      <4> QED
        BY <4>1, <4>2 DEF TypeInv, TypeOK, ImportTypeOK
    <3>9. deps_count' \in [ImportId -> Nat]
      <4>1. deps_count' = [deps_count EXCEPT ![imp] = 0]
        BY <2>2 DEF Fixups
      <4> HIDE DEF imp
      <4> QED
        BY <4>1 DEF TypeInv, TypeOK, ImportTypeOK
    <3> HIDE DEF imp
    <3> QED
      BY <3>9, <3>5, <3>7, <3>8 DEF Fixups, TypeInv, TypeOK, ImportTypeOK
  <2> QED
    BY <2>1, <2>2
<1>3. ResultTypeOK'
  <2>1. crashed' \in BOOLEAN
    BY DEF TypeInv, TypeOK, ResultTypeOK, Fixups
  <2> QED
    BY <2>1 DEF TypeInv, TypeOK, ResultTypeOK, Fixups, resultVars
<1>4. LocalTypeOK'
    BY ImportedType DEF TypeInv, TypeOK, LocalTypeOK, Fixups, Goto, At, Pc,
       WorkPc, LexPc, StructPc, FunctionPc, GenPc, Task, TaskType, localVars
<1>5. ImportKnown'
    BY DEF TypeInv, TypeOK, QueueTypeOK, LocalTypeOK, ImportKnown, Fixups,
       Goto, At, WorkPc, LexPc, StructPc, FunctionPc, GenPc, queueVars,
       localVars, NoImport
<1> QED
  BY <1>1, <1>2, <1>3, <1>4, <1>5 DEF TypeInv, TypeOK, Fixups

LEMMA FindImportType ==
    ASSUME TypeInv, NEW t \in Thread, FindImport(t)
    PROVE  TypeOK' /\ ImportKnown'
<1>1. QueueTypeOK'
    BY DEF TypeInv, TypeOK, QueueTypeOK, FindImport, queueVars
<1>2. ImportTypeOK'
    BY DEF TypeInv, TypeOK, ImportTypeOK, FindImport, importVars
<1>3. ResultTypeOK'
    BY DEF TypeInv, TypeOK, ResultTypeOK, FindImport, resultVars
<1>4. LocalTypeOK'
  <2>1. Imported(t)[i[t]] \in File
    BY ImportedType DEF TypeInv, FindImport
  <2>2. dep_imp' \in [Thread -> ImportId \cup {NoImport}]
    BY <2>1 DEF TypeInv, TypeOK, LocalTypeOK, ImportTypeOK, FindImport
  <2>3. pc' \in [Thread -> Pc]
    BY DEF TypeInv, TypeOK, LocalTypeOK, FindImport, AfterFind, Goto, Pc, WorkPc, LexPc
  <2> QED
    BY <2>2, <2>3 DEF TypeInv, TypeOK, LocalTypeOK, FindImport
<1>5. ImportKnown'
    BY DEF TypeInv, TypeOK, QueueTypeOK, LocalTypeOK, ImportKnown,
       FindImport, AfterFind, Goto, At, WorkPc, LexPc, StructPc, FunctionPc, GenPc,
       queueVars, localVars, NoImport
<1> QED
  BY <1>1, <1>2, <1>3, <1>4, <1>5 DEF TypeInv, TypeOK, FindImport

LEMMA SkipRepeatedType ==
    ASSUME TypeInv, NEW t \in Thread, SkipRepeated(t)
    PROVE  TypeOK' /\ ImportKnown'
<1>1. QueueTypeOK'
    BY DEF TypeInv, TypeOK, QueueTypeOK, SkipRepeated, queueVars
<1>2. ImportTypeOK'
    BY DEF TypeInv, TypeOK, ImportTypeOK, SkipRepeated, importVars
<1>3. ResultTypeOK'
    BY DEF TypeInv, TypeOK, ResultTypeOK, SkipRepeated, resultVars
<1>4. LocalTypeOK'
    BY ImportedType DEF TypeInv, TypeOK, LocalTypeOK, SkipRepeated, Goto,
       At, Pc, WorkPc, LexPc, StructPc, FunctionPc, GenPc, Task, TaskType,
       localVars
<1>5. ImportKnown'
    BY DEF TypeInv, TypeOK, QueueTypeOK, LocalTypeOK, ImportKnown,
       SkipRepeated, Goto, At, WorkPc, LexPc, StructPc, FunctionPc, GenPc,
       queueVars, localVars, NoImport
<1> QED
  BY <1>1, <1>2, <1>3, <1>4, <1>5 DEF TypeInv, TypeOK, SkipRepeated

LEMMA CreateDepType ==
    ASSUME TypeInv, NEW t \in Thread, CreateDep(t)
    PROVE  TypeOK' /\ ImportKnown'
<1>1. QueueTypeOK'
    BY DEF TypeInv, TypeOK, QueueTypeOK, CreateDep, queueVars
<1>2. ImportTypeOK'
  <2>1. Imported(t)[i[t]] \in File
    BY ImportedType DEF TypeInv, IndexKnown, CreateDep, At
  <2>2. PICK id \in ImportId : CreateImport(Imported(t)[i[t]], id)
    BY DEF CreateDep
  <2>3. imports' \in Seq(File) /\ Len(imports') \in ImportId
    BY <2>1, <2>2, AppendProperties
       DEF CreateImport, TypeInv, TypeOK, ImportTypeOK
  <2>4. import_map' \in [File -> ImportId \cup {NoImport}]
    BY <2>2 DEF CreateImport, TypeInv, TypeOK, ImportTypeOK
  <2> QED
    BY <2>3, <2>4 DEF CreateDep, TypeInv, TypeOK, ImportTypeOK
<1>3. ResultTypeOK'
    BY DEF TypeInv, TypeOK, ResultTypeOK, CreateDep, resultVars
<1>4. LocalTypeOK'
  <2>1. dep_imp' \in [Thread -> ImportId \cup {NoImport}]
    BY DEF TypeInv, TypeOK, LocalTypeOK, CreateDep
  <2>2. pc' \in [Thread -> Pc]
    BY DEF TypeInv, TypeOK, LocalTypeOK, CreateDep, Goto, Pc, WorkPc, LexPc
  <2> QED
    BY <2>1, <2>2 DEF TypeInv, TypeOK, LocalTypeOK, CreateDep
<1>5. ImportKnown'
  <2>1. dep_imp'[t] # NoImport /\ \A u \in Thread \ {t} : dep_imp'[u] = dep_imp[u]
    BY DEF TypeInv, TypeOK, LocalTypeOK, CreateDep, ImportId, NoImport
  <2> QED
    BY <2>1 DEF TypeInv, TypeOK, LocalTypeOK, ImportKnown, CreateDep, Goto,
                At, WorkPc, LexPc, queueVars
<1> QED
  BY <1>1, <1>2, <1>3, <1>4, <1>5 DEF TypeInv, TypeOK, CreateDep

LEMMA EnqueueDepType ==
    ASSUME TypeInv, NEW t \in Thread, EnqueueDep(t)
    PROVE  TypeOK' /\ ImportKnown'
<1>1. QueueTypeOK'
  <2>1. Imported(t)[i[t]] \in File
    BY ImportedType DEF TypeInv, IndexKnown, EnqueueDep, At
  <2>2. dep_imp[t] \in ImportId \cup {NoImport}
    BY DEF TypeInv, TypeOK, LocalTypeOK
  <2>3. LexTask(Imported(t)[i[t]], dep_imp[t]) \in Task
    BY <2>1, <2>2 DEF LexTask, Task, TaskType
  <2> QED
    BY <2>3, AppendProperties DEF TypeInv, TypeOK, QueueTypeOK, EnqueueDep
<1>2. ImportTypeOK'
  <2>1. task[t].imp \in ImportId /\ dep_imp[t] \in ImportId
    BY ImportedType DEF TypeInv, TypeOK, LocalTypeOK, ImportKnown, Task, At,
                        WorkPc, LexPc, EnqueueDep
  <2>2. WaitFor(task[t].imp, dep_imp[t])
    BY DEF EnqueueDep
  <2>3. /\ fixups' \in [ImportId -> Seq(ImportId)]
        /\ deps_count' \in [ImportId -> Nat]
    BY <2>1, <2>2, WaitForType DEF TypeInv, TypeOK
  <2> QED
    BY <2>3 DEF TypeInv, TypeOK, ImportTypeOK, EnqueueDep
<1>3. ResultTypeOK'
    BY DEF TypeInv, TypeOK, ResultTypeOK, EnqueueDep, resultVars
<1>4. LocalTypeOK'
    BY ImportedType DEF TypeInv, TypeOK, LocalTypeOK, EnqueueDep, Goto, At,
       Pc, WorkPc, LexPc, StructPc, FunctionPc, GenPc, Task, TaskType,
       localVars
<1>5. ImportKnown'
  <2> DEFINE new == LexTask(Imported(t)[i[t]], dep_imp[t])
  <2>1. new.type = "TASK_LEX_FILE" /\ tasks' = Append(tasks, new)
    BY DEF EnqueueDep, LexTask
  <2> HIDE DEF new
  <2>2. \A k \in DOMAIN tasks' : tasks'[k].type # "TASK_LEX_FILE" =>
            tasks'[k].imp # NoImport
    BY <2>1 DEF TypeInv, TypeOK, QueueTypeOK, ImportKnown
  <2> QED
    BY <2>2 DEF TypeInv, TypeOK, LocalTypeOK, ImportKnown, EnqueueDep, Goto,
                At, WorkPc, LexPc
<1> QED
  BY <1>1, <1>2, <1>3, <1>4, <1>5 DEF TypeInv, TypeOK, EnqueueDep

LEMMA AttachDepType ==
    ASSUME TypeInv, NEW t \in Thread, AttachDep(t)
    PROVE  TypeOK' /\ ImportKnown'
<1>1. QueueTypeOK'
    BY DEF TypeInv, TypeOK, QueueTypeOK, AttachDep, queueVars
<1>2. ImportTypeOK'
  <2>1. task[t].imp \in ImportId /\ dep_imp[t] \in ImportId
    BY ImportedType DEF TypeInv, TypeOK, LocalTypeOK, ImportKnown, Task, At,
                        WorkPc, LexPc, AttachDep
  <2>2. CASE HasBody(dep_imp[t])
    <3>1. shared_scopes' = [shared_scopes EXCEPT ![task[t].imp] =
                                                    @ \cup {dep_imp[t]}]
      BY <2>2 DEF AttachDep
    <3>2. shared_scopes' \in [ImportId -> SUBSET ImportId]
      BY <2>1, <3>1 DEF TypeInv, TypeOK, ImportTypeOK
    <3> QED
      BY <2>2, <3>2 DEF TypeInv, TypeOK, ImportTypeOK, AttachDep
  <2>3. CASE ~HasBody(dep_imp[t])
    <3>1. WaitFor(task[t].imp, dep_imp[t])
      BY <2>3 DEF AttachDep
    <3>2. /\ fixups' \in [ImportId -> Seq(ImportId)]
          /\ deps_count' \in [ImportId -> Nat]
      BY <2>1, <3>1, WaitForType DEF TypeInv, TypeOK
    <3> QED
      BY <2>3, <3>2 DEF TypeInv, TypeOK, ImportTypeOK, AttachDep
  <2> QED
    BY <2>2, <2>3
<1>3. ResultTypeOK'
    BY DEF TypeInv, TypeOK, ResultTypeOK, AttachDep, resultVars
<1>4. LocalTypeOK'
    BY ImportedType DEF TypeInv, TypeOK, LocalTypeOK, AttachDep, Goto, At,
       Pc, WorkPc, LexPc, StructPc, FunctionPc, GenPc, Task, TaskType,
       localVars
<1>5. ImportKnown'
    BY DEF TypeInv, TypeOK, QueueTypeOK, LocalTypeOK, ImportKnown,
       AttachDep, WaitFor, Goto, At, WorkPc, LexPc, StructPc, FunctionPc,
       GenPc, queueVars, localVars, NoImport
<1> QED
  BY <1>1, <1>2, <1>3, <1>4, <1>5 DEF TypeInv, TypeOK, AttachDep

LEMMA LexDoneType ==
    ASSUME TypeInv, NEW t \in Thread, LexDone(t)
    PROVE  TypeOK' /\ ImportKnown'
<1>1. QueueTypeOK'
    BY DEF TypeInv, TypeOK, QueueTypeOK, LexDone, queueVars
<1>2. ImportTypeOK'
    BY DEF TypeInv, TypeOK, ImportTypeOK, LexDone, importVars
<1>3. ResultTypeOK'
    BY DEF TypeInv, TypeOK, ResultTypeOK, LexDone, resultVars
<1>4. LocalTypeOK'
  <2>1. task' \in [Thread -> Task]
    BY DEF TypeInv, TypeOK, LocalTypeOK, LexDone, Task, TaskType
  <2>2. pc' \in [Thread -> Pc]
    BY DEF TypeInv, TypeOK, LocalTypeOK, LexDone, Goto, Pc, WorkPc, LexPc, GenPc
  <2> QED
    BY <2>1, <2>2 DEF TypeInv, TypeOK, LocalTypeOK, LexDone, localVars
<1>5. ImportKnown'
    BY DEF TypeInv, TypeOK, QueueTypeOK, LocalTypeOK, ImportKnown, LexDone,
       Goto, At, WorkPc, LexPc, StructPc, FunctionPc, GenPc, queueVars,
       localVars, NoImport
<1> QED
  BY <1>1, <1>2, <1>3, <1>4, <1>5 DEF TypeInv, TypeOK, LexDone

LEMMA CreateStructType ==
    ASSUME TypeInv, NEW t \in Thread, CreateStruct(t)
    PROVE  TypeOK' /\ ImportKnown'
<1>1. QueueTypeOK'
    BY DEF TypeInv, TypeOK, QueueTypeOK, CreateStruct, queueVars
<1>2. ImportTypeOK'
    BY DEF TypeInv, TypeOK, ImportTypeOK, CreateStruct, importVars
<1>3. ResultTypeOK'
  <2>1. task[t].imp \in ImportId /\ i[t] \in Nat
    BY ImportedType DEF TypeInv, ImportKnown, LocalTypeOK, TypeOK, CreateStruct, At, Task, WorkPc, LexPc,
                        StructPc, FunctionPc, GenPc
  <2>2. created_types' \subseteq ImportId \X Nat
    BY <2>1 DEF TypeInv, TypeOK, ResultTypeOK, CreateStruct
  <2> QED
    BY <2>2 DEF TypeInv, TypeOK, ResultTypeOK, CreateStruct
<1>4. LocalTypeOK'
  <2>1. i' \in [Thread -> Nat \ {0}]
    BY DEF TypeInv, TypeOK, LocalTypeOK, CreateStruct
  <2>2. pc' \in [Thread -> Pc]
    BY DEF TypeInv, TypeOK, LocalTypeOK, CreateStruct, Goto, Pc, WorkPc, StructPc
  <2> QED
    BY <2>1, <2>2 DEF TypeInv, TypeOK, LocalTypeOK, CreateStruct
<1>5. ImportKnown'
    BY DEF TypeInv, TypeOK, QueueTypeOK, LocalTypeOK, ImportKnown,
       CreateStruct, Goto, At, WorkPc, LexPc, StructPc, FunctionPc, GenPc,
       queueVars, localVars, NoImport
<1> QED
  BY <1>1, <1>2, <1>3, <1>4, <1>5 DEF TypeInv, TypeOK, CreateStruct

LEMMA CheckMembersType ==
    ASSUME TypeInv, NEW t \in Thread, CheckMembers(t)
    PROVE  TypeOK' /\ ImportKnown'
<1>1. QueueTypeOK'
    BY DEF TypeInv, TypeOK, QueueTypeOK, CheckMembers, queueVars
<1>2. ImportTypeOK'
    BY DEF TypeInv, TypeOK, ImportTypeOK, CheckMembers, importVars
<1>3. ResultTypeOK'
  <2>1. task[t].imp \in ImportId /\ i[t] \in Nat
    BY ImportedType DEF TypeInv, ImportKnown, LocalTypeOK, TypeOK, CheckMembers, At, Task, WorkPc, LexPc,
                        StructPc, FunctionPc, GenPc
  <2>2. Structs(t)[i[t]] \in SUBSET Member
    BY ImportedType DEF TypeInv, IndexKnown, CheckMembers, At
  <2>3. complete_types' \subseteq ImportId \X Nat
    BY <2>1 DEF TypeInv, TypeOK, ResultTypeOK, CheckMembers
  <2>4. \A m \in Structs(t)[i[t]] : m.type \in StructName
    BY <2>2 DEF Member
  <2>5. \A s \in StructName : SizeKnown(task[t].imp, s) \in BOOLEAN
    BY DEF SizeKnown
  <2>6. sizes_used' \subseteq ImportId \X StructName \X BOOLEAN
    BY <2>1, <2>4, <2>5 DEF TypeInv, TypeOK, ResultTypeOK, CheckMembers, UseSizes
  <2>7. errors' \in BOOLEAN
    BY DEF TypeInv, TypeOK, ResultTypeOK, CheckMembers, ReportType
  <2> QED
    BY <2>3, <2>6, <2>7 DEF TypeInv, TypeOK, ResultTypeOK, CheckMembers
<1>4. LocalTypeOK'
  <2>1. i' \in [Thread -> Nat \ {0}]
    BY DEF TypeInv, TypeOK, LocalTypeOK, CheckMembers
  <2>2. pc' \in [Thread -> Pc]
    BY DEF TypeInv, TypeOK, LocalTypeOK, CheckMembers, Goto, Pc, WorkPc, StructPc
  <2>3. changed' \in [Thread -> BOOLEAN] /\ failure' \in [Thread -> BOOLEAN]
    BY DEF TypeInv, TypeOK, LocalTypeOK, CheckMembers
  <2> QED
    BY <2>1, <2>2, <2>3 DEF TypeInv, TypeOK, LocalTypeOK, CheckMembers
<1>5. ImportKnown'
    BY DEF TypeInv, TypeOK, QueueTypeOK, LocalTypeOK, ImportKnown,
       CheckMembers, Goto, At, WorkPc, LexPc, StructPc, FunctionPc, GenPc,
       queueVars, localVars, NoImport
<1> QED
  BY <1>1, <1>2, <1>3, <1>4, <1>5 DEF TypeInv, TypeOK, CheckMembers

LEMMA StructsSucceedType ==
    ASSUME TypeInv, NEW t \in Thread, StructsSucceed(t)
    PROVE  TypeOK' /\ ImportKnown'
<1>1. QueueTypeOK'
    BY DEF TypeInv, TypeOK, QueueTypeOK, StructsSucceed, queueVars
<1>2. ImportTypeOK'
    BY DEF TypeInv, TypeOK, ImportTypeOK, StructsSucceed, importVars
<1>3. ResultTypeOK'
    BY DEF TypeInv, TypeOK, ResultTypeOK, StructsSucceed, resultVars
<1>4. LocalTypeOK'
  <2> DEFINE new == [task[t] EXCEPT !.type = "TASK_CHECK_FUNCTIONS"]
  <2>1. new \in Task
    BY ImportedType DEF TypeInv, TypeOK, LocalTypeOK, Task, TaskType
  <2>2. task' = [task EXCEPT ![t] = new]
    BY DEF StructsSucceed
  <2> HIDE DEF new
  <2>3. pc' = [pc EXCEPT ![t] = "finish"] /\ "finish" \in Pc
    BY DEF StructsSucceed, Goto, Pc, WorkPc
  <2>4. task' \in [Thread -> Task] /\ pc' \in [Thread -> Pc]
    BY <2>1, <2>2, <2>3, LocalUpdate DEF TypeInv, TypeOK
  <2>5. queue_task' \in [Thread -> BOOLEAN]
    BY DEF TypeInv, TypeOK, LocalTypeOK, StructsSucceed
  <2> QED
    BY <2>4, <2>5 DEF TypeInv, TypeOK, LocalTypeOK, StructsSucceed
<1>5. ImportKnown'
  <2>1. task[t].imp # NoImport
    BY DEF TypeInv, ImportKnown, StructsSucceed, StructsChecked, At, WorkPc, StructPc
  <2> DEFINE new == [task[t] EXCEPT !.type = "TASK_CHECK_FUNCTIONS"]
  <2>2. new.imp = task[t].imp
    BY ImportedType DEF TypeInv, Task
  <2>3. task' = [task EXCEPT ![t] = new]
    BY DEF StructsSucceed
  <2> HIDE DEF new
  <2>4. /\ task'[t].imp # NoImport
        /\ \A u \in Thread \ {t} : task'[u] = task[u]
    BY <2>1, <2>2, <2>3 DEF TypeInv, TypeOK, LocalTypeOK
  <2>5. /\ pc'[t] = "finish"
        /\ \A u \in Thread \ {t} : /\ pc'[u] = pc[u]
                                   /\ queue_task'[u] = queue_task[u]
                                   /\ dep_imp'[u] = dep_imp[u]
    BY DEF TypeInv, TypeOK, LocalTypeOK, StructsSucceed, Goto
  <2> QED
    BY <2>4, <2>5 DEF TypeInv, ImportKnown, StructsSucceed, queueVars
<1> QED
  BY <1>1, <1>2, <1>3, <1>4, <1>5 DEF TypeInv, TypeOK, StructsSucceed

LEMMA StructsReportType ==
    ASSUME TypeInv, NEW t \in Thread, StructsReport(t)
    PROVE  TypeOK' /\ ImportKnown'
<1>1. QueueTypeOK'
    BY DEF TypeInv, TypeOK, QueueTypeOK, StructsReport, queueVars
<1>2. ImportTypeOK'
    BY DEF TypeInv, TypeOK, ImportTypeOK, StructsReport, importVars
<1>3. ResultTypeOK'
    BY DEF TypeInv, TypeOK, ResultTypeOK, StructsReport, resultVars
<1>4. LocalTypeOK'
    BY ImportedType DEF TypeInv, TypeOK, LocalTypeOK, StructsReport, Goto,
       At, Pc, WorkPc, LexPc, StructPc, FunctionPc, GenPc, Task, TaskType,
       localVars
<1>5. ImportKnown'
    BY DEF TypeInv, TypeOK, QueueTypeOK, LocalTypeOK, ImportKnown,
       StructsReport, Goto, At, WorkPc, LexPc, StructPc, FunctionPc, GenPc,
       queueVars, localVars, NoImport
<1> QED
  BY <1>1, <1>2, <1>3, <1>4, <1>5 DEF TypeInv, TypeOK, StructsReport

LEMMA StructsRetryType ==
    ASSUME TypeInv, NEW t \in Thread, StructsRetry(t)
    PROVE  TypeOK' /\ ImportKnown'
<1>1. QueueTypeOK'
    BY DEF TypeInv, TypeOK, QueueTypeOK, StructsRetry, queueVars
<1>2. ImportTypeOK'
    BY DEF TypeInv, TypeOK, ImportTypeOK, StructsRetry, importVars
<1>3. ResultTypeOK'
    BY DEF TypeInv, TypeOK, ResultTypeOK, StructsRetry, resultVars
<1>4. LocalTypeOK'
  <2> DEFINE new == [task[t] EXCEPT !.no_change = ~changed[t]]
  <2>1. new \in Task
    BY ImportedType DEF TypeInv, TypeOK, LocalTypeOK, Task, TaskType
  <2>2. task' = [task EXCEPT ![t] = new]
    BY DEF StructsRetry
  <2> HIDE DEF new
  <2>3. pc' = [pc EXCEPT ![t] = "finish"] /\ "finish" \in Pc
    BY DEF StructsRetry, Goto, Pc, WorkPc
  <2>4. task' \in [Thread -> Task] /\ pc' \in [Thread -> Pc]
    BY <2>1, <2>2, <2>3, LocalUpdate DEF TypeInv, TypeOK
  <2>5. queue_task' \in [Thread -> BOOLEAN]
    BY DEF TypeInv, TypeOK, LocalTypeOK, StructsRetry
  <2> QED
    BY <2>4, <2>5 DEF TypeInv, TypeOK, LocalTypeOK, StructsRetry
<1>5. ImportKnown'
  <2>1. task[t].imp # NoImport
    BY DEF TypeInv, ImportKnown, StructsRetry, StructsChecked, At, WorkPc, StructPc
  <2> DEFINE new == [task[t] EXCEPT !.no_change = ~changed[t]]
  <2>2. new.imp = task[t].imp
    BY ImportedType DEF TypeInv, Task
  <2>3. task' = [task EXCEPT ![t] = new]
    BY DEF StructsRetry
  <2> HIDE DEF new
  <2>4. /\ task'[t].imp # NoImport
        /\ \A u \in Thread \ {t} : task'[u] = task[u]
    BY <2>1, <2>2, <2>3 DEF TypeInv, TypeOK, LocalTypeOK
  <2>5. /\ pc'[t] = "finish"
        /\ \A u \in Thread \ {t} : /\ pc'[u] = pc[u]
                                   /\ queue_task'[u] = queue_task[u]
                                   /\ dep_imp'[u] = dep_imp[u]
    BY DEF TypeInv, TypeOK, LocalTypeOK, StructsRetry, Goto
  <2> QED
    BY <2>4, <2>5 DEF TypeInv, ImportKnown, StructsRetry, queueVars
<1> QED
  BY <1>1, <1>2, <1>3, <1>4, <1>5 DEF TypeInv, TypeOK, StructsRetry

LEMMA StructsDropType ==
    ASSUME TypeInv, NEW t \in Thread, StructsDrop(t)
    PROVE  TypeOK' /\ ImportKnown'
<1>1. QueueTypeOK'
    BY DEF TypeInv, TypeOK, QueueTypeOK, StructsDrop, queueVars
<1>2. ImportTypeOK'
    BY DEF TypeInv, TypeOK, ImportTypeOK, StructsDrop, importVars
<1>3. ResultTypeOK'
    BY DEF TypeInv, TypeOK, ResultTypeOK, StructsDrop, resultVars
<1>4. LocalTypeOK'
  <2> DEFINE new == [task[t] EXCEPT !.no_change = ~changed[t]]
  <2>1. new \in Task
    BY ImportedType DEF TypeInv, TypeOK, LocalTypeOK, Task, TaskType
  <2>2. task' = [task EXCEPT ![t] = new]
    BY DEF StructsDrop
  <2> HIDE DEF new
  <2>3. pc' = [pc EXCEPT ![t] = "finish"] /\ "finish" \in Pc
    BY DEF StructsDrop, Goto, Pc, WorkPc
  <2>4. task' \in [Thread -> Task] /\ pc' \in [Thread -> Pc]
    BY <2>1, <2>2, <2>3, LocalUpdate DEF TypeInv, TypeOK
  <2>5. queue_task' \in [Thread -> BOOLEAN]
    BY DEF TypeInv, TypeOK, LocalTypeOK, StructsDrop
  <2> QED
    BY <2>4, <2>5 DEF TypeInv, TypeOK, LocalTypeOK, StructsDrop
<1>5. ImportKnown'
  <2>1. task[t].imp # NoImport
    BY DEF TypeInv, ImportKnown, StructsDrop, StructsChecked, At, WorkPc, StructPc
  <2> DEFINE new == [task[t] EXCEPT !.no_change = ~changed[t]]
  <2>2. new.imp = task[t].imp
    BY ImportedType DEF TypeInv, Task
  <2>3. task' = [task EXCEPT ![t] = new]
    BY DEF StructsDrop
  <2> HIDE DEF new
  <2>4. /\ task'[t].imp # NoImport
        /\ \A u \in Thread \ {t} : task'[u] = task[u]
    BY <2>1, <2>2, <2>3 DEF TypeInv, TypeOK, LocalTypeOK
  <2>5. /\ pc'[t] = "finish"
        /\ \A u \in Thread \ {t} : /\ pc'[u] = pc[u]
                                   /\ queue_task'[u] = queue_task[u]
                                   /\ dep_imp'[u] = dep_imp[u]
    BY DEF TypeInv, TypeOK, LocalTypeOK, StructsDrop, Goto
  <2> QED
    BY <2>4, <2>5 DEF TypeInv, ImportKnown, StructsDrop, queueVars
<1> QED
  BY <1>1, <1>2, <1>3, <1>4, <1>5 DEF TypeInv, TypeOK, StructsDrop

LEMMA CheckFunctionsType ==
    ASSUME TypeInv, NEW t \in Thread, CheckFunctions(t)
    PROVE  TypeOK' /\ ImportKnown'
<1>1. QueueTypeOK'
    BY DEF TypeInv, TypeOK, QueueTypeOK, CheckFunctions, queueVars
<1>2. ImportTypeOK'
    BY DEF TypeInv, TypeOK, ImportTypeOK, CheckFunctions, importVars
<1>3. ResultTypeOK'
  <2>1. task[t].imp \in ImportId
    BY ImportedType DEF TypeInv, ImportKnown, TypeOK, LocalTypeOK, CheckFunctions, At, Task, WorkPc, LexPc,
                        StructPc, FunctionPc, GenPc
  <2>2. program \in Program /\ task[t].name \in File
    BY ImportedType, ProgramsAssumption DEF TypeInv, TypeOK
  <2>3. program.params[task[t].name] \in SUBSET StructName
    BY <2>2 DEF Program
  <2>4. \A s \in StructName : SizeKnown(task[t].imp, s) \in BOOLEAN
    BY DEF SizeKnown
  <2>5. sizes_used' \subseteq ImportId \X StructName \X BOOLEAN
    BY <2>1, <2>3, <2>4 DEF TypeInv, TypeOK, ResultTypeOK, CheckFunctions, UseSizes
  <2>6. functions_checked' \subseteq ImportId
    BY <2>1 DEF TypeInv, TypeOK, ResultTypeOK, CheckFunctions
  <2>8. errors' \in BOOLEAN
    BY DEF TypeInv, TypeOK, ResultTypeOK, CheckFunctions
  <2> QED
    BY <2>5, <2>6, <2>8 DEF TypeInv, TypeOK, ResultTypeOK, CheckFunctions
<1>4. LocalTypeOK'
    BY ImportedType DEF TypeInv, TypeOK, LocalTypeOK, CheckFunctions, Goto,
       At, Pc, WorkPc, LexPc, StructPc, FunctionPc, GenPc, Task, TaskType,
       localVars
<1>5. ImportKnown'
    BY DEF TypeInv, TypeOK, QueueTypeOK, LocalTypeOK, ImportKnown,
       CheckFunctions, Goto, At, WorkPc, LexPc, StructPc, FunctionPc, GenPc,
       queueVars, localVars, NoImport
<1> QED
  BY <1>1, <1>2, <1>3, <1>4, <1>5 DEF TypeInv, TypeOK, CheckFunctions

LEMMA GateType ==
    ASSUME TypeInv, NEW t \in Thread, Gate(t)
    PROVE  TypeOK' /\ ImportKnown'
<1>1. QueueTypeOK'
    BY DEF TypeInv, TypeOK, QueueTypeOK, Gate, queueVars
<1>2. ImportTypeOK'
    BY DEF TypeInv, TypeOK, ImportTypeOK, Gate, importVars
<1>3. ResultTypeOK'
    BY DEF TypeInv, TypeOK, ResultTypeOK, Gate, resultVars
<1>4. LocalTypeOK'
  <2>1. task' \in [Thread -> Task]
    <3>1. CASE errors
      BY <3>1 DEF TypeInv, TypeOK, LocalTypeOK, Gate
    <3>2. CASE ~errors
      <4>1. task' = [task EXCEPT ![t].type = "TASK_GEN_FUNCTIONS"]
        BY <3>2 DEF Gate
      <4>2. task \in [Thread -> Task] /\ "TASK_GEN_FUNCTIONS" \in TaskType
        BY DEF TypeInv, TypeOK, LocalTypeOK, TaskType
      <4> QED
        BY <4>1, <4>2 DEF Task
    <3> QED
      BY <3>1, <3>2
  <2>2. pc' \in [Thread -> Pc]
    BY DEF TypeInv, TypeOK, LocalTypeOK, Gate, Goto, Pc, WorkPc, FunctionPc
  <2> QED
    BY <2>1, <2>2 DEF TypeInv, TypeOK, LocalTypeOK, Gate, localVars
<1>5. ImportKnown'
    BY DEF TypeInv, TypeOK, QueueTypeOK, LocalTypeOK, ImportKnown, Gate,
       Goto, At, WorkPc, LexPc, StructPc, FunctionPc, GenPc, queueVars,
       localVars, NoImport
<1> QED
  BY <1>1, <1>2, <1>3, <1>4, <1>5 DEF TypeInv, TypeOK, Gate

LEMMA CheckGlobalsType ==
    ASSUME TypeInv, NEW t \in Thread, CheckGlobals(t)
    PROVE  TypeOK' /\ ImportKnown'
<1>1. QueueTypeOK'
    BY DEF TypeInv, TypeOK, QueueTypeOK, CheckGlobals, queueVars
<1>2. ImportTypeOK'
    BY DEF TypeInv, TypeOK, ImportTypeOK, CheckGlobals, importVars
<1>3. ResultTypeOK'
  <2>1. task[t].imp \in ImportId
    BY ImportedType DEF TypeInv, ImportKnown, TypeOK, LocalTypeOK, CheckGlobals, At, Task, WorkPc, LexPc,
                        StructPc, FunctionPc, GenPc
  <2>2. globals_added' \subseteq ImportId
    BY <2>1 DEF TypeInv, TypeOK, ResultTypeOK, CheckGlobals
  <2>8. errors' \in BOOLEAN
    BY DEF TypeInv, TypeOK, ResultTypeOK, CheckGlobals
  <2> QED
    BY <2>2, <2>8 DEF TypeInv, TypeOK, ResultTypeOK, CheckGlobals
<1>4. LocalTypeOK'
    BY ImportedType DEF TypeInv, TypeOK, LocalTypeOK, CheckGlobals, Goto,
       At, Pc, WorkPc, LexPc, StructPc, FunctionPc, GenPc, Task, TaskType,
       localVars
<1>5. ImportKnown'
    BY DEF TypeInv, TypeOK, QueueTypeOK, LocalTypeOK, ImportKnown,
       CheckGlobals, Goto, At, WorkPc, LexPc, StructPc, FunctionPc, GenPc,
       queueVars, localVars, NoImport
<1> QED
  BY <1>1, <1>2, <1>3, <1>4, <1>5 DEF TypeInv, TypeOK, CheckGlobals

LEMMA GenMainType ==
    ASSUME TypeInv, NEW t \in Thread, GenMain(t)
    PROVE  TypeOK' /\ ImportKnown'
<1>1. QueueTypeOK'
    BY DEF TypeInv, TypeOK, QueueTypeOK, GenMain, queueVars
<1>2. ImportTypeOK'
    BY DEF TypeInv, TypeOK, ImportTypeOK, GenMain, importVars
<1>3. ResultTypeOK'
    BY ImportedType DEF TypeInv, TypeOK, ResultTypeOK, GenMain, At,
       ImportKnown, LocalTypeOK, Task, NoImport, WorkPc, LexPc, StructPc,
       FunctionPc, GenPc
<1>4. LocalTypeOK'
    BY ImportedType DEF TypeInv, TypeOK, LocalTypeOK, GenMain, Goto, At, Pc,
       WorkPc, LexPc, StructPc, FunctionPc, GenPc, Task, TaskType, localVars
<1>5. ImportKnown'
    BY DEF TypeInv, TypeOK, QueueTypeOK, LocalTypeOK, ImportKnown, GenMain,
       Goto, At, WorkPc, LexPc, StructPc, FunctionPc, GenPc, queueVars,
       localVars, NoImport
<1> QED
  BY <1>1, <1>2, <1>3, <1>4, <1>5 DEF TypeInv, TypeOK, GenMain

LEMMA GenCallsType ==
    ASSUME TypeInv, NEW t \in Thread, GenCalls(t)
    PROVE  TypeOK' /\ ImportKnown'
<1>1. QueueTypeOK'
    BY DEF TypeInv, TypeOK, QueueTypeOK, GenCalls, queueVars
<1>2. ImportTypeOK'
    BY DEF TypeInv, TypeOK, ImportTypeOK, GenCalls, importVars
<1>3. ResultTypeOK'
  <2>1. task[t].imp \in ImportId
    BY ImportedType DEF TypeInv, ImportKnown, TypeOK, LocalTypeOK, GenCalls, At, Task, WorkPc, LexPc,
                        StructPc, FunctionPc, GenPc
  <2>2. program \in Program /\ task[t].name \in File
    BY ImportedType, ProgramsAssumption DEF TypeInv, TypeOK
  <2>3. program.locals[task[t].name] \in SUBSET StructName
    BY <2>2 DEF Program
  <2>4. \A s \in StructName : SizeKnown(task[t].imp, s) \in BOOLEAN
    BY DEF SizeKnown
  <2>5. sizes_used' \subseteq ImportId \X StructName \X BOOLEAN
    BY <2>1, <2>3, <2>4 DEF TypeInv, TypeOK, ResultTypeOK, GenCalls, UseSizes
  <2>6. generated' \subseteq ImportId
    BY <2>1 DEF TypeInv, TypeOK, ResultTypeOK, GenCalls
  <2>8. errors' \in BOOLEAN
    BY DEF TypeInv, TypeOK, ResultTypeOK, GenCalls
  <2> QED
    BY <2>5, <2>6, <2>8 DEF TypeInv, TypeOK, ResultTypeOK, GenCalls
<1>4. LocalTypeOK'
    BY ImportedType DEF TypeInv, TypeOK, LocalTypeOK, GenCalls, Goto, At,
       Pc, WorkPc, LexPc, StructPc, FunctionPc, GenPc, Task, TaskType,
       localVars
<1>5. ImportKnown'
    BY DEF TypeInv, TypeOK, QueueTypeOK, LocalTypeOK, ImportKnown, GenCalls,
       Goto, At, WorkPc, LexPc, StructPc, FunctionPc, GenPc, queueVars,
       localVars, NoImport
<1> QED
  BY <1>1, <1>2, <1>3, <1>4, <1>5 DEF TypeInv, TypeOK, GenCalls

\* Every step of a thread keeps the types.  The counter of threads that hold a
\* task cannot go below zero, because it is their number.
LEMMA ThreadStepType ==
    ASSUME TypeInv, CountIsWorkers, NEW t \in Thread, ThreadStep(t)
    PROVE  TypeInv'
<1>1. CASE Schedule(t)
  <2>1. CASE Finish(t)
    <3>1. t \in Working /\ IsFiniteSet(Working)
      BY <2>1, ThreadAssumption, FS_Subset DEF Finish, At, Working, WorkPc
    <3>2. threads_processing # 0
      BY <3>1, FS_EmptySet DEF CountIsWorkers
    <3> QED
      BY <2>1, <3>2, FinishType, IndexType DEF TypeInv, ThreadStep, Schedule
  <2> QED
    BY <1>1, <2>1, WaitType, TakeTaskType, QuitType, IdleType, IndexType
       DEF TypeInv, ThreadStep, Schedule
<1>2. CASE LexFile(t)
  BY <1>2, LexFailureType, ParseBeginType, ParseEndType, FixupsType,
     FindImportType, SkipRepeatedType, CreateDepType, EnqueueDepType,
     AttachDepType, LexDoneType, IndexType
     DEF TypeInv, LexFile
<1>3. CASE CheckStructs(t)
  BY <1>3, CreateStructType, CheckMembersType, StructsSucceedType,
     StructsReportType, StructsRetryType, StructsDropType, IndexType
     DEF TypeInv, CheckStructs
<1>4. CASE CheckAndGenerate(t)
  BY <1>4, CheckFunctionsType, GateType, CheckGlobalsType, GenMainType,
     GenCallsType, IndexType
     DEF TypeInv, CheckAndGenerate
<1> QED
  BY <1>1, <1>2, <1>3, <1>4 DEF ThreadStep

-----------------------------------------------------------------------------
(***************************************************************************)
(* The scheduler.  SchedInv is inductive together with TypeInv: a thread   *)
(* that finishes has counted, so a thread that leaves knows that nobody    *)
(* works; and the semaphore is open, or somebody looks at the queue, or a  *)
(* thread that works will open it.                                         *)
(***************************************************************************)
SchedInv == OneToken /\ CountIsWorkers /\ NoLostWakeup /\ QuitIsFinal

\* A step inside a task touches nothing of the scheduler but the queue's end
\* and the tasks that may be taken.
Internal(t) ==
    /\ t \in Working
    /\ Working' = Working
    /\ Selecting' = Selecting
    /\ \A u \in Thread : pc'[u] = "done" <=> pc[u] = "done"
    /\ UNCHANGED <<is_signaled, tasks_queue_lock, threads_processing>>

LEMMA Moves ==
    ASSUME TypeInv, NEW t \in Thread, pc[t] \in WorkPc, NEW l \in WorkPc,
           pc' = pc \/ pc' = [pc EXCEPT ![t] = l],
           UNCHANGED <<is_signaled, tasks_queue_lock, threads_processing>>
    PROVE  Internal(t)
  BY DEF TypeInv, TypeOK, LocalTypeOK, Internal, Working, Selecting, WorkPc,
         LexPc, StructPc, FunctionPc, GenPc
\* The handlers of the four phases are internal.
LEMMA HandlersAreInternal ==
    ASSUME TypeInv, NEW t \in Thread,
           LexFile(t) \/ CheckStructs(t) \/ CheckAndGenerate(t)
    PROVE  Internal(t)
<1> USE DEF WorkPc, LexPc, StructPc, FunctionPc, GenPc
<1>1. CASE LexFile(t)
  <2>1. pc[t] \in {"lex", "body", "fixups", "find", "create", "enqueue", "attach"}
    BY <1>1 DEF LexFile, LexFailure, ParseBegin, ParseEnd, Fixups, FindImport,
            SkipRepeated, CreateDep, EnqueueDep, AttachDep, LexDone, At
  <2>2. \E l \in {"body", "fixups", "find", "create", "attach", "enqueue",
                  "finish"} :
            pc' = pc \/ pc' = [pc EXCEPT ![t] = l]
    BY <1>1 DEF LexFile, LexFailure, ParseBegin, ParseEnd, Fixups, FindImport,
            SkipRepeated, CreateDep, EnqueueDep, AttachDep, LexDone, AfterFind, Goto
  <2>3. UNCHANGED <<is_signaled, tasks_queue_lock, threads_processing>>
    BY <1>1 DEF LexFile, LexFailure, ParseBegin, ParseEnd, Fixups, FindImport,
            SkipRepeated, CreateDep, EnqueueDep, AttachDep, LexDone, queueVars
  <2> QED
    BY <2>1, <2>2, <2>3, Moves
<1>2. CASE CheckStructs(t)
  <2>1. pc[t] \in StructPc
    BY <1>2 DEF CheckStructs, CreateStruct, CheckMembers, StructsSucceed,
            StructsReport, StructsRetry, StructsDrop, StructsChecked, At
  <2>2. \E l \in {"struct", "members", "finish"} :
            pc' = pc \/ pc' = [pc EXCEPT ![t] = l]
    BY <1>2 DEF CheckStructs, CreateStruct, CheckMembers, StructsSucceed,
            StructsReport, StructsRetry, StructsDrop, Goto
  <2>3. UNCHANGED <<is_signaled, tasks_queue_lock, threads_processing>>
    BY <1>2 DEF CheckStructs, CreateStruct, CheckMembers, StructsSucceed,
            StructsReport, StructsRetry, StructsDrop, queueVars
  <2> QED
    BY <2>1, <2>2, <2>3, Moves
<1>3. CASE CheckAndGenerate(t)
  <2>1. pc[t] \in FunctionPc \cup GenPc
    BY <1>3 DEF CheckAndGenerate, CheckFunctions, Gate, CheckGlobals, GenMain,
            GenCalls, At
  <2>2. \E l \in {"gate", "globals", "gen_calls", "finish"} :
            pc' = pc \/ pc' = [pc EXCEPT ![t] = l]
    BY <1>3 DEF CheckAndGenerate, CheckFunctions, Gate, CheckGlobals, GenMain,
            GenCalls, Goto
  <2>3. UNCHANGED <<is_signaled, tasks_queue_lock, threads_processing>>
    BY <1>3 DEF CheckAndGenerate, CheckFunctions, Gate, CheckGlobals, GenMain,
            GenCalls, queueVars
  <2> QED
    BY <2>1, <2>2, <2>3, Moves
<1> QED
  BY <1>1, <1>2, <1>3

LEMMA InternalSched ==
    ASSUME SchedInv, NEW t \in Thread, Internal(t)
    PROVE  SchedInv'
<1> USE DEF SchedInv, Internal
<1>1. OneToken'
  BY DEF OneToken
<1>2. CountIsWorkers'
  BY DEF CountIsWorkers
<1>3. NoLostWakeup'
  BY DEF NoLostWakeup
<1>4. QuitIsFinal'
  BY DEF QuitIsFinal
<1> QED
  BY <1>1, <1>2, <1>3, <1>4

LEMMA WorkingFinite == IsFiniteSet(Working)
  BY ThreadAssumption, FS_Subset DEF Working

LEMMA WaitSched ==
    ASSUME TypeInv, SchedInv, NEW t \in Thread, Wait(t)
    PROVE  SchedInv'
<1> USE DEF SchedInv
<1>1. Selecting = {} /\ (Working = {} \/ is_signaled)
  BY DEF Wait, OneToken
<1>2. /\ Selecting' = {t} /\ Working' = Working
      /\ \A u \in Thread : pc'[u] = "done" <=> pc[u] = "done"
  BY <1>1 DEF TypeInv, TypeOK, LocalTypeOK, Wait, At, Goto, Selecting, Working,
              WorkPc, LexPc, StructPc, FunctionPc, GenPc
<1>3. OneToken'
  BY <1>1, <1>2 DEF OneToken, Wait
<1>4. CountIsWorkers'
  BY <1>2 DEF CountIsWorkers, Wait
<1>5. NoLostWakeup'
  BY <1>2 DEF NoLostWakeup
<1>6. QuitIsFinal'
  BY <1>2 DEF QuitIsFinal, Wait, NothingReady, Ready, importVars
<1> QED
  BY <1>3, <1>4, <1>5, <1>6

LEMMA TakeTaskSched ==
    ASSUME TypeInv, SchedInv, NEW t \in Thread, TakeTask(t)
    PROVE  SchedInv'
<1> USE DEF SchedInv
<1>1. PICK k \in DOMAIN tasks : Ready(k) /\ Goto(t, Entry[tasks[k].type])
  BY DEF TakeTask
<1>2. Entry[tasks[k].type] \in WorkPc
  <2>1. tasks[k] \in Task
    BY DEF TypeInv, TypeOK, QueueTypeOK
  <2> QED
    BY <2>1 DEF Task, TaskType, Entry, WorkPc, LexPc, StructPc, FunctionPc, GenPc
<1>3. t \in Selecting /\ t \notin Working
  BY DEF TakeTask, At, Selecting, Working, WorkPc, LexPc, StructPc, FunctionPc,
         GenPc
<1>4. /\ Selecting' = {} /\ Working' = Working \cup {t}
      /\ \A u \in Thread : pc'[u] = "done" <=> pc[u] = "done"
  <2>1. Selecting = {t}
    BY <1>3 DEF OneToken
  <2>2. pc' = [pc EXCEPT ![t] = Entry[tasks[k].type]]
    BY <1>1 DEF Goto
  <2> QED
    BY <1>2, <1>3, <2>1, <2>2
       DEF TypeInv, TypeOK, LocalTypeOK, Selecting, Working, WorkPc, LexPc,
           StructPc, FunctionPc, GenPc
<1>5. tasks_queue_lock = 0
  BY <1>3 DEF OneToken
<1>6. OneToken'
  BY <1>4, <1>5 DEF OneToken, TakeTask, Signal
<1>7. CountIsWorkers'
  BY <1>3, <1>4, WorkingFinite, FS_AddElement
     DEF CountIsWorkers, TakeTask, StartProcessing
<1>8. NoLostWakeup'
  BY <1>4 DEF NoLostWakeup
<1>9. QuitIsFinal'
  BY <1>1, <1>4 DEF QuitIsFinal, NothingReady
<1> QED
  BY <1>6, <1>7, <1>8, <1>9

LEMMA QuitSched ==
    ASSUME TypeInv, SchedInv, NEW t \in Thread, Quit(t)
    PROVE  SchedInv'
<1> USE DEF SchedInv
<1>1. Working = {}
  BY WorkingFinite, FS_EmptySet DEF CountIsWorkers, Quit
<1>2. Selecting = {t}
  BY DEF Quit, At, OneToken, Selecting
<1>3. Selecting' = {} /\ Working' = {}
  BY <1>1, <1>2 DEF TypeInv, TypeOK, LocalTypeOK, Quit, Goto, Selecting, Working,
              WorkPc, LexPc, StructPc, FunctionPc, GenPc
<1>4. tasks_queue_lock' = 1 /\ NothingReady'
  BY DEF Quit, Signal, NothingReady, Ready, importVars
<1>5. OneToken'
  BY <1>3, <1>4 DEF OneToken
<1>6. CountIsWorkers'
  BY <1>1, <1>3 DEF CountIsWorkers, Quit
<1>7. NoLostWakeup'
  BY <1>4 DEF NoLostWakeup
<1>8. QuitIsFinal'
  BY <1>3, <1>4 DEF QuitIsFinal
<1> QED
  BY <1>5, <1>6, <1>7, <1>8

LEMMA IdleSched ==
    ASSUME TypeInv, SchedInv, NEW t \in Thread, Idle(t)
    PROVE  SchedInv'
<1> USE DEF SchedInv
<1>1. Working # {}
  BY FS_EmptySet DEF CountIsWorkers, Idle
<1>2. Selecting = {t} /\ tasks_queue_lock = 0
  BY DEF Idle, At, OneToken, Selecting
<1>3. /\ Selecting' = {} /\ Working' = Working
      /\ \A u \in Thread : pc'[u] = "done" <=> pc[u] = "done"
  BY <1>2 DEF TypeInv, TypeOK, LocalTypeOK, Idle, At, Goto, Selecting, Working,
              WorkPc, LexPc, StructPc, FunctionPc, GenPc
<1>4. OneToken'
  BY <1>2, <1>3 DEF OneToken, Idle
<1>5. CountIsWorkers'
  BY <1>3 DEF CountIsWorkers, Idle
<1>6. NoLostWakeup'
  BY <1>1, <1>3 DEF NoLostWakeup
<1>7. QuitIsFinal'
  BY <1>1, <1>3 DEF QuitIsFinal
<1> QED
  BY <1>4, <1>5, <1>6, <1>7

LEMMA FinishSched ==
    ASSUME TypeInv, SchedInv, NEW t \in Thread, Finish(t)
    PROVE  SchedInv'
<1> USE DEF SchedInv
<1>1. t \in Working
  BY DEF Finish, At, Working, WorkPc
<1>2. /\ Selecting' = Selecting /\ Working' = Working \ {t}
      /\ \A u \in Thread : pc'[u] # "done"
  BY <1>1 DEF TypeInv, TypeOK, LocalTypeOK, Finish, At, Goto, Selecting, Working,
              WorkPc, LexPc, StructPc, FunctionPc, GenPc, QuitIsFinal
<1>3. /\ is_signaled'
      /\ tasks_queue_lock' = 1 \/ Selecting # {}
      /\ Selecting # {} => tasks_queue_lock' = 0
  BY <1>1 DEF OneToken, Finish, SignalOnce, Signal
<1>4. OneToken'
  BY <1>2, <1>3 DEF OneToken
<1>5. CountIsWorkers'
  BY <1>1, <1>2, WorkingFinite, FS_RemoveElement
     DEF CountIsWorkers, Finish, StopProcessing
<1>6. NoLostWakeup'
  BY <1>2, <1>3 DEF NoLostWakeup
<1>7. QuitIsFinal'
  BY <1>2 DEF QuitIsFinal
<1> QED
  BY <1>4, <1>5, <1>6, <1>7

LEMMA InitSched == Init => SchedInv
<1> SUFFICES ASSUME Init PROVE SchedInv
  OBVIOUS
<1>1. Working = {} /\ Selecting = {} /\ \A t \in Thread : pc[t] # "done"
  BY DEF Init, Working, Selecting, WorkPc, LexPc, StructPc, FunctionPc, GenPc
<1>2. CountIsWorkers
  BY <1>1, FS_EmptySet DEF CountIsWorkers, Init
<1> QED
  BY <1>1, <1>2 DEF SchedInv, OneToken, NoLostWakeup, QuitIsFinal, Init

\* The inductive invariant of the driver.
IInv == TypeInv /\ SchedInv

LEMMA StutterInv == IInv /\ UNCHANGED vars => IInv'
<1> SUFFICES ASSUME IInv, UNCHANGED vars PROVE IInv'
  OBVIOUS
<1> USE DEF vars, queueVars, importVars, resultVars, localVars
<1>1. QueueTypeOK' /\ ImportTypeOK'
  BY DEF IInv, TypeInv, TypeOK, QueueTypeOK, ImportTypeOK
<1>2. ResultTypeOK' /\ LocalTypeOK'
  BY DEF IInv, TypeInv, TypeOK, ResultTypeOK, LocalTypeOK
<1>3. ImportKnown' /\ IndexKnown'
  BY DEF IInv, TypeInv, ImportKnown, IndexKnown, Imported, Structs
<1>4. SchedInv'
  BY DEF IInv, SchedInv, OneToken, CountIsWorkers, NoLostWakeup, QuitIsFinal,
         AllDone, Working, Selecting, NothingReady, Ready
<1> QED
  BY <1>1, <1>2, <1>3, <1>4 DEF IInv, TypeInv, TypeOK

LEMMA ThreadStepInv ==
    ASSUME IInv, NEW t \in Thread, ThreadStep(t) PROVE IInv'
<1>1. TypeInv'
  BY ThreadStepType DEF IInv, SchedInv
<1>2. SchedInv'
  BY WaitSched, TakeTaskSched, QuitSched, IdleSched, FinishSched,
     HandlersAreInternal, InternalSched DEF IInv, ThreadStep, Schedule
<1> QED
  BY <1>1, <1>2 DEF IInv

LEMMA Invariance == Spec => []IInv
<1>1. Init => IInv
  BY InitTypeInv, InitSched DEF IInv
<1>2. IInv /\ [Next]_vars => IInv'
  BY ThreadStepInv, StutterInv DEF Next, Terminated
<1> QED
  BY <1>1, <1>2, PTL DEF Spec

-----------------------------------------------------------------------------
\* Every variable keeps its type, for every program and any number of threads;
\* in particular no thread works on a null import except where a parse failed.
THEOREM TypeCorrect == Spec => []TypeOK
<1>1. IInv => TypeOK
  BY DEF IInv, TypeInv
<1> QED
  BY <1>1, Invariance, PTL

THEOREM HandlersHaveImports == Spec => []ImportKnown
<1>1. IInv => ImportKnown
  BY DEF IInv, TypeInv
<1> QED
  BY <1>1, Invariance, PTL

\* At most one thread looks at the queue, and no SEM_SIGNAL meets a full
\* semaphore while a thread works.
THEOREM OneTokenHolds == Spec => []OneToken
<1>1. IInv => OneToken
  BY DEF IInv, SchedInv
<1> QED
  BY <1>1, Invariance, PTL

\* threads_processing is the number of threads that hold a task.
THEOREM CountHolds == Spec => []CountIsWorkers
<1>1. IInv => CountIsWorkers
  BY DEF IInv, SchedInv
<1> QED
  BY <1>1, Invariance, PTL

\* No thread sleeps on the semaphore with nobody left to open it.
THEOREM WakeupHolds == Spec => []NoLostWakeup
<1>1. IInv => NoLostWakeup
  BY DEF IInv, SchedInv
<1> QED
  BY <1>1, Invariance, PTL

\* A thread leaves only when no task is, or can become, ready.
THEOREM QuitHolds == Spec => []QuitIsFinal
<1>1. IInv => QuitIsFinal
  BY DEF IInv, SchedInv
<1> QED
  BY <1>1, Invariance, PTL
=============================================================================
