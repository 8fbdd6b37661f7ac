----------------------------- MODULE PoolProofs -----------------------------
(***************************************************************************)
(* The scheduler of the driver (module Compiler), with its semaphore, its  *)
(* flag and its counter, implements the atomic pool of module TaskPool,    *)
(* step by step, for any program and any number of threads.                *)
(***************************************************************************)
EXTENDS ImportProofs

\* What the pool sees of a thread.
InHand == [t \in Thread |-> IF pc[t] \in WorkPc THEN task[t] ELSE NoTask]

Blocked == {id \in ImportId : deps_count[id] # deps_now[id]}

Gone == {t \in Thread : pc[t] = "done"}

LEMMA NoTaskIsNone == NoTask \notin Task
BY DEF NoTask, Task, TaskType

\* A task can be taken from the pool exactly when it is ready.
LEMMA FreeIsReady ==
    ASSUME TypeInv, NEW k \in DOMAIN tasks
    PROVE  Pool!Free(k) <=> Ready(k)
<1>1. tasks[k] \in Task
  BY DEF TypeInv, TypeOK, QueueTypeOK
<1>2. tasks[k].imp \in ImportId \cup {NoImport} /\ NoImport \notin ImportId
  BY <1>1, MaxImportsAssumption DEF Task, NoImport, ImportId
<1> QED
  BY <1>2 DEF Pool!Free, Ready, TaskKey

\* A thread that keeps others' places.
LEMMA InHandMoves ==
    ASSUME TypeInv, TypeInv', NEW t \in Thread, Local(t)
    PROVE  /\ InHand' = [InHand EXCEPT ![t] = IF pc'[t] \in WorkPc THEN task'[t] ELSE NoTask]
           /\ Gone' = IF pc'[t] = "done" THEN Gone \cup {t} ELSE Gone \ {t}
BY DEF InHand, Gone, Local

LEMMA TakeIsTake ==
    ASSUME TypeInv, TypeInv', NEW t \in Thread, TakeTask(t)
    PROVE  Pool!Take(t)
<1>1. PICK k \in DOMAIN tasks :
          /\ Ready(k) /\ \A j \in 1 .. k - 1 : ~Ready(j)
          /\ tasks' = RemoveAt(tasks, k) /\ task' = [task EXCEPT ![t] = tasks[k]] /\ Goto(t, Entry[tasks[k].type])
  BY DEF TakeTask, Erase
<1>2. tasks \in Seq(Task) /\ tasks[k] \in Task /\ task \in [Thread -> Task] /\ pc \in [Thread -> Pc]
  BY DEF TypeInv, TypeOK, QueueTypeOK, LocalTypeOK
<1>3. /\ pc[t] = "select" /\ ~crashed /\ task'[t] = tasks[k] /\ pc'[t] \in WorkPc
      /\ UNCHANGED <<crashed, deps_count, deps_now>>
  BY <1>1, <1>2 DEF TakeTask, At, Goto, importVars, Entry, Task, TaskType, WorkPc, LexPc, StructPc, FunctionPc, GenPc
<1>4. Local(t)
  BY StepIsLocal DEF ThreadStep, Schedule
<1>5. /\ InHand' = [InHand EXCEPT ![t] = tasks[k]]
      /\ InHand[t] = NoTask /\ t \notin Gone /\ Gone' = Gone
  <2>1. pc'[t] # "done"
    BY <1>3 DEF WorkPc, LexPc, StructPc, FunctionPc, GenPc
  <2> QED
    BY <1>3, <1>4, <2>1, InHandMoves DEF InHand, Gone, WorkPc, LexPc, StructPc, FunctionPc, GenPc
<1>6. \A j \in 1 .. k - 1 : j \in DOMAIN tasks
  BY <1>2
<1>7. Pool!Free(k) /\ \A j \in 1 .. k - 1 : ~Pool!Free(j)
  BY <1>1, <1>6, FreeIsReady
<1>8. UNCHANGED Blocked
  BY <1>3 DEF Blocked
<1>9. tasks' = Pool!RemoveAt(tasks, k)
  BY <1>1 DEF RemoveAt, Pool!RemoveAt
<1> QED
  BY <1>3, <1>5, <1>7, <1>8, <1>9 DEF Pool!Take, InHand, Gone, Blocked
LEMMA FinishIsReturn ==
    ASSUME TypeInv, TypeInv', NEW t \in Thread, Finish(t)
    PROVE  Pool!Return(t)
<1>1. task \in [Thread -> Task] /\ pc \in [Thread -> Pc]
  BY DEF TypeInv, TypeOK, LocalTypeOK
<1>2. /\ pc[t] = "finish" /\ ~crashed /\ pc'[t] = "wait" /\ tasks' \in {tasks, Append(tasks, task[t])}
      /\ UNCHANGED <<crashed, deps_count, deps_now>>
  BY <1>1 DEF Finish, At, Goto, importVars
<1>3. Local(t)
  BY StepIsLocal DEF ThreadStep, Schedule
<1>4. /\ InHand' = [InHand EXCEPT ![t] = NoTask] /\ Gone' = Gone
      /\ InHand[t] = task[t] /\ InHand[t] # NoTask
  <2>1. pc'[t] \notin WorkPc /\ pc[t] \in WorkPc /\ t \notin Gone
    BY <1>2 DEF Gone, WorkPc, LexPc, StructPc, FunctionPc, GenPc
  <2>2. task[t] # NoTask
    BY <1>1, NoTaskIsNone
  <2> QED
    BY <1>2, <1>3, <2>1, <2>2, InHandMoves DEF InHand, Gone
<1>5. UNCHANGED Blocked
  BY <1>2 DEF Blocked
<1> QED
  BY <1>2, <1>4, <1>5 DEF Pool!Return, InHand, Gone, Blocked

LEMMA QuitIsLeave ==
    ASSUME TypeInv, TypeInv', CountIsWorkers, NEW t \in Thread, Quit(t)
    PROVE  Pool!Leave(t)
<1>1. /\ pc[t] = "select" /\ ~crashed /\ NothingReady /\ threads_processing = 0 /\ pc'[t] = "done"
      /\ UNCHANGED <<tasks, crashed, deps_count, deps_now>>
  BY DEF Quit, At, Goto, importVars, TypeInv, TypeOK, LocalTypeOK
<1>2. Local(t)
  BY StepIsLocal DEF ThreadStep, Schedule
<1>3. Working = {}
  <2>1. Cardinality(Working) = 0
    BY <1>1 DEF CountIsWorkers
  <2> QED
    BY <2>1, WorkingFinite, FS_EmptySet
<1>4. \A w \in Thread : InHand[w] = NoTask
  BY <1>3 DEF Working, InHand
<1>5. InHand' = InHand /\ Gone' = Gone \cup {t} /\ t \notin Gone
  <2>1. pc[t] \notin WorkPc /\ pc'[t] \notin WorkPc
    BY <1>1 DEF WorkPc, LexPc, StructPc, FunctionPc, GenPc
  <2> QED
    BY <1>1, <1>2, <1>4, <2>1, InHandMoves DEF InHand, Gone
<1>6. Pool!NothingFree
  BY <1>1, FreeIsReady DEF NothingReady, Pool!NothingFree
<1>7. Pool!NobodyWorks
  BY <1>4 DEF Pool!NobodyWorks, InHand
<1>8. UNCHANGED Blocked
  BY <1>1 DEF Blocked
<1> QED
  BY <1>1, <1>5, <1>6, <1>7, <1>8 DEF Pool!Leave, InHand, Gone, Blocked

LEMMA WaitAndIdleStutter ==
    ASSUME TypeInv, TypeInv', NEW t \in Thread, Wait(t) \/ Idle(t)
    PROVE  UNCHANGED Pool!vars
<1>1. /\ pc[t] \in {"wait", "select"} /\ pc'[t] \in {"wait", "select"}
      /\ UNCHANGED <<tasks, crashed, deps_count, deps_now>>
  BY DEF Wait, Idle, At, Goto, importVars, TypeInv, TypeOK, LocalTypeOK
<1>2. Local(t)
  BY StepIsLocal DEF ThreadStep, Schedule
<1>3. InHand' = InHand /\ Gone' = Gone
  <2>1. pc[t] \notin WorkPc /\ pc'[t] \notin WorkPc
    BY <1>1 DEF WorkPc, LexPc, StructPc, FunctionPc, GenPc
  <2> QED
    BY <1>1, <1>2, <2>1, InHandMoves DEF InHand, Gone
<1>4. UNCHANGED Blocked
  BY <1>1 DEF Blocked
<1> QED
  BY <1>1, <1>3, <1>4 DEF Pool!vars, InHand, Gone, Blocked

\* An import is blocked while it is registered to wait.
LEMMA BlockedIsWaiting ==
    ASSUME TypeInv, WaitsInv, NEW id \in ImportId
    PROVE  id \in Blocked <=> Waits(id) # {}
<1>1. /\ IsFiniteSet(Waits(id)) /\ deps_count[id] = deps_now[id] + Cardinality(Waits(id))
      /\ deps_now[id] \in Nat /\ Cardinality(Waits(id)) \in Nat
  BY FS_CardinalityType DEF WaitsInv, TypeInv, TypeOK, ImportTypeOK
<1>2. Cardinality(Waits(id)) = 0 <=> Waits(id) = {}
  BY <1>1, FS_EmptySet
<1> QED
  BY <1>1, <1>2 DEF Blocked

\* A handler blocks the import of its own task at most.
LEMMA HandlersBlockTheirOwn ==
    ASSUME TypeInv, TypeInv', PhaseInv, TasksInv, WaitsInv, NEW t \in Thread,
           LexFile(t) \/ CheckStructs(t) \/ CheckAndGenerate(t)
    PROVE  Blocked' \subseteq Blocked \cup {task[t].imp}
<1>1. WaitsInv'
  BY WaitsStep DEF ThreadStep
<1>2. ASSUME NEW id \in ImportId, NEW imp \in ImportId, NEW dep \in ImportId, WaitFor(imp, dep),
             Waits(id)' # Waits(id)
      PROVE  id = imp
  BY <1>2, WaitForWaits
<1>3. ASSUME NEW id \in ImportId, id # task[t].imp PROVE Waits(id)' \subseteq Waits(id)
  <2>1. CASE Fixups(t)
    <3>1. CASE task[t].imp = NoImport
      BY <2>1, <3>1 DEF Fixups, Waits
    <3>2. CASE task[t].imp # NoImport
      <4>1. task[t].imp \in ImportId /\ fixups' = [fixups EXCEPT ![task[t].imp] = << >>]
        BY <2>1, <3>2 DEF Fixups, TypeInv, TypeOK, LocalTypeOK, Task
      <4>2. IsFiniteSet(Waits(id))
        BY DEF WaitsInv
      <4> QED
        BY <4>1, <4>2, DeliveryWaits
    <3> QED
      BY <3>1, <3>2
  <2>2. CASE EnqueueDep(t) \/ (AttachDep(t) /\ ~HasBody(dep_imp[t]))
    <3>1. pc[t] \in {"enqueue", "attach"} /\ WaitFor(task[t].imp, dep_imp[t])
      BY <2>2 DEF EnqueueDep, AttachDep, At
    <3>2. task[t].imp \in ImportId /\ dep_imp[t] \in ImportId
      BY <3>1 DEF TypeInv, TypeOK, LocalTypeOK, Task, ImportKnown, WorkPc, LexPc
    <3> QED
      BY <1>2, <1>3, <3>1, <3>2
  <2>3. CASE AttachDep(t) /\ HasBody(dep_imp[t])
    BY <2>3 DEF AttachDep, Waits
  <2>4. CASE ~Fixups(t) /\ ~EnqueueDep(t) /\ ~AttachDep(t)
    BY <2>4, OthersDoNotWait DEF ThreadStep, Waits
  <2> QED
    BY <2>1, <2>2, <2>3, <2>4
<1>4. ASSUME NEW id \in ImportId, id \in Blocked', id # task[t].imp PROVE id \in Blocked
  <2>1. Waits(id)' # {}
    <3>1. /\ IsFiniteSet(Waits(id)') /\ deps_count'[id] = deps_now'[id] + Cardinality(Waits(id)')
          /\ deps_now'[id] \in Nat
      BY <1>1 DEF WaitsInv, TypeInv, TypeOK, ImportTypeOK
    <3>2. Cardinality({}) = 0
      BY FS_EmptySet
    <3>3. deps_count'[id] # deps_now'[id]
      BY <1>4 DEF Blocked
    <3>4. Cardinality(Waits(id)') # 0
      BY <3>1, <3>3
    <3> QED
      BY <3>2, <3>4
  <2>2. Waits(id) # {}
    BY <1>3, <1>4, <2>1
  <2> QED
    BY <2>2, BlockedIsWaiting
<1>5. Blocked' \subseteq ImportId
  BY DEF Blocked
<1> QED
  BY <1>4, <1>5

\* A handler works: it queues one task at most, and keeps the one in its hand.
LEMMA HandlerIsWork ==
    ASSUME TypeInv, TypeInv', PhaseInv, TasksInv, WaitsInv, NEW t \in Thread,
           LexFile(t) \/ CheckStructs(t) \/ CheckAndGenerate(t)
    PROVE  Pool!Work(t)
<1>1. pc[t] \in WorkPc /\ pc'[t] \in WorkPc
  BY HandlersAreInternal DEF Internal, Working
<1>2. Local(t)
  BY StepIsLocal DEF ThreadStep
<1>3. ~crashed /\ crashed' \in BOOLEAN
  BY DEF LexFile, LexFailure, ParseBegin, ParseEnd, Fixups, FindImport, SkipRepeated, CreateDep, EnqueueDep,
         AttachDep, LexDone, CheckStructs, CreateStruct, CheckMembers, StructsSucceed, StructsReport, StructsRetry,
         StructsDrop, StructsChecked, CheckAndGenerate, CheckFunctions, Gate, CheckGlobals, GenMain, GenCalls, At,
         TypeInv, TypeOK, ResultTypeOK
<1>4. /\ task[t] \in Task /\ task'[t] \in Task /\ task[t] # NoTask
      /\ pc[t] # "done" /\ pc'[t] # "done"
  BY <1>1, NoTaskIsNone DEF TypeInv, TypeOK, LocalTypeOK, WorkPc, LexPc, StructPc, FunctionPc, GenPc
<1>5. /\ InHand[t] = task[t] /\ InHand'[t] = task'[t]
      /\ InHand' = [InHand EXCEPT ![t] = task'[t]]
      /\ Gone' = Gone
  BY <1>1, <1>2, <1>4, InHandMoves DEF InHand, Gone
<1>6. tasks' = tasks \/ (Len(tasks') = Len(tasks) + 1 /\ Pool!IsPrefix(tasks, tasks'))
  <2>1. CASE EnqueueDep(t)
    <3>1. PICK y : tasks' = Append(tasks, y)
      BY <2>1 DEF EnqueueDep
    <3>2. tasks \in Seq(Task) /\ tasks' \in Seq(Task) /\ Len(tasks) \in Nat
      BY DEF TypeInv, TypeOK, QueueTypeOK
    <3>3. /\ Len(tasks') = Len(tasks) + 1
          /\ \A k \in 1 .. Len(tasks) : tasks'[k] = tasks[k]
      BY <3>1, <3>2
    <3>4. SubSeq(tasks, 1, Len(tasks)) = SubSeq(tasks', 1, Len(tasks))
      BY <3>2, <3>3
    <3> QED
      BY <3>2, <3>3, <3>4 DEF Pool!IsPrefix
  <2>2. CASE ~EnqueueDep(t)
    <3>1. CASE ParseBegin(t) \/ CreateDep(t)
      BY <3>1 DEF ParseBegin, CreateDep, queueVars
    <3>2. CASE ~ParseBegin(t) /\ ~CreateDep(t)
      BY <2>2, <3>2, OthersAreQuiet DEF Quiet
    <3> QED
      BY <3>1, <3>2
  <2> QED
    BY <2>1, <2>2
<1>7. Blocked' \subseteq Blocked \cup {task[t].imp}
  BY HandlersBlockTheirOwn
<1> QED
  BY <1>3, <1>4, <1>5, <1>6, <1>7 DEF Pool!Work, InHand, Gone, Blocked, TaskKey

\* Every step of the driver is a step of the pool or leaves it alone: it takes the first
\* ready task atomically, works on it without touching what others hold, drops it or queues
\* it again, and leaves only when nothing is ready and nobody works.
THEOREM DriverIsPool == Spec => PoolSteps
<1>1. Init => Pool!Init
  <2> SUFFICES ASSUME Init PROVE Pool!Init
    OBVIOUS
  <2>1. TypeInv
    BY InitTypeInv
  <2>2. /\ pc = [t \in Thread |-> "wait"] /\ crashed = FALSE /\ tasks \in Seq(Task)
        /\ \A id \in ImportId : deps_count[id] = deps_now[id]
    BY <2>1 DEF Init, TypeInv, TypeOK, QueueTypeOK
  <2>3. InHand = [t \in Thread |-> NoTask] /\ Gone = {} /\ Blocked = {}
    BY <2>2 DEF InHand, Gone, Blocked, WorkPc, LexPc, StructPc, FunctionPc, GenPc
  <2> QED
    BY <2>2, <2>3 DEF Pool!Init, InHand, Gone, Blocked
<1>2. IInv /\ IInv' /\ ImportsInv /\ [Next]_vars => [Pool!Next]_(Pool!vars)
  <2> SUFFICES ASSUME IInv, IInv', ImportsInv, [Next]_vars PROVE [Pool!Next]_(Pool!vars)
    OBVIOUS
  <2>1. TypeInv /\ TypeInv' /\ CountIsWorkers /\ PhaseInv /\ TasksInv /\ WaitsInv
    BY DEF IInv, SchedInv, ImportsInv
  <2>2. CASE UNCHANGED vars
    BY <2>2 DEF vars, queueVars, importVars, localVars, Pool!vars
  <2>3. ASSUME NEW t \in Thread, ThreadStep(t) PROVE [Pool!Next]_(Pool!vars)
    <3>1. CASE Wait(t) \/ Idle(t)
      BY <2>1, <3>1, WaitAndIdleStutter
    <3>2. CASE TakeTask(t)
      BY <2>1, <3>2, TakeIsTake DEF Pool!Next
    <3>3. CASE Finish(t)
      BY <2>1, <3>3, FinishIsReturn DEF Pool!Next
    <3>4. CASE Quit(t)
      BY <2>1, <3>4, QuitIsLeave DEF Pool!Next
    <3>5. CASE LexFile(t) \/ CheckStructs(t) \/ CheckAndGenerate(t)
      BY <2>1, <3>5, HandlerIsWork DEF Pool!Next
    <3> QED
      BY <2>3, <3>1, <3>2, <3>3, <3>4, <3>5 DEF ThreadStep, Schedule
  <2> QED
    BY <2>2, <2>3 DEF Next, Terminated
<1> QED
  BY <1>1, <1>2, Invariance, ImportsHold, PTL DEF Spec, PoolSteps, Pool!Safety

=============================================================================
