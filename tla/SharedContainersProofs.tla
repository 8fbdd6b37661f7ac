----------------------- MODULE SharedContainersProofs -----------------------
(***************************************************************************)
(* Theorems about the shared containers (module SharedContainers), for any *)
(* threads, work and sizes.                                                *)
(***************************************************************************)
EXTENDS SharedContainers, SequenceTheorems, TLAPS

-----------------------------------------------------------------------------
(* The mutexes *)

\* The moves that a thread can make on the mutexes.
Moves(t) == \/ \E l \in Lock : TestHandle(t, l)
            \/ CreateHandle(t) \/ EnterWait(t) \/ Acquire(t) \/ Unlock(t)
            \/ UNCHANGED mutexVars

MutexType ==
    /\ m_internalHandle \in [Lock -> Handle \cup {Null}]
    /\ made \subseteq Handle
    /\ owner \in [Handle -> Thread \cup {Null}]
    /\ at \in [Thread -> {"outside", "create", "enter", "wait", "inside"}]
    /\ wants \in [Thread -> Lock \cup {Null}]
    /\ handle \in [Thread -> Handle \cup {Null}]

\* What a thread holds or waits for is an object of the lock that it wants, and an
\* object has the owner that is inside with it.
HandleInv ==
    /\ \A l \in Lock : m_internalHandle[l] # Null =>
            m_internalHandle[l] \in made /\ m_internalHandle[l][1] = l
    /\ \A l \in Ready : m_internalHandle[l] # Null
    /\ \A h \in made : h[1] \in Ready => h = <<h[1], MainThread>>
    /\ \A t \in Thread :
        /\ at[t] # "outside" => wants[t] \in Lock
        /\ at[t] = "create" => wants[t] \notin Ready
        /\ at[t] \in {"enter", "wait", "inside"} => m_internalHandle[wants[t]] # Null
        /\ at[t] \in {"wait", "inside"} => handle[t] \in made /\ handle[t][1] = wants[t]
        /\ at[t] = "inside" => owner[handle[t]] = t

MutexInv == MutexType /\ HandleInv

LEMMA MutexStarts == MutexInit => MutexInv
<1> SUFFICES ASSUME MutexInit PROVE MutexInv
  OBVIOUS
<1> USE LockAssumption DEF MutexInit
<1>1. \A l \in Ready : l \in Lock /\ <<l, MainThread>> \in Handle /\ <<l, MainThread>> # Null
                       /\ <<l, MainThread>>[1] = l /\ <<l, MainThread>> \in made
  BY DEF Handle
<1>2. MutexType
  BY <1>1 DEF MutexType
<1>3. \A h \in made : h[1] \in Ready => h = <<h[1], MainThread>>
  BY <1>1
<1>4. HandleInv
  BY <1>1, <1>3 DEF HandleInv
<1> QED
  BY <1>2, <1>4 DEF MutexInv

LEMMA MutexTypeKept ==
    ASSUME MutexInv, NEW t \in Thread, Moves(t)
    PROVE  MutexType'
<1> USE DEF MutexInv, MutexType
<1>1. CASE \E l \in Lock : TestHandle(t, l)
  BY <1>1 DEF TestHandle
<1>2. CASE CreateHandle(t)
  <2>1. wants[t] \in Lock /\ <<wants[t], t>> \in Handle
    BY <1>2 DEF HandleInv, CreateHandle, Handle
  <2> QED
    BY <1>2, <2>1 DEF CreateHandle
<1>3. CASE EnterWait(t)
  <2>1. wants[t] \in Lock
    BY <1>3 DEF HandleInv, EnterWait
  <2> QED
    BY <1>3, <2>1 DEF EnterWait
<1>4. CASE Acquire(t)
  BY <1>4 DEF Acquire
<1>5. CASE Unlock(t)
  BY <1>5 DEF Unlock
<1>6. CASE UNCHANGED mutexVars
  BY <1>6 DEF mutexVars
<1> QED
  BY <1>1, <1>2, <1>3, <1>4, <1>5, <1>6 DEF Moves

LEMMA HandleInvKept ==
    ASSUME MutexInv, NEW t \in Thread, Moves(t)
    PROVE  HandleInv'
<1> USE DEF MutexInv
<1>1. CASE \E l \in Lock : TestHandle(t, l)
  BY <1>1 DEF TestHandle, HandleInv, MutexType
<1>2. CASE CreateHandle(t)
  <2> DEFINE h == <<wants[t], t>>
  <2>1. wants[t] \in Lock /\ wants[t] \notin Ready /\ h \in Handle /\ h # Null /\ h[1] = wants[t]
    BY <1>2, LockAssumption DEF HandleInv, CreateHandle, Handle
  <2>2. /\ m_internalHandle' = [m_internalHandle EXCEPT ![wants[t]] = h]
        /\ made' = made \cup {h} /\ at' = [at EXCEPT ![t] = "enter"]
        /\ UNCHANGED <<owner, wants, handle>>
    BY <1>2 DEF CreateHandle
  <2> HIDE DEF h
  <2>3. \A l \in Lock : m_internalHandle'[l] = IF l = wants[t] THEN h ELSE m_internalHandle[l]
    BY <2>2 DEF MutexType
  <2>4. \A u \in Thread : at'[u] = IF u = t THEN "enter" ELSE at[u]
    BY <2>2 DEF MutexType
  <2>5. Ready \subseteq Lock
    BY LockAssumption
  <2> QED
    BY <2>1, <2>2, <2>3, <2>4, <2>5 DEF HandleInv
<1>3. CASE EnterWait(t)
  BY <1>3 DEF EnterWait, HandleInv, MutexType
<1>4. CASE Acquire(t)
  <2>1. /\ at[t] = "wait" /\ owner[handle[t]] \in {Null, t} /\ handle[t] \in Handle
        /\ owner' = [owner EXCEPT ![handle[t]] = t] /\ at' = [at EXCEPT ![t] = "inside"]
        /\ UNCHANGED <<m_internalHandle, made, wants, handle>>
    BY <1>4 DEF Acquire, HandleInv, MutexType
  <2>2. \A u \in Thread \ {t} : at[u] = "inside" => handle[u] # handle[t] /\ handle[u] \in Handle
    BY <2>1, LockAssumption DEF HandleInv, MutexType
  <2>3. \A u \in Thread : at'[u] = IF u = t THEN "inside" ELSE at[u]
    BY <2>1 DEF MutexType
  <2>4. \A u \in Thread : at'[u] = "inside" => owner'[handle'[u]] = u
    BY <2>1, <2>2, <2>3 DEF HandleInv, MutexType
  <2> QED
    BY <2>1, <2>3, <2>4 DEF HandleInv
<1>5. CASE Unlock(t)
  <2> DEFINE h == m_internalHandle[wants[t]]
  <2>1. /\ at[t] = "inside" /\ at' = [at EXCEPT ![t] = "outside"]
        /\ owner' = IF owner[h] = t THEN [owner EXCEPT ![h] = Null] ELSE owner
        /\ UNCHANGED <<m_internalHandle, made, wants, handle>>
    BY <1>5 DEF Unlock
  <2> HIDE DEF h
  <2>2. \A u \in Thread : at'[u] = IF u = t THEN "outside" ELSE at[u]
    BY <2>1 DEF MutexType
  <2>3. \A u \in Thread : at'[u] = "inside" => owner'[handle'[u]] = u
    BY <2>1, <2>2 DEF HandleInv, MutexType
  <2> QED
    BY <2>1, <2>2, <2>3 DEF HandleInv
<1>6. CASE UNCHANGED mutexVars
  BY <1>6 DEF mutexVars, HandleInv
<1> QED
  BY <1>1, <1>2, <1>3, <1>4, <1>5, <1>6 DEF Moves

LEMMA MutexKept ==
    ASSUME MutexInv, NEW t \in Thread, Moves(t)
    PROVE  MutexInv'
  BY MutexTypeKept, HandleInvKept DEF MutexInv

\* Two threads are inside with two objects.
LEMMA MutexExcludes == MutexInv => Exclusion
<1> SUFFICES ASSUME MutexInv, NEW l \in Lock, NEW t \in Thread, NEW u \in Thread,
                    t # u, Inside(t, l), Inside(u, l)
             PROVE  l \notin Ready /\ \E g, h \in made : g # h /\ g[1] = l /\ h[1] = l
  BY DEF Exclusion, Overlap
<1>1. /\ handle[t] \in made /\ handle[t][1] = l /\ owner[handle[t]] = t
      /\ handle[u] \in made /\ handle[u][1] = l /\ owner[handle[u]] = u
  BY DEF Inside, MutexInv, HandleInv
<1>2. handle[t] # handle[u]
  BY <1>1
<1>3. l \notin Ready
  BY <1>1, <1>2 DEF MutexInv, HandleInv
<1> QED
  BY <1>1, <1>2, <1>3

-----------------------------------------------------------------------------
(* The work of a thread *)

Stage == {"begin", "push", "append", "store", "insert", "check", "lock", "publish", "fill"}

WorkType ==
    /\ work \in [Thread -> Seq(Operation)]
    /\ stage \in [Thread -> Stage]
    /\ found \in [Thread -> Nat]

LEMMA StepMoves ==
    ASSUME NEW t \in Thread, Step(t)
    PROVE  Moves(t)
<1> USE WorkAssumption DEF Moves
<1>1. CASE Enter(t)
  BY <1>1 DEF Enter, Locking
<1>2. CASE Container(t)
  BY <1>2 DEF Container, LockGeneral, NumberPiece, PushPiece, KnownString, NewString,
              TakeOffset, StoreData, InsertString, EmitCall
<1>3. CASE CreateBody(t)
  BY <1>3 DEF CreateBody, TakeScopeId, CheckBlock, LockScopes, BlockExists, NewBlock,
              PublishBlock, FillScope
<1> QED
  BY <1>1, <1>2, <1>3 DEF Step

\* A move on the mutexes leaves the other threads where they are.
LEMMA MovesAreLocal ==
    ASSUME MutexType, NEW t \in Thread, Moves(t), NEW u \in Thread, u # t
    PROVE  UNCHANGED <<at[u], wants[u], handle[u]>>
  BY DEF MutexType, Moves, TestHandle, CreateHandle, EnterWait, Acquire, Unlock, mutexVars

LEMMA WorkIsLocal ==
    ASSUME WorkType, NEW t \in Thread, Step(t), NEW u \in Thread, u # t
    PROVE  UNCHANGED <<work[u], stage[u], found[u]>>
<1> USE DEF WorkType, Finish, Goto
<1>1. CASE Enter(t)
  BY <1>1 DEF Enter, workVars
<1>2. CASE Container(t)
  BY <1>2 DEF Container, LockGeneral, NumberPiece, PushPiece, KnownString, NewString,
              TakeOffset, StoreData, InsertString, EmitCall, workVars
<1>3. CASE CreateBody(t)
  BY <1>3 DEF CreateBody, TakeScopeId, CheckBlock, LockScopes, BlockExists, NewBlock,
              PublishBlock, FillScope, workVars
<1> QED
  BY <1>1, <1>2, <1>3 DEF Step

\* While the program runs, a section has one thread.
LEMMA OneInside ==
    ASSUME Running, NEW l \in Lock, NEW t \in Thread, NEW u \in Thread, t # u, Inside(t, l)
    PROVE  ~Inside(u, l)
  BY DEF Running, Broken, Overlap

-----------------------------------------------------------------------------
(* Types, and what a thread relies on while it is in a section *)

Byte == (Str \X Nat) \cup {<<"_", 0>>}

ContainerType ==
    /\ pieces \in Seq(Function)
    /\ piece_code_index \in [Function -> Int]
    /\ immediates \in [Function -> Seq(Int)]
    /\ relocations \in [Function -> Seq(Function \X Nat)]
    /\ emitted \in [Function -> Seq(Operation)]
    /\ global_data \in Seq(Byte) /\ Len(global_data) = global_data_size
    /\ global_data_max \in Nat
    /\ string_map \in [Str -> Nat \cup {Null}]
    /\ appended \in [Thread -> SUBSET Nat]
    /\ linked \in BOOLEAN

Section(t) ==
    /\ Storing(t) => Inside(t, general_lock) /\ found[t] = global_data_size
    /\ At(t, "function", "push") => Inside(t, general_lock) /\ found[t] = Len(pieces)
    /\ At(t, "body", "publish") => Inside(t, scopes_lock)

SectionInv == \A t \in Thread : Section(t)

\* The size and the pieces are only changed in the section.
LEMMA OthersSections ==
    ASSUME MutexInv, WorkType, SectionInv, Running,
           NEW t \in Thread, Step(t), NEW u \in Thread, u # t
    PROVE  Section(u)'
<1>1. UNCHANGED <<at[u], wants[u], work[u], stage[u], found[u]>>
  BY StepMoves, MovesAreLocal, WorkIsLocal DEF MutexInv
<1>2. Section(u)
  BY DEF SectionInv
<1>3. Inside(u, general_lock) => UNCHANGED <<global_data_size, pieces>>
  <2> SUFFICES ASSUME Inside(u, general_lock) PROVE UNCHANGED <<global_data_size, pieces>>
    OBVIOUS
  <2>1. ~Inside(t, general_lock)
    BY OneInside, WorkAssumption
  <2>2. ~Storing(t) /\ ~At(t, "function", "push")
    BY <2>1 DEF SectionInv, Section
  <2>3. CASE Container(t)
    BY <2>2, <2>3 DEF Container, LockGeneral, NumberPiece, PushPiece, KnownString, NewString,
                      TakeOffset, StoreData, InsertString, EmitCall, containerVars
  <2> QED
    BY <2>3 DEF Step, containerVars
<1> QED
  BY <1>1, <1>2, <1>3 DEF Section, Storing, At, Op, Inside

LEMMA OwnSection ==
    ASSUME MutexInv, WorkType, SectionInv, NEW t \in Thread, Step(t)
    PROVE  Section(t)'
<1> USE DEF WorkType
<1>1. ASSUME \/ Enter(t) \/ LockGeneral(t) \/ LockScopes(t)
      PROVE  Section(t)'
  <2>1. UNCHANGED <<work, stage, found>> /\ at[t] # "inside"
    BY <1>1 DEF Enter, Locking, CreateHandle, EnterWait, Acquire, LockGeneral, LockScopes,
                TestHandle, workVars
  <2>2. ~Storing(t) /\ ~At(t, "function", "push") /\ ~At(t, "body", "publish")
    BY <2>1 DEF SectionInv, Section, Inside
  <2> QED
    BY <2>1, <2>2 DEF Section, Storing, At, Op
<1>2. CASE NumberPiece(t)
  BY <1>2 DEF NumberPiece, Section, Storing, At, Op, Goto, Inside, mutexVars, containerVars
<1>3. CASE TakeOffset(t)
  BY <1>3 DEF TakeOffset, Section, Storing, At, Op, Goto, Inside, mutexVars
<1>4. CASE NewBlock(t)
  BY <1>4 DEF NewBlock, Section, Storing, At, Op, Goto, Inside, mutexVars
<1>5. ASSUME stage'[t] \in {"begin", "append", "insert", "check", "lock", "fill"}
      PROVE  Section(t)'
  BY <1>5 DEF Section, Storing, At
<1>6. CASE Container(t)
  <2>1. ASSUME PushPiece(t) \/ KnownString(t) \/ NewString(t) \/ StoreData(t)
               \/ InsertString(t) \/ EmitCall(t)
        PROVE  stage'[t] \in {"begin", "append", "insert"}
    BY <2>1 DEF PushPiece, KnownString, NewString, StoreData, InsertString, EmitCall, Finish, Goto
  <2> QED
    BY <1>1, <1>2, <1>3, <1>5, <1>6, <2>1 DEF Container
<1>7. CASE CreateBody(t)
  <2>1. ASSUME TakeScopeId(t) \/ CheckBlock(t) \/ BlockExists(t) \/ PublishBlock(t)
               \/ FillScope(t)
        PROVE  stage'[t] \in {"begin", "check", "lock", "fill"}
    BY <2>1 DEF TakeScopeId, CheckBlock, BlockExists, PublishBlock, FillScope, Finish, Goto
  <2> QED
    BY <1>1, <1>4, <1>5, <1>7, <2>1 DEF CreateBody
<1> QED
  BY <1>1, <1>6, <1>7 DEF Step

LEMMA SectionKept ==
    ASSUME MutexInv, WorkType, SectionInv, Running, NEW t \in Thread, Step(t)
    PROVE  SectionInv'
  BY OthersSections, OwnSection DEF SectionInv

-----------------------------------------------------------------------------
(* Types of the container *)

\* What the next operation is about.
LEMMA OpType ==
    ASSUME WorkType, NEW t \in Thread, work[t] # << >>
    PROVE  /\ Op(t) \in Operation
           /\ Op(t).op \in {"function", "string", "call"} => Op(t).in \in Function
           /\ Op(t).op = "string" => Op(t).str \in Str
           /\ Op(t).op = "call" => Op(t).callee \in Function
           /\ Tail(work[t]) \in Seq(Operation)
<1>1. work[t] \in Seq(Operation) /\ Head(work[t]) \in Operation /\ Tail(work[t]) \in Seq(Operation)
  BY DEF WorkType
<1> QED
  BY <1>1 DEF Op, Operation

LEMMA SequenceOf ==
    ASSUME NEW S, NEW n \in Nat, NEW f \in [1 .. n -> S]
    PROVE  f \in Seq(S) /\ Len(f) = n
<1>1. f \in Seq(S) /\ DOMAIN f = 1 .. n
  BY SeqDef
<1>2. Len(f) \in Nat /\ DOMAIN f = 1 .. Len(f)
  BY <1>1
<1> QED
  BY <1>1, <1>2

\* The bytes that are appended, and what the data is after that.
LEMMA BytesType ==
    ASSUME WorkType, NEW t \in Thread, Appending(t) \/ Storing(t)
    PROVE  /\ Bytes(t) \in Seq(Byte)
           /\ Op(t).op = "string" =>
                /\ Len(Bytes(t)) = Length(Op(t).str) + 1
                /\ \A i \in 1 .. Length(Op(t).str) + 1 : Bytes(t)[i] = <<Op(t).str, i>>
<1>1. Op(t).op = "string" => Op(t).str \in Str /\ Length(Op(t).str) \in Nat
  BY OpType, WorkAssumption DEF Appending, Storing, At
<1>2. CASE Op(t).op = "string"
  <2> DEFINE n == Length(Op(t).str) + 1
  <2>1. n \in Nat /\ Bytes(t) = [i \in 1 .. n |-> <<Op(t).str, i>>]
    BY <1>1, <1>2 DEF Bytes
  <2>2. Bytes(t) \in [1 .. n -> Byte]
    <3> HIDE DEF n
    <3>1. ASSUME NEW i \in 1 .. n PROVE <<Op(t).str, i>> \in Byte
      <4>1. Op(t).str \in Str /\ i \in Nat
        BY <1>1, <1>2, <2>1
      <4>2. <<Op(t).str, i>> \in Str \X Nat
        BY <4>1
      <4> QED
        BY <4>2 DEF Byte
    <3> QED
      BY <2>1, <3>1
  <2>3. Bytes(t) \in Seq(Byte) /\ Len(Bytes(t)) = n
    <3> HIDE DEF n
    <3> QED
      BY <2>1, <2>2, SequenceOf
  <2>4. \A i \in 1 .. n : Bytes(t)[i] = <<Op(t).str, i>>
    BY <2>1
  <2> QED
    BY <2>3, <2>4
<1>3. CASE Op(t).op # "string"
  <2>1. Bytes(t) \in [1 .. GlobalSize -> Byte]
    BY <1>3 DEF Bytes, Byte
  <2> QED
    BY <1>3, <2>1, SequenceOf, WorkAssumption
<1> QED
  BY <1>2, <1>3

LEMMA WrittenType ==
    ASSUME global_data \in Seq(Byte), NEW bytes \in Seq(Byte)
    PROVE  LET data == Written(Len(global_data), bytes)
           IN  /\ data \in Seq(Byte)
               /\ Len(data) = Len(global_data) + Len(bytes)
               /\ \A i \in 1 .. Len(global_data) : data[i] = global_data[i]
               /\ \A i \in 1 .. Len(bytes) : data[Len(global_data) + i] = bytes[i]
<1> DEFINE off == Len(global_data)
           n == Len(bytes)
           data == Written(off, bytes)
<1>1. off \in Nat /\ n \in Nat /\ DOMAIN global_data = 1 .. off /\ DOMAIN bytes = 1 .. n
  OBVIOUS
<1>2. data = [i \in 1 .. off + n |-> IF i <= off THEN global_data[i] ELSE bytes[i - off]]
  BY DEF Written
<1> HIDE DEF off, n, data
<1>3. \A i \in 1 .. off + n : i > off => i - off \in 1 .. n
  BY <1>1
<1>4. \A i \in 1 .. off : global_data[i] \in Byte
  BY <1>1
<1>5. \A i \in 1 .. n : bytes[i] \in Byte
  BY <1>1
<1>6. \A i \in 1 .. off + n : data[i] \in Byte
  BY <1>1, <1>2, <1>3, <1>4, <1>5
<1>7. data \in Seq(Byte) /\ Len(data) = off + n
  BY <1>1, <1>2, <1>6
<1>8. \A i \in 1 .. n : off + i \in 1 .. off + n /\ (off + i) - off = i /\ ~(off + i <= off)
  BY <1>1
<1>9. \A i \in 1 .. n : data[off + i] = bytes[i]
  BY <1>2, <1>8
<1>10. \A i \in 1 .. off : data[i] = global_data[i]
  BY <1>1, <1>2
<1> QED
  BY <1>7, <1>9, <1>10 DEF off, n, data

LEMMA ContainerStarts == ContainerInit => ContainerType
<1> SUFFICES ASSUME ContainerInit PROVE ContainerType
  OBVIOUS
<1>1. /\ immediates \in [Function -> Seq(Int)] /\ emitted \in [Function -> Seq(Operation)]
      /\ relocations \in [Function -> Seq(Function \X Nat)]
      /\ piece_code_index \in [Function -> Int]
  BY DEF ContainerInit, NoPiece
<1>2. pieces \in Seq(Function) /\ global_data \in Seq(Byte) /\ Len(global_data) = global_data_size
  BY DEF ContainerInit
<1>3. /\ global_data_max \in Nat /\ string_map \in [Str -> Nat \cup {Null}]
      /\ appended \in [Thread -> SUBSET Nat] /\ linked \in BOOLEAN
  BY DEF ContainerInit
<1> QED
  BY <1>1, <1>2, <1>3 DEF ContainerType

LEMMA ContainerTypeKept ==
    ASSUME WorkType, SectionInv, ContainerType, NEW t \in Thread, Step(t)
    PROVE  ContainerType'
<1> USE DEF ContainerType
<1>1. CASE UNCHANGED containerVars
  BY <1>1 DEF containerVars
<1>2. CASE NumberPiece(t) \/ NewString(t) \/ LockGeneral(t)
  BY <1>1, <1>2 DEF NumberPiece, NewString, LockGeneral
<1>3. CASE PushPiece(t)
  <2>1. Op(t).in \in Function /\ found[t] \in Int
    BY <1>3, OpType DEF PushPiece, At, WorkType
  <2> QED
    BY <1>3, <2>1 DEF PushPiece
<1>4. CASE KnownString(t)
  <2>1. Op(t).in \in Function /\ Op(t).str \in Str /\ Op(t) \in Operation
    BY <1>4, OpType DEF KnownString, At
  <2>2. string_map[Op(t).str] \in Nat
    BY <1>4, <2>1 DEF KnownString
  <2> QED
    BY <1>4, <2>1, <2>2 DEF KnownString, EmitImmediate
<1>5. CASE TakeOffset(t)
  <2>1. Len(Bytes(t)) \in Nat
    BY <1>5, BytesType DEF TakeOffset
  <2> QED
    BY <1>5, <2>1 DEF TakeOffset, Grown
<1>6. CASE StoreData(t)
  <2>1. Bytes(t) \in Seq(Byte) /\ found[t] = Len(global_data)
    BY <1>6, BytesType DEF StoreData, SectionInv, Section
  <2>2. /\ global_data' \in Seq(Byte) /\ Len(global_data') = global_data_size'
    BY <1>6, <2>1, WrittenType DEF StoreData
  <2>3. appended' \in [Thread -> SUBSET Nat]
    BY <1>6, <2>1 DEF StoreData
  <2> QED
    BY <1>6, <2>2, <2>3 DEF StoreData
<1>7. CASE InsertString(t)
  <2>1. Op(t).in \in Function /\ Op(t).str \in Str /\ Op(t) \in Operation /\ found[t] \in Nat
    BY <1>7, OpType DEF InsertString, At, WorkType
  <2>2. immediates' \in [Function -> Seq(Int)] /\ emitted' \in [Function -> Seq(Operation)]
    BY <1>7, <2>1 DEF InsertString, EmitImmediate
  <2>3. string_map' \in [Str -> Nat \cup {Null}]
    BY <1>7, <2>1 DEF InsertString
  <2> QED
    BY <1>7, <2>2, <2>3 DEF InsertString
<1>8. CASE EmitCall(t)
  <2>1. Op(t).in \in Function /\ Op(t).callee \in Function /\ Op(t) \in Operation
    BY <1>8, OpType DEF EmitCall, At
  <2>2. <<Op(t).callee, Len(immediates[Op(t).in]) + 1>> \in Function \X Nat
    BY <2>1
  <2>3. relocations' \in [Function -> Seq(Function \X Nat)]
    BY <1>8, <2>1, <2>2 DEF EmitCall
  <2>4. immediates' \in [Function -> Seq(Int)] /\ emitted' \in [Function -> Seq(Operation)]
    <3>1. EmitImmediate(Op(t), 0)
      BY <1>8 DEF EmitCall
    <3>2. \A s \in Seq(Int) : Append(s, 0) \in Seq(Int)
      OBVIOUS
    <3>3. \A s \in Seq(Operation) : Append(s, Op(t)) \in Seq(Operation)
      BY <2>1
    <3> QED
      BY <2>1, <3>1, <3>2, <3>3 DEF EmitImmediate
  <2> QED
    BY <1>8, <2>3, <2>4 DEF EmitCall
<1> QED
  BY <1>1, <1>2, <1>3, <1>4, <1>5, <1>6, <1>7, <1>8 DEF Step, Container

\* The links are made by the main thread alone.
LEMMA PatchedType ==
    ASSUME ContainerType, NEW f \in Function
    PROVE  Patched(f) \in Seq(Int) /\ Len(Patched(f)) = Len(immediates[f])
<1> USE DEF ContainerType
<1> DEFINE n == Len(immediates[f])
<1>1. n \in Nat /\ DOMAIN immediates[f] = 1 .. n /\ immediates[f] \in [1 .. n -> Int]
  OBVIOUS
<1>2. relocations[f] \in Seq(Function \X Nat)
  OBVIOUS
<1>3. ASSUME NEW i \in 1 .. n
      PROVE  LET here == {r \in DOMAIN relocations[f] : relocations[f][r][2] = i}
             IN  (IF here = {} THEN immediates[f][i]
                  ELSE CodeIndex(relocations[f][CHOOSE r \in here : TRUE][1])) \in Int
  <2> DEFINE here == {r \in DOMAIN relocations[f] : relocations[f][r][2] = i}
             first == CHOOSE r \in here : TRUE
  <2>1. CASE here = {}
    BY <1>1, <2>1
  <2>2. CASE here # {}
    <3>1. first \in here
      BY <2>2
    <3>2. relocations[f][first] \in Function \X Nat
      BY <1>2, <3>1
    <3>3. \A g \in Function : CodeIndex(g) \in Int
      BY DEF CodeIndex
    <3>4. CodeIndex(relocations[f][first][1]) \in Int
      <4> HIDE DEF first
      <4> QED
        BY <3>2, <3>3
    <3> QED
      BY <2>2, <3>4
  <2> QED
    BY <2>1, <2>2
<1>4. Patched(f) \in [1 .. n -> Int]
  BY <1>1, <1>3 DEF Patched
<1> QED
  BY <1>1, <1>4, SequenceOf

LEMMA LinkType ==
    ASSUME ContainerType, Link
    PROVE  ContainerType'
<1>1. immediates' \in [Function -> Seq(Int)]
  BY PatchedType DEF Link, ContainerType
<1> QED
  BY <1>1 DEF Link, ContainerType

-----------------------------------------------------------------------------
(* The invariant that all theorems rest on *)

Core ==
    /\ MutexInv
    /\ WorkType
    /\ SectionInv
    /\ ContainerType
    /\ scopes_used \in Nat

LEMMA WorkTypeKept ==
    ASSUME WorkType, ContainerType, scopes_used \in Nat, NEW t \in Thread, Step(t)
    PROVE  WorkType' /\ scopes_used' \in Nat
<1> USE DEF WorkType
<1>1. work[t] # << >> => Tail(work[t]) \in Seq(Operation)
  BY OpType
<1>2. Len(pieces) \in Nat /\ global_data_size \in Nat
  BY DEF ContainerType
<1>3. CASE Enter(t) /\ UNCHANGED <<containerVars, scopeVars>>
  BY <1>3 DEF Enter, workVars, scopeVars
<1>4. ASSUME work[t] # << >>, Finish(t), UNCHANGED found
      PROVE  WorkType'
  <2>1. work' \in [Thread -> Seq(Operation)]
    BY <1>1, <1>4 DEF Finish
  <2> QED
    BY <1>4, <2>1 DEF Finish, Stage
<1>5. ASSUME NEW s \in Stage, Goto(t, s), found' \in [Thread -> Nat]
      PROVE  WorkType'
  BY <1>5 DEF Goto
<1>6. ASSUME UNCHANGED workVars
      PROVE  WorkType'
  BY <1>6 DEF workVars
<1> USE DEF Stage
<1>7. CASE Container(t) /\ UNCHANGED scopeVars
  <2>1. CASE PushPiece(t) \/ KnownString(t) \/ InsertString(t) \/ EmitCall(t)
    BY <1>4, <1>7, <2>1 DEF PushPiece, KnownString, InsertString, EmitCall, scopeVars, At
  <2>2. CASE NumberPiece(t) \/ TakeOffset(t)
    BY <1>2, <1>5, <1>7, <2>2 DEF NumberPiece, TakeOffset, scopeVars
  <2>3. CASE NewString(t) \/ LockGeneral(t)
    BY <1>5, <1>6, <1>7, <2>3 DEF NewString, LockGeneral, scopeVars
  <2>4. CASE StoreData(t)
    <3>1. work[t] # << >> /\ UNCHANGED found /\ (Finish(t) \/ Goto(t, "insert"))
      BY <2>4 DEF StoreData, Storing, At
    <3> QED
      BY <1>4, <1>5, <1>7, <3>1 DEF scopeVars
  <2> QED
    BY <1>7, <2>1, <2>2, <2>3, <2>4 DEF Container
<1>8. CASE CreateBody(t)
  <2>1. CASE TakeScopeId(t)
    BY <1>5, <2>1 DEF TakeScopeId
  <2>2. CASE CheckBlock(t) \/ BlockExists(t) \/ NewBlock(t) \/ PublishBlock(t)
    BY <1>5, <2>2 DEF CheckBlock, BlockExists, NewBlock, PublishBlock, scopeVars
  <2>3. CASE LockScopes(t)
    BY <1>6, <2>3 DEF LockScopes, scopeVars
  <2>4. CASE FillScope(t)
    BY <1>4, <2>4 DEF FillScope, At
  <2> QED
    BY <1>8, <2>1, <2>2, <2>3, <2>4 DEF CreateBody
<1> QED
  BY <1>3, <1>7, <1>8 DEF Step

LEMMA CoreStarts == Init => Core
<1> SUFFICES ASSUME Init PROVE Core
  OBVIOUS
<1>1. MutexInv /\ ContainerType
  BY MutexStarts, ContainerStarts DEF Init
<1>2. WorkType /\ \A t \in Thread : stage[t] = "begin"
  <2>1. PICK w \in Works : JobsInit(w)
    BY DEF Init
  <2>2. w \in [Thread -> Seq(Operation)]
    BY <2>1, WorkAssumption
  <2> QED
    BY <2>1, <2>2 DEF JobsInit, WorkType, Stage
<1>3. SectionInv
  <2>1. \A t \in Thread : ~At(t, "function", "push") /\ ~At(t, "body", "publish")
    BY <1>2 DEF At
  <2>2. \A t \in Thread : ~Storing(t)
    BY <1>2 DEF At, Storing
  <2> QED
    BY <2>1, <2>2 DEF SectionInv, Section
<1>4. scopes_used \in Nat
  BY DEF Init, ScopesInit
<1> QED
  BY <1>1, <1>2, <1>3, <1>4 DEF Core

LEMMA CoreKept == Core /\ [Next]_vars => Core'
<1> SUFFICES ASSUME Core, [Next]_vars PROVE Core'
  OBVIOUS
<1>1. ASSUME Running, NEW t \in Thread, Step(t)
      PROVE  Core'
  BY <1>1, StepMoves, MutexKept, SectionKept, ContainerTypeKept, WorkTypeKept DEF Core
<1>2. CASE Linking
  <2>1. ContainerType'
    BY <1>2, LinkType DEF Linking, Core
  <2>2. UNCHANGED <<mutexVars, workVars, scopeVars, pieces, global_data_size>>
    BY <1>2 DEF Linking, Link
  <2>3. MutexInv'
    BY <2>2 DEF Core, MutexInv, MutexType, HandleInv, mutexVars
  <2>4. WorkType' /\ scopes_used' \in Nat
    BY <2>2 DEF Core, WorkType, workVars, scopeVars
  <2>5. SectionInv'
    BY <2>2 DEF Core, SectionInv, Section, Storing, At, Op, Inside, workVars, mutexVars
  <2> QED
    BY <2>1, <2>3, <2>4, <2>5 DEF Core
<1>3. CASE UNCHANGED vars
  <2>1. UNCHANGED <<mutexVars, workVars, containerVars, scopeVars>>
    BY <1>3 DEF vars
  <2>2. MutexInv'
    BY <2>1 DEF Core, MutexInv, MutexType, HandleInv, mutexVars
  <2>3. WorkType' /\ scopes_used' \in Nat
    BY <2>1 DEF Core, WorkType, workVars, scopeVars
  <2>4. SectionInv'
    BY <2>1 DEF Core, SectionInv, Section, Storing, At, Op, Inside, workVars, mutexVars, containerVars
  <2>5. ContainerType'
    BY <2>1 DEF Core, ContainerType, containerVars
  <2> QED
    BY <2>2, <2>3, <2>4, <2>5 DEF Core
<1> QED
  BY <1>1, <1>2, <1>3 DEF Next, Stopped

LEMMA CoreHolds == Spec => []Core
  BY CoreStarts, CoreKept, PTL DEF Spec

\* In every state two threads are in sections of one lock only if both have created
\* the object of a mutex that the main thread has not locked before (Util.cpp:378).
THEOREM ExclusionHolds == Spec => []Exclusion
<1>1. Core => Exclusion
  BY MutexExcludes DEF Core
<1> QED
  BY <1>1, CoreHolds, PTL

-----------------------------------------------------------------------------
(* Bytes of the data section *)

DataInv == \A t \in Thread : \A x \in appended[t] : x < global_data_size

\* A step gives a thread bytes from the end of the data, or gives nothing.
LEMMA StepGives ==
    ASSUME Core, DataInv, NEW t \in Thread, Step(t)
    PROVE  DataInv' /\ (Data!Give(t) \/ UNCHANGED appended)
<1> USE DEF DataInv
<1>1. CASE StoreData(t)
  <2> DEFINE n == Len(Bytes(t))
             more == found[t] .. found[t] + n - 1
  <2>1. /\ n \in Nat /\ found[t] = global_data_size /\ global_data_size \in Nat
        /\ global_data_size' = found[t] + n
        /\ appended' = [appended EXCEPT ![t] = @ \cup more]
        /\ appended \in [Thread -> SUBSET Nat]
    <3>1. Bytes(t) \in Seq(Byte)
      BY <1>1, BytesType DEF Core, StoreData
    <3> QED
      BY <1>1, <3>1 DEF StoreData, Core, SectionInv, Section, ContainerType
  <2> HIDE DEF n
  <2>2. \A u \in Thread : more \cap appended[u] = {}
    BY <2>1
  <2>3. appended'[t] \ appended[t] = more
    BY <2>1, <2>2
  <2>4. Data!Give(t)
    BY <2>1, <2>2, <2>3 DEF Data!Give
  <2>5. DataInv'
    BY <2>1
  <2> QED
    BY <2>4, <2>5
<1>2. ASSUME UNCHANGED <<appended, global_data_size>>
      PROVE  DataInv'
  BY <1>2
<1>3. CASE Container(t) /\ ~StoreData(t)
  BY <1>2, <1>3 DEF Container, LockGeneral, NumberPiece, PushPiece, KnownString, NewString,
                    TakeOffset, InsertString, EmitCall, containerVars
<1>4. CASE UNCHANGED containerVars
  BY <1>2, <1>4 DEF containerVars
<1> QED
  BY <1>1, <1>3, <1>4 DEF Step

\* Every byte of the data section is given to one appendData of one thread.
THEOREM BytesAreGivenOnce == Spec => GivesBytesOnce
<1>1. Init => Data!Init /\ DataInv
  BY DEF Init, ContainerInit, Data!Init, DataInv
<1>2. Core /\ DataInv /\ [Next]_vars => DataInv' /\ [Data!Next]_appended
  <2> SUFFICES ASSUME Core, DataInv, [Next]_vars
               PROVE  DataInv' /\ (Data!Next \/ UNCHANGED appended)
    OBVIOUS
  <2>1. ASSUME NEW t \in Thread, Step(t)
        PROVE  DataInv' /\ (Data!Next \/ UNCHANGED appended)
    BY <2>1, StepGives DEF Data!Next
  <2>2. CASE Linking \/ UNCHANGED vars
    BY <2>2 DEF Linking, Link, vars, containerVars, DataInv
  <2> QED
    BY <2>1, <2>2 DEF Next, Stopped
<1> QED
  BY <1>1, <1>2, CoreHolds, PTL DEF Spec, GivesBytesOnce, Data!Spec

-----------------------------------------------------------------------------
(* Strings *)

StringsInv ==
    /\ global_data_size <= global_data_max
    /\ \A t \in Thread : Storing(t) => found[t] + Len(Bytes(t)) <= global_data_max
    /\ \A t \in Thread : At(t, "string", "insert") => StoredAt(found[t], Op(t).str)
    /\ \A s \in Str : string_map[s] # Null => StoredAt(string_map[s], s)

\* What is in the data stays there when the data grows at its end.
LEMMA StoredStays ==
    ASSUME global_data_size \in Nat, global_data_size' \in Nat,
           global_data_size <= global_data_size',
           \A i \in 1 .. global_data_size : global_data'[i] = global_data[i],
           NEW off \in Nat, NEW s \in Str, StoredAt(off, s)
    PROVE  StoredAt(off, s)'
<1> USE DEF StoredAt
<1>1. Length(s) \in Nat
  BY WorkAssumption
<1>2. \A i \in 1 .. Length(s) + 1 : off + i \in 1 .. global_data_size
  BY <1>1
<1> QED
  BY <1>1, <1>2

LEMMA DataGrows ==
    ASSUME Core, NEW t \in Thread, Step(t)
    PROVE  /\ global_data_size \in Nat /\ global_data_size' \in Nat
           /\ global_data_size <= global_data_size'
           /\ \A i \in 1 .. global_data_size : global_data'[i] = global_data[i]
<1>1. global_data \in Seq(Byte) /\ Len(global_data) = global_data_size /\ global_data_size \in Nat
  BY DEF Core, ContainerType
<1>2. CASE StoreData(t)
  <2>1. Bytes(t) \in Seq(Byte) /\ found[t] = global_data_size
    BY <1>2, BytesType DEF Core, StoreData, SectionInv, Section
  <2>2. /\ global_data' = Written(Len(global_data), Bytes(t))
        /\ global_data_size' = Len(global_data) + Len(Bytes(t))
    BY <1>1, <1>2, <2>1 DEF StoreData
  <2> DEFINE data == Written(Len(global_data), Bytes(t))
  <2>3. \A i \in 1 .. Len(global_data) : data[i] = global_data[i]
    BY <1>1, <2>1, WrittenType
  <2>4. Len(Bytes(t)) \in Nat
    BY <2>1
  <2> QED
    BY <1>1, <2>2, <2>3, <2>4
<1>3. CASE ~StoreData(t)
  BY <1>1, <1>3 DEF Step, Container, LockGeneral, NumberPiece, PushPiece, KnownString, NewString,
                    TakeOffset, InsertString, EmitCall, containerVars
<1> QED
  BY <1>2, <1>3

\* The string that a thread has stored is at the offset it has found.
LEMMA StoresString ==
    ASSUME Core, NEW t \in Thread, StoreData(t), Op(t).op = "string",
           NEW off, off = found[t], NEW s, s = Op(t).str
    PROVE  StoredAt(off, s)'
<1>1. s \in Str /\ Length(s) \in Nat
  BY OpType, WorkAssumption DEF Core, StoreData, Storing, At
<1>2. /\ global_data \in Seq(Byte) /\ Len(global_data) = off /\ off \in Nat
      /\ Bytes(t) \in Seq(Byte) /\ Len(Bytes(t)) = Length(s) + 1
      /\ \A i \in 1 .. Length(s) + 1 : Bytes(t)[i] = <<s, i>>
  BY BytesType DEF Core, ContainerType, StoreData, SectionInv, Section
<1>3. /\ global_data' = Written(Len(global_data), Bytes(t))
      /\ global_data_size' = off + Length(s) + 1
  <2>1. global_data' = Written(off, Bytes(t)) /\ global_data_size' = off + Len(Bytes(t))
    BY DEF StoreData
  <2>2. off \in Nat /\ Length(s) \in Nat /\ Len(Bytes(t)) = Length(s) + 1
    BY <1>1, <1>2
  <2>3. global_data_size' = off + Length(s) + 1
    BY <2>1, <2>2
  <2> QED
    BY <1>2, <2>1, <2>3
<1>4. \A i \in 1 .. Length(s) + 1 : global_data'[off + i] = <<s, i>>
  <2>1. \A i \in 1 .. Len(Bytes(t)) :
            Written(Len(global_data), Bytes(t))[Len(global_data) + i] = Bytes(t)[i]
    BY <1>2, WrittenType
  <2> QED
    BY <1>2, <1>3, <2>1
<1>5. off + Length(s) < global_data_size'
  BY <1>1, <1>2, <1>3
<1> QED
  BY <1>4, <1>5 DEF StoredAt

LEMMA MaxGrows ==
    ASSUME Core, StringsInv, NEW t \in Thread, Step(t)
    PROVE  global_data_max' >= global_data_max /\ global_data_size' <= global_data_max'
<1>1. global_data_size \in Nat /\ global_data_max \in Nat /\ global_data_size <= global_data_max
  BY DEF Core, ContainerType, StringsInv
<1>2. CASE TakeOffset(t)
  <2>1. Len(Bytes(t)) \in Nat
    BY <1>2, BytesType DEF TakeOffset, Core
  <2> QED
    BY <1>1, <1>2, <2>1 DEF TakeOffset, Grown
<1>3. CASE StoreData(t)
  BY <1>1, <1>3 DEF StoreData, StringsInv
<1>4. CASE ~TakeOffset(t) /\ ~StoreData(t)
  BY <1>1, <1>4 DEF Step, Container, LockGeneral, NumberPiece, PushPiece, KnownString, NewString,
                    InsertString, EmitCall, containerVars
<1> QED
  BY <1>2, <1>3, <1>4

\* What a thread knows of the data.
Knows(t) ==
    /\ Storing(t) => found[t] + Len(Bytes(t)) <= global_data_max
    /\ At(t, "string", "insert") => StoredAt(found[t], Op(t).str)

\* It stays true while the thread stands still, whatever the others do.
LEMMA KnowsStays ==
    ASSUME Core, StringsInv, NEW t \in Thread, Step(t),
           NEW u \in Thread, UNCHANGED <<work[u], stage[u], found[u]>>
    PROVE  Knows(u)'
<1>1. Knows(u)
  BY DEF StringsInv, Knows
<1>2. ASSUME Storing(u)
      PROVE  (found[u] + Len(Bytes(u)) <= global_data_max)'
  <2>1. /\ found[u] \in Nat /\ Len(Bytes(u)) \in Nat /\ global_data_max \in Nat
        /\ global_data_max' \in Nat
    BY <1>2, BytesType, ContainerTypeKept DEF Core, WorkType, ContainerType
  <2>2. Bytes(u)' = Bytes(u)
    BY DEF Bytes, Op
  <2> QED
    BY <1>1, <1>2, <2>1, <2>2, MaxGrows DEF Knows
<1>3. ASSUME NEW off, off = found[u], NEW s, s = Op(u).str, At(u, "string", "insert")
      PROVE  StoredAt(off, s)'
  <2>1. off \in Nat /\ s \in Str /\ StoredAt(off, s)
    BY <1>1, <1>3, OpType DEF Knows, Core, WorkType, At
  <2> QED
    BY <2>1, DataGrows, StoredStays
<1>4. At(u, "string", "insert") => StoredAt(found[u], Op(u).str)'
  BY <1>3 DEF StoredAt, Op
<1> QED
  BY <1>2, <1>4 DEF Knows, Storing, At, Op

\* It becomes true with what the thread itself does.
LEMMA KnowsOwn ==
    ASSUME Core, StringsInv, NEW t \in Thread, Step(t)
    PROVE  Knows(t)'
<1>1. CASE TakeOffset(t)
  <2>1. /\ stage'[t] = "store" /\ UNCHANGED work /\ found'[t] = global_data_size
        /\ global_data_max' = Grown(Len(Bytes(t)))
    BY <1>1 DEF TakeOffset, Goto, Core, WorkType
  <2>2. Bytes(t)' = Bytes(t)
    BY <2>1 DEF Bytes, Op
  <2>3. Len(Bytes(t)) \in Nat
    BY <1>1, BytesType DEF Core, TakeOffset
  <2>4. global_data_size \in Nat /\ global_data_max \in Nat /\ global_data_size <= global_data_max
    BY DEF Core, ContainerType, StringsInv
  <2>5. global_data_size + Len(Bytes(t)) <= global_data_max'
    BY <2>1, <2>3, <2>4 DEF Grown
  <2> QED
    BY <2>1, <2>2, <2>5 DEF Knows, At
<1>2. CASE StoreData(t) /\ Op(t).op = "string"
  <2>1. stage'[t] = "insert" /\ UNCHANGED <<work, found>>
    BY <1>2 DEF StoreData, Goto, Core, WorkType
  <2>2. ASSUME NEW off, off = found[t], NEW s, s = Op(t).str
        PROVE  StoredAt(off, s)'
    BY <1>2, <2>2, StoresString
  <2>3. StoredAt(found[t], Op(t).str)'
    BY <2>1, <2>2 DEF StoredAt, Op
  <2> QED
    BY <2>1, <2>3 DEF Knows, Storing, At
<1>3. CASE stage'[t] \notin {"store", "insert"}
  BY <1>3 DEF Knows, Storing, At
<1>4. CASE UNCHANGED workVars
  BY <1>4, KnowsStays DEF workVars
<1>5. CASE Container(t) /\ ~TakeOffset(t) /\ ~(StoreData(t) /\ Op(t).op = "string")
  <2>1. UNCHANGED workVars \/ stage'[t] \notin {"store", "insert"}
    BY <1>5 DEF Container, LockGeneral, NumberPiece, PushPiece, KnownString, NewString, StoreData,
                InsertString, EmitCall, Finish, Goto, Core, WorkType
  <2> QED
    BY <1>3, <1>4, <2>1
<1>6. CASE CreateBody(t)
  <2>1. UNCHANGED workVars \/ stage'[t] \notin {"store", "insert"}
    BY <1>6 DEF CreateBody, TakeScopeId, CheckBlock, LockScopes, BlockExists, NewBlock,
                PublishBlock, FillScope, Finish, Goto, Core, WorkType
  <2> QED
    BY <1>3, <1>4, <2>1
<1> QED
  BY <1>1, <1>2, <1>4, <1>5, <1>6 DEF Step, Enter

\* The table of strings has old entries, and those that InsertString makes.
LEMMA TableKept ==
    ASSUME Core, StringsInv, NEW t \in Thread, Step(t),
           NEW s \in Str, string_map'[s] # Null
    PROVE  StoredAt(string_map[s], s)'
<1>1. CASE InsertString(t) /\ s = Op(t).str
  <2>1. string_map'[s] = found[t] /\ StoredAt(found[t], s)
    BY <1>1 DEF InsertString, Core, ContainerType, StringsInv
  <2>2. found[t] \in Nat /\ UNCHANGED <<global_data, global_data_size>>
    BY <1>1 DEF InsertString, Core, WorkType
  <2> QED
    BY <2>1, <2>2 DEF StoredAt
<1>2. CASE ~(InsertString(t) /\ s = Op(t).str)
  <2>1. string_map'[s] = string_map[s]
    BY <1>2 DEF Step, Container, LockGeneral, NumberPiece, PushPiece, KnownString, NewString,
                TakeOffset, StoreData, InsertString, EmitCall, containerVars, Core, ContainerType
  <2>2. ASSUME NEW off, off = string_map[s]
        PROVE  StoredAt(off, s)'
    <3>1. off \in Nat /\ StoredAt(off, s)
      BY <2>1, <2>2 DEF Core, ContainerType, StringsInv
    <3> QED
      BY <3>1, DataGrows, StoredStays
  <2> QED
    BY <2>1, <2>2 DEF StoredAt
<1> QED
  BY <1>1, <1>2

LEMMA StringsStart == Init => StringsInv
<1> SUFFICES ASSUME Init PROVE StringsInv
  OBVIOUS
<1>1. \A t \in Thread : ~Storing(t) /\ ~At(t, "string", "insert")
  BY DEF Init, JobsInit, Storing, At
<1> QED
  BY <1>1 DEF Init, ContainerInit, StringsInv

LEMMA StringsKept == Core /\ StringsInv /\ [Next]_vars => StringsInv'
<1> SUFFICES ASSUME Core, StringsInv, [Next]_vars PROVE StringsInv'
  OBVIOUS
<1>1. ASSUME Running, NEW t \in Thread, Step(t)
      PROVE  StringsInv'
  <2>1. ASSUME NEW u \in Thread PROVE Knows(u)'
    <3>1. CASE u = t
      BY <1>1, <3>1, KnowsOwn
    <3>2. CASE u # t
      BY <1>1, <3>2, KnowsStays, WorkIsLocal DEF Core
    <3> QED
      BY <3>1, <3>2
  <2> QED
    BY <1>1, <2>1, MaxGrows, TableKept DEF StringsInv, Knows
<1>2. CASE Linking \/ UNCHANGED vars
  <2>1. UNCHANGED <<work, stage, found, global_data, global_data_size, global_data_max, string_map>>
    BY <1>2 DEF Linking, Link, vars, workVars, containerVars
  <2> QED
    BY <2>1 DEF StringsInv, Storing, At, Op, Bytes, StoredAt
<1> QED
  BY <1>1, <1>2 DEF Next, Stopped

\* At any time every offset in the table of strings has its whole string, and the data
\* ends within its array, although the search for a string and its insertion are in
\* different sections (Bytecode.cpp:351).
THEOREM StringsAreHeld == Spec => []StringsHold
<1>1. Core /\ StringsInv => StringsHold
  BY DEF Core, ContainerType, StringsInv, StringsHold
<1> QED
  BY <1>1, StringsStart, StringsKept, CoreHolds, PTL DEF Spec

-----------------------------------------------------------------------------
(* Scopes *)

LEMMA DivMod ==
    ASSUME NEW id \in Nat
    PROVE  /\ index_1(id) \in Nat /\ index_2(id) \in Index
           /\ id = scopes_max2 * index_1(id) + index_2(id)
  BY ScopesAssumption DEF index_1, index_2, Index

\* An id below the limit has a place.
LEMMA PlaceOf ==
    ASSUME NEW id \in Nat, id < scopes_max
    PROVE  index_1(id) \in Place
<1> DEFINE q == index_1(id)
<1>1. q \in Nat /\ index_2(id) \in Nat /\ id = scopes_max2 * q + index_2(id)
  BY DivMod, ScopesAssumption DEF Index
<1> HIDE DEF q
<1>2. scopes_max2 * q <= id
  BY <1>1, ScopesAssumption
<1>3. q >= scopes_max1 => scopes_max2 * q >= scopes_max2 * scopes_max1
  BY <1>1, ScopesAssumption
<1>4. scopes_max2 * scopes_max1 = scopes_max
  BY ScopesAssumption DEF scopes_max
<1>5. scopes_max \in Nat
  BY ScopesAssumption DEF scopes_max
<1>6. q < scopes_max1
  BY <1>1, <1>2, <1>3, <1>4, <1>5, ScopesAssumption
<1> QED
  BY <1>1, <1>6, ScopesAssumption DEF Place, q

\* Two ids have one place and one index only if they are the same.
LEMMA PlacesApart ==
    ASSUME NEW id \in Nat, NEW other \in Nat,
           index_1(id) = index_1(other), index_2(id) = index_2(other)
    PROVE  id = other
  BY DivMod

Creating(t) == work[t] # << >> /\ Op(t).op = "body" /\ stage[t] # "begin"
Row == [Index -> [scopeId : Nat, parent : Nat] \cup {Null}]

\* The scopes that a thread has been given, or is making.
Own(t) == {id \in Nat : id # GLOBAL_SCOPE /\ (id = current_scopeId[t] \/ (Creating(t) /\ id = found[t]))}

ScopesType ==
    /\ scopes \in [Place -> Block \cup {Null}]
    /\ entries = [b \in Block |-> entries[b]]
    /\ current_scopeId \in [Thread -> Nat]
    /\ created \in [0 .. scopes_max - 1 -> Nat \cup {Null}]

\* A block belongs to one place, and has all its entries before it is seen.
BlocksInv ==
    \A i \in Place : scopes[i] # Null => scopes[i][1] = i /\ entries[scopes[i]] \in Row

\* A thread that creates a scope has an id below the limit; its block is there when it
\* fills the scope, and is not there, and blank, when it publishes a block.
CreatingInv ==
    \A t \in Thread :
        /\ Creating(t) => found[t] < scopes_used /\ (found[t] < scopes_max \/ crashed)
        /\ At(t, "body", "fill") => scopes[index_1(found[t])] # Null
        /\ At(t, "body", "publish") =>
                /\ scopes[index_1(found[t])] = Null
                /\ entries[<<index_1(found[t]), t>>] = BlankBlock

OwnInv ==
    /\ scopes_used > 0
    /\ \A t \in Thread : \A id \in Own(t) : id < scopes_used
    /\ \A t, u \in Thread : t # u => Own(t) \cap Own(u) = {}

ScopesInv == ScopesType /\ BlocksInv /\ CreatingInv /\ OwnInv /\ ScopesKept

LEMMA ScopesStart == Init => ScopesInv
<1> SUFFICES ASSUME Init PROVE ScopesInv
  OBVIOUS
<1> USE ScopesAssumption, LockAssumption
<1>1. \A t \in Thread : ~Creating(t) /\ ~At(t, "body", "fill") /\ ~At(t, "body", "publish")
  BY DEF Init, JobsInit, Creating, At
<1>2. \A t \in Thread : Own(t) = {}
  BY <1>1 DEF Init, ScopesInit, Own
<1>3. scopes_max \in Nat \ {0} /\ 0 \in Place /\ 0 \in Index
  BY DEF scopes_max, Place, Index
<1>4. <<0, MainThread>> \in Block /\ <<0, MainThread>>[1] = 0
  BY <1>3 DEF Block
<1>5. ScopesType
  BY <1>3, <1>4 DEF Init, ScopesInit, ScopesType, GLOBAL_SCOPE
<1>6. entries[<<0, MainThread>>] = [BlankBlock EXCEPT ![0] = [scopeId |-> 0, parent |-> GLOBAL_SCOPE]]
  BY <1>4 DEF Init, ScopesInit
<1>7. /\ entries[<<0, MainThread>>] \in Row
      /\ entries[<<0, MainThread>>][0] = [scopeId |-> 0, parent |-> GLOBAL_SCOPE]
  BY <1>3, <1>6 DEF Row, BlankBlock, GLOBAL_SCOPE
<1>8. BlocksInv
  BY <1>4, <1>7 DEF Init, ScopesInit, BlocksInv
<1>9. CreatingInv /\ OwnInv
  BY <1>1, <1>2 DEF Init, ScopesInit, CreatingInv, OwnInv
<1>10. ScopesKept
  <2>1. \A t \in Thread : current_scopeId[t] = GLOBAL_SCOPE
    BY DEF Init, ScopesInit
  <2>2. index_1(0) = 0 /\ index_2(0) = 0
    BY DivMod DEF index_1, index_2
  <2>3. \A id \in 0 .. scopes_max - 1 : created[id] # Null => id = 0 /\ created[id] = GLOBAL_SCOPE
    BY DEF Init, ScopesInit
  <2>4. DOMAIN created = 0 .. scopes_max - 1 /\ scopes[0] = <<0, MainThread>> /\ scopes[0] # Null
    BY <1>3, <1>4 DEF Init, ScopesInit, Block
  <2> QED
    BY <1>7, <2>1, <2>2, <2>3, <2>4 DEF ScopesKept, getScope
<1> QED
  BY <1>5, <1>8, <1>9, <1>10 DEF ScopesInv

\* A thread that does not create a scope is left out.
LEMMA OwnStays ==
    ASSUME OwnInv, UNCHANGED <<scopes_used, current_scopeId>>,
           \A u \in Thread : Creating(u)' => Creating(u) /\ UNCHANGED found[u]
    PROVE  OwnInv'
<1>1. \A u \in Thread : Own(u)' \subseteq Own(u)
  BY DEF Own
<1> QED
  BY <1>1 DEF OwnInv

LEMMA ScopesAside ==
    ASSUME ScopesInv, UNCHANGED scopeVars,
           \A u \in Thread : Creating(u)' => UNCHANGED <<work[u], stage[u], found[u]>>
    PROVE  ScopesInv'
<1>1. \A u \in Thread : Creating(u)' => Creating(u) /\ UNCHANGED <<work[u], stage[u], found[u]>>
  BY DEF Creating, Op
<1>2. OwnInv'
  BY <1>1, OwnStays DEF ScopesInv, scopeVars
<1>3. CreatingInv'
  <2>1. \A u \in Thread : \A s \in {"fill", "publish"} :
            At(u, "body", s)' => Creating(u)' /\ At(u, "body", s)
    BY <1>1 DEF At, Op, Creating
  <2> QED
    BY <1>1, <2>1 DEF ScopesInv, CreatingInv, scopeVars
<1>4. ScopesType' /\ BlocksInv' /\ ScopesKept'
  BY DEF ScopesInv, ScopesType, BlocksInv, ScopesKept, getScope, scopeVars
<1> QED
  BY <1>2, <1>3, <1>4 DEF ScopesInv

\* The steps on the container are such.
LEMMA ContainerAside ==
    ASSUME Core, NEW t \in Thread, Step(t), ~CreateBody(t), NEW u \in Thread, Creating(u)'
    PROVE  UNCHANGED <<work[u], stage[u], found[u]>>
<1>1. CASE u # t
  BY <1>1, WorkIsLocal DEF Core
<1>2. CASE u = t /\ UNCHANGED workVars
  BY <1>2 DEF workVars
<1>3. CASE u = t /\ Container(t) /\ ~(UNCHANGED workVars)
  <2>1. stage'[t] = "begin" \/ (UNCHANGED work /\ Op(t).op # "body")
    BY <1>3 DEF Container, LockGeneral, NumberPiece, PushPiece, KnownString, NewString, TakeOffset,
                Appending, StoreData, Storing, InsertString, EmitCall, Finish, Goto, At, Core, WorkType
  <2> QED
    BY <1>3, <2>1 DEF Creating, Op
<1> QED
  BY <1>1, <1>2, <1>3 DEF Step, Enter

\* A thread that is given an id.
LEMMA TakesScopeId ==
    ASSUME Core, ScopesInv, Running, NEW t \in Thread, TakeScopeId(t)
    PROVE  ScopesInv'
<1> DEFINE id == scopes_used
<1>1. /\ work[t] # << >> /\ stage[t] = "begin" /\ UNCHANGED <<work, scopes, entries, current_scopeId, created>>
      /\ stage' = [stage EXCEPT ![t] = "check"] /\ found' = [found EXCEPT ![t] = id]
      /\ scopes_used' = id + 1 /\ id \in Nat
      /\ scopes_max \in Nat
  BY ScopesAssumption DEF TakeScopeId, At, Goto, Core, scopes_max
<1>2. id >= scopes_max => crashed'
  BY DEF TakeScopeId
<1>3. /\ stage'[t] = "check" /\ found'[t] = id
      /\ \A u \in Thread : u # t => UNCHANGED <<stage[u], found[u]>>
  BY <1>1 DEF Core, WorkType
<1>4. ScopesType' /\ BlocksInv' /\ ScopesKept'
  BY <1>1 DEF ScopesInv, ScopesType, BlocksInv, ScopesKept, getScope
<1>5. \A u \in Thread : Creating(u)' => u = t \/ Creating(u)
  BY <1>1, <1>3 DEF Creating, Op
<1>6. \A u \in Thread : Creating(u) => found[u] \in Nat /\ found[u] < id /\ found[u] < scopes_max
  BY DEF ScopesInv, CreatingInv, Core, WorkType, Running
<1>7. CreatingInv'
  <2> SUFFICES ASSUME NEW u \in Thread
               PROVE  /\ Creating(u)' => found'[u] < scopes_used' /\ (found'[u] < scopes_max \/ crashed')
                      /\ At(u, "body", "fill")' => scopes'[index_1(found'[u])] # Null
                      /\ At(u, "body", "publish")' =>
                            /\ scopes'[index_1(found'[u])] = Null
                            /\ entries'[<<index_1(found'[u]), u>>] = BlankBlock
    BY DEF CreatingInv
  <2>1. CASE u = t
    BY <1>1, <1>3, <1>2, <2>1 DEF At
  <2>2. CASE u # t
    <3>1. UNCHANGED <<stage[u], found[u]>>
      BY <1>3, <2>2
    <3>2. At(u, "body", "fill")' = At(u, "body", "fill") /\ At(u, "body", "publish")' = At(u, "body", "publish")
      BY <1>1, <3>1 DEF At, Op
    <3>3. Creating(u)' => found'[u] < scopes_used' /\ (found'[u] < scopes_max \/ crashed')
      BY <1>1, <1>5, <1>6, <2>2, <3>1
    <3> QED
      BY <1>1, <3>1, <3>2, <3>3 DEF ScopesInv, CreatingInv
  <2> QED
    BY <2>1, <2>2
<1>8. OwnInv'
  <2>1. \A u \in Thread : u # t => Own(u)' \subseteq Own(u)
    BY <1>1, <1>3, <1>5 DEF Own
  <2>2. Own(t)' \subseteq Own(t) \cup {id}
    BY <1>1, <1>3 DEF Own
  <2>3. \A u \in Thread : id \notin Own(u)
    BY <1>1 DEF ScopesInv, OwnInv
  <2>4. \A u \in Thread : Own(u) \subseteq Nat
    BY DEF Own
  <2>5. /\ id > 0 /\ \A u \in Thread : \A x \in Own(u) : x < id
        /\ \A u, v \in Thread : u # v => Own(u) \cap Own(v) = {}
    BY DEF ScopesInv, OwnInv
  <2>6. \A u \in Thread : \A x \in Own(u)' : x < id + 1
    BY <1>1, <2>1, <2>2, <2>4, <2>5
  <2>7. \A u, v \in Thread : u # v => Own(u)' \cap Own(v)' = {}
    BY <2>1, <2>2, <2>3, <2>5
  <2> QED
    BY <1>1, <2>5, <2>6, <2>7 DEF OwnInv
<1> QED
  BY <1>4, <1>7, <1>8 DEF ScopesInv

\* A thread at one of the stages of its creation.
LEMMA CreatingAt ==
    ASSUME Core, ScopesInv, Running, NEW t \in Thread, NEW s \in Stage \ {"begin"}, At(t, "body", s)
    PROVE  /\ Creating(t) /\ found[t] \in Nat /\ found[t] < scopes_max /\ found[t] < scopes_used
           /\ index_1(found[t]) \in Place /\ index_2(found[t]) \in Index
<1>1. Creating(t) /\ found[t] \in Nat
  BY DEF Creating, At, Core, WorkType
<1>2. found[t] < scopes_max /\ found[t] < scopes_used
  BY <1>1 DEF ScopesInv, CreatingInv, Running
<1> QED
  BY <1>1, <1>2, PlaceOf, DivMod

\* A step of a thread within createScope leaves the others where they stand.
LEMMA OthersStand ==
    ASSUME Core, NEW t \in Thread, CreateBody(t), Step(t), NEW u \in Thread, u # t
    PROVE  /\ Creating(u)' = Creating(u)
           /\ \A s \in Stage : At(u, "body", s)' = At(u, "body", s)
           /\ found'[u] = found[u]
<1>1. UNCHANGED <<work[u], stage[u], found[u]>>
  BY WorkIsLocal DEF Core
<1> QED
  BY <1>1 DEF Creating, At, Op

\* The steps that only look for the block.
LEMMA BlockLooked ==
    ASSUME Core, ScopesInv, Running, NEW t \in Thread, Step(t), UNCHANGED scopeVars,
           CheckBlock(t) \/ LockScopes(t) \/ BlockExists(t)
    PROVE  ScopesInv'
<1>1. /\ UNCHANGED <<work, found>> /\ Creating(t)
      /\ \/ UNCHANGED stage /\ stage[t] = "lock"
         \/ stage'[t] = "lock"
         \/ stage'[t] = "fill" /\ scopes[index_1(found[t])] # Null
  BY DEF CheckBlock, LockScopes, BlockExists, At, Goto, Creating, workVars, Core, WorkType
<1>2. \A u \in Thread : u # t => UNCHANGED stage[u]
  BY WorkIsLocal DEF Core
<1>3. \A u \in Thread : Creating(u)' => Creating(u) /\ UNCHANGED found[u]
  BY <1>1, <1>2 DEF Creating, Op
<1>4. OwnInv'
  BY <1>3, OwnStays DEF ScopesInv, scopeVars
<1>5. CreatingInv'
  <2> SUFFICES ASSUME NEW u \in Thread
               PROVE  /\ Creating(u)' => found'[u] < scopes_used' /\ (found'[u] < scopes_max \/ crashed')
                      /\ At(u, "body", "fill")' => scopes'[index_1(found'[u])] # Null
                      /\ At(u, "body", "publish")' =>
                            /\ scopes'[index_1(found'[u])] = Null
                            /\ entries'[<<index_1(found'[u]), u>>] = BlankBlock
    BY DEF CreatingInv
  <2>1. Creating(u)' => found'[u] < scopes_used' /\ (found'[u] < scopes_max \/ crashed')
    BY <1>3 DEF ScopesInv, CreatingInv, scopeVars
  <2>2. CASE u = t
    BY <1>1, <2>1, <2>2 DEF At, scopeVars
  <2>3. CASE u # t
    <3>1. \A s \in {"fill", "publish"} : At(u, "body", s)' = At(u, "body", s)
      BY <1>1, <1>2, <2>3 DEF At, Op
    <3> QED
      BY <1>1, <2>1, <3>1 DEF ScopesInv, CreatingInv, scopeVars
  <2> QED
    BY <2>2, <2>3
<1>6. ScopesType' /\ BlocksInv' /\ ScopesKept'
  BY DEF ScopesInv, ScopesType, BlocksInv, ScopesKept, getScope, scopeVars
<1> QED
  BY <1>4, <1>5, <1>6 DEF ScopesInv

\* A block that is made and not yet seen is the block of no place.
LEMMA MakesBlock ==
    ASSUME Core, ScopesInv, Running, NEW t \in Thread, Step(t), CreateBody(t), NewBlock(t)
    PROVE  ScopesInv'
<1> DEFINE i == index_1(found[t])
           b == <<i, t>>
<1>1. At(t, "body", "lock") /\ i \in Place /\ Creating(t)
  BY CreatingAt DEF NewBlock, Stage
<1>2. /\ UNCHANGED <<work, found, scopes_used, scopes, current_scopeId, created, crashed>>
      /\ scopes[i] = Null /\ entries' = [entries EXCEPT ![b] = BlankBlock] /\ stage'[t] = "publish"
  BY DEF NewBlock, Goto, Core, WorkType
<1>3. b \in Block /\ b[1] = i /\ b[2] = t
  BY <1>1 DEF Block
<1> HIDE DEF i, b
<1>4. /\ entries' = [c \in Block |-> entries'[c]] /\ entries'[b] = BlankBlock
      /\ \A c \in Block \ {b} : entries'[c] = entries[c]
  BY <1>2, <1>3 DEF ScopesInv, ScopesType
<1>5. \A j \in Place : scopes[j] # Null => scopes[j] \in Block /\ scopes[j] # b
  BY <1>2, <1>3 DEF ScopesInv, ScopesType, BlocksInv
<1>6. ScopesType'
  BY <1>2, <1>4 DEF ScopesInv, ScopesType
<1>7. BlocksInv'
  BY <1>2, <1>4, <1>5 DEF ScopesInv, BlocksInv
<1>8. ScopesKept'
  <2>1. \A id \in DOMAIN created : index_1(id) \in Place
    BY PlaceOf, ScopesAssumption DEF ScopesInv, ScopesType, scopes_max
  <2>2. \A id \in DOMAIN created : created[id] # Null => getScope(id)' = getScope(id)
    BY <1>2, <1>4, <1>5, <2>1 DEF getScope, ScopesInv, ScopesKept
  <2> QED
    BY <1>2, <2>2 DEF ScopesInv, ScopesKept
<1>9. \A u \in Thread : Creating(u)' => Creating(u) /\ UNCHANGED found[u]
  BY <1>1, <1>2, OthersStand DEF Creating, Op
<1>10. OwnInv'
  BY <1>2, <1>9, OwnStays DEF ScopesInv
<1>11. CreatingInv'
  <2> SUFFICES ASSUME NEW u \in Thread
               PROVE  /\ Creating(u)' => found'[u] < scopes_used' /\ (found'[u] < scopes_max \/ crashed')
                      /\ At(u, "body", "fill")' => scopes'[index_1(found'[u])] # Null
                      /\ At(u, "body", "publish")' =>
                            /\ scopes'[index_1(found'[u])] = Null
                            /\ entries'[<<index_1(found'[u]), u>>] = BlankBlock
    BY DEF CreatingInv
  <2>1. Creating(u)' => found'[u] < scopes_used' /\ (found'[u] < scopes_max \/ crashed')
    BY <1>2, <1>9 DEF ScopesInv, CreatingInv
  <2>2. CASE u = t
    BY <1>2, <1>4, <2>1, <2>2 DEF At, i, b
  <2>3. CASE u # t
    <3>1. \A s \in {"fill", "publish"} : At(u, "body", s)' = At(u, "body", s)
      BY <2>3, OthersStand DEF Stage
    <3>2. At(u, "body", "publish") => <<index_1(found[u]), u>> \in Block /\ <<index_1(found[u]), u>> # b
      BY <1>3, <2>3, CreatingAt DEF Block, Stage
    <3> QED
      BY <1>2, <1>4, <2>1, <3>1, <3>2 DEF ScopesInv, CreatingInv
  <2> QED
    BY <2>2, <2>3
<1> QED
  BY <1>6, <1>7, <1>8, <1>10, <1>11 DEF ScopesInv

\* A block that is published, in the only section of scopes_lock.
LEMMA PublishesBlock ==
    ASSUME Core, ScopesInv, Running, NEW t \in Thread, Step(t), CreateBody(t), PublishBlock(t)
    PROVE  ScopesInv'
<1> DEFINE i == index_1(found[t])
           b == <<i, t>>
<1>1. At(t, "body", "publish") /\ i \in Place /\ Creating(t)
  BY CreatingAt DEF PublishBlock, Stage
<1>2. /\ UNCHANGED <<work, found, scopes_used, entries, current_scopeId, created, crashed>>
      /\ scopes[i] = Null /\ entries[b] = BlankBlock
      /\ scopes' = [scopes EXCEPT ![i] = b] /\ stage'[t] = "fill"
  BY <1>1 DEF PublishBlock, Goto, Core, WorkType, ScopesInv, CreatingInv
<1>3. b \in Block /\ b[1] = i /\ b # Null /\ BlankBlock \in Row
  BY <1>1, ScopesAssumption DEF Block, Row, BlankBlock
<1> HIDE DEF i, b
<1>4. /\ scopes' \in [Place -> Block \cup {Null}] /\ scopes'[i] = b
      /\ \A j \in Place \ {i} : scopes'[j] = scopes[j]
  BY <1>1, <1>2, <1>3 DEF ScopesInv, ScopesType
<1>5. ScopesType'
  BY <1>2, <1>4 DEF ScopesInv, ScopesType
<1>6. BlocksInv'
  BY <1>2, <1>3, <1>4 DEF ScopesInv, BlocksInv
<1>7. ScopesKept'
  <2>1. \A id \in DOMAIN created : index_1(id) \in Place
    BY PlaceOf, ScopesAssumption DEF ScopesInv, ScopesType, scopes_max
  <2>2. \A id \in DOMAIN created : created[id] # Null => scopes'[index_1(id)] = scopes[index_1(id)]
    BY <1>2, <1>4, <2>1 DEF ScopesInv, ScopesKept
  <2>3. \A id \in DOMAIN created : created[id] # Null => getScope(id)' = getScope(id)
    BY <1>2, <2>2 DEF getScope
  <2> QED
    BY <1>2, <2>2, <2>3 DEF ScopesInv, ScopesKept
<1>8. \A u \in Thread : Creating(u)' => Creating(u) /\ UNCHANGED found[u]
  BY <1>1, <1>2, OthersStand DEF Creating, Op
<1>9. OwnInv'
  BY <1>2, <1>8, OwnStays DEF ScopesInv
<1>10. CreatingInv'
  <2> SUFFICES ASSUME NEW u \in Thread
               PROVE  /\ Creating(u)' => found'[u] < scopes_used' /\ (found'[u] < scopes_max \/ crashed')
                      /\ At(u, "body", "fill")' => scopes'[index_1(found'[u])] # Null
                      /\ At(u, "body", "publish")' =>
                            /\ scopes'[index_1(found'[u])] = Null
                            /\ entries'[<<index_1(found'[u]), u>>] = BlankBlock
    BY DEF CreatingInv
  <2>1. Creating(u)' => found'[u] < scopes_used' /\ (found'[u] < scopes_max \/ crashed')
    BY <1>2, <1>8 DEF ScopesInv, CreatingInv
  <2>2. CASE u = t
    BY <1>2, <1>3, <1>4, <2>1, <2>2 DEF At, i
  <2>3. CASE u # t
    <3>1. \A s \in {"fill", "publish"} : At(u, "body", s)' = At(u, "body", s)
      BY <2>3, OthersStand DEF Stage
    <3>2. ~At(u, "body", "publish")
      BY <1>1, <2>3, OneInside, WorkAssumption DEF Core, SectionInv, Section
    <3>3. At(u, "body", "fill") => index_1(found[u]) \in Place /\ scopes[index_1(found[u])] # Null
      BY CreatingAt DEF ScopesInv, CreatingInv, Stage
    <3> QED
      BY <1>2, <1>3, <1>4, <2>1, <3>1, <3>2, <3>3
  <2> QED
    BY <2>2, <2>3
<1> QED
  BY <1>5, <1>6, <1>7, <1>9, <1>10 DEF ScopesInv

\* A scope that is filled: no other id has its place and index.
LEMMA FillsScope ==
    ASSUME Core, ScopesInv, Running, NEW t \in Thread, Step(t), CreateBody(t), FillScope(t)
    PROVE  ScopesInv'
<1> DEFINE id == found[t]
           i  == index_1(id)
           j  == index_2(id)
           b  == scopes[i]
           e  == [scopeId |-> id, parent |-> current_scopeId[t]]
<1>1. /\ At(t, "body", "fill") /\ Creating(t) /\ id \in Nat /\ id < scopes_max /\ id < scopes_used
      /\ i \in Place /\ j \in Index
  BY CreatingAt DEF FillScope, Stage
<1>2. /\ UNCHANGED <<found, scopes_used, scopes, crashed>> /\ stage'[t] = "begin"
      /\ entries' = [entries EXCEPT ![b][j] = e]
      /\ created' = [created EXCEPT ![id] = current_scopeId[t]]
      /\ current_scopeId' = [current_scopeId EXCEPT ![t] = id]
  BY <1>1 DEF FillScope, Finish, Core, WorkType
<1>3. b \in Block /\ b # Null /\ b[1] = i /\ entries[b] \in Row
  BY <1>1 DEF ScopesInv, ScopesType, CreatingInv, BlocksInv
<1>4. current_scopeId[t] \in Nat /\ e \in [scopeId : Nat, parent : Nat]
  BY <1>1 DEF ScopesInv, ScopesType
<1>5. id \in DOMAIN created /\ created' \in [0 .. scopes_max - 1 -> Nat \cup {Null}]
  BY <1>1, <1>2, <1>4, ScopesAssumption DEF ScopesInv, ScopesType, scopes_max
<1> HIDE DEF id, i, j, b, e
<1>6. /\ entries' = [c \in Block |-> entries'[c]] /\ entries'[b] = [entries[b] EXCEPT ![j] = e]
      /\ \A c \in Block \ {b} : entries'[c] = entries[c]
  BY <1>2, <1>3 DEF ScopesInv, ScopesType
<1>7. /\ entries'[b] \in Row /\ entries'[b][j] = e
      /\ \A k \in Index \ {j} : entries'[b][k] = entries[b][k]
  <2> DEFINE T == [scopeId : Nat, parent : Nat] \cup {Null}
             row == entries[b]
             new == entries'[b]
  <2>1. row \in [Index -> T] /\ new = [row EXCEPT ![j] = e] /\ j \in Index /\ e \in T
    BY <1>1, <1>3, <1>4, <1>6 DEF Row
  <2> HIDE DEF T, row, new
  <2>2. new \in [Index -> T] /\ new[j] = e /\ \A k \in Index \ {j} : new[k] = row[k]
    BY <2>1
  <2> QED
    BY <2>2 DEF Row, T, row, new
<1>8. ScopesType'
  BY <1>1, <1>2, <1>5, <1>6 DEF ScopesInv, ScopesType
<1>9. BlocksInv'
  <2>1. ASSUME NEW p \in Place, scopes[p] # Null
        PROVE  scopes[p][1] = p /\ entries'[scopes[p]] \in Row
    <3>1. scopes[p] \in Block /\ scopes[p][1] = p /\ entries[scopes[p]] \in Row
      BY <2>1 DEF ScopesInv, ScopesType, BlocksInv
    <3>2. CASE scopes[p] = b
      BY <1>7, <3>1, <3>2
    <3>3. CASE scopes[p] # b
      BY <1>6, <3>1, <3>3
    <3> QED
      BY <3>1, <3>2, <3>3
  <2> QED
    BY <1>2, <2>1 DEF BlocksInv
<1>10. ASSUME NEW u \in Thread, u # t, current_scopeId[u] = id
       PROVE  id = GLOBAL_SCOPE
  BY <1>1, <1>10 DEF ScopesInv, OwnInv, Own, id
<1>11. ScopesKept'
  <2>1. ASSUME NEW o \in DOMAIN created, o # id
        PROVE  /\ o \in Nat /\ index_1(o) \in Place /\ index_2(o) \in Index
               /\ ~(index_1(o) = i /\ index_2(o) = j)
    <3>1. o \in Nat /\ o < scopes_max
      BY <2>1, ScopesAssumption DEF ScopesInv, ScopesType, scopes_max
    <3> QED
      BY <1>1, <2>1, <3>1, PlaceOf, DivMod, PlacesApart DEF i, j
  <2>2. ASSUME NEW o \in DOMAIN created, o # id, created[o] # Null
        PROVE  getScope(o)' = getScope(o)
    <3>1. scopes[index_1(o)] \in Block /\ (scopes[index_1(o)] = b => index_1(o) = i)
      BY <1>3, <2>1, <2>2 DEF ScopesInv, ScopesType, BlocksInv, ScopesKept
    <3> QED
      BY <1>2, <1>6, <1>7, <2>1, <2>2, <3>1 DEF getScope
  <2>3. /\ entries'[scopes'[index_1(id)]][index_2(id)] = e /\ scopes'[index_1(id)] # Null
        /\ created'[id] = current_scopeId[t]
    BY <1>2, <1>3, <1>5, <1>7 DEF i, j, b, ScopesInv, ScopesType
  <2>4. \A o \in DOMAIN created : o # id => created'[o] = created[o]
    BY <1>2
  <2>5. DOMAIN created' = DOMAIN created
    BY <1>2
  <2>6. ASSUME NEW o \in DOMAIN created, created'[o] # Null
        PROVE  scopes'[index_1(o)] # Null /\ getScope(o)' = [scopeId |-> o, parent |-> created'[o]]
    <3>1. CASE o = id
      BY <2>3, <3>1 DEF e, getScope
    <3>2. CASE o # id
      BY <1>2, <2>2, <2>4, <2>6, <3>2 DEF ScopesInv, ScopesKept
    <3> QED
      BY <3>1, <3>2
  <2>7. \A u, v \in Thread : u # v /\ current_scopeId'[u] = current_scopeId'[v] =>
            current_scopeId'[u] = GLOBAL_SCOPE
    BY <1>2, <1>10 DEF ScopesInv, ScopesType, ScopesKept
  <2> QED
    BY <2>5, <2>6, <2>7 DEF ScopesKept
<1>12. ~Creating(t)' /\ current_scopeId'[t] = id
  BY <1>2 DEF Creating, ScopesInv, ScopesType
<1>13. OwnInv'
  <2>1. Own(t)' \subseteq Own(t)
    BY <1>1, <1>12 DEF Own, id
  <2>2. \A u \in Thread : u # t => Own(u)' \subseteq Own(u)
    BY <1>2, OthersStand DEF Own, ScopesInv, ScopesType
  <2> QED
    BY <1>2, <2>1, <2>2 DEF ScopesInv, OwnInv
<1>14. CreatingInv'
  <2> SUFFICES ASSUME NEW u \in Thread
               PROVE  /\ Creating(u)' => found'[u] < scopes_used' /\ (found'[u] < scopes_max \/ crashed')
                      /\ At(u, "body", "fill")' => scopes'[index_1(found'[u])] # Null
                      /\ At(u, "body", "publish")' =>
                            /\ scopes'[index_1(found'[u])] = Null
                            /\ entries'[<<index_1(found'[u]), u>>] = BlankBlock
    BY DEF CreatingInv
  <2>1. CASE u = t
    BY <1>2, <1>12, <2>1 DEF At
  <2>2. CASE u # t
    <3>1. Creating(u)' = Creating(u) /\ \A s \in {"fill", "publish"} : At(u, "body", s)' = At(u, "body", s)
      BY <2>2, OthersStand DEF Stage
    <3>2. At(u, "body", "publish") => LET c == <<index_1(found[u]), u>> IN c \in Block /\ c # b
      <4> SUFFICES ASSUME At(u, "body", "publish")
                   PROVE  <<index_1(found[u]), u>> \in Block /\ <<index_1(found[u]), u>> # b
        OBVIOUS
      <4>1. index_1(found[u]) \in Place /\ scopes[index_1(found[u])] = Null
        BY CreatingAt DEF Stage, ScopesInv, CreatingInv
      <4> QED
        BY <1>3, <4>1 DEF Block, b
    <3> QED
      BY <1>2, <1>6, <3>1, <3>2 DEF ScopesInv, CreatingInv
  <2> QED
    BY <2>1, <2>2
<1> QED
  BY <1>8, <1>9, <1>11, <1>13, <1>14 DEF ScopesInv

LEMMA ScopesInvKept == Core /\ ScopesInv /\ [Next]_vars => ScopesInv'
<1> SUFFICES ASSUME Core, ScopesInv, [Next]_vars PROVE ScopesInv'
  OBVIOUS
<1>1. ASSUME Running, NEW t \in Thread, Step(t), CreateBody(t)
      PROVE  ScopesInv'
  <2>1. CASE CheckBlock(t) \/ LockScopes(t) \/ BlockExists(t)
    BY <1>1, <2>1, BlockLooked DEF CheckBlock, LockScopes, BlockExists
  <2> QED
    BY <1>1, <2>1, TakesScopeId, MakesBlock, PublishesBlock, FillsScope DEF CreateBody
<1>2. ASSUME Running, NEW t \in Thread, Step(t), ~CreateBody(t)
      PROVE  ScopesInv'
  <2>1. UNCHANGED scopeVars
    BY <1>2 DEF Step
  <2> QED
    BY <1>2, <2>1, ContainerAside, ScopesAside
<1>3. CASE Linking \/ UNCHANGED vars
  <2>1. UNCHANGED <<workVars, scopeVars>>
    BY <1>3 DEF Linking, Link, vars
  <2> QED
    BY <2>1, ScopesAside DEF workVars
<1> QED
  BY <1>1, <1>2, <1>3 DEF Next, Stopped

\* Every scope stays where createScope has put it, and belongs to one thread
\* (AST.h:418-425).
THEOREM ScopesAreKept == Spec => []ScopesKept
<1>1. Core /\ ScopesInv => ScopesKept
  BY DEF ScopesInv
<1> QED
  BY <1>1, ScopesStart, ScopesInvKept, CoreHolds, PTL DEF Spec

-----------------------------------------------------------------------------
(* Links *)

\* A piece has the number that its function has for it, and every function of a piece has one.
PiecesInv ==
    /\ \A f \in Function : piece_code_index[f] # NoPiece =>
        piece_code_index[f] \in 0 .. Len(pieces) - 1 /\ pieces[piece_code_index[f] + 1] = f
    /\ \A k \in DOMAIN pieces : piece_code_index[pieces[k]] # NoPiece

\* A function has a piece or will get one.
Promised(f) == piece_code_index[f] # NoPiece \/ Generated(work, f)

Pending(op) == \E t \in Thread : \E k \in DOMAIN work[t] : work[t][k] = op
Emitted(f, op) == \E i \in DOMAIN emitted[f] : emitted[f][i] = op

PromisesInv ==
    /\ \A op \in Operation : Pending(op) => (op.op \in {"string", "call"} => Promised(op.in))
    /\ \A f \in Function : \A op \in Operation : Emitted(f, op) => Promised(f)

\* The immediates of calls are those that have a relocation.
RelocationsInv ==
    \A f \in Function :
        /\ Len(immediates[f]) = Len(emitted[f])
        /\ \A i \in DOMAIN emitted[f] :
                /\ emitted[f][i].op \in {"string", "call"}
                /\ emitted[f][i].op = "call" => \E r \in DOMAIN relocations[f] : relocations[f][r][2] = i
        /\ \A r \in DOMAIN relocations[f] :
                LET callee == relocations[f][r][1]
                    i      == relocations[f][r][2]
                IN  i \in DOMAIN emitted[f] /\ emitted[f][i].op = "call" /\ emitted[f][i].callee = callee

StringsLinked ==
    \A f \in Function : \A i \in DOMAIN emitted[f] :
        emitted[f][i].op = "string" => immediates[f][i] \in Nat /\ StoredAt(immediates[f][i], emitted[f][i].str)

LinksInv ==
    /\ PiecesInv /\ PromisesInv /\ RelocationsInv /\ StringsLinked
    /\ linked => AllDone
    /\ LinksResolve

\* A step that finishes an operation takes it from the work; a function is finished
\* with its piece.
LEMMA WorkLeft ==
    ASSUME Core, NEW t \in Thread, Step(t), work' # work
    PROVE  /\ work[t] # << >> /\ work' = [work EXCEPT ![t] = Tail(@)]
           /\ Op(t).op = "function" => PushPiece(t)
<1>1. CASE Container(t)
  BY <1>1 DEF Container, LockGeneral, NumberPiece, PushPiece, KnownString, NewString, TakeOffset,
              StoreData, Storing, InsertString, EmitCall, Finish, Goto, At, workVars
<1>2. CASE CreateBody(t)
  BY <1>2 DEF CreateBody, TakeScopeId, CheckBlock, LockScopes, BlockExists, NewBlock,
              PublishBlock, FillScope, Finish, Goto, At, workVars
<1>3. CASE Enter(t)
  BY <1>3 DEF Enter, workVars
<1> QED
  BY <1>1, <1>2, <1>3 DEF Step

\* The number that a piece gets.
LEMMA PieceNumbered ==
    ASSUME Core, NEW t \in Thread, PushPiece(t)
    PROVE  /\ Op(t).in \in Function /\ found[t] = Len(pieces) /\ Len(pieces) \in Nat
           /\ pieces' = Append(pieces, Op(t).in)
           /\ piece_code_index' = [piece_code_index EXCEPT ![Op(t).in] = Len(pieces)]
<1>1. work[t] # << >> /\ Op(t).op = "function" /\ found[t] = Len(pieces)
  BY DEF PushPiece, At, Core, SectionInv, Section
<1> QED
  BY <1>1, OpType DEF PushPiece, Core, ContainerType

LEMMA IndexKept ==
    ASSUME Core, NEW t \in Thread, Step(t), ~PushPiece(t)
    PROVE  UNCHANGED <<pieces, piece_code_index>>
  BY DEF Step, Container, LockGeneral, NumberPiece, KnownString, NewString, TakeOffset,
         StoreData, InsertString, EmitCall, containerVars

LEMMA PromiseKept ==
    ASSUME Core, NEW t \in Thread, Step(t), NEW f \in Function, Promised(f)
    PROVE  Promised(f)'
<1>1. CASE PushPiece(t) /\ Op(t).in = f
  BY <1>1, PieceNumbered DEF Promised, NoPiece, Core, ContainerType
<1>2. CASE ~(PushPiece(t) /\ Op(t).in = f)
  <2>1. piece_code_index'[f] = piece_code_index[f]
    BY <1>2, PieceNumbered, IndexKept DEF Core, ContainerType
  <2>2. ASSUME NEW u \in Thread, NEW k \in DOMAIN work[u], work[u][k].op = "function", work[u][k].in = f
        PROVE  Generated(work, f)'
    <3>1. CASE work'[u] = work[u]
      BY <2>2, <3>1 DEF Generated
    <3>2. CASE work'[u] # work[u]
      <4>1. u = t /\ work[t] # << >> /\ work'[t] = Tail(work[t]) /\ work[t] \in Seq(Operation)
        BY <3>2, WorkLeft DEF Core, WorkType
      <4>2. k # 1
        BY <1>2, <2>2, <3>2, <4>1, WorkLeft DEF Op
      <4>3. k - 1 \in DOMAIN work'[t] /\ work'[t][k - 1] = work[t][k]
        BY <2>2, <4>1, <4>2
      <4> QED
        BY <2>2, <4>1, <4>3 DEF Generated
    <3> QED
      BY <3>1, <3>2
  <2>3. Generated(work, f) => Generated(work, f)'
    BY <2>2 DEF Generated
  <2> QED
    BY <2>1, <2>3 DEF Promised
<1> QED
  BY <1>1, <1>2

LEMMA PiecesKept ==
    ASSUME Core, PiecesInv, NEW t \in Thread, Step(t)
    PROVE  PiecesInv'
<1>1. CASE PushPiece(t)
  <2> DEFINE g == Op(t).in
  <2>1. /\ g \in Function /\ Len(pieces) \in Nat /\ pieces \in Seq(Function)
        /\ pieces' = Append(pieces, g)
        /\ piece_code_index' = [piece_code_index EXCEPT ![g] = Len(pieces)]
    BY <1>1, PieceNumbered DEF Core, ContainerType
  <2> HIDE DEF g
  <2>2. /\ Len(pieces') = Len(pieces) + 1 /\ pieces'[Len(pieces) + 1] = g
        /\ \A i \in 1 .. Len(pieces) : pieces'[i] = pieces[i]
    BY <2>1
  <2>3. \A f \in Function : piece_code_index'[f] = IF f = g THEN Len(pieces) ELSE piece_code_index[f]
    BY <2>1 DEF Core, ContainerType
  <2>4. \A f \in Function : piece_code_index'[f] # NoPiece =>
            piece_code_index'[f] \in 0 .. Len(pieces') - 1 /\ pieces'[piece_code_index'[f] + 1] = f
    BY <2>1, <2>2, <2>3 DEF PiecesInv
  <2>5. ASSUME NEW k \in DOMAIN pieces'
        PROVE  piece_code_index'[pieces'[k]] # NoPiece
    <3>1. CASE k = Len(pieces) + 1
      BY <2>1, <2>2, <2>3, <3>1 DEF NoPiece
    <3>2. CASE k # Len(pieces) + 1
      <4>1. k \in DOMAIN pieces /\ pieces[k] \in Function /\ pieces'[k] = pieces[k]
        BY <2>1, <2>2, <3>2
      <4> QED
        BY <2>1, <2>3, <4>1 DEF PiecesInv, NoPiece
    <3> QED
      BY <3>1, <3>2
  <2> QED
    BY <2>4, <2>5 DEF PiecesInv
<1> QED
  BY <1>1, IndexKept DEF PiecesInv

\* The steps that emit an immediate: that of a string is where the string is.
LEMMA Emits ==
    ASSUME Core, StringsInv, NEW t \in Thread, Step(t)
    PROVE  \/ UNCHANGED <<immediates, emitted, relocations>>
           \/ /\ work[t] # << >> /\ Op(t).op = "string" /\ UNCHANGED <<relocations, global_data, global_data_size>>
              /\ \E n \in Nat : EmitImmediate(Op(t), n) /\ StoredAt(n, Op(t).str)
           \/ EmitCall(t)
<1>1. CASE KnownString(t)
  <2>1. work[t] # << >> /\ Op(t).op = "string" /\ Op(t).str \in Str
    BY <1>1, OpType DEF KnownString, At, Core
  <2>2. string_map[Op(t).str] \in Nat /\ StoredAt(string_map[Op(t).str], Op(t).str)
    BY <1>1, <2>1 DEF KnownString, Core, ContainerType, StringsInv
  <2> QED
    BY <1>1, <2>1, <2>2 DEF KnownString
<1>2. CASE InsertString(t)
  <2>1. work[t] # << >> /\ Op(t).op = "string" /\ found[t] \in Nat /\ StoredAt(found[t], Op(t).str)
    BY <1>2 DEF InsertString, At, Core, WorkType, StringsInv
  <2> QED
    BY <1>2, <2>1 DEF InsertString
<1>3. CASE ~KnownString(t) /\ ~InsertString(t) /\ ~EmitCall(t)
  BY <1>3 DEF Step, Container, LockGeneral, NumberPiece, PushPiece, NewString, TakeOffset,
              StoreData, containerVars
<1> QED
  BY <1>1, <1>2, <1>3

\* What one more immediate is.
LEMMA EmitType ==
    ASSUME ContainerType, NEW op \in Operation, op.in \in Function, NEW n \in Int, EmitImmediate(op, n)
    PROVE  /\ \A f \in Function : f # op.in => immediates'[f] = immediates[f] /\ emitted'[f] = emitted[f]
           /\ immediates'[op.in] = Append(immediates[op.in], n)
           /\ emitted'[op.in] = Append(emitted[op.in], op)
  BY DEF ContainerType, EmitImmediate

LEMMA RelocationsKept ==
    ASSUME Core, StringsInv, RelocationsInv, NEW t \in Thread, Step(t)
    PROVE  RelocationsInv'
<1> DEFINE op == Op(t)
           g  == op.in
<1>1. CASE UNCHANGED <<immediates, emitted, relocations>>
  BY <1>1 DEF RelocationsInv
<1>2. ASSUME work[t] # << >>, op.op = "string", UNCHANGED relocations,
             NEW n \in Nat, EmitImmediate(op, n)
      PROVE  RelocationsInv'
  <2>1. op \in Operation /\ g \in Function
    BY <1>2, OpType DEF Core
  <2>2. /\ \A f \in Function : f # g => immediates'[f] = immediates[f] /\ emitted'[f] = emitted[f]
        /\ immediates'[g] = Append(immediates[g], n) /\ emitted'[g] = Append(emitted[g], op)
    BY <1>2, <2>1, EmitType DEF Core
  <2>3. immediates[g] \in Seq(Int) /\ emitted[g] \in Seq(Operation) /\ relocations[g] \in Seq(Function \X Nat)
    BY <2>1 DEF Core, ContainerType
  <2>4. relocations' = relocations
    BY <1>2
  <2> HIDE DEF op, g
  <2>5. Len(immediates'[g]) = Len(emitted'[g])
    BY <2>1, <2>2, <2>3 DEF RelocationsInv
  <2>6. ASSUME NEW i \in DOMAIN emitted'[g]
        PROVE  /\ emitted'[g][i].op \in {"string", "call"}
               /\ emitted'[g][i].op = "call" => \E r \in DOMAIN relocations[g] : relocations[g][r][2] = i
    <3>1. CASE i = Len(emitted[g]) + 1
      BY <1>2, <2>2, <2>3, <3>1 DEF op
    <3>2. CASE i # Len(emitted[g]) + 1
      <4>1. i \in DOMAIN emitted[g] /\ emitted'[g][i] = emitted[g][i]
        BY <2>2, <2>3, <2>6, <3>2
      <4> QED
        BY <2>1, <4>1 DEF RelocationsInv
    <3> QED
      BY <3>1, <3>2
  <2>7. \A i \in DOMAIN emitted[g] : i \in DOMAIN emitted'[g] /\ emitted'[g][i] = emitted[g][i]
    BY <2>2, <2>3
  <2>8. \A r \in DOMAIN relocations[g] :
            /\ relocations[g][r][2] \in DOMAIN emitted'[g]
            /\ emitted'[g][relocations[g][r][2]].op = "call"
            /\ emitted'[g][relocations[g][r][2]].callee = relocations[g][r][1]
    BY <2>1, <2>7 DEF RelocationsInv
  <2>9. ASSUME NEW f \in Function, f # g
        PROVE  /\ Len(immediates'[f]) = Len(emitted'[f])
               /\ \A i \in DOMAIN emitted'[f] :
                    /\ emitted'[f][i].op \in {"string", "call"}
                    /\ emitted'[f][i].op = "call" => \E r \in DOMAIN relocations[f] : relocations[f][r][2] = i
               /\ \A r \in DOMAIN relocations[f] :
                    /\ relocations[f][r][2] \in DOMAIN emitted'[f]
                    /\ emitted'[f][relocations[f][r][2]].op = "call"
                    /\ emitted'[f][relocations[f][r][2]].callee = relocations[f][r][1]
    BY <2>2, <2>9 DEF RelocationsInv
  <2> QED
    BY <2>4, <2>5, <2>6, <2>8, <2>9 DEF RelocationsInv
<1>3. CASE EmitCall(t)
  <2> DEFINE m == Len(immediates[g]) + 1
  <2>1. op \in Operation /\ g \in Function /\ op.op = "call" /\ op.callee \in Function /\ EmitImmediate(op, 0)
    BY <1>3, OpType DEF EmitCall, At, Core
  <2>2. /\ \A f \in Function : f # g => immediates'[f] = immediates[f] /\ emitted'[f] = emitted[f]
        /\ immediates'[g] = Append(immediates[g], 0) /\ emitted'[g] = Append(emitted[g], op)
    BY <2>1, EmitType DEF Core
  <2>3. immediates[g] \in Seq(Int) /\ emitted[g] \in Seq(Operation) /\ relocations[g] \in Seq(Function \X Nat)
    BY <2>1 DEF Core, ContainerType
  <2>4. /\ \A f \in Function : f # g => relocations'[f] = relocations[f]
        /\ relocations'[g] = Append(relocations[g], <<op.callee, m>>)
    BY <1>3, <2>1 DEF EmitCall, Core, ContainerType
  <2>5. m = Len(emitted[g]) + 1 /\ m \in Nat
    BY <2>1, <2>3 DEF RelocationsInv
  <2> HIDE DEF op, g, m
  <2>6. ASSUME NEW f \in Function, f # g
        PROVE  /\ Len(immediates'[f]) = Len(emitted'[f])
               /\ \A i \in DOMAIN emitted'[f] :
                    /\ emitted'[f][i].op \in {"string", "call"}
                    /\ emitted'[f][i].op = "call" => \E r \in DOMAIN relocations'[f] : relocations'[f][r][2] = i
               /\ \A r \in DOMAIN relocations'[f] :
                    /\ relocations'[f][r][2] \in DOMAIN emitted'[f]
                    /\ emitted'[f][relocations'[f][r][2]].op = "call"
                    /\ emitted'[f][relocations'[f][r][2]].callee = relocations'[f][r][1]
    <3>1. immediates'[f] = immediates[f] /\ emitted'[f] = emitted[f] /\ relocations'[f] = relocations[f]
      BY <2>2, <2>4, <2>6
    <3> QED
      BY <3>1 DEF RelocationsInv
  <2>7. Len(immediates'[g]) = Len(emitted'[g])
    BY <2>1, <2>2, <2>3 DEF RelocationsInv
  <2>8. ASSUME NEW i \in DOMAIN emitted'[g]
        PROVE  /\ emitted'[g][i].op \in {"string", "call"}
               /\ emitted'[g][i].op = "call" => \E r \in DOMAIN relocations'[g] : relocations'[g][r][2] = i
    <3>1. CASE i = m
      <4>1. Len(relocations[g]) + 1 \in DOMAIN relocations'[g]
            /\ relocations'[g][Len(relocations[g]) + 1] = <<op.callee, m>>
        BY <2>3, <2>4
      <4> QED
        BY <2>1, <2>2, <2>3, <2>5, <3>1, <4>1
    <3>2. CASE i # m
      <4>1. i \in DOMAIN emitted[g] /\ emitted'[g][i] = emitted[g][i]
        BY <2>2, <2>3, <2>5, <2>8, <3>2
      <4>2. \A r \in DOMAIN relocations[g] : r \in DOMAIN relocations'[g] /\ relocations'[g][r] = relocations[g][r]
        BY <2>3, <2>4
      <4> QED
        BY <2>1, <4>1, <4>2 DEF RelocationsInv
    <3> QED
      BY <3>1, <3>2
  <2>9. ASSUME NEW r \in DOMAIN relocations'[g]
        PROVE  /\ relocations'[g][r][2] \in DOMAIN emitted'[g]
               /\ emitted'[g][relocations'[g][r][2]].op = "call"
               /\ emitted'[g][relocations'[g][r][2]].callee = relocations'[g][r][1]
    <3>1. CASE r = Len(relocations[g]) + 1
      <4>1. relocations'[g][r] = <<op.callee, m>>
        BY <2>3, <2>4, <3>1
      <4>2. m \in DOMAIN emitted'[g] /\ emitted'[g][m] = op
        BY <2>2, <2>3, <2>5
      <4> QED
        BY <2>1, <4>1, <4>2
    <3>2. CASE r # Len(relocations[g]) + 1
      <4>1. r \in DOMAIN relocations[g] /\ relocations'[g][r] = relocations[g][r]
        BY <2>3, <2>4, <2>9, <3>2
      <4>2. \A i \in DOMAIN emitted[g] : i \in DOMAIN emitted'[g] /\ emitted'[g][i] = emitted[g][i]
        BY <2>2, <2>3
      <4> QED
        BY <2>1, <4>1, <4>2 DEF RelocationsInv
    <3> QED
      BY <3>1, <3>2
  <2> QED
    BY <2>6, <2>7, <2>8, <2>9 DEF RelocationsInv
<1> QED
  BY <1>1, <1>2, <1>3, Emits

\* An operation that is pending was pending before; one that is emitted was pending.
LEMMA PendingKept ==
    ASSUME Core, NEW t \in Thread, Step(t), NEW op \in Operation, Pending(op)'
    PROVE  Pending(op)
<1>1. PICK u \in Thread : \E k \in DOMAIN work'[u] : work'[u][k] = op
  BY DEF Pending
<1>2. PICK k \in DOMAIN work'[u] : work'[u][k] = op
  BY <1>1
<1>3. CASE work'[u] = work[u]
  BY <1>2, <1>3 DEF Pending
<1>4. CASE work'[u] # work[u]
  <2>1. u = t /\ work[t] # << >> /\ work'[t] = Tail(work[t]) /\ work[t] \in Seq(Operation)
    BY <1>4, WorkLeft DEF Core, WorkType
  <2>2. k + 1 \in DOMAIN work[t] /\ work'[t][k] = work[t][k + 1]
    BY <1>2, <2>1
  <2> QED
    BY <1>2, <2>1, <2>2 DEF Pending
<1> QED
  BY <1>3, <1>4

LEMMA EmittedKept ==
    ASSUME Core, StringsInv, NEW t \in Thread, Step(t),
           NEW f \in Function, NEW op \in Operation, Emitted(f, op)'
    PROVE  Emitted(f, op) \/ (Pending(op) /\ op.in = f /\ op.op \in {"string", "call"})
<1>1. CASE UNCHANGED emitted
  BY <1>1 DEF Emitted
<1>2. ASSUME work[t] # << >>, Op(t).op \in {"string", "call"}, NEW n \in Int, EmitImmediate(Op(t), n)
      PROVE  Emitted(f, op) \/ (Pending(op) /\ op.in = f /\ op.op \in {"string", "call"})
  <2> DEFINE now == Op(t)
  <2>1. now \in Operation /\ now.in \in Function /\ Pending(now)
    <3>1. work[t] \in Seq(Operation) /\ 1 \in DOMAIN work[t] /\ now = work[t][1]
      BY <1>2 DEF Op, Core, WorkType
    <3> QED
      BY <1>2, <3>1, OpType DEF Core, Pending
  <2>2. /\ \A g \in Function : g # now.in => emitted'[g] = emitted[g]
        /\ emitted'[now.in] = Append(emitted[now.in], now)
    BY <1>2, <2>1, EmitType DEF Core
  <2>3. emitted[now.in] \in Seq(Operation) /\ now.op \in {"string", "call"}
    BY <1>2, <2>1 DEF Core, ContainerType
  <2>4. PICK i \in DOMAIN emitted'[f] : emitted'[f][i] = op
    BY DEF Emitted
  <2> HIDE DEF now
  <2>5. CASE f # now.in
    BY <2>2, <2>4, <2>5 DEF Emitted
  <2>6. CASE f = now.in /\ i = Len(emitted[f]) + 1
    BY <2>1, <2>2, <2>3, <2>4, <2>6
  <2>7. CASE f = now.in /\ i # Len(emitted[f]) + 1
    <3>1. i \in DOMAIN emitted[f] /\ emitted'[f][i] = emitted[f][i]
      BY <2>2, <2>3, <2>4, <2>7
    <3> QED
      BY <2>4, <3>1 DEF Emitted
  <2> QED
    BY <2>5, <2>6, <2>7
<1>3. CASE EmitCall(t)
  BY <1>2, <1>3 DEF EmitCall, At
<1> QED
  BY <1>1, <1>2, <1>3, Emits

LEMMA PromisesKept ==
    ASSUME Core, StringsInv, PromisesInv, NEW t \in Thread, Step(t)
    PROVE  PromisesInv'
<1>1. ASSUME NEW op \in Operation
      PROVE  op.op \in {"string", "call"} => op.in \in Function
  BY DEF Operation
<1>2. ASSUME NEW op \in Operation, Pending(op)'
      PROVE  op.op \in {"string", "call"} => Promised(op.in)'
  <2>1. Pending(op)
    BY <1>2, PendingKept
  <2> QED
    BY <1>1, <2>1, PromiseKept DEF PromisesInv
<1>3. ASSUME NEW f \in Function, NEW op \in Operation, Emitted(f, op)'
      PROVE  Promised(f)'
  <2>1. Emitted(f, op) \/ (Pending(op) /\ op.in = f /\ op.op \in {"string", "call"})
    BY <1>3, EmittedKept
  <2> QED
    BY <1>1, <2>1, PromiseKept DEF PromisesInv
<1> QED
  BY <1>2, <1>3 DEF PromisesInv

LEMMA StringsLinkedKept ==
    ASSUME Core, StringsInv, RelocationsInv, StringsLinked, NEW t \in Thread, Step(t)
    PROVE  StringsLinked'
<1>1. ASSUME NEW off \in Nat, NEW s \in Str, StoredAt(off, s)
      PROVE  StoredAt(off, s)'
  BY <1>1, DataGrows, StoredStays
<1>2. ASSUME NEW f \in Function, NEW i \in DOMAIN emitted[f], emitted[f][i].op = "string",
             UNCHANGED <<immediates[f][i], emitted[f][i]>>
      PROVE  (immediates[f][i] \in Nat /\ StoredAt(immediates[f][i], emitted[f][i].str))'
  <2>1. immediates[f][i] \in Nat /\ StoredAt(immediates[f][i], emitted[f][i].str)
    BY <1>2 DEF StringsLinked
  <2>2. emitted[f][i] \in Operation /\ emitted[f][i].str \in Str
    BY <1>2 DEF Core, ContainerType, Operation
  <2>3. PICK off \in Nat, s \in Str : off = immediates[f][i] /\ s = emitted[f][i].str
    BY <2>1, <2>2
  <2>4. StoredAt(off, s)'
    BY <1>1, <2>1, <2>3
  <2> QED
    BY <1>2, <2>3, <2>4 DEF StoredAt
<1>3. CASE UNCHANGED <<immediates, emitted, relocations>>
  BY <1>2, <1>3 DEF StringsLinked
<1>4. ASSUME NEW op \in Operation, op.in \in Function, NEW n \in Nat, EmitImmediate(op, n),
             op.op # "string" \/ StoredAt(n, op.str)'
      PROVE  StringsLinked'
  <2> DEFINE g == op.in
  <2>1. /\ \A f \in Function : f # g => immediates'[f] = immediates[f] /\ emitted'[f] = emitted[f]
        /\ immediates'[g] = Append(immediates[g], n) /\ emitted'[g] = Append(emitted[g], op)
    BY <1>4, EmitType DEF Core
  <2>2. immediates[g] \in Seq(Int) /\ emitted[g] \in Seq(Operation) /\ Len(immediates[g]) = Len(emitted[g])
    BY <1>4 DEF Core, ContainerType, RelocationsInv
  <2> HIDE DEF g
  <2> SUFFICES ASSUME NEW f \in Function, NEW i \in DOMAIN emitted'[f], emitted'[f][i].op = "string"
               PROVE  (immediates[f][i] \in Nat /\ StoredAt(immediates[f][i], emitted[f][i].str))'
    BY DEF StringsLinked
  <2>3. CASE f # g
    BY <1>2, <2>1, <2>3
  <2>4. CASE f = g /\ i = Len(emitted[g]) + 1
    <3>1. immediates'[f][i] = n /\ emitted'[f][i] = op
      BY <2>1, <2>2, <2>4
    <3> QED
      BY <1>4, <3>1 DEF StoredAt
  <2>5. CASE f = g /\ i # Len(emitted[g]) + 1
    <3>1. i \in 1 .. Len(emitted[f])
      <4>1. DOMAIN emitted'[f] = 1 .. Len(emitted[f]) + 1 /\ Len(emitted[f]) \in Nat
        BY <2>1, <2>2, <2>5
      <4> QED
        BY <2>5, <4>1
    <3>2. i \in DOMAIN emitted[f] /\ emitted'[f][i] = emitted[f][i]
      BY <2>1, <2>2, <2>5, <3>1
    <3>3. immediates'[f][i] = immediates[f][i]
      BY <2>1, <2>2, <2>5, <3>1
    <3> QED
      BY <1>2, <3>2, <3>3
  <2> QED
    BY <2>3, <2>4, <2>5
<1>5. CASE EmitCall(t)
  <2>1. Op(t) \in Operation /\ Op(t).in \in Function /\ Op(t).op = "call" /\ EmitImmediate(Op(t), 0)
    BY <1>5, OpType DEF EmitCall, At, Core
  <2>2. PICK op \in Operation : op = Op(t)
    BY <2>1
  <2> QED
    BY <1>4, <2>1, <2>2
<1>6. ASSUME work[t] # << >>, Op(t).op = "string", NEW n \in Nat,
             EmitImmediate(Op(t), n), StoredAt(n, Op(t).str)
      PROVE  StringsLinked'
  <2>1. Op(t) \in Operation /\ Op(t).in \in Function /\ Op(t).str \in Str
    BY <1>6, OpType DEF Core
  <2>2. PICK op \in Operation : op = Op(t)
    BY <2>1
  <2>3. StoredAt(n, op.str)'
    BY <1>1, <1>6, <2>1, <2>2
  <2> QED
    BY <1>4, <1>6, <2>1, <2>2, <2>3
<1> QED
  BY <1>3, <1>5, <1>6, Emits

\* What apply_relocations writes for a callee: its piece, or -1 when it has none.
LEMMA Numbered ==
    ASSUME Core, PiecesInv, NEW g \in Function
    PROVE  /\ HasPiece(g) => CodeIndex(g) \in DOMAIN pieces /\ pieces[CodeIndex(g)] = g
           /\ ~HasPiece(g) => CodeIndex(g) = NoPiece
<1>1. Len(pieces) \in Nat /\ DOMAIN pieces = 1 .. Len(pieces) /\ piece_code_index[g] \in Int
  BY DEF Core, ContainerType
<1>2. CASE piece_code_index[g] = NoPiece
  BY <1>2 DEF CodeIndex, HasPiece, PiecesInv, NoPiece
<1>3. CASE piece_code_index[g] # NoPiece
  <2>1. piece_code_index[g] \in 0 .. Len(pieces) - 1 /\ pieces[piece_code_index[g] + 1] = g
    BY <1>3 DEF PiecesInv
  <2>2. CodeIndex(g) = piece_code_index[g] + 1 /\ CodeIndex(g) \in DOMAIN pieces
    BY <1>1, <2>1 DEF CodeIndex
  <2> QED
    BY <2>1, <2>2 DEF HasPiece
<1> QED
  BY <1>2, <1>3

\* What apply_relocations makes of an immediate.
LEMMA Patches ==
    ASSUME Core, LinksInv, AllDone, NEW f \in Function, NEW i \in DOMAIN emitted[f]
    PROVE  /\ \E k \in DOMAIN pieces : pieces[k] = f
           /\ emitted[f][i].op = "call" => Resolves(emitted[f][i], Patched(f)[i])
           /\ emitted[f][i].op = "string" => Patched(f)[i] = immediates[f][i]
<1> DEFINE op   == emitted[f][i]
           here == {r \in DOMAIN relocations[f] : relocations[f][r][2] = i}
<1>1. Len(pieces) \in Nat /\ DOMAIN pieces = 1 .. Len(pieces)
  BY DEF Core, ContainerType
<1>2. op \in Operation /\ Emitted(f, op) /\ op.op \in {"string", "call"}
  BY DEF Core, ContainerType, Emitted, LinksInv, RelocationsInv
<1>3. Promised(f) /\ (op.op = "call" => op.callee \in Function)
  BY <1>2 DEF LinksInv, PromisesInv, Operation
<1>4. \E k \in DOMAIN pieces : pieces[k] = f
  <2>1. piece_code_index[f] # NoPiece
    BY <1>3 DEF Promised, Generated, AllDone
  <2>2. piece_code_index[f] \in 0 .. Len(pieces) - 1 /\ pieces[piece_code_index[f] + 1] = f
    BY <2>1 DEF LinksInv, PiecesInv
  <2> QED
    BY <1>1, <2>2
<1>5. i \in DOMAIN immediates[f]
  BY DEF LinksInv, RelocationsInv, Core, ContainerType
<1>6. Patched(f)[i] = IF here = {} THEN immediates[f][i]
                      ELSE CodeIndex(relocations[f][CHOOSE r \in here : TRUE][1])
  BY <1>5 DEF Patched
<1>7. \A r \in here : relocations[f][r][1] = op.callee /\ op.op = "call"
  BY DEF LinksInv, RelocationsInv
<1>8. op.op = "call" => here # {}
  BY DEF LinksInv, RelocationsInv
<1> HIDE DEF op, here
<1>9. CASE op.op = "call"
  <2>1. (CHOOSE r \in here : TRUE) \in here
    BY <1>8, <1>9
  <2>2. Patched(f)[i] = CodeIndex(op.callee)
    BY <1>6, <1>7, <1>8, <1>9, <2>1
  <2>3. PICK g \in Function : g = op.callee
    BY <1>3, <1>9
  <2>4. PiecesInv
    BY DEF LinksInv
  <2>5. CASE HasPiece(g)
    <3>1. CodeIndex(g) \in DOMAIN pieces /\ pieces[CodeIndex(g)] = g
      BY <2>4, <2>5, Numbered
    <3> QED
      BY <1>4, <1>9, <2>2, <2>3, <2>5, <3>1 DEF op, Resolves
  <2>6. CASE ~HasPiece(g)
    <3>1. CodeIndex(g) = NoPiece
      BY <2>4, <2>6, Numbered
    <3> QED
      BY <1>4, <1>9, <2>2, <2>3, <2>6, <3>1 DEF op, Resolves
  <2> QED
    BY <2>5, <2>6
<1>10. CASE op.op = "string"
  <2>1. here = {}
    BY <1>7, <1>10
  <2> QED
    BY <1>4, <1>6, <1>10, <2>1 DEF op
<1> QED
  BY <1>2, <1>9, <1>10

LEMMA PromisesAside ==
    ASSUME PromisesInv, UNCHANGED <<work, piece_code_index, emitted>>
    PROVE  PromisesInv'
<1>1. \A f : Promised(f)' = Promised(f)
  BY DEF Promised, Generated
<1>2. \A op \in Operation : Pending(op)' = Pending(op)
  BY DEF Pending
<1>3. \A f \in Function : \A op \in Operation : Emitted(f, op)' = Emitted(f, op)
  BY DEF Emitted
<1> QED
  BY <1>1, <1>2, <1>3 DEF PromisesInv

LEMMA LinkLinks ==
    ASSUME Core, LinksInv, Link
    PROVE  LinksInv'
<1>1. /\ AllDone /\ linked' = TRUE
      /\ UNCHANGED <<work, pieces, piece_code_index, relocations, emitted, global_data, global_data_size>>
      /\ immediates' = [f \in Function |->
                            IF \E i \in DOMAIN pieces : pieces[i] = f THEN Patched(f) ELSE immediates[f]]
  BY DEF Link, workVars
<1>2. \A f \in Function : Len(immediates'[f]) = Len(emitted[f])
  BY <1>1, PatchedType DEF Core, LinksInv, RelocationsInv
<1>3. \A f \in Function : \A i \in DOMAIN emitted[f] : immediates'[f][i] = Patched(f)[i]
  BY <1>1, Patches
<1>4. PiecesInv' /\ AllDone'
  BY <1>1 DEF LinksInv, PiecesInv, AllDone
<1>5. PromisesInv'
  BY <1>1, PromisesAside DEF LinksInv
<1>6. RelocationsInv'
  BY <1>1, <1>2 DEF LinksInv, RelocationsInv
<1>7. StringsLinked'
  <2> SUFFICES ASSUME NEW f \in Function, NEW i \in DOMAIN emitted[f], emitted[f][i].op = "string"
               PROVE  (immediates[f][i] \in Nat /\ StoredAt(immediates[f][i], emitted[f][i].str))'
    BY <1>1 DEF StringsLinked
  <2>1. immediates'[f][i] = immediates[f][i]
    BY <1>1, <1>3, Patches
  <2>2. immediates[f][i] \in Nat /\ StoredAt(immediates[f][i], emitted[f][i].str)
    BY DEF LinksInv, StringsLinked
  <2> QED
    BY <1>1, <2>1, <2>2 DEF StoredAt
<1>8. LinksResolve'
  <2> SUFFICES ASSUME NEW f \in Function
               PROVE  /\ Len(immediates'[f]) = Len(emitted'[f])
                      /\ \A i \in DOMAIN emitted'[f] : Resolves(emitted[f][i], immediates[f][i])'
    BY DEF LinksResolve
  <2>1. ASSUME NEW i \in DOMAIN emitted[f]
        PROVE  Resolves(emitted[f][i], immediates[f][i])'
    <3>1. emitted[f][i].op \in {"string", "call"}
      BY DEF LinksInv, RelocationsInv
    <3>2. CASE emitted[f][i].op = "call"
      <4>1. Resolves(emitted[f][i], Patched(f)[i]) /\ immediates'[f][i] = Patched(f)[i]
        BY <1>1, <1>3, <3>2, Patches
      <4>2. pieces' = pieces /\ emitted' = emitted
        BY <1>1
      <4> QED
        BY <3>2, <4>1, <4>2 DEF Resolves, HasPiece
    <3>3. CASE emitted[f][i].op = "string"
      BY <1>1, <3>3, <1>7 DEF Resolves, StringsLinked
    <3> QED
      BY <3>1, <3>2, <3>3
  <2> QED
    BY <1>1, <1>2, <2>1
<1> QED
  BY <1>1, <1>4, <1>5, <1>6, <1>7, <1>8 DEF LinksInv

\* After it nothing changes.
LEMMA LinkedStays ==
    ASSUME LinksInv, linked,
           UNCHANGED <<work, pieces, immediates, emitted, global_data, global_data_size>>
    PROVE  LinksResolve'
  BY DEF LinksInv, LinksResolve, Resolves, HasPiece, StoredAt

LEMMA LinksKept == Core /\ StringsInv /\ LinksInv /\ [Next]_vars => LinksInv'
<1> SUFFICES ASSUME Core, StringsInv, LinksInv, [Next]_vars PROVE LinksInv'
  OBVIOUS
<1>1. ASSUME NEW t \in Thread, Step(t)
      PROVE  LinksInv'
  <2>1. PiecesInv' /\ PromisesInv' /\ RelocationsInv' /\ StringsLinked'
    BY <1>1, PiecesKept, PromisesKept, RelocationsKept, StringsLinkedKept DEF LinksInv
  <2>2. linked' = linked
    BY <1>1 DEF Step, Container, LockGeneral, NumberPiece, PushPiece, KnownString, NewString,
                TakeOffset, StoreData, InsertString, EmitCall, containerVars
  <2>3. CASE ~linked
    BY <2>1, <2>2, <2>3 DEF LinksInv, LinksResolve
  <2>4. CASE linked
    <3>1. AllDone /\ work[t] = << >>
      BY <2>4 DEF LinksInv, AllDone
    <3>2. ~Container(t) /\ ~CreateBody(t)
      BY <3>1 DEF Container, LockGeneral, NumberPiece, PushPiece, KnownString, NewString,
                  TakeOffset, Appending, StoreData, Storing, InsertString, EmitCall, CreateBody,
                  TakeScopeId, CheckBlock, LockScopes, BlockExists, NewBlock, PublishBlock,
                  FillScope, At
    <3>3. UNCHANGED <<workVars, containerVars>>
      BY <1>1, <3>2 DEF Step, Enter
    <3>4. LinksResolve' /\ AllDone'
      BY <2>4, <3>1, <3>3, LinkedStays DEF workVars, containerVars, AllDone
    <3> QED
      BY <2>1, <3>4 DEF LinksInv
  <2> QED
    BY <2>3, <2>4
<1>2. CASE Linking
  BY <1>2, LinkLinks DEF Linking
<1>3. CASE UNCHANGED vars
  <2>1. UNCHANGED <<work, pieces, piece_code_index, immediates, relocations, emitted, linked,
                    global_data, global_data_size>>
    BY <1>3 DEF vars, workVars, containerVars
  <2>2. PromisesInv'
    BY <2>1, PromisesAside DEF LinksInv
  <2>3. PiecesInv' /\ RelocationsInv' /\ (linked => AllDone)'
    BY <2>1 DEF LinksInv, PiecesInv, RelocationsInv, AllDone
  <2>4. StringsLinked' /\ LinksResolve'
    BY <2>1 DEF LinksInv, StringsLinked, LinksResolve, Resolves, HasPiece, StoredAt
  <2> QED
    BY <2>2, <2>3, <2>4 DEF LinksInv
<1> QED
  BY <1>1, <1>2, <1>3 DEF Next, Stopped

\* After the image is linked every call has the piece of its callee, or -1 if the callee was
\* never generated, and every string its bytes, in whatever order the threads have made them.
THEOREM LinksAreResolved == Spec => []LinksResolve
<1>1. Init => LinksInv
  <2> SUFFICES ASSUME Init PROVE LinksInv
    OBVIOUS
  <2>1. PICK w \in Works : work = w
    BY DEF Init, JobsInit
  <2>2. \A t \in Thread : \A k \in DOMAIN work[t] :
            work[t][k].op \in {"string", "call"} => Promised(work[t][k].in)
    BY <2>1, LinkAssumption DEF Promised
  <2>3. \A op \in Operation : Pending(op) => (op.op \in {"string", "call"} => Promised(op.in))
    BY <2>2 DEF Pending
  <2>4. /\ \A f \in Function : piece_code_index[f] = NoPiece
        /\ \A f \in Function : emitted[f] = << >> /\ immediates[f] = << >> /\ relocations[f] = << >>
        /\ linked = FALSE /\ pieces = << >>
    BY DEF Init, ContainerInit
  <2> QED
    BY <2>3, <2>4 DEF LinksInv, PiecesInv, PromisesInv, Emitted, RelocationsInv, StringsLinked, LinksResolve
<1>2. Core /\ LinksInv => LinksResolve
  BY DEF LinksInv
<1>3. Init => StringsInv
  BY StringsStart
<1> QED
  BY <1>1, <1>2, <1>3, LinksKept, StringsKept, CoreHolds, PTL DEF Spec
=============================================================================
