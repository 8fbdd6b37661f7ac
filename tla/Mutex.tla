------------------------------- MODULE Mutex -------------------------------
(***************************************************************************)
(* class Mutex of Util.cpp: a Win32 mutex whose kernel object is created   *)
(* by the first call of lock().  A lock of the program is a member of      *)
(* Lock; the object that thread t creates for lock l is <<l, t>>.          *)
(***************************************************************************)
EXTENDS Naturals

CONSTANTS
    Thread,         \* the worker threads
    Lock,           \* the mutexes of the program
    Ready,          \* those that the main thread has locked before it started them
    MainThread,
    Null            \* m_internalHandle of a mutex that was never locked

Handle == Lock \X (Thread \cup {MainThread})

ASSUME LockAssumption ==
    /\ Ready \subseteq Lock
    /\ MainThread \notin Thread
    /\ Null \notin Handle \cup Thread \cup {MainThread}

VARIABLES
    m_internalHandle,   \* of each lock
    made,               \* the kernel objects that exist
    owner,              \* the thread that owns an object, or Null
    at,                 \* where a thread is in lock()
    wants,              \* the lock that a thread locks or has locked
    handle              \* the object it waits for, or waited for

mutexVars == <<m_internalHandle, made, owner, at, wants, handle>>

MutexInit ==
    /\ m_internalHandle = [l \in Lock |-> IF l \in Ready THEN <<l, MainThread>> ELSE Null]
    /\ made = {<<l, MainThread>> : l \in Ready}
    /\ owner = [h \in Handle |-> Null]
    /\ at = [t \in Thread |-> "outside"]
    /\ wants = [t \in Thread |-> Null]
    /\ handle = [t \in Thread |-> Null]

\* if (m_internalHandle == 0), with no protection against another first call.
TestHandle(t, l) ==
    /\ at[t] = "outside"
    /\ at' = [at EXCEPT ![t] = IF m_internalHandle[l] = Null THEN "create" ELSE "enter"]
    /\ wants' = [wants EXCEPT ![t] = l]
    /\ UNCHANGED <<m_internalHandle, made, owner, handle>>

\* CreateMutex; an object that another thread has stored meanwhile is overwritten.
CreateHandle(t) ==
    LET h == <<wants[t], t>>
    IN  /\ at[t] = "create"
        /\ m_internalHandle' = [m_internalHandle EXCEPT ![wants[t]] = h]
        /\ made' = made \cup {h}
        /\ at' = [at EXCEPT ![t] = "enter"]
        /\ UNCHANGED <<owner, wants, handle>>

\* The argument of WaitForSingleObject is read once more from the mutex.
EnterWait(t) ==
    /\ at[t] = "enter"
    /\ handle' = [handle EXCEPT ![t] = m_internalHandle[wants[t]]]
    /\ at' = [at EXCEPT ![t] = "wait"]
    /\ UNCHANGED <<m_internalHandle, made, owner, wants>>

\* Mutant: the wait is left out.
Acquire_NoWait(t) ==
    /\ at[t] = "wait"
    /\ owner' = [owner EXCEPT ![handle[t]] = t]
    /\ at' = [at EXCEPT ![t] = "inside"]
    /\ UNCHANGED <<m_internalHandle, made, wants, handle>>

\* WaitForSingleObject returns: the object is free, or the thread owns it already.
Acquire(t) ==
    /\ at[t] = "wait"
    /\ owner[handle[t]] \in {Null, t}
    /\ owner' = [owner EXCEPT ![handle[t]] = t]
    /\ at' = [at EXCEPT ![t] = "inside"]
    /\ UNCHANGED <<m_internalHandle, made, wants, handle>>

\* unlock() releases what the mutex holds now; ReleaseMutex fails, with a message,
\* on an object of another thread, and the one that was acquired stays owned.
Unlock(t) ==
    LET h == m_internalHandle[wants[t]]
    IN  /\ at[t] = "inside"
        /\ owner' = IF owner[h] = t THEN [owner EXCEPT ![h] = Null] ELSE owner
        /\ at' = [at EXCEPT ![t] = "outside"]
        /\ UNCHANGED <<m_internalHandle, made, wants, handle>>

\* The steps of lock() after its test; unlock() is part of the user's step.
Locking(t) == CreateHandle(t) \/ EnterWait(t) \/ Acquire(t)

Inside(t, l) == at[t] = "inside" /\ wants[t] = l

\* Two threads are in sections of one lock: from here on the program has data
\* races on vectors and maps, which C++ gives no meaning.
Overlap(l) == \E t, u \in Thread : t # u /\ Inside(t, l) /\ Inside(u, l)
Broken == \E l \in Lock : Overlap(l)

\* The thread waits for an object that its owner can no longer release, since the mutex
\* has been given another one: it waits for ever.
Orphaned(t) ==
    /\ at[t] = "wait" /\ owner[handle[t]] \notin {Null, t}
    /\ handle[t] # m_internalHandle[wants[t]]
=============================================================================
