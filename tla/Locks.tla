-------------------------------- MODULE Locks --------------------------------
(***************************************************************************)
(* chord::Mutex, Spinlock and CASLock behind the guard ScopedLockImpl      *)
(* (chord/thread.h).  Threads open a scope with a guard, unlock and lock   *)
(* the guard again inside it in any order, increment a shared counter      *)
(* while they hold it (tests/test_thread.cc), and leave the scope.         *)
(*                                                                         *)
(* CASLock is a flag: every test_and_set writes it, also the one that      *)
(* finds it set, and clear() asks nobody whether the flag is his.  A guard *)
(* that unlocked twice would let two threads in.                           *)
(***************************************************************************)
EXTENDS Integers

CONSTANTS Threads,   \* the threads of the process
          Kinds,     \* the classes T of ScopedLockImpl<T>
          MaxCount,  \* bound: the shared counter
          MaxCalls   \* bound: lock() calls of a thread, the constructor's included

ASSUME LocksAssumption ==
  /\ Kinds \subseteq {"Mutex", "Spinlock", "CASLock"}
  /\ MaxCount \in Nat /\ MaxCalls \in Nat

VARIABLES
  kind,     \* the class of this lock
  m_mutex,  \* the flag, or the pthread lock: whether it is taken
  m_locked, \* [Threads -> m_locked of its guard; FALSE without a guard]
  at,       \* [Threads -> "out" of a scope, in "lock", in "scope", in "add"]
  calls,    \* [Threads -> lock() calls]
  count,    \* the data the lock is for
  loaded,   \* [Threads -> the count it has loaded]
  added     \* history: increments stored

locksVars == <<kind, m_mutex, m_locked, at, calls, count, loaded, added>>

\* lock() is called.
Enter(t) ==
  /\ calls[t] < MaxCalls
  /\ calls' = [calls EXCEPT ![t] = @ + 1]
  /\ at' = [at EXCEPT ![t] = "lock"]

Goto(t, where) == at' = [at EXCEPT ![t] = where]

------------------------------------------------------------------------------
\* ScopedLockImpl(mutex): the constructor calls m_mutex.lock().
construct(t) ==
  /\ at[t] = "out"
  /\ Enter(t)
  /\ UNCHANGED <<kind, m_mutex, m_locked, count, loaded, added>>

\* Mutant of lock: without the test of m_locked a guard waits for itself.
lockAlways(t) ==
  /\ at[t] = "scope"
  /\ Enter(t)
  /\ UNCHANGED <<kind, m_mutex, m_locked, count, loaded, added>>

\* lock() of the guard: nothing is done when it is locked.
lock(t) ==
  /\ at[t] = "scope"
  /\ ~m_locked[t]
  /\ Enter(t)
  /\ UNCHANGED <<kind, m_mutex, m_locked, count, loaded, added>>

\* pthread_mutex_lock, pthread_spin_lock: it blocks while the lock is taken.
pthreadLock(t) ==
  /\ at[t] = "lock" /\ kind \in {"Mutex", "Spinlock"}
  /\ ~m_mutex
  /\ m_mutex' = TRUE
  /\ m_locked' = [m_locked EXCEPT ![t] = TRUE]
  /\ Goto(t, "scope")
  /\ UNCHANGED <<kind, calls, count, loaded, added>>

\* One turn of CASLock::lock's loop: the flag is set, and tells what it was.
casLock(t) ==
  /\ at[t] = "lock" /\ kind = "CASLock"
  /\ m_mutex' = TRUE
  /\ m_locked' = [m_locked EXCEPT ![t] = ~m_mutex]
  /\ Goto(t, IF m_mutex THEN "lock" ELSE "scope")
  /\ UNCHANGED <<kind, calls, count, loaded, added>>

\* Mutant of unlock: the guard does not test m_locked.
unlockAlways(t) ==
  /\ m_mutex' = FALSE
  /\ m_locked' = [m_locked EXCEPT ![t] = FALSE]

\* unlock() of the guard: m_mutex.unlock() when it is locked.
unlock(t) ==
  /\ m_mutex' = IF m_locked[t] THEN FALSE ELSE m_mutex
  /\ m_locked' = [m_locked EXCEPT ![t] = FALSE]

\* The thread calls unlock() inside the scope.
unlockEarly(t) ==
  /\ at[t] = "scope"
  /\ unlock(t)
  /\ UNCHANGED <<kind, at, calls, count, loaded, added>>

\* ~ScopedLockImpl() at the end of the scope.
destruct(t) ==
  /\ at[t] = "scope"
  /\ unlock(t)
  /\ Goto(t, "out")
  /\ UNCHANGED <<kind, calls, count, loaded, added>>

\* count++ by a thread that holds the lock: the load,
load(t) ==
  /\ at[t] = "scope" /\ m_locked[t]
  /\ added < MaxCount
  /\ loaded' = [loaded EXCEPT ![t] = count]
  /\ Goto(t, "add")
  /\ UNCHANGED <<kind, m_mutex, m_locked, calls, count, added>>

\* and the store.
store(t) ==
  /\ at[t] = "add"
  /\ count' = loaded[t] + 1
  /\ added' = added + 1
  /\ loaded' = [loaded EXCEPT ![t] = 0]
  /\ Goto(t, "scope")
  /\ UNCHANGED <<kind, m_mutex, m_locked, calls>>

------------------------------------------------------------------------------
LocksInit ==
  /\ kind \in Kinds
  /\ m_mutex = FALSE
  /\ m_locked = [t \in Threads |-> FALSE]
  /\ at = [t \in Threads |-> "out"]
  /\ calls = [t \in Threads |-> 0]
  /\ count = 0
  /\ loaded = [t \in Threads |-> 0]
  /\ added = 0

Call(t) == construct(t) \/ lock(t) \/ unlockEarly(t) \/ load(t)

Continue(t) == pthreadLock(t) \/ casLock(t) \/ store(t) \/ destruct(t)

LocksNext == \E t \in Threads : Call(t) \/ Continue(t)

\* A waiting thread tries the lock, and a scope ends.  Neither a spinning thread nor
\* pthread_mutex is fair, but lock() calls are bounded (MaxCalls).
LocksFairness == \A t \in Threads : WF_locksVars(Continue(t))

LocksSpec == LocksInit /\ [][LocksNext]_locksVars /\ LocksFairness

------------------------------------------------------------------------------
(***************************************************************************)
(* Properties                                                              *)
(***************************************************************************)

holders == {t \in Threads : m_locked[t]}

Abstract == INSTANCE ExclusiveLock

\* Whatever a thread does with its guard (thread.h:22-56), Mutex, Spinlock and CASLock
\* let one thread in at a time: the guard locks and unlocks like an exclusive lock.
ImplementsExclusiveLock == Abstract!Spec

\* No increment made under the lock is lost (tests/test_thread.cc).
NoLostUpdate == count = added

\* Every scope with a guard ends: nobody waits for ever for a lock that is free, that
\* its own guard holds, or whose last holder is out of its scope.
EveryScopeEnds == \A t \in Threads : at[t] # "out" ~> at[t] = "out"
==============================================================================
