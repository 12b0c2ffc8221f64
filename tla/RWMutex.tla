------------------------------- MODULE RWMutex -------------------------------
(***************************************************************************)
(* chord::RWMutex and its guards ReadScopedLockImpl / WriteScopedLockImpl  *)
(* (chord/thread.h).  A lock is a value: the set of threads that hold it   *)
(* for reading and the thread that holds it for writing.  The code passes  *)
(* a null attribute to pthread_rwlock_init, which on glibc prefers         *)
(* readers: rdlock succeeds whenever no writer holds the lock, even while  *)
(* a writer waits.  Guards release in their destructor, so leaving a scope *)
(* by return or by exception is one and the same unlock.                   *)
(***************************************************************************)
CONSTANTS Threads,   \* the threads of the process
          NoThread   \* "nobody": the writer of a lock not held for writing

ASSUME NoThreadAssumption == NoThread \notin Threads

RWMutexType == [readers : SUBSET Threads, writer : Threads \cup {NoThread}]

Unlocked == [readers |-> {}, writer |-> NoThread]

\* rdlock() and wrlock() do not block in these states.
CanRdLock(m) == m.writer = NoThread
CanWrLock(m) == m.writer = NoThread /\ m.readers = {}

\* The lock after rdlock(), wrlock() and unlock() by thread t.
RdLocked(m, t) == [m EXCEPT !.readers = @ \cup {t}]
WrLocked(m, t) == [m EXCEPT !.writer = t]
RdUnlocked(m, t) == [m EXCEPT !.readers = @ \ {t}]
WrUnlocked(m) == [m EXCEPT !.writer = NoThread]
==============================================================================
