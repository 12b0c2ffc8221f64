------------------------------- MODULE Thread --------------------------------
(***************************************************************************)
(* chord::Thread and chord::Semaphore (chord/thread.h, chord/thread.cpp):  *)
(* the constructor starts an OS thread and waits on m_semaphore until      *)
(* run(), in the new thread, has taken what it needs from the object; join *)
(* waits for the OS thread and gives up its handle; the destructor         *)
(* detaches an OS thread that was not joined, which may still be running.  *)
(*                                                                         *)
(* An object and the OS thread it starts have the same name here.  The     *)
(* thread that constructs an object (main or a callback) is the one that   *)
(* joins and destroys it; the callback reaches its own object through the  *)
(* thread-local t_thread, as SetName does.  pthread_join fails only for a  *)
(* callback that joins itself: join() then throws and changes nothing.     *)
(* pthread_* and sem_* are modelled by what this code relies on.           *)
(***************************************************************************)
EXTENDS Naturals

CONSTANTS Objects,   \* the Thread objects ever constructed, and their OS threads
          main,      \* the initial thread
          null,      \* a null pointer; no id; nobody
          Names,     \* non-empty names, "UNKNOW" among them
          Unknown,   \* "UNKNOW"
          Empty,     \* the empty string
          Interrupts \* whether a signal may interrupt sem_wait (EINTR)

ASSUME ThreadAssumption ==
  /\ main \notin Objects /\ null \notin Objects \cup {main}
  /\ Unknown \in Names /\ Empty \notin Names
  /\ Interrupts \in BOOLEAN

Actors == Objects \cup {main}

VARIABLES
  obj,           \* [Objects -> the lifetime of the object]
  owner,         \* [Objects -> the thread that constructs it]
  m_thread,      \* [Objects -> whether m_thread is a handle (TRUE) or 0]
  m_id,          \* [Objects -> the OS thread m_id names, or null for -1]
  m_cb,          \* [Objects -> whether m_cb holds a callback]
  m_name,        \* [Objects -> name]
  m_semaphore,   \* [Objects -> count]
  pc,            \* [Objects -> where the OS thread is in run()]
  handle,        \* [Objects -> the state of the OS thread's handle]
  blocked,       \* [Actors -> the call the thread waits in]
  t_thread,      \* [Actors -> object or null]: thread-local
  t_thread_name, \* [Actors -> name]: thread-local
  dead           \* the objects run() accessed after the end of their lifetime

vars == <<obj, owner, m_thread, m_id, m_cb, m_name, m_semaphore, pc, handle, blocked,
          t_thread, t_thread_name, dead>>

NotBlocked == [call |-> "none", on |-> null]

\* Thread a executes user code: main, or a callback that waits for nothing.
Runs(a) == blocked[a] = NotBlocked /\ (a \in Objects => pc[a] = "cb")

\* The storage of the object is valid.
Alive(o) == obj[o] \in {"constructing", "live"}

\* run() of o accesses its object.
Touch(o) == dead' = IF Alive(o) THEN dead ELSE dead \cup {o}

------------------------------------------------------------------------------
\* Thread(cb, name): pthread_create succeeds; the constructor waits.
Construct(a, o, name) ==
  /\ Runs(a) /\ obj[o] = "none"
  /\ obj' = [obj EXCEPT ![o] = "constructing"]
  /\ owner' = [owner EXCEPT ![o] = a]
  /\ m_cb' = [m_cb EXCEPT ![o] = TRUE]
  /\ m_name' = [m_name EXCEPT ![o] = IF name = Empty THEN Unknown ELSE name]
  /\ m_thread' = [m_thread EXCEPT ![o] = TRUE]
  /\ pc' = [pc EXCEPT ![o] = "entry"]
  /\ handle' = [handle EXCEPT ![o] = "joinable"]
  /\ blocked' = [blocked EXCEPT ![a] = [call |-> "wait", on |-> o]]
  /\ UNCHANGED <<m_id, m_semaphore, t_thread, t_thread_name, dead>>

\* pthread_create fails: the constructor throws and the object is gone.
ConstructFails(a, o) ==
  /\ Runs(a) /\ obj[o] = "none"
  /\ obj' = [obj EXCEPT ![o] = "thrown"]
  /\ UNCHANGED <<owner, m_thread, m_id, m_cb, m_name, m_semaphore, pc, handle, blocked,
                 t_thread, t_thread_name, dead>>

\* Mutant of wait: the constructor does not wait.
waitNot(a) ==
  /\ blocked[a].call = "wait"
  /\ obj' = [obj EXCEPT ![blocked[a].on] = "live"]
  /\ blocked' = [blocked EXCEPT ![a] = NotBlocked]
  /\ UNCHANGED <<owner, m_thread, m_id, m_cb, m_name, m_semaphore, pc, handle, t_thread,
                 t_thread_name, dead>>

\* Semaphore::wait() returns and the constructor with it.
wait(a) ==
  /\ blocked[a].call = "wait"
  /\ m_semaphore[blocked[a].on] > 0
  /\ m_semaphore' = [m_semaphore EXCEPT ![blocked[a].on] = @ - 1]
  /\ obj' = [obj EXCEPT ![blocked[a].on] = "live"]
  /\ blocked' = [blocked EXCEPT ![a] = NotBlocked]
  /\ UNCHANGED <<owner, m_thread, m_id, m_cb, m_name, pc, handle, t_thread, t_thread_name, dead>>

\* sem_wait is interrupted: wait() throws out of the constructor.  The members
\* are destroyed but ~Thread does not run, so the OS thread is not detached.
waitInterrupted(a) ==
  /\ Interrupts
  /\ blocked[a].call = "wait"
  /\ m_semaphore[blocked[a].on] = 0
  /\ obj' = [obj EXCEPT ![blocked[a].on] = "thrown"]
  /\ blocked' = [blocked EXCEPT ![a] = NotBlocked]
  /\ UNCHANGED <<owner, m_thread, m_id, m_cb, m_name, m_semaphore, pc, handle, t_thread,
                 t_thread_name, dead>>

------------------------------------------------------------------------------
\* run(): the thread-locals and m_id.
runInit(o) ==
  /\ pc[o] = "entry"
  /\ t_thread' = [t_thread EXCEPT ![o] = o]
  /\ t_thread_name' = [t_thread_name EXCEPT ![o] = m_name[o]]
  /\ m_id' = [m_id EXCEPT ![o] = o]
  /\ pc' = [pc EXCEPT ![o] = "swap"]
  /\ Touch(o)
  /\ UNCHANGED <<obj, owner, m_thread, m_cb, m_name, m_semaphore, handle, blocked>>

\* Mutant of runSwap: notify before the callback is taken.
runSwapLate(o) ==
  /\ pc[o] = "swap"
  /\ m_semaphore' = [m_semaphore EXCEPT ![o] = @ + 1]
  /\ pc' = [pc EXCEPT ![o] = "notify"]
  /\ Touch(o)
  /\ UNCHANGED <<obj, owner, m_thread, m_id, m_cb, m_name, handle, blocked, t_thread, t_thread_name>>

\* cb.swap(thread->m_cb)
runSwap(o) ==
  /\ pc[o] = "swap"
  /\ m_cb' = [m_cb EXCEPT ![o] = FALSE]
  /\ pc' = [pc EXCEPT ![o] = "notify"]
  /\ Touch(o)
  /\ UNCHANGED <<obj, owner, m_thread, m_id, m_name, m_semaphore, handle, blocked, t_thread,
                 t_thread_name>>

\* Mutant of runNotify: the semaphore is not posted.
runNotifyNot(o) ==
  /\ pc[o] = "notify"
  /\ pc' = [pc EXCEPT ![o] = "cb"]
  /\ Touch(o)
  /\ UNCHANGED <<obj, owner, m_thread, m_id, m_cb, m_name, m_semaphore, handle, blocked, t_thread,
                 t_thread_name>>

\* Semaphore::notify(); then the callback runs.
runNotify(o) ==
  /\ pc[o] = "notify"
  /\ m_semaphore' = [m_semaphore EXCEPT ![o] = @ + 1]
  /\ pc' = [pc EXCEPT ![o] = "cb"]
  /\ Touch(o)
  /\ UNCHANGED <<obj, owner, m_thread, m_id, m_cb, m_name, handle, blocked, t_thread, t_thread_name>>

\* The callback returns, its local Thread objects destroyed, and run() with it.
runReturn(o) ==
  /\ pc[o] = "cb" /\ Runs(o)
  /\ \A p \in Objects : owner[p] = o => ~Alive(p)
  /\ pc' = [pc EXCEPT ![o] = "exited"]
  /\ UNCHANGED <<obj, owner, m_thread, m_id, m_cb, m_name, m_semaphore, handle, blocked, t_thread,
                 t_thread_name, dead>>

\* Mutant of SetName: m_name is left alone.
SetNameLocal(a, name) ==
  /\ Runs(a)
  /\ t_thread_name' = [t_thread_name EXCEPT ![a] = name]
  /\ UNCHANGED <<obj, owner, m_thread, m_id, m_cb, m_name, m_semaphore, pc, handle, blocked,
                 t_thread, dead>>

\* SetName(name), by the thread itself; an empty name changes nothing.
SetName(a, name) ==
  /\ Runs(a)
  /\ m_name' = IF t_thread[a] # null THEN [m_name EXCEPT ![t_thread[a]] = name] ELSE m_name
  /\ t_thread_name' = [t_thread_name EXCEPT ![a] = name]
  /\ UNCHANGED <<obj, owner, m_thread, m_id, m_cb, m_semaphore, pc, handle, blocked, t_thread, dead>>

------------------------------------------------------------------------------
\* join() by the owner: with a handle, pthread_join; with none, nothing.
join(a, o) ==
  /\ Runs(a) /\ owner[o] = a /\ obj[o] = "live"
  /\ m_thread[o]
  /\ blocked' = [blocked EXCEPT ![a] = [call |-> "join", on |-> o]]
  /\ UNCHANGED <<obj, owner, m_thread, m_id, m_cb, m_name, m_semaphore, pc, handle, t_thread,
                 t_thread_name, dead>>

\* pthread_join returns 0 once the OS thread has ended; m_thread = 0.
joinReturn(a) ==
  /\ blocked[a].call = "join"
  /\ pc[blocked[a].on] = "exited"
  /\ handle[blocked[a].on] = "joinable"
  /\ handle' = [handle EXCEPT ![blocked[a].on] = "joined"]
  /\ m_thread' = [m_thread EXCEPT ![blocked[a].on] = FALSE]
  /\ blocked' = [blocked EXCEPT ![a] = NotBlocked]
  /\ UNCHANGED <<obj, owner, m_id, m_cb, m_name, m_semaphore, pc, t_thread, t_thread_name, dead>>

\* Mutant of Destroy: the handle is dropped without a detach.
DestroyOnly(a, o) ==
  /\ Runs(a) /\ owner[o] = a /\ obj[o] = "live"
  /\ obj' = [obj EXCEPT ![o] = "destroyed"]
  /\ UNCHANGED <<owner, m_thread, m_id, m_cb, m_name, m_semaphore, pc, handle, blocked, t_thread,
                 t_thread_name, dead>>

\* ~Thread(): a handle that was not joined is detached.
Destroy(a, o) ==
  /\ Runs(a) /\ owner[o] = a /\ obj[o] = "live"
  /\ obj' = [obj EXCEPT ![o] = "destroyed"]
  /\ handle' = IF m_thread[o] THEN [handle EXCEPT ![o] = "detached"] ELSE handle
  /\ UNCHANGED <<owner, m_thread, m_id, m_cb, m_name, m_semaphore, pc, blocked, t_thread,
                 t_thread_name, dead>>

------------------------------------------------------------------------------
Init ==
  /\ obj = [o \in Objects |-> "none"]
  /\ owner = [o \in Objects |-> null]
  /\ m_thread = [o \in Objects |-> FALSE]
  /\ m_id = [o \in Objects |-> null]
  /\ m_cb = [o \in Objects |-> FALSE]
  /\ m_name = [o \in Objects |-> Unknown]
  /\ m_semaphore = [o \in Objects |-> 0]
  /\ pc = [o \in Objects |-> "none"]
  /\ handle = [o \in Objects |-> "none"]
  /\ blocked = [a \in Actors |-> NotBlocked]
  /\ t_thread = [a \in Actors |-> null]
  /\ t_thread_name = [a \in Actors |-> Unknown]
  /\ dead = {}

\* User code of thread a.
User(a) ==
  \/ \E o \in Objects :
       \/ \E name \in Names \cup {Empty} : Construct(a, o, name)
       \/ ConstructFails(a, o)
       \/ join(a, o)
       \/ Destroy(a, o)
  \/ \E name \in Names : SetName(a, name)

\* run() up to the callback.
run(o) == runInit(o) \/ runSwap(o) \/ runNotify(o)

\* What a blocked thread waits for happens.
Wake(a) == wait(a) \/ joinReturn(a)

Next ==
  \/ \E a \in Actors : User(a) \/ Wake(a) \/ waitInterrupted(a)
  \/ \E o \in Objects : run(o) \/ runReturn(o)

\* The scheduler runs every thread that is in run() or whose wait is over; what a
\* callback does, and whether it ever returns, is up to the user.
Fairness ==
  /\ \A a \in Actors : WF_vars(Wake(a))
  /\ \A o \in Objects : WF_vars(run(o))

Spec == Init /\ [][Next]_vars /\ Fairness

------------------------------------------------------------------------------
\* The variables keep their types.
TypeOK ==
  /\ obj \in [Objects -> {"none", "constructing", "live", "thrown", "destroyed"}]
  /\ owner \in [Objects -> Actors \cup {null}]
  /\ m_thread \in [Objects -> BOOLEAN]
  /\ m_id \in [Objects -> Objects \cup {null}]
  /\ m_cb \in [Objects -> BOOLEAN]
  /\ m_name \in [Objects -> Names]
  /\ m_semaphore \in [Objects -> 0 .. 1]
  /\ pc \in [Objects -> {"none", "entry", "swap", "notify", "cb", "exited"}]
  /\ handle \in [Objects -> {"none", "joinable", "joined", "detached"}]
  /\ blocked \in [Actors -> {NotBlocked} \cup [call : {"wait", "join"}, on : Objects]]
  /\ t_thread \in [Actors -> Objects \cup {null}]
  /\ t_thread_name \in [Actors -> Names]
  /\ dead \subseteq Objects

\* When the constructor has returned, run() is done with the object: the id is
\* known and the callback has been taken (thread.cpp:83, "wait for the
\* initialisation").
HandshakeComplete ==
  \A o \in Objects : obj[o] = "live" =>
    m_id[o] = o /\ ~m_cb[o] /\ t_thread[o] = o /\ m_semaphore[o] = 0

\* run() never accesses a destroyed object, however early the owner destroys it:
\* only a constructor that threw while it waited leaves run() behind.
RunTouchesLiveObject == \A o \in dead : obj[o] = "thrown"

\* A handle is given up exactly once: while the object lives, m_thread is a handle
\* if and only if the OS thread is neither joined nor detached, and with the
\* object the handle goes too.
HandleReleasedOnce ==
  \A o \in Objects :
    /\ obj[o] = "live" => (m_thread[o] <=> handle[o] = "joinable")
    /\ obj[o] = "destroyed" => handle[o] \in {"joined", "detached"}
    /\ handle[o] = "joined" => pc[o] = "exited"

\* An object and its OS thread agree on the name.
NameAgrees ==
  \A o \in Objects : Alive(o) /\ t_thread[o] # null => m_name[o] = t_thread_name[o]

\* Every constructor returns, however long the callbacks run, since run() posts the
\* semaphore it waits for (thread.cpp:83, 119); a join returns once the callback it
\* waits for has returned (thread.cpp:98).
CallsReturn ==
  \A a \in Actors :
    /\ blocked[a].call = "wait" ~> blocked[a] = NotBlocked
    /\ \A o \in Objects :
         blocked[a] = [call |-> "join", on |-> o] /\ pc[o] = "exited" ~> blocked[a] = NotBlocked
==============================================================================
