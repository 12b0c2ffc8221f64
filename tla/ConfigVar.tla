------------------------------ MODULE ConfigVar ------------------------------
(***************************************************************************)
(* chord::ConfigVar<T> (chord/config.h): configuration variables of one    *)
(* type T, each with a value m_val, a map m_cbs of change listeners and a  *)
(* reader/writer lock m_mutex, used by several threads.                    *)
(*                                                                         *)
(* setValue compares and calls the listeners under the read lock, gives it *)
(* up, and assigns under the write lock: other calls come in between.  The *)
(* assignment of a container is not atomic, so m_val is Torn while it      *)
(* runs.  s_fun_id is a function-local static: ONE counter for all the     *)
(* variables of type T, though addListener holds only the lock of its own  *)
(* variable; the unoptimised build loads it and stores it in separate      *)
(* instructions and reads it again for the map key and for the result.     *)
(***************************************************************************)
EXTENDS RWMutex, Integers

CONSTANTS Vars,         \* the variables of type T
          NoVar,        \* "no variable": the target of an idle thread
          Values,       \* the values of type T
          Default,      \* default_value
          NoValue,      \* "no value"
          Torn,         \* what an unlocked reader sees during an assignment
          MayThrow,     \* whether a listener may throw
          MaxListeners, \* bound: addListener calls
          MaxCalls      \* bound: calls per thread

ASSUME ConfigVarAssumption ==
  /\ Default \in Values
  /\ Torn \notin Values /\ NoValue \notin Values /\ Torn # NoValue
  /\ NoVar \notin Vars
  /\ MayThrow \in BOOLEAN
  /\ MaxListeners \in Nat /\ MaxCalls \in Nat

VARIABLES
  m_val,     \* [Vars -> value]
  m_cbs,     \* [Vars -> set of listener keys]
  m_mutex,   \* [Vars -> RWMutex]
  s_fun_id,  \* the last key handed out
  frame,     \* [Threads -> the activation record of its call]
  calls,     \* [Threads -> calls begun]
  got,       \* the value the last getValue returned
  seen,      \* history: [Vars -> [key -> last new_value the listener was told]]
  alone,     \* history: the threads whose setValue has overlapped with no other on
             \* the same variable
  settled    \* history: [Vars -> whether the last change was assigned by such a thread]

vars == <<m_val, m_cbs, m_mutex, s_fun_id, frame, calls, got, seen, alone, settled>>

Keys == 1 .. MaxListeners

(***************************************************************************)
(* The activation record of a thread: where it is, the variable it works   *)
(* on, setValue's argument, the m_val it compared with, and the iterator   *)
(* over m_cbs (the last key called) or, in addListener, the value loaded   *)
(* from s_fun_id and then the key the listener was stored under.           *)
(***************************************************************************)
PCs == {"idle", "notify", "wrlock", "assign", "inc", "insert", "result"}

Frame == [pc : PCs, var : Vars \cup {NoVar}, new : Values \cup {NoValue},
          old : Values \cup {NoValue, Torn}, key : Nat]

Idle == [pc |-> "idle", var |-> NoVar, new |-> NoValue, old |-> NoValue, key |-> 0]

\* Thread t begins a call.
Begin(t) ==
  /\ frame[t].pc = "idle"
  /\ calls[t] < MaxCalls
  /\ calls' = [calls EXCEPT ![t] = @ + 1]

At(t, pc) == frame[t].pc = pc /\ UNCHANGED calls
Goto(t, pc) == frame' = [frame EXCEPT ![t].pc = pc]
Return(t) == frame' = [frame EXCEPT ![t] = Idle]
Mutex(x, m) == m_mutex' = [m_mutex EXCEPT ![x] = m]

\* No setValue is under way on x.
AtRest(x) == \A t \in Threads : frame[t].var = x => frame[t].pc \notin {"notify", "wrlock", "assign"}

------------------------------------------------------------------------------
\* setValue(v): read lock, v equals m_val, return.
setValueSame(t, x, v) ==
  /\ Begin(t)
  /\ CanRdLock(m_mutex[x])
  /\ v = m_val[x]
  /\ UNCHANGED <<m_val, m_cbs, m_mutex, s_fun_id, frame, got, seen, alone, settled>>

\* setValue(v): read lock, v differs from m_val, enter the listener loop.
setValueDiffers(t, x, v) ==
  /\ Begin(t)
  /\ CanRdLock(m_mutex[x])
  /\ v # m_val[x]
  /\ Mutex(x, RdLocked(m_mutex[x], t))
  /\ frame' = [frame EXCEPT ![t] =
       [pc |-> "notify", var |-> x, new |-> v, old |-> m_val[x], key |-> 0]]
  /\ alone' = IF AtRest(x) THEN alone \cup {t} ELSE {u \in alone : frame[u].var # x} \ {t}
  /\ UNCHANGED <<m_val, m_cbs, s_fun_id, got, seen, settled>>

\* The listeners the iterator of t has not reached: the map is in key order.
Remaining(t) == {k \in m_cbs[frame[t].var] : k > frame[t].key}

\* i.second(m_val, val): the next listener in key order is called.
notify(t) ==
  /\ At(t, "notify")
  /\ \E k \in Remaining(t) :
       /\ \A j \in Remaining(t) : k <= j
       /\ frame' = [frame EXCEPT ![t].key = k]
       /\ seen' = [seen EXCEPT ![frame[t].var][k] = frame[t].new]
  /\ UNCHANGED <<m_val, m_cbs, m_mutex, s_fun_id, got, alone, settled>>

\* The listener throws: the guard releases the read lock and setValue is left
\* without an assignment (fromString catches the exception).
notifyThrows(t) ==
  /\ MayThrow
  /\ At(t, "notify")
  /\ Remaining(t) # {}
  /\ Mutex(frame[t].var, RdUnlocked(m_mutex[frame[t].var], t))
  /\ Return(t)
  /\ settled' = [settled EXCEPT ![frame[t].var] = FALSE]
  /\ UNCHANGED <<m_val, m_cbs, s_fun_id, got, seen, alone>>

\* Mutant of notifyDone: the read lock's inner scope is missing.
notifyDoneLocked(t) ==
  /\ At(t, "notify")
  /\ Remaining(t) = {}
  /\ Goto(t, "wrlock")
  /\ UNCHANGED <<m_val, m_cbs, m_mutex, s_fun_id, got, seen, alone, settled>>

\* The end of the loop and of the read lock's scope.
notifyDone(t) ==
  /\ At(t, "notify")
  /\ Remaining(t) = {}
  /\ Mutex(frame[t].var, RdUnlocked(m_mutex[frame[t].var], t))
  /\ Goto(t, "wrlock")
  /\ UNCHANGED <<m_val, m_cbs, s_fun_id, got, seen, alone, settled>>

\* Mutant of assignBegin: the assignment is made under a ReadLock.
assignBeginShared(t) ==
  /\ At(t, "wrlock")
  /\ CanRdLock(m_mutex[frame[t].var])
  /\ Mutex(frame[t].var, WrLocked(m_mutex[frame[t].var], t))
  /\ m_val' = [m_val EXCEPT ![frame[t].var] = Torn]
  /\ Goto(t, "assign")
  /\ UNCHANGED <<m_cbs, s_fun_id, got, seen, alone, settled>>

\* The write lock is taken and the assignment begins.
assignBegin(t) ==
  /\ At(t, "wrlock")
  /\ CanWrLock(m_mutex[frame[t].var])
  /\ Mutex(frame[t].var, WrLocked(m_mutex[frame[t].var], t))
  /\ m_val' = [m_val EXCEPT ![frame[t].var] = Torn]
  /\ Goto(t, "assign")
  /\ UNCHANGED <<m_cbs, s_fun_id, got, seen, alone, settled>>

\* Mutant of assignEnd: a comparison in place of the assignment leaves m_val as it was.
assignEndForgotten(t) ==
  /\ At(t, "assign")
  /\ Mutex(frame[t].var, WrUnlocked(m_mutex[frame[t].var]))
  /\ m_val' = [m_val EXCEPT ![frame[t].var] = frame[t].old]
  /\ Return(t)
  /\ settled' = [settled EXCEPT ![frame[t].var] = t \in alone]
  /\ UNCHANGED <<m_cbs, s_fun_id, got, seen, alone>>

\* The assignment ends, the write lock is released, setValue returns.
assignEnd(t) ==
  /\ At(t, "assign")
  /\ Mutex(frame[t].var, WrUnlocked(m_mutex[frame[t].var]))
  /\ m_val' = [m_val EXCEPT ![frame[t].var] = frame[t].new]
  /\ Return(t)
  /\ settled' = [settled EXCEPT ![frame[t].var] = t \in alone]
  /\ UNCHANGED <<m_cbs, s_fun_id, got, seen, alone>>

\* Mutant of getValue: no lock.
getValueUnlocked(t, x) ==
  /\ Begin(t)
  /\ got' = m_val[x]
  /\ UNCHANGED <<m_val, m_cbs, m_mutex, s_fun_id, frame, seen, alone, settled>>

\* getValue(): a copy of m_val under the read lock.
getValue(t, x) ==
  /\ Begin(t)
  /\ CanRdLock(m_mutex[x])
  /\ got' = m_val[x]
  /\ UNCHANGED <<m_val, m_cbs, m_mutex, s_fun_id, frame, seen, alone, settled>>

\* toString(): m_val is converted under the read lock, as getValue copies it.
toString(t, x) == getValue(t, x)

------------------------------------------------------------------------------
\* Mutant of addListener: no lock.
addListenerUnlocked(t, x) ==
  /\ Begin(t)
  /\ s_fun_id < MaxListeners
  /\ frame' = [frame EXCEPT ![t] =
       [pc |-> "inc", var |-> x, new |-> NoValue, old |-> NoValue, key |-> s_fun_id]]
  /\ UNCHANGED <<m_val, m_cbs, m_mutex, s_fun_id, got, seen, alone, settled>>

\* addListener(cb): write lock, and the load half of ++s_fun_id.
addListener(t, x) ==
  /\ Begin(t)
  /\ s_fun_id < MaxListeners
  /\ CanWrLock(m_mutex[x])
  /\ Mutex(x, WrLocked(m_mutex[x], t))
  /\ frame' = [frame EXCEPT ![t] =
       [pc |-> "inc", var |-> x, new |-> NoValue, old |-> NoValue, key |-> s_fun_id]]
  /\ UNCHANGED <<m_val, m_cbs, s_fun_id, got, seen, alone, settled>>

\* The store half of ++s_fun_id.
addIncrement(t) ==
  /\ At(t, "inc")
  /\ s_fun_id' = frame[t].key + 1
  /\ Goto(t, "insert")
  /\ UNCHANGED <<m_val, m_cbs, m_mutex, got, seen, alone, settled>>

\* m_cbs[s_fun_id] = cb: a listener already stored under the key is replaced.
addInsert(t) ==
  /\ At(t, "insert")
  /\ m_cbs' = [m_cbs EXCEPT ![frame[t].var] = @ \cup {s_fun_id}]
  /\ seen' = [seen EXCEPT ![frame[t].var][s_fun_id] = NoValue]
  /\ frame' = [frame EXCEPT ![t].pc = "result", ![t].key = s_fun_id]
  /\ UNCHANGED <<m_val, m_mutex, s_fun_id, got, alone, settled>>

\* return s_fun_id, and the guard releases the write lock.
addReturn(t) ==
  /\ At(t, "result")
  /\ Mutex(frame[t].var, WrUnlocked(m_mutex[frame[t].var]))
  /\ Return(t)
  /\ UNCHANGED <<m_val, m_cbs, s_fun_id, got, seen, alone, settled>>

\* Mutant of delListener: a ReadLock.
delListenerShared(t, x, k) ==
  /\ Begin(t)
  /\ CanRdLock(m_mutex[x])
  /\ m_cbs' = [m_cbs EXCEPT ![x] = @ \ {k}]
  /\ UNCHANGED <<m_val, m_mutex, s_fun_id, frame, got, seen, alone, settled>>

\* delListener(key), all of it under the write lock.
delListener(t, x, k) ==
  /\ Begin(t)
  /\ CanWrLock(m_mutex[x])
  /\ m_cbs' = [m_cbs EXCEPT ![x] = @ \ {k}]
  /\ UNCHANGED <<m_val, m_mutex, s_fun_id, frame, got, seen, alone, settled>>

\* getListener(key), under the read lock: a copy of the listener, or nullptr.
getListener(t, x) ==
  /\ Begin(t)
  /\ CanRdLock(m_mutex[x])
  /\ UNCHANGED <<m_val, m_cbs, m_mutex, s_fun_id, frame, got, seen, alone, settled>>

\* clearListener(), all of it under the write lock.
clearListener(t, x) ==
  /\ Begin(t)
  /\ CanWrLock(m_mutex[x])
  /\ m_cbs' = [m_cbs EXCEPT ![x] = {}]
  /\ UNCHANGED <<m_val, m_mutex, s_fun_id, frame, got, seen, alone, settled>>

------------------------------------------------------------------------------
Init ==
  /\ m_val = [x \in Vars |-> Default]
  /\ m_cbs = [x \in Vars |-> {}]
  /\ m_mutex = [x \in Vars |-> Unlocked]
  /\ s_fun_id = 0
  /\ frame = [t \in Threads |-> Idle]
  /\ calls = [t \in Threads |-> 0]
  /\ got = NoValue
  /\ seen = [x \in Vars |-> [k \in Keys |-> NoValue]]
  /\ alone = {}
  /\ settled = [x \in Vars |-> TRUE]

\* A thread calls an operation.
Call(t) ==
  \E x \in Vars :
    \/ \E v \in Values : setValueSame(t, x, v) \/ setValueDiffers(t, x, v)
    \/ getValue(t, x)
    \/ toString(t, x)
    \/ addListener(t, x)
    \/ getListener(t, x)
    \/ \E k \in Keys : delListener(t, x, k)
    \/ clearListener(t, x)

\* A thread goes on with the operation it is in.
Continue(t) ==
  \/ notify(t)
  \/ notifyThrows(t)
  \/ notifyDone(t)
  \/ assignBegin(t)
  \/ assignEnd(t)
  \/ addIncrement(t)
  \/ addInsert(t)
  \/ addReturn(t)

Next == \E t \in Threads : Call(t) \/ Continue(t)

(***************************************************************************)
(* The scheduler runs every thread that can run; nothing makes a thread    *)
(* begin a call.  Calls are finite in number (MaxCalls), so a writer does  *)
(* not starve although the lock prefers readers.                           *)
(***************************************************************************)
Fairness == \A t \in Threads : WF_vars(Continue(t))

Spec == Init /\ [][Next]_vars /\ Fairness

------------------------------------------------------------------------------
(***************************************************************************)
(* Properties                                                              *)
(***************************************************************************)

\* The variables keep their types.
TypeOK ==
  /\ m_val \in [Vars -> Values \cup {Torn}]
  /\ m_cbs \in [Vars -> SUBSET Keys]
  /\ m_mutex \in [Vars -> RWMutexType]
  /\ s_fun_id \in 0 .. MaxListeners
  /\ frame \in [Threads -> Frame]
  /\ calls \in [Threads -> 0 .. MaxCalls]
  /\ got \in Values \cup {NoValue, Torn}
  /\ seen \in [Vars -> [Keys -> Values \cup {NoValue}]]
  /\ alone \subseteq Threads
  /\ settled \in [Vars -> BOOLEAN]

\* No reader sees a half-assigned value: neither a getValue, nor setValue's
\* comparison, nor a listener that is given m_val as old_value.
NoTornRead ==
  /\ got # Torn
  /\ \A t \in Threads : frame[t].pc = "notify" =>
       frame[t].old # Torn /\ m_val[frame[t].var] # Torn

\* A listener hears only of real changes, and every listener of one setValue
\* hears of the same one: while setValue calls them, m_val stays what it was
\* compared with, and differs from the new value.
ListenersHearOneChange ==
  \A t \in Threads : frame[t].pc = "notify" =>
    /\ m_val[frame[t].var] = frame[t].old
    /\ frame[t].old # frame[t].new

MapKept ==
  \A t \in Threads : frame[t].pc = "notify" => m_cbs'[frame[t].var] = m_cbs[frame[t].var]

\* m_cbs is not changed under the iterator of a setValue that walks it: a step
\* that begins and ends inside the listener loop leaves the map alone.
IteratorValid == [][MapKept]_vars

\* "key unique" (config.h:405): addListener never stores a listener under a key
\* at which another listener is registered.
KeyUnique ==
  \A t \in Threads : frame[t].pc = "insert" => s_fun_id \notin m_cbs[frame[t].var]

\* The key addListener returns is the key it stored the listener under, so that
\* delListener with it removes this listener and no other.
KeyReturned ==
  \A t \in Threads : frame[t].pc = "result" => s_fun_id = frame[t].key

\* Both: a listener is stored under a key of its own, which its owner is given.
KeyOwned == KeyUnique /\ KeyReturned

\* Between calls of setValue, every listener that has been told of any change was last
\* told of the value the variable now has: what it derived from it is current.  It
\* holds when the last change overlapped with no other setValue and no listener threw
\* in it, whatever went wrong before: such a change brings all listeners up to date.
ListenersUpToDate ==
  \A x \in Vars : AtRest(x) /\ settled[x] =>
    \A k \in m_cbs[x] : seen[x][k] \in {NoValue, m_val[x]}

\* Every call returns: no thread waits for ever for a lock that it or another
\* thread keeps.
EveryCallReturns ==
  \A t \in Threads : frame[t].pc # "idle" ~> frame[t].pc = "idle"
==============================================================================
