--------------------------- MODULE ConfigVarProofs ---------------------------
(***************************************************************************)
(* Theorems about ConfigVar, for any number of threads, variables, values  *)
(* and calls.  The invariant ties the lock of every variable to where its  *)
(* users are: the readers are exactly the threads in the listener loop,    *)
(* the writer is exactly the thread inside an assignment or addListener.   *)
(***************************************************************************)
EXTENDS ConfigVar, TLAPS

\* Where a thread holds the write lock of its variable.
Exclusive == {"assign", "inc", "insert", "result"}

\* What the types need: a call under way has a variable; setValue has its argument;
\* the counter is below the bound when it was loaded and not 0 once incremented.
FrameInv ==
  \A t \in Threads :
    /\ frame[t].pc # "idle" => frame[t].var \in Vars
    /\ frame[t].pc \in {"notify", "wrlock", "assign"} => frame[t].new \in Values
    /\ frame[t].pc = "inc" => frame[t].key < MaxListeners
    /\ frame[t].pc \in {"insert", "result"} => s_fun_id >= 1

\* Who holds the lock of x.
LockInv ==
  \A x \in Vars :
    /\ \A t \in Threads :
         /\ t \in m_mutex[x].readers <=> frame[t].pc = "notify" /\ frame[t].var = x
         /\ m_mutex[x].writer = t <=> frame[t].pc \in Exclusive /\ frame[t].var = x
    /\ m_mutex[x].writer # NoThread => m_mutex[x].readers = {}

\* A value is half-assigned only inside an assignment, and a setValue in its
\* listener loop still sees the value it compared with.
ValueInv ==
  /\ \A x \in Vars : m_val[x] = Torn =>
       \E t \in Threads : frame[t].pc = "assign" /\ frame[t].var = x
  /\ ListenersHearOneChange
  /\ got # Torn

IInv == TypeOK /\ FrameInv /\ LockInv /\ ValueInv

\* The keys of one variable: all at most s_fun_id, and the incremented counter is
\* not yet among them.
KeyInv(x) ==
  /\ \A k \in m_cbs[x] : k <= s_fun_id
  /\ \A t \in Threads :
       /\ frame[t].pc = "inc" => s_fun_id = frame[t].key
       /\ frame[t].pc = "insert" => s_fun_id \notin m_cbs[x]
       /\ frame[t].pc = "result" => s_fun_id = frame[t].key

\* A setValue is under way.
Setting == {"notify", "wrlock", "assign"}

\* A setValue that has overlapped with no other is the only one on its variable.  The
\* listeners it has gone past know its value; after its loop all do that were there.
Told(t) ==
  t \in alone /\ frame[t].pc \in Setting =>
    /\ \A u \in Threads : frame[u].pc \in Setting /\ frame[u].var = frame[t].var => u = t
    /\ \A k \in m_cbs[frame[t].var] :
         IF frame[t].pc = "notify"
         THEN k <= frame[t].key => seen[frame[t].var][k] = frame[t].new
         ELSE seen[frame[t].var][k] \in {NoValue, frame[t].new}

ToldInv == \A t \in Threads : Told(t)

------------------------------------------------------------------------------
\* Init establishes the invariant.
LEMMA InitInv == Init => IInv
  BY ConfigVarAssumption, NoThreadAssumption
  DEF Init, IInv, TypeOK, FrameInv, LockInv, ValueInv, ListenersHearOneChange,
      Frame, PCs, Idle, Keys, Exclusive, Unlocked, RWMutexType

\* The lock operations yield locks.
LEMMA LockType ==
  ASSUME NEW m \in RWMutexType, NEW t \in Threads
  PROVE  /\ RdLocked(m, t) \in RWMutexType
         /\ WrLocked(m, t) \in RWMutexType
         /\ RdUnlocked(m, t) \in RWMutexType
         /\ WrUnlocked(m) \in RWMutexType
  BY DEF RWMutexType, RdLocked, WrLocked, RdUnlocked, WrUnlocked

\* A jump yields an activation record.
LEMMA GotoType ==
  ASSUME frame \in [Threads -> Frame], NEW t \in Threads, NEW p \in PCs, Goto(t, p)
  PROVE  frame' \in [Threads -> Frame]
<1>1. [frame[t] EXCEPT !.pc = p] \in Frame
  BY DEF Frame
<1>2. QED
  BY <1>1 DEF Goto

\* So does advancing the iterator.
LEMMA AdvanceType ==
  ASSUME frame \in [Threads -> Frame], NEW t \in Threads, NEW k \in Nat
  PROVE  [frame EXCEPT ![t].key = k] \in [Threads -> Frame]
<1>1. [frame[t] EXCEPT !.key = k] \in Frame
  BY DEF Frame
<1>2. QED
  BY <1>1

\* So does noting the key of a new listener.
LEMMA KeyType ==
  ASSUME frame \in [Threads -> Frame], NEW t \in Threads, NEW p \in PCs, NEW k \in Nat
  PROVE  [frame EXCEPT ![t].pc = p, ![t].key = k] \in [Threads -> Frame]
<1>1. [frame[t] EXCEPT !.pc = p, !.key = k] \in Frame
  BY DEF Frame
<1>2. QED
  BY <1>1

\* Every step keeps the types.
LEMMA StepType ==
  TypeOK /\ FrameInv /\ [Next]_vars => TypeOK' /\ FrameInv'
<1> SUFFICES ASSUME TypeOK, FrameInv, [Next]_vars
             PROVE  TypeOK' /\ FrameInv'
    OBVIOUS
<1> USE ConfigVarAssumption, NoThreadAssumption
    DEF TypeOK, FrameInv, Frame, PCs, Idle, Keys, Begin, At, Goto, Return, Mutex
<1>1. ASSUME NEW t \in Threads, NEW x \in Vars, NEW v \in Values, setValueSame(t, x, v)
     PROVE  TypeOK' /\ FrameInv'
  BY <1>1 DEF setValueSame
<1>2. ASSUME NEW t \in Threads, NEW x \in Vars, NEW v \in Values, setValueDiffers(t, x, v)
     PROVE  TypeOK' /\ FrameInv'
  <2>1. frame' \in [Threads -> Frame]
    BY <1>2 DEF setValueDiffers
  <2>2. m_mutex' \in [Vars -> RWMutexType]
    BY <1>2, LockType DEF setValueDiffers
  <2>3. TypeOK'
    BY <1>2, <2>1, <2>2 DEF setValueDiffers
  <2>4. FrameInv'
    BY <1>2 DEF setValueDiffers
  <2>5. QED
    BY <2>3, <2>4
<1>3. ASSUME NEW t \in Threads, NEW x \in Vars, getValue(t, x)
     PROVE  TypeOK' /\ FrameInv'
  BY <1>3 DEF getValue
<1>4. ASSUME NEW t \in Threads, NEW x \in Vars, addListener(t, x)
     PROVE  TypeOK' /\ FrameInv'
  <2>1. frame' \in [Threads -> Frame]
    BY <1>4 DEF addListener
  <2>2. m_mutex' \in [Vars -> RWMutexType]
    BY <1>4, LockType DEF addListener
  <2>3. TypeOK'
    BY <1>4, <2>1, <2>2 DEF addListener
  <2>4. FrameInv'
    BY <1>4 DEF addListener
  <2>5. QED
    BY <2>3, <2>4
<1>5. ASSUME NEW t \in Threads, NEW x \in Vars, NEW k \in Keys, delListener(t, x, k)
     PROVE  TypeOK' /\ FrameInv'
  BY <1>5 DEF delListener
<1>6. ASSUME NEW t \in Threads, NEW x \in Vars, clearListener(t, x)
     PROVE  TypeOK' /\ FrameInv'
  BY <1>6 DEF clearListener
<1>6a. ASSUME NEW t \in Threads, NEW x \in Vars, getListener(t, x)
     PROVE  TypeOK' /\ FrameInv'
  BY <1>6a DEF getListener
<1>7. ASSUME NEW t \in Threads, notify(t)
     PROVE  TypeOK' /\ FrameInv'
  <2>0. PICK k \in Remaining(t) : /\ frame' = [frame EXCEPT ![t].key = k]
                                  /\ seen' = [seen EXCEPT ![frame[t].var][k] = frame[t].new]
    BY <1>7 DEF notify
  <2>k. k \in Nat
    BY <1>7 DEF notify, Remaining
  <2>1. frame' \in [Threads -> Frame]
    BY <2>0, <2>k, AdvanceType
  <2>2. TypeOK'
    BY <1>7, <2>1 DEF notify, Remaining
  <2>3. FrameInv'
    BY <1>7 DEF notify, Remaining
  <2>4. QED
    BY <2>2, <2>3
<1>8. ASSUME NEW t \in Threads, notifyThrows(t)
     PROVE  TypeOK' /\ FrameInv'
  <2>1. frame' \in [Threads -> Frame]
    BY <1>8 DEF notifyThrows
  <2>2. m_mutex' \in [Vars -> RWMutexType]
    BY <1>8, LockType DEF notifyThrows
  <2>3. TypeOK'
    BY <1>8, <2>1, <2>2 DEF notifyThrows
  <2>4. FrameInv'
    BY <1>8 DEF notifyThrows
  <2>5. QED
    BY <2>3, <2>4
<1>9. ASSUME NEW t \in Threads, notifyDone(t)
     PROVE  TypeOK' /\ FrameInv'
  <2>1. frame' \in [Threads -> Frame]
    BY <1>9, GotoType DEF notifyDone
  <2>2. m_mutex' \in [Vars -> RWMutexType]
    BY <1>9, LockType DEF notifyDone
  <2>3. TypeOK'
    BY <1>9, <2>1, <2>2 DEF notifyDone
  <2>4. FrameInv'
    BY <1>9 DEF notifyDone
  <2>5. QED
    BY <2>3, <2>4
<1>10. ASSUME NEW t \in Threads, assignBegin(t)
     PROVE  TypeOK' /\ FrameInv'
  <2>1. frame' \in [Threads -> Frame]
    BY <1>10, GotoType DEF assignBegin
  <2>2. m_mutex' \in [Vars -> RWMutexType]
    BY <1>10, LockType DEF assignBegin
  <2>3. TypeOK'
    BY <1>10, <2>1, <2>2 DEF assignBegin
  <2>4. FrameInv'
    BY <1>10 DEF assignBegin
  <2>5. QED
    BY <2>3, <2>4
<1>11. ASSUME NEW t \in Threads, assignEnd(t)
     PROVE  TypeOK' /\ FrameInv'
  <2>1. frame' \in [Threads -> Frame]
    BY <1>11 DEF assignEnd
  <2>2. m_mutex' \in [Vars -> RWMutexType]
    BY <1>11, LockType DEF assignEnd
  <2>3. TypeOK'
    BY <1>11, <2>1, <2>2 DEF assignEnd
  <2>4. FrameInv'
    BY <1>11 DEF assignEnd
  <2>5. QED
    BY <2>3, <2>4
<1>12. ASSUME NEW t \in Threads, addIncrement(t)
     PROVE  TypeOK' /\ FrameInv'
  <2>1. frame' \in [Threads -> Frame]
    BY <1>12, GotoType DEF addIncrement
  <2>2. TypeOK'
    BY <1>12, <2>1 DEF addIncrement
  <2>3. FrameInv'
    BY <1>12 DEF addIncrement
  <2>4. QED
    BY <2>2, <2>3
<1>13. ASSUME NEW t \in Threads, addInsert(t)
     PROVE  TypeOK' /\ FrameInv'
  <2>0. s_fun_id \in Nat /\ "result" \in PCs
    OBVIOUS
  <2>1. frame' \in [Threads -> Frame]
    BY <1>13, <2>0, KeyType DEF addInsert
  <2>2. TypeOK'
    BY <1>13, <2>1 DEF addInsert
  <2>3. FrameInv'
    BY <1>13 DEF addInsert
  <2>4. QED
    BY <2>2, <2>3
<1>14. ASSUME NEW t \in Threads, addReturn(t)
     PROVE  TypeOK' /\ FrameInv'
  <2>1. frame' \in [Threads -> Frame]
    BY <1>14 DEF addReturn
  <2>2. m_mutex' \in [Vars -> RWMutexType]
    BY <1>14, LockType DEF addReturn
  <2>3. TypeOK'
    BY <1>14, <2>1, <2>2 DEF addReturn
  <2>4. FrameInv'
    BY <1>14 DEF addReturn
  <2>5. QED
    BY <2>3, <2>4
<1>15. CASE UNCHANGED vars
  BY <1>15 DEF vars
<1>16. QED
  BY <1>1, <1>2, <1>3, <1>4, <1>5, <1>6, <1>6a, <1>7, <1>8,
     <1>9, <1>10, <1>11, <1>12, <1>13, <1>14, <1>15
  DEF Next, Call, Continue, toString

\* Every step keeps the locks and their holders together.
LEMMA StepLock ==
  TypeOK /\ FrameInv /\ LockInv /\ [Next]_vars => LockInv'
<1> SUFFICES ASSUME TypeOK, FrameInv, LockInv, [Next]_vars
             PROVE  LockInv'
    OBVIOUS
<1> USE ConfigVarAssumption, NoThreadAssumption
    DEF TypeOK, FrameInv, Frame, PCs, Idle, Keys, Begin, At, Goto, Return, Mutex,
        RWMutexType, CanRdLock, CanWrLock, RdLocked, WrLocked, RdUnlocked, WrUnlocked, LockInv, Exclusive
<1>1. ASSUME NEW t \in Threads, NEW x \in Vars, NEW v \in Values, setValueSame(t, x, v)
     PROVE  LockInv'
  BY <1>1 DEF setValueSame
<1>2. ASSUME NEW t \in Threads, NEW x \in Vars, NEW v \in Values, setValueDiffers(t, x, v)
     PROVE  LockInv'
  BY <1>2 DEF setValueDiffers
<1>3. ASSUME NEW t \in Threads, NEW x \in Vars, getValue(t, x)
     PROVE  LockInv'
  BY <1>3 DEF getValue
<1>4. ASSUME NEW t \in Threads, NEW x \in Vars, addListener(t, x)
     PROVE  LockInv'
  BY <1>4 DEF addListener
<1>5. ASSUME NEW t \in Threads, NEW x \in Vars, NEW k \in Keys, delListener(t, x, k)
     PROVE  LockInv'
  BY <1>5 DEF delListener
<1>6. ASSUME NEW t \in Threads, NEW x \in Vars, clearListener(t, x)
     PROVE  LockInv'
  BY <1>6 DEF clearListener
<1>6a. ASSUME NEW t \in Threads, NEW x \in Vars, getListener(t, x)
     PROVE  LockInv'
  BY <1>6a DEF getListener
<1>7. ASSUME NEW t \in Threads, notify(t)
     PROVE  LockInv'
  BY <1>7 DEF notify, Remaining
<1>8. ASSUME NEW t \in Threads, notifyThrows(t)
     PROVE  LockInv'
  BY <1>8 DEF notifyThrows
<1>9. ASSUME NEW t \in Threads, notifyDone(t)
     PROVE  LockInv'
  BY <1>9 DEF notifyDone
<1>10. ASSUME NEW t \in Threads, assignBegin(t)
     PROVE  LockInv'
  BY <1>10 DEF assignBegin
<1>11. ASSUME NEW t \in Threads, assignEnd(t)
     PROVE  LockInv'
  BY <1>11 DEF assignEnd
<1>12. ASSUME NEW t \in Threads, addIncrement(t)
     PROVE  LockInv'
  BY <1>12 DEF addIncrement
<1>13. ASSUME NEW t \in Threads, addInsert(t)
     PROVE  LockInv'
  BY <1>13 DEF addInsert
<1>14. ASSUME NEW t \in Threads, addReturn(t)
     PROVE  LockInv'
  BY <1>14 DEF addReturn
<1>15. CASE UNCHANGED vars
  BY <1>15 DEF vars
<1>16. QED
  BY <1>1, <1>2, <1>3, <1>4, <1>5, <1>6, <1>6a, <1>7, <1>8,
     <1>9, <1>10, <1>11, <1>12, <1>13, <1>14, <1>15
  DEF Next, Call, Continue, toString

\* Every step keeps the value whole outside assignments and stable under readers.
LEMMA StepValue ==
  TypeOK /\ FrameInv /\ LockInv /\ ValueInv /\ [Next]_vars => ValueInv'
<1> SUFFICES ASSUME TypeOK, FrameInv, LockInv, ValueInv, [Next]_vars
             PROVE  ValueInv'
    OBVIOUS
<1> USE ConfigVarAssumption, NoThreadAssumption
    DEF TypeOK, FrameInv, Frame, PCs, Idle, Keys, Begin, At, Goto, Return, Mutex,
        RWMutexType, CanRdLock, CanWrLock, RdLocked, WrLocked, RdUnlocked, WrUnlocked, LockInv, Exclusive, ValueInv, ListenersHearOneChange
<1>1. ASSUME NEW t \in Threads, NEW x \in Vars, NEW v \in Values, setValueSame(t, x, v)
     PROVE  ValueInv'
  BY <1>1 DEF setValueSame
<1>2. ASSUME NEW t \in Threads, NEW x \in Vars, NEW v \in Values, setValueDiffers(t, x, v)
     PROVE  ValueInv'
  BY <1>2 DEF setValueDiffers
<1>3. ASSUME NEW t \in Threads, NEW x \in Vars, getValue(t, x)
     PROVE  ValueInv'
  BY <1>3 DEF getValue
<1>4. ASSUME NEW t \in Threads, NEW x \in Vars, addListener(t, x)
     PROVE  ValueInv'
  BY <1>4 DEF addListener
<1>5. ASSUME NEW t \in Threads, NEW x \in Vars, NEW k \in Keys, delListener(t, x, k)
     PROVE  ValueInv'
  BY <1>5 DEF delListener
<1>6. ASSUME NEW t \in Threads, NEW x \in Vars, clearListener(t, x)
     PROVE  ValueInv'
  BY <1>6 DEF clearListener
<1>6a. ASSUME NEW t \in Threads, NEW x \in Vars, getListener(t, x)
     PROVE  ValueInv'
  BY <1>6a DEF getListener
<1>7. ASSUME NEW t \in Threads, notify(t)
     PROVE  ValueInv'
  BY <1>7 DEF notify, Remaining
<1>8. ASSUME NEW t \in Threads, notifyThrows(t)
     PROVE  ValueInv'
  BY <1>8 DEF notifyThrows
<1>9. ASSUME NEW t \in Threads, notifyDone(t)
     PROVE  ValueInv'
  BY <1>9 DEF notifyDone
<1>10. ASSUME NEW t \in Threads, assignBegin(t)
     PROVE  ValueInv'
  BY <1>10 DEF assignBegin
<1>11. ASSUME NEW t \in Threads, assignEnd(t)
     PROVE  ValueInv'
  <2>1. frame[t].var \in Vars /\ frame[t].new \in Values /\ m_val'[frame[t].var] = frame[t].new
    BY <1>11 DEF assignEnd
  <2>2. ASSUME NEW y \in Vars, m_val'[y] = Torn
        PROVE  \E u \in Threads : frame'[u].pc = "assign" /\ frame'[u].var = y
    <3>1. y # frame[t].var /\ m_val[y] = Torn
      BY <1>11, <2>1, <2>2 DEF assignEnd
    <3>2. PICK u \in Threads : frame[u].pc = "assign" /\ frame[u].var = y
      BY <3>1
    <3>3. QED
      BY <1>11, <3>1, <3>2 DEF assignEnd
  <2>3. ASSUME NEW u \in Threads, frame'[u].pc = "notify"
        PROVE  /\ m_val'[frame'[u].var] = frame'[u].old
               /\ frame'[u].old # frame'[u].new
    <3>1. u # t /\ frame'[u] = frame[u] /\ frame[u].pc = "notify"
      BY <1>11, <2>3 DEF assignEnd
    <3>2. frame[u].var # frame[t].var
      <4>1. frame[t].pc = "assign" /\ frame[t].var \in Vars /\ t # NoThread
        BY <1>11 DEF assignEnd
      <4>2. m_mutex[frame[t].var].writer = t
        BY <4>1
      <4>3. m_mutex[frame[t].var].readers = {}
        BY <4>1, <4>2
      <4>4. frame[u].var \in Vars /\ u \in m_mutex[frame[u].var].readers
        BY <3>1
      <4>5. QED
        BY <4>3, <4>4
    <3>3. m_val'[frame[u].var] = m_val[frame[u].var]
      BY <1>11, <3>1, <3>2 DEF assignEnd
    <3>4. QED
      BY <3>1, <3>3
  <2>4. got' # Torn
    BY <1>11 DEF assignEnd
  <2>5. QED
    BY <2>2, <2>3, <2>4
<1>12. ASSUME NEW t \in Threads, addIncrement(t)
     PROVE  ValueInv'
  BY <1>12 DEF addIncrement
<1>13. ASSUME NEW t \in Threads, addInsert(t)
     PROVE  ValueInv'
  BY <1>13 DEF addInsert
<1>14. ASSUME NEW t \in Threads, addReturn(t)
     PROVE  ValueInv'
  BY <1>14 DEF addReturn
<1>15. CASE UNCHANGED vars
  BY <1>15 DEF vars
<1>16. QED
  BY <1>1, <1>2, <1>3, <1>4, <1>5, <1>6, <1>6a, <1>7, <1>8,
     <1>9, <1>10, <1>11, <1>12, <1>13, <1>14, <1>15
  DEF Next, Call, Continue, toString

\* With one variable of type T every step keeps the keys and the counter together:
\* the lock of the variable then protects the counter as well.
LEMMA StepKeys ==
  IInv /\ (\A z \in Vars : KeyInv(z)) /\ (\A y, z \in Vars : y = z) /\ [Next]_vars => (\A z \in Vars : KeyInv(z))'
<1> SUFFICES ASSUME IInv, (\A z \in Vars : KeyInv(z)), (\A y, z \in Vars : y = z), [Next]_vars
             PROVE  (\A z \in Vars : KeyInv(z))'
    OBVIOUS
<1> USE ConfigVarAssumption, NoThreadAssumption
    DEF IInv, TypeOK, FrameInv, Frame, PCs, Idle, Keys, Begin, At, Goto, Return, Mutex,
        RWMutexType, CanRdLock, CanWrLock, RdLocked, WrLocked, RdUnlocked, WrUnlocked, LockInv, Exclusive, KeyInv
<1>1. ASSUME NEW t \in Threads, NEW x \in Vars, NEW v \in Values, setValueSame(t, x, v)
     PROVE  (\A z \in Vars : KeyInv(z))'
  BY <1>1 DEF setValueSame
<1>2. ASSUME NEW t \in Threads, NEW x \in Vars, NEW v \in Values, setValueDiffers(t, x, v)
     PROVE  (\A z \in Vars : KeyInv(z))'
  BY <1>2 DEF setValueDiffers
<1>3. ASSUME NEW t \in Threads, NEW x \in Vars, getValue(t, x)
     PROVE  (\A z \in Vars : KeyInv(z))'
  BY <1>3 DEF getValue
<1>4. ASSUME NEW t \in Threads, NEW x \in Vars, addListener(t, x)
     PROVE  (\A z \in Vars : KeyInv(z))'
  BY <1>4 DEF addListener
<1>5. ASSUME NEW t \in Threads, NEW x \in Vars, NEW k \in Keys, delListener(t, x, k)
     PROVE  (\A z \in Vars : KeyInv(z))'
  BY <1>5 DEF delListener
<1>6. ASSUME NEW t \in Threads, NEW x \in Vars, clearListener(t, x)
     PROVE  (\A z \in Vars : KeyInv(z))'
  BY <1>6 DEF clearListener
<1>6a. ASSUME NEW t \in Threads, NEW x \in Vars, getListener(t, x)
     PROVE  (\A z \in Vars : KeyInv(z))'
  BY <1>6a DEF getListener
<1>7. ASSUME NEW t \in Threads, notify(t)
     PROVE  (\A z \in Vars : KeyInv(z))'
  BY <1>7 DEF notify, Remaining
<1>8. ASSUME NEW t \in Threads, notifyThrows(t)
     PROVE  (\A z \in Vars : KeyInv(z))'
  BY <1>8 DEF notifyThrows
<1>9. ASSUME NEW t \in Threads, notifyDone(t)
     PROVE  (\A z \in Vars : KeyInv(z))'
  BY <1>9 DEF notifyDone
<1>10. ASSUME NEW t \in Threads, assignBegin(t)
     PROVE  (\A z \in Vars : KeyInv(z))'
  BY <1>10 DEF assignBegin
<1>11. ASSUME NEW t \in Threads, assignEnd(t)
     PROVE  (\A z \in Vars : KeyInv(z))'
  BY <1>11 DEF assignEnd
<1>12. ASSUME NEW t \in Threads, addIncrement(t)
     PROVE  (\A z \in Vars : KeyInv(z))'
  <2>1. frame[t].var \in Vars /\ s_fun_id = frame[t].key /\ s_fun_id' = s_fun_id + 1
    BY <1>12 DEF addIncrement
  <2>2. \A u \in Threads : frame[u].pc \in Exclusive => u = t
    <3>1. ASSUME NEW u \in Threads, frame[u].pc \in Exclusive
          PROVE  u = t
      <4>1. frame[u].var \in Vars /\ frame[u].var = frame[t].var
        BY <2>1, <3>1
      <4>2. m_mutex[frame[t].var].writer = u /\ m_mutex[frame[t].var].writer = t
        BY <1>12, <2>1, <3>1, <4>1 DEF addIncrement
      <4>3. QED
        BY <4>2
    <3>2. QED
      BY <3>1
  <2>3. \A z \in Vars : \A k \in m_cbs'[z] : k \in Nat /\ k <= s_fun_id
    BY <1>12 DEF addIncrement
  <2>4. \A u \in Threads : frame'[u].pc \in Exclusive => u = t
    BY <1>12, <2>2 DEF addIncrement
  <2>5. frame'[t].pc = "insert"
    BY <1>12 DEF addIncrement
  <2>6. QED
    BY <2>1, <2>3, <2>4, <2>5
<1>13. ASSUME NEW t \in Threads, addInsert(t)
     PROVE  (\A z \in Vars : KeyInv(z))'
  BY <1>13 DEF addInsert
<1>14. ASSUME NEW t \in Threads, addReturn(t)
     PROVE  (\A z \in Vars : KeyInv(z))'
  BY <1>14 DEF addReturn
<1>15. CASE UNCHANGED vars
  BY <1>15 DEF vars
<1>16. QED
  BY <1>1, <1>2, <1>3, <1>4, <1>5, <1>6, <1>6a, <1>7, <1>8,
     <1>9, <1>10, <1>11, <1>12, <1>13, <1>14, <1>15
  DEF Next, Call, Continue, toString

\* A step outside setValue keeps the listeners told: it takes some away, or adds one
\* that has been told nothing, while no setValue is in its loop.
LEMMA OutsideTold ==
  ASSUME IInv, ToldInv, ListenersUpToDate, NEW t \in Threads,
         frame[t].pc \notin Setting, frame'[t].pc \notin Setting,
         \A u \in Threads : u # t => frame'[u] = frame[u],
         UNCHANGED <<m_val, alone, settled>>,
         \A x \in Vars : \A k \in m_cbs'[x] :
           \/ k \in m_cbs[x] /\ seen'[x][k] = seen[x][k]
           \/ /\ seen'[x][k] = NoValue
              /\ \A u \in Threads : ~(frame[u].pc = "notify" /\ frame[u].var = x)
  PROVE  ToldInv' /\ ListenersUpToDate'
<1>1. \A u \in Threads : frame[u].pc \in Setting => frame[u].var \in Vars
  BY DEF IInv, FrameInv, Setting
<1>2. \A u \in Threads : frame'[u].pc \in Setting => frame[u].pc \in Setting /\ frame'[u] = frame[u]
  OBVIOUS
<1>3. ASSUME NEW u \in Threads, u \in alone', frame'[u].pc \in Setting
      PROVE  Told(u)'
  <2> DEFINE x == frame[u].var
  <2>1. u \in alone /\ frame[u].pc \in Setting /\ frame'[u] = frame[u] /\ x \in Vars
    BY <1>1, <1>2, <1>3
  <2>2. \A w \in Threads : frame'[w].pc \in Setting /\ frame'[w].var = x => w = u
    BY <1>2, <2>1 DEF ToldInv, Told
  <2>3. ASSUME NEW k \in m_cbs'[x]
        PROVE  IF frame[u].pc = "notify" THEN k <= frame[u].key => seen'[x][k] = frame[u].new
                                         ELSE seen'[x][k] \in {NoValue, frame[u].new}
    BY <2>1, <2>3 DEF ToldInv, Told
  <2>4. QED
    BY <2>1, <2>2, <2>3 DEF Told
<1>4. ToldInv'
  BY <1>3 DEF ToldInv, Told
<1>5. ASSUME NEW x \in Vars, AtRest(x)', settled'[x], NEW k \in m_cbs'[x]
      PROVE  seen'[x][k] \in {NoValue, m_val'[x]}
  <2>1. AtRest(x)
    BY <1>5 DEF AtRest, Setting
  <2>2. QED
    BY <1>5, <2>1 DEF ListenersUpToDate
<1>6. QED
  BY <1>4, <1>5 DEF ListenersUpToDate

\* Every step keeps the listeners told.
LEMMA StepTold ==
  IInv /\ ToldInv /\ ListenersUpToDate /\ [Next]_vars => ToldInv' /\ ListenersUpToDate'
<1> SUFFICES ASSUME IInv, ToldInv, ListenersUpToDate, [Next]_vars
             PROVE  ToldInv' /\ ListenersUpToDate'
    OBVIOUS
<1> DEFINE Goal == ToldInv' /\ ListenersUpToDate'
<1> USE DEF Begin, At, Goto, Return
<1>0. /\ frame \in [Threads -> Frame] /\ m_cbs \in [Vars -> SUBSET Keys]
      /\ seen \in [Vars -> [Keys -> Values \cup {NoValue}]]
      /\ m_val \in [Vars -> Values \cup {Torn}] /\ settled \in [Vars -> BOOLEAN]
      /\ \A u \in Threads : frame[u].pc # "idle" => frame[u].var \in Vars
      /\ \A u \in Threads : frame[u].pc \in Setting => frame[u].var \in Vars
      /\ \A u \in Threads : frame[u].pc \in PCs /\ frame[u].key \in Nat
  BY DEF IInv, TypeOK, FrameInv, Setting, Frame
<1>0a. Keys \subseteq Nat
  BY ConfigVarAssumption DEF Keys
<1>1. ASSUME NEW t \in Threads, NEW x \in Vars, NEW v \in Values, setValueSame(t, x, v)
      PROVE  Goal
  BY <1>1, OutsideTold DEF setValueSame, Setting
<1>2. ASSUME NEW t \in Threads, NEW x \in Vars, NEW v \in Values, setValueDiffers(t, x, v)
      PROVE  Goal
  <2>1. /\ frame'[t] = [pc |-> "notify", var |-> x, new |-> v, old |-> m_val[x], key |-> 0]
        /\ \A u \in Threads : u # t => frame'[u] = frame[u]
        /\ alone' = IF AtRest(x) THEN alone \cup {t} ELSE {u \in alone : frame[u].var # x} \ {t}
        /\ UNCHANGED <<m_val, m_cbs, seen, settled>>
    BY <1>2, <1>0 DEF setValueDiffers
  <2>2. ASSUME NEW u \in Threads, u \in alone', frame'[u].pc \in Setting
        PROVE  Told(u)'
    <3>1. CASE u = t
      <4>1. AtRest(x)
        BY <2>1, <2>2, <3>1
      <4>2. \A w \in Threads : frame'[w].pc \in Setting /\ frame'[w].var = x => w = t
        BY <2>1, <4>1 DEF AtRest, Setting
      <4>3. \A k \in m_cbs'[x] : ~(k <= 0)
        BY <2>1, <1>0, <1>0a DEF Keys
      <4>4. QED
        BY <2>1, <3>1, <4>2, <4>3 DEF Told
    <3>2. CASE u # t
      <4>1. u \in alone /\ frame'[u] = frame[u] /\ frame[u].var # x
        BY <2>1, <2>2, <3>2 DEF AtRest, Setting
      <4>2. Told(u) /\ frame[u].pc \in Setting
        BY <2>2, <4>1 DEF ToldInv
      <4>3. \A w \in Threads : frame'[w].pc \in Setting /\ frame'[w].var = frame[u].var => w = u
        BY <2>1, <4>1, <4>2 DEF Told
      <4>4. QED
        BY <2>1, <4>1, <4>2, <4>3 DEF Told
    <3>3. QED
      BY <3>1, <3>2
  <2>3. ASSUME NEW y \in Vars, AtRest(y)', settled'[y]
        PROVE  \A k \in m_cbs'[y] : seen'[y][k] \in {NoValue, m_val'[y]}
    <3>1. AtRest(y)
      BY <1>2, <2>1, <2>3 DEF AtRest, setValueDiffers
    <3>2. QED
      BY <2>1, <2>3, <3>1 DEF ListenersUpToDate
  <2>4. QED
    BY <2>2, <2>3 DEF ToldInv, Told, ListenersUpToDate
<1>3. ASSUME NEW t \in Threads, NEW x \in Vars, getValue(t, x)
      PROVE  Goal
  BY <1>3, OutsideTold DEF getValue, Setting
<1>4. ASSUME NEW t \in Threads, NEW x \in Vars, addListener(t, x)
      PROVE  Goal
  BY <1>4, <1>0, OutsideTold DEF addListener, Setting
<1>5. ASSUME NEW t \in Threads, NEW x \in Vars, NEW k \in Keys, delListener(t, x, k)
      PROVE  Goal
  BY <1>5, <1>0, OutsideTold DEF delListener, Setting
<1>6. ASSUME NEW t \in Threads, NEW x \in Vars, clearListener(t, x)
      PROVE  Goal
  BY <1>6, <1>0, OutsideTold DEF clearListener, Setting
<1>7. ASSUME NEW t \in Threads, NEW x \in Vars, getListener(t, x)
      PROVE  Goal
  BY <1>7, OutsideTold DEF getListener, Setting
<1>8. ASSUME NEW t \in Threads, notify(t)
      PROVE  Goal
  <2> DEFINE x == frame[t].var
  <2>1. PICK k \in Remaining(t) :
          /\ \A j \in Remaining(t) : k <= j
          /\ frame' = [frame EXCEPT ![t].key = k]
          /\ seen' = [seen EXCEPT ![x][k] = frame[t].new]
    BY <1>8 DEF notify
  <2>2. frame[t].pc = "notify" /\ x \in Vars /\ UNCHANGED <<m_val, m_cbs, alone, settled>>
    BY <1>8, <1>0 DEF notify
  <2>3. k \in m_cbs[x] /\ k > frame[t].key /\ k \in Nat /\ k \in Keys
    BY <2>1, <2>2, <1>0, <1>0a DEF Remaining
  <2>4. /\ frame'[t].pc = "notify" /\ frame'[t].var = x /\ frame'[t].new = frame[t].new /\ frame'[t].key = k
        /\ \A u \in Threads : u # t => frame'[u] = frame[u]
        /\ \A u \in Threads : frame'[u].pc = frame[u].pc /\ frame'[u].var = frame[u].var
    BY <2>1, <2>2, <1>0 DEF Frame
  <2>5. /\ seen'[x][k] = frame[t].new
        /\ \A j \in Keys : j # k => seen'[x][j] = seen[x][j]
        /\ \A y \in Vars : y # x => seen'[y] = seen[y]
    BY <2>1, <2>2, <2>3, <1>0
  <2>6. ASSUME NEW u \in Threads, u \in alone', frame'[u].pc \in Setting
        PROVE  Told(u)'
    <3>1. Told(u) /\ u \in alone /\ frame[u].pc \in Setting
      BY <2>2, <2>4, <2>6 DEF ToldInv
    <3>2. \A w \in Threads : frame'[w].pc \in Setting /\ frame'[w].var = frame'[u].var => w = u
      BY <2>4, <3>1 DEF Told
    <3>3. CASE u = t
      <4>1. ASSUME NEW j \in m_cbs[x], j <= k
            PROVE  seen'[x][j] = frame[t].new
        <5>1. j \in Nat /\ j \in Keys /\ frame[t].key \in Nat
          BY <1>0, <1>0a, <2>2
        <5>2. CASE j = k
          BY <2>5, <5>2
        <5>3. CASE j # k
          <6>1. j <= frame[t].key
            BY <4>1, <5>1, <5>3, <2>1, <2>2, <2>3 DEF Remaining
          <6>2. seen[x][j] = frame[t].new
            BY <6>1, <3>1, <3>3, <2>2 DEF Told
          <6>3. QED
            BY <6>2, <5>1, <5>3, <2>5
        <5>4. QED
          BY <5>2, <5>3
      <4>2. QED
        BY <3>2, <3>3, <4>1, <2>2, <2>4 DEF Told
    <3>4. CASE u # t
      <4>1. frame[u].var \in Vars /\ frame[u].var # x
        BY <3>1, <3>4, <2>2, <1>0 DEF Told, Setting
      <4>2. QED
        BY <3>1, <3>2, <3>4, <4>1, <2>2, <2>4, <2>5 DEF Told
    <3>5. QED
      BY <3>3, <3>4
  <2>7. ASSUME NEW y \in Vars, AtRest(y)', settled'[y]
        PROVE  \A j \in m_cbs'[y] : seen'[y][j] \in {NoValue, m_val'[y]}
    <3>1. AtRest(y) /\ y # x
      BY <2>2, <2>4, <2>7 DEF AtRest
    <3>2. QED
      BY <2>2, <2>5, <2>7, <3>1 DEF ListenersUpToDate
  <2>8. QED
    BY <2>6, <2>7 DEF ToldInv, Told, ListenersUpToDate
<1>9. ASSUME NEW t \in Threads, frame[t].pc \in Setting, frame'[t] = Idle,
             \A u \in Threads : u # t => frame'[u] = frame[u],
             UNCHANGED <<m_cbs, seen, alone>>,
             \A y \in Vars : y # frame[t].var => m_val'[y] = m_val[y] /\ settled'[y] = settled[y],
             settled'[frame[t].var] =>
               t \in alone /\ frame[t].pc # "notify" /\ m_val'[frame[t].var] = frame[t].new
      PROVE  Goal
  <2> DEFINE x == frame[t].var
  <2>1. ASSUME NEW u \in Threads, u \in alone', frame'[u].pc \in Setting
        PROVE  Told(u)'
    <3>1. u # t /\ frame'[u] = frame[u]
      BY <1>9, <2>1 DEF Idle, Setting
    <3>2. \A w \in Threads : frame'[w].pc \in Setting => frame[w].pc \in Setting /\ frame'[w] = frame[w]
      BY <1>9 DEF Idle, Setting
    <3>3. Told(u)
      BY DEF ToldInv
    <3>4. QED
      BY <1>9, <2>1, <3>1, <3>2, <3>3 DEF Told
  <2>2. ASSUME NEW y \in Vars, AtRest(y)', settled'[y], NEW k \in m_cbs'[y]
        PROVE  seen'[y][k] \in {NoValue, m_val'[y]}
    <3>1. CASE y # x
      <4>1. AtRest(y)
        BY <1>9, <2>2, <3>1 DEF AtRest
      <4>2. QED
        BY <1>9, <2>2, <3>1, <4>1 DEF ListenersUpToDate
    <3>2. CASE y = x
      <4>1. Told(t)
        BY DEF ToldInv
      <4>2. QED
        BY <1>9, <2>2, <3>2, <4>1 DEF Told
    <3>3. QED
      BY <3>1, <3>2
  <2>3. QED
    BY <2>1, <2>2 DEF ToldInv, Told, ListenersUpToDate
<1>10. ASSUME NEW t \in Threads, notifyThrows(t)
       PROVE  Goal
  <2>1. frame[t].pc \in Setting /\ frame'[t] = Idle /\ frame[t].var \in Vars
    BY <1>10, <1>0 DEF notifyThrows, Setting
  <2>2. /\ \A u \in Threads : u # t => frame'[u] = frame[u]
        /\ ~settled'[frame[t].var]
        /\ \A y \in Vars : y # frame[t].var => settled'[y] = settled[y]
        /\ UNCHANGED <<m_val, m_cbs, seen, alone>>
    BY <1>10, <1>0, <2>1 DEF notifyThrows
  <2>3. QED
    BY <1>9, <2>1, <2>2
<1>11. ASSUME NEW t \in Threads, assignEnd(t)
       PROVE  Goal
  <2>1. frame[t].pc = "assign" /\ frame[t].pc \in Setting /\ frame'[t] = Idle /\ frame[t].var \in Vars
    BY <1>11, <1>0 DEF assignEnd, Setting
  <2>2. /\ \A u \in Threads : u # t => frame'[u] = frame[u]
        /\ settled'[frame[t].var] = (t \in alone) /\ m_val'[frame[t].var] = frame[t].new
        /\ \A y \in Vars : y # frame[t].var => m_val'[y] = m_val[y] /\ settled'[y] = settled[y]
        /\ UNCHANGED <<m_cbs, seen, alone>>
    BY <1>11, <1>0, <2>1 DEF assignEnd
  <2>3. QED
    BY <1>9, <2>1, <2>2
<1>12. ASSUME NEW t \in Threads, notifyDone(t) \/ assignBegin(t)
       PROVE  Goal
  <2> DEFINE x == frame[t].var
  <2>1. /\ frame[t].pc \in Setting /\ x \in Vars
        /\ frame'[t].pc \in {"wrlock", "assign"} /\ frame'[t].var = x /\ frame'[t].new = frame[t].new
        /\ \A u \in Threads : u # t => frame'[u] = frame[u]
        /\ \A u \in Threads : frame'[u].var = frame[u].var /\ (frame'[u].pc \in Setting <=> frame[u].pc \in Setting)
        /\ \A y \in Vars : y # x => m_val'[y] = m_val[y]
        /\ UNCHANGED <<m_cbs, seen, alone, settled>>
    BY <1>12, <1>0 DEF notifyDone, assignBegin, Setting, Frame
  <2>2. ASSUME NEW k \in m_cbs[x], t \in alone
        PROVE  seen[x][k] \in {NoValue, frame[t].new}
    <3>1. Told(t) /\ frame[t].pc \in Setting
      BY <2>1 DEF ToldInv
    <3>2. CASE frame[t].pc = "notify"
      <4>1. Remaining(t) = {} /\ k \in Nat /\ frame[t].key \in Nat
        BY <1>12, <3>2, <2>1, <1>0, <1>0a DEF notifyDone, assignBegin
      <4>2. k <= frame[t].key
        BY <4>1 DEF Remaining
      <4>3. QED
        BY <2>2, <3>1, <3>2, <4>2 DEF Told
    <3>3. CASE frame[t].pc # "notify"
      BY <2>2, <3>1, <3>3 DEF Told
    <3>4. QED
      BY <3>2, <3>3
  <2>3. ASSUME NEW u \in Threads, u \in alone', frame'[u].pc \in Setting
        PROVE  Told(u)'
    <3>1. Told(u) /\ u \in alone /\ frame[u].pc \in Setting
      BY <2>1, <2>3 DEF ToldInv
    <3>2. \A w \in Threads : frame'[w].pc \in Setting /\ frame'[w].var = frame'[u].var => w = u
      BY <2>1, <3>1 DEF Told
    <3>3. CASE u = t
      BY <2>1, <2>2, <3>1, <3>2, <3>3 DEF Told
    <3>4. CASE u # t
      BY <2>1, <3>1, <3>2, <3>4 DEF Told
    <3>5. QED
      BY <3>3, <3>4
  <2>4. ASSUME NEW y \in Vars, AtRest(y)', settled'[y]
        PROVE  \A k \in m_cbs'[y] : seen'[y][k] \in {NoValue, m_val'[y]}
    <3>1. AtRest(y) /\ y # x
      BY <2>1, <2>4 DEF AtRest, Setting
    <3>2. QED
      BY <2>1, <2>4, <3>1 DEF ListenersUpToDate
  <2>5. QED
    BY <2>3, <2>4 DEF ToldInv, Told, ListenersUpToDate
<1>13. ASSUME NEW t \in Threads, addIncrement(t)
       PROVE  Goal
  BY <1>13, <1>0, OutsideTold DEF addIncrement, Setting, Frame
<1>14. ASSUME NEW t \in Threads, addInsert(t)
       PROVE  Goal
  <2> DEFINE x == frame[t].var
  <2>1. /\ frame[t].pc = "insert" /\ x \in Vars /\ frame'[t].pc = "result"
        /\ \A u \in Threads : u # t => frame'[u] = frame[u]
        /\ UNCHANGED <<m_val, alone, settled>>
        /\ m_cbs' = [m_cbs EXCEPT ![x] = @ \cup {s_fun_id}]
        /\ seen' = [seen EXCEPT ![x][s_fun_id] = NoValue]
    BY <1>14, <1>0 DEF addInsert, Frame
  <2>2. s_fun_id \in Keys
    <3>1. s_fun_id \in 0 .. MaxListeners /\ s_fun_id >= 1
      BY <2>1 DEF IInv, TypeOK, FrameInv
    <3>2. QED
      BY <3>1, ConfigVarAssumption DEF Keys
  <2>3. \A u \in Threads : ~(frame[u].pc = "notify" /\ frame[u].var = x)
    <3>1. m_mutex[x].writer = t /\ t # NoThread
      BY <2>1, NoThreadAssumption DEF IInv, LockInv, Exclusive
    <3>2. m_mutex[x].readers = {}
      BY <2>1, <3>1 DEF IInv, LockInv
    <3>3. QED
      BY <2>1, <3>2 DEF IInv, LockInv
  <2>4. ASSUME NEW y \in Vars, NEW k \in m_cbs'[y]
        PROVE  \/ k \in m_cbs[y] /\ seen'[y][k] = seen[y][k]
               \/ /\ seen'[y][k] = NoValue
                  /\ \A u \in Threads : ~(frame[u].pc = "notify" /\ frame[u].var = y)
    <3>1. CASE y # x
      BY <2>1, <2>4, <3>1, <1>0
    <3>2. CASE y = x /\ k = s_fun_id
      BY <2>1, <2>2, <2>3, <3>2, <1>0
    <3>3. CASE y = x /\ k # s_fun_id
      BY <2>1, <2>2, <2>4, <3>3, <1>0
    <3>4. QED
      BY <3>1, <3>2, <3>3
  <2>5. QED
    BY <2>1, <2>4, OutsideTold DEF Setting
<1>15. ASSUME NEW t \in Threads, addReturn(t)
       PROVE  Goal
  BY <1>15, <1>0, OutsideTold DEF addReturn, Setting, Idle
<1>16. CASE UNCHANGED vars
  BY <1>16 DEF vars, ToldInv, Told, ListenersUpToDate, AtRest
<1>17. QED
  BY <1>1, <1>2, <1>3, <1>4, <1>5, <1>6, <1>7, <1>8, <1>10, <1>11, <1>12, <1>13, <1>14, <1>15, <1>16
  DEF Next, Call, Continue, toString

\* IInv is an invariant.
LEMMA Invariance == Spec => []IInv
<1>1. IInv /\ [Next]_vars => IInv'
  BY StepType, StepLock, StepValue DEF IInv
<1>2. QED
  BY InitInv, <1>1, PTL DEF Spec

------------------------------------------------------------------------------
\* The variables of every ConfigVar keep their types.
THEOREM TypeCorrect == Spec => []TypeOK
  BY Invariance, PTL DEF IInv

\* getValue, the comparison in setValue and the listeners never see a value that
\* is being assigned, whatever the number of threads.
THEOREM ReadersSeeWholeValues == Spec => []NoTornRead
<1>1. IInv => NoTornRead
  <2> SUFFICES ASSUME IInv, NEW t \in Threads, frame[t].pc = "notify"
               PROVE  m_val[frame[t].var] # Torn /\ frame[t].old # Torn
    BY DEF NoTornRead, IInv, ValueInv
  <2>1. frame[t].var \in Vars /\ t \in m_mutex[frame[t].var].readers
    BY DEF IInv, FrameInv, LockInv
  <2>2. \A u \in Threads : ~(frame[u].pc = "assign" /\ frame[u].var = frame[t].var)
    BY <2>1, NoThreadAssumption DEF IInv, LockInv, Exclusive
  <2>3. m_val[frame[t].var] # Torn
    BY <2>1, <2>2 DEF IInv, ValueInv
  <2>4. QED
    BY <2>3 DEF IInv, ValueInv, ListenersHearOneChange
<1>2. QED
  BY Invariance, <1>1, PTL

\* All listeners of one setValue are told the same old value, and only of a change.
THEOREM OneChange == Spec => []ListenersHearOneChange
<1>1. IInv => ListenersHearOneChange
  BY DEF IInv, ValueInv
<1>2. QED
  BY Invariance, <1>1, PTL

\* addListener, delListener and clearListener never touch the map under the
\* iterator of a setValue.
THEOREM IteratorsStayValid == Spec => IteratorValid
<1>1. IInv /\ [Next]_vars => [MapKept]_vars
  <2> SUFFICES ASSUME IInv, Next, NEW u \in Threads, frame[u].pc = "notify"
               PROVE  m_cbs'[frame[u].var] = m_cbs[frame[u].var]
    BY DEF MapKept, vars
  <2>1. frame[u].var \in Vars /\ u \in m_mutex[frame[u].var].readers
    BY DEF IInv, FrameInv, LockInv
  <2>2. ASSUME NEW t \in Threads, addInsert(t)
        PROVE  frame[t].var # frame[u].var
    BY <2>1, <2>2, NoThreadAssumption DEF addInsert, At, IInv, FrameInv, LockInv, Exclusive
  <2>3. ASSUME NEW x \in Vars, CanWrLock(m_mutex[x])
        PROVE  x # frame[u].var
    BY <2>1, <2>3 DEF CanWrLock
  <2>4. m_cbs \in [Vars -> SUBSET Keys]
    BY DEF IInv, TypeOK
  <2>5. QED
    BY <2>1, <2>2, <2>3, <2>4
    DEF Next, Call, Continue, setValueSame, setValueDiffers, getValue, toString, addListener,
        delListener, getListener, clearListener, notify, notifyThrows, notifyDone, assignBegin, assignEnd,
        addIncrement, addInsert, addReturn
<1>2. QED
  BY Invariance, <1>1, PTL DEF Spec, IteratorValid

\* While type T has a single variable, its listener keys are unique and addListener
\* returns the key it stored the listener under.  (With two variables of one type
\* neither holds: they share s_fun_id but not the lock.)
THEOREM KeysOfOneVariable ==
  ASSUME \A y, z \in Vars : y = z
  PROVE  Spec => []KeyOwned
<1>1. Init => \A z \in Vars : KeyInv(z)
  BY DEF Init, KeyInv, Idle
<1>2. IInv /\ (\A z \in Vars : KeyInv(z)) /\ [Next]_vars => (\A z \in Vars : KeyInv(z))'
  BY StepKeys
<1>3. IInv /\ (\A z \in Vars : KeyInv(z)) => KeyOwned
  BY DEF KeyInv, KeyOwned, KeyUnique, KeyReturned, IInv, FrameInv
<1>4. QED
  BY Invariance, <1>1, <1>2, <1>3, PTL DEF Spec

\* After a change that overlapped with no other setValue and in which no listener
\* threw, every listener told of anything was last told of the value the variable has,
\* whatever the number of threads, variables and listeners.
THEOREM ListenersKept == Spec => []ListenersUpToDate
<1>1. Init => ToldInv /\ ListenersUpToDate
  BY DEF Init, ToldInv, Told, ListenersUpToDate, Idle, Setting
<1>2. IInv /\ (ToldInv /\ ListenersUpToDate) /\ [Next]_vars => (ToldInv /\ ListenersUpToDate)'
  BY StepTold
<1>3. QED
  BY Invariance, <1>1, <1>2, PTL DEF Spec
==============================================================================
