----------------------------- MODULE ThreadProofs -----------------------------
(***************************************************************************)
(* Theorems about the classes of thread.h: Thread, and the guard of Mutex, *)
(* Spinlock and CASLock.                                                   *)
(*                                                                         *)
(* Thread, for any set of objects and any nesting of callbacks: the        *)
(* invariant says, for every stage of an object's life, how far run() can  *)
(* be and what it has written by then, and that a blocked thread is the    *)
(* owner of the object it waits for.                                       *)
(*                                                                         *)
(* The guard, for any number of threads and calls: the flag is set exactly *)
(* while some guard has m_locked set, no two guards have, a guard is not   *)
(* locked before its constructor has locked it, and a thread that is       *)
(* between its load and its store has loaded the current count.            *)
(***************************************************************************)
EXTENDS Thread, Locks, TLAPS

\* How far run() is, by the stage of the object.
StageInv ==
  \A o \in Objects :
    /\ obj[o] = "none" =>
         pc[o] = "none" /\ ~m_cb[o] /\ m_semaphore[o] = 0 /\ handle[o] = "none" /\ owner[o] = null
    /\ obj[o] = "constructing" => pc[o] # "none" /\ m_thread[o] /\ handle[o] = "joinable"
    /\ obj[o] \in {"live", "destroyed"} => pc[o] \in {"cb", "exited"} /\ m_semaphore[o] = 0
    /\ obj[o] = "live" => handle[o] \in {"joinable", "joined"}

\* What run() has written when it gets there.
RunInv ==
  \A o \in Objects :
    /\ pc[o] \in {"none", "entry"} => t_thread[o] = null
    /\ pc[o] \in {"swap", "notify", "cb", "exited"} => m_id[o] = o /\ t_thread[o] = o
    /\ pc[o] \in {"notify", "cb", "exited"} => ~m_cb[o]
    /\ pc[o] \in {"none", "entry", "swap", "notify"} => m_semaphore[o] = 0

\* Who waits for what.
BlockedInv ==
  /\ \A a \in Actors :
       /\ blocked[a].call = "wait" => obj[blocked[a].on] = "constructing" /\ owner[blocked[a].on] = a
       /\ blocked[a].call = "join" =>
            obj[blocked[a].on] = "live" /\ owner[blocked[a].on] = a /\ handle[blocked[a].on] = "joinable"
  /\ t_thread[main] = null

IInv ==
  /\ TypeOK /\ StageInv /\ RunInv /\ BlockedInv
  /\ HandleReleasedOnce /\ RunTouchesLiveObject /\ NameAgrees

------------------------------------------------------------------------------
\* Init establishes the invariant.
LEMMA InitInv == Init => IInv
  BY ThreadAssumption
  DEF Init, IInv, TypeOK, StageInv, RunInv, BlockedInv, HandleReleasedOnce, RunTouchesLiveObject,
      NameAgrees, Alive, NotBlocked, Actors

\* Every step keeps the types.
LEMMA StepType ==
  TypeOK /\ StageInv /\ RunInv /\ BlockedInv /\ [Next]_vars => TypeOK'
<1> SUFFICES ASSUME TypeOK, StageInv, RunInv, BlockedInv, [Next]_vars
             PROVE  TypeOK'
    OBVIOUS
<1> USE ThreadAssumption DEF TypeOK, Actors, NotBlocked, Runs, Alive, Touch, StageInv, RunInv, BlockedInv
<1>1. ASSUME NEW a \in Actors, NEW o \in Objects, NEW name \in Names \cup {Empty}, Construct(a, o, name)
     PROVE  TypeOK'
  BY <1>1 DEF Construct
<1>2. ASSUME NEW a \in Actors, NEW o \in Objects, ConstructFails(a, o)
     PROVE  TypeOK'
  BY <1>2 DEF ConstructFails
<1>3. ASSUME NEW a \in Actors, wait(a)
     PROVE  TypeOK'
  BY <1>3 DEF wait
<1>4. ASSUME NEW a \in Actors, waitInterrupted(a)
     PROVE  TypeOK'
  BY <1>4 DEF waitInterrupted
<1>5. ASSUME NEW o \in Objects, runInit(o)
     PROVE  TypeOK'
  BY <1>5 DEF runInit
<1>6. ASSUME NEW o \in Objects, runSwap(o)
     PROVE  TypeOK'
  BY <1>6 DEF runSwap
<1>7. ASSUME NEW o \in Objects, runNotify(o)
     PROVE  TypeOK'
  BY <1>7 DEF runNotify
<1>8. ASSUME NEW o \in Objects, runReturn(o)
     PROVE  TypeOK'
  BY <1>8 DEF runReturn
<1>9. ASSUME NEW a \in Actors, NEW name \in Names, SetName(a, name)
     PROVE  TypeOK'
  BY <1>9 DEF SetName
<1>10. ASSUME NEW a \in Actors, NEW o \in Objects, join(a, o)
     PROVE  TypeOK'
  BY <1>10 DEF join
<1>11. ASSUME NEW a \in Actors, joinReturn(a)
     PROVE  TypeOK'
  BY <1>11 DEF joinReturn
<1>12. ASSUME NEW a \in Actors, NEW o \in Objects, Destroy(a, o)
     PROVE  TypeOK'
  BY <1>12 DEF Destroy
<1>13. CASE UNCHANGED vars
  BY <1>13 DEF vars
<1>14. QED
  BY <1>1, <1>2, <1>3, <1>4, <1>5, <1>6, <1>7, <1>8, <1>9, <1>10, <1>11, <1>12, <1>13
  DEF Next, User, Wake, run

\* Every step keeps the stages.
LEMMA StepStage ==
  TypeOK /\ StageInv /\ RunInv /\ BlockedInv /\ [Next]_vars => StageInv'
<1> SUFFICES ASSUME TypeOK, StageInv, RunInv, BlockedInv, [Next]_vars
             PROVE  StageInv'
    OBVIOUS
<1> USE ThreadAssumption DEF TypeOK, Actors, NotBlocked, Runs, Alive, Touch, StageInv, RunInv, BlockedInv
<1>1. ASSUME NEW a \in Actors, NEW o \in Objects, NEW name \in Names \cup {Empty}, Construct(a, o, name)
     PROVE  StageInv'
  BY <1>1 DEF Construct
<1>2. ASSUME NEW a \in Actors, NEW o \in Objects, ConstructFails(a, o)
     PROVE  StageInv'
  BY <1>2 DEF ConstructFails
<1>3. ASSUME NEW a \in Actors, wait(a)
     PROVE  StageInv'
  BY <1>3 DEF wait
<1>4. ASSUME NEW a \in Actors, waitInterrupted(a)
     PROVE  StageInv'
  BY <1>4 DEF waitInterrupted
<1>5. ASSUME NEW o \in Objects, runInit(o)
     PROVE  StageInv'
  BY <1>5 DEF runInit
<1>6. ASSUME NEW o \in Objects, runSwap(o)
     PROVE  StageInv'
  BY <1>6 DEF runSwap
<1>7. ASSUME NEW o \in Objects, runNotify(o)
     PROVE  StageInv'
  BY <1>7 DEF runNotify
<1>8. ASSUME NEW o \in Objects, runReturn(o)
     PROVE  StageInv'
  BY <1>8 DEF runReturn
<1>9. ASSUME NEW a \in Actors, NEW name \in Names, SetName(a, name)
     PROVE  StageInv'
  BY <1>9 DEF SetName
<1>10. ASSUME NEW a \in Actors, NEW o \in Objects, join(a, o)
     PROVE  StageInv'
  BY <1>10 DEF join
<1>11. ASSUME NEW a \in Actors, joinReturn(a)
     PROVE  StageInv'
  BY <1>11 DEF joinReturn
<1>12. ASSUME NEW a \in Actors, NEW o \in Objects, Destroy(a, o)
     PROVE  StageInv'
  BY <1>12 DEF Destroy
<1>13. CASE UNCHANGED vars
  BY <1>13 DEF vars
<1>14. QED
  BY <1>1, <1>2, <1>3, <1>4, <1>5, <1>6, <1>7, <1>8, <1>9, <1>10, <1>11, <1>12, <1>13
  DEF Next, User, Wake, run

\* Every step keeps what run() has written.
LEMMA StepRun ==
  TypeOK /\ StageInv /\ RunInv /\ BlockedInv /\ [Next]_vars => RunInv'
<1> SUFFICES ASSUME TypeOK, StageInv, RunInv, BlockedInv, [Next]_vars
             PROVE  RunInv'
    OBVIOUS
<1> USE ThreadAssumption DEF TypeOK, Actors, NotBlocked, Runs, Alive, Touch, StageInv, RunInv, BlockedInv
<1>1. ASSUME NEW a \in Actors, NEW o \in Objects, NEW name \in Names \cup {Empty}, Construct(a, o, name)
     PROVE  RunInv'
  BY <1>1 DEF Construct
<1>2. ASSUME NEW a \in Actors, NEW o \in Objects, ConstructFails(a, o)
     PROVE  RunInv'
  BY <1>2 DEF ConstructFails
<1>3. ASSUME NEW a \in Actors, wait(a)
     PROVE  RunInv'
  BY <1>3 DEF wait
<1>4. ASSUME NEW a \in Actors, waitInterrupted(a)
     PROVE  RunInv'
  BY <1>4 DEF waitInterrupted
<1>5. ASSUME NEW o \in Objects, runInit(o)
     PROVE  RunInv'
  BY <1>5 DEF runInit
<1>6. ASSUME NEW o \in Objects, runSwap(o)
     PROVE  RunInv'
  BY <1>6 DEF runSwap
<1>7. ASSUME NEW o \in Objects, runNotify(o)
     PROVE  RunInv'
  BY <1>7 DEF runNotify
<1>8. ASSUME NEW o \in Objects, runReturn(o)
     PROVE  RunInv'
  BY <1>8 DEF runReturn
<1>9. ASSUME NEW a \in Actors, NEW name \in Names, SetName(a, name)
     PROVE  RunInv'
  BY <1>9 DEF SetName
<1>10. ASSUME NEW a \in Actors, NEW o \in Objects, join(a, o)
     PROVE  RunInv'
  BY <1>10 DEF join
<1>11. ASSUME NEW a \in Actors, joinReturn(a)
     PROVE  RunInv'
  BY <1>11 DEF joinReturn
<1>12. ASSUME NEW a \in Actors, NEW o \in Objects, Destroy(a, o)
     PROVE  RunInv'
  BY <1>12 DEF Destroy
<1>13. CASE UNCHANGED vars
  BY <1>13 DEF vars
<1>14. QED
  BY <1>1, <1>2, <1>3, <1>4, <1>5, <1>6, <1>7, <1>8, <1>9, <1>10, <1>11, <1>12, <1>13
  DEF Next, User, Wake, run

\* Every step keeps the waits with the owners.
LEMMA StepBlocked ==
  TypeOK /\ StageInv /\ RunInv /\ BlockedInv /\ HandleReleasedOnce /\ [Next]_vars => BlockedInv'
<1> SUFFICES ASSUME TypeOK, StageInv, RunInv, BlockedInv, HandleReleasedOnce, [Next]_vars
             PROVE  BlockedInv'
    OBVIOUS
<1> USE ThreadAssumption DEF TypeOK, Actors, NotBlocked, Runs, Alive, Touch, StageInv, RunInv, BlockedInv, HandleReleasedOnce
<1>1. ASSUME NEW a \in Actors, NEW o \in Objects, NEW name \in Names \cup {Empty}, Construct(a, o, name)
     PROVE  BlockedInv'
  BY <1>1 DEF Construct
<1>2. ASSUME NEW a \in Actors, NEW o \in Objects, ConstructFails(a, o)
     PROVE  BlockedInv'
  BY <1>2 DEF ConstructFails
<1>3. ASSUME NEW a \in Actors, wait(a)
     PROVE  BlockedInv'
  BY <1>3 DEF wait
<1>4. ASSUME NEW a \in Actors, waitInterrupted(a)
     PROVE  BlockedInv'
  BY <1>4 DEF waitInterrupted
<1>5. ASSUME NEW o \in Objects, runInit(o)
     PROVE  BlockedInv'
  BY <1>5 DEF runInit
<1>6. ASSUME NEW o \in Objects, runSwap(o)
     PROVE  BlockedInv'
  BY <1>6 DEF runSwap
<1>7. ASSUME NEW o \in Objects, runNotify(o)
     PROVE  BlockedInv'
  BY <1>7 DEF runNotify
<1>8. ASSUME NEW o \in Objects, runReturn(o)
     PROVE  BlockedInv'
  BY <1>8 DEF runReturn
<1>9. ASSUME NEW a \in Actors, NEW name \in Names, SetName(a, name)
     PROVE  BlockedInv'
  BY <1>9 DEF SetName
<1>10. ASSUME NEW a \in Actors, NEW o \in Objects, join(a, o)
     PROVE  BlockedInv'
  BY <1>10 DEF join
<1>11. ASSUME NEW a \in Actors, joinReturn(a)
     PROVE  BlockedInv'
  BY <1>11 DEF joinReturn
<1>12. ASSUME NEW a \in Actors, NEW o \in Objects, Destroy(a, o)
     PROVE  BlockedInv'
  BY <1>12 DEF Destroy
<1>13. CASE UNCHANGED vars
  BY <1>13 DEF vars
<1>14. QED
  BY <1>1, <1>2, <1>3, <1>4, <1>5, <1>6, <1>7, <1>8, <1>9, <1>10, <1>11, <1>12, <1>13
  DEF Next, User, Wake, run

\* Every step keeps the handles and the objects together.
LEMMA StepHandle ==
  TypeOK /\ StageInv /\ RunInv /\ BlockedInv /\ HandleReleasedOnce /\ [Next]_vars => HandleReleasedOnce'
<1> SUFFICES ASSUME TypeOK, StageInv, RunInv, BlockedInv, HandleReleasedOnce, [Next]_vars
             PROVE  HandleReleasedOnce'
    OBVIOUS
<1> USE ThreadAssumption DEF TypeOK, Actors, NotBlocked, Runs, Alive, Touch, StageInv, RunInv, BlockedInv, HandleReleasedOnce
<1>1. ASSUME NEW a \in Actors, NEW o \in Objects, NEW name \in Names \cup {Empty}, Construct(a, o, name)
     PROVE  HandleReleasedOnce'
  BY <1>1 DEF Construct
<1>2. ASSUME NEW a \in Actors, NEW o \in Objects, ConstructFails(a, o)
     PROVE  HandleReleasedOnce'
  BY <1>2 DEF ConstructFails
<1>3. ASSUME NEW a \in Actors, wait(a)
     PROVE  HandleReleasedOnce'
  BY <1>3 DEF wait
<1>4. ASSUME NEW a \in Actors, waitInterrupted(a)
     PROVE  HandleReleasedOnce'
  BY <1>4 DEF waitInterrupted
<1>5. ASSUME NEW o \in Objects, runInit(o)
     PROVE  HandleReleasedOnce'
  BY <1>5 DEF runInit
<1>6. ASSUME NEW o \in Objects, runSwap(o)
     PROVE  HandleReleasedOnce'
  BY <1>6 DEF runSwap
<1>7. ASSUME NEW o \in Objects, runNotify(o)
     PROVE  HandleReleasedOnce'
  BY <1>7 DEF runNotify
<1>8. ASSUME NEW o \in Objects, runReturn(o)
     PROVE  HandleReleasedOnce'
  BY <1>8 DEF runReturn
<1>9. ASSUME NEW a \in Actors, NEW name \in Names, SetName(a, name)
     PROVE  HandleReleasedOnce'
  BY <1>9 DEF SetName
<1>10. ASSUME NEW a \in Actors, NEW o \in Objects, join(a, o)
     PROVE  HandleReleasedOnce'
  BY <1>10 DEF join
<1>11. ASSUME NEW a \in Actors, joinReturn(a)
     PROVE  HandleReleasedOnce'
  BY <1>11 DEF joinReturn
<1>12. ASSUME NEW a \in Actors, NEW o \in Objects, Destroy(a, o)
     PROVE  HandleReleasedOnce'
  BY <1>12 DEF Destroy
<1>13. CASE UNCHANGED vars
  BY <1>13 DEF vars
<1>14. QED
  BY <1>1, <1>2, <1>3, <1>4, <1>5, <1>6, <1>7, <1>8, <1>9, <1>10, <1>11, <1>12, <1>13
  DEF Next, User, Wake, run

\* No step of run() leaves the lifetime of the object, unless the constructor threw.
LEMMA StepTouch ==
  TypeOK /\ StageInv /\ RunInv /\ BlockedInv /\ RunTouchesLiveObject /\ [Next]_vars => RunTouchesLiveObject'
<1> SUFFICES ASSUME TypeOK, StageInv, RunInv, BlockedInv, RunTouchesLiveObject, [Next]_vars
             PROVE  RunTouchesLiveObject'
    OBVIOUS
<1> USE ThreadAssumption DEF TypeOK, Actors, NotBlocked, Runs, Alive, Touch, StageInv, RunInv, BlockedInv, RunTouchesLiveObject
<1>1. ASSUME NEW a \in Actors, NEW o \in Objects, NEW name \in Names \cup {Empty}, Construct(a, o, name)
     PROVE  RunTouchesLiveObject'
  BY <1>1 DEF Construct
<1>2. ASSUME NEW a \in Actors, NEW o \in Objects, ConstructFails(a, o)
     PROVE  RunTouchesLiveObject'
  BY <1>2 DEF ConstructFails
<1>3. ASSUME NEW a \in Actors, wait(a)
     PROVE  RunTouchesLiveObject'
  BY <1>3 DEF wait
<1>4. ASSUME NEW a \in Actors, waitInterrupted(a)
     PROVE  RunTouchesLiveObject'
  BY <1>4 DEF waitInterrupted
<1>5. ASSUME NEW o \in Objects, runInit(o)
     PROVE  RunTouchesLiveObject'
  BY <1>5 DEF runInit
<1>6. ASSUME NEW o \in Objects, runSwap(o)
     PROVE  RunTouchesLiveObject'
  BY <1>6 DEF runSwap
<1>7. ASSUME NEW o \in Objects, runNotify(o)
     PROVE  RunTouchesLiveObject'
  BY <1>7 DEF runNotify
<1>8. ASSUME NEW o \in Objects, runReturn(o)
     PROVE  RunTouchesLiveObject'
  BY <1>8 DEF runReturn
<1>9. ASSUME NEW a \in Actors, NEW name \in Names, SetName(a, name)
     PROVE  RunTouchesLiveObject'
  BY <1>9 DEF SetName
<1>10. ASSUME NEW a \in Actors, NEW o \in Objects, join(a, o)
     PROVE  RunTouchesLiveObject'
  BY <1>10 DEF join
<1>11. ASSUME NEW a \in Actors, joinReturn(a)
     PROVE  RunTouchesLiveObject'
  BY <1>11 DEF joinReturn
<1>12. ASSUME NEW a \in Actors, NEW o \in Objects, Destroy(a, o)
     PROVE  RunTouchesLiveObject'
  BY <1>12 DEF Destroy
<1>13. CASE UNCHANGED vars
  BY <1>13 DEF vars
<1>14. QED
  BY <1>1, <1>2, <1>3, <1>4, <1>5, <1>6, <1>7, <1>8, <1>9, <1>10, <1>11, <1>12, <1>13
  DEF Next, User, Wake, run

\* Every step keeps the two names of a thread together.
LEMMA StepName ==
  TypeOK /\ StageInv /\ RunInv /\ BlockedInv /\ NameAgrees /\ [Next]_vars => NameAgrees'
<1> SUFFICES ASSUME TypeOK, StageInv, RunInv, BlockedInv, NameAgrees, [Next]_vars
             PROVE  NameAgrees'
    OBVIOUS
<1> USE ThreadAssumption DEF TypeOK, Actors, NotBlocked, Runs, Alive, Touch, StageInv, RunInv, BlockedInv, NameAgrees
<1>1. ASSUME NEW a \in Actors, NEW o \in Objects, NEW name \in Names \cup {Empty}, Construct(a, o, name)
     PROVE  NameAgrees'
  BY <1>1 DEF Construct
<1>2. ASSUME NEW a \in Actors, NEW o \in Objects, ConstructFails(a, o)
     PROVE  NameAgrees'
  BY <1>2 DEF ConstructFails
<1>3. ASSUME NEW a \in Actors, wait(a)
     PROVE  NameAgrees'
  BY <1>3 DEF wait
<1>4. ASSUME NEW a \in Actors, waitInterrupted(a)
     PROVE  NameAgrees'
  BY <1>4 DEF waitInterrupted
<1>5. ASSUME NEW o \in Objects, runInit(o)
     PROVE  NameAgrees'
  BY <1>5 DEF runInit
<1>6. ASSUME NEW o \in Objects, runSwap(o)
     PROVE  NameAgrees'
  BY <1>6 DEF runSwap
<1>7. ASSUME NEW o \in Objects, runNotify(o)
     PROVE  NameAgrees'
  BY <1>7 DEF runNotify
<1>8. ASSUME NEW o \in Objects, runReturn(o)
     PROVE  NameAgrees'
  BY <1>8 DEF runReturn
<1>9. ASSUME NEW a \in Actors, NEW name \in Names, SetName(a, name)
     PROVE  NameAgrees'
  BY <1>9 DEF SetName
<1>10. ASSUME NEW a \in Actors, NEW o \in Objects, join(a, o)
     PROVE  NameAgrees'
  BY <1>10 DEF join
<1>11. ASSUME NEW a \in Actors, joinReturn(a)
     PROVE  NameAgrees'
  BY <1>11 DEF joinReturn
<1>12. ASSUME NEW a \in Actors, NEW o \in Objects, Destroy(a, o)
     PROVE  NameAgrees'
  BY <1>12 DEF Destroy
<1>13. CASE UNCHANGED vars
  BY <1>13 DEF vars
<1>14. QED
  BY <1>1, <1>2, <1>3, <1>4, <1>5, <1>6, <1>7, <1>8, <1>9, <1>10, <1>11, <1>12, <1>13
  DEF Next, User, Wake, run

\* IInv is an invariant.
LEMMA Invariance == Spec => []IInv
<1>1. IInv /\ [Next]_vars => IInv'
  BY StepType, StepName, StepStage, StepRun, StepBlocked, StepHandle, StepTouch DEF IInv
<1>2. QED
  BY InitInv, <1>1, PTL DEF Spec

------------------------------------------------------------------------------
\* The variables of every Thread keep their types.
THEOREM TypeCorrect == Spec => []TypeOK
  BY Invariance, PTL DEF IInv

\* A constructor that has returned leaves an object run() has finished with.
THEOREM HandshakeHolds == Spec => []HandshakeComplete
<1>1. IInv => HandshakeComplete
  BY DEF IInv, StageInv, RunInv, HandshakeComplete
<1>2. QED
  BY Invariance, <1>1, PTL

\* run() never accesses a destroyed object.
THEOREM NoUseAfterDestroy == Spec => []RunTouchesLiveObject
  BY Invariance, PTL DEF IInv

\* Every handle is joined or detached once, never both and never twice.
THEOREM HandlesHold == Spec => []HandleReleasedOnce
  BY Invariance, PTL DEF IInv

\* getName() of a living object and GetName() in its thread agree.
THEOREM NamesHold == Spec => []NameAgrees
  BY Invariance, PTL DEF IInv
------------------------------------------------------------------------------
(***************************************************************************)
(* The guard                                                               *)
(***************************************************************************)
LocksTypeOK ==
  /\ kind \in Kinds
  /\ m_mutex \in BOOLEAN
  /\ m_locked \in [Threads -> BOOLEAN]
  /\ at \in [Threads -> {"out", "lock", "scope", "add"}]
  /\ count \in Nat
  /\ loaded \in [Threads -> Nat]
  /\ added \in Nat

FlagIsHeld == m_mutex <=> \E t \in Threads : m_locked[t]

Exclusive == \A t, u \in Threads : m_locked[t] /\ m_locked[u] => t = u

LockedInScope ==
  \A t \in Threads :
    /\ at[t] \in {"out", "lock"} => ~m_locked[t]
    /\ at[t] = "add" => m_locked[t] /\ loaded[t] = count

LocksIInv == LocksTypeOK /\ FlagIsHeld /\ Exclusive /\ LockedInScope /\ NoLostUpdate

LEMMA InitIInv == LocksInit => LocksIInv
<1> SUFFICES ASSUME LocksInit PROVE LocksIInv
  OBVIOUS
<1>1. \A t \in Threads : m_locked[t] = FALSE /\ at[t] = "out"
  BY DEF LocksInit
<1>2. LocksTypeOK
  BY DEF LocksInit, LocksTypeOK
<1>3. FlagIsHeld /\ Exclusive
  BY <1>1 DEF LocksInit, FlagIsHeld, Exclusive
<1>4. LockedInScope /\ NoLostUpdate
  BY <1>1 DEF LocksInit, LockedInScope, NoLostUpdate
<1> QED BY <1>2, <1>3, <1>4 DEF LocksIInv

\* The steps that leave every guard as it was.
LEMMA StepsOutside ==
  ASSUME LocksIInv, NEW t \in Threads, construct(t) \/ lock(t) \/ load(t) \/ store(t)
  PROVE  LocksIInv'
<1> USE DEF LocksIInv, LocksTypeOK, FlagIsHeld, Exclusive, LockedInScope, NoLostUpdate
<1>1. CASE construct(t)
  BY <1>1 DEF construct, Enter
<1>2. CASE lock(t)
  BY <1>2 DEF lock, Enter
<1>3. CASE load(t)
  BY <1>3 DEF load, Goto
<1>4. CASE store(t)
  <2>1. m_locked[t] /\ loaded[t] = count
    BY <1>4 DEF store
  <2>2. \A u \in Threads : at[u] = "add" => u = t
    BY <2>1
  <2>3. count' = count + 1 /\ added' = added + 1
    BY <2>1, <1>4 DEF store
  <2> QED BY <1>4, <2>1, <2>2, <2>3 DEF store, Goto
<1> QED BY <1>1, <1>2, <1>3, <1>4

\* A lock is taken only while no guard has it.
LEMMA StepsLocking ==
  ASSUME LocksIInv, NEW t \in Threads, pthreadLock(t) \/ casLock(t)
  PROVE  LocksIInv'
<1> USE DEF LocksIInv, LocksTypeOK, FlagIsHeld, Exclusive, LockedInScope, NoLostUpdate
<1>1. CASE ~m_mutex
  <2>1. \A u \in Threads : ~m_locked[u]
    BY <1>1
  <2>2. /\ m_mutex' = TRUE /\ m_locked' = [m_locked EXCEPT ![t] = TRUE]
        /\ at' = [at EXCEPT ![t] = "scope"] /\ UNCHANGED <<kind, count, loaded, added>>
    BY <1>1 DEF pthreadLock, casLock, Goto
  <2> QED BY <2>1, <2>2
<1>2. CASE m_mutex
  <2>1. UNCHANGED <<kind, m_mutex, m_locked, at, count, loaded, added>>
    BY <1>2 DEF pthreadLock, casLock, Goto
  <2> QED BY <2>1
<1> QED BY <1>1, <1>2 DEF LocksIInv, LocksTypeOK

\* An unlock clears the flag only if the guard has it, and then nobody else does.
LEMMA StepsUnlocking ==
  ASSUME LocksIInv, NEW t \in Threads, unlockEarly(t) \/ destruct(t)
  PROVE  LocksIInv'
<1> USE DEF LocksIInv, LocksTypeOK, FlagIsHeld, Exclusive, LockedInScope, NoLostUpdate
<1>1. /\ at[t] = "scope" /\ at' \in {at, [at EXCEPT ![t] = "out"]}
      /\ m_mutex' = (IF m_locked[t] THEN FALSE ELSE m_mutex)
      /\ m_locked' = [m_locked EXCEPT ![t] = FALSE]
      /\ UNCHANGED <<kind, count, loaded, added>>
  BY DEF unlockEarly, destruct, unlock, Goto
<1>2. CASE m_locked[t]
  <2>1. \A u \in Threads : ~m_locked'[u]
    BY <1>1, <1>2
  <2> QED BY <1>1, <1>2, <2>1
<1>3. CASE ~m_locked[t]
  <2>1. m_locked' = m_locked /\ m_mutex' = m_mutex
    BY <1>1, <1>3
  <2> QED BY <1>1, <1>3, <2>1
<1> QED BY <1>2, <1>3

LEMMA NextIInv == LocksIInv /\ [LocksNext]_locksVars => LocksIInv'
<1> SUFFICES ASSUME LocksIInv, [LocksNext]_locksVars PROVE LocksIInv'
  OBVIOUS
<1>1. CASE UNCHANGED locksVars
  BY <1>1 DEF locksVars, LocksIInv, LocksTypeOK, FlagIsHeld, Exclusive, LockedInScope, NoLostUpdate
<1>2. ASSUME NEW t \in Threads, Call(t) \/ Continue(t) PROVE LocksIInv'
  BY <1>2, StepsOutside, StepsLocking, StepsUnlocking DEF Call, Continue
<1> QED BY <1>1, <1>2 DEF LocksNext

\* Every reachable state satisfies the invariant.
THEOREM LocksInvariance == LocksSpec => []LocksIInv
  BY InitIInv, NextIInv, PTL DEF LocksSpec

\* No increment made under the guard is lost, for any number of threads.
THEOREM IncrementsKept == LocksSpec => []NoLostUpdate
<1>1. LocksIInv => NoLostUpdate
  BY DEF LocksIInv
<1> QED BY <1>1, LocksInvariance, PTL

LEMMA InitAbstract == LocksInit => Abstract!Init
  BY DEF LocksInit, holders, Abstract!Init

\* A step takes the lock when no guard has it, releases the one guard that has it, or
\* leaves the holders as they are.
LEMMA NextAbstract == LocksIInv /\ [LocksNext]_locksVars => [Abstract!Next]_holders
<1> SUFFICES ASSUME LocksIInv, [LocksNext]_locksVars PROVE Abstract!Next \/ UNCHANGED holders
  OBVIOUS
<1> USE DEF LocksIInv, LocksTypeOK, FlagIsHeld, Exclusive, LockedInScope
<1>1. CASE UNCHANGED m_locked
  BY <1>1 DEF holders
<1>2. ASSUME NEW t \in Threads, pthreadLock(t) \/ casLock(t) PROVE Abstract!Next \/ UNCHANGED holders
  <2>1. CASE ~m_mutex
    <3>1. m_locked' = [m_locked EXCEPT ![t] = TRUE] /\ \A u \in Threads : ~m_locked[u]
      BY <1>2, <2>1 DEF pthreadLock, casLock
    <3>2. holders = {} /\ holders' = {t}
      BY <3>1 DEF holders
    <3> QED BY <3>2 DEF Abstract!Next, Abstract!Acquire
  <2>2. CASE m_mutex
    <3>1. UNCHANGED m_locked
      BY <1>2, <2>2 DEF pthreadLock, casLock
    <3> QED BY <3>1 DEF holders
  <2> QED BY <2>1, <2>2
<1>3. ASSUME NEW t \in Threads, unlockEarly(t) \/ destruct(t) PROVE Abstract!Next \/ UNCHANGED holders
  <2>1. m_locked' = [m_locked EXCEPT ![t] = FALSE]
    BY <1>3 DEF unlockEarly, destruct, unlock
  <2>2. CASE m_locked[t]
    <3>1. holders = {t} /\ holders' = {}
      BY <2>1, <2>2 DEF holders
    <3> QED BY <3>1 DEF Abstract!Next, Abstract!Release
  <2>3. CASE ~m_locked[t]
    BY <2>1, <2>3 DEF holders
  <2> QED BY <2>2, <2>3
<1>4. ASSUME NEW t \in Threads, construct(t) \/ lock(t) \/ load(t) \/ store(t) PROVE UNCHANGED m_locked
  BY <1>4 DEF construct, lock, load, store
<1> QED BY <1>1, <1>2, <1>3, <1>4 DEF LocksNext, Call, Continue, locksVars

\* Mutex, Spinlock and CASLock behind ScopedLockImpl implement the exclusive lock,
\* for any number of threads and calls.
THEOREM GuardIsExclusiveLock == LocksSpec => ImplementsExclusiveLock
  BY InitAbstract, NextAbstract, LocksInvariance, PTL
     DEF LocksSpec, ImplementsExclusiveLock, Abstract!Spec
==============================================================================
