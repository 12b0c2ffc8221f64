---------------------------- MODULE LoggerProofs -----------------------------
(***************************************************************************)
(* Theorems about Logger, for any number of threads, loggers, appenders    *)
(* and events.  The invariant says which locks a thread holds at each      *)
(* point of its call, and that whatever is in a list has a formatter.      *)
(*                                                                         *)
(* Logger implements EventBus: an event is published by the step that      *)
(* takes the lock with which its fan-out begins.  And no circle of threads *)
(* waits for each other's locks.                                           *)
(***************************************************************************)
EXTENDS Logger, SequenceTheorems, FiniteSetTheorems, TLAPS

Event == [by : Threads \cup {NoThread}, n : Nat, level : Nat, logger : Loggers]
Written == [event : Event, fmt : Formatters, written : BOOLEAN]
Frame ==
  [pc : PCs, on : Loggers, from : Loggers, pos : Nat, ap : Appenders, event : Event,
   todo : SUBSET Loggers]

\* The types of what the properties speak of; no entry written has a null formatter.
TypeInv ==
  /\ m_level \in [Loggers -> Nat]
  /\ m_formatter \in [Loggers -> Formatters]
  /\ m_appenders \in [Loggers -> Seq(Appenders)]
  /\ m_mutex \in [Loggers -> Threads \cup {NoThread}]
  /\ m_logger \subseteq Loggers
  /\ mgr_mutex \in Threads \cup {NoThread}
  /\ ap_formatter \in [Appenders -> Formatters \cup {null}]
  /\ ap_level \in [Appenders -> Nat]
  /\ m_has_Formatter \in [Appenders -> BOOLEAN]
  /\ given \in [Appenders -> Formatters \cup {null}]
  /\ out \in [Loggers -> [Appenders -> Seq(Written)]]
  /\ frame \in [Threads -> Frame]
  /\ calls \in [Threads -> Nat]

\* The locks that thread t holds at each point of its call.
LockOf(t) ==
  /\ frame[t].pc \in {"fan", "rootlevel", "unlock", "spread", "inherit"} =>
       m_mutex[frame[t].on] = t /\ m_mutex[frame[t].from] = t
  /\ frame[t].pc = "lock" /\ frame[t].on # frame[t].from => m_mutex[frame[t].from] = t
  /\ frame[t].pc = "dump" => mgr_mutex = t
  /\ frame[t].pc \in {"statement", "spread", "inherit"} => frame[t].on = frame[t].from

\* An iterator over a list is inside it, or at its end.
PosOf(t) ==
  /\ frame[t].pc = "fan" => frame[t].pos \in 1 .. Len(m_appenders[frame[t].on])
  /\ frame[t].pc = "spread" => frame[t].pos >= 1

\* Every appender in a list has a formatter.
ListInv == \A l \in Loggers : \A i \in DOMAIN m_appenders[l] : ap_formatter[m_appenders[l][i]] # null

IInv == TypeInv /\ ListInv /\ \A t \in Threads : LockOf(t) /\ PosOf(t)

\* What a step of thread t leaves alone: the other threads, and what they have locked.
Footprint(t) ==
  /\ \A u \in Threads : u # t => frame'[u] = frame[u]
  /\ \A l \in Loggers : m_mutex[l] \in Threads \ {t} =>
       m_mutex'[l] = m_mutex[l] /\ m_appenders'[l] = m_appenders[l]
  /\ mgr_mutex \in Threads \ {t} => mgr_mutex' = mgr_mutex /\ m_logger' = m_logger

\* What the record of a call of log() says of its event and of the list of the logger
\* it was called on.
Logging == {"statement", "lock", "rootlevel", "fan", "unlock"}

EventOf(t) ==
  /\ frame[t].pc \in Logging =>
       /\ t \in Users
       /\ frame[t].event.by = t /\ frame[t].event.logger = frame[t].from
       /\ frame[t].event.n = calls[t] /\ calls[t] \in 1 .. MaxEvents
  /\ frame[t].pc = "rootlevel" => frame[t].on = frame[t].from /\ m_appenders[frame[t].from] = << >>
  /\ frame[t].pc = "lock" /\ frame[t].on # frame[t].from =>
       frame[t].on = root /\ m_appenders[frame[t].from] = << >>

\* What appenders were handed of thread t: its earlier events, and the present one
\* once the fan-out has begun.
OutOf(t) ==
  \A l \in Loggers, a \in Appenders : \A i \in DOMAIN out[l][a] :
    out[l][a][i].event.by = t =>
      /\ out[l][a][i].event.n <= calls[t]
      /\ frame[t].pc \in {"statement", "lock", "rootlevel"} => out[l][a][i].event.n < calls[t]

EventInv == \A t \in Threads : EventOf(t) /\ OutOf(t)

\* The steps of t, for the event bus: those of a call of log(), and the others, which
\* hand nothing to an appender and change at most the list of one logger.
Logs(t) ==
  \/ t \in Users /\ \E l \in Loggers : \E v \in Levels : CHORD_LOG_LEVEL(t, l, v)
  \/ log(t) \/ logLock(t) \/ logRoot(t) \/ logAppender(t)
  \/ logUnlockRoot(t) \/ logUnlock(t)

ListChange(l) ==
  \/ \E a \in Appenders : m_appenders' = [m_appenders EXCEPT ![l] = Append(@, a)]
  \/ \E i \in DOMAIN m_appenders[l] :
       m_appenders' = [m_appenders EXCEPT ![l] = SubSeq(@, 1, i - 1) \o SubSeq(@, i + 1, Len(@))]
  \/ m_appenders' = [m_appenders EXCEPT ![l] = << >>]

Quiet(t) ==
  /\ frame[t].pc \notin Logging /\ frame'[t].pc \notin Logging
  /\ out' = out
  /\ calls' = calls \/ calls' = [calls EXCEPT ![t] = @ + 1]
  /\ m_appenders' = m_appenders \/ \E l \in Loggers : ListChange(l)

\* With one admin: an appender that is about to inherit has no formatter yet.
OwnInv ==
  /\ OwnFormatterKept
  /\ \A t \in Threads :
       /\ frame[t].pc = "inherit" => t \in Admins /\ ap_formatter[frame[t].ap] = null
       /\ frame[t].pc = "spread" => t \in Admins

------------------------------------------------------------------------------
\* Erasing one element leaves a list of appenders, of elements of the old one.
LEMMA Erased ==
  ASSUME NEW S, NEW s \in Seq(S), NEW i \in DOMAIN s
  PROVE  LET r == SubSeq(s, 1, i - 1) \o SubSeq(s, i + 1, Len(s))
         IN /\ r \in Seq(S)
            /\ \A k \in DOMAIN r : \E j \in DOMAIN s : r[k] = s[j]
<1> DEFINE p == SubSeq(s, 1, i - 1)
           q == SubSeq(s, i + 1, Len(s))
<1>1. i \in 1 .. Len(s) /\ Len(s) \in Nat /\ DOMAIN s = 1 .. Len(s)
  BY LenProperties
<1>2. /\ p \in Seq(S) /\ Len(p) = i - 1
      /\ \A k \in 1 .. i - 1 : p[k] = s[k]
  BY <1>1, SubSeqProperties
<1>3. /\ q \in Seq(S) /\ Len(q) = Len(s) - i
      /\ \A k \in 1 .. Len(s) - i : q[k] = s[i + k]
  BY <1>1, SubSeqProperties
<1>4. /\ p \o q \in Seq(S) /\ Len(p \o q) = Len(s) - 1
      /\ \A k \in 1 .. Len(s) - 1 : (p \o q)[k] = IF k <= i - 1 THEN p[k] ELSE q[k - (i - 1)]
  <2>1. i - 1 + (Len(s) - i) = Len(s) - 1
    BY <1>1
  <2> HIDE DEF p, q
  <2>2. p \o q \in Seq(S) /\ Len(p \o q) = Len(p) + Len(q)
    BY <1>2, <1>3, ConcatProperties
  <2>3. \A k \in 1 .. Len(p) + Len(q) : (p \o q)[k] = IF k <= Len(p) THEN p[k] ELSE q[k - Len(p)]
    BY <1>2, <1>3, ConcatProperties
  <2>4. QED
    BY <1>2, <1>3, <2>1, <2>2, <2>3
<1> HIDE DEF p, q
<1>5. DOMAIN (p \o q) = 1 .. Len(s) - 1
  BY <1>4, LenProperties
<1>6. ASSUME NEW k \in 1 .. Len(s) - 1
      PROVE  \E j \in 1 .. Len(s) : (p \o q)[k] = s[j]
  <2>1. CASE k <= i - 1
    BY <1>1, <1>2, <1>4, <2>1
  <2>2. CASE k > i - 1
    <3>1. k - (i - 1) \in 1 .. Len(s) - i /\ k + 1 \in 1 .. Len(s) /\ i + (k - (i - 1)) = k + 1
      BY <1>1, <2>2
    <3>2. (p \o q)[k] = q[k - (i - 1)]
      BY <1>1, <1>4, <2>2
    <3>3. q[k - (i - 1)] = s[k + 1]
      BY <1>3, <3>1
    <3>4. QED
      BY <3>1, <3>2, <3>3
  <2>3. k \in Int /\ i \in Int
    BY <1>1
  <2>4. k <= i - 1 \/ k > i - 1
    BY <2>3
  <2>5. QED
    BY <2>1, <2>2, <2>4
<1>7. QED
  BY <1>1, <1>4, <1>5, <1>6 DEF p, q

------------------------------------------------------------------------------
\* Activation records stay activation records.
LEMMA IdleFrame == Idle \in Frame /\ Idle.pc = "idle"
  BY LoggerAssumption DEF Idle, NoEvent, Frame, Event, PCs

LEMMA FrameFields ==
  ASSUME NEW f \in Frame
  PROVE  /\ f.on \in Loggers /\ f.from \in Loggers /\ f.pos \in Nat /\ f.ap \in Appenders
         /\ f.pc \in PCs /\ f.event \in Event /\ f.todo \in SUBSET Loggers
  BY DEF Frame

LEMMA Goto ==
  ASSUME NEW f \in Frame, NEW p \in PCs
  PROVE  /\ [f EXCEPT !.pc = p] \in Frame
         /\ [f EXCEPT !.pc = p].pc = p
         /\ [f EXCEPT !.pc = p].on = f.on /\ [f EXCEPT !.pc = p].from = f.from
  BY DEF Frame

LEMMA Advance ==
  ASSUME NEW f \in Frame, NEW n \in Nat
  PROVE  /\ [f EXCEPT !.pos = n] \in Frame
         /\ [f EXCEPT !.pos = n].pc = f.pc /\ [f EXCEPT !.pos = n].pos = n
         /\ [f EXCEPT !.pos = n].on = f.on /\ [f EXCEPT !.pos = n].from = f.from
  BY DEF Frame

LEMMA Visited ==
  ASSUME NEW f \in Frame, NEW S \in SUBSET Loggers
  PROVE  [f EXCEPT !.todo = S] \in Frame /\ [f EXCEPT !.todo = S].pc = f.pc
  BY DEF Frame

\* The record of a thread becomes f, the others keep theirs.
LEMMA Becomes ==
  ASSUME TypeInv, NEW t \in Threads, NEW f \in Frame, Become(t, f)
  PROVE  frame' \in [Threads -> Frame] /\ frame'[t] = f /\ \A u \in Threads : u # t => frame'[u] = frame[u]
  BY DEF TypeInv, Become

\* A step with this footprint keeps the invariants of the other threads.
LEMMA Others ==
  ASSUME IInv, NEW t \in Threads, Footprint(t), LockOf(t)', PosOf(t)'
  PROVE  \A u \in Threads : LockOf(u)' /\ PosOf(u)'
<1> SUFFICES ASSUME NEW u \in Threads, u # t
             PROVE  LockOf(u)' /\ PosOf(u)'
    OBVIOUS
<1>1. frame[u].on \in Loggers /\ frame[u].from \in Loggers
  BY FrameFields DEF IInv, TypeInv
<1>2. LockOf(u) /\ PosOf(u) /\ frame'[u] = frame[u]
  BY DEF IInv, Footprint
<1>3. LockOf(u)'
  BY <1>1, <1>2 DEF LockOf, Footprint
<1>4. PosOf(u)'
  <2>1. frame[u].pc \in {"fan", "spread"} => m_appenders'[frame[u].on] = m_appenders[frame[u].on]
    BY <1>1, <1>2 DEF LockOf, Footprint
  <2>2. QED
    BY <1>2, <2>1 DEF PosOf
<1>5. QED
  BY <1>3, <1>4

\* Init establishes the invariants.
LEMMA InitInv == Init => IInv /\ OwnInv
<1> SUFFICES ASSUME Init PROVE IInv /\ OwnInv
    OBVIOUS
<1>1. frame = [t \in Threads |-> Idle] /\ NoThread \notin Threads
  BY LoggerAssumption DEF Init, Threads
<1>2. \A t \in Threads : frame[t] = Idle /\ frame[t].pc = "idle"
  BY <1>1, IdleFrame
<1>3. TypeInv
  BY <1>1, IdleFrame, LoggerAssumption DEF Init, TypeInv, DEBUG
<1>4. ListInv
  BY LoggerAssumption DEF Init, ListInv
<1>5. QED
  BY <1>2, <1>3, <1>4, LoggerAssumption DEF IInv, LockOf, PosOf, OwnInv, OwnFormatterKept, Init

\* Every step keeps the invariant, and is the step of a thread that changes nothing
\* another thread has locked, nor a list that it goes through itself.
Step(t) ==
  /\ Footprint(t)
  /\ frame[t].pc \in {"fan", "spread"} => m_appenders'[frame[t].on] = m_appenders[frame[t].on]
  /\ frame[t].pc = "dump" => m_logger' = m_logger

LEMMA StepInv ==
  IInv /\ [Next]_vars => IInv' /\ (UNCHANGED vars \/ \E t \in Threads : Step(t) /\ (Quiet(t) \/ Logs(t)))
<1> SUFFICES ASSUME IInv, [Next]_vars
             PROVE  IInv' /\ (UNCHANGED vars \/ \E t \in Threads : Step(t) /\ (Quiet(t) \/ Logs(t)))
    OBVIOUS
<1> USE DEF Begin, At, Free, Acquire, Release, manager, formatting
<1> DEFINE Goal == IInv' /\ (UNCHANGED vars \/ \E t \in Threads : Step(t) /\ (Quiet(t) \/ Logs(t)))
<1> HIDE DEF Goal
<1>0. /\ NoThread \notin Threads
      /\ m_mutex \in [Loggers -> Threads \cup {NoThread}] /\ mgr_mutex \in Threads \cup {NoThread}
      /\ m_appenders \in [Loggers -> Seq(Appenders)] /\ m_logger \subseteq Loggers
      /\ calls \in [Threads -> Nat]
  BY LoggerAssumption DEF IInv, TypeInv, Threads
<1>1. \A t \in Threads :
        /\ frame[t] \in Frame /\ LockOf(t) /\ PosOf(t)
        /\ frame[t].on \in Loggers /\ frame[t].from \in Loggers /\ frame[t].pos \in Nat
        /\ frame[t].ap \in Appenders /\ frame[t].todo \in SUBSET Loggers /\ frame[t].event \in Event
  BY FrameFields DEF IInv, TypeInv
<1>2. TypeInv /\ ListInv
  BY DEF IInv
<1>3. ASSUME NEW t \in Threads, Step(t), Quiet(t) \/ Logs(t), TypeInv', ListInv', LockOf(t)', PosOf(t)'
      PROVE  Goal
  BY <1>3, Others DEF IInv, Goal, Step
<1>4. ASSUME NEW t \in Threads, NEW l \in Loggers, getLogger(t, l)
     PROVE  Goal
  <2>3. frame' = frame
    BY <1>4 DEF getLogger
  <2>4. Step(t)
    BY <1>4, <1>0, <1>1, <2>3 DEF getLogger, Step, Footprint, LockOf
  <2>5. TypeInv'
    BY <1>4, <1>0, <1>1, <2>3, <1>2, LoggerAssumption DEF getLogger, TypeInv
  <2>6. ListInv'
    BY <1>4, <1>0, <1>1, <2>3, <1>2, LoggerAssumption DEF getLogger, ListInv
  <2>7. LockOf(t)'
    BY <1>4, <1>0, <1>1, <2>3 DEF getLogger, LockOf
  <2>8. PosOf(t)'
    BY <1>4, <1>0, <1>1, <2>3 DEF getLogger, PosOf
  <2>0. Quiet(t)
    BY <1>4, <2>3 DEF getLogger, Quiet, ListChange, Logging
  <2>9. QED
    BY <1>3, <2>0, <2>4, <2>5, <2>6, <2>7, <2>8
<1>5. ASSUME NEW t \in Threads, t \in Users, NEW l \in Loggers, NEW v \in Levels, CHORD_LOG_LEVEL(t, l, v)
     PROVE  Goal
  <2> DEFINE e == [by |-> t, n |-> calls[t] + 1, level |-> v, logger |-> l]
             f == [Idle EXCEPT !.pc = "statement", !.on = l, !.from = l, !.event = e]
  <2>1. e \in Event
    BY <1>5, <1>0, LoggerAssumption DEF Event, CHORD_LOG_LEVEL
  <2>2. f \in Frame /\ f.pc = "statement" /\ f.on = f.from
    BY <2>1, LoggerAssumption DEF Frame, PCs, Idle
  <2>3. frame' \in [Threads -> Frame] /\ frame'[t] = f /\ \A u \in Threads : u # t => frame'[u] = frame[u]
    BY <1>5, <2>2, <1>2, Becomes DEF CHORD_LOG_LEVEL
  <2> HIDE DEF f
  <2>4. Step(t)
    BY <1>5, <1>0, <1>1, <2>2, <2>3 DEF CHORD_LOG_LEVEL, Step, Footprint, LockOf
  <2>5. TypeInv'
    BY <1>5, <1>0, <1>1, <2>2, <2>3, <1>2, LoggerAssumption DEF CHORD_LOG_LEVEL, TypeInv
  <2>6. ListInv'
    BY <1>5, <1>0, <1>1, <2>2, <2>3, <1>2, LoggerAssumption DEF CHORD_LOG_LEVEL, ListInv
  <2>7. LockOf(t)'
    BY <1>5, <1>0, <1>1, <2>2, <2>3 DEF CHORD_LOG_LEVEL, LockOf
  <2>8. PosOf(t)'
    BY <1>5, <1>0, <1>1, <2>2, <2>3 DEF CHORD_LOG_LEVEL, PosOf
  <2>0. Logs(t)
    BY <1>5 DEF Logs
  <2>9. QED
    BY <1>3, <2>0, <2>4, <2>5, <2>6, <2>7, <2>8
<1>6. ASSUME NEW t \in Threads, NEW l \in Loggers, NEW v \in Levels, setLevel(t, l, v)
     PROVE  Goal
  <2>3. frame' = frame
    BY <1>6 DEF setLevel
  <2>4. Step(t)
    BY <1>6, <1>0, <1>1, <2>3 DEF setLevel, Step, Footprint, LockOf
  <2>5. TypeInv'
    BY <1>6, <1>0, <1>1, <2>3, <1>2, LoggerAssumption DEF setLevel, TypeInv
  <2>6. ListInv'
    BY <1>6, <1>0, <1>1, <2>3, <1>2, LoggerAssumption DEF setLevel, ListInv
  <2>7. LockOf(t)'
    BY <1>6, <1>0, <1>1, <2>3 DEF setLevel, LockOf
  <2>8. PosOf(t)'
    BY <1>6, <1>0, <1>1, <2>3 DEF setLevel, PosOf
  <2>0. Quiet(t)
    BY <1>6, <2>3 DEF setLevel, Quiet, ListChange, Logging
  <2>9. QED
    BY <1>3, <2>0, <2>4, <2>5, <2>6, <2>7, <2>8
<1>7. ASSUME NEW t \in Threads, NEW l \in Loggers, NEW g \in Formatters, setFormatter(t, l, g)
     PROVE  Goal
  <2> DEFINE f == [Idle EXCEPT !.pc = "spread", !.on = l, !.from = l, !.pos = 1]
  <2>2. f \in Frame /\ f.pc = "spread" /\ f.on = l /\ f.from = l /\ f.pos = 1
    BY LoggerAssumption DEF Frame, PCs, Idle, Event, NoEvent
  <2>3. frame' \in [Threads -> Frame] /\ frame'[t] = f /\ \A u \in Threads : u # t => frame'[u] = frame[u]
    BY <1>7, <1>2, <2>2, Becomes DEF setFormatter
  <2> HIDE DEF f
  <2>4. Step(t)
    BY <1>7, <1>0, <1>1, <2>2, <2>3 DEF setFormatter, Step, Footprint, LockOf
  <2>5. TypeInv'
    <3>1. /\ m_formatter' \in [Loggers -> Formatters]
          /\ m_mutex' \in [Loggers -> Threads \cup {NoThread}]
          /\ calls' \in [Threads -> Nat]
      BY <1>7, <1>0, <1>2 DEF setFormatter, TypeInv
    <3>2. QED
      BY <1>7, <1>2, <2>3, <3>1 DEF setFormatter, TypeInv
  <2>6. ListInv'
    BY <1>7, <1>0, <1>1, <2>2, <2>3, <1>2, LoggerAssumption DEF setFormatter, ListInv
  <2>7. LockOf(t)'
    BY <1>7, <1>0, <1>1, <2>2, <2>3 DEF setFormatter, LockOf
  <2>8. PosOf(t)'
    BY <1>7, <1>0, <1>1, <2>2, <2>3 DEF setFormatter, PosOf
  <2>0. Quiet(t)
    BY <1>7, <2>2, <2>3 DEF setFormatter, Quiet, ListChange, Logging
  <2>9. QED
    BY <1>3, <2>0, <2>4, <2>5, <2>6, <2>7, <2>8
<1>8. ASSUME NEW t \in Threads, NEW l \in Loggers, NEW a \in Appenders, addAppender(t, l, a)
     PROVE  Goal
  <2>3. frame' = frame
    BY <1>8 DEF addAppender
  <2>4. Step(t)
    BY <1>8, <1>0, <1>1, <2>3 DEF addAppender, Step, Footprint, LockOf
  <2>5. TypeInv'
    <3>1. m_appenders' \in [Loggers -> Seq(Appenders)]
      BY <1>8, <1>0, AppendProperties DEF addAppender
    <3>2. QED
      BY <1>8, <1>2, <2>3, <3>1 DEF addAppender, TypeInv
  <2>6. ListInv'
    BY <1>8, <1>0, <1>1, <2>3, <1>2, LoggerAssumption DEF addAppender, ListInv
  <2>7. LockOf(t)'
    BY <1>8, <1>0, <1>1, <2>3 DEF addAppender, LockOf
  <2>8. PosOf(t)'
    BY <1>8, <1>0, <1>1, <2>3 DEF addAppender, PosOf
  <2>0. Quiet(t)
    BY <1>8, <2>3 DEF addAppender, Quiet, ListChange, Logging
  <2>9. QED
    BY <1>3, <2>0, <2>4, <2>5, <2>6, <2>7, <2>8
<1>9. ASSUME NEW t \in Threads, NEW l \in Loggers, NEW a \in Appenders, addAppenderNone(t, l, a)
     PROVE  Goal
  <2> DEFINE f == [Idle EXCEPT !.pc = "inherit", !.on = l, !.from = l, !.ap = a]
  <2>2. f \in Frame /\ f.pc = "inherit" /\ f.on = l /\ f.from = l /\ f.ap = a
    BY LoggerAssumption DEF Frame, PCs, Idle, Event, NoEvent
  <2>3. frame' \in [Threads -> Frame] /\ frame'[t] = f /\ \A u \in Threads : u # t => frame'[u] = frame[u]
    BY <1>9, <1>2, <2>2, Becomes DEF addAppenderNone
  <2> HIDE DEF f
  <2>4. Step(t)
    BY <1>9, <1>0, <1>1, <2>2, <2>3 DEF addAppenderNone, Step, Footprint, LockOf
  <2>5. TypeInv'
    <3>1. m_mutex' \in [Loggers -> Threads \cup {NoThread}]
      BY <1>9, <1>0 DEF addAppenderNone
    <3>2. QED
      BY <1>9, <1>2, <2>3, <3>1 DEF addAppenderNone, TypeInv
  <2>6. ListInv'
    BY <1>9, <1>0, <1>1, <2>2, <2>3, <1>2, LoggerAssumption DEF addAppenderNone, ListInv
  <2>7. LockOf(t)'
    BY <1>9, <1>0, <1>1, <2>2, <2>3 DEF addAppenderNone, LockOf
  <2>8. PosOf(t)'
    BY <1>9, <1>0, <1>1, <2>2, <2>3 DEF addAppenderNone, PosOf
  <2>0. Quiet(t)
    BY <1>9, <2>2, <2>3 DEF addAppenderNone, Quiet, ListChange, Logging
  <2>9. QED
    BY <1>3, <2>0, <2>4, <2>5, <2>6, <2>7, <2>8
<1>10. ASSUME NEW t \in Threads, NEW l \in Loggers, NEW a \in Appenders, delAppender(t, l, a)
     PROVE  Goal
  <2>3. frame' = frame
    BY <1>10 DEF delAppender
  <2>4. Step(t)
    BY <1>10, <1>0, <1>1, <2>3 DEF delAppender, Step, Footprint, LockOf
  <2>5. TypeInv'
    <3>1. PICK i \in DOMAIN m_appenders[l] :
            m_appenders' = [m_appenders EXCEPT ![l] = SubSeq(m_appenders[l], 1, i - 1)
                                                      \o SubSeq(m_appenders[l], i + 1, Len(m_appenders[l]))]
      BY <1>10 DEF delAppender
    <3>2. m_appenders' \in [Loggers -> Seq(Appenders)]
      BY <1>0, <3>1, Erased
    <3>3. UNCHANGED <<m_level, m_formatter, m_mutex, manager, formatting, ap_level, out, frame>>
      BY <1>10 DEF delAppender
    <3>4. calls' \in [Threads -> Nat]
      BY <1>10, <1>0 DEF delAppender
    <3>5. QED
      BY <1>2, <3>2, <3>3, <3>4 DEF TypeInv
  <2>6. ListInv'
    <3>1. PICK i \in DOMAIN m_appenders[l] :
            m_appenders' = [m_appenders EXCEPT ![l] = SubSeq(m_appenders[l], 1, i - 1)
                                                      \o SubSeq(m_appenders[l], i + 1, Len(m_appenders[l]))]
      BY <1>10 DEF delAppender
    <3>2. ASSUME NEW m \in Loggers, NEW k \in DOMAIN m_appenders'[m]
          PROVE  \E j \in DOMAIN m_appenders[m] : m_appenders'[m][k] = m_appenders[m][j]
      <4>1. CASE m = l
        <5> DEFINE r == SubSeq(m_appenders[l], 1, i - 1)
                        \o SubSeq(m_appenders[l], i + 1, Len(m_appenders[l]))
        <5>0. m_appenders[l] \in Seq(Appenders) /\ i \in DOMAIN m_appenders[l]
          BY <1>0, <3>1
        <5>1. \A n \in DOMAIN r : \E j \in DOMAIN m_appenders[l] : r[n] = m_appenders[l][j]
          BY <5>0, Erased
        <5>2. m_appenders'[l] = r
          BY <1>0, <3>1
        <5> HIDE DEF r
        <5>3. QED
          BY <3>2, <4>1, <5>1, <5>2
      <4>2. CASE m # l
        BY <1>0, <3>1, <3>2, <4>2
      <4>3. QED
        BY <4>1, <4>2
    <3>3. ap_formatter' = ap_formatter
      BY <1>10 DEF delAppender
    <3>4. QED
      BY <1>2, <3>2, <3>3 DEF ListInv
  <2>7. LockOf(t)'
    BY <1>10, <1>0, <1>1, <2>3 DEF delAppender, LockOf
  <2>8. PosOf(t)'
    BY <1>10, <1>0, <1>1, <2>3 DEF delAppender, PosOf
  <2>0. Quiet(t)
    BY <1>10, <2>3 DEF delAppender, Quiet, ListChange, Logging
  <2>9. QED
    BY <1>3, <2>0, <2>4, <2>5, <2>6, <2>7, <2>8
<1>11. ASSUME NEW t \in Threads, NEW l \in Loggers, NEW a \in Appenders, delAppenderMissing(t, l, a)
     PROVE  Goal
  <2>3. frame' = frame
    BY <1>11 DEF delAppenderMissing
  <2>4. Step(t)
    BY <1>11, <1>0, <1>1, <2>3 DEF delAppenderMissing, Step, Footprint, LockOf
  <2>5. TypeInv'
    <3>1. calls' \in [Threads -> Nat]
      BY <1>11, <1>0 DEF delAppenderMissing
    <3>2. UNCHANGED <<m_level, m_formatter, m_appenders, m_mutex, manager, formatting, ap_level, out>>
      BY <1>11 DEF delAppenderMissing
    <3>3. QED
      BY <1>2, <2>3, <3>1, <3>2 DEF TypeInv
  <2>6. ListInv'
    BY <1>11, <1>0, <1>1, <2>3, <1>2, LoggerAssumption DEF delAppenderMissing, ListInv
  <2>7. LockOf(t)'
    BY <1>11, <1>0, <1>1, <2>3 DEF delAppenderMissing, LockOf
  <2>8. PosOf(t)'
    BY <1>11, <1>0, <1>1, <2>3 DEF delAppenderMissing, PosOf
  <2>0. Quiet(t)
    BY <1>11, <2>3 DEF delAppenderMissing, Quiet, ListChange, Logging
  <2>9. QED
    BY <1>3, <2>0, <2>4, <2>5, <2>6, <2>7, <2>8
<1>12. ASSUME NEW t \in Threads, NEW l \in Loggers, clearAppenders(t, l)
     PROVE  Goal
  <2>3. frame' = frame
    BY <1>12 DEF clearAppenders
  <2>4. Step(t)
    BY <1>12, <1>0, <1>1, <2>3 DEF clearAppenders, Step, Footprint, LockOf
  <2>5. TypeInv'
    BY <1>12, <1>0, <1>1, <2>3, <1>2, LoggerAssumption DEF clearAppenders, TypeInv
  <2>6. ListInv'
    BY <1>12, <1>0, <1>1, <2>3, <1>2, LoggerAssumption DEF clearAppenders, ListInv
  <2>7. LockOf(t)'
    BY <1>12, <1>0, <1>1, <2>3 DEF clearAppenders, LockOf
  <2>8. PosOf(t)'
    BY <1>12, <1>0, <1>1, <2>3 DEF clearAppenders, PosOf
  <2>0. Quiet(t)
    BY <1>12, <2>3 DEF clearAppenders, Quiet, ListChange, Logging
  <2>9. QED
    BY <1>3, <2>0, <2>4, <2>5, <2>6, <2>7, <2>8
<1>13. ASSUME NEW t \in Threads, NEW a \in Appenders, NEW g \in Formatters, setAppenderFormatter(t, a, g)
     PROVE  Goal
  <2>3. frame' = frame
    BY <1>13 DEF setAppenderFormatter
  <2>4. Step(t)
    BY <1>13, <1>0, <1>1, <2>3 DEF setAppenderFormatter, Step, Footprint, LockOf
  <2>5. TypeInv'
    BY <1>13, <1>0, <1>1, <2>3, <1>2, LoggerAssumption DEF setAppenderFormatter, TypeInv
  <2>6. ListInv'
    <3>1. \A b \in Appenders : ap_formatter'[b] = IF b = a THEN g ELSE ap_formatter[b]
      BY <1>13, <1>2 DEF setAppenderFormatter, TypeInv
    <3>2. ASSUME NEW m \in Loggers, NEW i \in DOMAIN m_appenders[m]
          PROVE  ap_formatter'[m_appenders[m][i]] # null
      <4>1. m_appenders[m][i] \in Appenders
        BY <1>0, <3>2, ElementOfSeq, LenProperties
      <4>2. QED
        BY <1>2, <3>1, <4>1, LoggerAssumption DEF ListInv
    <3>3. QED
      BY <1>13, <3>2 DEF setAppenderFormatter, ListInv
  <2>7. LockOf(t)'
    BY <1>13, <1>0, <1>1, <2>3 DEF setAppenderFormatter, LockOf
  <2>8. PosOf(t)'
    BY <1>13, <1>0, <1>1, <2>3 DEF setAppenderFormatter, PosOf
  <2>0. Quiet(t)
    BY <1>13, <2>3 DEF setAppenderFormatter, Quiet, ListChange, Logging
  <2>9. QED
    BY <1>3, <2>0, <2>4, <2>5, <2>6, <2>7, <2>8
<1>14. ASSUME NEW t \in Threads, NEW a \in Appenders, NEW v \in Levels, setAppenderLevel(t, a, v)
     PROVE  Goal
  <2>3. frame' = frame
    BY <1>14 DEF setAppenderLevel
  <2>4. Step(t)
    BY <1>14, <1>0, <1>1, <2>3 DEF setAppenderLevel, Step, Footprint, LockOf
  <2>5. TypeInv'
    BY <1>14, <1>0, <1>1, <2>3, <1>2, LoggerAssumption DEF setAppenderLevel, TypeInv
  <2>6. ListInv'
    BY <1>14, <1>0, <1>1, <2>3, <1>2, LoggerAssumption DEF setAppenderLevel, ListInv
  <2>7. LockOf(t)'
    BY <1>14, <1>0, <1>1, <2>3 DEF setAppenderLevel, LockOf
  <2>8. PosOf(t)'
    BY <1>14, <1>0, <1>1, <2>3 DEF setAppenderLevel, PosOf
  <2>0. Quiet(t)
    BY <1>14, <2>3 DEF setAppenderLevel, Quiet, ListChange, Logging
  <2>9. QED
    BY <1>3, <2>0, <2>4, <2>5, <2>6, <2>7, <2>8
<1>15. ASSUME NEW t \in Threads, toYamlString(t)
     PROVE  Goal
  <2> DEFINE f == [Idle EXCEPT !.pc = "dump", !.todo = m_logger]
  <2>2. f \in Frame /\ f.pc = "dump"
    BY <1>0, LoggerAssumption DEF Frame, PCs, Idle, Event, NoEvent
  <2>3. frame' \in [Threads -> Frame] /\ frame'[t] = f /\ \A u \in Threads : u # t => frame'[u] = frame[u]
    BY <1>15, <1>2, <2>2, Becomes DEF toYamlString
  <2> HIDE DEF f
  <2>4. Step(t)
    BY <1>15, <1>0, <1>1, <2>2, <2>3 DEF toYamlString, Step, Footprint, LockOf
  <2>5. TypeInv'
    BY <1>15, <1>0, <1>1, <2>2, <2>3, <1>2, LoggerAssumption DEF toYamlString, TypeInv
  <2>6. ListInv'
    BY <1>15, <1>0, <1>1, <2>2, <2>3, <1>2, LoggerAssumption DEF toYamlString, ListInv
  <2>7. LockOf(t)'
    BY <1>15, <1>0, <1>1, <2>2, <2>3 DEF toYamlString, LockOf
  <2>8. PosOf(t)'
    BY <1>15, <1>0, <1>1, <2>2, <2>3 DEF toYamlString, PosOf
  <2>0. Quiet(t)
    BY <1>15, <2>2, <2>3 DEF toYamlString, Quiet, ListChange, Logging
  <2>9. QED
    BY <1>3, <2>0, <2>4, <2>5, <2>6, <2>7, <2>8
<1>16. ASSUME NEW t \in Threads, log(t)
     PROVE  Goal
  <2>1. PICK f \in Frame : Become(t, f) /\ f.pc \in {"lock", "idle"} /\ (f.pc = "lock" => f.on = f.from)
    <3>1. CASE frame[t].event.level >= m_level[frame[t].on]
      <4> DEFINE g == [frame[t] EXCEPT !.pc = "lock"]
      <4>1. g \in Frame /\ g.pc = "lock" /\ g.on = frame[t].on /\ g.from = frame[t].from
        BY <1>1, Goto DEF PCs
      <4>2. Become(t, g) /\ frame[t].pc = "statement"
        BY <1>16, <3>1 DEF log
      <4>3. frame[t].on = frame[t].from
        BY <1>1, <4>2 DEF LockOf
      <4> HIDE DEF g
      <4>4. QED
        BY <4>1, <4>2, <4>3
    <3>2. CASE ~(frame[t].event.level >= m_level[frame[t].on])
      BY <1>16, <3>2, IdleFrame DEF log, Return
    <3>3. QED
      BY <3>1, <3>2
  <2>3. frame' \in [Threads -> Frame] /\ frame'[t] = f /\ \A u \in Threads : u # t => frame'[u] = frame[u]
    BY <1>2, <2>1, Becomes
  <2>4. Step(t)
    BY <1>16, <1>0, <1>1, <2>1, <2>3 DEF log, Step, Footprint, LockOf
  <2>5. TypeInv'
    BY <1>16, <1>0, <1>1, <2>1, <2>3, <1>2, LoggerAssumption DEF log, TypeInv
  <2>6. ListInv'
    BY <1>16, <1>0, <1>1, <2>1, <2>3, <1>2, LoggerAssumption DEF log, ListInv
  <2>7. LockOf(t)'
    BY <1>16, <1>0, <1>1, <2>1, <2>3 DEF log, LockOf
  <2>8. PosOf(t)'
    BY <1>16, <1>0, <1>1, <2>1, <2>3 DEF log, PosOf
  <2>0. Logs(t)
    BY <1>16 DEF Logs
  <2>9. QED
    BY <1>3, <2>0, <2>4, <2>5, <2>6, <2>7, <2>8
<1>17. ASSUME NEW t \in Threads, logLock(t)
     PROVE  Goal
  <2> DEFINE p == IF m_appenders[frame[t].on] # << >> THEN "fan"
                  ELSE IF frame[t].on # root THEN "rootlevel" ELSE "unlock"
             f == [frame[t] EXCEPT !.pos = 1, !.pc = p]
  <2>1. p \in PCs
    BY DEF PCs
  <2>2. f \in Frame /\ f.pc = p /\ f.pos = 1 /\ f.on = frame[t].on /\ f.from = frame[t].from
    <3> HIDE DEF p
    <3>1. frame[t] \in Frame
      BY <1>1
    <3>2. QED
      BY <2>1, <3>1 DEF Frame
  <2>3. frame' \in [Threads -> Frame] /\ frame'[t] = f /\ \A u \in Threads : u # t => frame'[u] = frame[u]
    BY <1>17, <2>2, <1>2, Becomes DEF logLock
  <2> HIDE DEF f
  <2>4. Step(t)
    BY <1>17, <1>0, <1>1, <2>2, <2>3 DEF logLock, Step, Footprint, LockOf
  <2>5. TypeInv'
    BY <1>17, <1>0, <1>1, <2>2, <2>3, <1>2, LoggerAssumption DEF logLock, TypeInv
  <2>6. ListInv'
    BY <1>17, <1>0, <1>1, <2>2, <2>3, <1>2, LoggerAssumption DEF logLock, ListInv
  <2>7. LockOf(t)'
    BY <1>17, <1>0, <1>1, <2>2, <2>3 DEF logLock, LockOf
  <2>8. PosOf(t)'
    BY <1>17, <1>0, <1>1, <2>2, <2>3 DEF logLock, PosOf
  <2>0. Logs(t)
    BY <1>17 DEF Logs
  <2>9. QED
    BY <1>3, <2>0, <2>4, <2>5, <2>6, <2>7, <2>8
<1>18. ASSUME NEW t \in Threads, logRoot(t)
     PROVE  Goal
  <2>1. PICK f \in Frame : /\ Become(t, f) /\ f.from = frame[t].from
                           /\ \/ f.pc = "lock" /\ f.on = root
                              \/ f.pc = "unlock" /\ f.on = frame[t].on
    <3>1. CASE frame[t].event.level >= m_level[root]
      <4> DEFINE g == [frame[t] EXCEPT !.pc = "lock", !.on = root]
      <4>1. g \in Frame /\ g.pc = "lock" /\ g.on = root /\ g.from = frame[t].from
        <5>1. frame[t] \in Frame /\ "lock" \in PCs
          BY <1>1 DEF PCs
        <5>2. QED
          BY <5>1, LoggerAssumption DEF Frame
      <4>2. Become(t, g)
        BY <1>18, <3>1 DEF logRoot
      <4> HIDE DEF g
      <4>3. QED
        BY <4>1, <4>2
    <3>2. CASE ~(frame[t].event.level >= m_level[root])
      <4> DEFINE g == [frame[t] EXCEPT !.pc = "unlock"]
      <4>1. g \in Frame /\ g.pc = "unlock" /\ g.on = frame[t].on /\ g.from = frame[t].from
        BY <1>1, Goto DEF PCs
      <4>2. Become(t, g)
        BY <1>18, <3>2 DEF logRoot
      <4> HIDE DEF g
      <4>3. QED
        BY <4>1, <4>2
    <3>3. QED
      BY <3>1, <3>2
  <2>3. frame' \in [Threads -> Frame] /\ frame'[t] = f /\ \A u \in Threads : u # t => frame'[u] = frame[u]
    BY <1>2, <2>1, Becomes
  <2>4. Step(t)
    BY <1>18, <1>0, <1>1, <2>1, <2>3 DEF logRoot, Step, Footprint, LockOf
  <2>5. TypeInv'
    BY <1>18, <1>0, <1>1, <2>1, <2>3, <1>2, LoggerAssumption DEF logRoot, TypeInv
  <2>6. ListInv'
    BY <1>18, <1>0, <1>1, <2>1, <2>3, <1>2, LoggerAssumption DEF logRoot, ListInv
  <2>7. LockOf(t)'
    BY <1>18, <1>0, <1>1, <2>1, <2>3 DEF logRoot, LockOf
  <2>8. PosOf(t)'
    BY <1>18, <1>0, <1>1, <2>1, <2>3 DEF logRoot, PosOf
  <2>0. Logs(t)
    BY <1>18 DEF Logs
  <2>9. QED
    BY <1>3, <2>0, <2>4, <2>5, <2>6, <2>7, <2>8
<1>19. ASSUME NEW t \in Threads, logAppender(t)
     PROVE  Goal
  <2> DEFINE list == m_appenders[frame[t].on]
             p == IF frame[t].pos < Len(list) THEN "fan" ELSE "unlock"
             f == [frame[t] EXCEPT !.pos = frame[t].pos + 1, !.pc = p]
  <2>1. p \in PCs /\ frame[t].pos + 1 \in Nat
    BY <1>1 DEF PCs
  <2>2. f \in Frame /\ f.pc = p /\ f.pos = frame[t].pos + 1 /\ f.on = frame[t].on /\ f.from = frame[t].from
    <3> HIDE DEF p
    <3>1. frame[t] \in Frame
      BY <1>1
    <3>2. QED
      BY <2>1, <3>1 DEF Frame
  <2>3. frame' \in [Threads -> Frame] /\ frame'[t] = f /\ \A u \in Threads : u # t => frame'[u] = frame[u]
    BY <1>19, <2>2, <1>2, Becomes DEF logAppender
  <2> HIDE DEF f
  <2>4. Step(t)
    BY <1>19, <1>0, <1>1, <2>2, <2>3 DEF logAppender, Step, Footprint, LockOf
  <2>5. TypeInv'
    <3>1. frame[t].pos \in 1 .. Len(list) /\ list \in Seq(Appenders) /\ frame[t].on \in Loggers
      BY <1>19, <1>0, <1>1 DEF logAppender, PosOf
    <3>2. list[frame[t].pos] \in Appenders /\ ap_formatter[list[frame[t].pos]] \in Formatters
      <4>1. list[frame[t].pos] \in Appenders /\ frame[t].pos \in DOMAIN list
        BY <3>1, ElementOfSeq, LenProperties
      <4>2. ap_formatter[list[frame[t].pos]] # null
        BY <1>2, <3>1, <4>1 DEF ListInv
      <4>3. QED
        BY <1>2, <4>1, <4>2 DEF TypeInv
    <3>3. Entry(t, list[frame[t].pos]) \in Written
      BY <1>1, <3>1, <3>2 DEF Entry, Written
    <3>4. out' \in [Loggers -> [Appenders -> Seq(Written)]]
      <4>1. Append(out[frame[t].on][list[frame[t].pos]], Entry(t, list[frame[t].pos])) \in Seq(Written)
        BY <1>2, <3>1, <3>2, <3>3, AppendProperties DEF TypeInv
      <4>2. QED
        BY <1>19, <1>2, <3>1, <3>2, <4>1 DEF logAppender, TypeInv
    <3>5. QED
      BY <1>19, <1>2, <2>3, <3>4 DEF logAppender, TypeInv
  <2>6. ListInv'
    BY <1>19, <1>0, <1>1, <2>2, <2>3, <1>2, LoggerAssumption DEF logAppender, ListInv
  <2>7. LockOf(t)'
    BY <1>19, <1>0, <1>1, <2>2, <2>3 DEF logAppender, LockOf
  <2>8. PosOf(t)'
    <3>1. m_appenders' = m_appenders /\ frame[t].pc = "fan"
      BY <1>19 DEF logAppender
    <3>2. frame[t].pos \in 1 .. Len(list) /\ Len(list) \in Nat
      BY <1>0, <1>1, <3>1, LenProperties DEF PosOf
    <3>3. frame'[t].pc = "fan" => frame[t].pos + 1 \in 1 .. Len(list)
      BY <2>2, <2>3, <3>2
    <3>4. frame'[t].pc # "spread" /\ frame'[t].on = frame[t].on
      BY <2>2, <2>3
    <3>5. QED
      BY <2>2, <2>3, <3>1, <3>3, <3>4 DEF PosOf
  <2>0. Logs(t)
    BY <1>19 DEF Logs
  <2>9. QED
    BY <1>3, <2>0, <2>4, <2>5, <2>6, <2>7, <2>8
<1>20. ASSUME NEW t \in Threads, logUnlock(t)
     PROVE  Goal
  <2>3. frame' \in [Threads -> Frame] /\ frame'[t] = Idle /\ \A u \in Threads : u # t => frame'[u] = frame[u]
    BY <1>20, <1>2, IdleFrame, Becomes DEF logUnlock, Return
  <2>4. Step(t)
    BY <1>20, <1>0, <1>1, <2>3, IdleFrame DEF logUnlock, Step, Footprint, LockOf
  <2>5. TypeInv'
    BY <1>20, <1>0, <1>1, <2>3, IdleFrame, <1>2, LoggerAssumption DEF logUnlock, TypeInv
  <2>6. ListInv'
    BY <1>20, <1>0, <1>1, <2>3, IdleFrame, <1>2, LoggerAssumption DEF logUnlock, ListInv
  <2>7. LockOf(t)'
    BY <1>20, <1>0, <1>1, <2>3, IdleFrame DEF logUnlock, LockOf
  <2>8. PosOf(t)'
    BY <1>20, <1>0, <1>1, <2>3, IdleFrame DEF logUnlock, PosOf
  <2>0. Logs(t)
    BY <1>20 DEF Logs
  <2>9. QED
    BY <1>3, <2>0, <2>4, <2>5, <2>6, <2>7, <2>8
<1>21. ASSUME NEW t \in Threads, logUnlockRoot(t)
     PROVE  Goal
  <2> DEFINE f == [frame[t] EXCEPT !.on = frame[t].from]
  <2>1. f \in Frame /\ f.pc = frame[t].pc /\ f.on = frame[t].from /\ f.from = frame[t].from
    <3>1. frame[t] \in Frame
      BY <1>1
    <3>2. QED
      BY <3>1 DEF Frame
  <2>2. frame[t].pc = "unlock"
    BY <1>21 DEF logUnlockRoot, At
  <2>3. frame' \in [Threads -> Frame] /\ frame'[t] = f /\ \A u \in Threads : u # t => frame'[u] = frame[u]
    BY <1>21, <1>2, <2>1, Becomes DEF logUnlockRoot
  <2> HIDE DEF f
  <2>4. Step(t)
    BY <1>21, <1>0, <1>1, <2>1, <2>2, <2>3 DEF logUnlockRoot, Release, Step, Footprint, LockOf
  <2>5. TypeInv'
    BY <1>21, <1>0, <1>1, <2>1, <2>3, <1>2, LoggerAssumption DEF logUnlockRoot, Release, TypeInv
  <2>6. ListInv'
    BY <1>21, <1>0, <1>1, <2>1, <2>3, <1>2, LoggerAssumption DEF logUnlockRoot, ListInv
  <2>7. LockOf(t)'
    BY <1>21, <1>0, <1>1, <2>1, <2>2, <2>3 DEF logUnlockRoot, Release, LockOf
  <2>8. PosOf(t)'
    BY <1>21, <1>0, <1>1, <2>1, <2>2, <2>3 DEF logUnlockRoot, PosOf
  <2>0. Logs(t)
    BY <1>21 DEF Logs
  <2>9. QED
    BY <1>3, <2>0, <2>4, <2>5, <2>6, <2>7, <2>8
<1>22. ASSUME NEW t \in Threads, setFormatterSpread(t)
     PROVE  Goal
  <2> DEFINE f == [frame[t] EXCEPT !.pos = frame[t].pos + 1]
  <2>1. frame[t].pos + 1 \in Nat
    BY <1>1
  <2>2. f \in Frame /\ f.pc = frame[t].pc /\ f.pos = frame[t].pos + 1 /\ f.on = frame[t].on /\ f.from = frame[t].from
    BY <1>1, <2>1, Advance
  <2>3. frame' \in [Threads -> Frame] /\ frame'[t] = f /\ \A u \in Threads : u # t => frame'[u] = frame[u]
    BY <1>22, <1>2, <2>2, Becomes DEF setFormatterSpread
  <2> HIDE DEF f
  <2>4. Step(t)
    BY <1>22, <1>0, <1>1, <2>2, <2>3 DEF setFormatterSpread, Step, Footprint, LockOf
  <2>5. TypeInv'
    BY <1>22, <1>0, <1>1, <2>2, <2>3, <1>2, LoggerAssumption DEF setFormatterSpread, TypeInv
  <2>6. ListInv'
    <3>1. m_formatter[frame[t].on] # null
      BY <1>1, <1>2, LoggerAssumption DEF TypeInv
    <3>2. \A b \in Appenders : ap_formatter[b] # null => ap_formatter'[b] # null
      BY <1>22, <1>2, <3>1 DEF setFormatterSpread, TypeInv
    <3>3. \A m \in Loggers : \A i \in DOMAIN m_appenders[m] : m_appenders[m][i] \in Appenders
      BY <1>0, ElementOfSeq, LenProperties
    <3>4. QED
      BY <1>22, <1>2, <3>2, <3>3 DEF setFormatterSpread, ListInv
  <2>7. LockOf(t)'
    BY <1>22, <1>0, <1>1, <2>2, <2>3 DEF setFormatterSpread, LockOf
  <2>8. PosOf(t)'
    BY <1>22, <1>0, <1>1, <2>2, <2>3 DEF setFormatterSpread, PosOf
  <2>0. Quiet(t)
    BY <1>22, <2>2, <2>3 DEF setFormatterSpread, Quiet, ListChange, Logging
  <2>9. QED
    BY <1>3, <2>0, <2>4, <2>5, <2>6, <2>7, <2>8
<1>23. ASSUME NEW t \in Threads, setFormatterDone(t)
     PROVE  Goal
  <2>3. frame' \in [Threads -> Frame] /\ frame'[t] = Idle /\ \A u \in Threads : u # t => frame'[u] = frame[u]
    BY <1>23, <1>2, IdleFrame, Becomes DEF setFormatterDone, Return
  <2>4. Step(t)
    BY <1>23, <1>0, <1>1, <2>3, IdleFrame DEF setFormatterDone, Step, Footprint, LockOf
  <2>5. TypeInv'
    BY <1>23, <1>0, <1>1, <2>3, IdleFrame, <1>2, LoggerAssumption DEF setFormatterDone, TypeInv
  <2>6. ListInv'
    BY <1>23, <1>0, <1>1, <2>3, IdleFrame, <1>2, LoggerAssumption DEF setFormatterDone, ListInv
  <2>7. LockOf(t)'
    BY <1>23, <1>0, <1>1, <2>3, IdleFrame DEF setFormatterDone, LockOf
  <2>8. PosOf(t)'
    BY <1>23, <1>0, <1>1, <2>3, IdleFrame DEF setFormatterDone, PosOf
  <2>0. Quiet(t)
    BY <1>23, <2>3, IdleFrame DEF setFormatterDone, Quiet, ListChange, Logging
  <2>9. QED
    BY <1>3, <2>0, <2>4, <2>5, <2>6, <2>7, <2>8
<1>24. ASSUME NEW t \in Threads, addAppenderInherit(t)
     PROVE  Goal
  <2>3. frame' \in [Threads -> Frame] /\ frame'[t] = Idle /\ \A u \in Threads : u # t => frame'[u] = frame[u]
    BY <1>24, <1>2, IdleFrame, Becomes DEF addAppenderInherit, Return
  <2>4. Step(t)
    BY <1>24, <1>0, <1>1, <2>3, IdleFrame DEF addAppenderInherit, Step, Footprint, LockOf
  <2>5. TypeInv'
    <3>1. m_appenders' \in [Loggers -> Seq(Appenders)] /\ ap_formatter' \in [Appenders -> Formatters \cup {null}]
      BY <1>24, <1>0, <1>1, <1>2, AppendProperties DEF addAppenderInherit, TypeInv
    <3>2. m_mutex' \in [Loggers -> Threads \cup {NoThread}]
      BY <1>24, <1>0 DEF addAppenderInherit
    <3>3. UNCHANGED <<m_level, m_formatter, manager, m_has_Formatter, given, ap_level, out, calls>>
      BY <1>24 DEF addAppenderInherit
    <3>4. QED
      BY <1>2, <2>3, <3>1, <3>2, <3>3 DEF TypeInv
  <2>6. ListInv'
    <3> DEFINE l == frame[t].on
               a == frame[t].ap
    <3>1. m_formatter[l] # null
      BY <1>1, <1>2, LoggerAssumption DEF TypeInv
    <3>2. /\ \A b \in Appenders : ap_formatter[b] # null => ap_formatter'[b] # null
          /\ ap_formatter'[a] # null
      BY <1>24, <1>1, <1>2, <3>1 DEF addAppenderInherit, TypeInv
    <3>3. \A m \in Loggers : \A i \in DOMAIN m_appenders[m] : m_appenders[m][i] \in Appenders
      BY <1>0, ElementOfSeq, LenProperties
    <3>4. ASSUME NEW m \in Loggers, NEW i \in DOMAIN m_appenders'[m]
          PROVE  m_appenders'[m][i] = a \/ (i \in DOMAIN m_appenders[m] /\ m_appenders'[m][i] = m_appenders[m][i])
      <4>1. m_appenders'[m] = IF m = l THEN Append(m_appenders[m], a) ELSE m_appenders[m]
        BY <1>24, <1>0, <1>1 DEF addAppenderInherit
      <4>2. QED
        BY <1>0, <1>1, <3>4, <4>1, AppendProperties, LenProperties
    <3>5. QED
      BY <1>2, <3>2, <3>3, <3>4 DEF ListInv
  <2>7. LockOf(t)'
    BY <1>24, <1>0, <1>1, <2>3, IdleFrame DEF addAppenderInherit, LockOf
  <2>8. PosOf(t)'
    BY <1>24, <1>0, <1>1, <2>3, IdleFrame DEF addAppenderInherit, PosOf
  <2>0. Quiet(t)
    <3>1. frame[t].pc = "inherit" /\ calls' = calls /\ out' = out
          /\ m_appenders' = [m_appenders EXCEPT ![frame[t].on] = Append(@, frame[t].ap)]
      BY <1>24 DEF addAppenderInherit
    <3>2. ListChange(frame[t].on)
      BY <1>1, <3>1 DEF ListChange
    <3>3. QED
      BY <1>1, <2>3, <3>1, <3>2, IdleFrame DEF Quiet, Logging
  <2>9. QED
    BY <1>3, <2>0, <2>4, <2>5, <2>6, <2>7, <2>8
<1>25. ASSUME NEW t \in Threads, toYamlStringLogger(t)
     PROVE  Goal
  <2>1. PICK f \in Frame : Become(t, f) /\ f.pc = "dump"
    <3>1. PICK l \in frame[t].todo : Become(t, [frame[t] EXCEPT !.todo = frame[t].todo \ {l}])
      BY <1>25 DEF toYamlStringLogger
    <3>2. frame[t].todo \ {l} \in SUBSET Loggers
      BY <1>1
    <3>3. frame[t].pc = "dump"
      BY <1>25 DEF toYamlStringLogger
    <3>4. QED
      BY <1>1, <3>1, <3>2, <3>3, Visited
  <2>3. frame' \in [Threads -> Frame] /\ frame'[t] = f /\ \A u \in Threads : u # t => frame'[u] = frame[u]
    BY <1>2, <2>1, Becomes
  <2>4. Step(t)
    BY <1>25, <1>0, <1>1, <2>1, <2>3 DEF toYamlStringLogger, Step, Footprint, LockOf
  <2>5. TypeInv'
    BY <1>25, <1>0, <1>1, <2>1, <2>3, <1>2, LoggerAssumption DEF toYamlStringLogger, TypeInv
  <2>6. ListInv'
    BY <1>25, <1>0, <1>1, <2>1, <2>3, <1>2, LoggerAssumption DEF toYamlStringLogger, ListInv
  <2>7. LockOf(t)'
    BY <1>25, <1>0, <1>1, <2>1, <2>3 DEF toYamlStringLogger, LockOf
  <2>8. PosOf(t)'
    BY <1>25, <1>0, <1>1, <2>1, <2>3 DEF toYamlStringLogger, PosOf
  <2>0. Quiet(t)
    BY <1>25, <2>1, <2>3 DEF toYamlStringLogger, Quiet, ListChange, Logging
  <2>9. QED
    BY <1>3, <2>0, <2>4, <2>5, <2>6, <2>7, <2>8
<1>26. ASSUME NEW t \in Threads, toYamlStringDone(t)
     PROVE  Goal
  <2>3. frame' \in [Threads -> Frame] /\ frame'[t] = Idle /\ \A u \in Threads : u # t => frame'[u] = frame[u]
    BY <1>26, <1>2, IdleFrame, Becomes DEF toYamlStringDone, Return
  <2>4. Step(t)
    BY <1>26, <1>0, <1>1, <2>3, IdleFrame DEF toYamlStringDone, Step, Footprint, LockOf
  <2>5. TypeInv'
    BY <1>26, <1>0, <1>1, <2>3, IdleFrame, <1>2, LoggerAssumption DEF toYamlStringDone, TypeInv
  <2>6. ListInv'
    BY <1>26, <1>0, <1>1, <2>3, IdleFrame, <1>2, LoggerAssumption DEF toYamlStringDone, ListInv
  <2>7. LockOf(t)'
    BY <1>26, <1>0, <1>1, <2>3, IdleFrame DEF toYamlStringDone, LockOf
  <2>8. PosOf(t)'
    BY <1>26, <1>0, <1>1, <2>3, IdleFrame DEF toYamlStringDone, PosOf
  <2>0. Quiet(t)
    BY <1>26, <2>3, IdleFrame DEF toYamlStringDone, Quiet, ListChange, Logging
  <2>9. QED
    BY <1>3, <2>0, <2>4, <2>5, <2>6, <2>7, <2>8
<1>27. ASSUME UNCHANGED vars
     PROVE  Goal
  BY <1>27 DEF vars, IInv, TypeInv, ListInv, LockOf, PosOf, Goal
<1>28. QED
  <2>1. ASSUME NEW t \in Users, Use(t)
        PROVE  Goal
    BY <2>1, <1>4, <1>5 DEF Use, Threads
  <2>2. ASSUME NEW t \in Admins, Administer(t)
        PROVE  Goal
    BY <2>2, <1>0, <1>6, <1>7, <1>8, <1>9, <1>10, <1>11, <1>12, <1>13, <1>14, <1>15 DEF Administer, Threads
  <2>3. ASSUME NEW t \in Threads, Continue(t)
        PROVE  Goal
    BY <2>3, <1>16, <1>17, <1>18, <1>19, <1>20, <1>21, <1>22, <1>23, <1>24, <1>25,
       <1>26 DEF Continue
  <2>4. Goal
    <3>1. CASE Next
      BY <2>1, <2>2, <2>3, <3>1 DEF Next
    <3>2. CASE UNCHANGED vars
      BY <3>2, <1>27
    <3>3. QED
      BY <3>1, <3>2
  <2>5. QED
    BY <2>4 DEF Goal

\* Every reachable state satisfies the invariant.
THEOREM Invariance == Spec => []IInv
<1>1. Init => IInv
  BY InitInv
<1>2. IInv /\ [Next]_vars => IInv'
  BY StepInv
<1>3. QED
  BY <1>1, <1>2, PTL DEF Spec

\* Whatever an appender is asked to write, it formats with a formatter: addAppender
\* gives the logger's to an appender that has none before it is in a list
\* (logger.cpp:295-303), and nothing takes a formatter away.
THEOREM FormattersPresent == Spec => []FormatterPresent
<1>1. IInv => FormatterPresent
  <2> SUFFICES ASSUME IInv, NEW l \in Loggers, NEW a \in Appenders, NEW i \in DOMAIN out[l][a]
               PROVE  out[l][a][i].fmt # null
    BY DEF FormatterPresent
  <2>1. out[l][a] \in Seq(Written)
    BY DEF IInv, TypeInv
  <2>2. out[l][a][i] \in Written
    BY <2>1, LenProperties, ElementOfSeq
  <2>3. QED
    BY <2>2, LoggerAssumption DEF Written
<1>2. QED
  BY <1>1, Invariance, PTL

\* The spinlock of a logger protects its list from the first appender of a fan-out
\* (logger.cpp:332) or of setFormatter (logger.cpp:262) to the last, and the manager's
\* its map for a whole dump (logger.cpp:891).
THEOREM IteratorsStayValid == Spec => IteratorValid
<1>1. IInv /\ [Next]_vars => [IteratorKept]_vars
  <2> SUFFICES ASSUME IInv, [Next]_vars, ~UNCHANGED vars
               PROVE  IteratorKept
    OBVIOUS
  <2>1. PICK t \in Threads : Step(t)
    BY StepInv
  <2> SUFFICES ASSUME NEW u \in Threads
               PROVE  /\ frame[u].pc \in {"fan", "spread"} =>
                           m_appenders'[frame[u].on] = m_appenders[frame[u].on]
                      /\ frame[u].pc = "dump" => m_logger' = m_logger
    BY DEF IteratorKept
  <2>2. frame[u].on \in Loggers /\ LockOf(u)
    BY FrameFields DEF IInv, TypeInv
  <2>3. CASE u = t
    BY <2>1, <2>3 DEF Step
  <2>4. CASE u # t
    BY <2>1, <2>2, <2>4 DEF Step, Footprint, LockOf
  <2>5. QED
    BY <2>3, <2>4
<1>2. QED
  BY <1>1, Invariance, PTL DEF Spec, IteratorValid

------------------------------------------------------------------------------
\* A step that leaves formatters alone keeps OwnInv if its thread begins neither a
\* setFormatter nor an addAppender, or does so as an admin with an appender to match.
LEMMA OwnKept ==
  ASSUME OwnInv, NEW t \in Threads, UNCHANGED formatting,
         \A u \in Threads : u # t => frame'[u] = frame[u],
         \/ frame'[t] = frame[t]
         \/ frame'[t].pc \notin {"inherit", "spread"}
         \/ t \in Admins /\ frame'[t].pc = "spread"
         \/ t \in Admins /\ frame'[t].pc = "inherit" /\ ap_formatter[frame'[t].ap] = null
  PROVE  OwnInv'
BY DEF OwnInv, OwnFormatterKept, formatting

\* With one admin every step keeps OwnInv: nobody else gives the appender a formatter
\* between the test and the assignment of addAppender.
LEMMA OwnStep ==
  ASSUME \A s, t \in Admins : s = t
  PROVE  IInv /\ OwnInv /\ [Next]_vars => OwnInv'
<1> SUFFICES ASSUME IInv, OwnInv, [Next]_vars
             PROVE  OwnInv'
    OBVIOUS
<1> USE DEF Begin, At
<1>0. /\ frame \in [Threads -> Frame] /\ Admins \subseteq Threads
      /\ ap_formatter \in [Appenders -> Formatters \cup {null}]
      /\ m_has_Formatter \in [Appenders -> BOOLEAN]
      /\ given \in [Appenders -> Formatters \cup {null}]
      /\ m_formatter \in [Loggers -> Formatters] /\ null \notin Formatters
      /\ TypeInv
      /\ \A t \in Threads : frame[t] \in Frame /\ frame[t].ap \in Appenders /\ frame[t].on \in Loggers
  BY FrameFields, LoggerAssumption DEF IInv, TypeInv, Threads
<1>1. ASSUME NEW t \in Threads, NEW f \in Frame, Become(t, f)
      PROVE  frame'[t] = f /\ \A u \in Threads : u # t => frame'[u] = frame[u]
  BY <1>0, <1>1, Becomes
<1>2. ASSUME NEW t \in Threads, NEW l \in Loggers, getLogger(t, l)
      PROVE  OwnInv'
  BY <1>2, OwnKept DEF getLogger
<1>3. ASSUME NEW t \in Threads, NEW l \in Loggers, NEW v \in Levels, setLevel(t, l, v)
      PROVE  OwnInv'
  BY <1>3, OwnKept DEF setLevel
<1>4. ASSUME NEW t \in Threads, NEW l \in Loggers, NEW a \in Appenders, addAppender(t, l, a)
      PROVE  OwnInv'
  BY <1>4, OwnKept DEF addAppender
<1>5. ASSUME NEW t \in Threads, NEW l \in Loggers, NEW a \in Appenders, delAppender(t, l, a)
      PROVE  OwnInv'
  BY <1>5, OwnKept DEF delAppender
<1>6. ASSUME NEW t \in Threads, NEW l \in Loggers, NEW a \in Appenders, delAppenderMissing(t, l, a)
      PROVE  OwnInv'
  BY <1>6, OwnKept DEF delAppenderMissing
<1>7. ASSUME NEW t \in Threads, NEW l \in Loggers, clearAppenders(t, l)
      PROVE  OwnInv'
  BY <1>7, OwnKept DEF clearAppenders
<1>8. ASSUME NEW t \in Threads, NEW a \in Appenders, NEW v \in Levels, setAppenderLevel(t, a, v)
      PROVE  OwnInv'
  BY <1>8, OwnKept DEF setAppenderLevel
<1>9. ASSUME NEW t \in Threads, toYamlString(t)
      PROVE  OwnInv'
  <2> DEFINE f == [Idle EXCEPT !.pc = "dump", !.todo = m_logger]
  <2>1. f \in Frame /\ f.pc = "dump"
    BY <1>9, <1>0, IdleFrame, LoggerAssumption DEF Frame, Idle, NoEvent, PCs, Event, TypeInv
  <2>2. Become(t, f) /\ UNCHANGED formatting
    BY <1>9 DEF toYamlString, Return
  <2> HIDE DEF f
  <2>3. QED
    BY <1>1, <2>1, <2>2, OwnKept
<1>10. ASSUME NEW t \in Threads, logUnlock(t)
      PROVE  OwnInv'
  <2>1. Become(t, Idle) /\ UNCHANGED formatting
    BY <1>10 DEF logUnlock, Return
  <2>2. QED
    BY <1>1, <2>1, IdleFrame, OwnKept
<1>11. ASSUME NEW t \in Threads, logUnlockRoot(t)
      PROVE  OwnInv'
  <2> DEFINE f == [frame[t] EXCEPT !.on = frame[t].from]
  <2>1. f \in Frame /\ f.pc = "unlock" /\ Become(t, f) /\ UNCHANGED formatting
    BY <1>11, <1>0 DEF logUnlockRoot, At, Frame
  <2> HIDE DEF f
  <2>2. QED
    BY <1>1, <2>1, OwnKept
<1>12. ASSUME NEW t \in Threads, setFormatterDone(t)
      PROVE  OwnInv'
  <2>1. Become(t, Idle) /\ UNCHANGED formatting
    BY <1>12 DEF setFormatterDone, Return
  <2>2. QED
    BY <1>1, <2>1, IdleFrame, OwnKept
<1>13. ASSUME NEW t \in Threads, toYamlStringDone(t)
      PROVE  OwnInv'
  <2>1. Become(t, Idle) /\ UNCHANGED formatting
    BY <1>13 DEF toYamlStringDone, Return
  <2>2. QED
    BY <1>1, <2>1, IdleFrame, OwnKept
<1>14. ASSUME NEW t \in Threads, NEW l \in Loggers, NEW g \in Formatters, t \in Admins, setFormatter(t, l, g)
      PROVE  OwnInv'
  <2> DEFINE f == [Idle EXCEPT !.pc = "spread", !.on = l, !.from = l, !.pos = 1]
  <2>1. f \in Frame /\ f.pc = "spread"
    BY <1>14, LoggerAssumption DEF Frame, Idle, NoEvent, PCs, Event
  <2>2. Become(t, f) /\ UNCHANGED formatting
    BY <1>14 DEF setFormatter
  <2> HIDE DEF f
  <2>3. QED
    BY <1>1, <1>14, <2>1, <2>2, OwnKept
<1>15. ASSUME NEW t \in Threads, NEW l \in Loggers, NEW a \in Appenders, t \in Admins, addAppenderNone(t, l, a)
      PROVE  OwnInv'
  <2> DEFINE f == [Idle EXCEPT !.pc = "inherit", !.on = l, !.from = l, !.ap = a]
  <2>1. f \in Frame /\ f.pc = "inherit" /\ f.ap = a
    BY <1>15, LoggerAssumption DEF Frame, Idle, NoEvent, PCs, Event
  <2>2. Become(t, f) /\ UNCHANGED formatting /\ ap_formatter[a] = null
    BY <1>15 DEF addAppenderNone
  <2> HIDE DEF f
  <2>3. QED
    BY <1>1, <1>15, <2>1, <2>2, OwnKept
<1>16. ASSUME NEW t \in Threads, NEW l \in Loggers, NEW v \in Levels, CHORD_LOG_LEVEL(t, l, v)
      PROVE  OwnInv'
  <2> DEFINE e == [by |-> t, n |-> calls[t] + 1, level |-> v, logger |-> l]
             f == [Idle EXCEPT !.pc = "statement", !.on = l, !.from = l, !.event = e]
  <2>1. e \in Event
    BY <1>16, <1>0, LoggerAssumption DEF Event, TypeInv
  <2>2. f \in Frame /\ f.pc = "statement"
    BY <2>1, LoggerAssumption DEF Frame, PCs, Idle
  <2>3. Become(t, f) /\ UNCHANGED formatting
    BY <1>16 DEF CHORD_LOG_LEVEL
  <2> HIDE DEF f
  <2>4. QED
    BY <1>1, <2>2, <2>3, OwnKept
<1>17. ASSUME NEW t \in Threads, log(t)
      PROVE  OwnInv'
  <2> DEFINE f == [frame[t] EXCEPT !.pc = "lock"]
  <2>1. f \in Frame /\ f.pc = "lock"
    <3>1. frame[t] \in Frame /\ "lock" \in PCs
      BY <1>0 DEF PCs
    <3>2. QED
      BY <3>1, Goto
  <2>4. Become(t, f) \/ Become(t, Idle)
    BY <1>17 DEF log, Return
  <2> HIDE DEF f
  <2>5. frame'[t].pc \notin {"inherit", "spread"} /\ \A u \in Threads : u # t => frame'[u] = frame[u]
    BY <1>1, <2>1, IdleFrame, <2>4
  <2>6. UNCHANGED formatting
    BY <1>17 DEF log
  <2>7. QED
    BY <2>5, <2>6, OwnKept
<1>18. ASSUME NEW t \in Threads, logLock(t)
      PROVE  OwnInv'
  <2> DEFINE p == IF m_appenders[frame[t].on] # << >> THEN "fan"
                  ELSE IF frame[t].on # root THEN "rootlevel" ELSE "unlock"
             f == [frame[t] EXCEPT !.pos = 1, !.pc = p]
  <2>1. p \in PCs /\ p \notin {"inherit", "spread"}
    BY DEF PCs
  <2> HIDE DEF p
  <2>2. f \in Frame /\ f.pc = p
    <3>1. frame[t] \in Frame /\ frame[t].pos + 1 \in Nat
      BY <1>0, FrameFields
    <3>2. QED
      BY <2>1, <3>1 DEF Frame
  <2>4. Become(t, f)
    BY <1>18 DEF logLock, p
  <2> HIDE DEF f
  <2>5. frame'[t].pc \notin {"inherit", "spread"} /\ \A u \in Threads : u # t => frame'[u] = frame[u]
    BY <1>1, <2>1, <2>2, <2>4
  <2>6. UNCHANGED formatting
    BY <1>18 DEF logLock
  <2>7. QED
    BY <2>5, <2>6, OwnKept
<1>19. ASSUME NEW t \in Threads, logRoot(t)
      PROVE  OwnInv'
  <2> DEFINE f == [frame[t] EXCEPT !.pc = "lock", !.on = root]
             g == [frame[t] EXCEPT !.pc = "unlock"]
  <2>1. f \in Frame /\ f.pc = "lock"
    <3>1. frame[t] \in Frame /\ "lock" \in PCs
      BY <1>0 DEF PCs
    <3>2. QED
      BY <3>1, LoggerAssumption DEF Frame
  <2>2. g \in Frame /\ g.pc = "unlock"
    <3>1. frame[t] \in Frame /\ "unlock" \in PCs
      BY <1>0 DEF PCs
    <3>2. QED
      BY <3>1, Goto
  <2>4. Become(t, f) \/ Become(t, g)
    BY <1>19 DEF logRoot
  <2> HIDE DEF f, g
  <2>5. frame'[t].pc \notin {"inherit", "spread"} /\ \A u \in Threads : u # t => frame'[u] = frame[u]
    BY <1>1, <2>1, <2>2, <2>4
  <2>6. UNCHANGED formatting
    BY <1>19 DEF logRoot
  <2>7. QED
    BY <2>5, <2>6, OwnKept
<1>20. ASSUME NEW t \in Threads, logAppender(t)
      PROVE  OwnInv'
  <2> DEFINE p == IF frame[t].pos < Len(m_appenders[frame[t].on]) THEN "fan" ELSE "unlock"
             f == [frame[t] EXCEPT !.pos = @ + 1, !.pc = p]
  <2>1. p \in PCs /\ p \notin {"inherit", "spread"}
    BY DEF PCs
  <2> HIDE DEF p
  <2>2. f \in Frame /\ f.pc = p
    <3>1. frame[t] \in Frame /\ frame[t].pos + 1 \in Nat
      BY <1>0, FrameFields
    <3>2. QED
      BY <2>1, <3>1 DEF Frame
  <2>4. Become(t, f)
    BY <1>20 DEF logAppender, p
  <2> HIDE DEF f
  <2>5. frame'[t].pc \notin {"inherit", "spread"} /\ \A u \in Threads : u # t => frame'[u] = frame[u]
    BY <1>1, <2>1, <2>2, <2>4
  <2>6. UNCHANGED formatting
    BY <1>20 DEF logAppender
  <2>7. QED
    BY <2>5, <2>6, OwnKept
<1>21. ASSUME NEW t \in Threads, toYamlStringLogger(t)
      PROVE  OwnInv'
  <2> DEFINE f(l) == [frame[t] EXCEPT !.todo = @ \ {l}]
  <2>1. \A l : f(l) \in Frame /\ f(l).pc = frame[t].pc
    BY <1>0, FrameFields, Visited
  <2>2. frame[t].pc = "dump" /\ \E l : Become(t, f(l))
    BY <1>21 DEF toYamlStringLogger
  <2> HIDE DEF f
  <2>3. frame'[t].pc \notin {"inherit", "spread"} /\ \A u \in Threads : u # t => frame'[u] = frame[u]
    BY <1>1, <2>1, <2>2
  <2>4. UNCHANGED formatting
    BY <1>21 DEF toYamlStringLogger
  <2>5. QED
    BY <2>3, <2>4, OwnKept
<1>22. ASSUME NEW t \in Threads, NEW a \in Appenders, NEW g \in Formatters, t \in Admins, setAppenderFormatter(t, a, g)
      PROVE  OwnInv'
  <2>1. /\ ap_formatter' = [ap_formatter EXCEPT ![a] = g]
        /\ m_has_Formatter' = [m_has_Formatter EXCEPT ![a] = g # null]
        /\ given' = [given EXCEPT ![a] = g]
        /\ frame' = frame /\ frame[t].pc = "idle"
    BY <1>22 DEF setAppenderFormatter
  <2>2. \A u \in Threads : frame[u].pc # "inherit"
    BY <1>22, <2>1 DEF OwnInv
  <2>3. OwnFormatterKept'
    BY <1>0, <2>1 DEF OwnInv, OwnFormatterKept
  <2>4. QED
    BY <2>1, <2>2, <2>3 DEF OwnInv
<1>23. ASSUME NEW t \in Threads, setFormatterSpread(t)
      PROVE  OwnInv'
  <2> DEFINE f == [frame[t] EXCEPT !.pos = @ + 1]
  <2>1. f \in Frame /\ f.pc = "spread" /\ frame[t].pc = "spread"
    BY <1>23, <1>0 DEF setFormatterSpread, Frame
  <2>2. Become(t, f) /\ m_has_Formatter' = m_has_Formatter /\ given' = given
    BY <1>23 DEF setFormatterSpread
  <2> HIDE DEF f
  <2>3. frame'[t] = f /\ \A u \in Threads : u # t => frame'[u] = frame[u]
    BY <1>1, <2>1, <2>2
  <2>4. \A a \in Appenders : m_has_Formatter[a] => ap_formatter'[a] = ap_formatter[a]
    BY <1>23, <1>0 DEF setFormatterSpread
  <2>5. OwnFormatterKept'
    BY <1>0, <2>2, <2>4 DEF OwnInv, OwnFormatterKept
  <2>6. t \in Admins /\ \A u \in Threads : frame'[u].pc # "inherit"
    BY <2>1, <2>3 DEF OwnInv
  <2>7. \A u \in Threads : frame'[u].pc = "spread" => u \in Admins
    BY <2>3, <2>6 DEF OwnInv
  <2>8. QED
    BY <2>5, <2>6, <2>7 DEF OwnInv
<1>24. ASSUME NEW t \in Threads, addAppenderInherit(t)
      PROVE  OwnInv'
  <2>1. /\ ap_formatter' = [ap_formatter EXCEPT ![frame[t].ap] = m_formatter[frame[t].on]]
        /\ m_has_Formatter' = m_has_Formatter /\ given' = given
        /\ Become(t, Idle) /\ frame[t].pc = "inherit"
    BY <1>24 DEF addAppenderInherit, Return
  <2>2. frame'[t] = Idle /\ \A u \in Threads : u # t => frame'[u] = frame[u]
    BY <1>1, <2>1, IdleFrame
  <2>3. t \in Admins /\ ap_formatter[frame[t].ap] = null
    BY <2>1 DEF OwnInv
  <2>4. ~m_has_Formatter[frame[t].ap]
    BY <1>0, <2>3 DEF OwnInv, OwnFormatterKept
  <2>5. OwnFormatterKept'
    BY <1>0, <2>1, <2>4 DEF OwnInv, OwnFormatterKept
  <2>6. \A u \in Threads : frame'[u].pc \notin {"inherit", "spread"}
    BY <2>2, <2>3, IdleFrame DEF OwnInv
  <2>7. QED
    BY <2>5, <2>6 DEF OwnInv
<1>25. CASE UNCHANGED vars
  BY <1>25 DEF vars, formatting, OwnInv, OwnFormatterKept
<1>26. QED
  <2>1. ASSUME NEW t \in Users, Use(t)
        PROVE  OwnInv'
    BY <2>1, <1>2, <1>16 DEF Use, Threads
  <2>2. ASSUME NEW t \in Admins, Administer(t)
        PROVE  OwnInv'
    <3>1. m_logger \subseteq Loggers /\ t \in Threads
      BY <1>0 DEF TypeInv
    <3>2. QED
      BY <2>2, <3>1, <1>3, <1>14, <1>4, <1>15, <1>5, <1>6, <1>7, <1>22, <1>8, <1>9 DEF Administer
  <2>3. ASSUME NEW t \in Threads, Continue(t)
        PROVE  OwnInv'
    BY <2>3, <1>17, <1>18, <1>19, <1>20, <1>10, <1>11, <1>23, <1>12, <1>24, <1>21, <1>13
       DEF Continue
  <2>4. QED
    BY <2>1, <2>2, <2>3, <1>25 DEF Next

\* As long as one thread alone changes loggers and appenders, a formatter the user
\* gave to an appender stays: setFormatter of a logger and addAppender pass it over
\* (logger.cpp:265, 299-300).
THEOREM OwnFormatters ==
  ASSUME \A s, t \in Admins : s = t
  PROVE  Spec => []OwnFormatterKept
<1>1. Init => IInv /\ OwnInv
  BY InitInv
<1>2. IInv /\ OwnInv /\ [Next]_vars => IInv' /\ OwnInv'
  BY StepInv, OwnStep
<1>3. OwnInv => OwnFormatterKept
  BY DEF OwnInv
<1>4. QED
  BY <1>1, <1>2, <1>3, PTL DEF Spec

------------------------------------------------------------------------------
\* What each step of a call of log() makes of the record of its thread.
LEMMA AfterBegin ==
  ASSUME IInv, NEW t \in Threads, NEW l \in Loggers, NEW v \in Levels, CHORD_LOG_LEVEL(t, l, v)
  PROVE  /\ frame[t].pc = "idle"
         /\ frame'[t].pc = "statement" /\ frame'[t].on = l /\ frame'[t].from = l
         /\ frame'[t].event.by = t /\ frame'[t].event.logger = l /\ frame'[t].event.n = calls[t] + 1
         /\ \A u \in Threads : u # t => frame'[u] = frame[u]
<1> DEFINE e == [by |-> t, n |-> calls[t] + 1, level |-> v, logger |-> l]
           f == [Idle EXCEPT !.pc = "statement", !.on = l, !.from = l, !.event = e]
<1>1. TypeInv /\ frame[t].pc = "idle" /\ Become(t, f)
  BY DEF IInv, CHORD_LOG_LEVEL, Begin
<1>2. e \in Event
  BY <1>1, LoggerAssumption DEF Event, TypeInv
<1>3. f \in Frame /\ f.pc = "statement" /\ f.on = l /\ f.from = l /\ f.event = e
  BY <1>2, LoggerAssumption DEF Frame, PCs, Idle
<1>4. e.by = t /\ e.logger = l /\ e.n = calls[t] + 1
  OBVIOUS
<1> HIDE DEF f, e
<1>5. QED
  BY <1>1, <1>3, <1>4, Becomes

LEMMA AfterLog ==
  ASSUME IInv, NEW t \in Threads, log(t)
  PROVE  /\ frame[t].pc = "statement"
         /\ \/ frame'[t].pc = "idle"
            \/ /\ frame'[t].pc = "lock" /\ frame'[t].on = frame[t].on
               /\ frame'[t].from = frame[t].from /\ frame'[t].event = frame[t].event
         /\ \A u \in Threads : u # t => frame'[u] = frame[u]
<1> DEFINE f == [frame[t] EXCEPT !.pc = "lock"]
<1>1. TypeInv /\ frame[t] \in Frame /\ frame[t].pc = "statement" /\ (Become(t, f) \/ Become(t, Idle))
  BY DEF IInv, TypeInv, log, At, Return
<1>2. f \in Frame /\ f.pc = "lock" /\ f.on = frame[t].on /\ f.from = frame[t].from /\ f.event = frame[t].event
  BY <1>1 DEF Frame, PCs
<1> HIDE DEF f
<1>3. QED
  BY <1>1, <1>2, IdleFrame, Becomes

LEMMA AfterLock ==
  ASSUME IInv, NEW t \in Threads, logLock(t)
  PROVE  /\ frame[t].pc = "lock"
         /\ frame'[t].pc = IF m_appenders[frame[t].on] # << >> THEN "fan"
                           ELSE IF frame[t].on # root THEN "rootlevel" ELSE "unlock"
         /\ frame'[t].pos = 1 /\ frame'[t].on = frame[t].on
         /\ frame'[t].from = frame[t].from /\ frame'[t].event = frame[t].event
         /\ \A u \in Threads : u # t => frame'[u] = frame[u]
<1> DEFINE p == IF m_appenders[frame[t].on] # << >> THEN "fan"
                ELSE IF frame[t].on # root THEN "rootlevel" ELSE "unlock"
           f == [frame[t] EXCEPT !.pos = 1, !.pc = p]
<1>1. TypeInv /\ frame[t] \in Frame /\ frame[t].pc = "lock" /\ Become(t, f)
  BY DEF IInv, TypeInv, logLock, At
<1>2. p \in PCs
  BY DEF PCs
<1> HIDE DEF p
<1>3. /\ f \in Frame /\ f.pc = p /\ f.pos = 1 /\ f.on = frame[t].on /\ f.from = frame[t].from
      /\ f.event = frame[t].event
  BY <1>1, <1>2 DEF Frame
<1> HIDE DEF f
<1>4. QED
  BY <1>1, <1>3, Becomes DEF p

LEMMA AfterRoot ==
  ASSUME IInv, NEW t \in Threads, logRoot(t)
  PROVE  /\ frame[t].pc = "rootlevel"
         /\ \/ frame'[t].pc = "lock" /\ frame'[t].on = root
            \/ frame'[t].pc = "unlock" /\ frame'[t].on = frame[t].on
         /\ frame'[t].from = frame[t].from /\ frame'[t].event = frame[t].event
         /\ \A u \in Threads : u # t => frame'[u] = frame[u]
<1> DEFINE f == [frame[t] EXCEPT !.pc = "lock", !.on = root]
           g == [frame[t] EXCEPT !.pc = "unlock"]
<1>1. TypeInv /\ frame[t] \in Frame /\ frame[t].pc = "rootlevel" /\ (Become(t, f) \/ Become(t, g))
  BY DEF IInv, TypeInv, logRoot, At
<1>2. f \in Frame /\ f.pc = "lock" /\ f.on = root /\ f.from = frame[t].from /\ f.event = frame[t].event
  BY <1>1, LoggerAssumption DEF Frame, PCs
<1>3. g \in Frame /\ g.pc = "unlock" /\ g.on = frame[t].on /\ g.from = frame[t].from /\ g.event = frame[t].event
  BY <1>1 DEF Frame, PCs
<1> HIDE DEF f, g
<1>4. QED
  BY <1>1, <1>2, <1>3, Becomes

LEMMA AfterAppender ==
  ASSUME IInv, NEW t \in Threads, logAppender(t)
  PROVE  /\ frame[t].pc = "fan"
         /\ frame'[t].pc = IF frame[t].pos < Len(m_appenders[frame[t].on]) THEN "fan" ELSE "unlock"
         /\ frame'[t].pos = frame[t].pos + 1 /\ frame'[t].on = frame[t].on
         /\ frame'[t].from = frame[t].from /\ frame'[t].event = frame[t].event
         /\ \A u \in Threads : u # t => frame'[u] = frame[u]
<1> DEFINE p == IF frame[t].pos < Len(m_appenders[frame[t].on]) THEN "fan" ELSE "unlock"
           f == [frame[t] EXCEPT !.pos = @ + 1, !.pc = p]
<1>1. TypeInv /\ frame[t] \in Frame /\ frame[t].pc = "fan" /\ Become(t, f)
  BY DEF IInv, TypeInv, logAppender, At
<1>2. p \in PCs /\ frame[t].pos + 1 \in Nat
  BY <1>1, FrameFields DEF PCs
<1> HIDE DEF p
<1>3. /\ f \in Frame /\ f.pc = p /\ f.pos = frame[t].pos + 1 /\ f.on = frame[t].on
      /\ f.from = frame[t].from /\ f.event = frame[t].event
  BY <1>1, <1>2 DEF Frame
<1> HIDE DEF f
<1>4. QED
  BY <1>1, <1>3, Becomes DEF p

LEMMA AfterUnlockRoot ==
  ASSUME IInv, NEW t \in Threads, logUnlockRoot(t)
  PROVE  /\ frame[t].pc = "unlock" /\ frame'[t].pc = "unlock" /\ frame'[t].on = frame[t].from
         /\ frame'[t].from = frame[t].from /\ frame'[t].event = frame[t].event
         /\ \A u \in Threads : u # t => frame'[u] = frame[u]
<1> DEFINE f == [frame[t] EXCEPT !.on = frame[t].from]
<1>1. TypeInv /\ frame[t] \in Frame /\ frame[t].pc = "unlock" /\ Become(t, f)
  BY DEF IInv, TypeInv, logUnlockRoot, At
<1>2. /\ f \in Frame /\ f.pc = "unlock" /\ f.on = frame[t].from
      /\ f.from = frame[t].from /\ f.event = frame[t].event
  BY <1>1 DEF Frame
<1> HIDE DEF f
<1>3. QED
  BY <1>1, <1>2, Becomes

LEMMA AfterUnlock ==
  ASSUME IInv, NEW t \in Threads, logUnlock(t)
  PROVE  /\ frame[t].pc = "unlock" /\ frame'[t].pc = "idle"
         /\ \A u \in Threads : u # t => frame'[u] = frame[u]
<1>1. TypeInv /\ frame[t].pc = "unlock" /\ Become(t, Idle)
  BY DEF IInv, logUnlock, At, Return
<1>2. QED
  BY <1>1, IdleFrame, Becomes

\* The fan-out adds the event of t to what its logger handed to one appender.
LEMMA HandedOver ==
  ASSUME IInv, NEW t \in Threads, logAppender(t)
  PROVE  LET l == frame[t].on
             b == m_appenders[l][frame[t].pos]
         IN /\ l \in Loggers /\ b \in Appenders
            /\ frame[t].pos \in 1 .. Len(m_appenders[l]) /\ Len(m_appenders[l]) \in Nat
            /\ out'[l][b] = Append(out[l][b], Entry(t, b))
            /\ \A m \in Loggers, a \in Appenders : m # l \/ a # b => out'[m][a] = out[m][a]
<1> DEFINE l == frame[t].on
           b == m_appenders[l][frame[t].pos]
<1>1. /\ TypeInv /\ l \in Loggers /\ m_appenders[l] \in Seq(Appenders)
      /\ frame[t].pos \in 1 .. Len(m_appenders[l])
  BY FrameFields DEF IInv, TypeInv, PosOf, logAppender, At
<1>2. b \in Appenders /\ Len(m_appenders[l]) \in Nat
  BY <1>1, ElementOfSeq, LenProperties
<1>3. out' = [out EXCEPT ![l][b] = Append(@, Entry(t, b))]
  BY DEF logAppender
<1> HIDE DEF l, b
<1>4. /\ out'[l][b] = Append(out[l][b], Entry(t, b))
      /\ \A m \in Loggers, a \in Appenders : m # l \/ a # b => out'[m][a] = out[m][a]
  BY <1>1, <1>2, <1>3 DEF TypeInv
<1>5. QED
  BY <1>1, <1>2, <1>4 DEF l, b

\* The other threads keep what their records say: a step of t changes neither their
\* records, nor their calls, nor the list of a logger they have locked.
LEMMA EventOthers ==
  ASSUME IInv, EventInv, NEW t \in Threads, Step(t),
         calls' = calls \/ calls' = [calls EXCEPT ![t] = @ + 1]
  PROVE  \A u \in Threads : u # t => EventOf(u)' /\ calls'[u] = calls[u] /\ frame'[u] = frame[u]
<1> SUFFICES ASSUME NEW u \in Threads, u # t
             PROVE  EventOf(u)' /\ calls'[u] = calls[u] /\ frame'[u] = frame[u]
    OBVIOUS
<1>1. frame'[u] = frame[u] /\ frame[u].from \in Loggers /\ LockOf(u) /\ calls'[u] = calls[u]
  BY FrameFields DEF IInv, TypeInv, Step, Footprint
<1>2. frame[u].pc = "rootlevel" \/ (frame[u].pc = "lock" /\ frame[u].on # frame[u].from) =>
        m_appenders'[frame[u].from] = m_appenders[frame[u].from]
  BY <1>1 DEF LockOf, Step, Footprint
<1>3. EventOf(u)
  BY DEF EventInv
<1>4. EventOf(u)'
  BY <1>1, <1>2, <1>3 DEF EventOf
<1>5. QED
  BY <1>1, <1>4

\* A step that hands nothing over keeps OutOf: t has published nothing of its present
\* event if it had not before.
LEMMA OutKept ==
  ASSUME IInv, EventInv, NEW t \in Threads, out' = out,
         \A u \in Threads : u # t => calls'[u] = calls[u] /\ frame'[u] = frame[u],
         \/ /\ calls' = calls
            /\ frame'[t].pc \in {"statement", "lock", "rootlevel"} =>
                 frame[t].pc \in {"statement", "lock", "rootlevel"}
         \/ calls'[t] = calls[t] + 1
  PROVE  \A u \in Threads : OutOf(u)'
<1> SUFFICES ASSUME NEW u \in Threads, NEW l \in Loggers, NEW a \in Appenders, NEW i \in DOMAIN out[l][a],
                    out[l][a][i].event.by = u
             PROVE  /\ out[l][a][i].event.n <= calls'[u]
                    /\ frame'[u].pc \in {"statement", "lock", "rootlevel"} => out[l][a][i].event.n < calls'[u]
    BY DEF OutOf
<1>1. /\ out[l][a][i].event.n <= calls[u]
      /\ frame[u].pc \in {"statement", "lock", "rootlevel"} => out[l][a][i].event.n < calls[u]
  BY DEF EventInv, OutOf
<1>2. out[l][a][i].event.n \in Nat /\ calls[u] \in Nat
  <2>1. out[l][a] \in Seq(Written)
    BY DEF IInv, TypeInv
  <2>2. out[l][a][i] \in Written
    BY <2>1, ElementOfSeq, LenProperties
  <2>3. QED
    BY <2>2 DEF Written, Event, IInv, TypeInv
<1>3. QED
  BY <1>1, <1>2

\* Every step keeps what the records and the appenders' input say of events.
LEMMA EventStep ==
  ASSUME IInv, EventInv, NEW t \in Threads, Step(t), Quiet(t) \/ Logs(t)
  PROVE  EventInv'
<1> DEFINE Kept == \A u \in Threads : u # t => calls'[u] = calls[u] /\ frame'[u] = frame[u]
<1>1. /\ calls \in [Threads -> Nat] /\ EventOf(t) /\ OutOf(t) /\ LockOf(t)
      /\ frame[t].on \in Loggers /\ frame[t].from \in Loggers
  BY FrameFields DEF IInv, TypeInv, EventInv
<1>2. ASSUME calls' = calls \/ calls' = [calls EXCEPT ![t] = @ + 1], EventOf(t)'
      PROVE  Kept /\ \A u \in Threads : EventOf(u)'
  BY <1>2, EventOthers
<1>3. CASE Quiet(t)
  <2>1. EventOf(t)' /\ (calls' = calls \/ calls' = [calls EXCEPT ![t] = @ + 1]) /\ out' = out
    BY <1>3 DEF Quiet, EventOf, Logging
  <2>2. calls' = calls \/ calls'[t] = calls[t] + 1
    BY <1>1, <2>1
  <2>3. frame'[t].pc \notin {"statement", "lock", "rootlevel"}
    BY <1>3 DEF Quiet, Logging
  <2>4. QED
    BY <1>2, <2>1, <2>2, <2>3, OutKept DEF EventInv
<1>4. ASSUME NEW l \in Loggers, NEW v \in Levels, t \in Users, CHORD_LOG_LEVEL(t, l, v)
      PROVE  EventInv'
  <2>1. /\ calls' = [calls EXCEPT ![t] = @ + 1] /\ out' = out /\ calls[t] < MaxEvents
    BY <1>4 DEF CHORD_LOG_LEVEL, Begin
  <2>2. EventOf(t)'
    BY <1>1, <1>4, <2>1, AfterBegin, LoggerAssumption DEF EventOf, Logging
  <2>3. calls'[t] = calls[t] + 1
    BY <1>1, <2>1
  <2>4. QED
    BY <1>2, <2>1, <2>2, <2>3, OutKept DEF EventInv
<1>5. CASE log(t)
  <2>1. calls' = calls /\ out' = out /\ m_appenders' = m_appenders
    BY <1>5 DEF log, At
  <2>2. EventOf(t)'
    BY <1>1, <1>5, <2>1, AfterLog DEF EventOf, Logging, LockOf
  <2>3. frame[t].pc \in {"statement", "lock", "rootlevel"}
    BY <1>5, AfterLog
  <2>4. QED
    BY <1>2, <2>1, <2>2, <2>3, OutKept DEF EventInv
<1>6. CASE logLock(t)
  <2>1. calls' = calls /\ out' = out /\ m_appenders' = m_appenders
    BY <1>6 DEF logLock, At
  <2>2. EventOf(t)'
    BY <1>1, <1>6, <2>1, AfterLock DEF EventOf, Logging
  <2>3. frame[t].pc \in {"statement", "lock", "rootlevel"}
    BY <1>6, AfterLock
  <2>4. QED
    BY <1>2, <2>1, <2>2, <2>3, OutKept DEF EventInv
<1>7. CASE logRoot(t)
  <2>1. calls' = calls /\ out' = out /\ m_appenders' = m_appenders
    BY <1>7 DEF logRoot, At
  <2>2. EventOf(t)'
    BY <1>1, <1>7, <2>1, AfterRoot DEF EventOf, Logging
  <2>3. frame[t].pc \in {"statement", "lock", "rootlevel"}
    BY <1>7, AfterRoot
  <2>4. QED
    BY <1>2, <2>1, <2>2, <2>3, OutKept DEF EventInv
<1>8. CASE logUnlock(t)
  <2>1. calls' = calls /\ out' = out /\ m_appenders' = m_appenders
    BY <1>8 DEF logUnlock, At
  <2>2. EventOf(t)' /\ frame'[t].pc \notin {"statement", "lock", "rootlevel"}
    BY <1>8, AfterUnlock DEF EventOf, Logging
  <2>3. QED
    BY <1>2, <2>1, <2>2, OutKept DEF EventInv
<1>9. CASE logUnlockRoot(t)
  <2>1. calls' = calls /\ out' = out /\ m_appenders' = m_appenders
    BY <1>9 DEF logUnlockRoot, At
  <2>2. EventOf(t)' /\ frame'[t].pc \notin {"statement", "lock", "rootlevel"}
    BY <1>1, <1>9, <2>1, AfterUnlockRoot DEF EventOf, Logging
  <2>3. QED
    BY <1>2, <2>1, <2>2, OutKept DEF EventInv
<1>10. CASE logAppender(t)
  <2> DEFINE m == frame[t].on
             b == m_appenders[m][frame[t].pos]
  <2>1. calls' = calls /\ m_appenders' = m_appenders
    BY <1>10 DEF logAppender, At
  <2>2. EventOf(t)' /\ frame'[t].pc \notin {"statement", "lock", "rootlevel"}
    BY <1>1, <1>10, <2>1, AfterAppender DEF EventOf, Logging
  <2>3. frame[t].event.by = t /\ frame[t].event.n = calls[t]
    BY <1>1, <1>10, AfterAppender DEF EventOf, Logging
  <2>4. /\ m \in Loggers /\ b \in Appenders /\ out'[m][b] = Append(out[m][b], Entry(t, b))
        /\ \A l \in Loggers, a \in Appenders : l # m \/ a # b => out'[l][a] = out[l][a]
    BY <1>10, HandedOver
  <2>5. Entry(t, b).event = frame[t].event
    BY DEF Entry
  <2>6. out[m][b] \in Seq(Written)
    BY <2>4 DEF IInv, TypeInv
  <2> HIDE DEF m, b
  <2>7. ASSUME NEW l \in Loggers, NEW a \in Appenders, NEW i \in DOMAIN out'[l][a]
        PROVE  \/ i \in DOMAIN out[l][a] /\ out'[l][a][i] = out[l][a][i]
               \/ out'[l][a][i].event = frame[t].event
    <3>1. CASE l = m /\ a = b
      <4>1. i \in 1 .. Len(out[m][b]) + 1
        BY <2>4, <2>6, <2>7, <3>1, LenProperties
      <4>2. CASE i = Len(out[m][b]) + 1
        BY <2>4, <2>5, <2>6, <3>1, <4>2
      <4>3. CASE i # Len(out[m][b]) + 1
        <5>1. i \in 1 .. Len(out[m][b])
          BY <2>6, <4>1, <4>3, LenProperties
        <5>2. QED
          BY <2>4, <2>6, <3>1, <5>1, LenProperties
      <4>4. QED
        BY <4>2, <4>3
    <3>2. CASE ~(l = m /\ a = b)
      BY <2>4, <2>7, <3>2
    <3>3. QED
      BY <3>1, <3>2
  <2>8. Kept /\ \A u \in Threads : EventOf(u)'
    BY <1>2, <2>1, <2>2
  <2>9. ASSUME NEW u \in Threads
        PROVE  OutOf(u)'
    <3> SUFFICES ASSUME NEW l \in Loggers, NEW a \in Appenders, NEW i \in DOMAIN out'[l][a],
                        out'[l][a][i].event.by = u
                 PROVE  /\ out'[l][a][i].event.n <= calls'[u]
                        /\ frame'[u].pc \in {"statement", "lock", "rootlevel"} =>
                             out'[l][a][i].event.n < calls'[u]
      BY DEF OutOf
    <3>1. CASE i \in DOMAIN out[l][a] /\ out'[l][a][i] = out[l][a][i]
      <4>1. OutOf(u)
        BY DEF EventInv
      <4>2. CASE u = t
        BY <2>1, <2>2, <3>1, <4>1, <4>2 DEF OutOf
      <4>3. CASE u # t
        BY <2>1, <2>8, <3>1, <4>1, <4>3 DEF OutOf
      <4>4. QED
        BY <4>2, <4>3
    <3>2. CASE out'[l][a][i].event = frame[t].event
      BY <1>1, <2>1, <2>2, <2>3, <3>2
    <3>3. QED
      BY <2>7, <3>1, <3>2
  <2>10. QED
    BY <2>8, <2>9 DEF EventInv
<1>11. QED
  BY <1>3, <1>4, <1>5, <1>6, <1>7, <1>8, <1>9, <1>10 DEF Logs

\* Initially no thread logs and no appender was handed anything.
LEMMA EventInit == Init => EventInv
<1> SUFFICES ASSUME Init PROVE EventInv
    OBVIOUS
<1>1. ASSUME NEW t \in Threads
      PROVE  EventOf(t)
  <2>1. frame[t].pc = "idle"
    BY IdleFrame DEF Init
  <2>2. QED
    BY <2>1 DEF EventOf, Logging
<1>2. ASSUME NEW t \in Threads
      PROVE  OutOf(t)
  BY DEF Init, OutOf
<1>3. QED
  BY <1>1, <1>2 DEF EventInv

------------------------------------------------------------------------------
\* The occurrences of a in a list from a position on, and an event, k times.
From(list, pos, a) == {i \in pos .. Len(list) : list[i] = a}
Times(k, e) == [n \in 1 .. k |-> e]

\* One occurrence fewer after a, as many after another appender.
LEMMA FromNext ==
  ASSUME NEW S, NEW list \in Seq(S), NEW p \in 1 .. Len(list), NEW a
  PROVE  /\ IsFiniteSet(From(list, p, a)) /\ IsFiniteSet(From(list, p + 1, a))
         /\ list[p] = a => Cardinality(From(list, p, a)) = Cardinality(From(list, p + 1, a)) + 1
         /\ list[p] # a => From(list, p, a) = From(list, p + 1, a)
<1>1. Len(list) \in Nat /\ p \in Int /\ p + 1 \in Int
  BY LenProperties
<1>2. IsFiniteSet(p .. Len(list)) /\ IsFiniteSet(p + 1 .. Len(list))
  BY <1>1, FS_Interval
<1>3. IsFiniteSet(From(list, p, a)) /\ IsFiniteSet(From(list, p + 1, a))
  <2>1. From(list, p, a) \subseteq p .. Len(list) /\ From(list, p + 1, a) \subseteq p + 1 .. Len(list)
    BY DEF From
  <2>2. QED
    BY <1>2, <2>1, FS_Subset
<1>4. ASSUME list[p] = a
      PROVE  Cardinality(From(list, p, a)) = Cardinality(From(list, p + 1, a)) + 1
  <2>1. From(list, p, a) = From(list, p + 1, a) \cup {p} /\ p \notin From(list, p + 1, a)
    BY <1>1, <1>4 DEF From
  <2>2. QED
    BY <1>3, <2>1, FS_AddElement
<1>5. ASSUME list[p] # a
      PROVE  From(list, p, a) = From(list, p + 1, a)
  BY <1>1, <1>5 DEF From
<1>6. QED
  BY <1>3, <1>4, <1>5

\* The first of k + 1 copies goes to the end of the sequence before them.
LEMMA OneMore ==
  ASSUME NEW S, NEW s \in Seq(S), NEW e \in S, NEW k \in Nat
  PROVE  s \o Times(k + 1, e) = Append(s, e) \o Times(k, e)
<1>1. ASSUME NEW n \in Nat
      PROVE  Times(n, e) \in Seq(S) /\ Len(Times(n, e)) = n /\ \A i \in 1 .. n : Times(n, e)[i] = e
  BY DEF Times
<1>2. Append(s, e) \in Seq(S) /\ Len(Append(s, e)) = Len(s) + 1 /\ Len(s) \in Nat
  BY AppendProperties, LenProperties
<1>3. Times(k + 1, e) \in Seq(S) /\ Times(k, e) \in Seq(S) /\ Len(Times(k + 1, e)) = k + 1 /\ Len(Times(k, e)) = k
  BY <1>1
<1> DEFINE x == s \o Times(k + 1, e)
           y == Append(s, e) \o Times(k, e)
<1>4. x \in Seq(S) /\ Len(x) = Len(s) + (k + 1)
      /\ \A i \in 1 .. Len(s) + (k + 1) :
           x[i] = IF i <= Len(s) THEN s[i] ELSE Times(k + 1, e)[i - Len(s)]
  <2>1. x \in Seq(S) /\ Len(x) = Len(s) + Len(Times(k + 1, e))
    BY <1>3, ConcatProperties
  <2>2. \A i \in 1 .. Len(s) + Len(Times(k + 1, e)) :
          x[i] = IF i <= Len(s) THEN s[i] ELSE Times(k + 1, e)[i - Len(s)]
    BY <1>3, ConcatProperties
  <2> HIDE DEF x
  <2>3. QED
    BY <1>3, <2>1, <2>2
<1>5. y \in Seq(S) /\ Len(y) = (Len(s) + 1) + k
      /\ \A i \in 1 .. (Len(s) + 1) + k :
           y[i] = IF i <= Len(s) + 1 THEN Append(s, e)[i] ELSE Times(k, e)[i - (Len(s) + 1)]
  <2>1. y \in Seq(S) /\ Len(y) = Len(Append(s, e)) + Len(Times(k, e))
    BY <1>2, <1>3, ConcatProperties
  <2>2. \A i \in 1 .. Len(Append(s, e)) + Len(Times(k, e)) :
          y[i] = IF i <= Len(Append(s, e)) THEN Append(s, e)[i] ELSE Times(k, e)[i - Len(Append(s, e))]
    BY <1>2, <1>3, ConcatProperties
  <2> HIDE DEF y
  <2>3. QED
    BY <1>2, <1>3, <2>1, <2>2
<1> HIDE DEF x, y
<1>6. Len(x) = Len(y)
  BY <1>2, <1>4, <1>5
<1>7. ASSUME NEW i \in 1 .. Len(x)
      PROVE  x[i] = y[i]
  <2>1. i \in 1 .. Len(s) + (k + 1) /\ i \in 1 .. (Len(s) + 1) + k /\ i \in Int
    BY <1>2, <1>4, <1>7
  <2>2. CASE i <= Len(s)
    BY <1>2, <1>4, <1>5, <2>1, <2>2, AppendProperties
  <2>3. CASE i = Len(s) + 1
    <3>1. x[i] = e
      <4>1. x[i] = Times(k + 1, e)[i - Len(s)]
        BY <1>2, <1>4, <2>1, <2>3
      <4>2. i - Len(s) = 1 /\ 1 \in 1 .. k + 1 /\ k + 1 \in Nat
        BY <1>2, <2>3
      <4>3. QED
        BY <1>1, <4>1, <4>2
    <3>2. y[i] = Append(s, e)[Len(s) + 1]
      BY <1>2, <1>5, <2>1, <2>3
    <3>3. QED
      BY <3>1, <3>2, AppendProperties
  <2>4. CASE i > Len(s) + 1
    <3>1. i - Len(s) \in 1 .. k + 1 /\ i - (Len(s) + 1) \in 1 .. k
      BY <1>2, <2>1, <2>4
    <3>2. x[i] = Times(k + 1, e)[i - Len(s)] /\ k + 1 \in Nat
      BY <1>2, <1>4, <2>1, <2>4
    <3>3. y[i] = Times(k, e)[i - (Len(s) + 1)]
      BY <1>2, <1>5, <2>1, <2>4
    <3>4. QED
      BY <1>1, <3>1, <3>2, <3>3
  <2>5. QED
    BY <1>2, <2>1, <2>2, <2>3, <2>4
<1>8. x = y
  BY <1>4, <1>5, <1>6, <1>7, SeqEqual
<1>9. QED
  BY <1>8 DEF x, y

\* At most the holder of the lock of a logger is in its fan-out.
LEMMA PendingIs ==
  IInv => \A l \in Loggers, a \in Appenders :
            /\ (\A t \in Threads : ~(frame[t].pc = "fan" /\ frame[t].on = l)) => Pending(l, a) = << >>
            /\ \A t \in Threads : frame[t].pc = "fan" /\ frame[t].on = l =>
                 Pending(l, a) = Times(Cardinality(From(m_appenders[l], frame[t].pos, a)), Name(frame[t].event))
<1> SUFFICES ASSUME IInv, NEW l \in Loggers, NEW a \in Appenders
             PROVE  /\ (\A t \in Threads : ~(frame[t].pc = "fan" /\ frame[t].on = l)) => Pending(l, a) = << >>
                    /\ \A t \in Threads : frame[t].pc = "fan" /\ frame[t].on = l =>
                         Pending(l, a) =
                           Times(Cardinality(From(m_appenders[l], frame[t].pos, a)), Name(frame[t].event))
    OBVIOUS
<1>1. ASSUME \A t \in Threads : ~(frame[t].pc = "fan" /\ frame[t].on = l)
      PROVE  Pending(l, a) = << >>
  BY <1>1 DEF Pending, Fanning
<1>2. ASSUME NEW t \in Threads, frame[t].pc = "fan", frame[t].on = l
      PROVE  Pending(l, a) = Times(Cardinality(From(m_appenders[l], frame[t].pos, a)), Name(frame[t].event))
  <2>1. m_mutex[l] = t /\ \A u \in Threads : LockOf(u)
    BY <1>2 DEF IInv, LockOf
  <2>2. Fanning(l) = {t}
    BY <1>2, <2>1 DEF Fanning, LockOf
  <2>3. (CHOOSE u \in Fanning(l) : TRUE) = t
    BY <2>2
  <2>4. QED
    BY <2>2, <2>3 DEF Pending, From, Times
<1>3. QED
  BY <1>1, <1>2

\* The same of the next state.
LEMMA PendingNext ==
  IInv' => \A l \in Loggers, a \in Appenders :
             /\ (\A t \in Threads : ~(frame'[t].pc = "fan" /\ frame'[t].on = l)) => Pending(l, a)' = << >>
             /\ \A t \in Threads : frame'[t].pc = "fan" /\ frame'[t].on = l =>
                  Pending(l, a)' =
                    Times(Cardinality(From(m_appenders'[l], frame'[t].pos, a)), Name(frame'[t].event))
<1>1. (IInv => \A l \in Loggers, a \in Appenders :
            /\ (\A t \in Threads : ~(frame[t].pc = "fan" /\ frame[t].on = l)) => Pending(l, a) = << >>
            /\ \A t \in Threads : frame[t].pc = "fan" /\ frame[t].on = l =>
                 Pending(l, a) = Times(Cardinality(From(m_appenders[l], frame[t].pos, a)), Name(frame[t].event)))'
  BY PendingIs, PTL
<1>2. QED
  BY <1>1 DEF From, Times, Name

\* A logger that t is in no fan-out of, before or after, keeps what is pending.
LEMMA PendingKept ==
  ASSUME IInv, NEW t \in Threads, Step(t), NEW l \in Loggers, NEW a \in Appenders,
         ~(frame[t].pc = "fan" /\ frame[t].on = l), ~(frame'[t].pc = "fan" /\ frame'[t].on = l)
  PROVE  Pending(l, a)' = Pending(l, a)
<1>1. \A u \in Threads : u # t => frame'[u] = frame[u]
  BY DEF Step, Footprint
<1>2. Fanning(l)' = Fanning(l)
  BY <1>1 DEF Fanning
<1>3. CASE Fanning(l) = {}
  BY <1>2, <1>3 DEF Pending
<1>4. CASE Fanning(l) # {}
  <2> DEFINE u == CHOOSE u \in Fanning(l) : TRUE
  <2>1. u \in Fanning(l)
    BY <1>4
  <2> HIDE DEF u
  <2>2. u \in Threads /\ u # t /\ frame[u].pc = "fan" /\ frame[u].on = l
    BY <2>1 DEF Fanning
  <2>3. frame'[u] = frame[u] /\ m_mutex[l] = u
    BY <1>1, <2>2 DEF IInv, LockOf
  <2>4. m_appenders'[l] = m_appenders[l]
    BY <2>2, <2>3 DEF Step, Footprint
  <2>5. QED
    BY <1>2, <1>4, <2>3, <2>4 DEF Pending, u, Name
<1>5. QED
  BY <1>3, <1>4

------------------------------------------------------------------------------
\* What the appenders were handed, as events of the bus.
Names == {Name(e) : e \in Event}

LEMMA HandedType ==
  ASSUME IInv, NEW l \in Loggers, NEW a \in Appenders
  PROVE  HandedBy(l, a) \in Seq(Names) /\ Len(HandedBy(l, a)) = Len(out[l][a])
<1>1. out[l][a] \in Seq(Written) /\ DOMAIN out[l][a] = 1 .. Len(out[l][a]) /\ Len(out[l][a]) \in Nat
  BY LenProperties DEF IInv, TypeInv
<1>2. ASSUME NEW n \in 1 .. Len(out[l][a])
      PROVE  Name(out[l][a][n].event) \in Names
  <2>1. out[l][a][n] \in Written
    BY <1>1, ElementOfSeq
  <2>2. out[l][a][n].event \in Event
    BY <2>1 DEF Written
  <2>3. QED
    BY <2>2 DEF Names
<1>3. HandedBy(l, a) = [n \in 1 .. Len(out[l][a]) |-> Name(out[l][a][n].event)]
  BY <1>1 DEF HandedBy
<1>4. QED
  BY <1>1, <1>2, <1>3

\* A step in which the thread hands nothing over and is in no fan-out.
LEMMA DeliveredKept ==
  ASSUME IInv, NEW t \in Threads, Step(t), out' = out, frame[t].pc # "fan", frame'[t].pc # "fan"
  PROVE  Delivered' = Delivered
<1>1. \A l \in Loggers, a \in Appenders : Pending(l, a)' = Pending(l, a)
  BY PendingKept
<1>2. \A l \in Loggers, a \in Appenders : HandedBy(l, a)' = HandedBy(l, a)
  BY DEF HandedBy, Name
<1>3. QED
  BY <1>1, <1>2 DEF Delivered

\* The lock of a logger with appenders: the event is published, for it is no earlier
\* one and nobody else is in the middle of publishing it.
LEMMA LockPublishes ==
  ASSUME IInv, IInv', EventInv, NEW t \in Threads, Step(t), logLock(t), m_appenders[frame[t].on] # << >>,
         NEW l, l = frame[t].on, NEW e, e = Name(frame[t].event)
  PROVE  Bus!Publish(e)
<1>1. /\ l \in Loggers /\ frame[t].from \in Loggers /\ m_appenders \in [Loggers -> Seq(Appenders)]
      /\ frame[t].pc = "lock" /\ EventOf(t) /\ OutOf(t)
      /\ m_appenders' = m_appenders /\ out' = out /\ m_mutex[l] = NoThread
  BY FrameFields DEF IInv, TypeInv, EventInv, logLock, At, Acquire, Free
<1>2. frame'[t].pc = "fan" /\ frame'[t].pos = 1 /\ frame'[t].on = l /\ frame'[t].event = frame[t].event
  BY AfterLock
<1>3. frame[t].event.by = t /\ frame[t].event.n = calls[t] /\ frame[t].event.logger = frame[t].from
  BY <1>1 DEF EventOf, Logging
<1>4. e.by = t /\ e.n = calls[t] /\ e.logger = frame[t].from
  BY <1>3 DEF Name
<1>5. l = IF m_appenders[e.logger] # << >> THEN e.logger ELSE root
  BY <1>1, <1>4 DEF EventOf
<1>6. \A u \in Threads : ~(frame[u].pc = "fan" /\ frame[u].on = l)
  BY <1>1, LoggerAssumption DEF IInv, LockOf, Threads
<1>7. \A a \in Appenders : Pending(l, a) = << >>
  BY <1>1, <1>6, PendingIs
<1>8. \A a \in Appenders : Pending(l, a)' = Times(Cardinality(From(m_appenders[l], 1, a)), e)
  <2> SUFFICES ASSUME NEW a \in Appenders
               PROVE  Pending(l, a)' = Times(Cardinality(From(m_appenders[l], 1, a)), e)
      OBVIOUS
  <2>1. Pending(l, a)' = Times(Cardinality(From(m_appenders'[l], frame'[t].pos, a)), Name(frame'[t].event))
    BY <1>1, <1>2, PendingNext
  <2>2. QED
    BY <1>1, <1>2, <2>1
<1>9. \A m \in Loggers, a \in Appenders : m # l => Pending(m, a)' = Pending(m, a)
  BY <1>1, <1>2, PendingKept
<1>10. \A m \in Loggers, a \in Appenders : HandedBy(m, a)' = HandedBy(m, a)
  BY <1>1 DEF HandedBy, Name
<1>11. ASSUME NEW a \in Appenders
       PROVE  Bus!Copies(m_appenders[l], a, e) = Times(Cardinality(From(m_appenders[l], 1, a)), e)
  <2>1. DOMAIN m_appenders[l] = 1 .. Len(m_appenders[l])
    BY <1>1, LenProperties
  <2>2. {i \in DOMAIN m_appenders[l] : m_appenders[l][i] = a} = From(m_appenders[l], 1, a)
    BY <2>1 DEF From
  <2>3. Bus!Copies(m_appenders[l], a, e) = Times(Cardinality({i \in DOMAIN m_appenders[l] : m_appenders[l][i] = a}), e)
    BY Zenon DEF Bus!Copies, Times, Cardinality, Bus!Cardinality
  <2>4. QED
    BY <2>2, <2>3
<1>12. ASSUME NEW a \in Appenders
       PROVE  Delivered'[l][a] = Delivered[l][a] \o Bus!Copies(m_appenders[l], a, e)
  <2>1. HandedBy(l, a) \in Seq(Names)
    BY <1>1, HandedType
  <2>2. Delivered[l][a] = HandedBy(l, a)
    <3>1. Delivered[l][a] = HandedBy(l, a) \o << >>
      BY <1>1, <1>7 DEF Delivered
    <3>2. QED
      BY <2>1, <3>1, ConcatEmptySeq
  <2>3. Delivered'[l][a] = HandedBy(l, a) \o Times(Cardinality(From(m_appenders[l], 1, a)), e)
    <3>1. Delivered'[l][a] = HandedBy(l, a)' \o Pending(l, a)'
      BY <1>1 DEF Delivered
    <3>2. QED
      BY <1>1, <1>8, <1>10, <3>1
  <2>4. QED
    BY <1>11, <2>2, <2>3
<1>13. ASSUME NEW m \in Loggers, m # l
       PROVE  Delivered'[m] = Delivered[m]
  BY <1>9, <1>10, <1>13 DEF Delivered
<1>14. Delivered' = [Delivered EXCEPT ![l] = [a \in Appenders |-> @[a] \o Bus!Copies(m_appenders[l], a, e)]]
  <2> DEFINE D == [Delivered EXCEPT ![l] = [a \in Appenders |-> @[a] \o Bus!Copies(m_appenders[l], a, e)]]
  <2>1. Delivered' = [m \in Loggers |-> Delivered'[m]] /\ D = [m \in Loggers |-> D[m]]
    BY DEF Delivered
  <2>2. ASSUME NEW m \in Loggers
        PROVE  Delivered'[m] = D[m]
    <3>1. CASE m = l
      <4>1. D[m] = [a \in Appenders |-> Delivered[l][a] \o Bus!Copies(m_appenders[l], a, e)]
        BY <3>1 DEF Delivered
      <4>2. Delivered'[m] = [a \in Appenders |-> Delivered'[l][a]]
        BY <1>1, <3>1 DEF Delivered
      <4>3. QED
        BY <1>12, <4>1, <4>2
    <3>2. CASE m # l
      BY <1>13, <3>2 DEF Delivered
    <3>3. QED
      BY <3>1, <3>2
  <2> HIDE DEF D
  <2>3. QED
    BY <2>1, <2>2 DEF D
<1>15. ASSUME NEW m \in Loggers, NEW a \in Appenders, NEW n \in DOMAIN Delivered[m][a]
       PROVE  Delivered[m][a][n] # e
  <2> DEFINE h == HandedBy(m, a)
             p == Pending(m, a)
  <2>1. Delivered[m][a] = h \o p
    BY DEF Delivered
  <2>2. h \in Seq(Names) /\ Len(h) \in Nat /\ Len(h) = Len(out[m][a]) /\ out[m][a] \in Seq(Written)
    BY HandedType, LenProperties DEF IInv, TypeInv
  <2>3. p \in Seq(Names) /\ \A i \in 1 .. Len(p) : p[i] # e
    <3>1. CASE \E u \in Threads : frame[u].pc = "fan" /\ frame[u].on = m
      <4>1. PICK u \in Threads : frame[u].pc = "fan" /\ frame[u].on = m
        BY <3>1
      <4> DEFINE k == Cardinality(From(m_appenders[m], frame[u].pos, a))
                 x == Name(frame[u].event)
      <4>2. p = Times(k, x)
        BY <4>1, PendingIs
      <4>3. k \in Nat
        <5>1. m_appenders[m] \in Seq(Appenders) /\ frame[u].pos \in 1 .. Len(m_appenders[m])
          BY <1>1, <4>1 DEF IInv, PosOf
        <5>2. QED
          BY <5>1, FromNext, FS_CardinalityType
      <4>4. x \in Names
        BY FrameFields DEF Names, IInv, TypeInv
      <4>5. frame[u].event.by = u
        BY <4>1 DEF EventInv, EventOf, Logging
      <4>6. x.by = u /\ u # t
        BY <1>1, <4>1, <4>5 DEF Name
      <4> HIDE DEF k, x
      <4>7. p \in Seq(Names) /\ Len(p) = k /\ \A i \in 1 .. k : p[i] = x
        BY <4>2, <4>3, <4>4 DEF Times
      <4>8. QED
        BY <1>4, <4>6, <4>7
    <3>2. CASE \A u \in Threads : ~(frame[u].pc = "fan" /\ frame[u].on = m)
      <4>1. p = << >>
        BY <3>2, PendingIs
      <4>2. QED
        BY <4>1
    <3>3. QED
      BY <3>1, <3>2
  <2>4. Len(p) \in Nat
    BY <2>3, LenProperties
  <2> HIDE DEF h, p
  <2>5. n \in 1 .. Len(h) + Len(p)
    <3>1. h \o p \in Seq(Names) /\ Len(h \o p) = Len(h) + Len(p)
      BY <2>2, <2>3, ConcatProperties
    <3>2. QED
      BY <1>15, <2>1, <3>1, LenProperties
  <2>6. (h \o p)[n] = IF n <= Len(h) THEN h[n] ELSE p[n - Len(h)]
    <3>1. \A i \in 1 .. Len(h) + Len(p) : (h \o p)[i] = IF i <= Len(h) THEN h[i] ELSE p[i - Len(h)]
      BY <2>2, <2>3, ConcatProperties
    <3>2. QED
      BY <2>5, <3>1
  <2>7. CASE n <= Len(h)
    <3>1. n \in 1 .. Len(out[m][a]) /\ n \in DOMAIN out[m][a]
      BY <2>2, <2>5, <2>7, LenProperties
    <3>2. h[n] = Name(out[m][a][n].event)
      BY <3>1 DEF h, HandedBy
    <3>3. out[m][a][n].event.by = t => out[m][a][n].event.n < calls[t]
      BY <1>1, <3>1 DEF OutOf
    <3>4. out[m][a][n].event.n \in Nat /\ calls[t] \in Nat
      <4>1. out[m][a][n] \in Written
        BY <2>2, <3>1, ElementOfSeq
      <4>2. QED
        BY <4>1 DEF Written, Event, IInv, TypeInv
    <3>5. h[n].by = out[m][a][n].event.by /\ h[n].n = out[m][a][n].event.n
      BY <3>2 DEF Name
    <3>6. h[n] # e
      BY <1>4, <3>3, <3>4, <3>5
    <3>7. QED
      BY <2>1, <2>6, <2>7, <3>6
  <2>8. CASE n > Len(h)
    <3>1. n - Len(h) \in 1 .. Len(p)
      BY <2>2, <2>4, <2>5, <2>8
    <3>2. p[n - Len(h)] # e
      BY <2>3, <3>1
    <3>3. QED
      BY <2>1, <2>2, <2>5, <2>6, <2>8, <3>2
  <2>9. QED
    BY <2>2, <2>4, <2>5, <2>7, <2>8
<1>16. ~Bus!Published(e)
  BY <1>15 DEF Bus!Published
<1>17. QED
  BY <1>1, <1>5, <1>14, <1>16 DEF Bus!Publish

\* A step of the fan-out: the appender has been handed what was pending for it.
LEMMA FanOutDelivers ==
  ASSUME IInv, IInv', NEW t \in Threads, Step(t), logAppender(t)
  PROVE  Delivered' = Delivered
<1> SUFFICES ASSUME NEW m \in Loggers, NEW a \in Appenders
             PROVE  HandedBy(m, a)' \o Pending(m, a)' = HandedBy(m, a) \o Pending(m, a)
    BY DEF Delivered
<1> DEFINE l == frame[t].on
           p == frame[t].pos
           list == m_appenders[l]
           b == list[p]
           e == Name(frame[t].event)
           k == Cardinality(From(list, p + 1, a))
<1>1. /\ l \in Loggers /\ b \in Appenders /\ p \in 1 .. Len(list) /\ Len(list) \in Nat
      /\ out'[l][b] = Append(out[l][b], Entry(t, b))
      /\ \A n \in Loggers, c \in Appenders : n # l \/ c # b => out'[n][c] = out[n][c]
  BY HandedOver
<1>2. m_appenders' = m_appenders /\ list \in Seq(Appenders) /\ frame[t].pc = "fan" /\ p \in Nat
  BY <1>1, FrameFields DEF IInv, TypeInv, logAppender, At
<1>3. /\ frame'[t].pc = IF p < Len(list) THEN "fan" ELSE "unlock"
      /\ frame'[t].pos = p + 1 /\ frame'[t].on = l /\ frame'[t].event = frame[t].event
  BY AfterAppender
<1>4. Entry(t, b).event = frame[t].event /\ e \in Names
  <2>1. frame[t].event \in Event
    BY FrameFields DEF IInv, TypeInv
  <2>2. QED
    BY <2>1 DEF Entry, Names
<1>5. k \in Nat
  BY <1>1, <1>2, FromNext, FS_CardinalityType
<1>6. CASE m # l
  <2>1. Pending(m, a)' = Pending(m, a)
    BY <1>3, <1>6, PendingKept
  <2>2. HandedBy(m, a)' = HandedBy(m, a)
    BY <1>1, <1>6 DEF HandedBy, Name
  <2>3. QED
    BY <2>1, <2>2
<1>7. CASE m = l
  <2>1. Pending(m, a)' = Times(k, e)
    <3>1. CASE p < Len(list)
      <4>1. frame'[t].pc = "fan" /\ frame'[t].on = m
        BY <1>3, <1>7, <3>1
      <4>2. Pending(m, a)' = Times(Cardinality(From(m_appenders'[m], frame'[t].pos, a)), Name(frame'[t].event))
        BY <4>1, PendingNext
      <4>3. QED
        BY <1>2, <1>3, <1>7, <4>2
    <3>2. CASE ~(p < Len(list))
      <4>1. \A u \in Threads : ~(frame'[u].pc = "fan" /\ frame'[u].on = m)
        <5> SUFFICES ASSUME NEW u \in Threads, frame'[u].pc = "fan", frame'[u].on = m
                     PROVE  FALSE
            OBVIOUS
        <5>1. m_mutex'[m] = u /\ frame'[t].pc = "unlock" /\ frame'[t].on = m
          BY <1>3, <1>7, <3>2 DEF IInv, LockOf
        <5>2. m_mutex'[m] = t
          BY <5>1 DEF IInv, LockOf
        <5>3. QED
          BY <5>1, <5>2
      <4>2. Pending(m, a)' = << >>
        BY <4>1, PendingNext
      <4>3. From(list, p + 1, a) = {}
        <5> HIDE DEF list, p
        <5>1. p + 1 .. Len(list) = {}
          BY <1>1, <3>2
        <5>2. QED
          BY <5>1 DEF From
      <4>4. k = 0
        BY <4>3, FS_EmptySet
      <4>5. Times(0, e) = << >>
        BY DEF Times
      <4>6. QED
        BY <4>2, <4>4, <4>5
    <3>3. QED
      BY <3>1, <3>2
  <2>2. Pending(m, a) = Times(Cardinality(From(list, p, a)), e)
    BY <1>2, <1>7, PendingIs
  <2>3. HandedBy(m, a) \in Seq(Names) /\ Len(HandedBy(m, a)) = Len(out[m][a]) /\ out[m][a] \in Seq(Written)
    <3>1. out[m][a] \in Seq(Written)
      BY DEF IInv, TypeInv
    <3>2. QED
      BY <3>1, HandedType
  <2> HIDE DEF k
  <2>4. CASE a = b
    <3>1. Cardinality(From(list, p, a)) = k + 1
      <4>1. list[p] = a
        BY <2>4
      <4> HIDE DEF list, p
      <4>2. QED
        BY <1>1, <1>2, <4>1, FromNext DEF k
    <3>2. HandedBy(m, a)' = Append(HandedBy(m, a), e)
      <4> DEFINE s == out[m][a]
                 w == Entry(t, b)
      <4>1. out'[m][a] = Append(s, w)
        BY <1>1, <1>7, <2>4
      <4>2. w \in Written
        <5>1. IInv' => out'[m][a] \in Seq(Written)
          BY DEF IInv, TypeInv
        <5>2. Append(s, w) \in Seq(Written) /\ Len(Append(s, w)) = Len(s) + 1 /\ Append(s, w)[Len(s) + 1] = w
          BY <2>3, <4>1, <5>1
        <5>3. Len(s) + 1 \in 1 .. Len(Append(s, w))
          BY <2>3, <5>2, LenProperties
        <5>4. QED
          BY <5>2, <5>3, ElementOfSeq
      <4> HIDE DEF w
      <4>3. /\ DOMAIN Append(s, w) = 1 .. Len(s) + 1 /\ Len(s) \in Nat /\ DOMAIN s = 1 .. Len(s)
            /\ Append(s, w)[Len(s) + 1] = w /\ \A i \in 1 .. Len(s) : Append(s, w)[i] = s[i]
        BY <2>3, <4>2, AppendProperties, LenProperties
      <4>4. HandedBy(m, a)' = [n \in 1 .. Len(s) + 1 |-> Name(Append(s, w)[n].event)]
        BY <4>1, <4>3 DEF HandedBy, Name
      <4>5. HandedBy(m, a) = [n \in 1 .. Len(s) |-> Name(s[n].event)]
        BY <4>3 DEF HandedBy
      <4>6. Name(w.event) = e
        BY <1>4 DEF w
      <4> HIDE DEF s, e
      <4>7. HandedBy(m, a)' = [n \in 1 .. Len(s) + 1 |-> IF n = Len(s) + 1 THEN e ELSE HandedBy(m, a)[n]]
        <5>1. ASSUME NEW n \in 1 .. Len(s) + 1
              PROVE  Name(Append(s, w)[n].event) = IF n = Len(s) + 1 THEN e ELSE HandedBy(m, a)[n]
          <6>1. CASE n = Len(s) + 1
            BY <4>3, <4>6, <6>1
          <6>2. CASE n # Len(s) + 1
            <7>1. n \in 1 .. Len(s)
              BY <4>3, <6>2
            <7>2. Append(s, w)[n] = s[n] /\ HandedBy(m, a)[n] = Name(s[n].event)
              BY <4>3, <4>5, <7>1
            <7>3. QED
              BY <6>2, <7>2
          <6>3. QED
            BY <6>1, <6>2
        <5>2. QED
          BY <4>4, <5>1
      <4>8. Len(HandedBy(m, a)) = Len(s)
        BY <2>3 DEF s
      <4>9. QED
        BY <1>4, <2>3, <4>3, <4>7, <4>8 DEF e
    <3>3. QED
      BY <1>4, <1>5, <2>1, <2>2, <2>3, <3>1, <3>2, OneMore DEF k
  <2>5. CASE a # b
    <3>1. From(list, p, a) = From(list, p + 1, a)
      <4>1. list[p] # a
        BY <2>5
      <4> HIDE DEF list, p
      <4>2. QED
        BY <1>1, <1>2, <4>1, FromNext
    <3>2. HandedBy(m, a)' = HandedBy(m, a)
      BY <1>1, <2>5 DEF HandedBy, Name
    <3>3. QED
      BY <2>1, <2>2, <3>1, <3>2 DEF k
  <2>6. QED
    BY <2>4, <2>5
<1>8. QED
  BY <1>6, <1>7

\* The steps of Logger are steps of the bus, or leave it as it is.
LEMMA BusStep ==
  ASSUME IInv, IInv', EventInv, NEW t \in Threads, Step(t), Quiet(t) \/ Logs(t)
  PROVE  Bus!Next \/ UNCHANGED <<m_appenders, Delivered>>
<1>1. CASE Quiet(t)
  <2>1. Delivered' = Delivered
    BY <1>1, DeliveredKept DEF Quiet, Logging
  <2>2. ASSUME NEW l \in Loggers, ListChange(l)
        PROVE  Bus!Change(l)
    BY <2>1, <2>2 DEF ListChange, Bus!Change
  <2>3. QED
    BY <1>1, <2>1, <2>2 DEF Quiet, Bus!Next
<1>2. ASSUME NEW l \in Loggers, NEW v \in Levels, CHORD_LOG_LEVEL(t, l, v)
      PROVE  UNCHANGED <<m_appenders, Delivered>>
  <2>1. frame[t].pc # "fan" /\ frame'[t].pc # "fan"
    BY <1>2, AfterBegin
  <2>2. QED
    BY <1>2, <2>1, DeliveredKept DEF CHORD_LOG_LEVEL
<1>3. CASE log(t)
  <2>1. frame[t].pc # "fan" /\ frame'[t].pc # "fan"
    BY <1>3, AfterLog
  <2>2. QED
    BY <1>3, <2>1, DeliveredKept DEF log
<1>4. CASE logLock(t)
  <2>1. CASE m_appenders[frame[t].on] # << >>
    <3>1. Name(frame[t].event) \in [by : Users, n : 1 .. MaxEvents, logger : Loggers]
      <4>1. frame[t].pc = "lock"
        BY <1>4, AfterLock
      <4>2. /\ frame[t].event.by \in Users /\ frame[t].event.n \in 1 .. MaxEvents
            /\ frame[t].event.logger \in Loggers
        BY <4>1, FrameFields DEF EventInv, EventOf, Logging, IInv, TypeInv
      <4>3. QED
        BY <4>2 DEF Name
    <3>2. Bus!Publish(Name(frame[t].event))
      BY <1>4, <2>1, LockPublishes
    <3>3. QED
      BY <3>1, <3>2 DEF Bus!Next
  <2>2. CASE m_appenders[frame[t].on] = << >>
    <3>1. frame[t].pc # "fan" /\ frame'[t].pc # "fan"
      BY <1>4, <2>2, AfterLock
    <3>2. QED
      BY <1>4, <3>1, DeliveredKept DEF logLock
  <2>3. QED
    BY <2>1, <2>2
<1>5. CASE logRoot(t)
  <2>1. frame[t].pc # "fan" /\ frame'[t].pc # "fan"
    BY <1>5, AfterRoot
  <2>2. QED
    BY <1>5, <2>1, DeliveredKept DEF logRoot
<1>6. CASE logAppender(t)
  BY <1>6, FanOutDelivers DEF logAppender
<1>7. CASE logUnlock(t)
  <2>1. frame[t].pc # "fan" /\ frame'[t].pc # "fan"
    BY <1>7, AfterUnlock
  <2>2. QED
    BY <1>7, <2>1, DeliveredKept DEF logUnlock
<1>8. CASE logUnlockRoot(t)
  <2>1. frame[t].pc # "fan" /\ frame'[t].pc # "fan"
    BY <1>8, AfterUnlockRoot
  <2>2. QED
    BY <1>8, <2>1, DeliveredKept DEF logUnlockRoot
<1>9. QED
  BY <1>1, <1>2, <1>3, <1>4, <1>5, <1>6, <1>7, <1>8 DEF Logs

\* Initially nothing is handed to anyone.
LEMMA BusInit == Init => Bus!Init
<1> SUFFICES ASSUME Init PROVE Bus!Init
    OBVIOUS
<1>1. IInv
  BY InitInv
<1>2. \A t \in Threads : frame[t].pc = "idle"
  BY IdleFrame DEF Init
<1>3. ASSUME NEW l \in Loggers, NEW a \in Appenders
      PROVE  HandedBy(l, a) \o Pending(l, a) = << >>
  <2>1. Pending(l, a) = << >>
    BY <1>1, <1>2, PendingIs
  <2>2. HandedBy(l, a) \in Seq(Names) /\ Len(HandedBy(l, a)) = Len(out[l][a])
    BY <1>1, HandedType
  <2>3. out[l][a] = << >>
    BY DEF Init
  <2>4. HandedBy(l, a) = << >>
    BY <2>2, <2>3, EmptySeq
  <2>5. QED
    BY <2>1, <2>2, <2>4, ConcatEmptySeq
<1>4. Delivered = [l \in Loggers |-> [a \in Appenders |-> << >>]]
  BY <1>3 DEF Delivered
<1>5. QED
  BY <1>1, <1>4 DEF Bus!Init, IInv, TypeInv

\* Logger::log is an event bus for any number of threads, loggers, appenders and
\* events: the whole fan-out under the spinlock (logger.cpp:329-340) is as good as one
\* step at the moment the lock is taken, and no event is handed out twice, be it by
\* the logger and by the root logger.
THEOREM RefinesEventBus == Spec => ImplementsEventBus
<1>1. Init => IInv /\ EventInv /\ Bus!Init
  BY InitInv, EventInit, BusInit
<1>2. IInv /\ EventInv /\ [Next]_vars => IInv' /\ EventInv' /\ [Bus!Next]_<<m_appenders, Delivered>>
  <2> SUFFICES ASSUME IInv, EventInv, [Next]_vars
               PROVE  IInv' /\ EventInv' /\ (Bus!Next \/ UNCHANGED <<m_appenders, Delivered>>)
      OBVIOUS
  <2>1. IInv'
    BY StepInv
  <2>2. CASE UNCHANGED vars
    <3>1. EventInv'
      BY <2>2 DEF vars, EventInv, EventOf, OutOf
    <3>2. UNCHANGED <<m_appenders, Delivered>>
      BY <2>2 DEF vars, Delivered, HandedBy, Pending, Fanning, Name
    <3>3. QED
      BY <2>1, <3>1, <3>2
  <2>3. CASE \E t \in Threads : Step(t) /\ (Quiet(t) \/ Logs(t))
    BY <2>1, <2>3, EventStep, BusStep
  <2>4. QED
    BY <2>2, <2>3, StepInv
<1>3. QED
  BY <1>1, <1>2, PTL DEF Spec, ImplementsEventBus, Bus!Spec

------------------------------------------------------------------------------
(***************************************************************************)
(* Deadlock.  A logger's lock is held by a thread that is at a place where *)
(* it holds it, and a thread that waits for a second logger's lock waits   *)
(* for the root logger's.                                                  *)
(***************************************************************************)
Inside == {"fan", "rootlevel", "unlock", "spread", "inherit"}

Holds(t, l) ==
  \/ frame[t].pc \in Inside /\ l \in {frame[t].on, frame[t].from}
  \/ frame[t].pc = "lock" /\ frame[t].on # frame[t].from /\ l = frame[t].from

HeldInv ==
  /\ \A l \in Loggers, t \in Threads : m_mutex[l] = t => Holds(t, l)
  /\ \A t \in Threads : frame[t].pc = "rootlevel" => frame[t].on # root

\* The record of thread t becomes f; what t then has locked, f says it holds.
LEMMA HeldKept ==
  ASSUME IInv, HeldInv, NEW t \in Threads, NEW f, Become(t, f) \/ (frame' = frame /\ f = frame[t]),
         \A l \in Loggers : m_mutex'[l] \in {m_mutex[l], NoThread, t},
         \A l \in Loggers : m_mutex'[l] = t =>
           \/ f.pc \in Inside /\ l \in {f.on, f.from}
           \/ f.pc = "lock" /\ f.on # f.from /\ l = f.from,
         f.pc = "rootlevel" => f.on # root
  PROVE  HeldInv'
<1>1. frame'[t] = f /\ \A u \in Threads : u # t => frame'[u] = frame[u]
  BY DEF IInv, TypeInv, Become
<1>2. NoThread \notin Threads
  BY LoggerAssumption DEF Threads
<1>3. ASSUME NEW l \in Loggers, NEW u \in Threads, m_mutex'[l] = u
      PROVE  Holds(u, l)'
  <2>1. CASE u = t
    BY <1>1, <1>3, <2>1 DEF Holds
  <2>2. CASE u # t
    <3>1. m_mutex[l] = u
      BY <1>2, <1>3, <2>2
    <3>2. QED
      BY <1>1, <2>2, <3>1 DEF HeldInv, Holds
  <2>3. QED
    BY <2>1, <2>2
<1>4. ASSUME NEW u \in Threads, frame'[u].pc = "rootlevel"
      PROVE  frame'[u].on # root
  BY <1>1, <1>4 DEF HeldInv
<1>5. QED
  BY <1>3, <1>4 DEF HeldInv

\* A step of a thread that holds no logger's lock and takes none.
LEMMA HeldOutside ==
  ASSUME IInv, HeldInv, NEW t \in Threads, frame[t].pc \in {"idle", "statement", "dump"},
         NEW f, Become(t, f) \/ (frame' = frame /\ f = frame[t]),
         m_mutex' = m_mutex, f.pc # "rootlevel"
  PROVE  HeldInv'
<1>1. \A l \in Loggers : m_mutex[l] # t
  BY DEF HeldInv, Holds, Inside
<1>2. QED
  BY <1>1, HeldKept

\* Every step keeps what is said of the locks.
LEMMA HeldStep == IInv /\ EventInv /\ HeldInv /\ [Next]_vars => HeldInv'
<1> SUFFICES ASSUME IInv, EventInv, HeldInv, [Next]_vars
             PROVE  HeldInv'
    OBVIOUS
<1>0. /\ NoThread \notin Threads
      /\ m_mutex \in [Loggers -> Threads \cup {NoThread}]
      /\ \A t \in Threads : LockOf(t) /\ EventOf(t) /\ frame[t].on \in Loggers /\ frame[t].from \in Loggers
  BY LoggerAssumption, FrameFields DEF IInv, TypeInv, Threads, EventInv
<1> DEFINE Out(t) == frame[t].pc \in {"idle", "statement", "dump"}
           Same(t) == \E f : /\ Become(t, f) \/ (frame' = frame /\ f = frame[t])
                             /\ f.pc # "rootlevel"
<1>1. ASSUME NEW t \in Threads, Out(t), Same(t), m_mutex' = m_mutex
      PROVE  HeldInv'
  BY <1>1, HeldOutside
<1>2. ASSUME NEW t \in Users, Use(t)
      PROVE  HeldInv'
  <2>1. ASSUME NEW l \in Loggers, getLogger(t, l)
        PROVE  HeldInv'
    BY <1>1, <2>1 DEF getLogger, Threads
  <2>2. ASSUME NEW l \in Loggers, NEW v \in Levels, CHORD_LOG_LEVEL(t, l, v)
        PROVE  HeldInv'
    <3> DEFINE e == [by |-> t, n |-> calls[t] + 1, level |-> v, logger |-> l]
               f == [Idle EXCEPT !.pc = "statement", !.on = l, !.from = l, !.event = e]
    <3>1. f.pc = "statement" /\ Become(t, f) /\ Out(t) /\ m_mutex' = m_mutex
      BY <2>2 DEF CHORD_LOG_LEVEL, Begin, Idle
    <3> HIDE DEF f
    <3>2. QED
      BY <1>1, <3>1 DEF Threads
  <2>3. QED
    BY <1>2, <2>1, <2>2 DEF Use
<1>3. ASSUME NEW t \in Admins, Administer(t)
      PROVE  HeldInv'
  <2>1. t \in Threads
    BY DEF Threads
  <2>2. ASSUME NEW l \in m_logger, NEW v \in Levels, setLevel(t, l, v)
        PROVE  HeldInv'
    BY <1>1, <2>1, <2>2 DEF setLevel, Begin
  <2>3. ASSUME NEW l \in m_logger, NEW g \in Formatters, setFormatter(t, l, g)
        PROVE  HeldInv'
    <3> DEFINE f == [Idle EXCEPT !.pc = "spread", !.on = l, !.from = l, !.pos = 1]
    <3>1. f.pc = "spread" /\ f.on = l /\ f.from = l /\ Become(t, f) /\ frame[t].pc = "idle"
      BY <2>3 DEF setFormatter, Begin, Idle
    <3>2. m_mutex' = [m_mutex EXCEPT ![l] = t] /\ l \in Loggers
      BY <2>3 DEF setFormatter, Acquire, IInv, TypeInv
    <3>3. \A m \in Loggers : m_mutex[m] # t
      BY <2>1, <3>1 DEF HeldInv, Holds, Inside
    <3> HIDE DEF f
    <3>4. \A m \in Loggers : m_mutex'[m] = IF m = l THEN t ELSE m_mutex[m]
      BY <1>0, <3>2
    <3>5. \A m \in Loggers : m_mutex'[m] = t => f.pc \in Inside /\ m \in {f.on, f.from}
      BY <3>1, <3>3, <3>4 DEF Inside
    <3>6. QED
      BY <2>1, <3>1, <3>4, <3>5, HeldKept
  <2>4. ASSUME NEW l \in m_logger, NEW a \in Appenders, addAppender(t, l, a)
        PROVE  HeldInv'
    BY <1>1, <2>1, <2>4 DEF addAppender, Begin
  <2>5. ASSUME NEW l \in m_logger, NEW a \in Appenders, addAppenderNone(t, l, a)
        PROVE  HeldInv'
    <3> DEFINE f == [Idle EXCEPT !.pc = "inherit", !.on = l, !.from = l, !.ap = a]
    <3>1. f.pc = "inherit" /\ f.on = l /\ f.from = l /\ Become(t, f) /\ frame[t].pc = "idle"
      BY <2>5 DEF addAppenderNone, Begin, Idle
    <3>2. m_mutex' = [m_mutex EXCEPT ![l] = t] /\ l \in Loggers
      BY <2>5 DEF addAppenderNone, Acquire, IInv, TypeInv
    <3>3. \A m \in Loggers : m_mutex[m] # t
      BY <2>1, <3>1 DEF HeldInv, Holds, Inside
    <3> HIDE DEF f
    <3>4. \A m \in Loggers : m_mutex'[m] = IF m = l THEN t ELSE m_mutex[m]
      BY <1>0, <3>2
    <3>5. \A m \in Loggers : m_mutex'[m] = t => f.pc \in Inside /\ m \in {f.on, f.from}
      BY <3>1, <3>3, <3>4 DEF Inside
    <3>6. QED
      BY <2>1, <3>1, <3>4, <3>5, HeldKept
  <2>6. ASSUME NEW l \in m_logger, NEW a \in Appenders, delAppender(t, l, a) \/ delAppenderMissing(t, l, a)
        PROVE  HeldInv'
    BY <1>1, <2>1, <2>6 DEF delAppender, delAppenderMissing, Begin
  <2>7. ASSUME NEW l \in m_logger, clearAppenders(t, l)
        PROVE  HeldInv'
    BY <1>1, <2>1, <2>7 DEF clearAppenders, Begin
  <2>8. ASSUME NEW a \in Appenders, NEW f \in Formatters, setAppenderFormatter(t, a, f)
        PROVE  HeldInv'
    BY <1>1, <2>1, <2>8 DEF setAppenderFormatter, Begin
  <2>9. ASSUME NEW a \in Appenders, NEW v \in Levels, setAppenderLevel(t, a, v)
        PROVE  HeldInv'
    BY <1>1, <2>1, <2>9 DEF setAppenderLevel, Begin
  <2>10. CASE toYamlString(t)
    <3> DEFINE f == [Idle EXCEPT !.pc = "dump", !.todo = m_logger]
    <3>1. f.pc = "dump" /\ Become(t, f) /\ Out(t) /\ m_mutex' = m_mutex
      BY <2>10 DEF toYamlString, Begin, Idle
    <3> HIDE DEF f
    <3>2. QED
      BY <1>1, <2>1, <3>1
  <2>11. QED
    BY <1>3, <2>2, <2>3, <2>4, <2>5, <2>6, <2>7, <2>8, <2>9, <2>10 DEF Administer
<1>4. ASSUME NEW t \in Threads, Continue(t)
      PROVE  HeldInv'
  <2>1. CASE log(t)
    <3> DEFINE f == [frame[t] EXCEPT !.pc = "lock"]
    <3>1. m_mutex' = m_mutex /\ Out(t) /\ (Become(t, f) \/ Become(t, Idle))
      BY <2>1 DEF log, At, Return
    <3>2. f.pc # "rootlevel" /\ Idle.pc # "rootlevel"
      BY <1>0, FrameFields, IdleFrame DEF IInv, TypeInv, Frame
    <3> HIDE DEF f
    <3>3. QED
      BY <1>1, <3>1, <3>2
  <2>2. CASE logLock(t)
    <3> DEFINE p == IF m_appenders[frame[t].on] # << >> THEN "fan"
                    ELSE IF frame[t].on # root THEN "rootlevel" ELSE "unlock"
               f == [frame[t] EXCEPT !.pos = 1, !.pc = p]
    <3>1. /\ frame[t].pc = "lock" /\ Become(t, f)
          /\ m_mutex' = [m_mutex EXCEPT ![frame[t].on] = t]
      BY <2>2 DEF logLock, At, Acquire
    <3>2. f.pc = p /\ f.on = frame[t].on /\ f.from = frame[t].from
      BY <1>0 DEF IInv, TypeInv, Frame
    <3>3. p \in Inside /\ (p = "rootlevel" => frame[t].on # root)
      BY DEF Inside
    <3> HIDE DEF f, p
    <3>4. \A m \in Loggers : m_mutex'[m] = IF m = frame[t].on THEN t ELSE m_mutex[m]
      BY <1>0, <3>1
    <3>5. \A m \in Loggers : m_mutex[m] = t => m = frame[t].from
      BY <3>1 DEF HeldInv, Holds, Inside
    <3>6. \A m \in Loggers : m_mutex'[m] = t => m \in {f.on, f.from}
      BY <3>2, <3>4, <3>5
    <3>7. QED
      BY <3>1, <3>2, <3>3, <3>4, <3>6, HeldKept
  <2>3. CASE logRoot(t)
    <3> DEFINE f == [frame[t] EXCEPT !.pc = "lock", !.on = root]
               g == [frame[t] EXCEPT !.pc = "unlock"]
    <3>1. m_mutex' = m_mutex /\ frame[t].pc = "rootlevel" /\ (Become(t, f) \/ Become(t, g))
      BY <2>3 DEF logRoot, At
    <3>2. f.pc = "lock" /\ f.on = root /\ f.from = frame[t].from
      BY <1>0 DEF IInv, TypeInv, Frame
    <3>3. g.pc = "unlock" /\ g.on = frame[t].on /\ g.from = frame[t].from
      BY <1>0 DEF IInv, TypeInv, Frame
    <3> HIDE DEF f, g
    <3>4. frame[t].on = frame[t].from /\ frame[t].on # root
      BY <1>0, <3>1 DEF EventOf, HeldInv
    <3>5. \A m \in Loggers : m_mutex'[m] = t => m = frame[t].from
      BY <3>1, <3>4 DEF HeldInv, Holds, Inside
    <3>6. CASE Become(t, f)
      BY <3>1, <3>2, <3>4, <3>5, <3>6, HeldKept
    <3>7. CASE Become(t, g)
      BY <3>1, <3>3, <3>5, <3>7, HeldKept DEF Inside
    <3>8. QED
      BY <3>1, <3>6, <3>7
  <2>4. CASE logAppender(t)
    <3> DEFINE p == IF frame[t].pos < Len(m_appenders[frame[t].on]) THEN "fan" ELSE "unlock"
               f == [frame[t] EXCEPT !.pos = @ + 1, !.pc = p]
    <3>1. m_mutex' = m_mutex /\ frame[t].pc = "fan" /\ Become(t, f)
      BY <2>4 DEF logAppender, At
    <3>2. f.pc = p /\ f.on = frame[t].on /\ f.from = frame[t].from
      BY <1>0 DEF IInv, TypeInv, Frame
    <3>3. p \in Inside /\ p # "rootlevel"
      BY DEF Inside
    <3> HIDE DEF f, p
    <3>4. \A m \in Loggers : m_mutex'[m] = t => m \in {f.on, f.from}
      BY <3>1, <3>2 DEF HeldInv, Holds, Inside
    <3>5. QED
      BY <3>1, <3>2, <3>3, <3>4, HeldKept
  <2>5. CASE logUnlock(t) \/ setFormatterDone(t) \/ addAppenderInherit(t)
    <3>1. /\ frame[t].pc \in {"unlock", "spread", "inherit"} /\ Become(t, Idle)
          /\ \/ frame[t].pc # "unlock" /\ Release({frame[t].on})
             \/ frame[t].on = frame[t].from /\ Release({frame[t].on})
      BY <2>5 DEF logUnlock, setFormatterDone, addAppenderInherit, At, Return
    <3>2. Release({frame[t].on, frame[t].from})
      BY <1>0, <3>1 DEF LockOf, Release
    <3>3. \A m \in Loggers : m_mutex[m] = t => m \in {frame[t].on, frame[t].from}
      BY <3>1 DEF HeldInv, Holds, Inside
    <3>4. \A m \in Loggers : m_mutex'[m] \in {m_mutex[m], NoThread} /\ m_mutex'[m] # t
      BY <1>0, <3>2, <3>3 DEF Release
    <3>5. QED
      BY <3>1, <3>4, IdleFrame, HeldKept
  <2>6. CASE setFormatterSpread(t)
    <3> DEFINE f == [frame[t] EXCEPT !.pos = @ + 1]
    <3>1. m_mutex' = m_mutex /\ frame[t].pc = "spread" /\ Become(t, f)
      BY <2>6 DEF setFormatterSpread, At
    <3>2. f.pc = frame[t].pc /\ f.on = frame[t].on /\ f.from = frame[t].from
      BY <1>0 DEF IInv, TypeInv, Frame
    <3> HIDE DEF f
    <3>3. \A m \in Loggers : m_mutex'[m] = t => f.pc \in Inside /\ m \in {f.on, f.from}
      BY <3>1, <3>2 DEF HeldInv, Holds, Inside
    <3>4. QED
      BY <3>1, <3>2, <3>3, HeldKept
  <2>7. CASE toYamlStringLogger(t)
    <3>1. PICK m \in frame[t].todo : Become(t, [frame[t] EXCEPT !.todo = @ \ {m}])
      BY <2>7 DEF toYamlStringLogger
    <3>2. m_mutex' = m_mutex /\ frame[t].pc = "dump"
      BY <2>7 DEF toYamlStringLogger, At
    <3> DEFINE f == [frame[t] EXCEPT !.todo = @ \ {m}]
    <3>3. f.pc = "dump"
      BY <1>0, <3>2 DEF IInv, TypeInv, Frame
    <3> HIDE DEF f
    <3>4. Become(t, f)
      BY <3>1 DEF f
    <3>5. QED
      BY <1>1, <3>2, <3>3, <3>4
  <2>8. CASE toYamlStringDone(t)
    <3>1. Out(t) /\ m_mutex' = m_mutex /\ Become(t, Idle) /\ Idle.pc # "rootlevel"
      BY <2>8, IdleFrame DEF toYamlStringDone, At, Return
    <3>2. QED
      BY <1>1, <3>1
  <2>9. CASE logUnlockRoot(t)
    <3> DEFINE f == [frame[t] EXCEPT !.on = frame[t].from]
    <3>1. /\ frame[t].pc = "unlock" /\ frame[t].on # frame[t].from
          /\ Release({frame[t].on}) /\ Become(t, f)
      BY <2>9 DEF logUnlockRoot, At
    <3>2. f.pc = "unlock" /\ f.on = frame[t].from /\ f.from = frame[t].from
      BY <1>0, <3>1 DEF IInv, TypeInv, Frame
    <3> HIDE DEF f
    <3>3. \A m \in Loggers : m_mutex[m] = t => m \in {frame[t].on, frame[t].from}
      BY <3>1 DEF HeldInv, Holds, Inside
    <3>4. \A m \in Loggers : m_mutex'[m] = IF m = frame[t].on THEN NoThread ELSE m_mutex[m]
      BY <3>1 DEF Release
    <3>5. \A m \in Loggers : m_mutex'[m] = t => f.pc \in Inside /\ m \in {f.on, f.from}
      BY <3>2, <3>3, <3>4, LoggerAssumption DEF Inside, Threads
    <3>6. \A m \in Loggers : m_mutex'[m] \in {m_mutex[m], NoThread}
      BY <3>4
    <3>7. QED
      BY <3>1, <3>2, <3>5, <3>6, HeldKept DEF Inside
  <2>10. QED
    BY <1>4, <2>1, <2>2, <2>3, <2>4, <2>5, <2>6, <2>7, <2>8, <2>9 DEF Continue
<1>5. CASE UNCHANGED vars
  BY <1>5 DEF vars, HeldInv, Holds
<1>6. QED
  BY <1>2, <1>3, <1>4, <1>5 DEF Next

\* No number of threads that log, configure and dump can come to wait for each other in
\* a circle: the holder of the root logger's lock waits for nobody (logger.cpp:340), so
\* that lock is never the end of a chain, and other locks only wait for it.
THEOREM DeadlockFree == Spec => []NoDeadlock
<1>1. Init => IInv /\ EventInv /\ HeldInv
  <2>1. Init => HeldInv
    <3> SUFFICES ASSUME Init PROVE HeldInv
        OBVIOUS
    <3>1. \A t \in Threads : frame[t].pc = "idle"
      BY IdleFrame DEF Init
    <3>2. QED
      BY <3>1, LoggerAssumption DEF Init, HeldInv, Threads
  <2>2. QED
    BY <2>1, InitInv, EventInit
<1>2. IInv /\ EventInv /\ HeldInv /\ [Next]_vars => IInv' /\ EventInv' /\ HeldInv'
  <2> SUFFICES ASSUME IInv, EventInv, HeldInv, [Next]_vars
               PROVE  IInv' /\ EventInv' /\ HeldInv'
      OBVIOUS
  <2>1. IInv' /\ HeldInv'
    BY StepInv, HeldStep
  <2>2. CASE UNCHANGED vars
    BY <2>1, <2>2 DEF vars, EventInv, EventOf, OutOf
  <2>3. CASE \E t \in Threads : Step(t) /\ (Quiet(t) \/ Logs(t))
    BY <2>1, <2>3, EventStep
  <2>4. QED
    BY <2>2, <2>3, StepInv
<1>3. IInv /\ EventInv /\ HeldInv => NoDeadlock
  <2> SUFFICES ASSUME IInv, EventInv, HeldInv, NEW s \in Threads, frame[s].pc # "idle",
                      \A t \in Threads : frame[t].pc # "idle" => ~CanGoOn(t)
               PROVE  FALSE
    BY DEF NoDeadlock
  <2>1. \A t \in Threads : frame[t].pc \in {"idle", "lock", "dump"}
    BY DEF CanGoOn
  <2>2. ASSUME NEW l \in Loggers, ~Free(l)
        PROVE  /\ m_mutex[l] \in Threads /\ frame[m_mutex[l]].pc = "lock"
               /\ frame[m_mutex[l]].on = root /\ l # root
    <3>1. m_mutex[l] \in Threads
      BY <2>2 DEF Free, IInv, TypeInv
    <3>2. Holds(m_mutex[l], l)
      BY <3>1 DEF HeldInv
    <3>3. frame[m_mutex[l]].pc \notin Inside
      BY <2>1, <3>1 DEF Inside
    <3>4. EventOf(m_mutex[l])
      BY <3>1 DEF EventInv
    <3>5. QED
      BY <3>1, <3>2, <3>3, <3>4 DEF Holds, EventOf
  <2>3. Free(root)
    BY <2>2, LoggerAssumption
  <2>4. \A l \in Loggers : Free(l)
    BY <2>2, <2>3 DEF CanGoOn
  <2>5. frame[s].on \in Loggers /\ frame[s].todo \subseteq Loggers
    BY FrameFields DEF IInv, TypeInv
  <2>6. CASE frame[s].pc = "lock"
    BY <2>4, <2>5, <2>6 DEF CanGoOn
  <2>7. CASE frame[s].pc = "dump"
    BY <2>4, <2>5, <2>7 DEF CanGoOn
  <2>8. QED
    BY <2>1, <2>6, <2>7
<1>4. QED
  BY <1>1, <1>2, <1>3, PTL DEF Spec
==============================================================================
