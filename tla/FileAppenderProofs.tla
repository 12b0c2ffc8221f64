-------------------------- MODULE FileAppenderProofs --------------------------
(***************************************************************************)
(* Theorems about FileAppender, for any number of threads, events and      *)
(* faults of the file system, and any time.                                *)
(*                                                                         *)
(* FileIsTail is inductive.  The other two properties need what the file   *)
(* system's calm means for the stream: while it lasts the stream is good   *)
(* whenever it is open, and once a call has reopened it, it is open.       *)
(***************************************************************************)
EXTENDS FileAppender, SequenceTheorems, TLAPS

EventType == [by : Threads, n : Nat]
PCs == {"idle", "reopen", "remember", "write", "done"}
Frame == [pc : PCs, now : Nat, reopened : BOOLEAN, calm : BOOLEAN]

TypeInv ==
  /\ clock \in Nat /\ faults \in Nat
  /\ openable \in BOOLEAN /\ full \in BOOLEAN /\ alive \in BOOLEAN
  /\ stream \in [open : BOOLEAN, good : BOOLEAN]
  /\ buffer \in Seq(EventType) /\ file \in Seq(EventType) /\ accepted \in Seq(EventType)
  /\ frame \in [Threads -> Frame]
  /\ events \in [Threads -> Nat]
  /\ dropped \subseteq EventType

\* No call before the constructor has returned, and no trouble with the stream before it.
AliveInv ==
  /\ \A t \in Threads : ~At(t, "idle") => alive
  /\ ~alive => ~stream.open /\ stream.good

\* Without a fault so far, the stream is good, and open since the constructor.
HealthInv ==
  faults = 0 => /\ openable /\ ~full /\ stream.good
                /\ alive => stream.open
                /\ dropped = {}

\* What a call knows of the stream while the file system gives no trouble.
CalmInv ==
  \A t \in Threads : frame[t].calm =>
    /\ ~At(t, "idle") /\ openable /\ ~full
    /\ stream.open => stream.good
    /\ frame[t].reopened => stream.open

\* Only events that have been logged are refused, and not before they are written.
DroppedInv ==
  /\ \A e \in dropped : e.n <= events[e.by]
  /\ \A t \in Threads : frame[t].pc \in {"reopen", "remember", "write"} => Event(t) \notin dropped

IInv == TypeInv /\ AliveInv /\ HealthInv /\ CalmInv /\ DroppedInv /\ FileIsTail /\ HealedByReopen

------------------------------------------------------------------------------
\* A suffix, element by element from the end.
LEMMA SuffixElements ==
  ASSUME NEW S, NEW s \in Seq(S), NEW t \in Seq(S)
  PROVE  IsSuffix(s, t) <=> /\ Len(s) <= Len(t)
                            /\ \A i \in 1 .. Len(s) : s[(Len(s) - i) + 1] = t[(Len(t) - i) + 1]
<1> DEFINE r == Reverse(s)
           q == Reverse(t)
<1>0. Len(s) \in Nat /\ Len(t) \in Nat
  BY LenProperties
<1>1. /\ r \in Seq(S) /\ Len(r) = Len(s) /\ \A i \in 1 .. Len(s) : r[i] = s[(Len(s) - i) + 1]
  <2>1. \A i \in 1 .. Len(s) : s[(Len(s) - i) + 1] \in S
    BY <1>0, ElementOfSeq
  <2>2. r \in [1 .. Len(s) -> S]
    BY <2>1 DEF Reverse
  <2>3. r \in Seq(S)
    BY <1>0, <2>2, SeqDef
  <2>4. QED
    BY <1>0, <2>2, <2>3, LenProperties DEF Reverse
<1>2. /\ q \in Seq(S) /\ Len(q) = Len(t) /\ \A i \in 1 .. Len(t) : q[i] = t[(Len(t) - i) + 1]
  <2>1. \A i \in 1 .. Len(t) : t[(Len(t) - i) + 1] \in S
    BY <1>0, ElementOfSeq
  <2>2. q \in [1 .. Len(t) -> S]
    BY <2>1 DEF Reverse
  <2>3. q \in Seq(S)
    BY <1>0, <2>2, SeqDef
  <2>4. QED
    BY <1>0, <2>2, <2>3, LenProperties DEF Reverse
<1>3. IsSuffix(s, t) <=> Len(r) <= Len(q) /\ SubSeq(r, 1, Len(r)) = SubSeq(q, 1, Len(r))
  BY DEF IsSuffix, IsPrefix
<1> HIDE DEF r, q
<1>4. SubSeq(r, 1, Len(r)) = r
  BY <1>1, SubSeqFull
<1>5. CASE Len(r) <= Len(q)
  <2>1. \A i \in 1 .. Len(r) : q[i] \in S
    BY <1>0, <1>1, <1>2, <1>5, ElementOfSeq
  <2>2. /\ SubSeq(q, 1, Len(r)) \in Seq(S)
        /\ Len(SubSeq(q, 1, Len(r))) = Len(r)
        /\ \A i \in 1 .. Len(r) : SubSeq(q, 1, Len(r))[i] = q[i]
    BY <1>0, <1>1, <2>1, SubSeqProperties
  <2>3. r = SubSeq(q, 1, Len(r)) <=> \A i \in 1 .. Len(r) : r[i] = q[i]
    BY <1>1, <2>2, SeqEqual
  <2>4. (\A i \in 1 .. Len(r) : r[i] = q[i])
        <=> \A i \in 1 .. Len(s) : s[(Len(s) - i) + 1] = t[(Len(t) - i) + 1]
    <3>1. \A i \in 1 .. Len(r) : i \in 1 .. Len(s) /\ i \in 1 .. Len(t)
      BY <1>0, <1>1, <1>2, <1>5
    <3>2. QED
      BY <1>1, <1>2, <3>1
  <2>5. QED
    BY <1>1, <1>2, <1>3, <1>4, <1>5, <2>3, <2>4
<1>6. CASE ~(Len(r) <= Len(q))
  BY <1>1, <1>2, <1>3, <1>6
<1>7. QED
  BY <1>5, <1>6

LEMMA SuffixEmpty ==
  ASSUME NEW S, NEW t \in Seq(S)
  PROVE  IsSuffix(<<>>, t)
<1>1. <<>> \in Seq(S) /\ Len(<<>>) = 0 /\ Len(t) \in Nat
  BY EmptySeq, LenProperties
<1>2. ASSUME NEW s \in Seq(S), Len(s) = 0
      PROVE  IsSuffix(s, t)
  <2>1. Len(s) <= Len(t) /\ \A i \in 1 .. Len(s) : FALSE
    BY <1>1, <1>2
  <2>2. QED
    BY <2>1, SuffixElements
<1>3. QED
  BY <1>1, <1>2

LEMMA SuffixAppend ==
  ASSUME NEW S, NEW s \in Seq(S), NEW t \in Seq(S), NEW e \in S, IsSuffix(s, t)
  PROVE  IsSuffix(Append(s, e), Append(t, e))
<1>1. /\ Len(s) \in Nat /\ Len(t) \in Nat /\ Len(s) <= Len(t)
      /\ \A i \in 1 .. Len(s) : s[(Len(s) - i) + 1] = t[(Len(t) - i) + 1]
  BY SuffixElements, LenProperties
<1>2. /\ Append(s, e) \in Seq(S) /\ Len(Append(s, e)) = Len(s) + 1
      /\ Append(t, e) \in Seq(S) /\ Len(Append(t, e)) = Len(t) + 1
  BY AppendProperties
<1>3. ASSUME NEW i \in 1 .. Len(s) + 1
      PROVE  Append(s, e)[(Len(s) + 1 - i) + 1] = Append(t, e)[(Len(t) + 1 - i) + 1]
  <2>1. CASE i = 1
    BY <1>1, <2>1, AppendProperties
  <2>2. CASE i # 1
    <3> DEFINE j == i - 1
    <3>1. /\ j \in 1 .. Len(s)
          /\ (Len(s) + 1 - i) + 1 = (Len(s) - j) + 1
          /\ (Len(t) + 1 - i) + 1 = (Len(t) - j) + 1
      BY <1>1, <1>3, <2>2
    <3> HIDE DEF j
    <3>2. (Len(s) - j) + 1 \in 1 .. Len(s) /\ (Len(t) - j) + 1 \in 1 .. Len(t)
      BY <1>1, <3>1
    <3>3. QED
      BY <1>1, <3>1, <3>2, AppendProperties
  <2>3. QED
    BY <2>1, <2>2
<1>4. ASSUME NEW u \in Seq(S), NEW v \in Seq(S), Len(u) = Len(s) + 1, Len(v) = Len(t) + 1,
             \A i \in 1 .. Len(s) + 1 : u[(Len(s) + 1 - i) + 1] = v[(Len(t) + 1 - i) + 1]
      PROVE  IsSuffix(u, v)
  <2>1. Len(u) <= Len(v) /\ \A i \in 1 .. Len(u) : u[(Len(u) - i) + 1] = v[(Len(v) - i) + 1]
    BY <1>1, <1>4
  <2>2. QED
    BY <2>1, SuffixElements
<1>5. QED
  BY <1>2, <1>3, <1>4

\* Appending to the buffer appends to the file and the buffer after it.
LEMMA ConcatAppend ==
  ASSUME NEW S, NEW s \in Seq(S), NEW t \in Seq(S), NEW e \in S
  PROVE  s \o Append(t, e) = Append(s \o t, e)
<1>1. <<e>> \in Seq(S) /\ \A u \in Seq(S) : Append(u, e) = u \o <<e>>
  BY AppendIsConcat
<1>2. QED
  BY <1>1, ConcatProperties, ConcatAssociative

------------------------------------------------------------------------------
LEMMA InitInv == Init => IInv
<1> SUFFICES ASSUME Init PROVE IInv
    OBVIOUS
<1>1. <<>> \in Seq(EventType) /\ <<>> \o <<>> = <<>>
  BY EmptySeq, ConcatEmptySeq
<1>2. \A t \in Threads : frame[t] = Idle
  BY DEF Init
<1>3. TypeInv
  BY <1>1 DEF Init, TypeInv, Idle, Frame, PCs
<1>4. AliveInv /\ HealthInv /\ CalmInv /\ DroppedInv /\ HealedByReopen
  BY <1>2 DEF Init, AliveInv, HealthInv, CalmInv, DroppedInv, HealedByReopen, Idle, At
<1>5. FileIsTail
  BY <1>1, SuffixEmpty DEF Init, FileIsTail
<1>6. QED
  BY <1>3, <1>4, <1>5 DEF IInv

\* reopen keeps the types and the tail, and a closed stream is good after it if the file
\* can be opened.
LEMMA ReopenKeeps ==
  ASSUME IInv, reopen, UNCHANGED accepted
  PROVE  /\ stream' \in [open : BOOLEAN, good : BOOLEAN]
         /\ buffer' \in Seq(EventType) /\ file' \in Seq(EventType)
         /\ FileIsTail'
         /\ (stream.open => stream.good) /\ openable => stream'.open /\ stream'.good
<1>1. /\ stream \in [open : BOOLEAN, good : BOOLEAN] /\ openable \in BOOLEAN
      /\ buffer \in Seq(EventType) /\ file \in Seq(EventType) /\ accepted \in Seq(EventType)
  BY DEF IInv, TypeInv
<1>2. <<>> \in Seq(EventType) /\ <<>> \o <<>> = <<>> /\ file \o buffer \in Seq(EventType)
  BY <1>1, EmptySeq, ConcatEmptySeq, ConcatProperties
<1>3. Closed \in BOOLEAN /\ (Closed <=> (stream.open => stream.good))
  BY <1>1 DEF Closed
<1>4. stream' = [open |-> Closed => openable, good |-> Closed /\ openable]
  BY DEF reopen
<1>5. stream'.open = (Closed => openable) /\ stream'.good = (Closed /\ openable)
  BY <1>4
<1>6. buffer' \in Seq(EventType) /\ file' \in Seq(EventType)
  BY <1>1, <1>2 DEF reopen, Flushed
<1>7. FileIsTail'
  <2>1. CASE Closed /\ openable
    <3>1. file' = <<>> /\ buffer' = <<>>
      BY <2>1 DEF reopen
    <3>2. IsSuffix(<<>>, accepted)
      BY <1>1, SuffixEmpty
    <3>3. QED
      BY <1>2, <3>1, <3>2 DEF FileIsTail
  <2>2. CASE ~(Closed /\ openable)
    BY <1>5, <2>2 DEF FileIsTail
  <2>3. QED
    BY <2>1, <2>2
<1>8. stream' \in [open : BOOLEAN, good : BOOLEAN]
  BY <1>4
<1>9. QED
  BY <1>3, <1>5, <1>6, <1>7, <1>8

\* The record of one thread changes its place, the others keep theirs.
LEMMA Moved ==
  ASSUME TypeInv, NEW t \in Threads, NEW to \in PCs, frame' = [frame EXCEPT ![t].pc = to]
  PROVE  /\ frame' \in [Threads -> Frame]
         /\ frame'[t].pc = to /\ frame'[t].calm = frame[t].calm
         /\ frame'[t].reopened = frame[t].reopened
         /\ \A u \in Threads : u # t => frame'[u] = frame[u]
<1>1. frame \in [Threads -> Frame]
  BY DEF TypeInv
<1>2. QED
  BY <1>1 DEF Frame

LEMMA StepInv == IInv /\ [Next]_vars => IInv'
<1> SUFFICES ASSUME IInv, [Next]_vars
             PROVE  IInv'
    OBVIOUS
<1> USE DEF fileSystem, contents
<1>0. /\ TypeInv /\ AliveInv /\ HealthInv /\ CalmInv /\ DroppedInv /\ FileIsTail /\ HealedByReopen
      /\ frame \in [Threads -> Frame] /\ events \in [Threads -> Nat]
      /\ \A t \in Threads : frame[t] \in Frame /\ frame[t].calm \in BOOLEAN
                            /\ frame[t].reopened \in BOOLEAN /\ frame[t].now \in Nat
      /\ \A t \in Threads : Event(t) \in EventType
  BY DEF IInv, TypeInv, Frame, EventType, Event
<1>1. CASE construct
  <2>1. UNCHANGED <<clock, fileSystem, m_lastTime, frame, events, accepted, dropped>> /\ alive' = TRUE
    BY <1>1 DEF construct
  <2>2. /\ stream' \in [open : BOOLEAN, good : BOOLEAN]
        /\ buffer' \in Seq(EventType) /\ file' \in Seq(EventType)
        /\ FileIsTail'
        /\ (stream.open => stream.good) /\ openable => stream'.open /\ stream'.good
    BY <1>1, <2>1, ReopenKeeps DEF construct
  <2>3. ~stream.open /\ \A t \in Threads : At(t, "idle") /\ ~frame[t].calm
    BY <1>0, <1>1 DEF construct, AliveInv, CalmInv
  <2>4. TypeInv'
    BY <1>0, <2>1, <2>2 DEF TypeInv
  <2>5. AliveInv' /\ HealthInv' /\ CalmInv'
    BY <1>0, <2>1, <2>2, <2>3 DEF AliveInv, HealthInv, CalmInv, At
  <2>6. DroppedInv' /\ HealedByReopen'
    BY <1>0, <2>1 DEF DroppedInv, HealedByReopen, Event, At
  <2>7. QED
    BY <2>2, <2>4, <2>5, <2>6 DEF IInv
<1>2. ASSUME NEW t \in Threads, log(t)
      PROVE  IInv'
  <2> DEFINE pc == IF clock # m_lastTime + 3 THEN "reopen" ELSE "write"
             calm == openable /\ ~full /\ (stream.open => stream.good)
             r == [pc |-> pc, now |-> clock, reopened |-> FALSE, calm |-> calm]
  <2>1. /\ frame' = [frame EXCEPT ![t] = r] /\ events' = [events EXCEPT ![t] = @ + 1]
        /\ alive /\ At(t, "idle")
        /\ UNCHANGED <<clock, fileSystem, alive, contents, m_lastTime, accepted, dropped>>
    BY <1>2 DEF log
  <2>2. calm \in BOOLEAN /\ clock \in Nat /\ pc \in {"reopen", "write"}
    BY <1>0 DEF TypeInv
  <2> HIDE DEF pc
  <2>3. /\ r \in Frame /\ r.pc = pc /\ r.reopened = FALSE
        /\ r.calm = (openable /\ ~full /\ (stream.open => stream.good))
    BY <2>2 DEF Frame, PCs
  <2> HIDE DEF r, calm
  <2>4. /\ frame' \in [Threads -> Frame] /\ frame'[t] = r
        /\ \A u \in Threads : u # t => frame'[u] = frame[u]
    BY <1>0, <2>1, <2>3
  <2>5. /\ events' \in [Threads -> Nat] /\ events'[t] = events[t] + 1
        /\ \A u \in Threads : u # t => events'[u] = events[u]
    BY <1>0, <2>1
  <2>6. TypeInv'
    BY <1>0, <2>1, <2>4, <2>5 DEF TypeInv
  <2>7. AliveInv' /\ HealthInv' /\ CalmInv' /\ FileIsTail'
    BY <1>0, <2>1, <2>2, <2>3, <2>4 DEF AliveInv, HealthInv, CalmInv, FileIsTail, At
  <2>8. \A e \in dropped : e.by \in Threads /\ e.n \in Nat /\ e.n <= events[e.by]
    BY <1>0 DEF TypeInv, EventType, DroppedInv
  <2>9. \A e \in dropped' : e.n <= events'[e.by]
    <3> SUFFICES ASSUME NEW e \in dropped'
                 PROVE  e.n <= events'[e.by]
        OBVIOUS
    <3>1. e \in dropped /\ events[e.by] \in Nat
      BY <1>0, <2>1, <2>8
    <3>2. events'[e.by] >= events[e.by] /\ events'[e.by] \in Nat
      BY <1>0, <2>5, <2>8, <3>1
    <3>3. QED
      BY <2>8, <3>1, <3>2
  <2>10. Event(t)' \notin dropped
    <3>1. Event(t)'.by = t /\ Event(t)'.n = events[t] + 1
      BY <2>5 DEF Event
    <3>2. \A e \in dropped : e.by = t => e.n <= events[t]
      BY <2>8
    <3>3. events[t] \in Nat
      BY <1>0
    <3>4. QED
      BY <3>1, <3>2, <3>3
  <2>11. \A u \in Threads : u # t => Event(u)' = Event(u)
    BY <2>5 DEF Event
  <2>12. DroppedInv' /\ HealedByReopen'
    BY <1>0, <2>1, <2>2, <2>3, <2>4, <2>9, <2>10, <2>11 DEF DroppedInv, HealedByReopen, At
  <2>13. QED
    BY <2>6, <2>7, <2>12 DEF IInv
<1>3. ASSUME NEW t \in Threads, logReopen(t)
      PROVE  IInv'
  <2>1. /\ frame[t].pc = "reopen"
        /\ frame' = [frame EXCEPT ![t].pc = "remember", ![t].reopened = TRUE]
        /\ UNCHANGED <<clock, fileSystem, alive, m_lastTime, events, accepted, dropped>>
    BY <1>3 DEF logReopen, At
  <2>2. /\ frame' \in [Threads -> Frame]
        /\ frame'[t].pc = "remember" /\ frame'[t].calm = frame[t].calm
        /\ \A u \in Threads : u # t => frame'[u] = frame[u]
    BY <1>0, <2>1 DEF Frame, PCs
  <2>3. /\ stream' \in [open : BOOLEAN, good : BOOLEAN]
        /\ buffer' \in Seq(EventType) /\ file' \in Seq(EventType)
        /\ FileIsTail'
        /\ (stream.open => stream.good) /\ openable => stream'.open /\ stream'.good
    BY <1>3, <2>1, ReopenKeeps DEF logReopen
  <2>4. TypeInv'
    BY <1>0, <2>1, <2>2, <2>3 DEF TypeInv
  <2>5. AliveInv' /\ HealthInv' /\ CalmInv'
    BY <1>0, <2>1, <2>2, <2>3 DEF AliveInv, HealthInv, CalmInv, At
  <2>6. DroppedInv' /\ HealedByReopen'
    BY <1>0, <2>1, <2>2 DEF DroppedInv, HealedByReopen, Event, At
  <2>7. QED
    BY <2>3, <2>4, <2>5, <2>6 DEF IInv
<1>4. ASSUME NEW t \in Threads, logRemember(t)
      PROVE  IInv'
  <2>1. /\ frame[t].pc = "remember"
        /\ frame' = [frame EXCEPT ![t].pc = "write"]
        /\ UNCHANGED <<clock, fileSystem, alive, contents, events, accepted, dropped>>
    BY <1>4 DEF logRemember, At, Goto
  <2>2. /\ frame' \in [Threads -> Frame]
        /\ frame'[t].pc = "write" /\ frame'[t].calm = frame[t].calm
        /\ frame'[t].reopened = frame[t].reopened
        /\ \A u \in Threads : u # t => frame'[u] = frame[u]
    BY <1>0, <2>1, Moved DEF PCs
  <2>3. TypeInv' /\ FileIsTail'
    BY <1>0, <2>1, <2>2 DEF TypeInv, FileIsTail
  <2>4. AliveInv' /\ HealthInv' /\ CalmInv'
    BY <1>0, <2>1, <2>2 DEF AliveInv, HealthInv, CalmInv, At
  <2>5. DroppedInv' /\ HealedByReopen'
    BY <1>0, <2>1, <2>2 DEF DroppedInv, HealedByReopen, Event, At
  <2>6. QED
    BY <2>3, <2>4, <2>5 DEF IInv
<1>5. ASSUME NEW t \in Threads, logBuffered(t) \/ logFlushed(t)
      PROVE  IInv'
  <2>1. /\ frame[t].pc = "write" /\ stream.good
        /\ frame' = [frame EXCEPT ![t].pc = "done"]
        /\ accepted' = Append(accepted, Event(t))
        /\ UNCHANGED <<clock, fileSystem, alive, stream, m_lastTime, events, dropped>>
    BY <1>5 DEF logBuffered, logFlushed, At, Goto
  <2>2. /\ frame' \in [Threads -> Frame]
        /\ frame'[t].pc = "done" /\ frame'[t].calm = frame[t].calm
        /\ frame'[t].reopened = frame[t].reopened
        /\ \A u \in Threads : u # t => frame'[u] = frame[u]
    BY <1>0, <2>1, Moved DEF PCs
  <2>3. /\ buffer \in Seq(EventType) /\ file \in Seq(EventType) /\ accepted \in Seq(EventType)
        /\ file \o buffer \in Seq(EventType) /\ <<>> \in Seq(EventType)
        /\ Append(buffer, Event(t)) \in Seq(EventType)
        /\ Append(file \o buffer, Event(t)) \in Seq(EventType)
        /\ Append(accepted, Event(t)) \in Seq(EventType)
    BY <1>0, EmptySeq, ConcatProperties, AppendProperties DEF TypeInv
  <2>4. /\ buffer' \in Seq(EventType) /\ file' \in Seq(EventType)
        /\ file' \o buffer' = Append(file \o buffer, Event(t))
    <3>1. CASE logBuffered(t)
      BY <1>0, <2>3, <3>1, ConcatAppend DEF logBuffered
    <3>2. CASE logFlushed(t)
      BY <2>3, <3>2, ConcatEmptySeq DEF logFlushed
    <3>3. QED
      BY <1>5, <3>1, <3>2
  <2>5. FileIsTail'
    BY <1>0, <2>1, <2>3, <2>4, SuffixAppend DEF FileIsTail
  <2>6. TypeInv'
    BY <1>0, <2>1, <2>2, <2>3, <2>4 DEF TypeInv
  <2>7. AliveInv' /\ HealthInv' /\ CalmInv'
    BY <1>0, <2>1, <2>2 DEF AliveInv, HealthInv, CalmInv, At
  <2>8. DroppedInv' /\ HealedByReopen'
    BY <1>0, <2>1, <2>2 DEF DroppedInv, HealedByReopen, Event, At
  <2>9. QED
    BY <2>5, <2>6, <2>7, <2>8 DEF IInv
<1>6. ASSUME NEW t \in Threads, logFails(t)
      PROVE  IInv'
  <2>1. /\ frame[t].pc = "write" /\ (stream.good /\ stream.open => full)
        /\ frame' = [frame EXCEPT ![t].pc = "done"]
        /\ stream' = [stream EXCEPT !.good = FALSE]
        /\ dropped' = dropped \cup {Event(t)}
        /\ UNCHANGED <<clock, fileSystem, alive, buffer, file, m_lastTime, events, accepted>>
    BY <1>6 DEF logFails, At, Goto
  <2>2. /\ frame' \in [Threads -> Frame]
        /\ frame'[t].pc = "done" /\ frame'[t].calm = frame[t].calm
        /\ frame'[t].reopened = frame[t].reopened
        /\ \A u \in Threads : u # t => frame'[u] = frame[u]
    BY <1>0, <2>1, Moved DEF PCs
  <2>3. /\ stream' \in [open : BOOLEAN, good : BOOLEAN]
        /\ stream'.open = stream.open /\ stream'.good = FALSE
    BY <1>0, <2>1 DEF TypeInv
  <2>4. TypeInv' /\ FileIsTail'
    BY <1>0, <2>1, <2>2, <2>3 DEF TypeInv, FileIsTail
  <2>5. alive /\ faults # 0
    BY <1>0, <2>1 DEF AliveInv, HealthInv, At
  <2>6. AliveInv' /\ HealthInv'
    BY <1>0, <2>1, <2>2, <2>5 DEF AliveInv, HealthInv, At
  <2>7. \A u \in Threads : frame[u].calm => ~stream.open /\ ~frame[u].reopened
    BY <1>0, <2>1 DEF CalmInv
  <2>8. CalmInv'
    BY <1>0, <2>1, <2>2, <2>3, <2>7 DEF CalmInv, At
  <2>9. Event(t).by = t /\ Event(t).n = events[t] /\ \A u \in Threads : Event(u)' = Event(u)
    BY <2>1 DEF Event
  <2>10. \A u \in Threads : u # t => Event(u) # Event(t)
    BY DEF Event
  <2>11. DroppedInv'
    <3>1. events[t] \in Nat
      BY <1>0
    <3>2. \A e \in dropped' : e.n <= events[e.by]
      BY <1>0, <2>1, <2>9, <3>1 DEF DroppedInv
    <3>3. \A u \in Threads : frame'[u].pc \in {"reopen", "remember", "write"} => Event(u) \notin dropped'
      BY <1>0, <2>1, <2>2, <2>10 DEF DroppedInv
    <3>4. QED
      BY <2>1, <2>9, <3>2, <3>3 DEF DroppedInv
  <2>12. HealedByReopen'
    BY <1>0, <2>1, <2>2, <2>7, <2>9, <2>10 DEF HealedByReopen, At
  <2>13. QED
    BY <2>4, <2>6, <2>8, <2>11, <2>12 DEF IInv
<1>7. ASSUME NEW t \in Threads, logReturn(t)
      PROVE  IInv'
  <2>1. /\ frame' = [frame EXCEPT ![t] = Idle]
        /\ UNCHANGED <<clock, fileSystem, alive, contents, m_lastTime, events, accepted, dropped>>
    BY <1>7 DEF logReturn
  <2>2. Idle \in Frame /\ Idle.pc = "idle" /\ Idle.calm = FALSE
    BY DEF Idle, Frame, PCs
  <2>3. /\ frame' \in [Threads -> Frame] /\ frame'[t] = Idle
        /\ \A u \in Threads : u # t => frame'[u] = frame[u]
    BY <1>0, <2>1, <2>2
  <2>4. TypeInv' /\ FileIsTail'
    BY <1>0, <2>1, <2>3 DEF TypeInv, FileIsTail
  <2>5. AliveInv' /\ HealthInv' /\ CalmInv'
    BY <1>0, <2>1, <2>2, <2>3 DEF AliveInv, HealthInv, CalmInv, At
  <2>6. DroppedInv' /\ HealedByReopen'
    BY <1>0, <2>1, <2>2, <2>3 DEF DroppedInv, HealedByReopen, Event, At
  <2>7. QED
    BY <2>4, <2>5, <2>6 DEF IInv
<1>8. CASE tick
  <2>1. /\ clock' = clock + 1
        /\ UNCHANGED <<fileSystem, alive, contents, m_lastTime, frame, events, accepted, dropped>>
    BY <1>8 DEF tick
  <2>2. TypeInv' /\ FileIsTail'
    BY <1>0, <2>1 DEF TypeInv, FileIsTail
  <2>3. AliveInv' /\ HealthInv' /\ CalmInv' /\ DroppedInv' /\ HealedByReopen'
    BY <1>0, <2>1 DEF AliveInv, HealthInv, CalmInv, DroppedInv, HealedByReopen, Event, At
  <2>4. QED
    BY <2>2, <2>3 DEF IInv
<1>9. CASE fault
  <2>1. /\ faults' = faults + 1
        /\ frame' = [t \in Threads |-> [frame[t] EXCEPT !.calm = FALSE]]
        /\ UNCHANGED <<clock, alive, contents, m_lastTime, events, accepted, dropped>>
    BY <1>9 DEF fault
  <2>2. openable' \in BOOLEAN /\ full' \in BOOLEAN
    BY <1>0, <1>9 DEF fault, TypeInv
  <2>3. /\ frame' \in [Threads -> Frame]
        /\ \A t \in Threads : frame'[t].calm = FALSE /\ frame'[t].pc = frame[t].pc
    BY <1>0, <2>1 DEF Frame
  <2>4. faults \in Nat /\ faults' # 0
    BY <1>0, <2>1 DEF TypeInv
  <2>5. TypeInv' /\ FileIsTail'
    BY <1>0, <2>1, <2>2, <2>3, <2>4 DEF TypeInv, FileIsTail
  <2>6. AliveInv' /\ HealthInv' /\ CalmInv' /\ DroppedInv' /\ HealedByReopen'
    BY <1>0, <2>1, <2>3, <2>4
       DEF AliveInv, HealthInv, CalmInv, DroppedInv, HealedByReopen, Event, At
  <2>7. QED
    BY <2>5, <2>6 DEF IInv
<1>10. CASE UNCHANGED vars
  <2>1. TypeInv' /\ FileIsTail'
    BY <1>0, <1>10 DEF vars, TypeInv, FileIsTail
  <2>2. AliveInv' /\ HealthInv' /\ CalmInv' /\ DroppedInv' /\ HealedByReopen'
    BY <1>0, <1>10 DEF vars, AliveInv, HealthInv, CalmInv, DroppedInv, HealedByReopen, Event, At
  <2>3. QED
    BY <2>1, <2>2 DEF IInv
<1>11. QED
  BY <1>1, <1>2, <1>3, <1>4, <1>5, <1>6, <1>7, <1>8, <1>9, <1>10 DEF Next, Continue

------------------------------------------------------------------------------
\* Every reachable state satisfies the invariant.
THEOREM Invariance == Spec => []IInv
<1>1. QED
  BY InitInv, StepInv, PTL DEF Spec

\* The file and the buffer hold the last events the stream took, in their order and
\* without a gap, however often the file is reopened (logger.cpp:432-441).
THEOREM TailKept == Spec => []FileIsTail
<1>1. IInv => FileIsTail
  BY DEF IInv
<1>2. QED
  BY <1>1, Invariance, PTL

\* Without trouble in the file system log() refuses no event (logger.cpp:405), whatever
\* m_lastTime held and however the calls mix.
THEOREM NoneDropped == Spec => []NothingDropped
<1>1. IInv => NothingDropped
  BY DEF IInv, HealthInv, NothingDropped
<1>2. QED
  BY <1>1, Invariance, PTL

\* A call that reopens a stream that is not open, or good, is taken (logger.cpp:432-441):
\* its failures before are over, unless one of them was a failed write.
THEOREM ReopenHeals == Spec => []HealedByReopen
<1>1. IInv => HealedByReopen
  BY DEF IInv
<1>2. QED
  BY <1>1, Invariance, PTL
==============================================================================
