---------------------------- MODULE FileAppender -----------------------------
(***************************************************************************)
(* chord::FileLogAppender (chord/log.h, chord/logger.cpp): log() of events *)
(* that pass the level, and the reopening of the file.                     *)
(*                                                                         *)
(* log reads the clock and m_lastTime without a lock, reopens under the    *)
(* lock, stores m_lastTime without it, and writes under a second lock, so  *)
(* calls of two threads mix (one appender may serve two loggers).          *)
(* m_lastTime is not initialised.  The file is reopened unless exactly     *)
(* three seconds have passed since the last time, and opening truncates.   *)
(*                                                                         *)
(* The stream (external: std::ofstream) buffers; it is written to the file *)
(* when the buffer is full or by close.  A failed write or open leaves it  *)
(* not good, a successful open makes it good, and open of a stream that is *)
(* still open fails.                                                       *)
(***************************************************************************)
EXTENDS SequencesExt, Integers

CONSTANTS Threads,   \* the threads that log
          MaxTime,   \* bound: the clock, in seconds
          MaxEvents, \* bound: events per thread
          MaxFaults  \* bound: changes of the file system

ASSUME FileAppenderAssumption == MaxTime \in Nat /\ MaxEvents \in Nat /\ MaxFaults \in Nat

VARIABLES
  clock,      \* time(0)
  openable,   \* the file can be created
  full,       \* the disk takes no more
  faults,     \* changes of openable and full
  alive,      \* the constructor has returned
  stream,     \* m_filestream: whether it is open, whether it is good
  buffer,     \* the events in the stream's buffer
  file,       \* the events in the file
  m_lastTime, \* the time of the last reopening by log
  frame,      \* [Threads -> where its log() is, now, whether it reopened the file, and
              \*  (history) whether the file system gave no trouble since it began]
  events,     \* [Threads -> events logged]
  accepted,   \* history: the events the stream took, in order
  dropped     \* history: the events it refused

vars == <<clock, openable, full, faults, alive, stream, buffer, file, m_lastTime, frame, events,
          accepted, dropped>>

fileSystem == <<openable, full, faults>>
contents == <<stream, buffer, file>>

Idle == [pc |-> "idle", now |-> 0, reopened |-> FALSE, calm |-> FALSE]

At(t, pc) == frame[t].pc = pc
Goto(t, pc) == frame' = [frame EXCEPT ![t].pc = pc]

Event(t) == [by |-> t, n |-> events[t]]

------------------------------------------------------------------------------
\* reopen's close: nothing is left open, unless the stream is not good and close is
\* not called; closing writes the buffer if the disk takes it.
Closed == stream.good \/ ~stream.open
Flushed == IF stream.good /\ stream.open /\ ~full THEN file \o buffer ELSE file

\* Mutant of reopen: close is forgotten.
reopenWithoutClose ==
  IF stream.open \/ ~openable
    THEN stream' = [stream EXCEPT !.good = FALSE] /\ UNCHANGED <<buffer, file>>
    ELSE stream' = [open |-> TRUE, good |-> TRUE] /\ buffer' = <<>> /\ file' = <<>>

\* Mutant of reopen: open is inside the test of the stream.
reopenIfGood ==
  IF ~stream.good THEN UNCHANGED contents
  ELSE /\ stream' = [open |-> openable, good |-> openable]
       /\ buffer' = <<>>
       /\ file' = IF openable THEN <<>> ELSE Flushed

\* Mutant of reopen: the file is opened with ios::app.
reopenAppending ==
  /\ stream' = [open |-> Closed => openable, good |-> Closed /\ openable]
  /\ buffer' = IF Closed THEN <<>> ELSE buffer
  /\ file' = Flushed

\* reopen() under the lock: close, then open, which empties the file.  A stream that a
\* failed write left not good is still open, and opening it again fails.
reopen ==
  /\ stream' = [open |-> Closed => openable, good |-> Closed /\ openable]
  /\ buffer' = IF Closed THEN <<>> ELSE buffer
  /\ file' = IF Closed /\ openable THEN <<>> ELSE Flushed

\* FileLogAppender(filename): m_filestream has never been opened.
construct ==
  /\ ~alive
  /\ alive' = TRUE
  /\ reopen
  /\ UNCHANGED <<clock, fileSystem, m_lastTime, frame, events, accepted, dropped>>

\* log(): now = time(0), and the comparison with m_lastTime.
log(t) ==
  /\ alive /\ At(t, "idle") /\ events[t] < MaxEvents
  /\ events' = [events EXCEPT ![t] = @ + 1]
  /\ frame' = [frame EXCEPT ![t] =
       [pc |-> IF clock # m_lastTime + 3 THEN "reopen" ELSE "write", now |-> clock,
        reopened |-> FALSE, calm |-> openable /\ ~full /\ (stream.open => stream.good)]]
  /\ UNCHANGED <<clock, fileSystem, alive, contents, m_lastTime, accepted, dropped>>

logReopen(t) ==
  /\ At(t, "reopen")
  /\ reopen
  /\ frame' = [frame EXCEPT ![t].pc = "remember", ![t].reopened = TRUE]
  /\ UNCHANGED <<clock, fileSystem, alive, m_lastTime, events, accepted, dropped>>

\* m_lastTime = now, without the lock.
logRemember(t) ==
  /\ At(t, "remember")
  /\ m_lastTime' = frame[t].now
  /\ Goto(t, "write")
  /\ UNCHANGED <<clock, fileSystem, alive, contents, events, accepted, dropped>>

\* m_filestream << ... under the lock, into the buffer of a good stream.
logBuffered(t) ==
  /\ At(t, "write") /\ stream.good /\ stream.open
  /\ buffer' = Append(buffer, Event(t))
  /\ accepted' = Append(accepted, Event(t))
  /\ Goto(t, "done")
  /\ UNCHANGED <<clock, fileSystem, alive, stream, file, m_lastTime, events, dropped>>

\* The buffer is full, and goes to the file with the event.
logFlushed(t) ==
  /\ At(t, "write") /\ stream.good /\ stream.open /\ ~full
  /\ file' = Append(file \o buffer, Event(t))
  /\ buffer' = <<>>
  /\ accepted' = Append(accepted, Event(t))
  /\ Goto(t, "done")
  /\ UNCHANGED <<clock, fileSystem, alive, stream, m_lastTime, events, dropped>>

\* The stream is not good, or has not been opened, or the buffer is full and the disk
\* too: the error message is printed, and the event is not written.
logFails(t) ==
  /\ At(t, "write") /\ (stream.good /\ stream.open => full)
  /\ stream' = [stream EXCEPT !.good = FALSE]
  /\ dropped' = dropped \cup {Event(t)}
  /\ Goto(t, "done")
  /\ UNCHANGED <<clock, fileSystem, alive, buffer, file, m_lastTime, events, accepted>>

logReturn(t) ==
  /\ At(t, "done")
  /\ frame' = [frame EXCEPT ![t] = Idle]
  /\ UNCHANGED <<clock, fileSystem, alive, contents, m_lastTime, events, accepted, dropped>>

------------------------------------------------------------------------------
\* The clock, and the file system: the directory goes away and comes back, the disk
\* fills and empties.
tick ==
  /\ clock < MaxTime
  /\ clock' = clock + 1
  /\ UNCHANGED <<fileSystem, alive, contents, m_lastTime, frame, events, accepted, dropped>>

fault ==
  /\ faults < MaxFaults
  /\ faults' = faults + 1
  /\ \/ openable' = ~openable /\ UNCHANGED full
     \/ full' = ~full /\ UNCHANGED openable
  /\ frame' = [t \in Threads |-> [frame[t] EXCEPT !.calm = FALSE]]
  /\ UNCHANGED <<clock, alive, contents, m_lastTime, events, accepted, dropped>>

\* m_lastTime is whatever the memory held: a time near the clock's, or far from it.
Init ==
  /\ clock = 3
  /\ openable = TRUE /\ full = FALSE /\ faults = 0
  /\ alive = FALSE
  /\ stream = [open |-> FALSE, good |-> TRUE]
  /\ buffer = <<>> /\ file = <<>>
  /\ m_lastTime \in {0, 2 * MaxTime}
  /\ frame = [t \in Threads |-> Idle]
  /\ events = [t \in Threads |-> 0]
  /\ accepted = <<>> /\ dropped = {}

Continue(t) ==
  \/ logReopen(t) \/ logRemember(t)
  \/ logBuffered(t) \/ logFlushed(t) \/ logFails(t) \/ logReturn(t)

Next == construct \/ tick \/ fault \/ \E t \in Threads : log(t) \/ Continue(t)

Spec == Init /\ [][Next]_vars

------------------------------------------------------------------------------
(***************************************************************************)
(* Properties                                                              *)
(***************************************************************************)

\* The file and the buffer after it hold the last events the stream took, in the order
\* in which it took them and without a gap: what is lost by reopening (logger.cpp:439)
\* is always the beginning.
FileIsTail == stream.good => IsSuffix(file \o buffer, accepted)

\* As long as the file system gives no trouble, no event is refused, although two
\* threads reopen and write in any order and m_lastTime may hold anything.
NothingDropped == faults = 0 => dropped = {}

\* A stream that could not be opened is not lost for good: an event whose log() reopens
\* the file, while the file system gives no trouble, is taken, whatever went wrong
\* before (logger.cpp:432) -- but for a failed write, which leaves the stream open.
HealedByReopen ==
  \A t \in Threads :
    At(t, "done") /\ frame[t].calm /\ frame[t].reopened => Event(t) \notin dropped
==============================================================================
