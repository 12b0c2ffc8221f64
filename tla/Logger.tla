------------------------------- MODULE Logger --------------------------------
(***************************************************************************)
(* chord::Logger, LogAppender and LoggerManager (chord/log.h,              *)
(* chord/logger.cpp): loggers with a level, a formatter and a list of      *)
(* appenders, used by several threads.  The macros test the level, build   *)
(* an event and log it when the statement ends.  Logger::log tests the     *)
(* level again, without a lock, then holds the logger's spinlock while it  *)
(* hands the event to every appender; a logger without appenders hands it  *)
(* to the root logger and holds both locks.  setFormatter and addAppender  *)
(* take the locks of appenders inside the logger's, the manager's dump the *)
(* locks of the loggers inside its own.                                    *)
(*                                                                         *)
(* An appender's lock is a leaf: whoever holds it takes no other lock and  *)
(* makes one access, so each such critical section is one step.            *)
(***************************************************************************)
EXTENDS Integers, Sequences, FiniteSets

CONSTANTS Users,             \* the threads that log
          Admins,            \* the threads that reconfigure loggers and appenders
          NoThread,          \* "nobody"
          Loggers, root,     \* the loggers; the manager's m_root among them
          Appenders, stdout, \* the appenders; root's first appender among them
          Formatters, null,  \* formatters; a null pointer
          Default,           \* the formatter a logger is constructed with
          Levels,            \* log levels
          MaxEvents,         \* bound: events per user
          MaxCalls           \* bound: calls per admin

ASSUME LoggerAssumption ==
  /\ NoThread \notin Users \cup Admins
  /\ root \in Loggers /\ stdout \in Appenders
  /\ Default \in Formatters /\ null \notin Formatters \cup Appenders \cup Loggers
  /\ Levels \subseteq Nat
  /\ MaxEvents \in Nat /\ MaxCalls \in Nat

Threads == Users \cup Admins

\* LogLevel::DEBUG, the level loggers and appenders start with.
DEBUG == 1

VARIABLES
  m_level,         \* [Loggers -> level]
  m_formatter,     \* [Loggers -> formatter]
  m_appenders,     \* [Loggers -> sequence of appenders]
  m_mutex,         \* [Loggers -> the thread that holds the spinlock]
  m_logger,        \* the manager's map: the loggers in it
  mgr_mutex,       \* the thread that holds the manager's spinlock
  ap_formatter,    \* [Appenders -> m_formatter of the appender]
  ap_level,        \* [Appenders -> m_level of the appender]
  m_has_Formatter, \* [Appenders -> BOOLEAN]
  given,           \* history: [Appenders -> the last formatter the user gave it]
  out,             \* history: [Loggers -> [Appenders -> what it was handed, in order]]
  frame,           \* [Threads -> the activation record of its call]
  calls            \* [Threads -> calls begun]

manager == <<m_logger, mgr_mutex>>
formatting == <<ap_formatter, m_has_Formatter, given>>
vars == <<m_level, m_formatter, m_appenders, m_mutex, manager, formatting, ap_level, out, frame, calls>>

(***************************************************************************)
(* An activation record: where the call is, the logger it works on (for an *)
(* event handed on, the root logger), the logger it was called on, the     *)
(* position in the list of appenders, the appender to add, the event, the  *)
(* loggers a dump has yet to visit.                                        *)
(***************************************************************************)
PCs == {"idle", "statement", "lock", "fan", "rootlevel", "unlock", "spread", "inherit", "dump"}

NoEvent == [by |-> NoThread, n |-> 0, level |-> 0, logger |-> root]

Idle == [pc |-> "idle", on |-> root, from |-> root, pos |-> 0, ap |-> stdout, event |-> NoEvent,
         todo |-> {}]

Begin(t) ==
  /\ frame[t].pc = "idle"
  /\ calls[t] < IF t \in Users THEN MaxEvents ELSE MaxCalls
  /\ calls' = [calls EXCEPT ![t] = @ + 1]

At(t, pc) == frame[t].pc = pc /\ UNCHANGED calls
Free(l) == m_mutex[l] = NoThread
Acquire(t, l) == Free(l) /\ m_mutex' = [m_mutex EXCEPT ![l] = t]
Release(L) == m_mutex' = [l \in Loggers |-> IF l \in L THEN NoThread ELSE m_mutex[l]]
Become(t, f) == frame' = [frame EXCEPT ![t] = f]
Return(t) == Become(t, Idle)

------------------------------------------------------------------------------
\* CHORD_LOG_LEVEL(logger, level): below the level nothing happens, else an event is
\* built and filled by the rest of the statement.
CHORD_LOG_LEVEL(t, l, level) ==
  /\ Begin(t)
  /\ l \in m_logger
  /\ m_level[l] <= level
  /\ Become(t, [Idle EXCEPT !.pc = "statement", !.on = l, !.from = l,
                            !.event = [by |-> t, n |-> calls[t] + 1, level |-> level, logger |-> l]])
  /\ UNCHANGED <<m_level, m_formatter, m_appenders, m_mutex, manager, formatting, ap_level, out>>

\* ~LogEventWrap, at the end of the statement, logs the event to the event's logger;
\* log() tests the level again, without a lock.
log(t) ==
  /\ At(t, "statement")
  /\ IF frame[t].event.level >= m_level[frame[t].on]
     THEN Become(t, [frame[t] EXCEPT !.pc = "lock"])
     ELSE Return(t)
  /\ UNCHANGED <<m_level, m_formatter, m_appenders, m_mutex, manager, formatting, ap_level, out>>

\* The lock; with appenders the fan-out begins, without them the root logger is
\* next if there is one (the root logger itself has none).
logLock(t) ==
  /\ At(t, "lock")
  /\ Acquire(t, frame[t].on)
  /\ Become(t, [frame[t] EXCEPT !.pos = 1, !.pc =
       IF m_appenders[frame[t].on] # << >> THEN "fan"
       ELSE IF frame[t].on # root THEN "rootlevel" ELSE "unlock"])
  /\ UNCHANGED <<m_level, m_formatter, m_appenders, manager, formatting, ap_level, out>>

\* Mutant of logRoot: the lock is given up before the root logger is called.
logRootUnlocked(t) ==
  /\ At(t, "rootlevel")
  /\ IF frame[t].event.level >= m_level[root]
     THEN Become(t, [frame[t] EXCEPT !.pc = "lock", !.on = root])
     ELSE Become(t, [frame[t] EXCEPT !.pc = "unlock"])
  /\ Release({frame[t].on})
  /\ UNCHANGED <<m_level, m_formatter, m_appenders, manager, formatting, ap_level, out>>

\* m_root->log(level, event): the root logger's own level test.
logRoot(t) ==
  /\ At(t, "rootlevel")
  /\ IF frame[t].event.level >= m_level[root]
     THEN Become(t, [frame[t] EXCEPT !.pc = "lock", !.on = root])
     ELSE Become(t, [frame[t] EXCEPT !.pc = "unlock"])
  /\ UNCHANGED <<m_level, m_formatter, m_appenders, m_mutex, manager, formatting, ap_level, out>>

\* LogAppender::log for the event of t at appender a: the appender's formatter, and
\* whether the event reaches the appender's level and is written.
Entry(t, a) ==
  [event |-> frame[t].event, fmt |-> ap_formatter[a],
   written |-> frame[t].event.level >= ap_level[a]]

\* i->log(self, level, event) for the next appender.
logAppender(t) ==
  /\ At(t, "fan")
  /\ LET list == m_appenders[frame[t].on]
         a == list[frame[t].pos]
     IN /\ out' = [out EXCEPT ![frame[t].on][a] = Append(@, Entry(t, a))]
        /\ Become(t, [frame[t] EXCEPT !.pos = @ + 1,
                                      !.pc = IF frame[t].pos < Len(list) THEN "fan" ELSE "unlock"])
  /\ UNCHANGED <<m_level, m_formatter, m_appenders, m_mutex, manager, formatting, ap_level>>

\* Mutant of logUnlockRoot: the logger the event was handed on from stays locked.
logUnlockOne(t) ==
  /\ At(t, "unlock") /\ frame[t].on # frame[t].from
  /\ Release({frame[t].on})
  /\ Return(t)
  /\ UNCHANGED <<m_level, m_formatter, m_appenders, manager, formatting, ap_level, out>>

\* m_root->log() returns: its guard releases the root logger's lock.
logUnlockRoot(t) ==
  /\ At(t, "unlock") /\ frame[t].on # frame[t].from
  /\ Release({frame[t].on})
  /\ Become(t, [frame[t] EXCEPT !.on = frame[t].from])
  /\ UNCHANGED <<m_level, m_formatter, m_appenders, manager, formatting, ap_level, out>>

\* log() returns: its guard releases the logger's lock.
logUnlock(t) ==
  /\ At(t, "unlock") /\ frame[t].on = frame[t].from
  /\ Release({frame[t].on})
  /\ Return(t)
  /\ UNCHANGED <<m_level, m_formatter, m_appenders, manager, formatting, ap_level, out>>

------------------------------------------------------------------------------
\* setLevel(val), without a lock.
setLevel(t, l, val) ==
  /\ Begin(t)
  /\ m_level' = [m_level EXCEPT ![l] = val]
  /\ UNCHANGED <<m_formatter, m_appenders, m_mutex, manager, formatting, ap_level, out, frame>>

\* Logger::setFormatter(val): the logger's own formatter, under its lock.
setFormatter(t, l, val) ==
  /\ Begin(t)
  /\ Acquire(t, l)
  /\ m_formatter' = [m_formatter EXCEPT ![l] = val]
  /\ Become(t, [Idle EXCEPT !.pc = "spread", !.on = l, !.from = l, !.pos = 1])
  /\ UNCHANGED <<m_level, m_appenders, manager, formatting, ap_level, out>>

\* Then that of the next appender, under its lock, unless it has its own.
setFormatterSpread(t) ==
  /\ At(t, "spread")
  /\ frame[t].pos <= Len(m_appenders[frame[t].on])
  /\ LET a == m_appenders[frame[t].on][frame[t].pos]
     IN ap_formatter' = IF m_has_Formatter[a] THEN ap_formatter
                        ELSE [ap_formatter EXCEPT ![a] = m_formatter[frame[t].on]]
  /\ Become(t, [frame[t] EXCEPT !.pos = @ + 1])
  /\ UNCHANGED <<m_level, m_formatter, m_appenders, m_mutex, manager, m_has_Formatter, given,
                 ap_level, out>>

\* The end of the list and of the lock.
setFormatterDone(t) ==
  /\ At(t, "spread")
  /\ frame[t].pos > Len(m_appenders[frame[t].on])
  /\ Release({frame[t].on})
  /\ Return(t)
  /\ UNCHANGED <<m_level, m_formatter, m_appenders, manager, formatting, ap_level, out>>

\* LogAppender::setFormatter(val), under the appender's lock.
setAppenderFormatter(t, a, val) ==
  /\ Begin(t)
  /\ ap_formatter' = [ap_formatter EXCEPT ![a] = val]
  /\ m_has_Formatter' = [m_has_Formatter EXCEPT ![a] = val # null]
  /\ given' = [given EXCEPT ![a] = val]
  /\ UNCHANGED <<m_level, m_formatter, m_appenders, m_mutex, manager, ap_level, out, frame>>

\* LogAppender::setLevel(val), without a lock.
setAppenderLevel(t, a, val) ==
  /\ Begin(t)
  /\ ap_level' = [ap_level EXCEPT ![a] = val]
  /\ UNCHANGED <<m_level, m_formatter, m_appenders, m_mutex, manager, formatting, out, frame>>

\* addAppender(a) of an appender that has a formatter.
addAppender(t, l, a) ==
  /\ Begin(t)
  /\ Free(l)
  /\ ap_formatter[a] # null
  /\ m_appenders' = [m_appenders EXCEPT ![l] = Append(@, a)]
  /\ UNCHANGED <<m_level, m_formatter, m_mutex, manager, formatting, ap_level, out, frame>>

\* addAppender(a) of an appender whose getFormatter() returns null: the lock of the
\* appender is given up and taken again for the assignment.
addAppenderNone(t, l, a) ==
  /\ Begin(t)
  /\ Acquire(t, l)
  /\ ap_formatter[a] = null
  /\ Become(t, [Idle EXCEPT !.pc = "inherit", !.on = l, !.from = l, !.ap = a])
  /\ UNCHANGED <<m_level, m_formatter, m_appenders, manager, formatting, ap_level, out>>

\* Mutant of addAppenderInherit: the logger's formatter is not handed down.
addAppenderOnly(t) ==
  /\ At(t, "inherit")
  /\ m_appenders' = [m_appenders EXCEPT ![frame[t].on] = Append(@, frame[t].ap)]
  /\ Release({frame[t].on})
  /\ Return(t)
  /\ UNCHANGED <<m_level, m_formatter, manager, formatting, ap_level, out>>

\* Mutant of addAppenderInherit: by appender->setFormatter(m_formatter), the call that
\* is commented out in the code.
addAppenderOwn(t) ==
  /\ At(t, "inherit")
  /\ ap_formatter' = [ap_formatter EXCEPT ![frame[t].ap] = m_formatter[frame[t].on]]
  /\ m_has_Formatter' = [m_has_Formatter EXCEPT ![frame[t].ap] = TRUE]
  /\ m_appenders' = [m_appenders EXCEPT ![frame[t].on] = Append(@, frame[t].ap)]
  /\ Release({frame[t].on})
  /\ Return(t)
  /\ UNCHANGED <<m_level, m_formatter, manager, given, ap_level, out>>

\* The appender gets the logger's formatter, but not as its own, and is added.
addAppenderInherit(t) ==
  /\ At(t, "inherit")
  /\ ap_formatter' = [ap_formatter EXCEPT ![frame[t].ap] = m_formatter[frame[t].on]]
  /\ m_appenders' = [m_appenders EXCEPT ![frame[t].on] = Append(@, frame[t].ap)]
  /\ Release({frame[t].on})
  /\ Return(t)
  /\ UNCHANGED <<m_level, m_formatter, manager, m_has_Formatter, given, ap_level, out>>

\* delAppender(a): the first occurrence of a is erased.
delAppender(t, l, a) ==
  /\ Begin(t)
  /\ Free(l)
  /\ \E i \in DOMAIN m_appenders[l] :
       /\ m_appenders[l][i] = a
       /\ \A j \in 1 .. i - 1 : m_appenders[l][j] # a
       /\ m_appenders' = [m_appenders EXCEPT ![l] = SubSeq(@, 1, i - 1) \o SubSeq(@, i + 1, Len(@))]
  /\ UNCHANGED <<m_level, m_formatter, m_mutex, manager, formatting, ap_level, out, frame>>

\* delAppender(a) of an appender that the logger does not have.
delAppenderMissing(t, l, a) ==
  /\ Begin(t)
  /\ Free(l)
  /\ \A i \in DOMAIN m_appenders[l] : m_appenders[l][i] # a
  /\ UNCHANGED <<m_level, m_formatter, m_appenders, m_mutex, manager, formatting, ap_level, out, frame>>

\* clearAppenders()
clearAppenders(t, l) ==
  /\ Begin(t)
  /\ Free(l)
  /\ m_appenders' = [m_appenders EXCEPT ![l] = << >>]
  /\ UNCHANGED <<m_level, m_formatter, m_mutex, manager, formatting, ap_level, out, frame>>

------------------------------------------------------------------------------
\* getLogger(name), all of it under the manager's lock: a logger that is not in the
\* map is constructed, with m_root as its root, and added.
getLogger(t, l) ==
  /\ frame[t].pc = "idle"
  /\ mgr_mutex = NoThread
  /\ m_logger' = m_logger \cup {l}
  /\ UNCHANGED <<m_level, m_formatter, m_appenders, m_mutex, mgr_mutex, formatting, ap_level, out,
                 frame, calls>>

\* LoggerManager::toYamlString(): the manager's lock, held while the map is walked.
toYamlString(t) ==
  /\ Begin(t)
  /\ mgr_mutex = NoThread
  /\ mgr_mutex' = t
  /\ Become(t, [Idle EXCEPT !.pc = "dump", !.todo = m_logger])
  /\ UNCHANGED <<m_level, m_formatter, m_appenders, m_mutex, m_logger, formatting, ap_level, out>>

\* Logger::toYamlString() of the next logger, under its lock: its members are read
\* and, under their locks, those of its appenders.
toYamlStringLogger(t) ==
  /\ At(t, "dump")
  /\ \E l \in frame[t].todo :
       /\ Free(l)
       /\ Become(t, [frame[t] EXCEPT !.todo = @ \ {l}])
  /\ UNCHANGED <<m_level, m_formatter, m_appenders, m_mutex, manager, formatting, ap_level, out>>

\* The end of the map and of the manager's lock.
toYamlStringDone(t) ==
  /\ At(t, "dump")
  /\ frame[t].todo = {}
  /\ mgr_mutex' = NoThread
  /\ Return(t)
  /\ UNCHANGED <<m_level, m_formatter, m_appenders, m_mutex, m_logger, formatting, ap_level, out>>

------------------------------------------------------------------------------
\* The manager's root logger has the console appender, with the root's formatter;
\* the other loggers, once they are in its map, are as their constructor leaves them.
Init ==
  /\ m_level = [l \in Loggers |-> DEBUG]
  /\ m_formatter = [l \in Loggers |-> Default]
  /\ m_appenders = [l \in Loggers |-> IF l = root THEN <<stdout>> ELSE << >>]
  /\ m_mutex = [l \in Loggers |-> NoThread]
  /\ m_logger = {root}
  /\ mgr_mutex = NoThread
  /\ ap_formatter = [a \in Appenders |-> IF a = stdout THEN Default ELSE null]
  /\ ap_level = [a \in Appenders |-> DEBUG]
  /\ m_has_Formatter = [a \in Appenders |-> FALSE]
  /\ given = [a \in Appenders |-> null]
  /\ out = [l \in Loggers |-> [a \in Appenders |-> << >>]]
  /\ frame = [t \in Threads |-> Idle]
  /\ calls = [t \in Threads |-> 0]

\* A user looks a logger up or logs.
Use(t) ==
  \E l \in Loggers : getLogger(t, l) \/ \E v \in Levels : CHORD_LOG_LEVEL(t, l, v)

\* An admin changes a logger or an appender, or dumps them all.
Administer(t) ==
  \/ \E l \in m_logger :
       \/ \E v \in Levels : setLevel(t, l, v)
       \/ \E f \in Formatters : setFormatter(t, l, f)
       \/ \E a \in Appenders :
            \/ addAppender(t, l, a) \/ addAppenderNone(t, l, a)
            \/ delAppender(t, l, a) \/ delAppenderMissing(t, l, a)
       \/ clearAppenders(t, l)
  \/ \E a \in Appenders :
       \/ \E f \in Formatters : setAppenderFormatter(t, a, f)
       \/ \E v \in Levels : setAppenderLevel(t, a, v)
  \/ toYamlString(t)

Continue(t) ==
  \/ log(t)
  \/ logLock(t)
  \/ logRoot(t)
  \/ logAppender(t)
  \/ logUnlockRoot(t)
  \/ logUnlock(t)
  \/ setFormatterSpread(t)
  \/ setFormatterDone(t)
  \/ addAppenderInherit(t)
  \/ toYamlStringLogger(t)
  \/ toYamlStringDone(t)

Next ==
  \/ \E t \in Users : Use(t)
  \/ \E t \in Admins : Administer(t)
  \/ \E t \in Threads : Continue(t)

\* A thread that can go on does; a spinlock is not fair, but calls are bounded.
Fairness == \A t \in Threads : WF_vars(Continue(t))

Spec == Init /\ [][Next]_vars /\ Fairness

------------------------------------------------------------------------------
\* An event of the bus: its level does not matter there.
Name(e) == [by |-> e.by, n |-> e.n, logger |-> e.logger]

\* What appender a is about to be handed by logger l: the rest of a fan-out.
Fanning(l) == {t \in Threads : frame[t].pc = "fan" /\ frame[t].on = l}

Pending(l, a) ==
  IF Fanning(l) = {} THEN << >>
  ELSE LET t == CHOOSE t \in Fanning(l) : TRUE
           left == {i \in frame[t].pos .. Len(m_appenders[l]) : m_appenders[l][i] = a}
       IN [n \in 1 .. Cardinality(left) |-> Name(frame[t].event)]

HandedBy(l, a) == [n \in DOMAIN out[l][a] |-> Name(out[l][a][n].event)]

Delivered == [l \in Loggers |-> [a \in Appenders |-> HandedBy(l, a) \o Pending(l, a)]]

Bus == INSTANCE EventBus
  WITH appenders <- m_appenders,
       delivered <- Delivered,
       Events <- [by : Users, n : 1 .. MaxEvents, logger : Loggers]

\* Logger::log holds the lock for the whole fan-out (logger.cpp:329-340), and the
\* logger's own while it hands an event on to the root logger: an event reaches every
\* appender of one logger once for each time it is in the list, none through two
\* loggers, and all appenders get the events of a logger in one order, whatever
\* happens to levels, formatters and lists meanwhile.
ImplementsEventBus == Bus!Spec

IteratorKept ==
  \A t \in Threads :
    /\ frame[t].pc \in {"fan", "spread"} => m_appenders'[frame[t].on] = m_appenders[frame[t].on]
    /\ frame[t].pc = "dump" => m_logger' = m_logger

\* The list of appenders is not changed under the iterator of a log() or setFormatter()
\* (logger.cpp:332, 262), nor the manager's map under that of a dump (logger.cpp:891).
IteratorValid == [][IteratorKept]_vars

\* No appender formats with a null formatter, though appenders are created without one
\* and only get the logger's when they are added.
FormatterPresent ==
  \A l \in Loggers, a \in Appenders : \A i \in DOMAIN out[l][a] : out[l][a][i].fmt # null

\* With one admin, an appender that counts its formatter as its own has the one the
\* user gave it: neither its logger's setFormatter nor addAppender replaces that one
\* or passes the logger's for the appender's own (logger.cpp:265, 299-300).
OwnFormatterKept ==
  \A a \in Appenders :
    /\ m_has_Formatter[a] <=> given[a] # null
    /\ m_has_Formatter[a] => ap_formatter[a] = given[a]

\* The lock a thread needs next, if any, is free.
CanGoOn(t) ==
  CASE frame[t].pc = "lock" -> Free(frame[t].on)
    [] frame[t].pc = "dump" -> frame[t].todo # {} => \E l \in frame[t].todo : Free(l)
    [] OTHER -> TRUE

\* While a call is under way some call can go on: a logger's lock is held while the root
\* logger's is waited for (logger.cpp:340), the manager's while those of loggers are
\* (logger.cpp:891), and no circle of threads comes to wait for each other.
NoDeadlock ==
  LET busy == {t \in Threads : frame[t].pc # "idle"}
  IN  busy # {} => \E t \in busy : CanGoOn(t)

\* Every call returns: the locks of the manager, of loggers and of the root logger are
\* taken in one order and all are released.
EveryCallReturns ==
  \A t \in Threads : frame[t].pc # "idle" ~> frame[t].pc = "idle"
==============================================================================
