------------------------------ MODULE LogConfig ------------------------------
(***************************************************************************)
(* The "logs" configuration (chord/logger.cpp): YAML is read into a set of *)
(* LogDefine by LexicalCast<std::string, std::set<LogDefine>>, and the     *)
(* change listener that LogIniter registers brings the loggers of the      *)
(* LoggerManager in line with it, one logger after the other in the order  *)
(* of names, while other code looks loggers up and sets formatters.        *)
(*                                                                         *)
(* std::set<LogDefine> is ordered by name alone: it is a function from     *)
(* names to definitions here.  A call through a null shared_ptr ends the   *)
(* process: "crashed".                                                     *)
(***************************************************************************)
EXTENDS Integers, Sequences, FiniteSets

CONSTANTS Names,    \* logger names; numbers, in the order of the strings
          root,     \* the name of the root logger
          Patterns, \* formatter patterns, the default one among them
          Default,  \* the pattern a Logger is constructed with
          Invalid,  \* the patterns LogFormatter rejects (isError)
          Words,    \* the strings a level or the type of an appender is written as
          Files,    \* the files an appender can write to
          none,     \* a key the YAML does not define; an empty string; a null pointer
          nontext,  \* the value of a key that is a list or a map where a text should be
          Docs      \* the YAML documents: sequences of nodes; one that is no sequence
                    \* has no elements, and reads as the empty one

\* What YAML nodes and their appenders hold, and a Logger and its appenders: an
\* appender whose formatter is its own does not follow the logger.
NoText == {none, nontext}
AppenderNode == [type : Words \cup NoText, file : Files \cup NoText, formatter : Patterns \cup NoText]
LogNode == [name : Names \cup NoText, level : Words \cup NoText, formatter : Patterns \cup NoText,
            appenders : Seq(AppenderNode)]
LogAppender == [type : 1 .. 2, level : Nat, file : Files \cup {none}, own : BOOLEAN, formatter : Patterns]
Logger == [level : Nat, formatter : Patterns, appenders : Seq(LogAppender)]

ASSUME LogConfigAssumption ==
  /\ Names \subseteq Nat /\ root \in Names
  /\ Default \in Patterns \ Invalid
  /\ {"FileLogAppender", "StdoutLogAppender"} \subseteq Words
  /\ NoText \cap Words = {} /\ NoText \cap (Names \cup Patterns \cup Files) = {}
  /\ none # nontext /\ none \notin Logger
  /\ Docs \subseteq Seq(LogNode)

VARIABLES
  logs,    \* m_val of g_log_defines: [a set of names -> definition]
  new,     \* new_value of the change being applied
  todo,    \* the names the loop at pc has not visited
  pc,      \* "idle"; in a round of the first loop, "apply", "formatter", "clear", "add";
           \* in one of the second, "remove", "strip"
  m_logger,\* [Names -> logger or none]: the LoggerManager's map
  event,   \* an event on its way: the logger it was logged to, where it ended, and
           \* (history) whether a change of the configuration ran since its level test
  ever,    \* history: the names a completed change has defined
  crashed

vars == <<logs, new, todo, pc, m_logger, event, ever, crashed>>

------------------------------------------------------------------------------
\* LogLevel::FromString: lower or upper case, anything else is UNKNOWN (0).
LevelNumber == [debug |-> 1, info |-> 2, warn |-> 3, error |-> 4, fatal |-> 5,
                DEBUG |-> 1, INFO |-> 2, WARN |-> 3, ERROR |-> 4, FATAL |-> 5]
FromString(str) == IF str \in DOMAIN LevelNumber THEN LevelNumber[str] ELSE 0

\* An appender node is skipped without a type, and a file appender without a file.
Kept(a) == a.type # none /\ (a.type = "FileLogAppender" => a.file # none)

\* as<std::string>() throws on a value that is no text: on the type, and for a file
\* appender on the file and then the formatter; other keys are not read.
AppenderThrows(a) ==
  \/ a.type = nontext
  \/ a.type = "FileLogAppender" /\ (a.file = nontext \/ (Kept(a) /\ a.formatter = nontext))

\* On the keys of a node, which are read only if it has a name.
NodeThrows(n) ==
  \/ n.name = nontext
  \/ n.name # none /\ (\/ n.level = nontext \/ n.formatter = nontext
                       \/ \E i \in DOMAIN n.appenders : AppenderThrows(n.appenders[i]))

\* A node or an appender that is a text throws like one whose name or type is no text.
CastThrows(doc) == \E i \in DOMAIN doc : NodeThrows(doc[i])

\* Its definition: the formatter is read for a file appender only, the level never,
\* and an unknown type is reported but stays in the list, as type 0.
LogAppenderDefine(a) ==
  [type      |-> CASE a.type = "FileLogAppender" -> 1 [] a.type = "StdoutLogAppender" -> 2 [] OTHER -> 0,
   level     |-> 0,
   file      |-> IF a.type = "FileLogAppender" THEN a.file ELSE none,
   formatter |-> IF a.type = "FileLogAppender" THEN a.formatter ELSE none]

\* The definitions of a list of appender nodes, in its order.
AppenderDefines(list) ==
  LET read[i \in 0 .. Len(list)] ==
        IF i = 0 THEN << >>
        ELSE IF Kept(list[i]) THEN Append(read[i - 1], LogAppenderDefine(list[i]))
        ELSE read[i - 1]
  IN read[Len(list)]

LogDefine(n) ==
  [level |-> FromString(n.level), formatter |-> n.formatter, appenders |-> AppenderDefines(n.appenders)]

\* The document as a set of definitions: a node without a name is skipped, and of
\* two with one name std::set::insert keeps the first.
Parse(doc) ==
  LET first(x) == CHOOSE i \in DOMAIN doc : doc[i].name = x /\ \A j \in 1 .. i - 1 : doc[j].name # x
  IN [x \in {doc[i].name : i \in DOMAIN doc} \ {none} |-> LogDefine(doc[first(x)])]

\* The elements of D, in their order.
InOrder(D) ==
  CHOOSE s \in [1 .. Cardinality(D) -> D] :
    /\ \A x \in D : \E i \in DOMAIN s : s[i] = x
    /\ \A i, j \in DOMAIN s : i < j => s[i] < s[j]

\* Mutant of Printed: appenders are printed without their formatter.
PrintedPlain(defs) ==
  LET names == InOrder(DOMAIN defs)
      type(a) == CASE a.type = 1 -> "FileLogAppender" [] a.type = 2 -> "StdoutLogAppender"
                   [] OTHER -> none
      appender(a) == [type |-> type(a), file |-> a.file, formatter |-> none]
      node(x) == [name |-> x, level |-> IF defs[x].level = 0 THEN "unknown" ELSE none,
                  formatter |-> defs[x].formatter,
                  appenders |-> [i \in DOMAIN defs[x].appenders |-> appender(defs[x].appenders[i])]]
  IN [i \in DOMAIN names |-> node(names[i])]

\* LexicalCast<std::set<LogDefine>, std::string>: the document toString() prints, in the
\* order of names.  The test of the level is the wrong way round: a level is printed
\* only if it is UNKNOWN.
Printed(defs) ==
  LET names == InOrder(DOMAIN defs)
      type(a) == CASE a.type = 1 -> "FileLogAppender" [] a.type = 2 -> "StdoutLogAppender"
                   [] OTHER -> none
      appender(a) == [type |-> type(a), file |-> a.file, formatter |-> a.formatter]
      node(x) == [name |-> x, level |-> IF defs[x].level = 0 THEN "unknown" ELSE none,
                  formatter |-> defs[x].formatter,
                  appenders |-> [i \in DOMAIN defs[x].appenders |-> appender(defs[x].appenders[i])]]
  IN [i \in DOMAIN names |-> node(names[i])]

------------------------------------------------------------------------------
\* Logger(name), as getLogger constructs it.
NewLogger == [level |-> 1, formatter |-> Default, appenders |-> << >>]

\* getLogger(name): the logger of that name, constructed if need be.
getLogger(x) == IF m_logger[x] = none THEN NewLogger ELSE m_logger[x]

\* Logger::setFormatter(string) on logger lg: an invalid pattern changes nothing;
\* appenders without a formatter of their own follow.
setFormatter(lg, pattern) ==
  IF pattern \in Invalid THEN lg
  ELSE [lg EXCEPT !.formatter = pattern,
                  !.appenders = [i \in DOMAIN @ |-> IF @[i].own THEN @[i]
                                                    ELSE [@[i] EXCEPT !.formatter = pattern]]]

\* The appender the listener makes of definition a for logger lg: a valid formatter
\* is its own, otherwise addAppender hands it the logger's.
Appender(lg, a) ==
  LET own == a.formatter # none /\ a.formatter \notin Invalid
  IN [type |-> a.type, level |-> a.level, file |-> a.file, own |-> own,
      formatter |-> IF own THEN a.formatter ELSE lg.formatter]

First(S) == CHOOSE x \in S : \A y \in S : x <= y

------------------------------------------------------------------------------
\* An event that is on its way meets a change of the configuration.
Disturb == event' = [event EXCEPT !.disturbed = TRUE]

\* The logger the loop is at, and its definition.
Current == First(todo)
Defined == new[Current]
Become(lg) == m_logger' = [m_logger EXCEPT ![Current] = lg]

\* fromString(doc), then setValue: a cast that throws (fromString catches it) and a
\* value equal to the old one change nothing.
load(doc) ==
  /\ pc = "idle" /\ ~crashed
  /\ ~CastThrows(doc) /\ Parse(doc) # logs
  /\ new' = Parse(doc)
  /\ todo' = DOMAIN new'
  /\ pc' = "apply"
  /\ Disturb
  /\ UNCHANGED <<logs, m_logger, ever, crashed>>

\* The listener's `logger` for definition x of new_value is a null pointer: x is
\* also in old_value and is equal.
LoggerIsNull(x) == x \in DOMAIN logs /\ logs[x] = new[x]

\* One round of the first loop: getLogger, setLevel.
apply ==
  /\ pc = "apply" /\ ~crashed /\ todo # {}
  /\ ~LoggerIsNull(Current)
  /\ Become([getLogger(Current) EXCEPT !.level = Defined.level])
  /\ pc' = "formatter"
  /\ UNCHANGED <<logs, new, todo, event, ever, crashed>>

\* setLevel through a null pointer.
applyCrashes ==
  /\ pc = "apply" /\ ~crashed /\ todo # {}
  /\ LoggerIsNull(Current)
  /\ crashed' = TRUE
  /\ UNCHANGED <<logs, new, todo, pc, m_logger, event, ever>>

\* setFormatter, if the definition has one.
applyFormatter ==
  /\ pc = "formatter" /\ ~crashed
  /\ Become(IF Defined.formatter = none THEN m_logger[Current]
            ELSE setFormatter(m_logger[Current], Defined.formatter))
  /\ pc' = "clear"
  /\ UNCHANGED <<logs, new, todo, event, ever, crashed>>

\* Mutant of applyClear: the old appenders stay.
applyNoClear ==
  /\ pc = "clear" /\ ~crashed
  /\ pc' = "add"
  /\ UNCHANGED <<logs, new, todo, m_logger, event, ever, crashed>>

\* clearAppenders
applyClear ==
  /\ pc = "clear" /\ ~crashed
  /\ Become([m_logger[Current] EXCEPT !.appenders = << >>])
  /\ pc' = "add"
  /\ UNCHANGED <<logs, new, todo, event, ever, crashed>>

\* The definition of the next appender; the logger has those before it.
Added == Len(m_logger[Current].appenders)
NextAppender == Defined.appenders[Added + 1]

\* addAppender of the next one.
applyAdd ==
  /\ pc = "add" /\ ~crashed /\ Added < Len(Defined.appenders)
  /\ NextAppender.type # 0
  /\ Become([m_logger[Current] EXCEPT !.appenders = Append(@, Appender(m_logger[Current], NextAppender))])
  /\ UNCHANGED <<logs, new, todo, pc, event, ever, crashed>>

\* ap->setLevel through a null pointer, because the type is neither 1 nor 2.
applyAddCrashes ==
  /\ pc = "add" /\ ~crashed /\ Added < Len(Defined.appenders)
  /\ NextAppender.type = 0
  /\ crashed' = TRUE
  /\ UNCHANGED <<logs, new, todo, pc, m_logger, event, ever>>

\* Mutant of applyNext: clearAppenders comes after the appenders are added.
applyNextClears ==
  /\ pc = "add" /\ ~crashed /\ Added = Len(Defined.appenders)
  /\ Become([m_logger[Current] EXCEPT !.appenders = << >>])
  /\ todo' = todo \ {Current}
  /\ pc' = "apply"
  /\ UNCHANGED <<logs, new, event, ever, crashed>>

\* The end of the round.
applyNext ==
  /\ pc = "add" /\ ~crashed /\ Added = Len(Defined.appenders)
  /\ todo' = todo \ {Current}
  /\ pc' = "apply"
  /\ UNCHANGED <<logs, new, m_logger, event, ever, crashed>>

\* Mutant of applyDone: the second loop is missing.
applyDoneOnly ==
  /\ pc = "apply" /\ ~crashed /\ todo = {}
  /\ pc' = "remove"
  /\ UNCHANGED <<logs, new, todo, m_logger, event, ever, crashed>>

\* The second loop: old_value without new_value.
applyDone ==
  /\ pc = "apply" /\ ~crashed /\ todo = {}
  /\ pc' = "remove"
  /\ todo' = DOMAIN logs \ DOMAIN new
  /\ UNCHANGED <<logs, new, m_logger, event, ever, crashed>>

\* One round of it: level 100 ("too high to log"),
remove ==
  /\ pc = "remove" /\ ~crashed /\ todo # {}
  /\ Become([getLogger(Current) EXCEPT !.level = 100])
  /\ pc' = "strip"
  /\ UNCHANGED <<logs, new, todo, event, ever, crashed>>

\* and clearAppenders.
removeStrip ==
  /\ pc = "strip" /\ ~crashed
  /\ Become([m_logger[Current] EXCEPT !.appenders = << >>])
  /\ todo' = todo \ {Current}
  /\ pc' = "remove"
  /\ UNCHANGED <<logs, new, event, ever, crashed>>

\* The listener returns and setValue assigns.
assign ==
  /\ pc = "remove" /\ ~crashed /\ todo = {}
  /\ logs' = new
  /\ ever' = ever \cup DOMAIN new
  /\ pc' = "idle"
  /\ UNCHANGED <<new, todo, m_logger, event, crashed>>

------------------------------------------------------------------------------
\* CHORD_LOG_NAME(x) in other code.
lookup(x) ==
  /\ ~crashed
  /\ m_logger[x] = none
  /\ m_logger' = [m_logger EXCEPT ![x] = getLogger(x)]
  /\ UNCHANGED <<logs, new, todo, pc, event, ever, crashed>>

\* Mutant of changeFormatter: the appenders do not follow.
changeFormatterOnly(x, pattern) ==
  /\ ~crashed
  /\ m_logger[x] # none /\ pattern \notin Invalid
  /\ m_logger' = [m_logger EXCEPT ![x].formatter = pattern]
  /\ UNCHANGED <<logs, new, todo, pc, event, ever, crashed>>

\* CHORD_LOG_NAME(x)->setFormatter(pattern) in other code.
changeFormatter(x, pattern) ==
  /\ ~crashed
  /\ m_logger[x] # none
  /\ m_logger' = [m_logger EXCEPT ![x] = setFormatter(@, pattern)]
  /\ UNCHANGED <<logs, new, todo, pc, event, ever, crashed>>

\* Logger::log of an event at FATAL to logger x in other code: the level test, without
\* a lock.
log(x) ==
  /\ ~crashed
  /\ event.on = none
  /\ m_logger[x] # none /\ m_logger[x].level <= LevelNumber.FATAL
  /\ event' = [on |-> x, to |-> none, disturbed |-> pc # "idle"]
  /\ UNCHANGED <<logs, new, todo, pc, m_logger, ever, crashed>>

\* Under the lock: the logger's appenders, or the root logger's if it has none.
logDeliver ==
  /\ ~crashed
  /\ event.on # none
  /\ event' = [event EXCEPT !.on = none,
       !.to = IF m_logger[event.on].appenders # << >> THEN event.on
              ELSE IF m_logger[root].level <= LevelNumber.FATAL /\ m_logger[root].appenders # << >>
              THEN root ELSE none]
  /\ UNCHANGED <<logs, new, todo, pc, m_logger, ever, crashed>>

------------------------------------------------------------------------------
\* The root logger with its console appender; no definitions.
Init ==
  /\ logs = << >> /\ new = << >> /\ todo = {} /\ pc = "idle"
  /\ m_logger = [x \in Names |-> IF x # root THEN none ELSE
       [NewLogger EXCEPT !.appenders =
          <<[type |-> 2, level |-> 1, file |-> none, own |-> FALSE, formatter |-> Default]>>]]
  /\ event = [on |-> none, to |-> none, disturbed |-> FALSE]
  /\ ever = {} /\ crashed = FALSE

Listener ==
  \/ apply \/ applyCrashes \/ applyFormatter \/ applyClear
  \/ applyAdd \/ applyAddCrashes \/ applyNext \/ applyDone
  \/ remove \/ removeStrip \/ assign

Next ==
  \/ \E doc \in Docs : load(doc)
  \/ Listener
  \/ \E x \in Names : lookup(x) \/ log(x) \/ \E p \in Patterns : changeFormatter(x, p)
  \/ logDeliver

\* The thread that loads the configuration goes on with it.
Spec == Init /\ [][Next]_vars /\ WF_vars(Listener)

------------------------------------------------------------------------------
\* The appenders of a logger are the ones its definition lists, in order.
Matches(lg, d) ==
  /\ lg.level = d.level
  /\ Len(lg.appenders) = Len(d.appenders)
  /\ \A i \in DOMAIN d.appenders :
       /\ lg.appenders[i].type = d.appenders[i].type
       /\ lg.appenders[i].file = d.appenders[i].file
       /\ lg.appenders[i].own => lg.appenders[i].formatter = d.appenders[i].formatter

\* After every change, every logger the configuration defines has the level and the
\* appenders it defines, whatever the configurations before it were.
ConfiguredAsDefined ==
  pc = "idle" /\ ~crashed =>
    \A x \in DOMAIN logs : m_logger[x] # none /\ Matches(m_logger[x], logs[x])

\* "delete logger", "too high to log" (logger.cpp:875-877): a logger that was defined
\* and no longer is logs nothing and holds no appenders.
RemovedIsSilent ==
  pc = "idle" /\ ~crashed =>
    \A x \in ever \ DOMAIN logs : m_logger[x].level = 100 /\ m_logger[x].appenders = << >>

\* "this appender still considers itself without a formatter" (logger.cpp:299-300): an
\* appender without one of its own always formats as its logger does.
FollowsLogger ==
  \A x \in Names : m_logger[x] # none =>
    \A i \in DOMAIN m_logger[x].appenders :
      m_logger[x].appenders[i].own \/ m_logger[x].appenders[i].formatter = m_logger[x].formatter

DeliveredToOwn ==
  event.on # none /\ event'.on = none /\ ~event.disturbed =>
    (event.on \in DOMAIN logs /\ logs[event.on].appenders # << >> => event'.to = event.on)

\* An event of a logger that the configuration gives appenders goes to them, and to the
\* root logger's only if a change of the configuration ran between its level test and
\* its delivery: a logger is without appenders during its round, and after it was removed.
EventsReachLogger == [][DeliveredToOwn]_vars

\* What toString() prints for the configuration in force reads back as the same loggers
\* with the same formatters and appenders; only the levels are lost.
DumpReadsBack ==
  LET back == Parse(Printed(logs))
  IN /\ DOMAIN back = DOMAIN logs
     /\ \A x \in DOMAIN logs :
          back[x].formatter = logs[x].formatter /\ back[x].appenders = logs[x].appenders

\* A definition that is the same in the old and the new value needs no modification
\* ("not equal: need to modify", logger.cpp:831): no change of the configuration ends
\* the process.
ReloadSurvives == ~crashed
==============================================================================
