--------------------------- MODULE LogConfigProofs ---------------------------
(***************************************************************************)
(* What a change of the "logs" configuration leaves behind, for every set  *)
(* of documents, names and patterns: the loops of the listener do what     *)
(* they are for, and the document toString() prints reads back.            *)
(***************************************************************************)
EXTENDS LogConfig, FiniteSetTheorems, SequenceTheorems, WellFoundedInduction, TLAPS

\* An appender as the cast reads it: only a file appender has a file and a formatter.
AppenderDef ==
  {a \in [type : 0 .. 2, level : {0}, file : Files \cup {none}, formatter : Patterns \cup {none}] :
     IF a.type = 1 THEN a.file # none ELSE a.file = none /\ a.formatter = none}
Definition == [level : Nat, formatter : Patterns \cup {none}, appenders : Seq(AppenderDef)]

\* A value of g_log_defines.
IsConfig(defs) ==
  /\ DOMAIN defs \subseteq Names /\ IsFiniteSet(DOMAIN defs)
  /\ defs \in [DOMAIN defs -> Definition]

\* Lines of the listener with a definition of new_value at hand, and with one that is gone.
AtNew == {"apply", "formatter", "clear", "add"}
AtOld == {"remove", "strip"}

TypeInv ==
  /\ IsConfig(logs) /\ IsConfig(new)
  /\ todo \subseteq Names
  /\ pc \in {"idle"} \cup AtNew \cup AtOld
  /\ m_logger \in [Names -> Logger \cup {none}]
  /\ event \in [on : Names \cup {none}, to : Names \cup {none}, disturbed : BOOLEAN]
  /\ ever \subseteq Names
  /\ crashed \in BOOLEAN

\* What the loops have left to visit.
TodoInv ==
  /\ pc \in AtNew => todo \subseteq DOMAIN new
  /\ pc \in AtOld => todo \subseteq DOMAIN logs \ DOMAIN new
  /\ pc \in {"formatter", "clear", "add", "strip"} => todo # {}

\* The first appenders of d are those of lg.
Starts(lg, d) ==
  /\ lg.level = d.level
  /\ Len(lg.appenders) <= Len(d.appenders)
  /\ \A i \in DOMAIN lg.appenders :
       /\ lg.appenders[i].type = d.appenders[i].type
       /\ lg.appenders[i].file = d.appenders[i].file
       /\ lg.appenders[i].own => lg.appenders[i].formatter = d.appenders[i].formatter

\* The loggers the first loop is done with, and the one its round is at.
Visited == IF pc \in AtOld THEN DOMAIN new ELSE DOMAIN new \ todo
VisitedInv ==
  pc # "idle" => \A x \in Visited : m_logger[x] # none /\ Matches(m_logger[x], new[x])
RoundInv ==
  /\ pc \in {"formatter", "clear", "add"} =>
       m_logger[Current] # none /\ m_logger[Current].level = Defined.level
  /\ pc = "add" => Starts(m_logger[Current], Defined)
  /\ pc = "strip" => m_logger[Current] # none /\ m_logger[Current].level = 100

\* Between changes the loggers are as defined.
IdleInv == pc = "idle" => \A x \in DOMAIN logs : m_logger[x] # none /\ Matches(m_logger[x], logs[x])

\* The loggers that are silenced: those removed before that the change at work does not
\* bring back, and those its second loop has visited.
Silent(lg) == lg # none /\ lg.level = 100 /\ lg.appenders = << >>
Removed ==
  {x \in ever \ DOMAIN logs : pc = "idle" \/ x \notin DOMAIN new}
    \cup (IF pc \in AtOld THEN (DOMAIN logs \ DOMAIN new) \ todo ELSE {})
SilentInv == \A x \in Removed : Silent(m_logger[x])

\* No appender of a type the listener does not know is ever in force.
KnownInv == \A x \in DOMAIN logs : \A i \in DOMAIN logs[x].appenders : logs[x].appenders[i].type # 0

EventInv == event.on # none /\ ~event.disturbed => pc = "idle"

IInv ==
  /\ TypeInv /\ TodoInv /\ VisitedInv /\ RoundInv /\ IdleInv
  /\ SilentInv /\ KnownInv /\ EventInv /\ FollowsLogger

------------------------------------------------------------------------------
(***************************************************************************)
(* Natural numbers, and the first element of a set of them.                *)
(***************************************************************************)
\* Induction, for the set of numbers that have a property.
LEMMA SetInduction ==
  ASSUME NEW S, 0 \in S, \A n \in Nat : n \in S => n + 1 \in S
  PROVE  Nat \subseteq S
<1> DEFINE R == OpToRel(<, Nat)
<1>1. IsWellFoundedOn(R, Nat)
  BY NatLessThanWellFounded
<1>2. \A a, b \in Nat : a < b => <<a, b>> \in R
  BY DEF OpToRel
<1> HIDE DEF R
<1>3. SUFFICES ASSUME Nat \ S # {} PROVE FALSE
  OBVIOUS
<1>4. PICK x \in Nat \ S : \A y \in Nat \ S : ~ (<<y, x>> \in R)
  BY <1>1, <1>3, WFMin
<1>5. x # 0 /\ x - 1 \in Nat /\ x - 1 < x
  BY <1>4
<1>6. x - 1 \in S
  BY <1>2, <1>4, <1>5
<1>7. QED
  BY <1>4, <1>5, <1>6

\* The name a loop visits next exists while there is one to visit.
LEMMA FirstIsLeast ==
  ASSUME NEW S \in SUBSET Nat, S # {}
  PROVE  First(S) \in S /\ \A y \in S : First(S) <= y
<1> DEFINE R == OpToRel(<, Nat)
<1>1. IsWellFoundedOn(R, Nat)
  BY NatLessThanWellFounded
<1>2. \A a, b \in Nat : a < b => <<a, b>> \in R
  BY DEF OpToRel
<1> HIDE DEF R
<1>3. PICK x \in S : \A y \in S : ~ (<<y, x>> \in R)
  BY <1>1, WFMin
<1>4. ASSUME NEW y \in S PROVE x <= y
  <2>1. x \in Nat /\ y \in Nat /\ ~ (y < x)
    BY <1>2, <1>3
  <2>2. QED
    BY <2>1
<1>5. QED
  BY <1>3, <1>4 DEF First

(***************************************************************************)
(* The list of appenders as the cast reads it.                             *)
(***************************************************************************)
\* What reading `list` is after i nodes, given what f says it is after i - 1.
ReadStep(list, f, i) ==
  IF i = 0 THEN << >>
  ELSE IF Kept(list[i]) THEN Append(f[i - 1], LogAppenderDefine(list[i]))
  ELSE f[i - 1]

\* There is a function that reads it.
LEMMA ReadExists ==
  ASSUME NEW list
  PROVE  \A n \in Nat : \E f : f = [i \in 0 .. n |-> ReadStep(list, f, i)]
<1> DEFINE S == {n \in Nat : \E f : f = [i \in 0 .. n |-> ReadStep(list, f, i)]}
<1>1. 0 \in S
  <2> DEFINE f == [i \in 0 .. 0 |-> << >>]
  <2>1. f = [i \in 0 .. 0 |-> ReadStep(list, f, i)]
    BY DEF ReadStep
  <2>2. QED
    BY <2>1
<1>2. ASSUME NEW n \in Nat, n \in S PROVE n + 1 \in S
  <2>1. PICK f : f = [i \in 0 .. n |-> ReadStep(list, f, i)]
    BY <1>2
  <2> DEFINE g == [i \in 0 .. n + 1 |-> IF i = n + 1 THEN ReadStep(list, f, i) ELSE f[i]]
  <2>2. ASSUME NEW i \in 0 .. n + 1 PROVE ReadStep(list, g, i) = ReadStep(list, f, i)
    <3>1. i # 0 => i - 1 \in 0 .. n /\ i - 1 \in 0 .. n + 1 /\ i - 1 # n + 1
      BY <1>2
    <3>2. i # 0 => g[i - 1] = f[i - 1]
      BY <3>1
    <3> HIDE DEF g
    <3>3. QED
      BY <3>2 DEF ReadStep
  <2>3. ASSUME NEW i \in 0 .. n + 1 PROVE g[i] = ReadStep(list, f, i)
    <3>1. i # n + 1 => i \in 0 .. n
      BY <1>2
    <3>2. QED
      BY <2>1, <3>1
  <2>4. g = [i \in 0 .. n + 1 |-> g[i]]
    OBVIOUS
  <2> HIDE DEF g
  <2>5. g = [i \in 0 .. n + 1 |-> ReadStep(list, g, i)]
    BY <2>2, <2>3, <2>4
  <2>6. QED
    BY <2>5
<1> HIDE DEF S
<1>3. Nat \subseteq S
  BY <1>1, <1>2, SetInduction
<1>4. QED
  BY <1>3 DEF S

\* So AppenderDefines reads it.
LEMMA ReadDef ==
  ASSUME NEW T, NEW list \in Seq(T)
  PROVE  \E f : /\ \A i \in 0 .. Len(list) : f[i] = ReadStep(list, f, i)
                /\ AppenderDefines(list) = f[Len(list)]
<1> DEFINE IsRead(f) == f = [i \in 0 .. Len(list) |-> ReadStep(list, f, i)]
           f == CHOOSE f : IsRead(f)
<1>1. Len(list) \in Nat
  OBVIOUS
<1>2. \E h : IsRead(h)
  BY <1>1, ReadExists
<1>3. IsRead(f)
  BY <1>2
<1>4. AppenderDefines(list) = f[Len(list)]
  BY DEF AppenderDefines, ReadStep
<1> HIDE DEF f
<1>5. \A i \in 0 .. Len(list) : f[i] = ReadStep(list, f, i)
  BY <1>3
<1>6. QED
  BY <1>4, <1>5

\* What it reads of a node is a definition of an appender.
LEMMA DefineType ==
  ASSUME NEW a \in AppenderNode, Kept(a), ~AppenderThrows(a)
  PROVE  LogAppenderDefine(a) \in AppenderDef
<1>1. a.type = "FileLogAppender" => a.file \in Files \cup {none} /\ a.formatter \in Patterns \cup {none}
  BY DEF AppenderNode, AppenderThrows, NoText
<1>2. CASE a.type = "FileLogAppender"
  <2>1. a.file # none
    BY <1>2 DEF Kept
  <2>2. LogAppenderDefine(a) = [type |-> 1, level |-> 0, file |-> a.file, formatter |-> a.formatter]
    BY <1>2 DEF LogAppenderDefine
  <2>3. QED
    BY <1>1, <1>2, <2>1, <2>2 DEF AppenderDef
<1>3. CASE a.type # "FileLogAppender"
  <2>1. \E k \in {0, 2} : LogAppenderDefine(a) = [type |-> k, level |-> 0, file |-> none, formatter |-> none]
    BY <1>3 DEF LogAppenderDefine
  <2>2. QED
    BY <2>1 DEF AppenderDef
<1>4. QED
  BY <1>2, <1>3

LEMMA DefinesType ==
  ASSUME NEW list \in Seq(AppenderNode), \A i \in DOMAIN list : ~AppenderThrows(list[i])
  PROVE  AppenderDefines(list) \in Seq(AppenderDef)
<1>1. PICK f : /\ \A i \in 0 .. Len(list) : f[i] = ReadStep(list, f, i)
               /\ AppenderDefines(list) = f[Len(list)]
  BY ReadDef
<1>2. Len(list) \in Nat
  OBVIOUS
<1> DEFINE S == {n \in Nat : n <= Len(list) => f[n] \in Seq(AppenderDef)}
<1>3. 0 \in S
  <2>1. f[0] = << >>
    BY <1>1, <1>2 DEF ReadStep
  <2>2. QED
    BY <2>1, EmptySeq
<1>4. ASSUME NEW n \in Nat, n \in S PROVE n + 1 \in S
  <2>1. SUFFICES ASSUME n + 1 <= Len(list) PROVE f[n + 1] \in Seq(AppenderDef)
    OBVIOUS
  <2>2. n + 1 \in 0 .. Len(list) /\ n + 1 # 0 /\ (n + 1) - 1 = n /\ n + 1 \in DOMAIN list
    BY <1>2, <2>1
  <2>3. f[n] \in Seq(AppenderDef)
    BY <1>2, <1>4, <2>1
  <2>4. list[n + 1] \in AppenderNode
    BY <2>2, ElementOfSeq
  <2>5. f[n + 1] = IF Kept(list[n + 1]) THEN Append(f[n], LogAppenderDefine(list[n + 1])) ELSE f[n]
    BY <1>1, <2>2 DEF ReadStep
  <2>6. Kept(list[n + 1]) => Append(f[n], LogAppenderDefine(list[n + 1])) \in Seq(AppenderDef)
    BY <2>2, <2>3, <2>4, DefineType
  <2>7. QED
    BY <2>3, <2>5, <2>6
<1> HIDE DEF S
<1>5. Len(list) \in S
  BY <1>2, <1>3, <1>4, SetInduction
<1>6. QED
  BY <1>1, <1>2, <1>5 DEF S

\* Every document for which the cast does not throw is read as a value of g_log_defines.
FirstNode(doc, x) == CHOOSE i \in DOMAIN doc : doc[i].name = x /\ \A j \in 1 .. i - 1 : doc[j].name # x

LEMMA ParseDef ==
  ASSUME NEW doc
  PROVE  Parse(doc) = [x \in {doc[i].name : i \in DOMAIN doc} \ {none} |-> LogDefine(doc[FirstNode(doc, x)])]
BY DEF Parse, FirstNode

LEMMA FirstNodeIs ==
  ASSUME NEW doc, NEW n \in Nat, DOMAIN doc = 1 .. n, NEW x, \E i \in DOMAIN doc : doc[i].name = x
  PROVE  FirstNode(doc, x) \in DOMAIN doc /\ doc[FirstNode(doc, x)].name = x
<1> DEFINE S == {i \in DOMAIN doc : doc[i].name = x}
<1>1. S \in SUBSET Nat /\ S # {}
  OBVIOUS
<1>2. First(S) \in S /\ \A y \in S : First(S) <= y
  BY <1>1, FirstIsLeast
<1> DEFINE m == First(S)
<1>3. m \in DOMAIN doc /\ doc[m].name = x
  BY <1>2
<1>4. ASSUME NEW j \in 1 .. m - 1 PROVE doc[j].name # x
  <2>1. m \in Nat /\ j \in DOMAIN doc /\ ~ (m <= j)
    BY <1>1, <1>3
  <2>2. j \notin S
    BY <1>2, <2>1
  <2>3. QED
    BY <2>1, <2>2
<1> HIDE DEF m
<1>5. QED
  BY <1>3, <1>4 DEF FirstNode

LEMMA ParseType ==
  ASSUME NEW doc \in Seq(LogNode), ~CastThrows(doc)
  PROVE  IsConfig(Parse(doc))
<1> DEFINE D == {doc[i].name : i \in DOMAIN doc} \ {none}
<1>1. DOMAIN doc = 1 .. Len(doc) /\ Len(doc) \in Nat
  OBVIOUS
<1>2. \A i \in DOMAIN doc : doc[i] \in LogNode /\ ~NodeThrows(doc[i])
  BY ElementOfSeq DEF CastThrows
<1>3. D \subseteq Names
  <2>1. \A i \in DOMAIN doc : doc[i].name \in Names \cup {none}
    BY <1>2 DEF LogNode, NodeThrows, NoText
  <2>2. QED
    BY <2>1
<1>4. IsFiniteSet(D)
  <2>1. IsFiniteSet(DOMAIN doc)
    BY <1>1, FS_Interval
  <2> DEFINE named == {doc[i].name : i \in DOMAIN doc}
             f == [i \in DOMAIN doc |-> doc[i].name]
  <2>2. f \in Surjection(DOMAIN doc, named)
    BY DEF Surjection
  <2> HIDE DEF f, named
  <2>3. IsFiniteSet(named)
    BY <2>1, <2>2, FS_Surjection
  <2>4. QED
    BY <2>3, FS_Subset DEF named
<1>5. ASSUME NEW n \in LogNode, ~NodeThrows(n), n.name # none PROVE LogDefine(n) \in Definition
  <2>1. FromString(n.level) \in Nat
    BY DEF FromString, LevelNumber
  <2>2. n.formatter \in Patterns \cup {none} /\ n.appenders \in Seq(AppenderNode)
    BY <1>5 DEF LogNode, NodeThrows, NoText
  <2>3. AppenderDefines(n.appenders) \in Seq(AppenderDef)
    BY <1>5, <2>2, DefinesType DEF NodeThrows
  <2>4. QED
    BY <2>1, <2>2, <2>3 DEF LogDefine, Definition
<1>6. ASSUME NEW x \in D PROVE LogDefine(doc[FirstNode(doc, x)]) \in Definition
  BY <1>1, <1>2, <1>5, FirstNodeIs
<1> HIDE DEF D
<1>7. Parse(doc) = [x \in D |-> LogDefine(doc[FirstNode(doc, x)])]
  BY ParseDef DEF D
<1>8. DOMAIN Parse(doc) = D /\ Parse(doc) \in [D -> Definition]
  BY <1>6, <1>7
<1>9. QED
  BY <1>3, <1>4, <1>8 DEF IsConfig

------------------------------------------------------------------------------
(***************************************************************************)
(* The operations on a logger.                                             *)
(***************************************************************************)
Follows(lg) ==
  \A i \in DOMAIN lg.appenders : lg.appenders[i].own \/ lg.appenders[i].formatter = lg.formatter

LEMMA LoggerType ==
  ASSUME NEW lg \in Logger
  PROVE  /\ lg.level \in Nat /\ lg.formatter \in Patterns /\ lg.appenders \in Seq(LogAppender)
         /\ Len(lg.appenders) \in Nat /\ DOMAIN lg.appenders = 1 .. Len(lg.appenders)
         /\ \A i \in DOMAIN lg.appenders : lg.appenders[i] \in LogAppender
BY DEF Logger

\* A new one.
LEMMA NewType == NewLogger \in Logger /\ Follows(NewLogger) /\ NewLogger.appenders = << >>
<1>1. << >> \in Seq(LogAppender) /\ Default \in Patterns
  BY LogConfigAssumption, EmptySeq
<1>2. QED
  BY <1>1 DEF NewLogger, Logger, Follows

\* setLevel and clearAppenders.
LEMMA SetLevel ==
  ASSUME NEW lg \in Logger, NEW v \in Nat
  PROVE  LET new_lg == [lg EXCEPT !.level = v]
         IN /\ new_lg \in Logger /\ new_lg.level = v /\ new_lg.appenders = lg.appenders
            /\ Follows(lg) => Follows(new_lg)
BY DEF Logger, Follows

LEMMA Clear ==
  ASSUME NEW lg \in Logger
  PROVE  LET new_lg == [lg EXCEPT !.appenders = << >>]
         IN /\ new_lg \in Logger /\ new_lg.level = lg.level /\ new_lg.appenders = << >>
            /\ Follows(new_lg)
<1>1. << >> \in Seq(LogAppender) /\ DOMAIN << >> = {}
  BY EmptySeq
<1> DEFINE new_lg == [lg EXCEPT !.appenders = << >>]
<1>2. new_lg \in Logger /\ new_lg.level = lg.level /\ new_lg.appenders = << >>
  BY <1>1 DEF Logger
<1> HIDE DEF new_lg
<1>3. Follows(new_lg)
  BY <1>1, <1>2 DEF Follows
<1>4. QED
  BY <1>2, <1>3 DEF new_lg

\* What setFormatter leaves alone: everything but the formatters of the logger and of
\* the appenders that follow it.
Alike(lg, other) ==
  /\ other.level = lg.level /\ Len(other.appenders) = Len(lg.appenders)
  /\ \A i \in DOMAIN lg.appenders :
       /\ other.appenders[i].type = lg.appenders[i].type
       /\ other.appenders[i].file = lg.appenders[i].file
       /\ other.appenders[i].own = lg.appenders[i].own
       /\ lg.appenders[i].own => other.appenders[i].formatter = lg.appenders[i].formatter

LEMMA SetFormatter ==
  ASSUME NEW lg \in Logger, NEW p \in Patterns
  PROVE  /\ setFormatter(lg, p) \in Logger /\ Alike(lg, setFormatter(lg, p))
         /\ Follows(lg) => Follows(setFormatter(lg, p))
<1>1. CASE p \in Invalid
  BY <1>1 DEF setFormatter, Alike
<1>2. CASE p \notin Invalid
  <2> DEFINE list == lg.appenders
             change(a) == IF a.own THEN a ELSE [a EXCEPT !.formatter = p]
             other == [i \in DOMAIN list |-> change(list[i])]
  <2>1. list \in Seq(LogAppender) /\ Len(list) \in Nat /\ DOMAIN list = 1 .. Len(list)
        /\ \A i \in DOMAIN list : list[i] \in LogAppender
    BY LoggerType
  <2>2. ASSUME NEW a \in LogAppender
        PROVE  /\ change(a) \in LogAppender
               /\ change(a).type = a.type /\ change(a).file = a.file /\ change(a).own = a.own
               /\ IF a.own THEN change(a).formatter = a.formatter ELSE change(a).formatter = p
    BY DEF LogAppender
  <2>3. other \in Seq(LogAppender) /\ Len(other) = Len(list) /\ DOMAIN other = DOMAIN list
    <3>1. \A i \in 1 .. Len(list) : change(list[i]) \in LogAppender
      BY <2>1, <2>2
    <3> HIDE DEF change, list
    <3>2. [i \in 1 .. Len(list) |-> change(list[i])] \in Seq(LogAppender)
      BY <2>1, <3>1, IsASeq
    <3>3. QED
      BY <2>1, <3>2
  <2>4. \A i \in DOMAIN list : other[i] = change(list[i])
    OBVIOUS
  <2>5. setFormatter(lg, p) = [lg EXCEPT !.formatter = p, !.appenders = other]
    BY <1>2 DEF setFormatter
  <2> HIDE DEF change, other
  <2>6. setFormatter(lg, p) \in Logger /\ setFormatter(lg, p).appenders = other
        /\ setFormatter(lg, p).formatter = p /\ setFormatter(lg, p).level = lg.level
    BY <2>3, <2>5 DEF Logger
  <2>7. Alike(lg, setFormatter(lg, p))
    BY <2>1, <2>2, <2>3, <2>4, <2>6 DEF Alike
  <2>8. Follows(setFormatter(lg, p))
    BY <2>1, <2>2, <2>3, <2>4, <2>6 DEF Follows
  <2>9. QED
    BY <2>6, <2>7, <2>8
<1>3. QED
  BY <1>1, <1>2

LEMMA AlikeKeeps ==
  ASSUME NEW lg \in Logger, NEW other \in Logger, Alike(lg, other), NEW d \in Definition
  PROVE  /\ Matches(lg, d) => Matches(other, d)
         /\ Starts(lg, d) => Starts(other, d)
         /\ Silent(lg) => Silent(other)
         /\ lg.appenders = << >> <=> other.appenders = << >>
<1>1. /\ DOMAIN lg.appenders = 1 .. Len(lg.appenders) /\ DOMAIN other.appenders = 1 .. Len(other.appenders)
      /\ Len(lg.appenders) = Len(other.appenders) /\ Len(lg.appenders) \in Nat
      /\ DOMAIN d.appenders = 1 .. Len(d.appenders)
  BY LoggerType DEF Alike, Definition
<1>2. Matches(lg, d) => Matches(other, d)
  BY <1>1 DEF Matches, Alike
<1>3. Starts(lg, d) => Starts(other, d)
  BY <1>1 DEF Starts, Alike
<1>4. lg.appenders = << >> <=> other.appenders = << >>
  BY <1>1, LoggerType, EmptySeq
<1>5. other # none
  BY LogConfigAssumption
<1>6. QED
  BY <1>2, <1>3, <1>4, <1>5 DEF Silent, Alike

\* The appender the listener makes, and addAppender.
LEMMA AppenderType ==
  ASSUME NEW lg \in Logger, NEW a \in AppenderDef, a.type # 0
  PROVE  LET ap == Appender(lg, a)
         IN /\ ap \in LogAppender /\ ap.type = a.type /\ ap.file = a.file
            /\ IF ap.own THEN ap.formatter = a.formatter ELSE ap.formatter = lg.formatter
<1>1. a.type \in 1 .. 2 /\ a.level \in Nat /\ a.file \in Files \cup {none}
      /\ a.formatter \in Patterns \cup {none}
  BY DEF AppenderDef
<1>2. lg.formatter \in Patterns
  BY DEF Logger
<1>3. QED
  BY <1>1, <1>2 DEF Appender, LogAppender

LEMMA AddAppender ==
  ASSUME NEW lg \in Logger, NEW d \in Definition, Starts(lg, d), Follows(lg),
         Len(lg.appenders) < Len(d.appenders),
         d.appenders[Len(lg.appenders) + 1].type # 0
  PROVE  LET a == d.appenders[Len(lg.appenders) + 1]
             new_lg == [lg EXCEPT !.appenders = Append(@, Appender(lg, a))]
         IN new_lg \in Logger /\ new_lg.level = lg.level /\ Starts(new_lg, d) /\ Follows(new_lg)
<1> DEFINE list == lg.appenders
           k == Len(list)
           a == d.appenders[k + 1]
           ap == Appender(lg, a)
           new_lg == [lg EXCEPT !.appenders = Append(list, ap)]
<1>1. /\ list \in Seq(LogAppender) /\ k \in Nat /\ DOMAIN list = 1 .. k
      /\ d.appenders \in Seq(AppenderDef) /\ Len(d.appenders) \in Nat
      /\ DOMAIN d.appenders = 1 .. Len(d.appenders)
  BY LoggerType DEF Definition
<1>2. k + 1 \in 1 .. Len(d.appenders)
  BY <1>1
<1>3. a \in AppenderDef /\ a.type # 0
  BY <1>1, <1>2, ElementOfSeq
<1>4. /\ ap \in LogAppender /\ ap.type = a.type /\ ap.file = a.file
      /\ IF ap.own THEN ap.formatter = a.formatter ELSE ap.formatter = lg.formatter
  BY <1>3, AppenderType
<1> HIDE DEF ap
<1>5. /\ Append(list, ap) \in Seq(LogAppender) /\ Len(Append(list, ap)) = k + 1
      /\ DOMAIN Append(list, ap) = 1 .. k + 1
      /\ Append(list, ap)[k + 1] = ap
      /\ \A i \in 1 .. k : Append(list, ap)[i] = list[i]
  BY <1>1, <1>4
<1>6. /\ new_lg \in Logger /\ new_lg.level = lg.level /\ new_lg.formatter = lg.formatter
      /\ new_lg.appenders = Append(list, ap)
  BY <1>5 DEF Logger
<1> HIDE DEF new_lg
<1>7. Starts(new_lg, d)
  BY <1>1, <1>2, <1>4, <1>5, <1>6 DEF Starts
<1>8. Follows(new_lg)
  BY <1>1, <1>4, <1>5, <1>6 DEF Follows
<1>9. QED
  BY <1>6, <1>7, <1>8 DEF new_lg, ap

\* A round adds all of them.
LEMMA AllAdded ==
  ASSUME NEW lg \in Logger, NEW d \in Definition, Starts(lg, d), Len(lg.appenders) = Len(d.appenders)
  PROVE  Matches(lg, d)
<1>1. DOMAIN lg.appenders = DOMAIN d.appenders
  BY LoggerType DEF Definition
<1>2. QED
  BY <1>1 DEF Starts, Matches

------------------------------------------------------------------------------
(***************************************************************************)
(* The invariant.                                                          *)
(***************************************************************************)
\* A round of either loop is about a name of its own.
LEMMA RoundOf ==
  ASSUME IInv, pc \in AtNew \cup AtOld, todo # {}
  PROVE  /\ Current \in todo /\ Current \in Names /\ Current \notin Removed
         /\ pc \in AtNew => Current \in DOMAIN new /\ Defined \in Definition /\ Current \notin Visited
         /\ pc \in AtOld => Current \in DOMAIN logs \ DOMAIN new /\ Current \notin Visited
<1>1. todo \subseteq Names /\ Names \subseteq Nat
  BY LogConfigAssumption DEF IInv, TypeInv
<1>2. Current \in todo
  BY <1>1, FirstIsLeast DEF Current
<1>3. pc \in AtNew => Current \in DOMAIN new
  BY <1>2 DEF IInv, TodoInv
<1>4. pc \in AtOld => Current \in DOMAIN logs \ DOMAIN new
  BY <1>2 DEF IInv, TodoInv
<1>5. pc \in AtNew => Defined \in Definition
  BY <1>3 DEF IInv, TypeInv, IsConfig, Defined
<1>6. pc # "idle" /\ ~ (pc \in AtNew /\ pc \in AtOld)
  BY DEF AtNew, AtOld
<1>7. Current \notin Visited /\ Current \notin Removed
  BY <1>2, <1>3, <1>4, <1>6 DEF Visited, Removed
<1>8. QED
  BY <1>1, <1>2, <1>3, <1>4, <1>5, <1>7

\* What a round does to its logger leaves the others as they are.
LEMMA BecomeKeeps ==
  ASSUME IInv, pc \in AtNew \cup AtOld, todo # {}, NEW lg \in Logger, Follows(lg), Become(lg)
  PROVE  /\ m_logger' \in [Names -> Logger \cup {none}]
         /\ m_logger'[Current] = lg
         /\ \A x \in Names \ {Current} : m_logger'[x] = m_logger[x]
         /\ \A x \in Visited : m_logger'[x] # none /\ Matches(m_logger'[x], new[x])
         /\ \A x \in Removed : Silent(m_logger'[x])
         /\ FollowsLogger'
<1>1. Current \in Names /\ Current \notin Visited /\ Current \notin Removed
  BY RoundOf
<1>2. m_logger \in [Names -> Logger \cup {none}]
  BY DEF IInv, TypeInv
<1>3. /\ m_logger' \in [Names -> Logger \cup {none}] /\ m_logger'[Current] = lg
      /\ \A x \in Names \ {Current} : m_logger'[x] = m_logger[x]
  BY <1>1, <1>2 DEF Become
<1>4. Visited \subseteq Names /\ Removed \subseteq Names
  BY DEF IInv, TypeInv, IsConfig, Visited, Removed
<1>5. \A x \in Visited : m_logger'[x] # none /\ Matches(m_logger'[x], new[x])
  <2>1. pc # "idle"
    BY DEF AtNew, AtOld
  <2>2. QED
    BY <1>1, <1>3, <1>4, <2>1 DEF IInv, VisitedInv
<1>6. \A x \in Removed : Silent(m_logger'[x])
  BY <1>1, <1>3, <1>4 DEF IInv, SilentInv
<1>7. FollowsLogger'
  BY <1>1, <1>3 DEF IInv, FollowsLogger, Follows
<1>8. QED
  BY <1>3, <1>5, <1>6, <1>7

\* The logger a round works on is there.
LEMMA CurrentType ==
  ASSUME IInv, pc \in {"formatter", "clear", "add", "strip"}
  PROVE  m_logger[Current] \in Logger /\ Follows(m_logger[Current])
<1>1. pc \in AtNew \cup AtOld /\ todo # {}
  BY DEF IInv, TodoInv, AtNew, AtOld
<1>2. Current \in Names
  BY <1>1, RoundOf
<1>3. m_logger[Current] # none
  BY DEF IInv, RoundInv
<1>4. QED
  BY <1>2, <1>3 DEF IInv, TypeInv, FollowsLogger, Follows

LEMMA GetType ==
  ASSUME IInv, NEW x \in Names
  PROVE  getLogger(x) \in Logger /\ Follows(getLogger(x))
BY NewType DEF getLogger, IInv, TypeInv, FollowsLogger, Follows

\* The initial state: nothing defined, the root logger with an appender that follows it.
LEMMA ConfigInit == Init => IInv
<1> SUFFICES ASSUME Init PROVE IInv
  OBVIOUS
<1> DEFINE console == [type |-> 2, level |-> 1, file |-> none, own |-> FALSE, formatter |-> Default]
           rootLogger == [NewLogger EXCEPT !.appenders = <<console>>]
<1>1. console \in LogAppender
  BY LogConfigAssumption DEF LogAppender
<1>2. <<console>> \in Seq(LogAppender) /\ DOMAIN <<console>> = {1} /\ <<console>>[1] = console
  BY <1>1
<1>3. /\ rootLogger \in Logger /\ rootLogger.appenders = <<console>>
      /\ rootLogger.formatter = Default
  BY <1>2, NewType DEF Logger, NewLogger
<1>4. Follows(rootLogger)
  BY <1>2, <1>3 DEF Follows
<1> HIDE DEF rootLogger
<1>5. m_logger = [x \in Names |-> IF x # root THEN none ELSE rootLogger]
  BY DEF Init, rootLogger
<1>6. DOMAIN logs = {} /\ DOMAIN new = {} /\ pc = "idle" /\ todo = {} /\ ever = {}
  BY DEF Init
<1>7. IsConfig(logs) /\ IsConfig(new)
  <2>1. logs \in [DOMAIN logs -> Definition] /\ new \in [DOMAIN new -> Definition]
    BY <1>6 DEF Init
  <2>2. QED
    BY <1>6, <2>1, FS_EmptySet DEF IsConfig
<1>8. TypeInv
  BY <1>3, <1>5, <1>6, <1>7 DEF Init, TypeInv
<1>9. TodoInv /\ VisitedInv /\ RoundInv /\ IdleInv /\ KnownInv
  BY <1>6 DEF TodoInv, VisitedInv, RoundInv, IdleInv, KnownInv, AtNew, AtOld
<1>10. SilentInv /\ EventInv
  BY <1>6 DEF Init, SilentInv, Removed, EventInv, AtOld
<1>11. FollowsLogger
  BY <1>4, <1>5 DEF FollowsLogger, Follows
<1>12. QED
  BY <1>8, <1>9, <1>10, <1>11 DEF IInv

\* A change is read.
LEMMA LoadStep ==
  ASSUME IInv, NEW doc \in Docs, load(doc)
  PROVE  IInv'
<1>1. IsConfig(new')
  BY LogConfigAssumption, ParseType DEF load
<1>2. /\ pc = "idle" /\ pc' = "apply" /\ todo' = DOMAIN new' /\ event' = [event EXCEPT !.disturbed = TRUE]
      /\ logs' = logs /\ m_logger' = m_logger /\ ever' = ever /\ crashed' = crashed
  BY DEF load, Disturb
<1>3. TypeInv'
  BY <1>1, <1>2 DEF IInv, TypeInv, AtNew, IsConfig
<1>4. TodoInv' /\ VisitedInv' /\ RoundInv' /\ IdleInv' /\ KnownInv'
  BY <1>2 DEF IInv, TodoInv, VisitedInv, Visited, RoundInv, IdleInv, KnownInv, AtNew, AtOld
<1>5. SilentInv'
  BY <1>2 DEF IInv, SilentInv, Removed, AtOld
<1>6. EventInv'
  BY <1>2 DEF IInv, TypeInv, EventInv
<1>7. FollowsLogger'
  BY <1>2 DEF IInv, FollowsLogger
<1>8. QED
  BY <1>3, <1>4, <1>5, <1>6, <1>7 DEF IInv

\* setLevel through a null pointer, or through that of an appender: nothing else happens.
LEMMA CrashStep ==
  ASSUME IInv, applyCrashes \/ applyAddCrashes
  PROVE  IInv'
<1>1. crashed' = TRUE /\ UNCHANGED <<logs, new, todo, pc, m_logger, event, ever>>
  BY DEF applyCrashes, applyAddCrashes
<1>2. TypeInv'
  BY <1>1 DEF IInv, TypeInv, IsConfig
<1>3. TodoInv' /\ VisitedInv' /\ RoundInv' /\ IdleInv' /\ KnownInv'
  BY <1>1 DEF IInv, TodoInv, VisitedInv, Visited, RoundInv, IdleInv, KnownInv, Current, Defined, Matches
<1>4. SilentInv' /\ EventInv' /\ FollowsLogger'
  BY <1>1 DEF IInv, SilentInv, Removed, EventInv, FollowsLogger
<1>5. QED
  BY <1>2, <1>3, <1>4 DEF IInv

\* A step inside a round: it leaves logger lg to the name, and the loop where it is.
LEMMA RoundStep ==
  ASSUME IInv, pc \in AtNew \cup AtOld, todo # {}, NEW lg \in Logger, Follows(lg), Become(lg),
         UNCHANGED <<logs, new, todo, event, ever, crashed>>,
         pc' \in AtNew \cup AtOld, pc \in AtNew <=> pc' \in AtNew,
         pc' \in {"formatter", "clear", "add"} => lg.level = Defined.level,
         pc' = "add" => Starts(lg, Defined),
         pc' = "strip" => lg.level = 100
  PROVE  IInv'
<1>1. /\ m_logger' \in [Names -> Logger \cup {none}]
      /\ m_logger'[Current] = lg
      /\ \A x \in Visited : m_logger'[x] # none /\ Matches(m_logger'[x], new[x])
      /\ \A x \in Removed : Silent(m_logger'[x])
      /\ FollowsLogger'
  BY BecomeKeeps
<1>2. lg # none
  BY LogConfigAssumption
<1>3. pc # "idle" /\ pc' # "idle" /\ (pc \in AtOld <=> pc' \in AtOld)
  BY DEF AtNew, AtOld
<1>4. TypeInv'
  BY <1>1 DEF IInv, TypeInv, IsConfig
<1>5. TodoInv'
  BY <1>3 DEF IInv, TodoInv
<1>6. Visited' = Visited /\ Removed' = Removed
  BY <1>3 DEF Visited, Removed
<1>7. VisitedInv' /\ SilentInv'
  <2>1. new' = new
    OBVIOUS
  <2>2. VisitedInv'
    BY <1>1, <1>6, <2>1 DEF VisitedInv, Matches
  <2>3. SilentInv'
    BY <1>1, <1>6 DEF SilentInv, Silent
  <2>4. QED
    BY <2>2, <2>3
<1>8. RoundInv'
  <2>1. Current' = Current /\ Defined' = Defined
    BY DEF Current, Defined
  <2>2. m_logger'[Current'] = lg
    BY <1>1, <2>1
  <2>3. QED
    BY <1>2, <2>1, <2>2 DEF RoundInv, Starts
<1>9. IdleInv' /\ KnownInv' /\ EventInv'
  BY <1>3 DEF IInv, IdleInv, KnownInv, EventInv
<1>10. QED
  BY <1>1, <1>4, <1>5, <1>7, <1>8, <1>9 DEF IInv

LEMMA ApplyStep ==
  ASSUME IInv, apply
  PROVE  IInv'
<1> DEFINE old == getLogger(Current)
           lg == [old EXCEPT !.level = Defined.level]
<1>1. pc \in AtNew \cup AtOld /\ pc \in AtNew /\ pc' \in AtNew /\ todo # {} /\ pc' = "formatter"
  BY DEF apply, AtNew
<1>2. Current \in Names /\ Defined.level \in Nat
  BY <1>1, RoundOf DEF Definition
<1>3. old \in Logger /\ Follows(old)
  BY <1>2, GetType
<1> HIDE DEF old
<1>4. lg \in Logger /\ Follows(lg) /\ lg.level = Defined.level
  BY <1>2, <1>3, SetLevel
<1>5. Become(lg)
  BY DEF apply, old
<1> HIDE DEF lg
<1>6. UNCHANGED <<logs, new, todo, event, ever, crashed>>
  BY DEF apply
<1>7. pc' # "add" /\ pc' # "strip"
  BY <1>1
<1>8. QED
  BY <1>1, <1>4, <1>5, <1>6, <1>7, RoundStep

LEMMA ApplyFormatterStep ==
  ASSUME IInv, applyFormatter
  PROVE  IInv'
<1> DEFINE old == m_logger[Current]
           lg == IF Defined.formatter = none THEN old ELSE setFormatter(old, Defined.formatter)
<1>1. pc = "formatter" /\ pc \in AtNew \cup AtOld /\ pc \in AtNew /\ pc' \in AtNew /\ pc' = "clear"
  BY DEF applyFormatter, AtNew
<1>2. todo # {}
  BY <1>1 DEF IInv, TodoInv
<1>3. Defined.formatter \in Patterns \cup {none}
  BY <1>1, <1>2, RoundOf DEF Definition
<1>4. old \in Logger /\ Follows(old) /\ old.level = Defined.level
  BY <1>1, CurrentType DEF IInv, RoundInv
<1>5. lg \in Logger /\ Follows(lg) /\ lg.level = Defined.level
  BY <1>3, <1>4, SetFormatter DEF Alike
<1>6. Become(lg)
  BY DEF applyFormatter
<1> HIDE DEF lg
<1>7. UNCHANGED <<logs, new, todo, event, ever, crashed>>
  BY DEF applyFormatter
<1>8. pc' # "add" /\ pc' # "strip"
  BY <1>1
<1>9. QED
  BY <1>1, <1>2, <1>5, <1>6, <1>7, <1>8, RoundStep

LEMMA ApplyClearStep ==
  ASSUME IInv, applyClear
  PROVE  IInv'
<1> DEFINE old == m_logger[Current]
           lg == [old EXCEPT !.appenders = << >>]
<1>1. pc = "clear" /\ pc \in AtNew \cup AtOld /\ pc \in AtNew /\ pc' \in AtNew /\ pc' = "add"
  BY DEF applyClear, AtNew
<1>2. todo # {}
  BY <1>1 DEF IInv, TodoInv
<1>3. Defined \in Definition
  BY <1>1, <1>2, RoundOf
<1>4. old \in Logger /\ old.level = Defined.level
  BY <1>1, CurrentType DEF IInv, RoundInv
<1>5. lg \in Logger /\ Follows(lg) /\ lg.level = Defined.level /\ lg.appenders = << >>
  BY <1>4, Clear
<1>6. Become(lg)
  BY DEF applyClear
<1> HIDE DEF lg
<1>7. Starts(lg, Defined)
  <2>1. Len(Defined.appenders) \in Nat
    BY <1>3 DEF Definition
  <2>2. Len(lg.appenders) = 0 /\ DOMAIN lg.appenders = {}
    BY <1>5, EmptySeq
  <2>3. QED
    BY <1>5, <2>1, <2>2 DEF Starts
<1>8. UNCHANGED <<logs, new, todo, event, ever, crashed>>
  BY DEF applyClear
<1>9. pc' # "strip"
  BY <1>1
<1>10. QED
  BY <1>1, <1>2, <1>5, <1>6, <1>7, <1>8, <1>9, RoundStep

LEMMA ApplyAddStep ==
  ASSUME IInv, applyAdd
  PROVE  IInv'
<1> DEFINE old == m_logger[Current]
           lg == [old EXCEPT !.appenders = Append(@, Appender(old, NextAppender))]
<1>1. pc = "add" /\ pc \in AtNew \cup AtOld /\ pc \in AtNew /\ pc' = pc
  BY DEF applyAdd, AtNew
<1>2. todo # {}
  BY <1>1 DEF IInv, TodoInv
<1>3. Defined \in Definition
  BY <1>1, <1>2, RoundOf
<1>4. old \in Logger /\ Follows(old) /\ old.level = Defined.level /\ Starts(old, Defined)
  BY <1>1, CurrentType DEF IInv, RoundInv
<1>5. Len(old.appenders) < Len(Defined.appenders)
      /\ NextAppender = Defined.appenders[Len(old.appenders) + 1] /\ NextAppender.type # 0
  BY DEF applyAdd, Added, NextAppender
<1>6. lg \in Logger /\ Follows(lg) /\ lg.level = Defined.level /\ Starts(lg, Defined)
  BY <1>3, <1>4, <1>5, AddAppender
<1>7. Become(lg)
  BY DEF applyAdd
<1> HIDE DEF lg
<1>8. UNCHANGED <<logs, new, todo, event, ever, crashed>>
  BY DEF applyAdd
<1>9. pc' # "strip"
  BY <1>1
<1>10. QED
  BY <1>1, <1>2, <1>6, <1>7, <1>8, <1>9, RoundStep

\* The end of a round: its logger is as defined.
LEMMA ApplyNextStep ==
  ASSUME IInv, applyNext
  PROVE  IInv'
<1>1. /\ pc = "add" /\ pc \in AtNew \cup AtOld /\ pc \in AtNew /\ pc \notin AtOld
      /\ pc' = "apply" /\ pc' \in AtNew /\ pc' \notin AtOld
      /\ todo' = todo \ {Current} /\ UNCHANGED <<logs, new, m_logger, event, ever, crashed>>
  BY DEF applyNext, AtNew, AtOld
<1>2. todo # {}
  BY <1>1 DEF IInv, TodoInv
<1>3. Defined \in Definition /\ Current \in Names /\ Current \in DOMAIN new
  BY <1>1, <1>2, RoundOf
<1>4. m_logger[Current] \in Logger /\ Starts(m_logger[Current], Defined)
  BY <1>1, CurrentType DEF IInv, RoundInv
<1>5. m_logger[Current] # none /\ Matches(m_logger[Current], new[Current])
  BY <1>3, <1>4, LogConfigAssumption, AllAdded DEF applyNext, Added, Defined
<1>6. TypeInv'
  BY <1>1 DEF IInv, TypeInv, IsConfig
<1>7. TodoInv' /\ RoundInv' /\ IdleInv' /\ KnownInv'
  BY <1>1 DEF IInv, TodoInv, RoundInv, IdleInv, KnownInv, AtNew
<1>8. VisitedInv'
  <2>1. Visited' \subseteq Visited \cup {Current}
    BY <1>1 DEF Visited
  <2>2. QED
    BY <1>1, <1>5, <2>1 DEF IInv, VisitedInv, Matches
<1>9. SilentInv' /\ EventInv' /\ FollowsLogger'
  BY <1>1 DEF IInv, SilentInv, Removed, EventInv, FollowsLogger
<1>10. QED
  BY <1>6, <1>7, <1>8, <1>9 DEF IInv

LEMMA ApplyDoneStep ==
  ASSUME IInv, applyDone
  PROVE  IInv'
<1>1. /\ pc = "apply" /\ pc \in AtNew /\ pc \notin AtOld /\ todo = {}
      /\ pc' = "remove" /\ pc' \in AtOld /\ pc' \notin AtNew
      /\ todo' = DOMAIN logs \ DOMAIN new /\ UNCHANGED <<logs, new, m_logger, event, ever, crashed>>
  BY DEF applyDone, AtNew, AtOld
<1>2. TypeInv'
  BY <1>1 DEF IInv, TypeInv, IsConfig
<1>3. TodoInv' /\ RoundInv' /\ IdleInv' /\ KnownInv'
  BY <1>1 DEF IInv, TodoInv, RoundInv, IdleInv, KnownInv
<1>4. VisitedInv'
  <2>1. Visited' = Visited
    BY <1>1 DEF Visited
  <2>2. QED
    BY <1>1, <2>1 DEF IInv, VisitedInv, Matches
<1>5. SilentInv'
  <2>1. Removed' \subseteq Removed
    BY <1>1 DEF Removed
  <2>2. QED
    BY <1>1, <2>1 DEF IInv, SilentInv
<1>6. EventInv' /\ FollowsLogger'
  BY <1>1 DEF IInv, EventInv, FollowsLogger
<1>7. QED
  BY <1>2, <1>3, <1>4, <1>5, <1>6 DEF IInv

LEMMA RemoveStep ==
  ASSUME IInv, remove
  PROVE  IInv'
<1> DEFINE old == getLogger(Current)
           lg == [old EXCEPT !.level = 100]
<1>1. /\ pc \in AtNew \cup AtOld /\ pc \notin AtNew /\ pc' \notin AtNew /\ pc' \in AtOld
      /\ todo # {} /\ pc' = "strip"
  BY DEF remove, AtNew, AtOld
<1>2. Current \in Names
  BY <1>1, RoundOf
<1>3. old \in Logger /\ Follows(old)
  BY <1>2, GetType
<1> HIDE DEF old
<1>4. lg \in Logger /\ Follows(lg) /\ lg.level = 100
  BY <1>3, SetLevel
<1>5. Become(lg)
  BY DEF remove, old
<1> HIDE DEF lg
<1>6. UNCHANGED <<logs, new, todo, event, ever, crashed>>
  BY DEF remove
<1>7. pc' \notin {"formatter", "clear", "add"}
  BY <1>1
<1>8. QED
  BY <1>1, <1>4, <1>5, <1>6, <1>7, RoundStep

\* The logger that is gone is silent.
LEMMA RemoveStripStep ==
  ASSUME IInv, removeStrip
  PROVE  IInv'
<1> DEFINE old == m_logger[Current]
           lg == [old EXCEPT !.appenders = << >>]
<1>1. /\ pc = "strip" /\ pc \in AtNew \cup AtOld /\ pc \in AtOld
      /\ pc' = "remove" /\ pc' \in AtOld /\ pc' \notin AtNew /\ pc' # "idle"
      /\ todo' = todo \ {Current} /\ UNCHANGED <<logs, new, event, ever, crashed>>
  BY DEF removeStrip, AtNew, AtOld
<1>2. todo # {}
  BY <1>1 DEF IInv, TodoInv
<1>3. old \in Logger /\ old.level = 100
  BY <1>1, CurrentType DEF IInv, RoundInv
<1>4. lg \in Logger /\ Follows(lg) /\ lg.level = 100 /\ lg.appenders = << >> /\ lg # none
  BY <1>3, Clear, LogConfigAssumption
<1>5. Become(lg)
  BY DEF removeStrip
<1> HIDE DEF lg
<1>6. /\ m_logger' \in [Names -> Logger \cup {none}] /\ m_logger'[Current] = lg
      /\ \A x \in Visited : m_logger'[x] # none /\ Matches(m_logger'[x], new[x])
      /\ \A x \in Removed : Silent(m_logger'[x])
      /\ FollowsLogger'
  BY <1>1, <1>2, <1>4, <1>5, BecomeKeeps
<1>7. TypeInv'
  BY <1>1, <1>6 DEF IInv, TypeInv, IsConfig
<1>8. TodoInv' /\ RoundInv' /\ IdleInv' /\ KnownInv' /\ EventInv'
  BY <1>1 DEF IInv, TodoInv, RoundInv, IdleInv, KnownInv, EventInv
<1>9. VisitedInv'
  <2>1. Visited' = Visited
    BY <1>1 DEF Visited
  <2>2. QED
    BY <1>1, <1>6, <2>1 DEF VisitedInv, Matches
<1>10. SilentInv'
  <2>1. Removed' \subseteq Removed \cup {Current}
    BY <1>1 DEF Removed
  <2>2. Silent(lg)
    BY <1>4 DEF Silent
  <2>3. QED
    BY <1>6, <2>1, <2>2 DEF SilentInv, Silent
<1>11. QED
  BY <1>6, <1>7, <1>8, <1>9, <1>10 DEF IInv

\* The change is made: every logger it defines was visited, every other one silenced.
LEMMA AssignStep ==
  ASSUME IInv, assign
  PROVE  IInv'
<1>1. /\ pc = "remove" /\ pc \in AtOld /\ pc # "idle" /\ todo = {}
      /\ pc' = "idle" /\ pc' \notin AtNew /\ pc' \notin AtOld /\ logs' = new /\ ever' = ever \cup DOMAIN new
      /\ UNCHANGED <<new, todo, m_logger, event, crashed>>
  BY DEF assign, AtOld, AtNew
<1>2. TypeInv'
  BY <1>1 DEF IInv, TypeInv, IsConfig
<1>3. TodoInv' /\ VisitedInv' /\ RoundInv' /\ EventInv'
  BY <1>1 DEF TodoInv, VisitedInv, RoundInv, EventInv
<1>4. \A x \in DOMAIN new : m_logger[x] # none /\ Matches(m_logger[x], new[x])
  BY <1>1 DEF IInv, VisitedInv, Visited
<1>5. IdleInv'
  BY <1>1, <1>4 DEF IdleInv, Matches
<1>6. KnownInv'
  <2> SUFFICES ASSUME NEW x \in DOMAIN new, NEW i \in DOMAIN new[x].appenders
               PROVE  new[x].appenders[i].type # 0
    BY <1>1 DEF KnownInv
  <2>1. m_logger[x] \in Logger /\ Matches(m_logger[x], new[x]) /\ new[x] \in Definition
    BY <1>4 DEF IInv, TypeInv, IsConfig
  <2>2. i \in DOMAIN m_logger[x].appenders
    BY <2>1, LoggerType DEF Matches, Definition
  <2>3. m_logger[x].appenders[i].type \in 1 .. 2
    BY <2>1, <2>2, LoggerType DEF LogAppender
  <2>4. QED
    BY <2>1, <2>3 DEF Matches
<1>7. SilentInv'
  <2>1. Removed' \subseteq Removed
    BY <1>1 DEF Removed
  <2>2. QED
    BY <1>1, <2>1 DEF IInv, SilentInv
<1>8. FollowsLogger'
  BY <1>1 DEF IInv, FollowsLogger
<1>9. QED
  BY <1>2, <1>3, <1>5, <1>6, <1>7, <1>8 DEF IInv

\* Other code looks a logger up or sets its formatter: what the listener relies on stays.
LEMMA OutsideStep ==
  ASSUME IInv, NEW x \in Names, lookup(x) \/ \E p \in Patterns : changeFormatter(x, p)
  PROVE  IInv'
<1>1. UNCHANGED <<logs, new, todo, pc, event, ever, crashed>>
  BY DEF lookup, changeFormatter
<1>2. PICK lg \in Logger : /\ m_logger' = [m_logger EXCEPT ![x] = lg] /\ Follows(lg)
                           /\ m_logger[x] # none => Alike(m_logger[x], lg)
  <2>1. CASE lookup(x)
    BY <2>1, GetType DEF lookup
  <2>2. ASSUME NEW p \in Patterns, changeFormatter(x, p)
        PROVE  \E lg \in Logger : /\ m_logger' = [m_logger EXCEPT ![x] = lg] /\ Follows(lg)
                                  /\ m_logger[x] # none => Alike(m_logger[x], lg)
    <3>1. m_logger[x] \in Logger /\ Follows(m_logger[x])
      BY <2>2 DEF changeFormatter, IInv, TypeInv, FollowsLogger, Follows
    <3>2. setFormatter(m_logger[x], p) \in Logger /\ Alike(m_logger[x], setFormatter(m_logger[x], p))
          /\ Follows(setFormatter(m_logger[x], p))
      BY <3>1, SetFormatter
    <3>3. m_logger' = [m_logger EXCEPT ![x] = setFormatter(m_logger[x], p)]
      BY <2>2 DEF changeFormatter
    <3>4. QED
      BY <3>2, <3>3
  <2>3. QED
    BY <2>1, <2>2
<1>3. m_logger \in [Names -> Logger \cup {none}] /\ m_logger' \in [Names -> Logger \cup {none}] /\ lg # none
  BY <1>2, LogConfigAssumption DEF IInv, TypeInv
<1>4. ASSUME NEW y \in Names, m_logger[y] # none
      PROVE  /\ m_logger'[y] # none /\ m_logger[y] \in Logger /\ m_logger'[y] \in Logger
             /\ m_logger'[y] = m_logger[y] \/ Alike(m_logger[y], m_logger'[y])
  BY <1>2, <1>3, <1>4
<1>5. ASSUME NEW y \in Names, m_logger[y] # none, NEW d \in Definition
      PROVE  /\ m_logger'[y] # none /\ m_logger'[y].level = m_logger[y].level
             /\ Matches(m_logger[y], d) => Matches(m_logger'[y], d)
             /\ Starts(m_logger[y], d) => Starts(m_logger'[y], d)
             /\ Silent(m_logger[y]) => Silent(m_logger'[y])
  BY <1>4, <1>5, AlikeKeeps DEF Alike
<1>6. TypeInv'
  BY <1>1, <1>3 DEF IInv, TypeInv, IsConfig
<1>7. TodoInv' /\ KnownInv' /\ EventInv'
  BY <1>1 DEF IInv, TodoInv, KnownInv, EventInv
<1>8. VisitedInv'
  <2>1. Visited' = Visited
    BY <1>1 DEF Visited
  <2>2. \A y \in Visited : y \in Names /\ new[y] \in Definition
    BY DEF Visited, IInv, TypeInv, IsConfig
  <2>3. ASSUME pc # "idle", NEW y \in Visited PROVE m_logger'[y] # none /\ Matches(m_logger'[y], new[y])
    BY <1>5, <2>2, <2>3 DEF IInv, VisitedInv
  <2>4. QED
    BY <1>1, <2>1, <2>3 DEF VisitedInv, Matches
<1>9. RoundInv'
  <2>1. Current' = Current /\ Defined' = Defined
    BY <1>1 DEF Current, Defined
  <2>2. CASE pc \in {"formatter", "clear", "add"}
    <3>1. Current \in Names /\ Defined \in Definition
      BY <2>2, RoundOf DEF IInv, TodoInv, AtNew
    <3>2. m_logger'[Current] # none /\ m_logger'[Current].level = Defined.level
      BY <1>5, <2>2, <3>1 DEF IInv, RoundInv
    <3>3. pc = "add" => Starts(m_logger'[Current], Defined)
      BY <1>5, <2>2, <3>1 DEF IInv, RoundInv
    <3>4. QED
      BY <1>1, <2>1, <2>2, <3>2, <3>3 DEF RoundInv, Starts
  <2>3. CASE pc = "strip"
    <3>1. Current \in Names /\ m_logger[Current] # none /\ m_logger[Current].level = 100
      BY <2>3, RoundOf DEF IInv, TodoInv, RoundInv, AtOld
    <3>2. m_logger'[Current] # none /\ m_logger'[Current].level = 100
      BY <1>4, <3>1 DEF Alike
    <3>3. QED
      BY <1>1, <2>1, <2>3, <3>2 DEF RoundInv
  <2>4. CASE pc \notin {"formatter", "clear", "add", "strip"}
    BY <1>1, <2>4 DEF RoundInv
  <2>5. QED
    BY <2>2, <2>3, <2>4
<1>10. IdleInv'
  <2>1. \A y \in DOMAIN logs : y \in Names /\ logs[y] \in Definition
    BY DEF IInv, TypeInv, IsConfig
  <2>2. ASSUME pc = "idle", NEW y \in DOMAIN logs PROVE m_logger'[y] # none /\ Matches(m_logger'[y], logs[y])
    BY <1>5, <2>1, <2>2 DEF IInv, IdleInv
  <2>3. QED
    BY <1>1, <2>2 DEF IdleInv, Matches
<1>11. SilentInv'
  <2>1. Removed' = Removed /\ Removed \subseteq Names
    BY <1>1 DEF Removed, IInv, TypeInv, IsConfig
  <2>2. ASSUME NEW y \in Removed PROVE Silent(m_logger'[y])
    <3>1. Silent(m_logger[y]) /\ y \in Names /\ m_logger[y] # none
      BY <2>1 DEF IInv, SilentInv, Silent
    <3>2. /\ m_logger'[y] # none /\ m_logger[y] \in Logger /\ m_logger'[y] \in Logger
          /\ m_logger'[y] = m_logger[y] \/ Alike(m_logger[y], m_logger'[y])
      BY <1>4, <3>1
    <3>3. Alike(m_logger[y], m_logger'[y]) => m_logger'[y].appenders = << >>
      BY <3>1, <3>2, LoggerType, EmptySeq DEF Alike, Silent
    <3>4. QED
      BY <3>1, <3>2, <3>3 DEF Alike, Silent
  <2>3. QED
    BY <2>1, <2>2 DEF SilentInv, Silent
<1>12. FollowsLogger'
  BY <1>2, <1>3 DEF IInv, FollowsLogger, Follows
<1>13. QED
  BY <1>6, <1>7, <1>8, <1>9, <1>10, <1>11, <1>12 DEF IInv

\* Events change nothing else, and one that is logged between changes is undisturbed.
LEMMA EventStep ==
  ASSUME IInv, (\E x \in Names : log(x)) \/ logDeliver
  PROVE  IInv'
<1>1. UNCHANGED <<logs, new, todo, pc, m_logger, ever, crashed>>
  BY DEF log, logDeliver
<1>2. event' \in [on : Names \cup {none}, to : Names \cup {none}, disturbed : BOOLEAN] /\ EventInv'
  <2>1. ASSUME NEW x \in Names, log(x)
        PROVE  event' \in [on : Names \cup {none}, to : Names \cup {none}, disturbed : BOOLEAN] /\ EventInv'
    BY <2>1 DEF log, EventInv
  <2>2. CASE logDeliver
    <3>1. PICK to : event' = [event EXCEPT !.on = none, !.to = to] /\ to \in {event.on, root, none}
      BY <2>2 DEF logDeliver
    <3>2. QED
      BY <3>1, LogConfigAssumption DEF IInv, TypeInv, EventInv
  <2>3. QED
    BY <2>1, <2>2
<1>3. TypeInv'
  BY <1>1, <1>2 DEF IInv, TypeInv, IsConfig
<1>4. TodoInv' /\ VisitedInv' /\ RoundInv' /\ IdleInv' /\ KnownInv'
  BY <1>1 DEF IInv, TodoInv, VisitedInv, Visited, RoundInv, IdleInv, KnownInv, Current, Defined, Matches
<1>5. SilentInv' /\ FollowsLogger'
  BY <1>1 DEF IInv, SilentInv, Removed, FollowsLogger
<1>6. QED
  BY <1>2, <1>3, <1>4, <1>5 DEF IInv

LEMMA ConfigStep == IInv /\ [Next]_vars => IInv'
<1> SUFFICES ASSUME IInv, [Next]_vars PROVE IInv'
  OBVIOUS
<1>1. ASSUME NEW doc \in Docs, load(doc) PROVE IInv'
  BY <1>1, LoadStep
<1>2. CASE Listener
  BY <1>2, ApplyStep, CrashStep, ApplyFormatterStep, ApplyClearStep, ApplyAddStep, ApplyNextStep,
     ApplyDoneStep, RemoveStep, RemoveStripStep, AssignStep DEF Listener
<1>3. ASSUME NEW x \in Names, lookup(x) \/ \E p \in Patterns : changeFormatter(x, p) PROVE IInv'
  BY <1>3, OutsideStep
<1>4. CASE (\E x \in Names : log(x)) \/ logDeliver
  BY <1>4, EventStep
<1>5. CASE UNCHANGED vars
  <2>1. UNCHANGED <<logs, new, todo, pc, m_logger, event, ever, crashed>>
    BY <1>5 DEF vars
  <2>2. TypeInv' /\ TodoInv' /\ KnownInv' /\ EventInv' /\ FollowsLogger'
    BY <2>1 DEF IInv, TypeInv, IsConfig, TodoInv, KnownInv, EventInv, FollowsLogger
  <2>3. VisitedInv' /\ RoundInv' /\ IdleInv' /\ SilentInv'
    BY <2>1 DEF IInv, VisitedInv, Visited, RoundInv, IdleInv, Current, Defined, Matches, SilentInv, Removed
  <2>4. QED
    BY <2>2, <2>3 DEF IInv
<1>6. QED
  BY <1>1, <1>2, <1>3, <1>4, <1>5 DEF Next

\* The parts of the invariant are invariants, the types among them.
THEOREM ConfigInvariance == Spec => []IInv
<1>1. IInv /\ [Next]_vars => IInv'
  BY ConfigStep
<1>2. QED
  BY <1>1, ConfigInit, PTL DEF Spec

\* After every change, the loggers it defines have the level and the appenders it
\* defines: the listener's first loop (logger.cpp:820-868).
THEOREM AllConfigured == Spec => []ConfiguredAsDefined
<1>1. IInv => ConfiguredAsDefined
  BY DEF IInv, IdleInv, ConfiguredAsDefined
<1>2. QED
  BY <1>1, ConfigInvariance, PTL

\* A logger that a change removed stays silent until another defines it again: its second
\* loop (logger.cpp:869-880).
THEOREM AllSilent == Spec => []RemovedIsSilent
<1>1. IInv => RemovedIsSilent
  BY DEF IInv, SilentInv, Removed, Silent, RemovedIsSilent
<1>2. QED
  BY <1>1, ConfigInvariance, PTL

\* An appender without a formatter of its own formats as its logger does, whatever the
\* listener and other code did to the two.
THEOREM AllFollow == Spec => []FollowsLogger
<1>1. IInv => FollowsLogger
  BY DEF IInv
<1>2. QED
  BY <1>1, ConfigInvariance, PTL

\* An event no change met goes to the appenders its logger was given.
THEOREM EventsReach == Spec => EventsReachLogger
<1>1. IInv /\ [Next]_vars => [DeliveredToOwn]_vars
  <2> SUFFICES ASSUME IInv, Next, event.on # none, event'.on = none, ~event.disturbed,
                      event.on \in DOMAIN logs, logs[event.on].appenders # << >>
               PROVE  event'.to = event.on
    BY DEF DeliveredToOwn
  <2> DEFINE x == event.on
  <2>1. logDeliver
    <3>1. \A doc \in Docs : ~load(doc)
      BY DEF load, Disturb, IInv, TypeInv
    <3>2. \A y \in Names : ~log(y)
      BY DEF log
    <3>3. Listener => event' = event
      BY DEF Listener, apply, applyCrashes, applyFormatter, applyClear, applyAdd, applyAddCrashes,
             applyNext, applyDone, remove, removeStrip, assign
    <3>4. \A y \in Names : ~lookup(y) /\ \A p \in Patterns : ~changeFormatter(y, p)
      BY DEF lookup, changeFormatter
    <3>5. QED
      BY <3>1, <3>2, <3>3, <3>4 DEF Next
  <2>2. pc = "idle"
    BY DEF IInv, EventInv
  <2>3. m_logger[x] # none /\ Matches(m_logger[x], logs[x])
    BY <2>2 DEF IInv, IdleInv
  <2>4. x \in Names /\ logs[x] \in Definition
    BY DEF IInv, TypeInv, IsConfig
  <2>5. m_logger[x] \in Logger
    BY <2>3, <2>4 DEF IInv, TypeInv
  <2>6. m_logger[x].appenders # << >>
    <3>1. logs[x].appenders \in Seq(AppenderDef)
      BY <2>4 DEF Definition
    <3>2. Len(logs[x].appenders) # 0
      BY <3>1, EmptySeq
    <3>3. QED
      BY <2>3, <3>2 DEF Matches
  <2>7. QED
    BY <2>1, <2>4, <2>6 DEF logDeliver, IInv, TypeInv
<1>2. QED
  BY <1>1, ConfigInvariance, PTL DEF Spec, EventsReachLogger

------------------------------------------------------------------------------
(***************************************************************************)
(* Printing and reading back.                                              *)
(***************************************************************************)
Ordered(D, s) ==
  /\ s \in [1 .. Cardinality(D) -> D]
  /\ \A x \in D : \E i \in DOMAIN s : s[i] = x
  /\ \A i, j \in DOMAIN s : i < j => s[i] < s[j]

\* A finite set of numbers can be put in order: the least one first.
LEMMA OrderExists ==
  ASSUME NEW D \in SUBSET Nat, IsFiniteSet(D)
  PROVE  \E s : Ordered(D, s)
<1> DEFINE S == {n \in Nat : \A E \in SUBSET Nat :
                   IsFiniteSet(E) /\ Cardinality(E) = n => \E s : Ordered(E, s)}
<1>1. 0 \in S
  <2> SUFFICES ASSUME NEW E \in SUBSET Nat, IsFiniteSet(E), Cardinality(E) = 0 PROVE \E s : Ordered(E, s)
    OBVIOUS
  <2>1. E = {} /\ 1 .. Cardinality(E) = {}
    BY FS_EmptySet
  <2> DEFINE s == [i \in {} |-> 0]
  <2>2. s \in [1 .. Cardinality(E) -> E] /\ DOMAIN s = {}
    BY <2>1
  <2> HIDE DEF s
  <2>3. QED
    BY <2>1, <2>2 DEF Ordered
<1>2. ASSUME NEW n \in Nat, n \in S PROVE n + 1 \in S
  <2> SUFFICES ASSUME NEW E \in SUBSET Nat, IsFiniteSet(E), Cardinality(E) = n + 1
               PROVE  \E s : Ordered(E, s)
    OBVIOUS
  <2> DEFINE x == First(E)
             F == E \ {x}
  <2>1. E # {}
    BY FS_EmptySet
  <2>2. x \in E /\ \A y \in E : x <= y
    BY <2>1, FirstIsLeast
  <2>3. IsFiniteSet(F) /\ Cardinality(F) = n /\ F \in SUBSET Nat
    <3>1. IsFiniteSet(F) /\ Cardinality(F) = Cardinality(E) - 1
      BY <2>2, FS_RemoveElement
    <3>2. F \in SUBSET Nat
      OBVIOUS
    <3> HIDE DEF F
    <3>3. QED
      BY <3>1, <3>2
  <2> HIDE DEF x, F
  <2>4. PICK s : Ordered(F, s)
    BY <1>2, <2>3
  <2> DEFINE r == [i \in 1 .. n + 1 |-> IF i = 1 THEN x ELSE s[i - 1]]
  <2>5. s \in [1 .. n -> F] /\ DOMAIN s = 1 .. n
    BY <2>3, <2>4 DEF Ordered
  <2>6. \A i \in 1 .. n + 1 : i # 1 => i - 1 \in 1 .. n /\ s[i - 1] \in F
    BY <2>5
  <2>7. r \in [1 .. n + 1 -> E] /\ DOMAIN r = 1 .. n + 1
    BY <2>2, <2>6 DEF F
  <2>8. ASSUME NEW y \in E PROVE \E i \in 1 .. n + 1 : r[i] = y
    <3>1. CASE y = x
      BY <3>1
    <3>2. CASE y # x
      <4>1. PICK i \in 1 .. n : s[i] = y
        BY <2>4, <2>5, <3>2 DEF Ordered, F
      <4>2. i + 1 \in 1 .. n + 1 /\ i + 1 # 1 /\ (i + 1) - 1 = i
        OBVIOUS
      <4>3. r[i + 1] = y
        BY <4>1, <4>2
      <4>4. QED
        BY <4>2, <4>3
    <3>3. QED
      BY <3>1, <3>2
  <2>9. ASSUME NEW i \in 1 .. n + 1, NEW j \in 1 .. n + 1, i < j PROVE r[i] < r[j]
    <3>1. j # 1 /\ r[j] = s[j - 1] /\ s[j - 1] \in F /\ j - 1 \in 1 .. n
      BY <2>6, <2>9
    <3>2. CASE i = 1
      <4>1. r[i] = x /\ s[j - 1] \in E /\ s[j - 1] # x /\ x \in Nat /\ s[j - 1] \in Nat
        BY <2>2, <3>1, <3>2 DEF F
      <4>2. x <= s[j - 1]
        BY <2>2, <4>1
      <4>3. QED
        BY <3>1, <4>1, <4>2
    <3>3. CASE i # 1
      <4>1. r[i] = s[i - 1] /\ i - 1 \in 1 .. n /\ i - 1 < j - 1
        BY <2>9, <3>3
      <4>2. s[i - 1] < s[j - 1]
        BY <2>4, <2>5, <3>1, <4>1 DEF Ordered
      <4>3. QED
        BY <3>1, <4>1, <4>2
    <3>4. QED
      BY <3>2, <3>3
  <2> HIDE DEF r
  <2>10. Ordered(E, r)
    BY <2>7, <2>8, <2>9 DEF Ordered
  <2>11. QED
    BY <2>10
<1>3. Cardinality(D) \in Nat
  BY FS_CardinalityType
<1>4. Cardinality(D) \in S
  <2> HIDE DEF S
  <2>1. Nat \subseteq S
    BY <1>1, <1>2, SetInduction
  <2>2. QED
    BY <1>3, <2>1
<1>5. QED
  BY <1>4

LEMMA InOrderIs ==
  ASSUME NEW D \in SUBSET Nat, IsFiniteSet(D)
  PROVE  Ordered(D, InOrder(D))
BY OrderExists DEF InOrder, Ordered

\* An appender of a known type, printed.
PrintedAppender(a) ==
  [type      |-> CASE a.type = 1 -> "FileLogAppender" [] a.type = 2 -> "StdoutLogAppender" [] OTHER -> none,
   file      |-> a.file,
   formatter |-> a.formatter]

LEMMA AppenderReadsBack ==
  ASSUME NEW a \in AppenderDef, a.type # 0
  PROVE  /\ PrintedAppender(a) \in AppenderNode /\ Kept(PrintedAppender(a))
         /\ LogAppenderDefine(PrintedAppender(a)) = a
<1>1. /\ a = [type |-> a.type, level |-> 0, file |-> a.file, formatter |-> a.formatter]
      /\ a.file \in Files \cup {none} /\ a.formatter \in Patterns \cup {none} /\ a.type \in {1, 2}
      /\ IF a.type = 1 THEN a.file # none ELSE a.file = none /\ a.formatter = none
  BY DEF AppenderDef
<1>2. "FileLogAppender" # none /\ "StdoutLogAppender" # none /\ "FileLogAppender" # "StdoutLogAppender"
  BY LogConfigAssumption DEF NoText
<1>3. CASE a.type = 1
  <2> DEFINE p == [type |-> "FileLogAppender", file |-> a.file, formatter |-> a.formatter]
  <2>1. PrintedAppender(a) = p
    BY <1>3 DEF PrintedAppender
  <2>2. p \in AppenderNode
    BY <1>1, LogConfigAssumption DEF AppenderNode, NoText
  <2>3. p.type = "FileLogAppender" /\ p.file = a.file /\ p.formatter = a.formatter
    OBVIOUS
  <2> HIDE DEF p
  <2>4. Kept(p)
    BY <1>1, <1>2, <1>3, <2>3 DEF Kept
  <2>5. LogAppenderDefine(p) = [type |-> 1, level |-> 0, file |-> a.file, formatter |-> a.formatter]
    BY <2>3 DEF LogAppenderDefine
  <2>6. QED
    BY <1>1, <1>3, <2>1, <2>2, <2>4, <2>5
<1>4. CASE a.type = 2
  <2> DEFINE p == [type |-> "StdoutLogAppender", file |-> none, formatter |-> none]
  <2>1. PrintedAppender(a) = p
    BY <1>1, <1>4 DEF PrintedAppender
  <2>2. p \in AppenderNode
    BY <1>1, LogConfigAssumption DEF AppenderNode, NoText
  <2>3. p.type = "StdoutLogAppender"
    OBVIOUS
  <2> HIDE DEF p
  <2>4. Kept(p)
    BY <1>2, <2>3 DEF Kept
  <2>5. LogAppenderDefine(p) = [type |-> 2, level |-> 0, file |-> none, formatter |-> none]
    BY <1>2, <2>3 DEF LogAppenderDefine
  <2>6. QED
    BY <1>1, <1>4, <2>1, <2>2, <2>4, <2>5
<1>5. QED
  BY <1>1, <1>3, <1>4

\* So does a list of them, in order.
LEMMA AppendersReadBack ==
  ASSUME NEW list \in Seq(AppenderDef), \A i \in DOMAIN list : list[i].type # 0
  PROVE  AppenderDefines([i \in DOMAIN list |-> PrintedAppender(list[i])]) = list
<1> DEFINE nodes == [i \in DOMAIN list |-> PrintedAppender(list[i])]
<1>1. Len(list) \in Nat /\ DOMAIN list = 1 .. Len(list) /\ \A i \in DOMAIN list : list[i] \in AppenderDef
  BY LenProperties, ElementOfSeq
<1>2. \A i \in 1 .. Len(list) : PrintedAppender(list[i]) \in AppenderNode
  BY <1>1, AppenderReadsBack
<1>3. nodes \in Seq(AppenderNode) /\ Len(nodes) = Len(list)
  <2>1. [i \in 1 .. Len(list) |-> PrintedAppender(list[i])] \in Seq(AppenderNode)
    BY <1>1, <1>2, IsASeq
  <2>2. nodes \in Seq(AppenderNode) /\ DOMAIN nodes = 1 .. Len(list)
    BY <1>1, <2>1
  <2>3. QED
    BY <1>1, <2>2
<1>4. \A i \in DOMAIN list : nodes[i] = PrintedAppender(list[i])
  OBVIOUS
<1> HIDE DEF nodes
<1>5. PICK f : /\ \A i \in 0 .. Len(nodes) : f[i] = ReadStep(nodes, f, i)
               /\ AppenderDefines(nodes) = f[Len(nodes)]
  BY <1>3, ReadDef
<1> DEFINE Prefix(s, n) == s \in Seq(AppenderDef) /\ Len(s) = n /\ \A j \in 1 .. n : s[j] = list[j]
           S == {n \in Nat : n <= Len(list) => Prefix(f[n], n)}
<1>6. 0 \in S
  <2>1. f[0] = << >>
    BY <1>1, <1>3, <1>5 DEF ReadStep
  <2>2. Prefix(<< >>, 0)
    BY EmptySeq
  <2>3. QED
    BY <2>1, <2>2
<1>7. ASSUME NEW n \in Nat, n \in S PROVE n + 1 \in S
  <2>1. SUFFICES ASSUME n + 1 <= Len(list) PROVE Prefix(f[n + 1], n + 1)
    OBVIOUS
  <2>2. n + 1 \in 0 .. Len(nodes) /\ n + 1 # 0 /\ (n + 1) - 1 = n /\ n + 1 \in DOMAIN list
    BY <1>1, <1>3, <2>1
  <2>3. Prefix(f[n], n)
    BY <1>1, <1>7, <2>1
  <2>4. Kept(nodes[n + 1]) /\ LogAppenderDefine(nodes[n + 1]) = list[n + 1] /\ list[n + 1] \in AppenderDef
    BY <1>1, <1>4, <2>2, AppenderReadsBack
  <2>5. f[n + 1] = Append(f[n], list[n + 1])
    BY <1>5, <2>2, <2>4 DEF ReadStep
  <2>6. QED
    BY <2>3, <2>4, <2>5
<1> HIDE DEF S
<1>8. Len(list) \in S
  BY <1>1, <1>6, <1>7, SetInduction
<1>9. Prefix(f[Len(list)], Len(list))
  BY <1>1, <1>8 DEF S
<1>10. f[Len(list)] = list
  BY <1>9, SeqEqual
<1>11. QED
  BY <1>3, <1>5, <1>10 DEF nodes

\* What toString() prints of the definitions in force reads back as the same loggers, with
\* the same formatters and appenders (logger.cpp:683-804): only the levels are lost.
THEOREM PrintedReadsBack == Spec => []DumpReadsBack
<1>1. ASSUME IInv PROVE DumpReadsBack
  <2> DEFINE D == DOMAIN logs
             names == InOrder(D)
             node(x) == [name |-> x, level |-> IF logs[x].level = 0 THEN "unknown" ELSE none,
                         formatter |-> logs[x].formatter,
                         appenders |-> [i \in DOMAIN logs[x].appenders |-> PrintedAppender(logs[x].appenders[i])]]
             doc == [i \in DOMAIN names |-> node(names[i])]
  <2>1. D \in SUBSET Nat /\ D \in SUBSET Names /\ IsFiniteSet(D) /\ none \notin D
    BY <1>1, LogConfigAssumption DEF NoText, IInv, TypeInv, IsConfig
  <2>2. Ordered(D, names) /\ Cardinality(D) \in Nat
    BY <2>1, InOrderIs, FS_CardinalityType
  <2>3. Printed(logs) = doc
    BY DEF Printed, PrintedAppender
  <2> HIDE DEF names
  <2>4. DOMAIN names = 1 .. Cardinality(D) /\ DOMAIN doc = 1 .. Cardinality(D)
        /\ \A i \in DOMAIN doc : names[i] \in D /\ doc[i] = node(names[i])
    BY <2>2 DEF Ordered
  <2>5. \A x : node(x).name = x /\ node(x).formatter = logs[x].formatter
               /\ node(x).appenders = [i \in DOMAIN logs[x].appenders |-> PrintedAppender(logs[x].appenders[i])]
    OBVIOUS
  <2> HIDE DEF doc, node
  <2>6. \A x \in D : \E i \in DOMAIN doc : doc[i].name = x
    BY <2>2, <2>4, <2>5 DEF Ordered
  <2>7. {doc[i].name : i \in DOMAIN doc} \ {none} = D
    <3>1. \A i \in DOMAIN doc : doc[i].name \in D
      BY <2>4, <2>5
    <3>2. {doc[i].name : i \in DOMAIN doc} = D
      BY <2>6, <3>1
    <3>3. QED
      BY <2>1, <3>2
  <2>8. Parse(doc) = [x \in D |-> LogDefine(doc[FirstNode(doc, x)])]
    BY <2>7, ParseDef
  <2>9. ASSUME NEW x \in D
        PROVE  Parse(doc)[x].formatter = logs[x].formatter /\ Parse(doc)[x].appenders = logs[x].appenders
    <3>1. FirstNode(doc, x) \in DOMAIN doc /\ doc[FirstNode(doc, x)].name = x
      BY <2>2, <2>4, <2>6, FirstNodeIs
    <3>2. doc[FirstNode(doc, x)] = node(x)
      BY <2>4, <2>5, <3>1
    <3>3. logs[x].appenders \in Seq(AppenderDef) /\ \A i \in DOMAIN logs[x].appenders : logs[x].appenders[i].type # 0
      BY <1>1 DEF IInv, TypeInv, IsConfig, KnownInv, Definition
    <3>4. AppenderDefines(node(x).appenders) = logs[x].appenders
      <4> DEFINE list == logs[x].appenders
      <4>1. node(x).appenders = [i \in DOMAIN list |-> PrintedAppender(list[i])]
        BY <2>5
      <4>2. list \in Seq(AppenderDef) /\ \A i \in DOMAIN list : list[i].type # 0
        BY <3>3
      <4> HIDE DEF list
      <4>3. AppenderDefines([i \in DOMAIN list |-> PrintedAppender(list[i])]) = list
        BY <4>2, AppendersReadBack
      <4>4. QED
        BY <4>1, <4>3 DEF list
    <3>5. Parse(doc)[x] = LogDefine(node(x))
      BY <2>8, <3>2
    <3>6. QED
      BY <2>5, <3>4, <3>5 DEF LogDefine
  <2>10. DOMAIN Parse(doc) = D
    BY <2>8
  <2>11. QED
    BY <2>3, <2>9, <2>10 DEF DumpReadsBack
<1>2. QED
  BY <1>1, ConfigInvariance, PTL
=============================================================================
