---------------------------- MODULE MCLogConfig -----------------------------
(***************************************************************************)
(* Documents for LogConfig: up to two nodes over two loggers, with the     *)
(* shapes of bin/conf/log.yml and the irregular ones the cast handles.     *)
(***************************************************************************)
EXTENDS LogConfig

CONSTANTS p0, p1, bad \* patterns: the default one, another valid one, an invalid one

TypesAndLevels ==
  {"FileLogAppender", "StdoutLogAppender", "RotateLogAppender",
   "debug", "info", "INFO", "Info", "warn", "error"}

File(f) == [type |-> "FileLogAppender", file |-> 1, formatter |-> f]
Stdout == [type |-> "StdoutLogAppender", file |-> none, formatter |-> p1]
NoFile == [type |-> "FileLogAppender", file |-> none, formatter |-> none]
NoType == [type |-> none, file |-> 1, formatter |-> none]
Other == [type |-> "RotateLogAppender", file |-> 1, formatter |-> none]
Unread == [type |-> "StdoutLogAppender", file |-> nontext, formatter |-> nontext]
ListFile == [type |-> "FileLogAppender", file |-> nontext, formatter |-> none]

Node(name, level, formatter, appenders) ==
  [name |-> name, level |-> level, formatter |-> formatter, appenders |-> appenders]

\* Well-formed nodes.
Regular ==
  {Node(1, "info", p1, <<File(none), Stdout>>), Node(1, "INFO", none, <<File(p0)>>),
   Node(2, "debug", p1, <<File(p1), Stdout>>), Node(2, none, none, << >>)}

\* Nodes without a name, with an unknown level, an invalid formatter, an appender
\* without a file or without a type, or of an unknown type; a list where no text is
\* read, and where the cast throws.
Irregular ==
  {Node(none, "info", p1, <<Stdout>>), Node(2, "Info", bad, <<NoFile, File(bad)>>),
   Node(1, "warn", none, <<NoType, Stdout>>), Node(2, "error", none, <<Stdout, Other>>),
   Node(none, nontext, nontext, <<ListFile>>), Node(1, "info", none, <<Unread, File(p1)>>),
   Node(2, "info", p1, <<Stdout, ListFile>>), Node(1, "info", nontext, << >>)}

DocsOver(nodes) == {<<n>> : n \in nodes} \cup {<<n, m>> : n, m \in nodes} \cup {<< >>}

AllDocs == DocsOver(Regular \cup Irregular)
RegularDocs == DocsOver(Regular)
==============================================================================
