------------------------------ MODULE EventBus -------------------------------
(***************************************************************************)
(* What a set of loggers promises its users: an event is handed to all the *)
(* appenders of one logger in a single step, at most once, so that all of  *)
(* them get the events of that logger in one order; the event of a logger  *)
(* without appenders goes to those of the root logger.                     *)
(***************************************************************************)
EXTENDS Integers, Sequences, FiniteSets

CONSTANTS Loggers, root, Appenders,
          Events   \* events; e.logger is the logger e is logged to

VARIABLES appenders,  \* [Loggers -> sequence of appenders]
          delivered   \* [Loggers -> [Appenders -> sequence of events]]

Init ==
  /\ appenders \in [Loggers -> Seq(Appenders)]
  /\ delivered = [l \in Loggers |-> [a \in Appenders |-> << >>]]

\* e, once for each time that appender a is in the list.
Copies(list, a, e) ==
  [n \in 1 .. Cardinality({i \in DOMAIN list : list[i] = a}) |-> e]

Published(e) ==
  \E l \in Loggers, a \in Appenders : \E n \in DOMAIN delivered[l][a] : delivered[l][a][n] = e

Publish(e) ==
  LET l == IF appenders[e.logger] # << >> THEN e.logger ELSE root
  IN /\ UNCHANGED appenders
     /\ ~Published(e)
     /\ delivered' = [delivered EXCEPT ![l] =
          [a \in Appenders |-> @[a] \o Copies(appenders[l], a, e)]]

Change(l) ==
  /\ \/ \E a \in Appenders : appenders' = [appenders EXCEPT ![l] = Append(@, a)]
     \/ \E i \in DOMAIN appenders[l] :
          appenders' = [appenders EXCEPT ![l] = SubSeq(@, 1, i - 1) \o SubSeq(@, i + 1, Len(@))]
     \/ appenders' = [appenders EXCEPT ![l] = << >>]
  /\ UNCHANGED delivered

Next == (\E e \in Events : Publish(e)) \/ (\E l \in Loggers : Change(l))

Spec == Init /\ [][Next]_<<appenders, delivered>>
==============================================================================
