-------------------------------- MODULE Config --------------------------------
(***************************************************************************)
(* chord::Config (chord/config.h, chord/config.cpp): the registry of the   *)
(* configuration variables, and LoadFromYaml, which gives them the values  *)
(* of a document.                                                          *)
(*                                                                         *)
(* The registry has a reader/writer lock of its own, and each variable has *)
(* one.  Lookup holds the registry's write lock while it prints a variable *)
(* of another type, which takes the variable's read lock; setValue holds   *)
(* the variable's read lock while its listener runs, and a listener may    *)
(* call Lookup: the two locks are taken in both orders.  A Lookup that     *)
(* makes a variable looks for the name and inserts in two steps, between   *)
(* which only the write lock keeps other threads out.  ConfigVar models    *)
(* the variable itself, with any number of listeners and torn values; here *)
(* a variable has one listener.                                            *)
(***************************************************************************)
EXTENDS RWMutex, LexicalCast, YamlWalk

CONSTANTS
  Names,             \* the names the program and the documents use
  Types,             \* the types T of the variables
  Default(_),        \* the default value a program gives for a type
  Docs(_),           \* the documents a thread may give to LoadFromYaml
  LowerPart(_),      \* a part of a name in lower case
  Statics,           \* the variables looked up during static initialization
  MaxVars,           \* bound: variables
  MaxCalls(_)        \* bound: calls of a thread

\* The names with a character outside config.h:442's set, which is config.cpp:15's.
Invalid == {n \in Names : ~ValidName(n)}

\* std::transform(key, ::tolower).
Lower(name) == [i \in DOMAIN name |-> LowerPart(name[i])]

ASSUME ConfigAssumption ==
  /\ Names \subseteq Seq(Parts)
  /\ Statics \in Seq([name : Names \ Invalid, type : Types])
  /\ \A i, j \in DOMAIN Statics : Statics[i].name = Statics[j].name => i = j
  /\ \A t \in Threads : Docs(t) \subseteq Node
  /\ MaxVars \in Nat /\ \A t \in Threads : MaxCalls(t) \in Nat

\* The default values are values.
ASSUME TypesAssumption ==
  /\ Types \subseteq {"int", "set", "list of set", "map"}
  /\ \A type \in Types : IsValue(type, Default(type))

\* No upper-case letter is in the set of characters, so the name of a variable is the
\* name it is registered under.
ASSUME LowerAssumption ==
  \A p \in Parts : LowerPart(p) \in Parts /\ (p \notin BadParts => LowerPart(p) = p)

VARIABLES
  s_datas,   \* [name -> index of its variable, or 0]
  s_mutex,   \* the registry's RWMutex
  var,       \* the variables: name, type T, m_val and m_mutex of each
  frame,     \* [Threads -> the activation record of its call]
  calls,     \* [Threads -> calls begun]
  foreign    \* history: [Threads -> variables changed by others, or kept by a
             \* listener that threw, since its LoadFromYaml began]

vars == <<s_datas, s_mutex, var, frame, calls, foreign>>

(***************************************************************************)
(* The activation record: where the thread is, the variable it works on,   *)
(* the name and type Lookup makes a variable of (<<>> if none), the value  *)
(* setValue is given (<<>> if none), the rest of all_nodes, the names      *)
(* Visit has not reached, and what LoadFromYaml's thread started from: the *)
(* document and the variables of that time.                                *)
(***************************************************************************)
Idle == [pc |-> "idle", obj |-> 0, made |-> <<>>, new |-> <<>>, nodes |-> <<>>,
         todo |-> {}, doc |-> <<>>, start |-> <<>>]

Begin(t) ==
  /\ frame[t].pc = "idle"
  /\ calls[t] < MaxCalls(t)
  /\ calls' = [calls EXCEPT ![t] = @ + 1]

At(t, pc) == frame[t].pc = pc /\ UNCHANGED calls
Goto(t, pc) == frame' = [frame EXCEPT ![t].pc = pc]
Return(t) == frame' = [frame EXCEPT ![t] = Idle]

\* The variable t works on, its lock, and the next lock state of it.
Own(t) == var[frame[t].obj]
OwnMutex(t, m) == var' = [var EXCEPT ![frame[t].obj].mutex = m]

Registered == {n \in DOMAIN s_datas : s_datas[n] # 0}
New(n, type, v) == [name |-> Lower(n), type |-> type, val |-> v, mutex |-> Unlocked]

------------------------------------------------------------------------------
\* Mutant of LookupAbsent: the name is looked for under a read lock that is given up
\* again before the variable is inserted.
LookupUnguarded(t, n, type) ==
  /\ Begin(t)
  /\ CanRdLock(s_mutex)
  /\ n \notin Registered
  /\ n \notin Invalid
  /\ Len(var) < MaxVars
  /\ frame' = [frame EXCEPT ![t].pc = "create", ![t].made = <<n, type>>]
  /\ UNCHANGED <<s_datas, s_mutex, var, foreign>>

\* Lookup<T>(name, default_value): the write lock is taken, the name is not registered
\* and has no bad character.
LookupAbsent(t, n, type) ==
  /\ Begin(t)
  /\ CanWrLock(s_mutex)
  /\ n \notin Registered
  /\ n \notin Invalid
  /\ Len(var) < MaxVars
  /\ s_mutex' = WrLocked(s_mutex, t)
  /\ frame' = [frame EXCEPT ![t].pc = "create", ![t].made = <<n, type>>]
  /\ UNCHANGED <<s_datas, var, foreign>>

\* GetDatas()[name] = v: the variable is made and inserted, and the lock given up.
create(t) ==
  /\ At(t, "create")
  /\ LET n == frame[t].made[1]
         type == frame[t].made[2]
     IN  /\ var' = Append(var, New(n, type, Default(type)))
         /\ s_datas' = [s_datas EXCEPT ![n] = Len(var) + 1]
  /\ s_mutex' = WrUnlocked(s_mutex)
  /\ Return(t)
  /\ UNCHANGED foreign

\* Lookup<T>(name, default_value) with a bad name: invalid_argument is thrown.
LookupInvalid(t, n) ==
  /\ Begin(t)
  /\ CanWrLock(s_mutex)
  /\ n \in Invalid \ Registered
  /\ UNCHANGED <<s_datas, s_mutex, var, frame, foreign>>

\* Lookup<T>(name, default_value): the name is registered with type T.
LookupExisting(t, n, type) ==
  /\ Begin(t)
  /\ CanWrLock(s_mutex)
  /\ n \in Registered /\ var[s_datas[n]].type = type
  /\ UNCHANGED <<s_datas, s_mutex, var, frame, foreign>>

\* Lookup<T>(name, default_value): the name is registered with another type, and the
\* error message is about to be written with the write lock held.
LookupMismatch(t, n, type) ==
  /\ Begin(t)
  /\ CanWrLock(s_mutex)
  /\ n \in Registered /\ var[s_datas[n]].type # type
  /\ s_mutex' = WrLocked(s_mutex, t)
  /\ frame' = [frame EXCEPT ![t].pc = "describe", ![t].obj = s_datas[n]]
  /\ UNCHANGED <<s_datas, var, foreign>>

\* it->second->toString() under the variable's read lock; nullptr is returned.
describe(t) ==
  /\ At(t, "describe")
  /\ CanRdLock(Own(t).mutex)
  /\ s_mutex' = WrUnlocked(s_mutex)
  /\ Return(t)
  /\ UNCHANGED <<s_datas, var, foreign>>

\* Lookup<T>(name): the registry's read lock; the variable, or nullptr for a name that
\* is absent or of another type.
LookupOnly(t) ==
  /\ Begin(t)
  /\ CanRdLock(s_mutex)
  /\ UNCHANGED <<s_datas, s_mutex, var, frame, foreign>>

------------------------------------------------------------------------------
\* Visit(cb): read lock, held for the whole walk.
Visit(t) ==
  /\ Begin(t)
  /\ CanRdLock(s_mutex)
  /\ s_mutex' = RdLocked(s_mutex, t)
  /\ frame' = [frame EXCEPT ![t].pc = "visit", ![t].todo = Registered]
  /\ UNCHANGED <<s_datas, var, foreign>>

\* cb(it->second): the callback prints the variable, under its read lock.
visitNext(t) ==
  /\ At(t, "visit")
  /\ \E n \in frame[t].todo :
       /\ CanRdLock(var[s_datas[n]].mutex)
       /\ frame' = [frame EXCEPT ![t].todo = @ \ {n}]
  /\ UNCHANGED <<s_datas, s_mutex, var, foreign>>

visitEnd(t) ==
  /\ At(t, "visit")
  /\ frame[t].todo = {}
  /\ s_mutex' = RdUnlocked(s_mutex, t)
  /\ Return(t)
  /\ UNCHANGED <<s_datas, var, foreign>>

------------------------------------------------------------------------------
\* LoadFromYaml(root): ListAllMember collects the nodes, without a lock.
LoadFromYaml(t, doc) ==
  /\ Begin(t)
  /\ frame' = [frame EXCEPT ![t] =
       [Idle EXCEPT !.pc = "load", !.nodes = ListAll(doc), !.doc = doc, !.start = var]]
  /\ foreign' = [foreign EXCEPT ![t] = {}]
  /\ UNCHANGED <<s_datas, s_mutex, var>>

NextKey(t) == Lower(Head(frame[t].nodes).key)
Skip(t) == frame' = [frame EXCEPT ![t].pc = "load", ![t].nodes = Tail(@), ![t].obj = 0,
                                  ![t].new = <<>>]

\* The root itself, which has no name, is passed over.
loadUnnamed(t) ==
  /\ At(t, "load")
  /\ frame[t].nodes # <<>> /\ Head(frame[t].nodes).key = <<>>
  /\ Skip(t)
  /\ UNCHANGED <<s_datas, s_mutex, var, foreign>>

\* LookupBase(key) under the registry's read lock finds nothing.
loadUnknown(t) ==
  /\ At(t, "load")
  /\ frame[t].nodes # <<>> /\ Head(frame[t].nodes).key # <<>>
  /\ CanRdLock(s_mutex)
  /\ NextKey(t) \notin Registered
  /\ Skip(t)
  /\ UNCHANGED <<s_datas, s_mutex, var, foreign>>

\* LookupBase(key) finds a variable and gives up the registry's lock; fromString
\* converts the text to its type, or the conversion throws.
loadKnown(t) ==
  /\ At(t, "load")
  /\ frame[t].nodes # <<>> /\ Head(frame[t].nodes).key # <<>>
  /\ CanRdLock(s_mutex)
  /\ NextKey(t) \in Registered
  /\ LET obj == s_datas[NextKey(t)]
         new == FromYaml(var[obj].type, TextOf(Head(frame[t].nodes).node))
     IN  frame' = [frame EXCEPT ![t].pc = "convert", ![t].obj = obj, ![t].new = new]
  /\ UNCHANGED <<s_datas, s_mutex, var, foreign>>

\* Mutant of convertFails: the exception leaves LoadFromYaml.
convertAborts(t) ==
  /\ At(t, "convert")
  /\ frame[t].new = <<>>
  /\ frame' = [frame EXCEPT ![t].pc = "load", ![t].nodes = <<>>, ![t].obj = 0]
  /\ UNCHANGED <<s_datas, s_mutex, var, foreign>>

\* fromString: the conversion throws; it is caught, and the loop goes on.
convertFails(t) ==
  /\ At(t, "convert")
  /\ frame[t].new = <<>>
  /\ Skip(t)
  /\ UNCHANGED <<s_datas, s_mutex, var, foreign>>

\* fromString, setValue: the value is the one the variable has.
setValueSame(t) ==
  /\ At(t, "convert")
  /\ frame[t].new # <<>> /\ frame[t].new[1] = Own(t).val
  /\ CanRdLock(Own(t).mutex)
  /\ Skip(t)
  /\ UNCHANGED <<s_datas, s_mutex, var, foreign>>

\* Mutant of setValueDiffers: the listeners are called under the write lock.
setValueExclusive(t) ==
  /\ At(t, "convert")
  /\ frame[t].new # <<>> /\ frame[t].new[1] # Own(t).val
  /\ CanWrLock(Own(t).mutex)
  /\ OwnMutex(t, WrLocked(Own(t).mutex, t))
  /\ Goto(t, "notify")
  /\ UNCHANGED <<s_datas, s_mutex, foreign>>

\* fromString, setValue: the values differ, the listener is called under the read lock.
setValueDiffers(t) ==
  /\ At(t, "convert")
  /\ frame[t].new # <<>> /\ frame[t].new[1] # Own(t).val
  /\ CanRdLock(Own(t).mutex)
  /\ OwnMutex(t, RdLocked(Own(t).mutex, t))
  /\ Goto(t, "notify")
  /\ UNCHANGED <<s_datas, s_mutex, foreign>>

\* The listener calls Lookup(name, default_value), whose name exists: it waits for
\* the registry's write lock with the variable's read lock held.
listenerLooksUp(t) ==
  /\ At(t, "notify")
  /\ Goto(t, "lookup")
  /\ UNCHANGED <<s_datas, s_mutex, var, foreign>>

listenerLookup(t) ==
  /\ At(t, "lookup")
  /\ CanWrLock(s_mutex)
  /\ Goto(t, "notified")
  /\ UNCHANGED <<s_datas, s_mutex, var, foreign>>

\* The listener throws: fromString catches it, and nothing is assigned.
listenerThrows(t) ==
  /\ At(t, "notify")
  /\ OwnMutex(t, RdUnlocked(Own(t).mutex, t))
  /\ foreign' = [foreign EXCEPT ![t] = @ \cup {frame[t].obj}]
  /\ Skip(t)
  /\ UNCHANGED <<s_datas, s_mutex>>

\* The listener is done, and the read lock is given up.
notified(t) ==
  /\ frame[t].pc \in {"notify", "notified"} /\ UNCHANGED calls
  /\ OwnMutex(t, RdUnlocked(Own(t).mutex, t))
  /\ Goto(t, "wrlock")
  /\ UNCHANGED <<s_datas, s_mutex, foreign>>

assignBegin(t) ==
  /\ At(t, "wrlock")
  /\ CanWrLock(Own(t).mutex)
  /\ OwnMutex(t, WrLocked(Own(t).mutex, t))
  /\ Goto(t, "assign")
  /\ UNCHANGED <<s_datas, s_mutex, foreign>>

\* m_val = val, and the end of this fromString.
assignEnd(t) ==
  /\ At(t, "assign")
  /\ var' = [var EXCEPT ![frame[t].obj].val = frame[t].new[1],
                        ![frame[t].obj].mutex = WrUnlocked(@)]
  /\ foreign' = [u \in Threads |-> IF u = t THEN foreign[u]
                                   ELSE foreign[u] \cup {frame[t].obj}]
  /\ Skip(t)
  /\ UNCHANGED <<s_datas, s_mutex>>

\* LoadFromYaml returns.
loadEnd(t) ==
  /\ At(t, "load")
  /\ frame[t].nodes = <<>>
  /\ Return(t)
  /\ UNCHANGED <<s_datas, s_mutex, var, foreign>>

------------------------------------------------------------------------------
\* Every variable of Statics has been looked up before main.
Init ==
  /\ s_datas = [n \in Names |->
       IF \E i \in DOMAIN Statics : Statics[i].name = n
       THEN CHOOSE i \in DOMAIN Statics : Statics[i].name = n ELSE 0]
  /\ s_mutex = Unlocked
  /\ var = [i \in DOMAIN Statics |->
              New(Statics[i].name, Statics[i].type, Default(Statics[i].type))]
  /\ frame = [t \in Threads |-> Idle]
  /\ calls = [t \in Threads |-> 0]
  /\ foreign = [t \in Threads |-> {}]

Call(t) ==
  \/ \E n \in Names : LookupInvalid(t, n)
  \/ \E n \in Names, type \in Types :
       \/ LookupAbsent(t, n, type)
       \/ LookupExisting(t, n, type)
       \/ LookupMismatch(t, n, type)
  \/ LookupOnly(t)
  \/ Visit(t)
  \/ \E doc \in Docs(t) : LoadFromYaml(t, doc)

Continue(t) ==
  \/ create(t) \/ describe(t)
  \/ visitNext(t) \/ visitEnd(t)
  \/ loadUnnamed(t) \/ loadUnknown(t) \/ loadKnown(t) \/ loadEnd(t)
  \/ convertFails(t) \/ setValueSame(t) \/ setValueDiffers(t)
  \/ listenerLooksUp(t) \/ listenerLookup(t) \/ listenerThrows(t) \/ notified(t)
  \/ assignBegin(t) \/ assignEnd(t)

Next == \E t \in Threads : Call(t) \/ Continue(t)

\* The scheduler runs every thread that can run; nobody has to begin a call.
Fairness == \A t \in Threads : WF_vars(Continue(t))

Spec == Init /\ [][Next]_vars /\ Fairness

------------------------------------------------------------------------------
(***************************************************************************)
(* Properties                                                              *)
(***************************************************************************)

PointersKept ==
  \A n \in Registered :
    s_datas'[n] = s_datas[n] /\ var'[s_datas[n]].type = var[s_datas[n]].type

\* Lookup's find-or-create (config.h:417): a variable that was ever returned for a name
\* stays the one for this name, so that a listener set through one pointer hears of what
\* is loaded through another.  Two threads that look up a new name together do not both
\* find it absent and the later insertion (config.h:449) replace the earlier: the lock is
\* held from the one to the other.
OneVariablePerName == [][PointersKept]_vars

RegistryKept ==
  \A t \in Threads : frame[t].pc = "visit" => s_datas' = s_datas

\* The map is not changed under Visit's iterator (config.cpp:75).
IteratorValid == [][RegistryKept]_vars

\* What one node of all_nodes asks of a variable: <<value>>, or <<>> if it is not for
\* this variable or does not convert to its type.
Answer(v, n) ==
  IF n.key # <<>> /\ Lower(n.key) = v.name THEN FromYaml(v.type, TextOf(n.node)) ELSE <<>>

\* What the first k nodes ask of a variable: the last answer, else the value it has.
Asked(v, nodes, k) ==
  LET good == {i \in 1 .. k : Answer(v, nodes[i]) # <<>>}
  IN  IF good = {} THEN v.val
      ELSE Answer(v, nodes[CHOOSE i \in good : \A j \in good : j <= i])[1]

\* When LoadFromYaml is at its end, every variable that was registered when it began has
\* the value the document asks for (config.cpp:38-60): nodes that do not convert, unknown
\* names, and the listeners and variables of other names do not keep it from being set.
\* Left out are variables that another thread set meanwhile or whose listener threw.
LoadedAsWritten ==
  \A t \in Threads : frame[t].pc = "load" /\ frame[t].nodes = <<>> =>
    \A i \in DOMAIN frame[t].start \ foreign[t] :
      LET all == ListAll(frame[t].doc)
      IN  var[i].val = Asked(frame[t].start[i], all, Len(all))

\* The nodes that LoadFromYaml gives to the variable of a name, in their order.
Picked(n, name) == IF Lower(n.key) = name THEN <<n.node>> ELSE <<>>
NodesFor(doc, name) ==
  LET all == ListAll(doc)
  IN  FlattenSeq([i \in DOMAIN all |-> Picked(all[i], name)])

\* ListAllMember (config.cpp:12-31) lists, for every name a variable can have, exactly the
\* nodes the document has for it, in document order, however the name is spread over
\* nested maps and keys with dots: the last one listed is the last one written.
ListsWhatIsWritten ==
  \A t \in Threads : frame[t].pc = "load" =>
    \A n \in Names \ (Invalid \cup {<<>>}) :
      NodesFor(frame[t].doc, n) = NodesAt(frame[t].doc, n)

\* What toString prints, fromString reads back as the value the variable has
\* (config.h:325, config.h:338), for every value that is the default or was loaded.
PrintsReadBack ==
  \A i \in DOMAIN var :
    FromYaml(var[i].type, ToYaml(var[i].type, var[i].val)) = <<var[i].val>>

\* The lock a thread needs next, if any, is free for it.
CanGoOn(t) ==
  CASE frame[t].pc = "describe" -> CanRdLock(Own(t).mutex)
    [] frame[t].pc = "visit" ->
         frame[t].todo # {} => \E n \in frame[t].todo : CanRdLock(var[s_datas[n]].mutex)
    [] frame[t].pc = "load" ->
         frame[t].nodes # <<>> /\ Head(frame[t].nodes).key # <<>> => CanRdLock(s_mutex)
    [] frame[t].pc = "convert" -> frame[t].new # <<>> => CanRdLock(Own(t).mutex)
    [] frame[t].pc = "lookup" -> CanWrLock(s_mutex)
    [] frame[t].pc = "wrlock" -> CanWrLock(Own(t).mutex)
    [] OTHER -> TRUE

\* While a call is under way some call can go on: the registry's lock and those of the
\* variables are taken in both orders (config.h:430, config.h:364), but no circle of
\* threads comes to wait for each other.
NoDeadlock ==
  LET busy == {t \in Threads : frame[t].pc # "idle"}
  IN  busy # {} => \E t \in busy : CanGoOn(t)

\* Every call returns, although Lookup and listeners take the registry's lock and a
\* variable's in opposite orders.
EveryCallReturns ==
  \A t \in Threads : frame[t].pc # "idle" ~> frame[t].pc = "idle"
==============================================================================
