# TLA+ models and proofs of chord

`chord/` is a C++ base library for servers: threads and locks, a logging system, a
configuration system and fibers.  This project models its parts in TLA+, checks
them with TLC on small instances and proves the main safety properties with TLAPS
for instances of every size.

## The system

| Component | State | Operations | Used by |
|---|---|---|---|
| Locks (`thread.h`) | a pthread rwlock, mutex, spinlock or atomic flag; the guards' `m_locked` | lock, unlock, scoped guards | everything below |
| `Semaphore`, `Thread` (`thread.h`, `thread.cpp`) | `m_thread`, `m_id`, `m_cb`, `m_name`, `m_semaphore`; thread-local `t_thread`, `t_thread_name` | constructor (pthread_create, wait), `run`, `join`, destructor, `SetName`, `GetThis` | tests, servers |
| `ConfigVar<T>` (`config.h`) | `m_val`, `m_cbs`, `m_mutex`; one `s_fun_id` per type | `setValue`, `getValue`, `fromString`, `toString`, `addListener`, `delListener`, `getListener`, `clearListener` | `Config`, logging, fibers |
| `Config` (`config.h`, `config.cpp`) | the map from names to variables, one rwlock | `Lookup`, `LookupBase`, `Visit`, `LoadFromYaml` | the application |
| `LexicalCast` (`config.h`) | none | strings to and from containers through YAML | `ConfigVar` |
| `LogFormatter` (`logger.cpp`) | `m_pattern`, `m_items`, `m_error` | `init` (the pattern parser), `format` | loggers, appenders |
| `LogAppender`, `StdOutLogAppender`, `FileLogAppender` | formatter, `m_has_Formatter`, level, spinlock; the file and `m_lastTime` | `log`, `setFormatter`, `setLevel`, `reopen` | `Logger` |
| `Logger` | level, formatter, list of appenders, `m_root`, spinlock | `log`, `setLevel`, `setFormatter`, `addAppender`, `delAppender`, `clearAppenders`, `toYamlString` | everything |
| `LoggerManager` | the map of loggers, the root logger, a spinlock | `getLogger`, `getRoot`, `toYamlString` | the logging macros |
| `LogDefine`, `LogIniter` (`logger.cpp`) | the variable `logs` and its change listener | reading and printing YAML, bringing loggers in line | `Config::LoadFromYaml` |
| `Fiber` (`fiber.cpp`) | context, state, stack, callback; thread-local `t_fiber`, `t_threadFiber` | `swapIn`, `swapOut`, `YieldToReady`, `YieldToHold`, `reset`, `MainFunc` | tests |

How they interact: an application calls `Config::LoadFromYaml`, which calls
`fromString` on variables; `setValue` calls the listeners of the variable while it
holds its read lock; a listener may look variables up, which takes the registry's
lock, while a failed `Lookup` holds that lock and prints a variable, which takes the
variable's; the listener of `logs` looks loggers up in the manager (its
lock), changes them (their locks) and their appenders (their locks).  All threads
log through the same loggers meanwhile.  A logger without appenders hands its events
to the root logger while it holds its own lock.

What is hard: calls of several threads on one variable or logger; state read under
one lock and used under the next (`setValue`, `addAppender`); a counter shared by
objects with different locks (`addListener`); an object destroyed by one thread
while another is still inside `run()`; sequences of reconfigurations; index
arithmetic on unsigned positions.  The hazards are listed one by one, with the
property that covers each, in `PROJECT.json`.

Nothing is persisted and there is no network: crash recovery and message loss do not
arise.  The only failures the code meets are calls that fail (`pthread_create`, an
interrupted `sem_wait`), listeners that throw, documents it cannot use, and a file that
cannot be opened or written.

## Modules

| Module | Models | Checked by |
|---|---|---|
| `RWMutex` | the rwlock: a set of readers and a writer | through `ConfigVar` and `Config` |
| `ConfigVar` | `ConfigVar<T>` used by several threads | `ConfigVar_concurrent.cfg`, `ConfigVar_shared_ids.cfg` |
| `ConfigVarProofs` | theorems about `ConfigVar` | TLAPS |
| `Yaml` | YAML nodes and texts | through `Config` |
| `Containers`, `LexicalCast` | the casts of containers, for any casts of their elements; the types of variables | through `Config` |
| `YamlWalk` | `ListAllMember`; a second walk, from a name | through `Config` |
| `Config`, `MCConfig` | the registry, `LoadFromYaml` and its locks; documents for TLC | `Config_registry.cfg` |
| `ConfigProofs` | theorems about `Config` | TLAPS |
| `ExclusiveLock` | what a lock promises | refined by `Locks` |
| `Locks` | `ScopedLockImpl` over `Mutex`, `Spinlock` and `CASLock` | `Locks_guard.cfg` |
| `Thread` | `Thread` and `Semaphore` | `Thread_lifecycle.cfg` |
| `ThreadProofs` | theorems about `Thread` and `Locks` | TLAPS |
| `EventBus` | what a set of loggers promises | refined by `Logger` |
| `Logger` | the macros, `Logger`, `LogAppender`, `LoggerManager` under concurrency | `Logger_shared.cfg` |
| `LoggerProofs` | theorems about `Logger` | TLAPS |
| `FileAppender` | `FileLogAppender`: its stream, its file and time | `FileAppender_reopen.cfg` |
| `FileAppenderProofs` | theorems about `FileAppender` | TLAPS |
| `LogConfig`, `MCLogConfig` | the `logs` variable, its casts and its listener; documents for TLC | `LogConfig_changes.cfg`, `LogConfig_reload.cfg` |
| `LogConfigProofs` | theorems about `LogConfig` | TLAPS |
| `LogFormatter` | `LogFormatter::init` and a grammar | `LogFormatter_grammar.cfg` |
| `LogFormatterProofs` | theorems about `LogFormatter` | TLAPS |
| `Fiber` | `Fiber`: contexts, states, owners, in several threads | `Fiber_switch.cfg`, `Fiber_end.cfg` |
| `FiberProofs` | theorems about `Fiber` | TLAPS |

Names are the code's.  A definition whose comment begins with "Mutant of" is a
variant of the definition after it with one plausible mistake; `PROJECT.json` pairs
each property with a mutant that breaks it.

### ConfigVar

A thread's call is an activation record in `frame`: where the call is, its variable,
its argument, what it read.  `setValue` is five actions, because other threads run
between them: the comparison under the read lock (`setValueSame`,
`setValueDiffers`), one `notify` per listener in the order of the map's keys (or
`notifyThrows`), `notifyDone` at the end of the inner scope, `assignBegin` and
`assignEnd` under the write lock.  While an assignment runs, `m_val` is `Torn`: a
container is not copied atomically.  `addListener` is the load and the store of
`++s_fun_id`, the insertion and the return, each of which reads the counter again;
`s_fun_id` belongs to the type, not to the variable.  `got` is what the last
`getValue` returned and `seen` what each listener was last told; both are history
variables for the properties.

Correct means: readers never see a half-assigned value (`NoTornRead`); all listeners
of one `setValue` hear of one and the same real change (`ListenersHearOneChange`);
the map is not changed under the loop's iterator (`IteratorValid`); a new listener
never replaces another one and gets its own key back (`KeyOwned`, of which `KeyUnique`
is the first half); every call returns (`EveryCallReturns`); and listeners know the
current value (`ListenersUpToDate`).  The last holds only after a change that overlapped
with no other `setValue` and in which no listener threw: with two setters the second
may notify and assign between the first one's listeners and its assignment.  The history
variables `alone` and `settled` say which changes these are; the property thus also
says that one such change heals whatever went wrong before.

### Config, LexicalCast and Yaml

`Config` is the registry with its own rwlock, several variables with one each, and
threads that look variables up, visit them all and load documents.  It converts with
`LexicalCast` and walks documents with `YamlWalk`; the nodes, the names' parts and which of
them have a bad character (`Node`, `Parts`, `BadParts`) are parameters, as is how deep a
node goes (`Depth`), by which documents are finite.  `ListAllMember` is a recursive function
of nodes and prefixes.  `MCConfig` gives the documents of the run.  One
`LoadFromYaml` is `ListAllMember` and then, for each node, the lookup under the registry's
lock, the conversion, and `setValue` with the variable's lock, all of them steps of their
own.  The variable's listener returns, throws, or calls `Lookup`.  A `Lookup` of a new name
is two steps, the search (`LookupAbsent`) and the insertion (`create`), with the write lock
held in between, as it is the lock and nothing else that keeps two threads from finding the
same name absent.  `describe` is the error
message of a `Lookup` with the wrong type, which prints the variable while the registry's
write lock is held; its two critical sections are two steps, so that the two lock orders
meet.

`Containers` has the conversions of each container and, as the templates have the type of
the elements, the conversions of these as parameters.  `LexicalCast` instantiates it for
containers of integers and for containers of sets of integers, which gives the types the
variables have.  How integers are written (`IntText`) is a parameter too: two integers are
not written alike.

Correct means: when `LoadFromYaml` returns, every variable has the value that the last
node which is for it and converts asks for, whatever is wrong with the rest of the
document (`LoadedAsWritten`); the nodes listed under a name are those the document has for
it, in document order (`ListsWhatIsWritten`, where `NodesAt` finds them from the other end,
starting from the name); what prints reads back (`PrintsReadBack`); a name has one variable
for ever, also when two threads look it up for the first time together
(`OneVariablePerName`: its mutant gives the lock up between the search and the insertion); the map is not changed under `Visit` (`IteratorValid`, proved
and not run); and although two locks are taken in both orders some call can always go on
(`NoDeadlock`: the listener's side is a read lock that the printing `Lookup` can share)
and every call returns (`EveryCallReturns`).  `CanGoOn` in `NoDeadlock` says of each place which lock the
thread there needs.

What the models show of the code, beyond the properties: the character sets of
`config.cpp:15` and `config.h:442` lack `d` and `9`, and `ListAllMember` rejects upper-case
letters although `LoadFromYaml` makes keys lower case afterwards; a rejected key takes
everything below it with it.  A scalar or an empty text reads as an empty container, so
that a slip in a document silently clears a list, where the comment at `config.h:92` says
that it fails to parse.  Of a key written twice the last wins in a variable and the first
inside a map.

### Locks

A thread opens a scope with a guard, unlocks it early, locks it again and leaves, in any
order.  `Mutex` and `Spinlock` block; `CASLock` sets a flag in a loop, and a set that
finds the flag set writes it too.  `count` is the counter of `tests/test_thread.cc`, with
its load and its store.  `ExclusiveLock` is the promise: `holders`, the threads whose
`m_locked` is true, gains a thread only when it is empty.

### Thread

An object and the OS thread it starts share a name.  `obj` is the lifetime of the
object, `pc` the place of the OS thread in `run()`, `handle` what the system knows of
the pthread handle, `blocked` the call a thread waits in.  Callbacks are arbitrary
user code: they construct, join, rename and destroy threads in any order.
`waitInterrupted` is a signal during the constructor's `sem_wait`, for which
`Semaphore::wait` throws; the object is then gone without its destructor having run,
and `run()` goes on with it (`dead` records such accesses).

Correct means: when the constructor has returned, `run()` has taken all it needs
(`HandshakeComplete`), so that the owner may destroy the object at once
(`RunTouchesLiveObject`: only an interrupted constructor breaks it); a handle is
joined or detached exactly once (`HandleReleasedOnce`); an object and its thread
agree on the name (`NameAgrees`); constructors and joins return (`CallsReturn`).

One thing no property states: a `Thread` destroyed while its callback runs detaches its
thread and leaves `t_thread` as it is (`thread.cpp:90`), so `GetThis()` in that callback
returns, and `SetName()` writes to, a destroyed object.

### Logger

A statement with `CHORD_LOG_LEVEL` tests the level, builds an event and logs it when the
statement ends (`~LogEventWrap`).  `log` is the second level test without a lock, the
lock, one action per appender and the unlock; a logger without appenders goes through
the root logger's level test and lock in between and keeps its own, so that two guards are
released one after the other (`logUnlockRoot`, `logUnlock`).  An appender's lock
is a leaf (its holder takes no other lock), so its critical sections are single steps.
`setFormatter` is one step per appender, `addAppender` of an appender without a formatter
is two critical sections of the appender, as in the code, and the manager's
`toYamlString` holds its lock while it takes those of the loggers one by one.  `out`
records what every appender was handed by every logger, `given` the last formatter the
user gave it.

`EventBus` is what loggers promise: an event is published in one step to all appenders of
one logger, at most once, to the root logger's if its own has none.  `Logger` implements
it: the step is the one that takes the lock with which the fan-out begins, and what
the fan-out has yet to hand over (`Pending`) counts as delivered.  So all appenders of a
logger see its events in one order, and none is lost, doubled or handed to two loggers.

Correct means, besides: no appender formats through a null pointer
(`FormatterPresent`); a formatter the user gave an appender stays (`OwnFormatterKept`, with
one administering thread); lists and the map are not changed under an iterator
(`IteratorValid`, proved and not run); the nested locks do not deadlock (`NoDeadlock`)
and every call returns (`EveryCallReturns`).

With two administering threads `OwnFormatterKept` fails: `addAppender` (`logger.cpp:295`)
finds an appender without a formatter, another thread gives it one, `addAppender`
overwrites it, and the appender counts the logger's formatter as its own and never
follows the logger again.

### FileAppender

`log` reads the clock and `m_lastTime`, `reopen`s under the appender's lock, stores
`m_lastTime` without it and writes under a second lock; two threads, of two loggers that
share the appender, mix in between.  The stream is open or not and good or not, and has
a buffer that goes to the file when it is full or closed.  The file system fails and
recovers (`fault`).  `m_lastTime` starts with what the memory held.

Correct means: file and buffer hold the last events the stream took, in order and
without a gap (`FileIsTail`); nothing is refused while the file system gives no trouble
(`NothingDropped`); an event that reopens the file is taken whatever went wrong before
(`HealedByReopen`).  The last has an exception in its hypothesis, because the code has one: a failed
write leaves the stream open and not good, `reopen` then skips `close`, `open` of an open
stream fails, and the appender is silent from then on.  Also to know: the file is reopened,
and emptied, for every event that is not logged exactly three seconds after the last
reopening; and `reopen` returns `!m_filestream`, true on failure, where `log.h:196` says
true on success (no caller looks).

### LogConfig

A document is a sequence of nodes, a node a record whose keys may be undefined
(`none`) or have a list or a map as their value (`nontext`).  Names, patterns, files and the
words in the place of a level or a type are sets that `MCLogConfig` fills.  `Parse` and `Printed` are the two casts; `CastThrows` says of which
documents `as<std::string>()` throws, by which the whole document changes nothing, and it
follows the order in which keys are read, since a key that is not read cannot throw.  A
document that is no sequence has no elements in the code's loop and reads as the empty one:
as with containers, a slip silently removes every logger.  `load` is
`fromString` up to the comparison in `setValue`; `apply` and `remove` are one round each of
the listener's two loops, in the order of names; `assign` is `setValue`'s assignment.  The
listener's calls on one logger are steps of their own, so that an event can meet a logger
between `clearAppenders` and `addAppender`.  `lookup`, `changeFormatter` and `log` are other
threads that use the manager meanwhile.  A call through a null pointer ends the process:
`crashed`.  One thread loads configurations.

Correct means: after any sequence of loads every defined logger has the level and the
appenders its definition lists (`ConfiguredAsDefined`) and a logger that was defined
and no longer is logs nothing (`RemovedIsSilent`); appenders without a formatter of
their own follow their logger (`FollowsLogger`); what `toString` prints reads back
except for the levels (`DumpReadsBack`); and an event that no reload disturbed between its
level test and its delivery ends at the logger it was logged to (`EventsReachLogger`; during
a reload it may end at the root logger instead, or nowhere).  The logger's own formatter is left out of
`ConfiguredAsDefined`: a definition without one keeps the formatter of the one before.

### LogFormatter

One action per iteration of the loops of `init`.  Positions count from 0 as in the
code.  Characters stand for their classes; the braces are written "lbrace" and
"rbrace".  The grammar (`Tokens`) is that of the comment above `init`, "%xxx    %xxx{xxx}   %%",
written from the other end: a function on positions that says what the rest of a pattern
means.  `%%` is one `%`, and the rest begins behind both.

The code departs from it there (`logger.cpp:507`): after the first of two percent signs it
goes on with the second, which begins an item.  `%%` alone is rejected, `%%m` is a `%` and a
message instead of a `%` and a letter, `%%%m` has one `%` too many.  The history variable
`doubled` records that `init` has met such a pair outside an item; `ParsesGrammar` says that
without one `init` does what the grammar says, and with one never, unless the grammar itself
rejects the pattern.  The second half is the finding: a fix of `init` would turn it
around.

Correct means: every index is inside the pattern (`InBounds`), `init` returns
(`Terminates`), and, but for doubled percent signs, rejects exactly the broken patterns and
loses, merges or cuts no token (`ParsesGrammar`).

### Fiber

A thread and its main fiber have one name; `cpu` is the stack a thread executes on, its
native one or that of a fiber.  An `m_ctx` is an entry made by `makecontext`, a position
saved by `swapcontext`, or stale: resuming a stack that has run on since is undefined
(`end = "undefined"`).  `held` are the fibers user code has a `Fiber::ptr` to, `owned` those
whose `MainFunc` has one on its own stack.  `swapIn` and the yields are two steps each, the
second being the switch.  `end` also records failed assertions, a `swapIn` without a main
fiber (a null pointer) and the end of the process when `MainFunc` returns with a null
`uc_link`.  User code constructs, resumes, resets and gives up fibers in any order and from any
stack.  Two uses the interface allows are left out: `swapOut` of a fiber that is not the
current one (`GetThis()->swapOut()` is modelled, on the main fiber too), and `swapIn` or `reset`
of a main fiber, which `GetThis()` hands out as well (`fiber.cpp:111`: the object is normally a
child fiber, not the main one).  So the properties say nothing of them.  The history variable `uses`
records two things that the repository's test does not do: code inside a fiber has managed
fibers (`Nested`), and a thread has used a fiber that another constructed (`Shared`).

What goes wrong from then on: a `swapIn` inside a fiber saves that fiber's position in the
main fiber's context (`fiber.cpp:117`), so the native stack's position is lost, the inner
yield lands in the outer fiber, and `GetThis()` there returns the main fiber.  A fiber that
yields has its state HOLD or READY before its context is saved (`fiber.cpp:161`), so another
thread may resume it in between, on a stack that still runs.  Nested use alone never
resumes a stale context, shared use alone never confuses `GetThis()`; the properties
say which promise survives which use.

Correct means: `GetThis()` is the running fiber (`CurrentFiber`); every switch goes on
where it was left (`ResumesWhereItLeft`) and every yield goes back to the main fiber
(`BackToMain`); a suspended fiber is not destroyed, whoever gives up its pointers
(`NotDestroyedWhileSuspended`).  The last holds for every use the model has, `CurrentFiber` and `BackToMain`
until code in a fiber manages fibers, `ResumesWhereItLeft` until a thread uses another's
fiber.

## Runs

| Run | Bounds | Result |
|---|---|---|
| `config_concurrent` | 2 threads, 1 variable, 3 values, 2 listeners, 3 calls per thread | all hold |
| `config_shared_ids` | 2 variables, 3 listeners | `KeyUnique` is violated |
| `config_registry` | 2 threads, 4 names (one of them invalid), 3 types, up to 3 variables; one thread loads 1 document, the other makes 2 calls | all hold |
| `locks` | 3 threads with 2 `lock()` calls each, the counter up to 2, 3 kinds of lock | all hold |
| `thread_lifecycle` | 2 objects, 2 names, interrupts | all hold |
| `logger_shared` | 2 loggers, 2 appenders, 2 levels, 2 formatters; 2 logging threads with 1 event each, 1 administrator with 2 calls | all hold |
| `file_appender` | 2 threads with 2 events each, 6 seconds, 2 changes of the file system's health | all hold |
| `logconfig_changes` | 2 loggers, 157 documents, any number of loads | all hold |
| `logconfig_reload` | well-formed documents only | `ReloadSurvives` is violated |
| `formatter_grammar` | all patterns of up to 5 characters over 6 classes | all hold |
| `fiber_switch` | 2 threads, 2 fibers, nested and shared use included; any number of switches and resets | all hold |
| `fiber_end` | 1 thread, 2 fibers | `EndedIsReusable` is violated |

Why the bounds are enough: two threads suffice for every race of two calls, and three
calls per thread for set, add and delete around another thread's `setValue`; two
thread objects for a thread started, joined and destroyed inside the callback of
another; two appenders for an order to differ and two events for it to exist; two
calls of the administrator to change a list and what is on it; three threads for one that
holds a lock and two that wait for it; six seconds for two reopenings, two changes of
health for a failure and a recovery; one load of a file, since a second one starts from
values that the other thread's calls leave as well.  `logconfig_changes`
and `fiber_switch` do not bound the number of steps; two fibers in one thread
suffice to confuse their contexts, two threads to confuse their thread-locals.  Five
characters hold a complete item with a format (`%m{-}`), a broken one, and an item
next to literal text or a doubled percent sign.  The only bounds in the guards are
`MaxCalls`, `MaxEvents`, `MaxListeners`, `MaxVars`, `MaxCount`, `MaxTime`, `MaxFaults` and
`MaxLen`.

Fairness: weak fairness of every thread that has begun an operation, or is inside
`run()`, or whose wait is over: the operating system schedules every thread that can
run.  Nothing makes a thread begin a call, a callback return, or a load happen.  The
rwlock prefers readers, and a mutex, a spinlock or a CAS loop is not fair; a waiting
thread is served because the calls of the others are bounded in the models, so starvation
by an unbounded stream of readers or lockers is outside `EveryCallReturns` and
`EveryScopeEnds`.  In `LogConfig` the thread inside the listener goes on; `FileAppender`
states no liveness and assumes none.  `notify` and `notifyThrows` are under
one fairness condition, so a listener returns or throws.  Deadlock is checked where
every state has a successor (`Thread`); elsewhere the models stop when the calls are
used up, when the pattern is parsed or when the process has ended, and the liveness
properties, and `NoDeadlock` where locks nest, take the place of the deadlock check.

## What the violations show

* `config_shared_ids`: two threads add listeners to two variables of one type.  Both
  load the same `s_fun_id`, as their locks differ, and later one variable hands out a
  key at which a listener is registered: it is replaced without notice.
* `logconfig_reload`: a second document that changes one logger and keeps another calls
  `setLevel` through a null pointer.
* `fiber_end`: a fiber whose callback returns has no context to go on with: the C library
  ends the process (by POSIX, the thread), the `swapIn` that resumed it never returns, and
  `reset` never meets a fiber in the state TERM.

One disagreement is no run of its own: `formatter_grammar` passes, and what it shows of doubled
percent signs is the second half of `ParsesGrammar`, by which `init` and the comment above it
differ on every pattern that has one and that the comment's grammar accepts (see LogFormatter).

## What is proved

TLAPS proves, for any sets of threads, variables, values, documents and objects and any
bounds that satisfy the modules' assumptions (`RWMutex`, `ConfigVar`, `LexicalCast`, `YamlWalk`,
`Config`, `Locks`, `Thread`, `Logger`, `FileAppender`, `LogConfig`, `LogFormatter`, `Fiber`:
distinctness of the special values, bounds in `Nat`, finitely many fibers, sequences where the
code has vectors, documents of finite depth, defaults of the right type, integers that are
written differently, and that lower-casing leaves the characters of a valid name as they are;
TLC evaluates them on every run), every safety property of the passing runs, and with them
the type invariants, which no run repeats:

* `ConfigVarProofs`: `TypeCorrect`, `ReadersSeeWholeValues`, `OneChange`,
  `IteratorsStayValid`.  The properties are not inductive: that `m_val` does not change
  under a listener loop depends on who holds the lock.  `LockInv` says that the readers
  of a variable are exactly the threads in its listener loop, the writer exactly the
  thread inside an assignment or `addListener`, and never both; `ValueInv` ties `Torn`
  to an assignment under way; `FrameInv` is what the types need.  `KeysOfOneVariable`
  proves `KeyOwned` under the hypothesis that the type has a single variable, from `KeyInv`
  (all keys are at most the counter, and the incremented counter is not yet a key); the
  violation shows that the hypothesis is needed.  `ListenersKept` (the property
  `ListenersUpToDate`) follows with `ToldInv`: a `setValue` that has overlapped with no
  other is the only one on its variable, the listeners its loop has gone past know its
  value, and after the loop all do that were told of anything.
* `ConfigProofs`, in five parts.
  `NamesKeepTheirVariable` (the property `OneVariablePerName`) and `IteratorsStayValid`:
  the registry points at variables that exist (`PointerInv`); between a search that found
  nothing and its insertion the name stays absent (`AbsentInv`), since the thread there is
  the writer; a thread inside `fromString`
  has a variable, a node and, in `setValue`, a value (`WorkInv`); the readers of the
  registry's lock are exactly the threads inside `Visit`, its writer exactly the thread
  that is about to insert or that prints a variable in a `Lookup` with another type (`LockInv`).
  `LoadsWhatIsAsked` (`LoadedAsWritten`): the nodes before a thread are the end of the
  document's list, and a variable nobody else set has what the nodes already done ask for
  (`WalkInv`, with `NameInv`: a variable bears the name it is registered under); one node
  more changes what is asked by its own answer only (`AskedNext`).
  `ListsAreWhatIsWritten` (`ListsWhatIsWritten`): both walks over a document are recursive
  functions, and `RecursiveFunction` says when such a definition has a solution: when what a
  function has at a node depends on nodes of less depth only.  By induction on the depth
  (`RankInduction`), `ListAllMember` with a prefix that the name starts with lists for the name
  what the other walk finds from the end of the prefix, and with another prefix nothing
  (`SameWalk`).  The lemmas on sequences say that what is picked from lists put one after
  another is what is picked from each (`PickConcat`, `PickFlatten`).
  `ValuesReadBack` (`PrintsReadBack`): every variable has a value of its type (`ValueInv`),
  because whatever converts is one (`Converts`), and every such value reads back
  (`ReadsBack`), type by type; sets and maps need that a finite set is listed without
  repetition (`SetAsSeq`).
  `DeadlockFree` (`NoDeadlock`): a variable's readers are in its listener, its writer is in
  its assignment (`HeldInv`).  If nobody could go on, nobody would be assigning; then every
  variable can be read, so nobody prints or visits; then the registry is free, so no
  listener waits; then no variable has a reader, so nobody waits to assign.
* `ThreadProofs`: `TypeCorrect`, `HandshakeHolds`, `NoUseAfterDestroy`, `HandlesHold`,
  `NamesHold`.  The strengthening relates the life of an object to the stage of its
  thread (`StageInv`: a posted semaphore means that the callback has been taken; a live
  object means that the post has been consumed), what `run()` has written (`RunInv`)
  and who waits for what (`BlockedInv`: one thread, the owner).  For `Locks`:
  `IncrementsKept`, and the refinement `GuardIsExclusiveLock`: every step is an
  acquisition, a release or a stutter of `ExclusiveLock`.  The invariant: the flag is set
  exactly while some guard has `m_locked` set, no two guards have, a guard is not locked
  before its constructor has locked it, and a thread between its load and its store has
  loaded the current count.
* `LoggerProofs`: `FormattersPresent`, `IteratorsStayValid`, and `OwnFormatters` under the
  hypothesis of a single administering thread.  The invariant says which locks a thread
  holds at each point of its call (`LockOf`: two of them while it is inside the root
  logger), where its iterator is (`PosOf`), and that whatever is in a list has a formatter
  (`ListInv`).  `Footprint` says what a step leaves alone: the other threads, and what they
  have locked; with it each action is examined for its own thread only.  `OwnInv` adds
  that an appender about to inherit a formatter has none yet.
  `RefinesEventBus` is the refinement `ImplementsEventBus`: the step that locks a list with
  appenders publishes the event (`LockPublishes`), the steps of the fan-out move it from what
  is pending to what was handed over and so stutter (`FanOutDelivers`), and every other
  step leaves both alone or changes one list that nobody goes through.  That an event is
  published once needs `EventInv`: what appenders were handed of a thread are its earlier
  events, and the present one only from the fan-out on.
  `DeadlockFree` (`NoDeadlock`): whoever waits for a lock with one in hand waits for the root
  logger's (`HeldInv`), whose holder waits for nothing.
* `FileAppenderProofs`: `TailKept`, `NoneDropped`, `ReopenHeals`.  `FileIsTail` is inductive
  given lemmas on suffixes.  The other two need what calm means for the stream: without a
  fault it is good, and open since the constructor (`HealthInv`); a call without a fault since
  it began finds it good if it is open, and open once it has reopened it (`CalmInv`); only
  events whose write has been tried are refused (`DroppedInv`).
* `LogConfigProofs`: `AllConfigured`, `AllSilent`, `AllFollow`, `EventsReach`, for all
  documents.  The invariant follows the listener through its loops: what they have left to
  visit (`TodoInv`), the loggers that match the new configuration already and the one the
  round is at (`VisitedInv`, `RoundInv`), those that are silenced already or still
  (`SilentInv`), and that no appender of an unknown type is ever in force (`KnownInv`).
  `PrintedReadsBack` (`DumpReadsBack`) needs that last fact.
* `LogFormatterProofs`: `StaysInBounds` and `FindsTokens` (`ParsesGrammar`), for patterns of
  any length over any characters.  The proof knows two readings of a pattern, which differ in
  how far they go on at a doubled `%`: by two characters (the comment's) or by one (the
  code's).  The invariant (`ParseInv`) says that the tokens found so far, followed by what a
  reading says of the rest, are the tokens of the pattern in that reading: in both while no
  `%` was doubled, and in the code's from then on (`Ways`).  `ForkInv` says that from then on the two
  readings of the pattern differ or one is broken, because at the first doubled `%` one has
  a `%` more in its literal text, or an item in its place.  `ItemInv` says what the inner loop
  has passed over, `PushInv` that what it found is the grammar's item.  That the grammar's
  function is what its definition says is an induction on the positions.
* `FiberProofs`: `TypeCorrect` and `SuspendedIsKept` for every use; `GetThisIsCurrent`
  and `YieldsReturn` while `~Nested`, `ContextsAreFresh` while `~Shared`.  The general invariant
  (`GenInv`) says where contexts are: a fiber's on its own stack (`ContextInv`), what the
  thread-locals can be at each place (`RunInv`), and that a fiber's stack owns it exactly
  from its beginning on (`OwnInv`); `CountInv` ties `s_fiber_count` to the fibers that exist.
  `FlatInv` adds, while `~Nested`, that the main fiber's context holds the native stack while
  a fiber of the thread runs; `FreshInv`, while `~Shared`, that a thread runs its own fibers
  (`HomeInv`) and that a fiber at rest has its entry or a saved position (`SuspendedInv`).

Only model-checked: the liveness properties (`EveryCallReturns`, `EveryScopeEnds`,
`CallsReturn`, `Terminates`), which are out of the prover's reach (where locks nest,
`NoDeadlock` is the part of `EveryCallReturns` that is proved); and the three violations.
Where the proofs need an induction (the least element of a set of positions, the grammar,
sequences, the depth of a document), it is on natural numbers and goes by a least
counterexample, from the well-foundedness of `<`.

## Not modelled, and the plan

In this order:

1. Two threads that load the logging configuration: `ConfigVar` (two setters, one listener)
   composed with `LogConfig`.
2. `ConfigVar` with listeners that call their own variable (they wait for the write lock
   while `setValue` holds the read lock), and two threads that join one `Thread`.
3. Proofs: the registry as the refinement of a map that each call reads or changes in one
   step; `OwnFormatters` for the model of 1; what is left of `ResumesWhereItLeft` when
   threads share fibers.

Left out for good: the format items and `LogEvent` (output of one field each), the
insides of yaml-cpp and boost, `Singleton` (a function-local static), `util` and the
assertion macros (backtraces), the text that `toYamlString` of loggers and of the manager
makes (its locks and its walk are in `Logger`).
