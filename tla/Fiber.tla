-------------------------------- MODULE Fiber --------------------------------
(***************************************************************************)
(* chord::Fiber (chord/fiber.h, chord/fiber.cpp): contexts that threads    *)
(* switch between.  A thread has a main fiber, which stands for its native *)
(* stack and has the thread's name here; the other fibers have stacks of   *)
(* their own and run a callback in MainFunc.  swapIn goes from the main    *)
(* fiber to a fiber, swapOut and the two yields go back.                   *)
(*                                                                         *)
(* What an m_ctx holds is the stack it resumes and whether it may: it is   *)
(* an entry that makecontext made, a position that swapcontext saved, or   *)
(* stale, because the stack has run on since (resuming it is undefined).   *)
(* User code, on the native stack or in a callback, constructs, resumes,   *)
(* resets and gives up fibers, those of other threads too, in any order.   *)
(* Of what the interface allows two uses are left out: swapOut of a fiber  *)
(* other than the current one, and swapIn or reset of a main fiber.  The   *)
(* ucontext functions are modelled by what this code relies on; s_fiber_id *)
(* only numbers fibers and is left out.                                    *)
(***************************************************************************)
EXTENDS Integers, FiniteSets

CONSTANTS Threads, \* the threads, and their main fibers
          Fibers,  \* the fibers with a stack
          null     \* a null pointer

ASSUME FiberAssumption ==
  /\ Threads \cap Fibers = {} /\ null \notin Threads \cup Fibers
  /\ IsFiniteSet(Threads \cup Fibers)

Objects == Threads \cup Fibers

VARIABLES
  m_state,       \* [Objects -> state; "none" before the constructor, "freed" after ~Fiber]
  m_ctx,         \* [Objects -> context]
  m_cb,          \* [Fibers -> whether m_cb holds a callback]
  home,          \* [Fibers -> the thread that constructed it]
  held,          \* the fibers user code holds a Fiber::ptr to
  owned,         \* the fibers whose MainFunc holds a Fiber::ptr to them (cur)
  t_fiber,       \* [Threads -> object or null]: thread-local
  t_threadFiber, \* [Threads -> object or null]: thread-local
  cpu,           \* [Threads -> the stack the thread executes on]
  pc,            \* [Threads -> "user", inside "swapIn" or "swapOut", or "ended"]
  op,            \* [Threads -> the object of that swapIn or swapOut]
  s_fiber_count,
  end,           \* "running", or how the process ended
  uses           \* history: how user code has managed fibers so far

vars == <<m_state, m_ctx, m_cb, home, held, owned, t_fiber, t_threadFiber, cpu, pc, op,
          s_fiber_count, end, uses>>

Entry(f) == [kind |-> "entry", stack |-> f]
Saved(s) == [kind |-> "saved", stack |-> s]
Stale(s) == [kind |-> "stale", stack |-> s]

\* Thread th executes user code.
Runs(th) == end = "running" /\ pc[th] = "user"

\* The user code that th executes manages fiber f.
Manages(th, f) ==
  /\ Runs(th)
  /\ uses' = uses \cup (IF cpu[th] = th THEN {} ELSE {"nested"})
                   \cup (IF home[f] \in {th, null} THEN {} ELSE {"shared"})

Nested == "nested" \in uses \* code in a fiber has managed fibers
Shared == "shared" \in uses \* a thread has used a fiber that another constructed

\* Mutant of Switch: MainFunc keeps a plain pointer.
SwitchRaw(th, from, to) ==
  LET saved == [m_ctx EXCEPT ![from] = Saved(cpu[th])]
      target == saved[to]
  IN /\ m_ctx' = [saved EXCEPT ![to].kind = "stale"]
     /\ cpu' = [cpu EXCEPT ![th] = target.stack]
     /\ UNCHANGED owned
     /\ end' = IF target.kind = "stale" THEN "undefined" ELSE end

\* swapcontext(&from->m_ctx, &to->m_ctx): save, then resume.  A fiber that is entered
\* begins with MainFunc's cur = GetThis().
Switch(th, from, to) ==
  LET saved == [m_ctx EXCEPT ![from] = Saved(cpu[th])]
      target == saved[to]
  IN /\ m_ctx' = [saved EXCEPT ![to].kind = "stale"]
     /\ cpu' = [cpu EXCEPT ![th] = target.stack]
     /\ owned' = IF target.kind = "entry" THEN owned \cup {target.stack} ELSE owned
     /\ end' = IF target.kind = "stale" THEN "undefined" ELSE end

------------------------------------------------------------------------------
\* GetThis() in a thread that has no current fiber: the main fiber is made.  A
\* yield in such a thread begins with it.
GetThis(th) ==
  /\ Runs(th) /\ t_fiber[th] = null
  /\ m_state' = [m_state EXCEPT ![th] = "EXEC"]
  /\ t_fiber' = [t_fiber EXCEPT ![th] = th]
  /\ t_threadFiber' = [t_threadFiber EXCEPT ![th] = th]
  /\ s_fiber_count' = s_fiber_count + 1
  /\ UNCHANGED <<m_ctx, m_cb, home, held, owned, cpu, pc, op, end, uses>>

\* Fiber(cb)
Construct(th, f) ==
  /\ Manages(th, f) /\ m_state[f] = "none"
  /\ m_state' = [m_state EXCEPT ![f] = "INIT"]
  /\ m_ctx' = [m_ctx EXCEPT ![f] = Entry(f)]
  /\ m_cb' = [m_cb EXCEPT ![f] = TRUE]
  /\ home' = [home EXCEPT ![f] = th]
  /\ held' = held \cup {f}
  /\ s_fiber_count' = s_fiber_count + 1
  /\ UNCHANGED <<owned, t_fiber, t_threadFiber, cpu, pc, op, end>>

\* reset(cb)
reset(th, f) ==
  /\ Manages(th, f) /\ f \in held
  /\ IF m_state[f] \in {"INIT", "TERM", "EXCEPT"}
     THEN /\ m_cb' = [m_cb EXCEPT ![f] = TRUE]
          /\ m_ctx' = [m_ctx EXCEPT ![f] = Entry(f)]
          /\ m_state' = [m_state EXCEPT ![f] = "INIT"]
          /\ end' = end
     ELSE end' = "reset" /\ UNCHANGED <<m_cb, m_ctx, m_state>>
  /\ UNCHANGED <<home, held, owned, t_fiber, t_threadFiber, cpu, pc, op, s_fiber_count>>

\* ~Fiber() of a fiber with a stack, with its assertion.
Destroyed(f) ==
  /\ end' = IF m_state[f] \in {"TERM", "INIT", "EXCEPT"} THEN end ELSE "destructor"
  /\ m_state' = [m_state EXCEPT ![f] = "freed"]
  /\ s_fiber_count' = s_fiber_count - 1

\* User code gives up its Fiber::ptr; a swapIn that has not switched yet is called
\* through one.
release(th, f) ==
  /\ Manages(th, f) /\ f \in held
  /\ \A u \in Threads : ~(pc[u] = "swapIn" /\ op[u] = f)
  /\ held' = held \ {f}
  /\ IF f \in owned THEN UNCHANGED <<m_state, s_fiber_count, end>> ELSE Destroyed(f)
  /\ UNCHANGED <<m_ctx, m_cb, home, owned, t_fiber, t_threadFiber, cpu, pc, op>>

------------------------------------------------------------------------------
\* swapIn(): SetThis and the assertion.
swapIn(th, f) ==
  /\ Manages(th, f) /\ f \in held
  /\ t_fiber' = [t_fiber EXCEPT ![th] = f]
  /\ IF m_state[f] # "EXEC"
     THEN /\ pc' = [pc EXCEPT ![th] = "swapIn"]
          /\ op' = [op EXCEPT ![th] = f]
          /\ end' = end
     ELSE end' = "swapIn" /\ UNCHANGED <<pc, op>>
  /\ UNCHANGED <<m_state, m_ctx, m_cb, home, held, owned, t_threadFiber, cpu, s_fiber_count>>

\* The state and the switch; without a main fiber, a null pointer is followed.
swapInSwitch(th) ==
  /\ end = "running" /\ pc[th] = "swapIn"
  /\ m_state' = [m_state EXCEPT ![op[th]] = "EXEC"]
  /\ pc' = [pc EXCEPT ![th] = "user"]
  /\ IF t_threadFiber[th] # null THEN Switch(th, t_threadFiber[th], op[th])
     ELSE end' = "null" /\ UNCHANGED <<m_ctx, cpu, owned>>
  /\ UNCHANGED <<m_cb, home, held, t_fiber, t_threadFiber, op, s_fiber_count, uses>>

\* YieldToReady() and YieldToHold(): the state of the current fiber.
yield(th, state) ==
  /\ Runs(th) /\ t_fiber[th] # null
  /\ m_state' = [m_state EXCEPT ![t_fiber[th]] = state]
  /\ pc' = [pc EXCEPT ![th] = "swapOut"]
  /\ op' = [op EXCEPT ![th] = t_fiber[th]]
  /\ UNCHANGED <<m_ctx, m_cb, home, held, owned, t_fiber, t_threadFiber, cpu, s_fiber_count,
                 end, uses>>

\* GetThis()->swapOut(): the state is left alone.
swapOut(th) ==
  /\ Runs(th) /\ t_fiber[th] # null
  /\ pc' = [pc EXCEPT ![th] = "swapOut"]
  /\ op' = [op EXCEPT ![th] = t_fiber[th]]
  /\ UNCHANGED <<m_state, m_ctx, m_cb, home, held, owned, t_fiber, t_threadFiber, cpu,
                 s_fiber_count, end, uses>>

\* Mutant of swapOutSwitch: setcontext for swapcontext, nothing is saved.
swapOutSwitchLost(th) ==
  /\ end = "running" /\ pc[th] = "swapOut"
  /\ t_fiber' = [t_fiber EXCEPT ![th] = t_threadFiber[th]]
  /\ pc' = [pc EXCEPT ![th] = "user"]
  /\ m_ctx' = [m_ctx EXCEPT ![t_threadFiber[th]].kind = "stale"]
  /\ cpu' = [cpu EXCEPT ![th] = m_ctx[t_threadFiber[th]].stack]
  /\ end' = IF m_ctx[t_threadFiber[th]].kind = "stale" THEN "undefined" ELSE end
  /\ UNCHANGED <<m_state, m_cb, home, held, owned, t_threadFiber, op, s_fiber_count, uses>>

\* Mutant of swapOutSwitch: SetThis is missing.
swapOutSwitchOnly(th) ==
  /\ end = "running" /\ pc[th] = "swapOut"
  /\ pc' = [pc EXCEPT ![th] = "user"]
  /\ Switch(th, op[th], t_threadFiber[th])
  /\ UNCHANGED <<m_state, m_cb, home, held, t_fiber, t_threadFiber, op, s_fiber_count, uses>>

\* Mutant of swapOutSwitch: the position is saved in the main fiber.
swapOutSwitchMain(th) ==
  /\ end = "running" /\ pc[th] = "swapOut"
  /\ t_fiber' = [t_fiber EXCEPT ![th] = t_threadFiber[th]]
  /\ pc' = [pc EXCEPT ![th] = "user"]
  /\ Switch(th, t_threadFiber[th], t_threadFiber[th])
  /\ UNCHANGED <<m_state, m_cb, home, held, t_threadFiber, op, s_fiber_count, uses>>

\* swapOut(): SetThis(main) and the switch.
swapOutSwitch(th) ==
  /\ end = "running" /\ pc[th] = "swapOut"
  /\ t_fiber' = [t_fiber EXCEPT ![th] = t_threadFiber[th]]
  /\ pc' = [pc EXCEPT ![th] = "user"]
  /\ Switch(th, op[th], t_threadFiber[th])
  /\ UNCHANGED <<m_state, m_cb, home, held, t_threadFiber, op, s_fiber_count, uses>>

------------------------------------------------------------------------------
\* The callback returns (state TERM) or throws (EXCEPT) and MainFunc returns: cur is
\* released, and as uc_link is null there is nothing to go on with: the C library
\* ends the process (glibc; by POSIX, the thread).
MainFunc(th, state) ==
  /\ Runs(th) /\ cpu[th] \in Fibers
  /\ LET f == cpu[th]
     IN /\ m_cb' = IF state = "TERM" THEN [m_cb EXCEPT ![f] = FALSE] ELSE m_cb
        /\ owned' = owned \ {f}
        /\ m_state' = [m_state EXCEPT ![f] = IF f \in held THEN state ELSE "freed"]
        /\ s_fiber_count' = IF f \in held THEN s_fiber_count ELSE s_fiber_count - 1
  /\ end' = "exit"
  /\ UNCHANGED <<m_ctx, home, held, t_fiber, t_threadFiber, cpu, pc, op, uses>>

\* The thread ends: t_threadFiber is released and the main fiber destroyed.
threadEnd(th) ==
  /\ Runs(th) /\ cpu[th] = th
  /\ pc' = [pc EXCEPT ![th] = "ended"]
  /\ IF t_threadFiber[th] # null
     THEN /\ m_state' = [m_state EXCEPT ![t_threadFiber[th]] = "freed"]
          /\ t_fiber' = [t_fiber EXCEPT ![th] = IF @ = t_threadFiber[th] THEN null ELSE @]
          /\ s_fiber_count' = s_fiber_count - 1
     ELSE UNCHANGED <<m_state, t_fiber, s_fiber_count>>
  /\ UNCHANGED <<m_ctx, m_cb, home, held, owned, t_threadFiber, cpu, op, end, uses>>

------------------------------------------------------------------------------
Init ==
  /\ m_state = [o \in Objects |-> "none"]
  /\ m_ctx = [o \in Objects |-> Stale(o)]
  /\ m_cb = [f \in Fibers |-> FALSE]
  /\ home = [f \in Fibers |-> null]
  /\ held = {} /\ owned = {}
  /\ t_fiber = [th \in Threads |-> null]
  /\ t_threadFiber = [th \in Threads |-> null]
  /\ cpu = [th \in Threads |-> th]
  /\ pc = [th \in Threads |-> "user"]
  /\ op = [th \in Threads |-> null]
  /\ s_fiber_count = 0
  /\ end = "running"
  /\ uses = {}

Next ==
  \E th \in Threads :
    \/ GetThis(th)
    \/ \E f \in Fibers : Construct(th, f) \/ reset(th, f) \/ release(th, f) \/ swapIn(th, f)
    \/ swapInSwitch(th)
    \/ \E state \in {"READY", "HOLD"} : yield(th, state)
    \/ swapOut(th)
    \/ swapOutSwitch(th)
    \/ \E state \in {"TERM", "EXCEPT"} : MainFunc(th, state)
    \/ threadEnd(th)

Spec == Init /\ [][Next]_vars

------------------------------------------------------------------------------
States == {"none", "INIT", "HOLD", "EXEC", "TERM", "READY", "EXCEPT", "freed"}
Context == [kind : {"entry", "saved", "stale"}, stack : Objects]

Types ==
  /\ m_state \in [Objects -> States]
  /\ m_ctx \in [Objects -> Context]
  /\ m_cb \in [Fibers -> BOOLEAN]
  /\ home \in [Fibers -> Threads \cup {null}]
  /\ held \subseteq Fibers /\ owned \subseteq Fibers
  /\ t_fiber \in [Threads -> Objects \cup {null}]
  /\ t_threadFiber \in [Threads -> Threads \cup {null}]
  /\ cpu \in [Threads -> Objects]
  /\ pc \in [Threads -> {"user", "swapIn", "swapOut", "ended"}]
  /\ op \in [Threads -> Objects \cup {null}]
  /\ end \in {"running", "exit", "reset", "swapIn", "destructor", "null", "undefined"}
  /\ uses \subseteq {"nested", "shared"}

\* The variables keep their types; s_fiber_count, unsigned in the code, does not wrap.
TypeOK == Types /\ s_fiber_count \in 0 .. Cardinality(Objects)

\* GetThis() returns the fiber "at the current point of execution" (fiber.h:39),
\* through any sequence of switches, until code in a fiber manages fibers itself.
CurrentFiber ==
  ~Nested => \A th \in Threads : Runs(th) /\ t_fiber[th] # null => t_fiber[th] = cpu[th]

\* No switch resumes a stale context: a fiber goes on exactly where it was switched
\* out, and so does the swapIn that resumed it.  A fiber that a second thread resumes
\* between the state HOLD and the switch (fiber.cpp:161) has not been saved.
ResumesWhereItLeft == ~Shared => end # "undefined"

\* Every yield and every swapOut ends on the native stack of its thread ("now ->
\* main", fiber.cpp:123), whichever fibers were resumed before, until code in a fiber
\* manages fibers itself.
BackToMain ==
  [][~Nested => \A th \in Threads : pc[th] = "swapOut" /\ pc'[th] = "user" => cpu'[th] = th]_vars

\* The destructor's assertion (fiber.cpp:72) never fails, and no thread runs on a
\* freed stack: a fiber that has begun and not ended is kept by MainFunc's own
\* pointer, whenever user code gives up the others.
NotDestroyedWhileSuspended ==
  /\ end # "destructor"
  /\ \A th \in Threads : Runs(th) => m_state[cpu[th]] # "freed"

\* A fiber that has ended can be given a new callback: "reset ... generally in the state
\* INIT or TERM" (fiber.h:32).  So the end of a fiber does not end the process.
EndedIsReusable == \A f \in Fibers : m_state[f] = "TERM" => end # "exit"
==============================================================================
