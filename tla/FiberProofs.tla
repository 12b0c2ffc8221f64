----------------------------- MODULE FiberProofs -----------------------------
(***************************************************************************)
(* Theorems about Fiber, for any number of threads and fibers.             *)
(*                                                                         *)
(* Two things hold whatever the users of fibers do, code in a fiber that   *)
(* manages other fibers and threads that share them included: the counters *)
(* and the destructor's assertion are right.  Their invariant is GenInv:   *)
(* the context of a fiber is on the fiber's own stack, which owns the      *)
(* fiber from its beginning on, and a context that can be resumed is that  *)
(* of a native stack or of a fiber that has begun.                         *)
(*                                                                         *)
(* That GetThis() is the fiber that runs, and that a yield ends on the     *)
(* native stack, holds until code in a fiber manages fibers itself         *)
(* (Nested): till then a main fiber's context is the native stack while a  *)
(* fiber runs (FlatInv).  That no switch resumes a stale context holds     *)
(* until a thread uses a fiber that another constructed (Shared): till     *)
(* then a fiber that a thread is about to resume is an entry or has been   *)
(* saved (HomeInv, SuspendedInv).                                          *)
(***************************************************************************)
EXTENDS Fiber, FiniteSetTheorems, TLAPS

Begun == {"EXEC", "HOLD", "READY"}

\* The main fiber of a thread exists from its first GetThis() to the thread's end.
MainInv ==
  end = "running" => \A th \in Threads : pc[th] # "ended" =>
    \/ t_threadFiber[th] = null /\ m_state[th] = "none"
    \/ t_threadFiber[th] = th /\ m_state[th] \in Begun

\* Whose stack a context is on.
ContextInv ==
  end = "running" =>
    /\ \A f \in Fibers : m_ctx[f].stack = f /\ (m_ctx[f].kind = "saved" => f \in owned)
    /\ \A th \in Threads :
         /\ m_ctx[th].kind # "entry"
         /\ m_ctx[th].kind = "saved" => m_ctx[th].stack \in {th} \cup owned

\* Where a thread is, and what its thread-locals say.
RunInv ==
  end = "running" => \A th \in Threads :
    /\ cpu[th] \in {th} \cup owned
    /\ cpu[th] # th => t_threadFiber[th] = th /\ pc[th] # "ended"
    /\ t_fiber[th] \in {null, th} \cup Fibers
    /\ t_fiber[th] = null /\ pc[th] = "user" => t_threadFiber[th] = null
    /\ t_fiber[th] = th => t_threadFiber[th] = th
    /\ t_fiber[th] \in Fibers /\ pc[th] # "swapIn" => t_fiber[th] = cpu[th]
    /\ pc[th] = "swapIn" => op[th] \in held /\ op[th] = t_fiber[th]
    /\ pc[th] = "swapOut" => op[th] = t_fiber[th] /\ op[th] # null /\ t_threadFiber[th] = th

\* The fibers that their own stacks own are those that have begun.
OwnInv ==
  end = "running" => \A f \in Fibers :
    /\ m_state[f] \in Begun \cup {"none", "INIT", "freed"}
    /\ f \in owned <=> m_state[f] \in Begun
    /\ f \in held => m_state[f] \in Begun \cup {"INIT"}

\* No failed assertion of the destructor.
SafeInv == end # "destructor"

GenInv == Types /\ MainInv /\ ContextInv /\ RunInv /\ OwnInv /\ SafeInv

\* Until code in a fiber manages fibers: the thread-local names the stack that
\* runs, and while that is a fiber's, the main fiber holds the native stack.
FlatInv ==
  ~Nested /\ end = "running" => \A th \in Threads :
    /\ t_fiber[th] \in {null, th} => cpu[th] = th
    /\ pc[th] = "swapIn" => cpu[th] = th
    /\ cpu[th] # th => m_ctx[th] = Saved(th)

\* Until a thread uses a fiber that another constructed: the fiber a thread runs
\* is its own, and its main fiber can be resumed.
HomeInv ==
  ~Shared /\ end = "running" => \A th \in Threads :
    /\ t_fiber[th] \in Fibers => home[t_fiber[th]] = th
    /\ t_fiber[th] \in Fibers /\ pc[th] # "swapIn" => m_ctx[th].kind = "saved"
    /\ pc[th] = "swapIn" => m_state[op[th]] # "EXEC"

\* Till then, too: a fiber that does not run holds its entry, or its position unless
\* it is still on the way out.
SuspendedInv ==
  ~Shared /\ end = "running" => \A f \in Fibers :
    /\ f \in held => home[f] \in Threads
    /\ m_state[f] = "INIT" => m_ctx[f].kind = "entry"
    /\ m_state[f] \in {"READY", "HOLD"} =>
         \/ m_ctx[f].kind = "saved"
         \/ \E th \in Threads : pc[th] = "swapOut" /\ op[th] = f

FreshInv == HomeInv /\ SuspendedInv /\ ResumesWhereItLeft

------------------------------------------------------------------------------
\* Init establishes every part.
LEMMA InitInv == Init => GenInv /\ FlatInv /\ FreshInv
  BY FiberAssumption
  DEF Init, GenInv, Types, MainInv, ContextInv, RunInv, OwnInv, SafeInv, FlatInv, FreshInv, HomeInv,
      SuspendedInv, ResumesWhereItLeft, Begun, States, Context, Stale, Objects

\* What a switch does to the contexts: only the two change, the one that is left holds
\* the position, the one that is resumed is stale from then on.
LEMMA SwitchContexts ==
  ASSUME Types, NEW th \in Threads, NEW from \in Objects, NEW to \in Objects, Switch(th, from, to)
  PROVE  /\ m_ctx' \in [Objects -> Context]
         /\ \A o \in Objects \ {from, to} : m_ctx'[o] = m_ctx[o]
         /\ from # to => m_ctx'[from] = Saved(cpu[th]) /\ m_ctx'[to].stack = m_ctx[to].stack
         /\ m_ctx'[to].kind = "stale"
<1> DEFINE saved == [m_ctx EXCEPT ![from] = Saved(cpu[th])]
<1>1. Saved(cpu[th]) \in Context
  BY DEF Saved, Context, Types
<1>2. saved \in [Objects -> Context]
  BY <1>1 DEF Types
<1>3. [saved[to] EXCEPT !.kind = "stale"] \in Context
  BY <1>2 DEF Context
<1>4. m_ctx' = [saved EXCEPT ![to] = [saved[to] EXCEPT !.kind = "stale"]]
  BY <1>2 DEF Switch
<1>5. /\ [saved[to] EXCEPT !.kind = "stale"].kind = "stale"
      /\ [saved[to] EXCEPT !.kind = "stale"].stack = saved[to].stack
  BY <1>2 DEF Context
<1> HIDE DEF saved
<1>6. /\ m_ctx' \in [Objects -> Context]
      /\ m_ctx'[to].kind = "stale" /\ m_ctx'[to].stack = saved[to].stack
      /\ \A o \in Objects \ {to} : m_ctx'[o] = saved[o]
  BY <1>2, <1>3, <1>4, <1>5
<1>7. QED
  BY <1>6 DEF saved, Types

\* Where a switch goes.
LEMMA SwitchTarget ==
  ASSUME Types, NEW th \in Threads, NEW from \in Objects, NEW to \in Objects, Switch(th, from, to),
         NEW c, c = IF from = to THEN Saved(cpu[th]) ELSE m_ctx[to]
  PROVE  /\ cpu' = [cpu EXCEPT ![th] = c.stack]
         /\ owned' = IF c.kind = "entry" THEN owned \cup {c.stack} ELSE owned
         /\ end' = IF c.kind = "stale" THEN "undefined" ELSE end
<1>1. [m_ctx EXCEPT ![from] = Saved(cpu[th])][to] = c
  BY DEF Types
<1>2. QED
  BY <1>1 DEF Switch

------------------------------------------------------------------------------
\* What swapInSwitch does when there is a main fiber: the position of the thread goes
\* to the main fiber, and the thread to the fiber, which is owned from then on.
SwapInResult(th) ==
  /\ end = "running" /\ t_threadFiber[th] = th
  /\ op[th] \in Fibers /\ op[th] \in held /\ t_fiber[th] = op[th]
  /\ m_ctx' \in [Objects -> Context]
  /\ \A o \in Objects \ {th, op[th]} : m_ctx'[o] = m_ctx[o]
  /\ m_ctx'[th] = Saved(cpu[th])
  /\ m_ctx'[op[th]].kind = "stale" /\ m_ctx'[op[th]].stack = op[th]
  /\ cpu' = [cpu EXCEPT ![th] = op[th]]
  /\ owned' \in {owned, owned \cup {op[th]}}
  /\ end' = IF m_ctx[op[th]].kind = "stale" THEN "undefined" ELSE "running"
  /\ end' = "running" => owned' = owned \cup {op[th]}

\* It does so.
LEMMA SwapInEffect ==
  ASSUME GenInv, NEW th \in Threads, swapInSwitch(th), t_threadFiber[th] # null
  PROVE  SwapInResult(th)
<1> DEFINE f == op[th]
<1>1. /\ end = "running" /\ pc[th] = "swapIn" /\ f \in Fibers /\ t_fiber[th] = f /\ f \in held
  BY DEF swapInSwitch, GenInv, RunInv, Types
<1>2. t_threadFiber[th] = th
  BY <1>1 DEF GenInv, MainInv
<1>3. th \in Objects /\ f \in Objects /\ th # f
  BY <1>1, FiberAssumption DEF Objects
<1>4. Switch(th, th, f)
  BY <1>1, <1>2 DEF swapInSwitch
<1>5. m_ctx[f].stack = f /\ (m_ctx[f].kind = "saved" => f \in owned)
  BY <1>1 DEF GenInv, ContextInv
<1>6. m_ctx[f].kind \in {"entry", "saved", "stale"}
  BY <1>3 DEF GenInv, Types, Context
<1>7. /\ cpu' = [cpu EXCEPT ![th] = m_ctx[f].stack]
      /\ owned' = IF m_ctx[f].kind = "entry" THEN owned \cup {m_ctx[f].stack} ELSE owned
      /\ end' = IF m_ctx[f].kind = "stale" THEN "undefined" ELSE end
  BY <1>3, <1>4, SwitchTarget DEF GenInv
<1>8. /\ m_ctx' \in [Objects -> Context]
      /\ \A o \in Objects \ {th, f} : m_ctx'[o] = m_ctx[o]
      /\ m_ctx'[th] = Saved(cpu[th]) /\ m_ctx'[f].stack = m_ctx[f].stack
      /\ m_ctx'[f].kind = "stale"
  BY <1>3, <1>4, SwitchContexts DEF GenInv
<1> HIDE DEF f
<1>9. /\ cpu' = [cpu EXCEPT ![th] = f]
      /\ owned' \in {owned, owned \cup {f}}
      /\ end' = IF m_ctx[f].kind = "stale" THEN "undefined" ELSE "running"
      /\ end' = "running" => owned' = owned \cup {f}
  BY <1>1, <1>5, <1>6, <1>7
<1>10. QED
  BY <1>1, <1>2, <1>5, <1>8, <1>9 DEF f, SwapInResult

\* What swapOutSwitch does: the position of a fiber that is left goes to that fiber, and
\* the thread to where its main fiber was left.
SwapOutResult(th) ==
  /\ end = "running" /\ t_threadFiber[th] = th /\ op[th] = t_fiber[th]
  /\ op[th] \in Fibers => op[th] = cpu[th]
  /\ op[th] \in {th} \cup Fibers /\ t_fiber' = [t_fiber EXCEPT ![th] = th]
  /\ m_ctx' \in [Objects -> Context]
  /\ \A o \in Objects \ {th, op[th]} : m_ctx'[o] = m_ctx[o]
  /\ op[th] # th => m_ctx'[op[th]] = Saved(op[th])
  /\ m_ctx'[th].kind = "stale"
  /\ op[th] = th => cpu' = cpu /\ end' = "running"
  /\ op[th] # th => /\ cpu' = [cpu EXCEPT ![th] = m_ctx[th].stack]
                    /\ end' = IF m_ctx[th].kind = "stale" THEN "undefined" ELSE "running"
  /\ owned' = owned

\* It does so.
LEMMA SwapOutEffect ==
  ASSUME GenInv, NEW th \in Threads, swapOutSwitch(th)
  PROVE  SwapOutResult(th)
<1>1. /\ end = "running" /\ op[th] = t_fiber[th] /\ t_threadFiber[th] = th
      /\ op[th] \in {th} \cup Fibers /\ (op[th] \in Fibers => op[th] = cpu[th])
  BY DEF swapOutSwitch, GenInv, RunInv, Types
<1>2. /\ op[th] \in Objects /\ th \in Objects /\ cpu[th] \in Objects
      /\ op[th] # th <=> op[th] \in Fibers
  BY <1>1, FiberAssumption DEF Objects, GenInv, Types
<1>3. Switch(th, op[th], th)
  BY <1>1 DEF swapOutSwitch
<1> DEFINE c == IF op[th] = th THEN Saved(cpu[th]) ELSE m_ctx[th]
<1>4. c.kind # "entry"
  BY <1>1 DEF GenInv, ContextInv, Saved
<1>5. /\ cpu' = [cpu EXCEPT ![th] = c.stack]
      /\ owned' = IF c.kind = "entry" THEN owned \cup {c.stack} ELSE owned
      /\ end' = IF c.kind = "stale" THEN "undefined" ELSE end
  <2> HIDE DEF c
  <2>1. c = IF op[th] = th THEN Saved(cpu[th]) ELSE m_ctx[th]
    BY DEF c
  <2>2. QED
    BY <1>2, <1>3, <2>1, SwitchTarget DEF GenInv
<1>6. /\ op[th] = th => cpu' = [cpu EXCEPT ![th] = cpu[th]] /\ end' = "running"
      /\ op[th] # th => /\ cpu' = [cpu EXCEPT ![th] = m_ctx[th].stack]
                        /\ end' = IF m_ctx[th].kind = "stale" THEN "undefined" ELSE "running"
  BY <1>1, <1>5 DEF Saved
<1>7. owned' = owned
  BY <1>4, <1>5
<1>8. [cpu EXCEPT ![th] = cpu[th]] = cpu
  BY DEF GenInv, Types
<1>9. /\ m_ctx' \in [Objects -> Context]
      /\ \A o \in Objects \ {th, op[th]} : m_ctx'[o] = m_ctx[o]
      /\ op[th] # th => m_ctx'[op[th]] = Saved(cpu[th])
      /\ m_ctx'[th].kind = "stale"
  BY <1>2, <1>3, SwitchContexts DEF GenInv
<1> HIDE DEF c
<1>10. QED
  BY <1>1, <1>2, <1>6, <1>7, <1>8, <1>9 DEF swapOutSwitch, SwapOutResult

\* Every step keeps the types.
LEMMA StepTypes ==
  ASSUME GenInv, [Next]_vars
  PROVE  Types'
<1> USE FiberAssumption DEF GenInv, Types, Runs, Manages, Objects, Begun, MainInv, RunInv, OwnInv, States
<1>1. ASSUME NEW th \in Threads, GetThis(th)
      PROVE  Types'
  BY <1>1 DEF GetThis
<1>2. ASSUME NEW th \in Threads, NEW f \in Fibers, Construct(th, f)
      PROVE  Types'
  BY <1>2 DEF Construct, Entry, Context
<1>3. ASSUME NEW th \in Threads, NEW f \in Fibers, reset(th, f)
      PROVE  Types'
  <2>1. CASE m_state[f] \in {"INIT", "TERM", "EXCEPT"}
    <3>1. Entry(f) \in Context
      BY DEF Entry, Context
    <3>2. m_cb' \in [Fibers -> BOOLEAN]
      <4>1. m_cb' = [m_cb EXCEPT ![f] = TRUE]
        BY <1>3, <2>1 DEF reset
      <4>2. QED
        BY <4>1
    <3>3. m_ctx' \in [Objects -> Context]
      BY <1>3, <2>1, <3>1 DEF reset
    <3>4. m_state' \in [Objects -> States]
      BY <1>3, <2>1 DEF reset
    <3>5. QED
      BY <1>3, <2>1, <3>2, <3>3, <3>4 DEF reset
  <2>2. CASE m_state[f] \notin {"INIT", "TERM", "EXCEPT"}
    BY <1>3, <2>2 DEF reset
  <2>3. QED
    BY <2>1, <2>2
<1>4. ASSUME NEW th \in Threads, NEW f \in Fibers, release(th, f)
      PROVE  Types'
  BY <1>4 DEF release, Destroyed
<1>5. ASSUME NEW th \in Threads, NEW f \in Fibers, swapIn(th, f)
      PROVE  Types'
  BY <1>5 DEF swapIn
<1>6. ASSUME NEW th \in Threads, swapInSwitch(th)
      PROVE  Types'
  <2>1. CASE t_threadFiber[th] = null
    BY <1>6, <2>1 DEF swapInSwitch
  <2>2. CASE t_threadFiber[th] # null
    <3>1. SwapInResult(th)
      BY <1>6, <2>2, SwapInEffect
    <3>2. QED
      BY <1>6, <3>1 DEF SwapInResult, swapInSwitch, Saved
  <2>3. QED
    BY <2>1, <2>2
<1>7. ASSUME NEW th \in Threads, NEW state \in {"READY", "HOLD"}, yield(th, state)
      PROVE  Types'
  BY <1>7 DEF yield
<1>8. ASSUME NEW th \in Threads, swapOut(th)
      PROVE  Types'
  BY <1>8 DEF swapOut
<1>9. ASSUME NEW th \in Threads, swapOutSwitch(th)
      PROVE  Types'
  <2>1. SwapOutResult(th)
    BY <1>9, SwapOutEffect
  <2>2. cpu' \in [Threads -> Objects] /\ end' \in {"running", "undefined"}
    <3>1. CASE op[th] = th
      BY <2>1, <3>1 DEF SwapOutResult
    <3>2. CASE op[th] # th
      <4>1. m_ctx[th] \in Context
        OBVIOUS
      <4>2. m_ctx[th].stack \in Objects
        BY <4>1 DEF Context
      <4>3. QED
        BY <2>1, <3>2, <4>2 DEF SwapOutResult
    <3>3. QED
      BY <3>1, <3>2
  <2>3. t_fiber' \in [Threads -> Objects \cup {null}] /\ m_ctx' \in [Objects -> Context] /\ owned' = owned
    BY <2>1 DEF SwapOutResult
  <2>4. /\ pc' \in [Threads -> {"user", "swapIn", "swapOut", "ended"}]
        /\ UNCHANGED <<m_state, m_cb, home, held, t_threadFiber, op, uses>>
    BY <1>9 DEF swapOutSwitch
  <2>5. QED
    BY <2>2, <2>3, <2>4
<1>10. ASSUME NEW th \in Threads, NEW state \in {"TERM", "EXCEPT"}, MainFunc(th, state)
       PROVE  Types'
  BY <1>10 DEF MainFunc
<1>11. ASSUME NEW th \in Threads, threadEnd(th)
       PROVE  Types'
  BY <1>11 DEF threadEnd
<1>12. CASE UNCHANGED vars
  BY <1>12 DEF vars
<1>13. QED
  BY <1>1, <1>2, <1>3, <1>4, <1>5, <1>6, <1>7, <1>8, <1>9, <1>10, <1>11, <1>12
  DEF Next

\* Every step keeps the main fibers.
LEMMA StepMain ==
  ASSUME GenInv, [Next]_vars
  PROVE  MainInv'
<1> USE FiberAssumption DEF GenInv, Types, Runs, Manages, Objects, Begun, MainInv, RunInv, OwnInv
<1>1. ASSUME NEW th \in Threads, GetThis(th)
      PROVE  MainInv'
  BY <1>1 DEF GetThis
<1>2. ASSUME NEW th \in Threads, NEW f \in Fibers, Construct(th, f)
      PROVE  MainInv'
  BY <1>2 DEF Construct, Entry
<1>3. ASSUME NEW th \in Threads, NEW f \in Fibers, reset(th, f)
      PROVE  MainInv'
  BY <1>3 DEF reset, Entry
<1>4. ASSUME NEW th \in Threads, NEW f \in Fibers, release(th, f)
      PROVE  MainInv'
  BY <1>4 DEF release, Destroyed
<1>5. ASSUME NEW th \in Threads, NEW f \in Fibers, swapIn(th, f)
      PROVE  MainInv'
  BY <1>5 DEF swapIn
<1>6. ASSUME NEW th \in Threads, swapInSwitch(th)
      PROVE  MainInv'
  <2>1. CASE t_threadFiber[th] = null
    BY <1>6, <2>1 DEF swapInSwitch
  <2>2. CASE t_threadFiber[th] # null
    <3>1. SwapInResult(th)
      BY <1>6, <2>2, SwapInEffect
    <3>2. QED
      BY <1>6, <3>1 DEF SwapInResult, swapInSwitch, Saved
  <2>3. QED
    BY <2>1, <2>2
<1>7. ASSUME NEW th \in Threads, NEW state \in {"READY", "HOLD"}, yield(th, state)
      PROVE  MainInv'
  BY <1>7 DEF yield
<1>8. ASSUME NEW th \in Threads, swapOut(th)
      PROVE  MainInv'
  BY <1>8 DEF swapOut
<1>9. ASSUME NEW th \in Threads, swapOutSwitch(th)
      PROVE  MainInv'
  <2>1. SwapOutResult(th)
    BY <1>9, SwapOutEffect
  <2>2. QED
    BY <1>9, <2>1 DEF SwapOutResult, swapOutSwitch, Saved
<1>10. ASSUME NEW th \in Threads, NEW state \in {"TERM", "EXCEPT"}, MainFunc(th, state)
       PROVE  MainInv'
  BY <1>10 DEF MainFunc
<1>11. ASSUME NEW th \in Threads, threadEnd(th)
       PROVE  MainInv'
  BY <1>11 DEF threadEnd
<1>12. CASE UNCHANGED vars
  BY <1>12 DEF vars
<1>13. QED
  BY <1>1, <1>2, <1>3, <1>4, <1>5, <1>6, <1>7, <1>8, <1>9, <1>10, <1>11, <1>12
  DEF Next

\* Every step keeps the contexts on their stacks.
LEMMA StepContext ==
  ASSUME GenInv, [Next]_vars
  PROVE  ContextInv'
<1> USE FiberAssumption DEF GenInv, Types, Runs, Manages, Objects, Begun, ContextInv, RunInv, OwnInv
<1>1. ASSUME NEW th \in Threads, GetThis(th)
      PROVE  ContextInv'
  BY <1>1 DEF GetThis
<1>2. ASSUME NEW th \in Threads, NEW f \in Fibers, Construct(th, f)
      PROVE  ContextInv'
  BY <1>2 DEF Construct, Entry
<1>3. ASSUME NEW th \in Threads, NEW f \in Fibers, reset(th, f)
      PROVE  ContextInv'
  <2>1. CASE m_state[f] \in {"INIT", "TERM", "EXCEPT"}
    <3>1. m_ctx' = [m_ctx EXCEPT ![f] = Entry(f)] /\ end' = end /\ owned' = owned
      BY <1>3, <2>1 DEF reset
    <3>2. Entry(f).stack = f /\ Entry(f).kind = "entry"
      BY DEF Entry
    <3>3. QED
      BY <3>1, <3>2
  <2>2. CASE m_state[f] \notin {"INIT", "TERM", "EXCEPT"}
    BY <1>3, <2>2 DEF reset
  <2>3. QED
    BY <2>1, <2>2
<1>4. ASSUME NEW th \in Threads, NEW f \in Fibers, release(th, f)
      PROVE  ContextInv'
  BY <1>4 DEF release, Destroyed
<1>5. ASSUME NEW th \in Threads, NEW f \in Fibers, swapIn(th, f)
      PROVE  ContextInv'
  BY <1>5 DEF swapIn
<1>6. ASSUME NEW th \in Threads, swapInSwitch(th)
      PROVE  ContextInv'
  <2>1. CASE t_threadFiber[th] = null
    BY <1>6, <2>1 DEF swapInSwitch
  <2>2. CASE t_threadFiber[th] # null
    <3>1. SwapInResult(th)
      BY <1>6, <2>2, SwapInEffect
    <3> SUFFICES ASSUME end' = "running"
                 PROVE  ContextInv'
      OBVIOUS
    <3>2. owned' = owned \cup {op[th]} /\ op[th] \in Fibers /\ th \notin Fibers
      BY <3>1 DEF SwapInResult
    <3>3. ASSUME NEW g \in Fibers
          PROVE  m_ctx'[g].stack = g /\ (m_ctx'[g].kind = "saved" => g \in owned')
      BY <3>1, <3>2 DEF SwapInResult
    <3>4. ASSUME NEW u \in Threads
          PROVE  /\ m_ctx'[u].kind # "entry"
                 /\ m_ctx'[u].kind = "saved" => m_ctx'[u].stack \in {u} \cup owned'
      <4>1. m_ctx'[th].kind = "saved" /\ m_ctx'[th].stack = cpu[th]
        BY <3>1 DEF SwapInResult, Saved
      <4>2. cpu[th] \in {th} \cup owned
        BY <3>1 DEF SwapInResult
      <4>3. u # th => m_ctx'[u] = m_ctx[u]
        BY <3>1, <3>2 DEF SwapInResult
      <4>4. QED
        BY <3>1, <3>2, <4>1, <4>2, <4>3 DEF SwapInResult
    <3>5. QED
      BY <3>3, <3>4
  <2>3. QED
    BY <2>1, <2>2
<1>7. ASSUME NEW th \in Threads, NEW state \in {"READY", "HOLD"}, yield(th, state)
      PROVE  ContextInv'
  BY <1>7 DEF yield
<1>8. ASSUME NEW th \in Threads, swapOut(th)
      PROVE  ContextInv'
  BY <1>8 DEF swapOut
<1>9. ASSUME NEW th \in Threads, swapOutSwitch(th)
      PROVE  ContextInv'
  <2>1. SwapOutResult(th)
    BY <1>9, SwapOutEffect
  <2>2. CASE op[th] = th
    BY <1>9, <2>1, <2>2 DEF SwapOutResult, swapOutSwitch
  <2>3. CASE op[th] # th
    <3>1. op[th] \in Fibers /\ op[th] \in owned /\ m_ctx'[op[th]] = Saved(op[th])
      BY <2>1, <2>3 DEF SwapOutResult
    <3>2. \A o \in Objects \ {th, op[th]} : m_ctx'[o] = m_ctx[o]
      BY <2>1 DEF SwapOutResult
    <3>3. m_ctx'[th].kind = "stale" /\ owned' = owned /\ end = "running"
      BY <2>1 DEF SwapOutResult
    <3>4. ASSUME NEW f \in Fibers
          PROVE  m_ctx'[f].stack = f /\ (m_ctx'[f].kind = "saved" => f \in owned')
      <4>1. m_ctx[f].stack = f /\ (m_ctx[f].kind = "saved" => f \in owned) /\ f \in Objects \ {th}
        BY <3>3
      <4>2. CASE f = op[th]
        BY <3>1, <3>3, <4>2 DEF Saved
      <4>3. CASE f # op[th]
        BY <3>2, <3>3, <4>1, <4>3
      <4>4. QED
        BY <4>2, <4>3
    <3>5. ASSUME NEW u \in Threads
          PROVE  m_ctx'[u].kind # "entry" /\ (m_ctx'[u].kind = "saved" => m_ctx'[u].stack \in {u} \cup owned')
      <4>1. m_ctx[u].kind # "entry" /\ (m_ctx[u].kind = "saved" => m_ctx[u].stack \in {u} \cup owned)
            /\ u \in Objects \ {op[th]}
        BY <3>1, <3>3
      <4>2. CASE u = th
        BY <3>3, <4>2
      <4>3. CASE u # th
        BY <3>2, <3>3, <4>1, <4>3
      <4>4. QED
        BY <4>2, <4>3
    <3>6. QED
      BY <3>4, <3>5
  <2>4. QED
    BY <2>2, <2>3
<1>10. ASSUME NEW th \in Threads, NEW state \in {"TERM", "EXCEPT"}, MainFunc(th, state)
       PROVE  ContextInv'
  BY <1>10 DEF MainFunc
<1>11. ASSUME NEW th \in Threads, threadEnd(th)
       PROVE  ContextInv'
  BY <1>11 DEF threadEnd
<1>12. CASE UNCHANGED vars
  BY <1>12 DEF vars
<1>13. QED
  BY <1>1, <1>2, <1>3, <1>4, <1>5, <1>6, <1>7, <1>8, <1>9, <1>10, <1>11, <1>12
  DEF Next

\* Every step keeps the threads and their thread-locals together.
LEMMA StepRun ==
  ASSUME GenInv, [Next]_vars
  PROVE  RunInv'
<1> USE FiberAssumption DEF GenInv, Types, Runs, Manages, Objects, Begun, MainInv, ContextInv, RunInv, OwnInv
<1>1. ASSUME NEW th \in Threads, GetThis(th)
      PROVE  RunInv'
  BY <1>1 DEF GetThis
<1>2. ASSUME NEW th \in Threads, NEW f \in Fibers, Construct(th, f)
      PROVE  RunInv'
  BY <1>2 DEF Construct, Entry
<1>3. ASSUME NEW th \in Threads, NEW f \in Fibers, reset(th, f)
      PROVE  RunInv'
  BY <1>3 DEF reset, Entry
<1>4. ASSUME NEW th \in Threads, NEW f \in Fibers, release(th, f)
      PROVE  RunInv'
  BY <1>4 DEF release, Destroyed
<1>5. ASSUME NEW th \in Threads, NEW f \in Fibers, swapIn(th, f)
      PROVE  RunInv'
  BY <1>5 DEF swapIn
<1>6. ASSUME NEW th \in Threads, swapInSwitch(th)
      PROVE  RunInv'
  <2>1. CASE t_threadFiber[th] = null
    BY <1>6, <2>1 DEF swapInSwitch
  <2>2. CASE t_threadFiber[th] # null
    <3>1. SwapInResult(th)
      BY <1>6, <2>2, SwapInEffect
    <3>2. QED
      BY <1>6, <3>1 DEF SwapInResult, swapInSwitch, Saved
  <2>3. QED
    BY <2>1, <2>2
<1>7. ASSUME NEW th \in Threads, NEW state \in {"READY", "HOLD"}, yield(th, state)
      PROVE  RunInv'
  BY <1>7 DEF yield
<1>8. ASSUME NEW th \in Threads, swapOut(th)
      PROVE  RunInv'
  BY <1>8 DEF swapOut
<1>9. ASSUME NEW th \in Threads, swapOutSwitch(th)
      PROVE  RunInv'
  <2>1. SwapOutResult(th)
    BY <1>9, SwapOutEffect
  <2> SUFFICES ASSUME end' = "running"
               PROVE  RunInv'
    OBVIOUS
  <2>2. owned' = owned /\ end = "running" /\ t_threadFiber[th] = th /\ cpu[th] \in {th} \cup owned
    BY <2>1 DEF SwapOutResult
  <2>3. cpu'[th] \in {th} \cup owned /\ \A u \in Threads \ {th} : cpu'[u] = cpu[u]
    <3>1. CASE op[th] = th
      BY <2>1, <2>2, <3>1 DEF SwapOutResult
    <3>2. CASE op[th] # th
      <4>1. m_ctx[th].kind # "stale" /\ cpu' = [cpu EXCEPT ![th] = m_ctx[th].stack]
        BY <2>1, <3>2 DEF SwapOutResult
      <4>2. m_ctx[th].kind = "saved"
        BY <2>2, <4>1 DEF Context
      <4>3. m_ctx[th].stack \in {th} \cup owned
        BY <2>2, <4>2
      <4>4. QED
        BY <4>1, <4>3
    <3>3. QED
      BY <3>1, <3>2
  <2>4. QED
    BY <1>9, <2>1, <2>2, <2>3 DEF SwapOutResult, swapOutSwitch
<1>10. ASSUME NEW th \in Threads, NEW state \in {"TERM", "EXCEPT"}, MainFunc(th, state)
       PROVE  RunInv'
  BY <1>10 DEF MainFunc
<1>11. ASSUME NEW th \in Threads, threadEnd(th)
       PROVE  RunInv'
  BY <1>11 DEF threadEnd
<1>12. CASE UNCHANGED vars
  BY <1>12 DEF vars
<1>13. QED
  BY <1>1, <1>2, <1>3, <1>4, <1>5, <1>6, <1>7, <1>8, <1>9, <1>10, <1>11, <1>12
  DEF Next

\* Every step keeps the owners.
LEMMA StepOwn ==
  ASSUME GenInv, [Next]_vars
  PROVE  OwnInv'
<1> USE FiberAssumption DEF GenInv, Types, Runs, Manages, Objects, Begun, ContextInv, RunInv, OwnInv
<1>1. ASSUME NEW th \in Threads, GetThis(th)
      PROVE  OwnInv'
  BY <1>1 DEF GetThis
<1>2. ASSUME NEW th \in Threads, NEW f \in Fibers, Construct(th, f)
      PROVE  OwnInv'
  BY <1>2 DEF Construct, Entry
<1>3. ASSUME NEW th \in Threads, NEW f \in Fibers, reset(th, f)
      PROVE  OwnInv'
  BY <1>3 DEF reset, Entry
<1>4. ASSUME NEW th \in Threads, NEW f \in Fibers, release(th, f)
      PROVE  OwnInv'
  BY <1>4 DEF release, Destroyed
<1>5. ASSUME NEW th \in Threads, NEW f \in Fibers, swapIn(th, f)
      PROVE  OwnInv'
  BY <1>5 DEF swapIn
<1>6. ASSUME NEW th \in Threads, swapInSwitch(th)
      PROVE  OwnInv'
  <2>1. CASE t_threadFiber[th] = null
    BY <1>6, <2>1 DEF swapInSwitch
  <2>2. CASE t_threadFiber[th] # null
    <3>1. SwapInResult(th)
      BY <1>6, <2>2, SwapInEffect
    <3>2. QED
      BY <1>6, <3>1 DEF SwapInResult, swapInSwitch, Saved
  <2>3. QED
    BY <2>1, <2>2
<1>7. ASSUME NEW th \in Threads, NEW state \in {"READY", "HOLD"}, yield(th, state)
      PROVE  OwnInv'
  BY <1>7 DEF yield
<1>8. ASSUME NEW th \in Threads, swapOut(th)
      PROVE  OwnInv'
  BY <1>8 DEF swapOut
<1>9. ASSUME NEW th \in Threads, swapOutSwitch(th)
      PROVE  OwnInv'
  <2>1. SwapOutResult(th)
    BY <1>9, SwapOutEffect
  <2>2. QED
    BY <1>9, <2>1 DEF SwapOutResult, swapOutSwitch, Saved
<1>10. ASSUME NEW th \in Threads, NEW state \in {"TERM", "EXCEPT"}, MainFunc(th, state)
       PROVE  OwnInv'
  BY <1>10 DEF MainFunc
<1>11. ASSUME NEW th \in Threads, threadEnd(th)
       PROVE  OwnInv'
  BY <1>11 DEF threadEnd
<1>12. CASE UNCHANGED vars
  BY <1>12 DEF vars
<1>13. QED
  BY <1>1, <1>2, <1>3, <1>4, <1>5, <1>6, <1>7, <1>8, <1>9, <1>10, <1>11, <1>12
  DEF Next

\* No step destroys a fiber that has begun.
LEMMA StepSafe ==
  ASSUME GenInv, [Next]_vars
  PROVE  SafeInv'
<1> USE FiberAssumption DEF GenInv, Types, Runs, Manages, Objects, Begun, RunInv, OwnInv, SafeInv
<1>1. ASSUME NEW th \in Threads, GetThis(th)
      PROVE  SafeInv'
  BY <1>1 DEF GetThis
<1>2. ASSUME NEW th \in Threads, NEW f \in Fibers, Construct(th, f)
      PROVE  SafeInv'
  BY <1>2 DEF Construct, Entry
<1>3. ASSUME NEW th \in Threads, NEW f \in Fibers, reset(th, f)
      PROVE  SafeInv'
  BY <1>3 DEF reset, Entry
<1>4. ASSUME NEW th \in Threads, NEW f \in Fibers, release(th, f)
      PROVE  SafeInv'
  BY <1>4 DEF release, Destroyed
<1>5. ASSUME NEW th \in Threads, NEW f \in Fibers, swapIn(th, f)
      PROVE  SafeInv'
  BY <1>5 DEF swapIn
<1>6. ASSUME NEW th \in Threads, swapInSwitch(th)
      PROVE  SafeInv'
  <2>1. CASE t_threadFiber[th] = null
    BY <1>6, <2>1 DEF swapInSwitch
  <2>2. CASE t_threadFiber[th] # null
    <3>1. SwapInResult(th)
      BY <1>6, <2>2, SwapInEffect
    <3>2. QED
      BY <1>6, <3>1 DEF SwapInResult, swapInSwitch, Saved
  <2>3. QED
    BY <2>1, <2>2
<1>7. ASSUME NEW th \in Threads, NEW state \in {"READY", "HOLD"}, yield(th, state)
      PROVE  SafeInv'
  BY <1>7 DEF yield
<1>8. ASSUME NEW th \in Threads, swapOut(th)
      PROVE  SafeInv'
  BY <1>8 DEF swapOut
<1>9. ASSUME NEW th \in Threads, swapOutSwitch(th)
      PROVE  SafeInv'
  <2>1. SwapOutResult(th)
    BY <1>9, SwapOutEffect
  <2>2. QED
    BY <1>9, <2>1 DEF SwapOutResult, swapOutSwitch, Saved
<1>10. ASSUME NEW th \in Threads, NEW state \in {"TERM", "EXCEPT"}, MainFunc(th, state)
       PROVE  SafeInv'
  BY <1>10 DEF MainFunc
<1>11. ASSUME NEW th \in Threads, threadEnd(th)
       PROVE  SafeInv'
  BY <1>11 DEF threadEnd
<1>12. CASE UNCHANGED vars
  BY <1>12 DEF vars
<1>13. QED
  BY <1>1, <1>2, <1>3, <1>4, <1>5, <1>6, <1>7, <1>8, <1>9, <1>10, <1>11, <1>12
  DEF Next

------------------------------------------------------------------------------
\* Every step that leaves Nested false keeps the native stack in the main fiber.
LEMMA StepFlat ==
  ASSUME GenInv, FlatInv, [Next]_vars
  PROVE  FlatInv'
<1> USE FiberAssumption DEF GenInv, Types, Runs, Manages, Objects, Begun, RunInv, FlatInv, Nested
<1>1. ASSUME NEW th \in Threads, GetThis(th)
      PROVE  FlatInv'
  BY <1>1 DEF GetThis
<1>2. ASSUME NEW th \in Threads, NEW f \in Fibers, Construct(th, f)
      PROVE  FlatInv'
  BY <1>2 DEF Construct, Entry
<1>3. ASSUME NEW th \in Threads, NEW f \in Fibers, reset(th, f)
      PROVE  FlatInv'
  BY <1>3 DEF reset, Entry
<1>4. ASSUME NEW th \in Threads, NEW f \in Fibers, release(th, f)
      PROVE  FlatInv'
  BY <1>4 DEF release, Destroyed
<1>5. ASSUME NEW th \in Threads, NEW f \in Fibers, swapIn(th, f)
      PROVE  FlatInv'
  BY <1>5 DEF swapIn
<1>6. ASSUME NEW th \in Threads, swapInSwitch(th)
      PROVE  FlatInv'
  <2>1. CASE t_threadFiber[th] = null
    BY <1>6, <2>1 DEF swapInSwitch
  <2>2. CASE t_threadFiber[th] # null
    <3>1. SwapInResult(th)
      BY <1>6, <2>2, SwapInEffect
    <3>2. QED
      BY <1>6, <3>1 DEF SwapInResult, swapInSwitch, Saved
  <2>3. QED
    BY <2>1, <2>2
<1>7. ASSUME NEW th \in Threads, NEW state \in {"READY", "HOLD"}, yield(th, state)
      PROVE  FlatInv'
  BY <1>7 DEF yield
<1>8. ASSUME NEW th \in Threads, swapOut(th)
      PROVE  FlatInv'
  BY <1>8 DEF swapOut
<1>9. ASSUME NEW th \in Threads, swapOutSwitch(th)
      PROVE  FlatInv'
  <2>1. SwapOutResult(th)
    BY <1>9, SwapOutEffect
  <2>2. QED
    BY <1>9, <2>1 DEF SwapOutResult, swapOutSwitch, Saved
<1>10. ASSUME NEW th \in Threads, NEW state \in {"TERM", "EXCEPT"}, MainFunc(th, state)
       PROVE  FlatInv'
  BY <1>10 DEF MainFunc
<1>11. ASSUME NEW th \in Threads, threadEnd(th)
       PROVE  FlatInv'
  BY <1>11 DEF threadEnd
<1>12. CASE UNCHANGED vars
  BY <1>12 DEF vars
<1>13. QED
  BY <1>1, <1>2, <1>3, <1>4, <1>5, <1>6, <1>7, <1>8, <1>9, <1>10, <1>11, <1>12
  DEF Next

\* Every step that leaves Shared false keeps threads on their own fibers.
LEMMA StepHome ==
  ASSUME GenInv, FreshInv, [Next]_vars
  PROVE  HomeInv'
<1> USE FiberAssumption DEF GenInv, Types, Runs, Manages, Objects, Begun, FreshInv, RunInv, OwnInv, HomeInv, SuspendedInv, Shared
<1>1. ASSUME NEW th \in Threads, GetThis(th)
      PROVE  HomeInv'
  BY <1>1 DEF GetThis
<1>2. ASSUME NEW th \in Threads, NEW f \in Fibers, Construct(th, f)
      PROVE  HomeInv'
  BY <1>2 DEF Construct, Entry
<1>3. ASSUME NEW th \in Threads, NEW f \in Fibers, reset(th, f)
      PROVE  HomeInv'
  BY <1>3 DEF reset, Entry
<1>4. ASSUME NEW th \in Threads, NEW f \in Fibers, release(th, f)
      PROVE  HomeInv'
  BY <1>4 DEF release, Destroyed
<1>5. ASSUME NEW th \in Threads, NEW f \in Fibers, swapIn(th, f)
      PROVE  HomeInv'
  BY <1>5 DEF swapIn
<1>6. ASSUME NEW th \in Threads, swapInSwitch(th)
      PROVE  HomeInv'
  <2>1. CASE t_threadFiber[th] = null
    BY <1>6, <2>1 DEF swapInSwitch
  <2>2. CASE t_threadFiber[th] # null
    <3>1. SwapInResult(th)
      BY <1>6, <2>2, SwapInEffect
    <3>2. QED
      BY <1>6, <3>1 DEF SwapInResult, swapInSwitch, Saved
  <2>3. QED
    BY <2>1, <2>2
<1>7. ASSUME NEW th \in Threads, NEW state \in {"READY", "HOLD"}, yield(th, state)
      PROVE  HomeInv'
  BY <1>7 DEF yield
<1>8. ASSUME NEW th \in Threads, swapOut(th)
      PROVE  HomeInv'
  BY <1>8 DEF swapOut
<1>9. ASSUME NEW th \in Threads, swapOutSwitch(th)
      PROVE  HomeInv'
  <2>1. SwapOutResult(th)
    BY <1>9, SwapOutEffect
  <2>2. QED
    BY <1>9, <2>1 DEF SwapOutResult, swapOutSwitch, Saved
<1>10. ASSUME NEW th \in Threads, NEW state \in {"TERM", "EXCEPT"}, MainFunc(th, state)
       PROVE  HomeInv'
  BY <1>10 DEF MainFunc
<1>11. ASSUME NEW th \in Threads, threadEnd(th)
       PROVE  HomeInv'
  BY <1>11 DEF threadEnd
<1>12. CASE UNCHANGED vars
  BY <1>12 DEF vars
<1>13. QED
  BY <1>1, <1>2, <1>3, <1>4, <1>5, <1>6, <1>7, <1>8, <1>9, <1>10, <1>11, <1>12
  DEF Next

\* Every step that leaves Shared false keeps the contexts of the fibers that do not run.
LEMMA StepSuspended ==
  ASSUME GenInv, FreshInv, [Next]_vars
  PROVE  SuspendedInv'
<1> USE FiberAssumption DEF GenInv, Types, Runs, Manages, Objects, Begun, FreshInv, RunInv, OwnInv, HomeInv, SuspendedInv, Shared
<1>1. ASSUME NEW th \in Threads, GetThis(th)
      PROVE  SuspendedInv'
  BY <1>1 DEF GetThis
<1>2. ASSUME NEW th \in Threads, NEW f \in Fibers, Construct(th, f)
      PROVE  SuspendedInv'
  BY <1>2 DEF Construct, Entry
<1>3. ASSUME NEW th \in Threads, NEW f \in Fibers, reset(th, f)
      PROVE  SuspendedInv'
  BY <1>3 DEF reset, Entry
<1>4. ASSUME NEW th \in Threads, NEW f \in Fibers, release(th, f)
      PROVE  SuspendedInv'
  BY <1>4 DEF release, Destroyed
<1>5. ASSUME NEW th \in Threads, NEW f \in Fibers, swapIn(th, f)
      PROVE  SuspendedInv'
  BY <1>5 DEF swapIn
<1>6. ASSUME NEW th \in Threads, swapInSwitch(th)
      PROVE  SuspendedInv'
  <2>1. CASE t_threadFiber[th] = null
    BY <1>6, <2>1 DEF swapInSwitch
  <2>2. CASE t_threadFiber[th] # null
    <3>1. SwapInResult(th)
      BY <1>6, <2>2, SwapInEffect
    <3>2. QED
      BY <1>6, <3>1 DEF SwapInResult, swapInSwitch, Saved
  <2>3. QED
    BY <2>1, <2>2
<1>7. ASSUME NEW th \in Threads, NEW state \in {"READY", "HOLD"}, yield(th, state)
      PROVE  SuspendedInv'
  BY <1>7 DEF yield
<1>8. ASSUME NEW th \in Threads, swapOut(th)
      PROVE  SuspendedInv'
  BY <1>8 DEF swapOut
<1>9. ASSUME NEW th \in Threads, swapOutSwitch(th)
      PROVE  SuspendedInv'
  <2>1. SwapOutResult(th)
    BY <1>9, SwapOutEffect
  <2>2. QED
    BY <1>9, <2>1 DEF SwapOutResult, swapOutSwitch, Saved
<1>10. ASSUME NEW th \in Threads, NEW state \in {"TERM", "EXCEPT"}, MainFunc(th, state)
       PROVE  SuspendedInv'
  BY <1>10 DEF MainFunc
<1>11. ASSUME NEW th \in Threads, threadEnd(th)
       PROVE  SuspendedInv'
  BY <1>11 DEF threadEnd
<1>12. CASE UNCHANGED vars
  BY <1>12 DEF vars
<1>13. QED
  BY <1>1, <1>2, <1>3, <1>4, <1>5, <1>6, <1>7, <1>8, <1>9, <1>10, <1>11, <1>12
  DEF Next

\* Every step that leaves Shared false resumes no stale context.
LEMMA StepFresh ==
  ASSUME GenInv, FreshInv, [Next]_vars
  PROVE  ResumesWhereItLeft'
<1> USE FiberAssumption DEF GenInv, Types, Runs, Manages, Objects, Begun, FreshInv, RunInv, OwnInv, HomeInv, SuspendedInv, Shared, ResumesWhereItLeft
<1>1. ASSUME NEW th \in Threads, GetThis(th)
      PROVE  ResumesWhereItLeft'
  BY <1>1 DEF GetThis
<1>2. ASSUME NEW th \in Threads, NEW f \in Fibers, Construct(th, f)
      PROVE  ResumesWhereItLeft'
  BY <1>2 DEF Construct, Entry
<1>3. ASSUME NEW th \in Threads, NEW f \in Fibers, reset(th, f)
      PROVE  ResumesWhereItLeft'
  BY <1>3 DEF reset, Entry
<1>4. ASSUME NEW th \in Threads, NEW f \in Fibers, release(th, f)
      PROVE  ResumesWhereItLeft'
  BY <1>4 DEF release, Destroyed
<1>5. ASSUME NEW th \in Threads, NEW f \in Fibers, swapIn(th, f)
      PROVE  ResumesWhereItLeft'
  BY <1>5 DEF swapIn
<1>6. ASSUME NEW th \in Threads, swapInSwitch(th)
      PROVE  ResumesWhereItLeft'
  <2>1. CASE t_threadFiber[th] = null
    BY <1>6, <2>1 DEF swapInSwitch
  <2>2. CASE t_threadFiber[th] # null
    <3>1. SwapInResult(th)
      BY <1>6, <2>2, SwapInEffect
    <3>2. QED
      BY <1>6, <3>1 DEF SwapInResult, swapInSwitch, Saved
  <2>3. QED
    BY <2>1, <2>2
<1>7. ASSUME NEW th \in Threads, NEW state \in {"READY", "HOLD"}, yield(th, state)
      PROVE  ResumesWhereItLeft'
  BY <1>7 DEF yield
<1>8. ASSUME NEW th \in Threads, swapOut(th)
      PROVE  ResumesWhereItLeft'
  BY <1>8 DEF swapOut
<1>9. ASSUME NEW th \in Threads, swapOutSwitch(th)
      PROVE  ResumesWhereItLeft'
  <2>1. SwapOutResult(th)
    BY <1>9, SwapOutEffect
  <2>2. QED
    BY <1>9, <2>1 DEF SwapOutResult, swapOutSwitch, Saved
<1>10. ASSUME NEW th \in Threads, NEW state \in {"TERM", "EXCEPT"}, MainFunc(th, state)
       PROVE  ResumesWhereItLeft'
  BY <1>10 DEF MainFunc
<1>11. ASSUME NEW th \in Threads, threadEnd(th)
       PROVE  ResumesWhereItLeft'
  BY <1>11 DEF threadEnd
<1>12. CASE UNCHANGED vars
  BY <1>12 DEF vars
<1>13. QED
  BY <1>1, <1>2, <1>3, <1>4, <1>5, <1>6, <1>7, <1>8, <1>9, <1>10, <1>11, <1>12
  DEF Next

\* The fibers that exist.
Live == {o \in Objects : m_state[o] \notin {"none", "freed"}}

CountInv == s_fiber_count = Cardinality(Live)

\* The count follows the set of fibers that exist, by one fiber at a time.
LEMMA CountSteps ==
  ASSUME Types, m_state' \in [Objects -> States], CountInv, NEW o \in Objects,
         \A p \in Objects \ {o} : m_state'[p] = m_state[p]
  PROVE  /\ o \notin Live /\ o \in Live' /\ s_fiber_count' = s_fiber_count + 1 => CountInv'
         /\ o \in Live /\ o \notin Live' /\ s_fiber_count' = s_fiber_count - 1 => CountInv'
         /\ (o \in Live <=> o \in Live') /\ s_fiber_count' = s_fiber_count => CountInv'
<1>1. IsFiniteSet(Live)
  BY FiberAssumption, FS_Subset DEF Live, Objects
<1>2. CASE o \notin Live /\ o \in Live' /\ s_fiber_count' = s_fiber_count + 1
  <2>1. Live' = Live \cup {o}
    BY <1>2 DEF Live
  <2>2. QED
    BY <1>1, <1>2, <2>1, FS_AddElement DEF CountInv
<1>3. CASE o \in Live /\ o \notin Live' /\ s_fiber_count' = s_fiber_count - 1
  <2>1. Live' = Live \ {o}
    BY <1>3 DEF Live
  <2>2. QED
    BY <1>1, <1>3, <2>1, FS_RemoveElement DEF CountInv
<1>4. CASE (o \in Live <=> o \in Live') /\ s_fiber_count' = s_fiber_count
  <2>1. Live' = Live
    BY <1>4 DEF Live
  <2>2. QED
    BY <1>4, <2>1 DEF CountInv
<1>5. QED
  BY <1>2, <1>3, <1>4

\* Every step keeps the count.
LEMMA StepCount ==
  ASSUME GenInv, Types', CountInv, [Next]_vars
  PROVE  CountInv'
<1> USE FiberAssumption DEF GenInv, Types, MainInv, RunInv, OwnInv, Runs, Manages, Objects, Begun, Live
<1>1. ASSUME NEW th \in Threads, GetThis(th) \/ threadEnd(th)
      PROVE  CountInv'
  BY <1>1, CountSteps DEF GetThis, threadEnd
<1>2. ASSUME NEW th \in Threads, NEW f \in Fibers,
             Construct(th, f) \/ reset(th, f) \/ release(th, f) \/ swapIn(th, f)
      PROVE  CountInv'
  BY <1>2, CountSteps DEF Construct, reset, release, swapIn, Destroyed
<1>3. ASSUME NEW th \in Threads, swapInSwitch(th)
      PROVE  CountInv'
  BY <1>3, CountSteps DEF swapInSwitch
<1>4. ASSUME NEW th \in Threads, NEW state \in {"READY", "HOLD"}, yield(th, state)
      PROVE  CountInv'
  BY <1>4, CountSteps DEF yield
<1>5. ASSUME NEW th \in Threads, NEW state \in {"TERM", "EXCEPT"}, MainFunc(th, state)
      PROVE  CountInv'
  BY <1>5, CountSteps DEF MainFunc
<1>6. ASSUME NEW th \in Threads, swapOut(th) \/ swapOutSwitch(th)
      PROVE  CountInv'
  BY <1>6, CountSteps DEF swapOut, swapOutSwitch
<1>7. CASE UNCHANGED vars
  BY <1>7 DEF vars, CountInv
<1>8. QED
  BY <1>1, <1>2, <1>3, <1>4, <1>5, <1>6, <1>7 DEF Next

\* The three invariants.
LEMMA Invariance == Spec => [](GenInv /\ FlatInv /\ FreshInv)
<1>1. GenInv /\ [Next]_vars => GenInv'
  BY StepTypes, StepMain, StepContext, StepRun, StepOwn, StepSafe DEF GenInv
<1>2. GenInv /\ FlatInv /\ [Next]_vars => FlatInv'
  BY StepFlat
<1>3. GenInv /\ FreshInv /\ [Next]_vars => FreshInv'
  BY StepHome, StepSuspended, StepFresh DEF FreshInv
<1>4. QED
  BY InitInv, <1>1, <1>2, <1>3, PTL DEF Spec

------------------------------------------------------------------------------
\* The variables keep their types, and s_fiber_count is the number of fibers that exist:
\* whatever threads and fibers do with each other.
THEOREM TypeCorrect == Spec => []TypeOK
<1>1. Init => CountInv
  <2>1. Init => Live = {}
    BY DEF Init, Live
  <2>2. QED
    BY <2>1, FS_EmptySet DEF Init, CountInv
<1>2. GenInv /\ GenInv' /\ CountInv /\ [Next]_vars => CountInv'
  BY StepCount DEF GenInv
<1>3. GenInv /\ CountInv => TypeOK
  <2>1. IsFiniteSet(Objects) /\ Live \subseteq Objects
    BY FiberAssumption DEF Objects, Live
  <2>2. Cardinality(Live) \in Nat /\ Cardinality(Objects) \in Nat
        /\ Cardinality(Live) <= Cardinality(Objects)
    BY <2>1, FS_Subset, FS_CardinalityType
  <2>3. QED
    BY <2>2 DEF GenInv, CountInv, TypeOK
<1>4. QED
  BY Invariance, <1>1, <1>2, <1>3, PTL DEF Spec

\* A fiber that has begun and not ended is not destroyed, and no thread runs on a freed
\* stack, whatever threads and fibers do with each other.
THEOREM SuspendedIsKept == Spec => []NotDestroyedWhileSuspended
<1>1. GenInv => NotDestroyedWhileSuspended
  BY FiberAssumption
  DEF GenInv, SafeInv, RunInv, MainInv, OwnInv, Types, Objects, Begun, NotDestroyedWhileSuspended, Runs
<1>2. QED
  BY Invariance, <1>1, PTL

\* GetThis() returns the fiber that runs, also when threads share fibers, until code in
\* a fiber manages fibers.
THEOREM GetThisIsCurrent == Spec => []CurrentFiber
<1>1. GenInv /\ FlatInv => CurrentFiber
  BY DEF GenInv, RunInv, FlatInv, CurrentFiber, Runs
<1>2. QED
  BY Invariance, <1>1, PTL

\* No switch resumes a context whose stack has run on since it was saved, also when
\* fibers manage fibers, until a thread uses a fiber that another constructed.
THEOREM ContextsAreFresh == Spec => []ResumesWhereItLeft
<1>1. FreshInv => ResumesWhereItLeft
  BY DEF FreshInv
<1>2. QED
  BY Invariance, <1>1, PTL

\* Every yield and every swapOut ends on the native stack, also when threads share
\* fibers, until code in a fiber manages fibers.
THEOREM YieldsReturn == Spec => BackToMain
<1> DEFINE A == ~Nested => \A th \in Threads : pc[th] = "swapOut" /\ pc'[th] = "user" => cpu'[th] = th
<1>1. GenInv /\ FlatInv /\ [Next]_vars => [A]_vars
  <2> SUFFICES ASSUME GenInv, FlatInv, Next, ~Nested, NEW th \in Threads,
                      pc[th] = "swapOut", pc'[th] = "user"
               PROVE  cpu'[th] = th
    BY DEF vars
  <2>1. PICK u \in Threads :
          \/ GetThis(u)
          \/ \E f \in Fibers : Construct(u, f) \/ reset(u, f) \/ release(u, f) \/ swapIn(u, f)
          \/ swapInSwitch(u)
          \/ \E state \in {"READY", "HOLD"} : yield(u, state)
          \/ swapOut(u)
          \/ swapOutSwitch(u)
          \/ \E state \in {"TERM", "EXCEPT"} : MainFunc(u, state)
          \/ threadEnd(u)
    BY DEF Next
  <2>2. pc \in [Threads -> {"user", "swapIn", "swapOut", "ended"}] /\ cpu \in [Threads -> Objects]
    BY DEF GenInv, Types
  <2>3. u = th /\ swapOutSwitch(th)
    BY <2>1, <2>2
    DEF GetThis, Construct, reset, release, swapIn, swapInSwitch, yield, swapOut, swapOutSwitch,
        MainFunc, threadEnd, Manages, Runs
  <2>4. SwapOutResult(th)
    BY <2>3, SwapOutEffect
  <2>5. end = "running" /\ op[th] = t_fiber[th] /\ (op[th] \in Fibers => op[th] = cpu[th])
    BY <2>4 DEF SwapOutResult
  <2>6. CASE op[th] = th
    BY <2>4, <2>5, <2>6 DEF SwapOutResult, FlatInv
  <2>7. CASE op[th] # th
    <3>1. op[th] \in Fibers /\ th \notin Fibers
      BY <2>4, <2>7, FiberAssumption DEF SwapOutResult
    <3>2. m_ctx[th].stack = th
      <4>1. cpu[th] # th
        BY <2>5, <3>1
      <4>2. m_ctx[th] = Saved(th)
        BY <2>5, <4>1 DEF FlatInv
      <4>3. QED
        BY <4>2 DEF Saved
    <3>3. cpu' = [cpu EXCEPT ![th] = m_ctx[th].stack]
      BY <2>4, <2>7 DEF SwapOutResult
    <3>4. QED
      BY <2>2, <3>2, <3>3
  <2>8. QED
    BY <2>6, <2>7
<1>2. QED
  BY Invariance, <1>1, PTL DEF Spec, BackToMain
==============================================================================
