---------------------------- MODULE ExclusiveLock ----------------------------
(***************************************************************************)
(* What a lock promises: at most one thread holds it.                      *)
(***************************************************************************)
CONSTANT Threads

VARIABLE holders   \* the threads that hold the lock

Init == holders = {}

Acquire(t) == holders = {} /\ holders' = {t}
Release(t) == holders = {t} /\ holders' = {}

Next == \E t \in Threads : Acquire(t) \/ Release(t)

Spec == Init /\ [][Next]_holders
==============================================================================
