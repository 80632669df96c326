--------------------------- MODULE RecursiveLock ---------------------------
(***************************************************************************)
(* What a PDM critical section promises to the threads that use it: a lock *)
(* that its holder may take again, and that is somebody else's only after  *)
(* the holder has given it back as often as it took it.                    *)
(***************************************************************************)
EXTENDS Naturals

CONSTANT Threads

VARIABLE depth  \* how often each thread has taken the lock and not returned it

Init == depth = [t \in Threads |-> 0]

Acquire(t) ==
    /\ \A u \in Threads \ {t} : depth[u] = 0
    /\ depth' = [depth EXCEPT ![t] = @ + 1]

Release(t) ==
    /\ depth[t] > 0
    /\ depth' = [depth EXCEPT ![t] = @ - 1]

Next == \E t \in Threads : Acquire(t) \/ Release(t)

Spec == Init /\ [][Next]_depth
=============================================================================
