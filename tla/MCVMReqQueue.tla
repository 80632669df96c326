---------------------------- MODULE MCVMReqQueue ----------------------------
(* VMReqQueue for TLC: packets, and what the requesters call with them. *)
EXTENDS VMReqQueue, TLC

CONSTANTS r1, r2, r3

OneReq    == {r1}
TwoReqs   == {r1, r2}
ThreeReqs == {r1, r2, r3}

To(queues) == {c \in AllCalls : c.first \in queues /\ c.step = 0}
AnyNoWait  == {c \in To({ANY}) : c.nowait /\ ~c.priority}
AllReverse == {c \in AllCalls : c.step = -1 /\ ~c.priority}

\* To the common queue and to one CPU.
CallProcess == [r \in Reqs |-> AnyNoWait \cup {c \in To({0}) : c.nowait /\ c.priority}]
\* To the common queue, and from the second requester also to all CPUs.
CallLive == [r \in Reqs |-> AnyNoWait \cup IF r = r2 THEN AllReverse ELSE {}]
\* Waiting, with both priorities to the common queue.
CallAsync == [r \in Reqs |-> {c \in To({ANY, 0}) : ~c.nowait /\ (c.first = 0 => c.priority)}]
\* Waiting, without priority, to the common queue.
CallNormal == [r \in Reqs |-> {c \in To({ANY}) : ~c.nowait /\ ~c.priority}]

\* Packets are interchangeable.
Symmetry == Permutations(Reqs)
=============================================================================
