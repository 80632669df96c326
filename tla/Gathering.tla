----------------------------- MODULE Gathering ------------------------------
(***************************************************************************)
(* What an EMT rendezvous promises about who is where: callbacks run only  *)
(* while every EMT is held, nobody is let go before the work is over, and  *)
(* nobody is taken for the next gathering before all have left this one.   *)
(***************************************************************************)
CONSTANT Emts

VARIABLES
    at,      \* per EMT: "out", "in" (held), "working" (in the callback)
    phase    \* "gather", "work" or "disperse"

gvars == <<at, phase>>

Init ==
    /\ at = [e \in Emts |-> "out"]
    /\ phase = "gather"

\* The last to arrive opens the work.
Arrive(e) ==
    /\ phase = "gather" /\ at[e] = "out"
    /\ at' = [at EXCEPT ![e] = "in"]
    /\ phase' = IF \A f \in Emts : at'[f] # "out" THEN "work" ELSE "gather"

Work(e) ==
    /\ phase = "work" /\ at[e] = "in"
    /\ at' = [at EXCEPT ![e] = "working"]
    /\ UNCHANGED phase

Rest(e) ==
    /\ at[e] = "working"
    /\ at' = [at EXCEPT ![e] = "in"]
    /\ UNCHANGED phase

Close ==
    /\ phase = "work" /\ \A e \in Emts : at[e] # "working"
    /\ phase' = "disperse"
    /\ UNCHANGED at

\* The last to leave makes room for the next gathering.
Depart(e) ==
    /\ phase = "disperse" /\ at[e] = "in"
    /\ at' = [at EXCEPT ![e] = "out"]
    /\ phase' = IF \A f \in Emts : at'[f] = "out" THEN "gather" ELSE "disperse"

Next == Close \/ \E e \in Emts : Arrive(e) \/ Work(e) \/ Rest(e) \/ Depart(e)

Spec == Init /\ [][Next]_gvars
=============================================================================
