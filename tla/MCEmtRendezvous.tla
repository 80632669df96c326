-------------------------- MODULE MCEmtRendezvous ---------------------------
(* EmtRendezvous for TLC, with three EMTs: how they call it, and what callbacks return. *)
EXTENDS EmtRendezvous, TLC

OfType(types) == {f \in AllFlags : f.type \in types /\ ~f.stop}
StopOnError == [type |-> "DESCENDING", stop |-> TRUE]     \* as the VM state changes do

CallFlags == (0 :> OfType({"ALL_AT_ONCE"})) @@ (1 :> OfType({"ONCE", "ASCENDING"}))
                @@ (2 :> OfType({"ONE_BY_ONE"}) \cup {StopOnError})
CallbackCodes == (0 :> {0, 2}) @@ (1 :> {-2, 0}) @@ (2 :> {0, 1})
=============================================================================
