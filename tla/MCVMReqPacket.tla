--------------------------- MODULE MCVMReqPacket ----------------------------
(* VMReqPacket for TLC: three packets, a requester that waits for a while and then without
   limit, and one that does not wait. *)
EXTENDS VMReqPacket, TLC

CONSTANTS r1, r2, p1, p2, p3

TwoRequesters == {r1, r2}
CallKinds == (r1 :> {"timed"}) @@ (r2 :> {"NO_WAIT"})
ThreePackets == {p1, p2, p3}
CallLimits == (r1 :> 2) @@ (r2 :> 2)
TwoFree == <<p1, p2>>
=============================================================================
