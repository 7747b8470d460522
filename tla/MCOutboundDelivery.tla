------------------------- MODULE MCOutboundDelivery -------------------------
(* An instance of OutboundDelivery for TLC: the lane of one conversation.  *)
EXTENDS OutboundDelivery, TLC

CONSTANTS c1, m1, m2, a1, a2, r1

LaneConvOf == m1 :> c1 @@ m2 :> c1
LaneRouteOf == c1 :> r1
LaneRoutingAgent == c1 :> a1
=============================================================================
