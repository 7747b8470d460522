--------------------------- MODULE MCWebExecution ---------------------------
(* The instance of WebExecution for TLC: one session with two messages.    *)
EXTENDS WebExecution, TLC

CONSTANTS c1, m1, m2, a1, a2, w1, w2

SessionConvOf == m1 :> c1 @@ m2 :> c1
SessionRoutingAgent == c1 :> a1
=============================================================================
