----------------------------- MODULE MCWsRelay -----------------------------
(* Instances of WsRelay for TLC: one NonStream and one Stream request.     *)
EXTENDS WsRelay

CONSTANTS r1, r2

TwoRequests == {r1, r2}
OneStream == {r2}
=============================================================================
