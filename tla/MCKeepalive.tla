----------------------------- MODULE MCKeepalive -----------------------------
(* Keepalive has no values to choose but its bounds, which the cfgs give.   *)
EXTENDS Keepalive
=============================================================================
