------------------------- MODULE MCSessionLifecycle -------------------------
(***************************************************************************)
(* SessionLifecycle for TLC: a session, the one it may disturb, and the one  *)
(* the application connects after that.                                      *)
(***************************************************************************)
EXTENDS SessionLifecycle
=============================================================================
