-------------------------- MODULE MCRequestPipeline --------------------------
(***************************************************************************)
(* Model values for RequestPipeline: a write (a light, a lock), a disarm,  *)
(* a get_* read of the bootstrap and a barrier move, which is never        *)
(* retried.  Each cfg picks the commands and the kinds it needs.           *)
(***************************************************************************)
EXTENDS RequestPipeline

CONSTANTS write, disarm, read, barrier
=============================================================================
