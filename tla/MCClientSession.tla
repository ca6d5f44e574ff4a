--------------------------- MODULE MCClientSession ---------------------------
(* ClientSession for TLC.  The PINs differ in nothing.                       *)
EXTENDS ClientSession, TLC

Symmetry == Permutations(Pins)
=============================================================================
