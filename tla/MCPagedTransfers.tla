--------------------------- MODULE MCPagedTransfers ---------------------------
(* PagedTransfers for TLC: the bounds are in the cfg files.                 *)
EXTENDS PagedTransfers
=============================================================================
