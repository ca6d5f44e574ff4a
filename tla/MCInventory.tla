---------------------------- MODULE MCInventory ----------------------------
(* Inventory for TLC: a table of three in two blocks with a gap in the      *)
(* second, and an entity beyond the table; and an area panel that numbers    *)
(* the ids of each block from one.                                           *)
EXTENDS Inventory

SomePanels ==
    [dom : Domain, ids : {{1, 3, 4}}, relative : {FALSE}]
    \cup [dom : {"area"}, ids : {{2, 3}}, relative : {TRUE}]
=============================================================================
