----------------------------- MODULE MCReadiness -----------------------------
(* Readiness for TLC: a panel with an area and two zones, or with a zone and an  *)
(* output; two ids refused in a row end a list.                                  *)
EXTENDS Readiness

ItemIds == [d \in Domain |-> IF d = "zone" THEN {1, 2} ELSE {1}]

Inventories == {[ItemIds EXCEPT !["output"] = {}],
                [ItemIds EXCEPT !["area"] = {}, !["zone"] = {1}]}
==============================================================================
