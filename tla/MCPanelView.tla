---------------------------- MODULE MCPanelView ----------------------------
(* PanelView for TLC: a panel with an area or with an area and a zone, or    *)
(* with one entity of another domain.                                        *)
EXTENDS PanelView

Panels == {{"area"}, {"area", "zone"}, {"zone"}, {"output"}, {"light"}, {"lock"}, {"barrier"}, {"tstat"}}

Troubles == [ds \in Panels |-> IF ds = {"area", "zone"} THEN 0 ELSE 1]

\* Disarmed, or with a whole exit delay; AWAY stands for STAY, which nothing tells from it.
Starting == {a \in AreaStates : a.arm = "DISARMED" /\ a.timer \in {0, Timers} /\ a.cmd # "STAY"}

AreaReports == {Fields["area"], {"arm"}, {"cmd"}, {"timer"}, {"cmd", "timer", "zone"}}
=============================================================================
