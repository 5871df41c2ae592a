------------------------------- MODULE MCPlanets -------------------------------
(***************************************************************************)
(* Planets for TLC: two planets, one of which breeds and revolts, two      *)
(* ships that hold an army each and a base.                                *)
(***************************************************************************)
EXTENDS Planets

CONSTANTS p, q, h, earth, terra, vega

MCmaxarmies == [s \in Player |-> 1]
MCSide == [s \in Player |-> IF s = q THEN "ROM" ELSE "FED"]

(* Everybody is in the game: the states before are few and dull.           *)
MCInit ==
  /\ pteam = Side /\ tourn = FALSE
  /\ galaxy = [owner |-> [l \in Planet |-> IF l = vega THEN "ROM" ELSE "FED"],
               plcount |-> [t \in C!Team |-> 0], plcountold |-> [t \in C!Team |-> 0],
               surrender |-> [t \in C!Team |-> 0], victor |-> C!NoVictor]
  /\ armies = [l \in Planet |-> 2] /\ trevolt = [l \in Planet |-> 0]
  /\ ship = [s \in Player |-> [NoShip EXCEPT !.at = "space"]]

MCSpec == MCInit /\ [][Next]_vars
===============================================================================
