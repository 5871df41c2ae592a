------------------------------ MODULE MCConquest ------------------------------
(***************************************************************************)
(* Conquest for TLC.  With four planets a team of two can lose one to an   *)
(* enemy that has two, which starts its clock; with three players a third  *)
(* team can surrender while the two biggest play on.  MCTeams bounds the   *)
(* teams that are played.                                                  *)
(***************************************************************************)
EXTENDS Conquest

CONSTANTS MCTeams

MCInit ==
  /\ Init
  /\ pteam \in [Player -> MCTeams]
  /\ galaxy.owner \in [Planet -> MCTeams]

MCNext ==
  \/ \E p \in Player, t \in MCTeams \cup {"free"} : Change(p, t)
  \/ udtourny
  \/ udsurrend
  \/ \E l \in Planet, o \in MCTeams \cup {"NOBODY"} : Pass(l, o)

MCSpec == MCInit /\ [][MCNext]_cvars /\ Minutes
===============================================================================
