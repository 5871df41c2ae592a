------------------------------- MODULE MCOutfit -------------------------------
(* Three players of two teams, one ship of a limited type to a team.       *)
EXTENDS Outfit

SidesDef == <<"FED", "ROM">>
=============================================================================
