------------------------------ MODULE MCDocking ------------------------------
(* An instance of Docking: two slots in every status and class.            *)
EXTENDS Docking

CONSTANT base   \* the class with docking bays

MCNumPorts == [t \in ShipTypes |-> IF t = base THEN MAXPORTS ELSE 0]
=============================================================================
