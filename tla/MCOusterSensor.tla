-------------------------- MODULE MCOusterSensor --------------------------
(* TLC instances of OusterSensor: configurations are model values.  With a  *)
(* destination of its own c2 is multicast; reset, it becomes c1.            *)
EXTENDS OusterSensor

CONSTANTS c1, c2

MCAutoDest == [c \in Configs |-> IF c \in Multicast THEN c1 ELSE c]
=============================================================================
