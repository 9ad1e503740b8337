---------------------------- MODULE MCAssociations ----------------------------
(* Small instances of Associations: a1 and a2 have an association item that   *)
(* grows to two entities, a3 has one slot, which one entity does not fit.     *)
EXTENDS Associations, TLC

CONSTANTS a3, e3

MCExtensible == [a \in Attributes |-> a # a3]
MCRequired   == [a \in Attributes |-> IF a = a3 THEN 1 ELSE 0]
MCLimit      == [a \in Attributes |-> IF a = a3 THEN 1 ELSE 2]
MCFits       == [a \in Attributes |-> IF a = a3 THEN Entities \ {e3} ELSE Entities]

\* All entities but e3 are interchangeable, and all attributes but a3.
MCSymmetry == Permutations(Entities \ {e3}) \cup Permutations(Attributes \ {a3})
================================================================================
