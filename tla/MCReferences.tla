------------------------------ MODULE MCReferences ------------------------------
(* A small instance of References: attributes a and b, with an item of any size *)
(* and an item of two values, and an item of any size that is made and dropped  *)
(* as a part of a group.                                                        *)
EXTENDS References

CONSTANTS a, b, ofA, ofB, loose

MCOwner    == [i \in Items |-> IF i = ofA THEN a ELSE IF i = ofB THEN b ELSE Null]
MCRequired == [i \in Items |-> IF i = ofB THEN 2 ELSE 0]
MCFits     == [i \in Items |-> IF i = ofB THEN {a} ELSE {a, b}]
================================================================================
