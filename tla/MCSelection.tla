------------------------------ MODULE MCSelection ------------------------------
(* A small instance of Selection: two faces of a model, one of them without a  *)
(* row, and the filters of pqSMTKSelectionFilterBehavior: faces only, the      *)
(* model that a component is part of, and one that replaces a face by the      *)
(* other.                                                                      *)
EXTENDS Selection

CONSTANTS face, hidden, model, reader, all, faces, models, other

MCFilter ==
  [f \in Filters |-> [c \in Components |->
     CASE f = all    -> [takes |-> TRUE, adds |-> {}, drops |-> {}]
       [] f = faces  -> [takes |-> c # model, adds |-> {}, drops |-> {}]
       [] f = models -> [takes |-> FALSE, adds |-> {model}, drops |-> {}]
       [] f = other  -> [takes |-> c # face,
                         adds |-> IF c = face THEN {hidden} ELSE {},
                         drops |-> IF c = face THEN {face} ELSE {}]]]
================================================================================
