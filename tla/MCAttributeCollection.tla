------------------------- MODULE MCAttributeCollection -------------------------
(* Small instances of AttributeCollection: a type whose definition is replaced *)
(* by another one, and two types that may derive from it or from each other.  *)
EXTENDS AttributeCollection, TLC

CONSTANTS d1, d2, d3, d4, A, B, C, n1, n2, n3

MCDefType == [d \in Defs |-> IF d = d3 THEN B ELSE IF d = d4 THEN C ELSE A]
MCSeries  == [t \in Types |-> IF t = A THEN << n1, n2 >> ELSE << n2, n3 >>]

\* Attributes and ids are interchangeable.
MCSymmetry == Permutations(Atts) \cup Permutations(Ids)
=============================================================================
