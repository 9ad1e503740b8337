--------------------------- MODULE MCPhraseModel ---------------------------
(* Small instances of PhraseModel: two resources with components.          *)
EXTENDS PhraseModel, TLC

CONSTANTS r1, r2, r3, p1, p2, p3

MCGenerated == [r \in Rsrcs |-> IF r = r1 THEN << p1, p2 >> ELSE << p3 >>]

\* Lists that make rows go in two batches, come at the front, in the middle and
\* at the end, and change places.
MCNewLists == {<< >>, << p2 >>, << p1, p3, p2 >>, << p1, p2, p3 >>, << p3, p1, p2 >>}

\* New rows on both sides of an old one.
MCBothSides == {<< p3, p1, p2 >>, << p1 >>}

\* Views take no part in any order but that of their handles.
MCSymmetry == Permutations(Views) \cup Permutations(OperManagers)
=============================================================================
