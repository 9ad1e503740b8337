-------------------------- MODULE MCResourceManager --------------------------
(* Small instances of ResourceManager: resources of one type, and of a type *)
(* B derived from A.                                                        *)
EXTENDS ResourceManager, TLC

CONSTANTS r1, r2, A, B

MCTypeOf    == (r1 :> A) @@ (r2 :> B)
MCAncestors == (A :> {A}) @@ (B :> {A, B})
MCNameOf    == (A :> "A") @@ (B :> "B")

\* Managers, ids, resources of one type and clients are interchangeable.
MCSymmetry == Permutations(Managers) \cup Permutations(Ids) \cup Permutations(Clients)
=============================================================================
