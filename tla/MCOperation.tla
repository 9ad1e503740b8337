----------------------------- MODULE MCOperation -----------------------------
(* Small instances of Operation: one operator of one type.               *)
EXTENDS Operation, TLC

CONSTANTS o1, A

MCOneOp == (o1 :> A)
=============================================================================
