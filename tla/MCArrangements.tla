---------------------------- MODULE MCArrangements ----------------------------
(* A small instance of Arrangements: a model with two cells and a group of the  *)
(* cells, one cell within the other, an instance of a cell, and raw relations   *)
(* that fill the holes of the model and of a cell.                              *)
EXTENDS Arrangements

CONSTANTS m, c1, c2, g, n

MCType == m :> "model" @@ c1 :> "cell" @@ c2 :> "cell" @@ g :> "group" @@ n :> "instance"

MCWays == {<< m, "INCLUDES", c1 >>, << m, "INCLUDES", c2 >>,
           << m, "SUPERSET_OF", g >>, << g, "SUPERSET_OF", c1 >>, << n, "INSTANCE_OF", c1 >>}

MCRaw == {<< m, c1 >>, << c1, c2 >>}
===============================================================================
