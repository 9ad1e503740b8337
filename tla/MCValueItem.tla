------------------------------ MODULE MCValueItem ------------------------------
(* A small instance of ValueItem: attribute a has all items, and b can be an   *)
(* expression.                                                                 *)
EXTENDS ValueItem, TLC

CONSTANTS a, b, plain, copy, discrete, one, two

MCOwner    == [i \in Items |-> Null]
MCRequired == [i \in Items |-> 1]
MCFits     == [i \in Items |-> {b}]
MCHolder   == [v \in ValueItems |-> a]
MCPool     == 1 .. 4
MCValid    == [v \in ValueItems |-> IF v = discrete THEN {one, two} ELSE {one}]
MCDiscrete == [v \in ValueItems |-> v = discrete]
MCAllows   == [v \in ValueItems |-> v # discrete]
MCDefault  == [v \in ValueItems |-> IF v = discrete THEN one ELSE None]
MCExtensible == [v \in ValueItems |-> v \in {plain, copy}]
MCAtLeast  == [v \in ValueItems |-> 1]
MCAtMost   == [v \in ValueItems |-> IF v \in {plain, copy} THEN 2 ELSE 0]

\* No property asks what the last call was before a step, and which RefItem an
\* element has makes no difference: a state is what it is up to the numbers of
\* the RefItems that elements have.
MCState(x) == << values[x], [r \in Attributes |-> refs[r][x]] >>

MCView ==
  LET used == UNION {Range(exprs[v]) : v \in ValueItems}
      left == {x \in Pool : MCState(x) # << << >>, [r \in Attributes |-> {}] >>} \ used
  IN  << alive, broken, data, isSet, index, active,
         [v \in ValueItems |-> [e \in DOMAIN exprs[v] |-> MCState(exprs[v][e])]],
         Cardinality(exists), Cardinality(used), {<< x, MCState(x) >> : x \in left} >>

MCSymmetry == Permutations({plain, copy})
================================================================================
