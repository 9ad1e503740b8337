------------------------------ MODULE Inductions -------------------------------
(***************************************************************************)
(* Inductions with the predicate given as a set: over natural numbers, and *)
(* over the subsets of 1 .. n in the order in which FoldLeft of            *)
(* SequencesExt goes through a sequence.  What a loop over a sequence of   *)
(* any length does follows from them.                                      *)
(***************************************************************************)
EXTENDS Integers, FiniteSetsExt, FiniteSetTheorems, TLAPS

-----------------------------------------------------------------------------
(* Numbers *)

\* A set of naturals that is not empty has a smallest element.
LEMMA SmallestNumber ==
  ASSUME NEW D \in SUBSET Nat, D # {}
  PROVE  \E k \in D : \A j \in D : k <= j
<1> DEFINE Less == {ss \in Nat \X Nat : ss[1] < ss[2]}
<1>1. IsWellFoundedOn(Less, Nat)
  BY NatLessThanWellFounded DEF OpToRel
<1>2. PICK k \in D : \A j \in D : << j, k >> \notin Less
  <2> HIDE DEF Less
  <2>1. QED
    BY <1>1, WFMin
<1>3. \A j \in D : ~ (j < k)
  BY <1>2
<1>4. QED
  BY <1>3

\* A set of naturals up to a bound that is not empty has a largest element.
LEMMA LargestNumber ==
  ASSUME NEW b \in Nat, NEW D \in SUBSET (0 .. b), D # {}
  PROVE  \E h \in D : \A g \in D : g <= h
<1> DEFINE Room == {b - h : h \in D}
<1>1. Room \in SUBSET Nat /\ Room # {}
  <2>1. \A h \in D : b - h \in Nat
    OBVIOUS
  <2>2. QED
    BY <2>1
<1>2. PICK k \in Room : \A j \in Room : k <= j
  <2> HIDE DEF Room
  <2>1. QED
    BY <1>1, SmallestNumber
<1>3. PICK h \in D : k = b - h
  OBVIOUS
<1>4. \A g \in D : b - g \in Room
  OBVIOUS
<1>5. \A g \in D : b - h <= b - g
  BY <1>2, <1>3, <1>4
<1>6. QED
  BY <1>5

\* What holds of 0, and of the number after each below n it holds of, holds up
\* to n.
LEMMA UpTo ==
  ASSUME NEW n \in Nat, NEW G, 0 \in G,
         \A k \in Nat : k < n /\ k \in G => k + 1 \in G
  PROVE  0 .. n \subseteq G
<1> DEFINE D == {k \in 0 .. n : k \notin G}
<1> SUFFICES ASSUME D # {} PROVE FALSE
  OBVIOUS
<1>1. D \in SUBSET Nat
  OBVIOUS
<1>2. PICK k \in D : \A j \in D : k <= j
  <2> HIDE DEF D
  <2>1. QED
    BY <1>1, SmallestNumber
<1>3. k # 0 /\ k - 1 \in 0 .. n /\ k - 1 \notin D
  BY <1>2
<1>4. k - 1 \in G /\ k - 1 \in Nat /\ k - 1 < n
  BY <1>3
<1>5. (k - 1) + 1 \in G
  BY <1>4
<1>6. QED
  BY <1>5

\* What a step does with a state.
StepsOn(T) == [T -> T]

\* The states after 0 .. n steps F from base.
AreSteps(h, n, T, base, F) ==
  /\ h \in [0 .. n -> T] /\ h[0] = base
  /\ \A k \in 1 .. n : h[k] = F[h[k-1]]

\* They exist: the equations of a recursive function of a number have a solution.
LEMMA StepsExist ==
  ASSUME NEW n \in Nat, NEW T, NEW base \in T, NEW F \in StepsOn(T)
  PROVE  \E h : AreSteps(h, n, T, base, F)
<1> USE DEF StepsOn, AreSteps
<1> DEFINE Steps(h, m) == AreSteps(h, m, T, base, F)
           G == {m \in Nat : \E h : Steps(h, m)}
<1>1. 0 \in G
  <2> DEFINE h == [k \in 0 .. 0 |-> base]
  <2>1. Steps(h, 0)
    OBVIOUS
  <2> HIDE DEF Steps, AreSteps, h
  <2>2. QED
    BY <2>1
<1>2. ASSUME NEW m \in Nat, m < n, m \in G PROVE m + 1 \in G
  <2>1. PICK h : Steps(h, m)
    BY <1>2
  <2> DEFINE g == [k \in 0 .. m + 1 |-> IF k = m + 1 THEN F[h[m]] ELSE h[k]]
  <2>2. h[m] \in T /\ F[h[m]] \in T
    BY <2>1
  <2>3. g \in [0 .. m + 1 -> T] /\ g[0] = base
    BY <2>1, <2>2
  <2>4. ASSUME NEW k \in 1 .. m + 1
        PROVE  g[k] = F[g[k-1]]
    <3>1. g[k-1] = h[k-1] /\ k - 1 \in 0 .. m
      OBVIOUS
    <3>2. CASE k = m + 1
      BY <3>1, <3>2
    <3>3. CASE k # m + 1
      <4>1. k \in 1 .. m /\ g[k] = h[k]
        BY <3>3
      <4>2. QED
        BY <2>1, <3>1, <4>1
    <3>4. QED
      BY <3>2, <3>3
  <2> HIDE DEF g
  <2>5. Steps(g, m + 1)
    BY <2>3, <2>4
  <2> HIDE DEF Steps, AreSteps
  <2>6. QED
    BY <2>5
<1>3. n \in G
  <2> HIDE DEF G
  <2>1. 0 .. n \subseteq G
    BY <1>1, <1>2, UpTo
  <2>2. QED
    BY <2>1
<1>4. QED
  BY <1>3

-----------------------------------------------------------------------------
(* Folds *)

\* Max of FiniteSetsExt is the largest element, for a part of 1 .. n.
LEMMA LastOfPart ==
  ASSUME NEW n \in Nat, NEW s \in SUBSET (1 .. n), s # {}
  PROVE  Max(s) \in s /\ \A k \in s : k <= Max(s)
<1>1. PICK h \in s : \A k \in s : k <= h
  <2>1. s \in SUBSET (0 .. n)
    OBVIOUS
  <2>2. QED
    BY <2>1, LargestNumber
<1>2. \A k \in s : h >= k
  BY <1>1
<1>3. Max(s) \in s /\ \A k \in s : Max(s) >= k
  BY <1>1, <1>2 DEF Max
<1>4. QED
  BY <1>3

\* A part of 1 .. m + 1 without its last element.
LEMMA PartWithoutLast ==
  ASSUME NEW n \in Nat, NEW m \in Nat, m < n, NEW s \in SUBSET (1 .. m + 1), s # {}
  PROVE  /\ m + 1 \in s => Max(s) = m + 1
         /\ m + 1 \notin s => s \in SUBSET (1 .. m)
         /\ s \ {Max(s)} \in SUBSET (1 .. m)
         /\ s \in SUBSET (1 .. n)
<1>1. m + 1 \in Nat /\ s \in SUBSET (1 .. n)
  OBVIOUS
<1>2. Max(s) \in s /\ \A k \in s : k <= Max(s)
  BY <1>1, LastOfPart
<1> DEFINE last == Max(s)
<1> HIDE DEF last
<1>3. last \in 1 .. m + 1 /\ \A k \in s : k <= last /\ k \in 1 .. m + 1
  BY <1>2 DEF last
<1>4. m + 1 \in s => last = m + 1
  BY <1>3
<1>5. \A k \in s \ {last} : k \in 1 .. m
  BY <1>3
<1>6. m + 1 \notin s => \A k \in s : k \in 1 .. m
  BY <1>3
<1>7. QED
  BY <1>1, <1>4, <1>5, <1>6 DEF last

\* What holds of the empty part, and of each part if it holds without its last
\* element, holds of all.
LEMMA OverParts ==
  ASSUME NEW n \in Nat, NEW Good, {} \in Good,
         \A s \in SUBSET (1 .. n) : s # {} /\ s \ {Max(s)} \in Good => s \in Good
  PROVE  SUBSET (1 .. n) \subseteq Good
<1> DEFINE G == {m \in Nat : SUBSET (1 .. m) \subseteq Good}
<1>1. 0 \in G
  <2>1. 1 .. 0 = {}
    BY SMT
  <2>2. SUBSET (1 .. 0) \subseteq Good
    BY <2>1
  <2>3. QED
    BY <2>2
<1>2. ASSUME NEW m \in Nat, m < n, m \in G PROVE m + 1 \in G
  <2>1. ASSUME NEW s \in SUBSET (1 .. m + 1) PROVE s \in Good
    <3>1. CASE s = {}
      BY <3>1
    <3>2. CASE s # {}
      <4>1. s \ {Max(s)} \in SUBSET (1 .. m) /\ s \in SUBSET (1 .. n)
        BY <1>2, <3>2, PartWithoutLast
      <4>2. QED
        BY <1>2, <3>2, <4>1
    <3>3. QED
      BY <3>1, <3>2
  <2>2. QED
    BY <2>1
<1>3. 0 .. n \subseteq G
  <2> HIDE DEF G
  <2>1. QED
    BY <1>1, <1>2, UpTo
<1>4. QED
  BY <1>3

\* What a fold does with a state and a position of the sequence.
FoldSteps(n, T) == [T \X (1 .. n) -> T]

\* The fold of the parts up to m: what F makes of the last element and of the
\* fold of the rest.
IsFold(h, m, T, base, F) ==
  /\ h \in [SUBSET (1 .. m) -> T]
  /\ \A s \in SUBSET (1 .. m) :
       h[s] = IF s = {} THEN base ELSE F[<< h[s \ {Max(s)}], Max(s) >>]

\* A fold exists.
LEMMA FoldExists ==
  ASSUME NEW n \in Nat, NEW T, NEW base \in T, NEW F \in FoldSteps(n, T)
  PROVE  \E h : IsFold(h, n, T, base, F)
<1> USE DEF FoldSteps, IsFold
<1> DEFINE Fold(h, m) == IsFold(h, m, T, base, F)
           G == {m \in Nat : \E h : Fold(h, m)}
<1>1. 0 \in G
  <2> DEFINE h == [s \in SUBSET (1 .. 0) |-> base]
  <2>1. 1 .. 0 = {}
    BY SMT
  <2>2. Fold(h, 0)
    BY <2>1
  <2>3. QED
    BY <2>2
<1>2. ASSUME NEW m \in Nat, m < n, m \in G PROVE m + 1 \in G
  <2>1. PICK h : Fold(h, m)
    BY <1>2
  <2> DEFINE g == [s \in SUBSET (1 .. m + 1) |->
                     IF m + 1 \in s THEN F[<< h[s \ {m + 1}], m + 1 >>] ELSE h[s]]
  <2>2. ASSUME NEW s \in SUBSET (1 .. m + 1)
        PROVE  g[s] \in T /\ g[s] = IF s = {} THEN base ELSE F[<< g[s \ {Max(s)}], Max(s) >>]
    <3>1. CASE m + 1 \in s
      <4>1. Max(s) = m + 1 /\ s \ {m + 1} \in SUBSET (1 .. m) /\ m + 1 \in 1 .. n
        BY <1>2, <3>1, PartWithoutLast
      <4>2. s \ {m + 1} \in SUBSET (1 .. m + 1) /\ m + 1 \notin s \ {m + 1}
        OBVIOUS
      <4>3. g[s \ {m + 1}] = h[s \ {m + 1}] /\ h[s \ {m + 1}] \in T
        BY <2>1, <4>1, <4>2
      <4>4. g[s] = F[<< h[s \ {m + 1}], m + 1 >>]
        BY <3>1
      <4>5. << h[s \ {m + 1}], m + 1 >> \in T \X (1 .. n)
        BY <4>1, <4>3
      <4> HIDE DEF g, Fold, IsFold
      <4>6. g[s] \in T
        BY <4>4, <4>5
      <4>7. QED
        BY <3>1, <4>1, <4>3, <4>4, <4>6
    <3>2. CASE m + 1 \notin s
      <4>1. s \in SUBSET (1 .. m)
        BY <3>2
      <4>2. g[s] = h[s] /\ h[s] \in T
        BY <2>1, <3>2, <4>1
      <4>3. CASE s = {}
        BY <2>1, <4>1, <4>2, <4>3
      <4>4. CASE s # {}
        <5>1. s \ {Max(s)} \in SUBSET (1 .. m)
          BY <4>1
        <5>2. m + 1 \notin s \ {Max(s)} /\ s \ {Max(s)} \in SUBSET (1 .. m + 1)
          BY <3>2
        <5>3. g[s \ {Max(s)}] = h[s \ {Max(s)}]
          BY <5>2
        <5>4. h[s] = F[<< h[s \ {Max(s)}], Max(s) >>]
          BY <2>1, <4>1, <4>4
        <5> HIDE DEF g, Fold, IsFold
        <5>5. QED
          BY <4>2, <4>4, <5>3, <5>4
      <4>5. QED
        BY <4>3, <4>4
    <3>3. QED
      BY <3>1, <3>2
  <2>3. DOMAIN g = SUBSET (1 .. m + 1)
    OBVIOUS
  <2>4. g = [s \in DOMAIN g |-> g[s]]
    OBVIOUS
  <2> HIDE DEF g
  <2>5. g \in [SUBSET (1 .. m + 1) -> T]
    BY <2>2, <2>3, <2>4
  <2>6. Fold(g, m + 1)
    BY <2>2, <2>5
  <2> HIDE DEF Fold, IsFold
  <2>7. QED
    BY <2>6
<1>3. n \in G
  <2> HIDE DEF G
  <2>1. 0 .. n \subseteq G
    BY <1>1, <1>2, UpTo
  <2>2. QED
    BY <2>1
<1>4. QED
  BY <1>3

\* The same, one equation after the other.
Folds(h, n, T, base, F) ==
  /\ h = [s \in SUBSET (1 .. n) |-> h[s]]
  /\ h[{}] = base
  /\ \A s \in SUBSET (1 .. n) : s # {} =>
       /\ Max(s) \in 1 .. n /\ h[s \ {Max(s)}] \in T
       /\ h[s] = F[<< h[s \ {Max(s)}], Max(s) >>]

LEMMA FoldSolved ==
  ASSUME NEW n \in Nat, NEW T, NEW base \in T, NEW F \in FoldSteps(n, T)
  PROVE  \E h : Folds(h, n, T, base, F)
<1>1. PICK h : IsFold(h, n, T, base, F)
  BY FoldExists
<1>2. ASSUME NEW s \in SUBSET (1 .. n), s # {}
      PROVE  Max(s) \in 1 .. n /\ s \ {Max(s)} \in SUBSET (1 .. n)
  BY <1>2, LastOfPart
<1>3. Folds(h, n, T, base, F)
  BY <1>1, <1>2 DEF IsFold, Folds
<1>4. QED
  BY <1>3

\* As much of the equations as is known before the values are known to be in T.
FoldsWithin(k, n, T, base, F) ==
  /\ k[{}] = base
  /\ \A s \in SUBSET (1 .. n) :
       s # {} /\ Max(s) \in 1 .. n /\ k[s \ {Max(s)}] \in T
         => k[s] = F[<< k[s \ {Max(s)}], Max(s) >>]

\* A fold whose steps stay in T stays there.
LEMMA FoldStays ==
  ASSUME NEW n \in Nat, NEW T, NEW base \in T, NEW F \in FoldSteps(n, T), NEW k,
         FoldsWithin(k, n, T, base, F)
  PROVE  k[1 .. n] \in T
<1> DEFINE G == {s \in SUBSET (1 .. n) : k[s] \in T}
<1>1. {} \in G
  BY DEF FoldsWithin
<1>2. ASSUME NEW s \in SUBSET (1 .. n), s # {}, s \ {Max(s)} \in G
      PROVE  s \in G
  <2>1. Max(s) \in 1 .. n
    BY <1>2, LastOfPart
  <2>2. k[s] = F[<< k[s \ {Max(s)}], Max(s) >>] /\ k[s \ {Max(s)}] \in T
    BY <1>2, <2>1 DEF FoldsWithin
  <2> DEFINE p == << k[s \ {Max(s)}], Max(s) >>
  <2>3. p \in T \X (1 .. n)
    BY <2>1, <2>2
  <2> HIDE DEF p
  <2>4. F[p] \in T
    BY <2>3 DEF FoldSteps
  <2>5. QED
    BY <1>2, <2>2, <2>4 DEF p
<1>3. SUBSET (1 .. n) \subseteq G
  <2> HIDE DEF G
  <2>1. QED
    BY <1>1, <1>2, OverParts
<1>4. QED
  BY <1>3

\* R relates states to the positions that are done in them: a step does its own
\* and undoes none.
Achieves(R, n, T, F) ==
  /\ \A s \in T, i \in 1 .. n : << F[<< s, i >>], i >> \in R
  /\ \A s \in T, i, j \in 1 .. n : << s, j >> \in R => << F[<< s, i >>], j >> \in R

\* In the end all positions are done.
LEMMA FoldAchieves ==
  ASSUME NEW n \in Nat, NEW T, NEW base \in T, NEW F \in FoldSteps(n, T), NEW k,
         FoldsWithin(k, n, T, base, F), NEW R, Achieves(R, n, T, F)
  PROVE  k[1 .. n] \in T /\ \A i \in 1 .. n : << k[1 .. n], i >> \in R
<1> DEFINE G == {s \in SUBSET (1 .. n) : k[s] \in T /\ \A i \in s : << k[s], i >> \in R}
<1>1. {} \in G
  BY DEF FoldsWithin
<1>2. ASSUME NEW s \in SUBSET (1 .. n), s # {}, s \ {Max(s)} \in G
      PROVE  s \in G
  <2> DEFINE last == Max(s)
             before == k[s \ {last}]
             p == << before, last >>
  <2>1. last \in s /\ last \in 1 .. n
    BY <1>2, LastOfPart
  <2>2. k[s] = F[p] /\ before \in T /\ \A i \in s \ {last} : << before, i >> \in R
    BY <1>2, <2>1 DEF FoldsWithin
  <2> HIDE DEF last, before
  <2>3. F[p] \in T /\ << F[p], last >> \in R
    BY <2>1, <2>2 DEF FoldSteps, Achieves
  <2>4. \A i \in s \ {last} : << F[p], i >> \in R
    BY <2>1, <2>2 DEF Achieves
  <2>5. QED
    BY <1>2, <2>1, <2>2, <2>3, <2>4
<1>3. SUBSET (1 .. n) \subseteq G
  <2> HIDE DEF G
  <2>1. QED
    BY <1>1, <1>2, OverParts
<1>4. QED
  BY <1>3

-----------------------------------------------------------------------------
(* Parts of any finite set *)

\* The parts of up to m elements: a fold of those is extended to those of one
\* element more, in whatever order it takes the elements.
PartsUpTo(S, m) == {s \in SUBSET S : Cardinality(s) <= m}

LEMMA PartGrows ==
  ASSUME NEW S, IsFiniteSet(S), NEW m \in Nat, NEW s \in PartsUpTo(S, m + 1), NEW x \in s
  PROVE  /\ s \ {x} \in PartsUpTo(S, m) \cap PartsUpTo(S, m + 1)
         /\ Cardinality(s \ {x}) # m + 1
         /\ Cardinality(s) # m + 1 => s \in PartsUpTo(S, m)
<1>1. IsFiniteSet(s) /\ Cardinality(s) \in Nat /\ Cardinality(s) <= m + 1 /\ s \in SUBSET S
  BY FS_Subset, FS_CardinalityType DEF PartsUpTo
<1>2. Cardinality(s \ {x}) = Cardinality(s) - 1
  BY <1>1, FS_RemoveElement
<1>3. s \ {x} \in SUBSET S
  BY <1>1
<1>4. QED
  BY <1>1, <1>2, <1>3 DEF PartsUpTo

LEMMA PartsAre ==
  ASSUME NEW S, IsFiniteSet(S)
  PROVE  /\ PartsUpTo(S, 0) = {{}} /\ PartsUpTo(S, Cardinality(S)) = SUBSET S
         /\ Cardinality(S) \in Nat /\ \A m \in Nat : {} \in PartsUpTo(S, m) /\ Cardinality({}) # m + 1
<1>1. Cardinality(S) \in Nat /\ Cardinality({}) = 0
  BY FS_CardinalityType, FS_EmptySet
<1>2. ASSUME NEW s \in SUBSET S
      PROVE  /\ Cardinality(s) \in Nat /\ Cardinality(s) <= Cardinality(S)
             /\ Cardinality(s) = 0 <=> s = {}
  BY FS_Subset, FS_CardinalityType, FS_EmptySet
<1>3. QED
  BY <1>1, <1>2 DEF PartsUpTo
=============================================================================
