--------------------------- MODULE ArrangementsProofs ---------------------------
(***************************************************************************)
(* Proofs about Arrangements: whatever is arranged, unarranged, related,   *)
(* elided and erased, every arrangement keeps its meaning and its dual.    *)
(*                                                                         *)
(* The argument is about one entity at a time: its relations R, its        *)
(* arrangements A and its hole h are a good end as long as every index is  *)
(* one of a relation to an entity that clients may arrange it with, and no *)
(* two arrangements of a kind are with the same entity.  As a pair can be  *)
(* arranged in one way only, two arrangements never share a relation, so   *)
(* that taking one out of the relations takes nothing from another.        *)
(***************************************************************************)
EXTENDS Arrangements, FiniteSetTheorems, SequenceTheorems, Inductions

-----------------------------------------------------------------------------
(* The inductive invariant                                                   *)

Ids == Entities \cup {Null}

\* The arrangements clients may make, from both ends.
Admitted == {t \in Entities \X Kind \X Entities :
               t \in Ways \/ << t[3], Dual[t[2]], t[1] >> \in Ways}

\* A relates to b by an arrangement of kind k.
Means(R, A, k, b) == \E i \in DOMAIN A[k] : R[A[k][i]] = b

\* One end.
GoodEnd(e, R, A, h) ==
  /\ R \in Seq(Ids) /\ A \in [Kind -> Seq(Nat)] /\ h \in Nat
  /\ \A k \in Kind : \A i \in DOMAIN A[k] :
       A[k][i] \in DOMAIN R /\ << e, k, R[A[k][i]] >> \in Admitted
  /\ \A k \in Kind : \A i, j \in DOMAIN A[k] : R[A[k][i]] = R[A[k][j]] => i = j
  /\ h # 0 => h \in DOMAIN R /\ R[h] = Null

States == [relations: [Entities -> Seq(Ids)],
           arranged: [Entities -> [Kind -> Seq(Nat)]],
           hole: [Entities -> Nat]]

Sound(now) ==
  /\ now \in States
  /\ \A e \in Entities : GoodEnd(e, now.relations[e], now.arranged[e], now.hole[e])

Linked(now, a, k, b) == Means(now.relations[a], now.arranged[a], k, b)

Mutual(now) ==
  \A a, b \in Entities, k \in Kind : Linked(now, a, k, b) => Linked(now, b, Dual[k], a)

\* Entities that are not there have no arrangements, and are in none.
Present(now, T) ==
  \A a, b \in Entities, k \in Kind : Linked(now, a, k, b) => a \in T /\ b \in T

\* What holds between calls, with T the entities that are there.
Kept(now, T) == Sound(now) /\ Mutual(now) /\ Present(now, T)

ArrInv ==
  /\ fresh \subseteq Entities /\ there \subseteq Entities \ fresh
  /\ Kept(Now, there)

-----------------------------------------------------------------------------
(* Kinds, and the ways clients arrange                                       *)

LEMMA KindsAre ==
  Kind = {"INCLUDES", "EMBEDDED_IN", "SUBSET_OF", "SUPERSET_OF", "INSTANCE_OF", "INSTANCED_BY"}
BY DEF Kind, Kinds, Range

LEMMA DualFacts ==
  /\ Dual \in [Kind -> Kind]
  /\ \A k \in Kind : Dual[Dual[k]] = k
BY KindsAre DEF Dual

LEMMA WaysAre ==
  ASSUME NEW w \in Ways
  PROVE  /\ w = << w[1], w[2], w[3] >>
         /\ w[1] \in Entities /\ w[2] \in Kind /\ w[3] \in Entities /\ w[1] # w[3]
<1>1. /\ w \in Entities \X {"INCLUDES", "SUPERSET_OF", "INSTANCE_OF"} \X Entities
      /\ w[1] # w[3]
  BY ArrangementConstantsOK
<1>2. QED
  BY <1>1, KindsAre

LEMMA AdmittedBoth ==
  ASSUME NEW a, NEW k, NEW b
  PROVE  /\ << a, k, b >> \in Admitted => /\ a \in Entities /\ k \in Kind /\ b \in Entities
                                          /\ a # b /\ << b, Dual[k], a >> \in Admitted
         /\ << a, k, b >> \in Ways => << a, k, b >> \in Admitted
<1>1. ASSUME << a, k, b >> \in Admitted
      PROVE  /\ a \in Entities /\ k \in Kind /\ b \in Entities
             /\ a # b /\ << b, Dual[k], a >> \in Admitted
  <2>1. /\ a \in Entities /\ k \in Kind /\ b \in Entities
        /\ << a, k, b >> \in Ways \/ << b, Dual[k], a >> \in Ways
    BY <1>1 DEF Admitted
  <2>2. a # b
    BY <2>1, WaysAre
  <2>3. Dual[k] \in Kind /\ Dual[Dual[k]] = k
    BY <2>1, DualFacts
  <2>4. QED
    BY <2>1, <2>2, <2>3 DEF Admitted
<1>2. ASSUME << a, k, b >> \in Ways PROVE << a, k, b >> \in Admitted
  BY <1>2, WaysAre DEF Admitted
<1>3. QED
  BY <1>1, <1>2

\* A pair of entities is arranged in one way.
LEMMA OneWay ==
  ASSUME NEW a, NEW b, NEW k, NEW l, << a, k, b >> \in Admitted, << a, l, b >> \in Admitted
  PROVE  k = l
<1>1. /\ a \in Entities /\ b \in Entities /\ k \in Kind /\ l \in Kind /\ a # b
      /\ << a, k, b >> \in Ways \/ << b, Dual[k], a >> \in Ways
      /\ << a, l, b >> \in Ways \/ << b, Dual[l], a >> \in Ways
  BY AdmittedBoth DEF Admitted
<1>2. ASSUME NEW v \in Ways, NEW w \in Ways, {v[1], v[3]} = {w[1], w[3]} PROVE v = w
  BY <1>2, ArrangementConstantsOK
<1>3. CASE << a, k, b >> \in Ways /\ << a, l, b >> \in Ways
  BY <1>2, <1>3
<1>4. CASE << a, k, b >> \in Ways /\ << b, Dual[l], a >> \in Ways
  <2>1. << a, k, b >> = << b, Dual[l], a >>
    BY <1>2, <1>4
  <2>2. QED
    BY <1>1, <2>1
<1>5. CASE << b, Dual[k], a >> \in Ways /\ << a, l, b >> \in Ways
  <2>1. << b, Dual[k], a >> = << a, l, b >>
    BY <1>2, <1>5
  <2>2. QED
    BY <1>1, <2>1
<1>6. CASE << b, Dual[k], a >> \in Ways /\ << b, Dual[l], a >> \in Ways
  <2>1. << b, Dual[k], a >> = << b, Dual[l], a >>
    BY <1>2, <1>6
  <2>2. Dual[k] = Dual[l]
    BY <2>1
  <2>3. QED
    BY <1>1, <2>2, DualFacts
<1>7. QED
  BY <1>1, <1>3, <1>4, <1>5, <1>6

\* RemoveAt of SequencesExt.
LEMMA RemoveAtFacts ==
  ASSUME NEW S, NEW w \in Seq(S), NEW p \in 1 .. Len(w)
  PROVE  /\ RemoveAt(w, p) \in Seq(S) /\ Len(RemoveAt(w, p)) = Len(w) - 1
         /\ DOMAIN RemoveAt(w, p) = 1 .. Len(w) - 1
         /\ \A i \in 1 .. Len(w) - 1 : RemoveAt(w, p)[i] = w[IF i < p THEN i ELSE i + 1]
<1> DEFINE front == SubSeq(w, 1, p - 1)
           back == SubSeq(w, p + 1, Len(w))
<1>1. Len(w) \in Nat /\ p \in Nat
  OBVIOUS
<1>2. /\ front \in Seq(S) /\ Len(front) = p - 1
      /\ \A i \in 1 .. p - 1 : front[i] = w[i]
  BY <1>1
<1>3. /\ back \in Seq(S) /\ Len(back) = Len(w) - p
      /\ \A i \in 1 .. Len(w) - p : back[i] = w[i + p]
  BY <1>1
<1> HIDE DEF front, back
<1> DEFINE v == front \o back
<1>4. v \in Seq(S) /\ Len(v) = Len(w) - 1 /\ DOMAIN v = 1 .. Len(w) - 1
  <2>1. v \in Seq(S) /\ Len(v) = Len(front) + Len(back)
    BY <1>2, <1>3, ConcatProperties
  <2> HIDE DEF v
  <2>2. Len(v) = Len(w) - 1
    BY <1>1, <1>2, <1>3, <2>1
  <2>3. QED
    BY <2>1, <2>2
<1>5. \A i \in 1 .. Len(w) - 1 : v[i] = IF i <= p - 1 THEN front[i] ELSE back[i - (p - 1)]
  BY <1>1, <1>2, <1>3
<1> HIDE DEF v
<1>6. ASSUME NEW i \in 1 .. Len(w) - 1
      PROVE  v[i] = w[IF i < p THEN i ELSE i + 1]
  <2>1. CASE i < p
    BY <1>1, <1>2, <1>5, <2>1
  <2>2. CASE ~(i < p)
    <3>1. i - (p - 1) \in 1 .. Len(w) - p /\ (i - (p - 1)) + p = i + 1
      BY <1>1, <2>2
    <3>2. v[i] = back[i - (p - 1)]
      BY <1>1, <1>5, <2>2
    <3>3. QED
      BY <1>3, <2>2, <3>1, <3>2
  <2>3. QED
    BY <2>1, <2>2
<1>7. RemoveAt(w, p) = v
  BY DEF RemoveAt, v, front, back
<1>8. QED
  BY <1>4, <1>6, <1>7

-----------------------------------------------------------------------------
(* One end                                                                   *)

LEMMA EndFacts ==
  ASSUME NEW e, NEW R, NEW A, NEW h, GoodEnd(e, R, A, h)
  PROVE  /\ R \in Seq(Ids) /\ Len(R) \in Nat /\ DOMAIN R = 1 .. Len(R)
         /\ A \in [Kind -> Seq(Nat)] /\ h \in Nat
         /\ \A k \in Kind : A[k] \in Seq(Nat) /\ Len(A[k]) \in Nat /\ DOMAIN A[k] = 1 .. Len(A[k])
BY DEF GoodEnd

\* A relation that an arrangement uses is not a hole, and what it relates to is
\* no other relation's that is used.
LEMMA UsedOnce ==
  ASSUME NEW e, NEW R, NEW A, NEW h, GoodEnd(e, R, A, h),
         NEW k \in Kind, NEW i \in DOMAIN A[k], NEW l \in Kind, NEW j \in DOMAIN A[l],
         R[A[k][i]] = R[A[l][j]]
  PROVE  k = l /\ i = j
<1>1. << e, k, R[A[k][i]] >> \in Admitted /\ << e, l, R[A[k][i]] >> \in Admitted
  BY DEF GoodEnd
<1>2. k = l
  BY <1>1, OneWay
<1>3. QED
  BY <1>2 DEF GoodEnd

\* Relations that no arrangement uses may change.
LEMMA KeptEnd ==
  ASSUME NEW e, NEW R, NEW A, NEW h, GoodEnd(e, R, A, h),
         NEW R1 \in Seq(Ids), NEW h1 \in Nat, h1 # 0 => h1 \in DOMAIN R1 /\ R1[h1] = Null,
         \A k \in Kind : \A i \in DOMAIN A[k] :
            A[k][i] \in DOMAIN R1 /\ R1[A[k][i]] = R[A[k][i]]
  PROVE  /\ GoodEnd(e, R1, A, h1)
         /\ \A k \in Kind, b \in Entities : Means(R1, A, k, b) <=> Means(R, A, k, b)
<1>1. GoodEnd(e, R1, A, h1)
  BY DEF GoodEnd
<1>2. ASSUME NEW k \in Kind, NEW b \in Entities
      PROVE  Means(R1, A, k, b) <=> Means(R, A, k, b)
  BY DEF Means
<1>3. QED
  BY <1>1, <1>2

WithIndex(A, k, p) == [A EXCEPT ![k] = Append(@, p)]

WithoutIndex(A, k, i) == [A EXCEPT ![k] = RemoveAt(@, i)]

\* One arrangement more.
LEMMA AppendedEnd ==
  ASSUME NEW e, NEW R, NEW A, NEW h, GoodEnd(e, R, A, h),
         NEW k \in Kind, NEW p \in DOMAIN R, << e, k, R[p] >> \in Admitted, ~Means(R, A, k, R[p]),
         NEW A1, A1 = WithIndex(A, k, p)
  PROVE  /\ GoodEnd(e, R, A1, h)
         /\ \A l \in Kind, b \in Entities :
              Means(R, A1, l, b) <=> Means(R, A, l, b) \/ (l = k /\ b = R[p])
<1>1. /\ R \in Seq(Ids) /\ DOMAIN R = 1 .. Len(R) /\ A \in [Kind -> Seq(Nat)] /\ h \in Nat
      /\ \A l \in Kind : A[l] \in Seq(Nat) /\ Len(A[l]) \in Nat /\ DOMAIN A[l] = 1 .. Len(A[l])
      /\ p \in Nat
  BY EndFacts
<1> DEFINE n == Len(A[k])
<1>2. A1 \in [Kind -> Seq(Nat)] /\ A1[k] = Append(A[k], p) /\ \A l \in Kind : l # k => A1[l] = A[l]
  BY <1>1 DEF WithIndex
<1>3. /\ DOMAIN A1[k] = 1 .. n + 1 /\ n \in Nat /\ A1[k][n + 1] = p
      /\ \A i \in 1 .. n : A1[k][i] = A[k][i]
      /\ DOMAIN A[k] = 1 .. n
  BY <1>1, <1>2
<1> HIDE DEF n
<1>4. ASSUME NEW l \in Kind, NEW i \in DOMAIN A1[l]
      PROVE  \/ i \in DOMAIN A[l] /\ A1[l][i] = A[l][i]
             \/ l = k /\ i = n + 1 /\ A1[l][i] = p
  <2>1. CASE l = k
    <3>1. i \in 1 .. n \/ i = n + 1
      BY <1>3, <2>1
    <3>2. QED
      BY <1>3, <2>1, <3>1
  <2>2. CASE l # k
    BY <1>2, <2>2
  <2>3. QED
    BY <2>1, <2>2
<1>5. ASSUME NEW l \in Kind, NEW i \in DOMAIN A[l]
      PROVE  i \in DOMAIN A1[l] /\ A1[l][i] = A[l][i]
  <2>1. CASE l = k
    <3>1. i \in 1 .. n /\ i \in 1 .. n + 1
      BY <1>3, <2>1
    <3>2. QED
      BY <1>3, <2>1, <3>1
  <2>2. CASE l # k
    BY <1>2, <2>2
  <2>3. QED
    BY <2>1, <2>2
<1>6. \A i \in DOMAIN A[k] : R[A[k][i]] # R[p]
  BY DEF Means
<1>7. ASSUME NEW l \in Kind, NEW i \in DOMAIN A1[l]
      PROVE  A1[l][i] \in DOMAIN R /\ << e, l, R[A1[l][i]] >> \in Admitted
  BY <1>4 DEF GoodEnd
<1>8. ASSUME NEW l \in Kind, NEW i \in DOMAIN A1[l], NEW j \in DOMAIN A1[l],
             R[A1[l][i]] = R[A1[l][j]]
      PROVE  i = j
  <2>1. CASE i \in DOMAIN A[l] /\ A1[l][i] = A[l][i] /\ j \in DOMAIN A[l] /\ A1[l][j] = A[l][j]
    BY <1>8, <2>1 DEF GoodEnd
  <2>2. QED
    BY <1>4, <1>6, <1>8, <2>1
<1>9. GoodEnd(e, R, A1, h)
  BY <1>1, <1>2, <1>7, <1>8 DEF GoodEnd
<1>10. ASSUME NEW l \in Kind, NEW b \in Entities
       PROVE  Means(R, A1, l, b) <=> Means(R, A, l, b) \/ (l = k /\ b = R[p])
  <2>1. ASSUME Means(R, A1, l, b) PROVE Means(R, A, l, b) \/ (l = k /\ b = R[p])
    BY <1>4, <2>1 DEF Means
  <2>2. ASSUME Means(R, A, l, b) PROVE Means(R, A1, l, b)
    BY <1>5, <2>2 DEF Means
  <2>3. ASSUME l = k, b = R[p] PROVE Means(R, A1, l, b)
    <3>1. n + 1 \in DOMAIN A1[k] /\ A1[k][n + 1] = p
      BY <1>3
    <3>2. QED
      BY <2>3, <3>1 DEF Means
  <2>4. QED
    BY <2>1, <2>2, <2>3
<1>11. QED
  BY <1>9, <1>10

\* One arrangement less, and its relation a hole.
LEMMA TakenEnd ==
  ASSUME NEW e, NEW R, NEW A, NEW h, GoodEnd(e, R, A, h),
         NEW k \in Kind, NEW i \in DOMAIN A[k],
         NEW R1 \in Seq(Ids), DOMAIN R1 = DOMAIN R,
         \A q \in DOMAIN R : q # A[k][i] => R1[q] = R[q],
         NEW h1 \in Nat, h1 # 0 => h1 \in DOMAIN R1 /\ R1[h1] = Null,
         NEW A1, A1 = WithoutIndex(A, k, i)
  PROVE  /\ GoodEnd(e, R1, A1, h1)
         /\ Len(A1[k]) = Len(A[k]) - 1 /\ \A l \in Kind : l # k => A1[l] = A[l]
         /\ \A l \in Kind, b \in Entities :
              Means(R1, A1, l, b) <=> Means(R, A, l, b) /\ ~(l = k /\ b = R[A[k][i]])
<1> DEFINE p == A[k][i]
           src(l, j) == IF l = k /\ j >= i THEN j + 1 ELSE j
           n == Len(A[k])
<1>1. /\ R \in Seq(Ids) /\ DOMAIN R = 1 .. Len(R) /\ A \in [Kind -> Seq(Nat)]
      /\ \A l \in Kind : A[l] \in Seq(Nat) /\ Len(A[l]) \in Nat /\ DOMAIN A[l] = 1 .. Len(A[l])
  BY EndFacts
<1>2. /\ n \in Nat /\ i \in 1 .. n
      /\ RemoveAt(A[k], i) \in Seq(Nat) /\ DOMAIN RemoveAt(A[k], i) = 1 .. n - 1
      /\ Len(RemoveAt(A[k], i)) = n - 1
      /\ \A j \in 1 .. n - 1 : RemoveAt(A[k], i)[j] = A[k][IF j < i THEN j ELSE j + 1]
  <2> DEFINE w == A[k]
  <2>1. w \in Seq(Nat) /\ Len(w) \in Nat /\ DOMAIN w = 1 .. Len(w) /\ i \in 1 .. Len(w)
    BY <1>1
  <2> HIDE DEF w
  <2>2. /\ RemoveAt(w, i) \in Seq(Nat) /\ Len(RemoveAt(w, i)) = Len(w) - 1
        /\ DOMAIN RemoveAt(w, i) = 1 .. Len(w) - 1
        /\ \A j \in 1 .. Len(w) - 1 : RemoveAt(w, i)[j] = w[IF j < i THEN j ELSE j + 1]
    BY <2>1, RemoveAtFacts
  <2>3. QED
    BY <2>1, <2>2 DEF w
<1>3. /\ A1 \in [Kind -> Seq(Nat)] /\ A1[k] = RemoveAt(A[k], i)
      /\ \A l \in Kind : l # k => A1[l] = A[l]
  BY <1>1, <1>2 DEF WithoutIndex
<1>4. ASSUME NEW l \in Kind, NEW j \in DOMAIN A1[l]
      PROVE  /\ src(l, j) \in DOMAIN A[l] /\ A1[l][j] = A[l][src(l, j)]
             /\ ~(l = k /\ src(l, j) = i) /\ j \in Nat
  <2> HIDE DEF p
  <2>1. CASE l = k
    <3>1. j \in 1 .. n - 1 /\ DOMAIN A[l] = 1 .. n /\ A1[l][j] = A[l][IF j < i THEN j ELSE j + 1]
      BY <1>1, <1>2, <1>3, <2>1
    <3> HIDE DEF n
    <3>2. src(l, j) = (IF j < i THEN j ELSE j + 1) /\ src(l, j) \in 1 .. n /\ src(l, j) # i /\ j \in Nat
      BY <1>2, <2>1, <3>1
    <3>3. QED
      BY <3>1, <3>2
  <2>2. CASE l # k
    <3>1. src(l, j) = j /\ A1[l] = A[l]
      BY <1>3, <2>2
    <3>2. j \in Nat
      BY <1>1, <3>1
    <3>3. QED
      BY <2>2, <3>1, <3>2
  <2>3. QED
    BY <2>1, <2>2
<1>5. ASSUME NEW l \in Kind, NEW j \in DOMAIN A[l], ~(l = k /\ j = i)
      PROVE  \E m \in DOMAIN A1[l] : src(l, m) = j
  <2>1. CASE l = k /\ j > i
    <3>1. j - 1 \in 1 .. n - 1 /\ j - 1 >= i /\ (j - 1) + 1 = j
      <4>1. j \in 1 .. n
        BY <1>1, <2>1
      <4> HIDE DEF n
      <4>2. QED
        BY <1>2, <2>1, <4>1
    <3>2. j - 1 \in DOMAIN A1[l] /\ src(l, j - 1) = j
      BY <1>2, <1>3, <2>1, <3>1
    <3>3. QED
      BY <3>2
  <2>2. CASE l = k /\ j < i
    <3>1. j \in DOMAIN A1[l] /\ src(l, j) = j
      BY <1>1, <1>2, <1>3, <2>2
    <3>2. QED
      BY <3>1
  <2>3. CASE l # k
    BY <1>3, <2>3
  <2>4. QED
    BY <1>1, <1>2, <1>5, <2>1, <2>2, <2>3
<1>6. \A l \in Kind : \A j \in DOMAIN A[l] : R[A[l][j]] = R[p] => l = k /\ j = i
  BY UsedOnce
<1>7. ASSUME NEW l \in Kind, NEW j \in DOMAIN A1[l], NEW m \in DOMAIN A1[l], src(l, j) = src(l, m)
      PROVE  j = m
  <2>1. j \in Nat /\ m \in Nat /\ i \in Nat
    BY <1>2, <1>4
  <2>2. QED
    BY <1>7, <2>1
<1> HIDE DEF src, p, n
<1>8. ASSUME NEW l \in Kind, NEW j \in DOMAIN A1[l]
      PROVE  /\ A1[l][j] \in DOMAIN R /\ R1[A1[l][j]] = R[A[l][src(l, j)]]
             /\ << e, l, R[A[l][src(l, j)]] >> \in Admitted
  <2>1. src(l, j) \in DOMAIN A[l] /\ A1[l][j] = A[l][src(l, j)] /\ ~(l = k /\ src(l, j) = i)
    BY <1>4
  <2>2. A[l][src(l, j)] \in DOMAIN R /\ << e, l, R[A[l][src(l, j)]] >> \in Admitted
    BY <2>1 DEF GoodEnd
  <2>3. A[l][src(l, j)] # p
    BY <1>6, <2>1
  <2>4. QED
    BY <2>1, <2>2, <2>3 DEF p
<1>9. ASSUME NEW l \in Kind, NEW j \in DOMAIN A1[l], NEW m \in DOMAIN A1[l],
             R1[A1[l][j]] = R1[A1[l][m]]
      PROVE  j = m
  <2>1. R[A[l][src(l, j)]] = R[A[l][src(l, m)]]
    BY <1>8, <1>9
  <2>2. src(l, j) \in DOMAIN A[l] /\ src(l, m) \in DOMAIN A[l]
    BY <1>4
  <2>3. src(l, j) = src(l, m)
    BY <2>1, <2>2 DEF GoodEnd
  <2>4. QED
    BY <1>7, <2>3
<1>10. GoodEnd(e, R1, A1, h1)
  <2>1. ASSUME NEW l \in Kind, NEW j \in DOMAIN A1[l]
        PROVE  A1[l][j] \in DOMAIN R1 /\ << e, l, R1[A1[l][j]] >> \in Admitted
    BY <1>8
  <2>2. QED
    BY <1>3, <1>9, <2>1 DEF GoodEnd
<1>11. ASSUME NEW l \in Kind, NEW b \in Entities
       PROVE  Means(R1, A1, l, b) <=> Means(R, A, l, b) /\ ~(l = k /\ b = R[p])
  <2>1. ASSUME NEW j \in DOMAIN A1[l], R1[A1[l][j]] = b
        PROVE  Means(R, A, l, b) /\ ~(l = k /\ b = R[p])
    <3>1. src(l, j) \in DOMAIN A[l] /\ ~(l = k /\ src(l, j) = i) /\ R[A[l][src(l, j)]] = b
      BY <1>4, <1>8, <2>1
    <3>2. QED
      BY <1>6, <3>1 DEF Means
  <2>2. ASSUME NEW j \in DOMAIN A[l], R[A[l][j]] = b, ~(l = k /\ b = R[p])
        PROVE  \E m \in DOMAIN A1[l] : R1[A1[l][m]] = b
    <3>1. ~(l = k /\ j = i)
      BY <2>2 DEF p
    <3>2. PICK m \in DOMAIN A1[l] : src(l, m) = j
      BY <1>5, <3>1
    <3>3. R1[A1[l][m]] = R[A[l][src(l, m)]]
      BY <1>8
    <3>4. QED
      BY <2>2, <3>2, <3>3
  <2>3. QED
    BY <2>1, <2>2 DEF Means
<1>12. Len(A1[k]) = Len(A[k]) - 1
  BY <1>2, <1>3 DEF n
<1>13. QED
  BY <1>3, <1>10, <1>11, <1>12 DEF p

-----------------------------------------------------------------------------
(* Where an element is                                                       *)

LEMMA FromFacts ==
  ASSUME NEW X, NEW s \in Seq(X), NEW p \in Nat \ {0}, NEW e
  PROVE  /\ From(s, p, e) \in 0 .. Len(s) /\ From(s, p, e) \in Nat
         /\ From(s, p, e) # 0 => From(s, p, e) \in p .. Len(s) /\ s[From(s, p, e)] = e
         /\ From(s, p, e) = 0 => \A n \in p .. Len(s) : s[n] # e
<1> DEFINE at == {n \in p .. Len(s) : s[n] = e}
<1>1. Len(s) \in Nat
  OBVIOUS
<1>2. CASE at = {}
  <2>1. From(s, p, e) = 0
    BY <1>2 DEF From
  <2>2. QED
    BY <1>1, <1>2, <2>1
<1>3. CASE at # {}
  <2>1. at \in SUBSET Nat
    BY <1>1
  <2>2. \E n \in at : \A q \in at : n <= q
    <3> HIDE DEF at
    <3>1. QED
      BY <1>3, <2>1, SmallestNumber
  <2>3. From(s, p, e) \in at
    <3>1. From(s, p, e) = CHOOSE n \in at : \A q \in at : n <= q
      BY <1>3 DEF From
    <3> HIDE DEF at
    <3>2. QED
      BY <2>2, <3>1
  <2>4. QED
    BY <1>1, <2>3
<1>4. QED
  BY <1>2, <1>3

\* An arrangement with an entity.
LEMMA FindFacts ==
  ASSUME NEW now, Sound(now), NEW e \in Entities, NEW k \in Kind, NEW b
  PROVE  /\ Find(now, e, k, b) # 0 => /\ Find(now, e, k, b) \in DOMAIN now.arranged[e][k]
                                      /\ Related(now, e, k, Find(now, e, k, b)) = b
         /\ Find(now, e, k, b) = 0 <=> ~Linked(now, e, k, b)
<1> DEFINE R == now.relations[e]
           A == now.arranged[e]
           s == [i \in DOMAIN A[k] |-> R[A[k][i]]]
           f == Find(now, e, k, b)
<1>1. /\ GoodEnd(e, R, A, now.hole[e])
      /\ R \in Seq(Ids) /\ DOMAIN R = 1 .. Len(R) /\ Len(A[k]) \in Nat /\ DOMAIN A[k] = 1 .. Len(A[k])
  BY EndFacts DEF Sound
<1>2. s \in Seq(Ids) /\ Len(s) = Len(A[k]) /\ \A i \in DOMAIN A[k] : s[i] = R[A[k][i]]
  <2> HIDE DEF R, A
  <2>1. \A i \in DOMAIN A[k] : R[A[k][i]] \in Ids
    <3>1. \A i \in DOMAIN A[k] : A[k][i] \in DOMAIN R
      BY <1>1 DEF GoodEnd
    <3>2. QED
      BY <1>1, <3>1
  <2>2. s \in [1 .. Len(A[k]) -> Ids]
    BY <1>1, <2>1
  <2>3. QED
    BY <1>1, <2>2
<1>3. f = From(s, 1, b)
  BY DEF Find, Related
<1>4. Linked(now, e, k, b) <=> \E i \in DOMAIN A[k] : R[A[k][i]] = b
  BY DEF Linked, Means
<1>5. Related(now, e, k, f) = R[A[k][f]]
  BY DEF Related
<1> HIDE DEF s, R, f
<1>6. /\ f # 0 => f \in 1 .. Len(s) /\ s[f] = b
      /\ f = 0 => \A n \in 1 .. Len(s) : s[n] # b
  BY <1>2, <1>3, FromFacts
<1>7. QED
  BY <1>1, <1>2, <1>4, <1>5, <1>6 DEF f, A

-----------------------------------------------------------------------------
(* One end of a state                                                        *)

At(now, e, R, A, h) ==
  [relations |-> [now.relations EXCEPT ![e] = R],
   arranged  |-> [now.arranged EXCEPT ![e] = A],
   hole      |-> [now.hole EXCEPT ![e] = h]]

LEMMA SoundFacts ==
  ASSUME NEW now, Sound(now), NEW e \in Entities
  PROVE  /\ now \in States /\ GoodEnd(e, now.relations[e], now.arranged[e], now.hole[e])
         /\ now.relations[e] \in Seq(Ids) /\ Len(now.relations[e]) \in Nat
         /\ DOMAIN now.relations[e] = 1 .. Len(now.relations[e])
         /\ now.arranged[e] \in [Kind -> Seq(Nat)] /\ now.hole[e] \in Nat
         /\ now.hole[e] # 0 => /\ now.hole[e] \in DOMAIN now.relations[e]
                               /\ now.relations[e][now.hole[e]] = Null
<1> DEFINE R == now.relations[e]
           A == now.arranged[e]
           h == now.hole[e]
<1>1. now \in States /\ GoodEnd(e, R, A, h)
  BY DEF Sound
<1> HIDE DEF R, A, h
<1>2. /\ R \in Seq(Ids) /\ Len(R) \in Nat /\ DOMAIN R = 1 .. Len(R)
      /\ A \in [Kind -> Seq(Nat)] /\ h \in Nat
  BY <1>1, EndFacts
<1>3. h # 0 => h \in DOMAIN R /\ R[h] = Null
  BY <1>1 DEF GoodEnd
<1>4. QED
  BY <1>1, <1>2, <1>3 DEF R, A, h

LEMMA AtFacts ==
  ASSUME NEW now, Sound(now), NEW e \in Entities, NEW R, NEW A, NEW h, GoodEnd(e, R, A, h)
  PROVE  /\ Sound(At(now, e, R, A, h))
         /\ \A a, b \in Entities, k \in Kind :
              Linked(At(now, e, R, A, h), a, k, b)
                <=> IF a = e THEN Means(R, A, k, b) ELSE Linked(now, a, k, b)
         /\ At(now, e, R, A, h).relations[e] = R /\ At(now, e, R, A, h).arranged[e] = A
         /\ At(now, e, R, A, h).hole[e] = h
         /\ \A x \in Entities : x # e =>
              /\ At(now, e, R, A, h).relations[x] = now.relations[x]
              /\ At(now, e, R, A, h).arranged[x] = now.arranged[x]
              /\ At(now, e, R, A, h).hole[x] = now.hole[x]
<1> DEFINE new == At(now, e, R, A, h)
<1>1. now \in States /\ R \in Seq(Ids) /\ A \in [Kind -> Seq(Nat)] /\ h \in Nat
  BY EndFacts DEF Sound
<1>2. /\ new.relations = [now.relations EXCEPT ![e] = R]
      /\ new.arranged = [now.arranged EXCEPT ![e] = A]
      /\ new.hole = [now.hole EXCEPT ![e] = h]
      /\ new = [relations |-> new.relations, arranged |-> new.arranged, hole |-> new.hole]
  BY DEF At
<1> HIDE DEF new
<1>3. new \in States
  <2> DEFINE R1 == new.relations
             A1 == new.arranged
             h1 == new.hole
  <2>1. /\ R1 \in [Entities -> Seq(Ids)] /\ A1 \in [Entities -> [Kind -> Seq(Nat)]]
        /\ h1 \in [Entities -> Nat]
    BY <1>1, <1>2 DEF States
  <2>2. new = [relations |-> R1, arranged |-> A1, hole |-> h1]
    BY <1>2
  <2> HIDE DEF R1, A1, h1
  <2>3. QED
    BY <2>1, <2>2 DEF States
<1>4. new.relations[e] = R /\ new.arranged[e] = A /\ new.hole[e] = h
  BY <1>1, <1>2 DEF States
<1>5. \A x \in Entities : x # e =>
        /\ new.relations[x] = now.relations[x]
        /\ new.arranged[x] = now.arranged[x]
        /\ new.hole[x] = now.hole[x]
  BY <1>1, <1>2 DEF States
<1>6. Sound(new)
  BY <1>3, <1>4, <1>5 DEF Sound
<1>7. ASSUME NEW a \in Entities, NEW b \in Entities, NEW k \in Kind
      PROVE  Linked(new, a, k, b) <=> IF a = e THEN Means(R, A, k, b) ELSE Linked(now, a, k, b)
  BY <1>4, <1>5 DEF Linked
<1>8. QED
  BY <1>4, <1>5, <1>6, <1>7 DEF new

\* What a step does to the arrangements there are.
Same(new, now) ==
  /\ Sound(new)
  /\ \A x, y \in Entities, l \in Kind : Linked(new, x, l, y) <=> Linked(now, x, l, y)

Adds(new, now, e, k, b) ==
  /\ Sound(new)
  /\ \A x, y \in Entities, l \in Kind :
       Linked(new, x, l, y) <=> Linked(now, x, l, y) \/ (x = e /\ l = k /\ y = b)

Drops(new, now, e, k, b) ==
  /\ Sound(new)
  /\ \A x, y \in Entities, l \in Kind :
       Linked(new, x, l, y) <=> Linked(now, x, l, y) /\ ~(x = e /\ l = k /\ y = b)

\* The relations of one entity change where no arrangement uses them.
LEMMA KeptAt ==
  ASSUME NEW now, Sound(now), NEW e \in Entities,
         NEW R1 \in Seq(Ids), NEW h1 \in Nat, h1 # 0 => h1 \in DOMAIN R1 /\ R1[h1] = Null,
         \A k \in Kind : \A i \in DOMAIN now.arranged[e][k] :
            /\ now.arranged[e][k][i] \in DOMAIN R1
            /\ R1[now.arranged[e][k][i]] = now.relations[e][now.arranged[e][k][i]]
  PROVE  Same(At(now, e, R1, now.arranged[e], h1), now)
<1> DEFINE A == now.arranged[e]
           R == now.relations[e]
           new == At(now, e, R1, A, h1)
<1>1. GoodEnd(e, R, A, now.hole[e])
  BY SoundFacts
<1>2. /\ GoodEnd(e, R1, A, h1)
      /\ \A k \in Kind, b \in Entities : Means(R1, A, k, b) <=> Means(R, A, k, b)
  <2>1. \A k \in Kind : \A i \in DOMAIN A[k] : A[k][i] \in DOMAIN R1 /\ R1[A[k][i]] = R[A[k][i]]
    OBVIOUS
  <2> HIDE DEF A, R
  <2>2. QED
    BY <1>1, <2>1, KeptEnd
<1>3. /\ Sound(new)
      /\ \A a, b \in Entities, k \in Kind :
           Linked(new, a, k, b) <=> IF a = e THEN Means(R1, A, k, b) ELSE Linked(now, a, k, b)
  <2> HIDE DEF A
  <2>1. QED
    BY <1>2, AtFacts
<1>4. \A k \in Kind, b \in Entities : Means(R, A, k, b) <=> Linked(now, e, k, b)
  BY DEF Linked
<1> HIDE DEF A, R, new
<1>5. Same(new, now)
  BY <1>2, <1>3, <1>4 DEF Same
<1>6. QED
  BY <1>5 DEF new, A

-----------------------------------------------------------------------------
(* The operations on one end                                                 *)

\* Nothing of the other entities changes.
Apart(new, now, e) ==
  \A x \in Entities : x # e => /\ new.relations[x] = now.relations[x]
                               /\ new.arranged[x] = now.arranged[x]
                               /\ new.hole[x] = now.hole[x]

LEMMA AppendFacts ==
  ASSUME NEW X, NEW s \in Seq(X), NEW x \in X
  PROVE  /\ Append(s, x) \in Seq(X) /\ Len(Append(s, x)) = Len(s) + 1
         /\ DOMAIN s = 1 .. Len(s) /\ DOMAIN Append(s, x) = 1 .. Len(s) + 1 /\ Len(s) \in Nat
         /\ Append(s, x)[Len(s) + 1] = x
         /\ \A i \in 1 .. Len(s) : i \in DOMAIN Append(s, x) /\ Append(s, x)[i] = s[i]
OBVIOUS

LEMMA HoleFilled ==
  ASSUME NEW s \in Seq(Ids), NEW p \in DOMAIN s, NEW x \in Ids
  PROVE  /\ [s EXCEPT ![p] = x] \in Seq(Ids) /\ DOMAIN [s EXCEPT ![p] = x] = DOMAIN s
         /\ [s EXCEPT ![p] = x][p] = x
         /\ \A q \in DOMAIN s : q # p => [s EXCEPT ![p] = x][q] = s[q]
OBVIOUS

\* What an arrangement uses is an entity's.
LEMMA UsedIsEntity ==
  ASSUME NEW now, Sound(now), NEW e \in Entities, NEW k \in Kind, NEW i \in DOMAIN now.arranged[e][k]
  PROVE  /\ now.arranged[e][k][i] \in DOMAIN now.relations[e]
         /\ << e, k, Related(now, e, k, i) >> \in Admitted
         /\ now.relations[e][now.arranged[e][k][i]] = Related(now, e, k, i)
         /\ Related(now, e, k, i) \in Entities /\ Related(now, e, k, i) # Null
         /\ Related(now, e, k, i) # e
         /\ Linked(now, e, k, Related(now, e, k, i))
<1>1. GoodEnd(e, now.relations[e], now.arranged[e], now.hole[e])
  BY SoundFacts
<1>2. /\ now.arranged[e][k][i] \in DOMAIN now.relations[e]
      /\ << e, k, now.relations[e][now.arranged[e][k][i]] >> \in Admitted
  BY <1>1 DEF GoodEnd
<1>3. Linked(now, e, k, now.relations[e][now.arranged[e][k][i]])
  BY DEF Linked, Means
<1>4. QED
  BY <1>2, <1>3, AdmittedBoth, ArrangementConstantsOK DEF Related

LEMMA FindOrAppendFacts ==
  ASSUME NEW now, Sound(now), NEW e \in Entities, NEW b \in Entities
  PROVE  /\ Same(FindOrAppend(now, e, b), now) /\ Apart(FindOrAppend(now, e, b), now, e)
         /\ FindOrAppend(now, e, b).arranged = now.arranged
         /\ FindOrAppend(now, e, b).hole = now.hole
         /\ \E p \in DOMAIN FindOrAppend(now, e, b).relations[e] :
              FindOrAppend(now, e, b).relations[e][p] = b
<1> DEFINE R == now.relations[e]
           A == now.arranged[e]
           new == FindOrAppend(now, e, b)
           R1 == Append(R, b)
<1>1. /\ R \in Seq(Ids) /\ Len(R) \in Nat /\ DOMAIN R = 1 .. Len(R) /\ now \in States
      /\ now.hole[e] \in Nat
      /\ now.hole[e] # 0 => now.hole[e] \in DOMAIN R /\ R[now.hole[e]] = Null
  BY SoundFacts
<1>2. CASE b \in Range(R)
  <2>1. new = now
    BY <1>2 DEF FindOrAppend
  <2>2. \E p \in DOMAIN R : R[p] = b
    BY <1>2 DEF Range
  <2>3. QED
    BY <2>1, <2>2 DEF Same, Apart
<1>3. CASE b \notin Range(R)
  <2>1. new = At(now, e, R1, A, now.hole[e])
    <3>1. new = [now EXCEPT !.relations = [now.relations EXCEPT ![e] = R1]]
      BY <1>3 DEF FindOrAppend
    <3>2. /\ now = [relations |-> now.relations, arranged |-> now.arranged, hole |-> now.hole]
          /\ now.arranged = [now.arranged EXCEPT ![e] = A]
          /\ now.hole = [now.hole EXCEPT ![e] = now.hole[e]]
      BY <1>1 DEF States
    <3> HIDE DEF new, R1, A
    <3>3. QED
      BY <3>1, <3>2 DEF At
  <2>2. /\ R1 \in Seq(Ids) /\ DOMAIN R1 = 1 .. Len(R) + 1 /\ R1[Len(R) + 1] = b
        /\ \A q \in DOMAIN R : q \in DOMAIN R1 /\ R1[q] = R[q]
    <3>1. b \in Ids
      BY DEF Ids
    <3> HIDE DEF R
    <3>2. QED
      BY <1>1, <3>1, AppendFacts
  <2>3. \A k \in Kind : \A i \in DOMAIN A[k] : A[k][i] \in DOMAIN R
    BY UsedIsEntity
  <2>4. now.hole[e] # 0 => now.hole[e] \in DOMAIN R1 /\ R1[now.hole[e]] = Null
    <3> HIDE DEF R1, R
    <3>1. QED
      BY <1>1, <2>2
  <2>5. \A k \in Kind : \A i \in DOMAIN A[k] : A[k][i] \in DOMAIN R1 /\ R1[A[k][i]] = R[A[k][i]]
    <3> HIDE DEF R1, R, A
    <3>1. QED
      BY <2>2, <2>3
  <2>6. Same(new, now)
    <3> HIDE DEF R1, new
    <3>1. QED
      BY <1>1, <2>1, <2>2, <2>4, <2>5, KeptAt
  <2>7. /\ new.arranged = now.arranged /\ new.hole = now.hole /\ new.relations[e] = R1
        /\ \A x \in Entities : x # e => new.relations[x] = now.relations[x]
    <3> HIDE DEF R1
    <3>1. QED
      BY <1>1, <2>1 DEF At, States
  <2>8. Len(R) + 1 \in DOMAIN new.relations[e] /\ new.relations[e][Len(R) + 1] = b
    <3> HIDE DEF R1, R, new
    <3>1. QED
      BY <1>1, <2>2, <2>7
  <2> HIDE DEF new, R1, R
  <2>9. QED
    BY <2>6, <2>7, <2>8 DEF Apart, new
<1>4. QED
  BY <1>2, <1>3

\* An arrangement is appended that uses a relation there is.
LEMMA AppendArrangement ==
  ASSUME NEW now, Sound(now), NEW e, NEW k, NEW b, << e, k, b >> \in Admitted,
         ~Linked(now, e, k, b), NEW p \in DOMAIN now.relations[e], now.relations[e][p] = b
  PROVE  /\ Adds([now EXCEPT !.arranged[e][k] = Append(@, p)], now, e, k, b)
         /\ Apart([now EXCEPT !.arranged[e][k] = Append(@, p)], now, e)
<1> DEFINE R == now.relations[e]
           A == now.arranged[e]
           h == now.hole[e]
           A1 == WithIndex(A, k, p)
           new == [now EXCEPT !.arranged[e][k] = Append(@, p)]
<1>1. e \in Entities /\ k \in Kind /\ b \in Entities
  BY AdmittedBoth
<1>2. /\ now \in States /\ GoodEnd(e, R, A, h)
  BY <1>1, SoundFacts
<1>3. new = At(now, e, R, A1, h)
  <2>1. new = [now EXCEPT !.arranged = [now.arranged EXCEPT ![e] = A1]]
    BY <1>1, <1>2 DEF States, WithIndex
  <2>2. /\ now = [relations |-> now.relations, arranged |-> now.arranged, hole |-> now.hole]
        /\ now.relations = [now.relations EXCEPT ![e] = R]
        /\ now.hole = [now.hole EXCEPT ![e] = h]
    BY <1>2 DEF States
  <2> HIDE DEF new, A1, R, h
  <2>3. QED
    BY <2>1, <2>2 DEF At
<1>4. ~Means(R, A, k, b)
  BY DEF Linked
<1>5. /\ GoodEnd(e, R, A1, h)
      /\ \A l \in Kind, y \in Entities :
           Means(R, A1, l, y) <=> Means(R, A, l, y) \/ (l = k /\ y = b)
  <2> HIDE DEF R, A, h
  <2>1. p \in DOMAIN R /\ R[p] = b
    BY DEF R
  <2>2. QED
    BY <1>1, <1>2, <1>4, <2>1, AppendedEnd
<1>6. \A l \in Kind, y \in Entities : Means(R, A, l, y) <=> Linked(now, e, l, y)
  BY DEF Linked
<1> HIDE DEF R, A, A1, h, new
<1>7. /\ Sound(new) /\ Apart(new, now, e)
      /\ \A x, y \in Entities, l \in Kind :
           Linked(new, x, l, y) <=> IF x = e THEN Means(R, A1, l, y) ELSE Linked(now, x, l, y)
  BY <1>1, <1>3, <1>5, AtFacts DEF Apart
<1>8. Adds(new, now, e, k, b)
  BY <1>5, <1>6, <1>7 DEF Adds
<1>9. QED
  BY <1>7, <1>8 DEF new

LEMMA FirstOf ==
  ASSUME NEW now, Sound(now), NEW e \in Entities, NEW b,
         \E p \in DOMAIN now.relations[e] : now.relations[e][p] = b
  PROVE  /\ From(now.relations[e], 1, b) \in DOMAIN now.relations[e]
         /\ now.relations[e][From(now.relations[e], 1, b)] = b
<1> DEFINE s == now.relations[e]
<1>1. s \in Seq(Ids) /\ DOMAIN s = 1 .. Len(s) /\ \E p \in DOMAIN s : s[p] = b
  BY SoundFacts
<1> HIDE DEF s
<1>2. From(s, 1, b) # 0 /\ From(s, 1, b) \in 1 .. Len(s) /\ s[From(s, 1, b)] = b
  BY <1>1, FromFacts
<1>3. QED
  BY <1>1, <1>2 DEF s

LEMMA FindOrAddFacts ==
  ASSUME NEW now, Sound(now), NEW e, NEW k, NEW b, << e, k, b >> \in Admitted
  PROVE  Adds(FindOrAdd(now, e, k, b), now, e, k, b) /\ Apart(FindOrAdd(now, e, k, b), now, e)
<1> DEFINE with == FindOrAppend(now, e, b)
           p == From(with.relations[e], 1, b)
<1>1. e \in Entities /\ k \in Kind /\ b \in Entities
  BY AdmittedBoth
<1>2. CASE Find(now, e, k, b) # 0
  <2>1. FindOrAdd(now, e, k, b) = now
    BY <1>2 DEF FindOrAdd
  <2>2. Linked(now, e, k, b)
    BY <1>1, <1>2, FindFacts
  <2>3. QED
    BY <2>1, <2>2 DEF Adds, Apart
<1>3. CASE Find(now, e, k, b) = 0
  <2> DEFINE new == [with EXCEPT !.arranged[e][k] = Append(@, p)]
  <2>1. FindOrAdd(now, e, k, b) = new
    BY <1>3 DEF FindOrAdd
  <2>2. ~Linked(now, e, k, b)
    BY <1>1, <1>3, FindFacts
  <2>3. /\ Same(with, now) /\ Apart(with, now, e)
        /\ \E q \in DOMAIN with.relations[e] : with.relations[e][q] = b
    BY <1>1, FindOrAppendFacts
  <2> HIDE DEF with
  <2>4. Sound(with) /\ ~Linked(with, e, k, b)
    BY <1>1, <2>2, <2>3 DEF Same
  <2>5. p \in DOMAIN with.relations[e] /\ with.relations[e][p] = b
    BY <1>1, <2>3, <2>4, FirstOf
  <2> HIDE DEF p
  <2>6. Adds(new, with, e, k, b) /\ Apart(new, with, e)
    BY <2>4, <2>5, AppendArrangement
  <2> HIDE DEF new
  <2>7. Adds(new, now, e, k, b) /\ Apart(new, now, e)
    BY <2>3, <2>6 DEF Adds, Same, Apart
  <2>8. QED
    BY <2>1, <2>7
<1>4. QED
  BY <1>2, <1>3

-----------------------------------------------------------------------------
(* A relation becomes a hole                                                 *)

\* The relations R1 and the hole h1 after the relation at p is taken from R.
HoleMade(R, p, R1, h1) ==
  /\ R1 \in Seq(Ids) /\ DOMAIN R1 = DOMAIN R
  /\ \A q \in DOMAIN R : q # p => R1[q] = R[q]
  /\ h1 \in Nat
  /\ h1 # 0 => h1 \in DOMAIN R1 /\ R1[h1] = Null

LEMMA Invalidated ==
  ASSUME NEW now, Sound(now), NEW e \in Entities, NEW p \in DOMAIN now.relations[e]
  PROVE  \E R1, h1 : /\ HoleMade(now.relations[e], p, R1, h1)
                     /\ Invalidate(now, e, p) = At(now, e, R1, now.arranged[e], h1)
<1> DEFINE R == now.relations[e]
           A == now.arranged[e]
           h == now.hole[e]
           R1 == [R EXCEPT ![p] = Null]
           h1 == IF h = 0 \/ p < h THEN p ELSE h
           new == Invalidate(now, e, p)
<1>1. /\ now \in States /\ R \in Seq(Ids) /\ Len(R) \in Nat /\ DOMAIN R = 1 .. Len(R) /\ h \in Nat
      /\ h # 0 => h \in DOMAIN R /\ R[h] = Null
  BY SoundFacts
<1>2. new = At(now, e, R1, A, h1)
  <2>1. new = [now EXCEPT !.relations = [now.relations EXCEPT ![e] = R1],
                          !.hole = [now.hole EXCEPT ![e] = h1]]
    BY <1>1 DEF Invalidate, States
  <2>2. /\ now = [relations |-> now.relations, arranged |-> now.arranged, hole |-> now.hole]
        /\ now.arranged = [now.arranged EXCEPT ![e] = A]
    BY <1>1 DEF States
  <2> HIDE DEF new, R1, A, h1
  <2>3. QED
    BY <2>1, <2>2 DEF At
<1>3. HoleMade(R, p, R1, h1)
  <2>1. p \in DOMAIN R /\ Null \in Ids
    BY DEF Ids
  <2> HIDE DEF R, h
  <2>2. /\ R1 \in Seq(Ids) /\ DOMAIN R1 = DOMAIN R /\ R1[p] = Null
        /\ \A q \in DOMAIN R : q # p => R1[q] = R[q]
    BY <1>1, <2>1, HoleFilled
  <2>3. p \in Nat
    BY <1>1, <2>1
  <2> HIDE DEF R1
  <2>4. h1 \in Nat /\ h1 \in DOMAIN R1 /\ R1[h1] = Null
    BY <1>1, <2>1, <2>2, <2>3
  <2> HIDE DEF h1
  <2>5. QED
    BY <2>2, <2>4 DEF HoleMade
<1> HIDE DEF R1, h1, new, A, R
<1>4. QED
  BY <1>2, <1>3 DEF new, A, R

\* Where no arrangement uses the relation, none changes.
LEMMA InvalidateEntityFacts ==
  ASSUME NEW now, Sound(now), NEW e \in Entities, NEW b \in Entities,
         \A k \in Kind : ~Linked(now, e, k, b)
  PROVE  Same(InvalidateEntity(now, e, b), now)
<1> DEFINE R == now.relations[e]
           p == From(R, 1, b)
<1>1. R \in Seq(Ids) /\ DOMAIN R = 1 .. Len(R)
  BY SoundFacts
<1>2. InvalidateEntity(now, e, b) = Invalidate(now, e, p)
  BY DEF InvalidateEntity
<1>3. /\ p # 0 => p \in DOMAIN R /\ R[p] = b
  <2> HIDE DEF R
  <2>1. QED
    BY <1>1, FromFacts
<1>4. CASE p \notin DOMAIN R
  <2>1. Invalidate(now, e, p) = now
    BY <1>4 DEF Invalidate
  <2>2. QED
    BY <1>2, <2>1 DEF Same
<1>5. CASE p \in DOMAIN R
  <2>0. R[p] = b
    BY <1>1, <1>3, <1>5
  <2> HIDE DEF p
  <2>1. PICK R1, h1 : /\ HoleMade(R, p, R1, h1)
                      /\ Invalidate(now, e, p) = At(now, e, R1, now.arranged[e], h1)
    BY <1>5, Invalidated
  <2>2. ASSUME NEW k \in Kind, NEW i \in DOMAIN now.arranged[e][k]
        PROVE  now.arranged[e][k][i] \in DOMAIN R /\ R[now.arranged[e][k][i]] # b
    <3>1. /\ now.arranged[e][k][i] \in DOMAIN R
          /\ R[now.arranged[e][k][i]] = Related(now, e, k, i)
          /\ Linked(now, e, k, Related(now, e, k, i))
      BY UsedIsEntity
    <3>2. QED
      BY <3>1
  <2>3. \A k \in Kind : \A i \in DOMAIN now.arranged[e][k] :
          /\ now.arranged[e][k][i] \in DOMAIN R1
          /\ R1[now.arranged[e][k][i]] = now.relations[e][now.arranged[e][k][i]]
    BY <2>0, <2>1, <2>2 DEF HoleMade
  <2>4. R1 \in Seq(Ids) /\ h1 \in Nat /\ (h1 # 0 => h1 \in DOMAIN R1 /\ R1[h1] = Null)
    BY <2>1 DEF HoleMade
  <2>5. Same(At(now, e, R1, now.arranged[e], h1), now)
    BY <2>3, <2>4, KeptAt
  <2>6. QED
    BY <1>2, <2>1, <2>5
<1>6. QED
  BY <1>4, <1>5

\* An arrangement is taken out at one end.
LEMMA TakeOutFacts ==
  ASSUME NEW now, Sound(now), NEW e \in Entities, NEW k \in Kind, NEW i \in DOMAIN now.arranged[e][k]
  PROVE  /\ Drops(TakeOut(now, e, k, i), now, e, k, Related(now, e, k, i))
         /\ Apart(TakeOut(now, e, k, i), now, e)
         /\ Len(TakeOut(now, e, k, i).arranged[e][k]) = Len(now.arranged[e][k]) - 1
         /\ \A l \in Kind : l # k => TakeOut(now, e, k, i).arranged[e][l] = now.arranged[e][l]
<1> DEFINE R == now.relations[e]
           A == now.arranged[e]
           h == now.hole[e]
           p == A[k][i]
           A1 == WithoutIndex(A, k, i)
           b == Related(now, e, k, i)
           new == TakeOut(now, e, k, i)
<1>1. now \in States /\ GoodEnd(e, R, A, h)
  BY SoundFacts
<1>2. p \in DOMAIN R /\ R[p] = b
  BY UsedIsEntity
<1>3. PICK R1, h1 : HoleMade(R, p, R1, h1) /\ Invalidate(now, e, p) = At(now, e, R1, A, h1)
  <2> HIDE DEF p
  <2>1. QED
    BY <1>2, Invalidated
<1>4. new = At(now, e, R1, A1, h1)
  <2>1. new = [At(now, e, R1, A, h1) EXCEPT !.arranged[e][k] = RemoveAt(@, i)]
    BY <1>3 DEF TakeOut
  <2>2. now.arranged \in [Entities -> [Kind -> Seq(Nat)]]
    BY <1>1 DEF States
  <2>3. [now.arranged EXCEPT ![e] = A] = now.arranged
    BY <2>2
  <2>4. [now.arranged EXCEPT ![e][k] = RemoveAt(@, i)] = [now.arranged EXCEPT ![e] = A1]
    BY DEF WithoutIndex
  <2> HIDE DEF A1, A
  <2>5. QED
    BY <2>1, <2>3, <2>4 DEF At
<1>5. /\ GoodEnd(e, R1, A1, h1)
      /\ Len(A1[k]) = Len(A[k]) - 1 /\ (\A l \in Kind : l # k => A1[l] = A[l])
      /\ \A l \in Kind, y \in Entities :
           Means(R1, A1, l, y) <=> Means(R, A, l, y) /\ ~(l = k /\ y = R[A[k][i]])
  <2>1. i \in DOMAIN A[k]
    OBVIOUS
  <2> HIDE DEF R, A, h, A1
  <2>2. /\ R1 \in Seq(Ids) /\ DOMAIN R1 = DOMAIN R
        /\ \A q \in DOMAIN R : q # A[k][i] => R1[q] = R[q]
    BY <1>3 DEF HoleMade
  <2>3. /\ h1 \in Nat
        /\ h1 # 0 => h1 \in DOMAIN R1 /\ R1[h1] = Null
    BY <1>3 DEF HoleMade
  <2>4. QED
    BY <1>1, <2>1, <2>2, <2>3, TakenEnd DEF A1
<1>6. \A l \in Kind, y \in Entities : Means(R, A, l, y) <=> Linked(now, e, l, y)
  BY DEF Linked
<1>7. R[A[k][i]] = b
  BY <1>2
<1> HIDE DEF R, A, A1, h, new, b
<1>8. /\ Sound(new) /\ Apart(new, now, e) /\ new.arranged[e] = A1
      /\ \A x, y \in Entities, l \in Kind :
           Linked(new, x, l, y) <=> IF x = e THEN Means(R1, A1, l, y) ELSE Linked(now, x, l, y)
  BY <1>4, <1>5, AtFacts DEF Apart
<1>9. Drops(new, now, e, k, b)
  BY <1>5, <1>6, <1>7, <1>8 DEF Drops
<1>10. QED
  BY <1>5, <1>8, <1>9 DEF new, b, A

-----------------------------------------------------------------------------
(* Both ends                                                                 *)

\* The arrangements of e with b, of kind k, and of b with e go.
Parts(new, now, e, k, b) ==
  /\ Sound(new)
  /\ \A x, y \in Entities, l \in Kind :
       Linked(new, x, l, y) <=> /\ Linked(now, x, l, y)
                                /\ ~(x = e /\ l = k /\ y = b)
                                /\ ~(x = b /\ l = Dual[k] /\ y = e)

LEMMA PartsKeeps ==
  ASSUME NEW new, NEW now, NEW e \in Entities, NEW k \in Kind, NEW b \in Entities, NEW T,
         Kept(now, T), Parts(new, now, e, k, b)
  PROVE  Kept(new, T)
<1>1. \A l \in Kind : Dual[l] \in Kind /\ Dual[Dual[l]] = l
  BY DualFacts
<1>2. ASSUME NEW x \in Entities, NEW y \in Entities, NEW l \in Kind, Linked(new, x, l, y)
      PROVE  Linked(new, y, Dual[l], x)
  <2>1. /\ Linked(now, x, l, y) /\ ~(x = e /\ l = k /\ y = b) /\ ~(x = b /\ l = Dual[k] /\ y = e)
    BY <1>2 DEF Parts
  <2>2. Linked(now, y, Dual[l], x) /\ Dual[l] \in Kind
    BY <1>1, <2>1 DEF Kept, Mutual
  <2>3. ~(y = e /\ Dual[l] = k /\ x = b) /\ ~(y = b /\ Dual[l] = Dual[k] /\ x = e)
    BY <1>1, <2>1
  <2>4. QED
    BY <2>2, <2>3 DEF Parts
<1>3. Mutual(new)
  BY <1>2 DEF Mutual
<1>4. Present(new, T) /\ Sound(new)
  BY DEF Present, Parts, Kept
<1>5. QED
  BY <1>3, <1>4 DEF Kept

LEMMA UnarrangeFacts ==
  ASSUME NEW now, Kept(now, there), NEW e \in Entities, NEW k \in Kind,
         NEW i \in DOMAIN now.arranged[e][k]
  PROVE  /\ Parts(Unarrange(now, e, k, i), now, e, k, Related(now, e, k, i))
         /\ Len(Unarrange(now, e, k, i).arranged[e][k]) = Len(now.arranged[e][k]) - 1
         /\ \A l \in Kind : l # k => Unarrange(now, e, k, i).arranged[e][l] = now.arranged[e][l]
<1> DEFINE b == Related(now, e, k, i)
           j == Find(now, b, Dual[k], e)
           gone == TakeOut(now, e, k, i)
           new == TakeOut(gone, b, Dual[k], j)
<1>1. /\ Sound(now) /\ b \in Entities /\ b # e /\ Linked(now, e, k, b) /\ Dual[k] \in Kind
  BY UsedIsEntity, DualFacts DEF Kept
<1>2. b \in there /\ Linked(now, b, Dual[k], e)
  BY <1>1 DEF Kept, Mutual, Present
<1>3. j # 0 /\ j \in DOMAIN now.arranged[b][Dual[k]] /\ Related(now, b, Dual[k], j) = e
  <2> HIDE DEF b
  <2>1. QED
    BY <1>1, <1>2, FindFacts
<1>4. Unarrange(now, e, k, i) = new
  BY <1>2, <1>3 DEF Unarrange
<1>5. /\ Drops(gone, now, e, k, b) /\ Apart(gone, now, e)
      /\ Len(gone.arranged[e][k]) = Len(now.arranged[e][k]) - 1
      /\ \A l \in Kind : l # k => gone.arranged[e][l] = now.arranged[e][l]
  BY <1>1, TakeOutFacts
<1> HIDE DEF gone, b, j
<1>6. Sound(gone) /\ j \in DOMAIN gone.arranged[b][Dual[k]] /\ Related(gone, b, Dual[k], j) = e
  BY <1>1, <1>3, <1>5 DEF Drops, Apart, Related
<1>7. Drops(new, gone, b, Dual[k], e) /\ Apart(new, gone, b)
  BY <1>1, <1>6, TakeOutFacts
<1> HIDE DEF new
<1>8. Parts(new, now, e, k, b)
  BY <1>5, <1>7 DEF Parts, Drops
<1>9. new.arranged[e] = gone.arranged[e]
  BY <1>1, <1>7 DEF Apart
<1>10. QED
  BY <1>4, <1>5, <1>8, <1>9 DEF b

\* The arrangements of a with b, of kind k, and of b with a are made.
Joins(new, now, a, k, b) ==
  /\ Sound(new)
  /\ \A x, y \in Entities, l \in Kind :
       Linked(new, x, l, y) <=> \/ Linked(now, x, l, y)
                                \/ x = a /\ l = k /\ y = b
                                \/ x = b /\ l = Dual[k] /\ y = a

LEMMA JoinsKeeps ==
  ASSUME NEW new, NEW now, NEW a \in Entities, NEW k \in Kind, NEW b \in Entities,
         NEW T, NEW T1, T \subseteq T1, a \in T1, b \in T1, Kept(now, T), Joins(new, now, a, k, b)
  PROVE  Kept(new, T1)
<1>1. \A l \in Kind : Dual[l] \in Kind /\ Dual[Dual[l]] = l
  BY DualFacts
<1>2. ASSUME NEW x \in Entities, NEW y \in Entities, NEW l \in Kind, Linked(new, x, l, y)
      PROVE  Linked(new, y, Dual[l], x) /\ x \in T1 /\ y \in T1
  <2>1. Dual[l] \in Kind
    BY <1>1
  <2>2. CASE Linked(now, x, l, y)
    <3>1. Linked(now, y, Dual[l], x) /\ x \in T1 /\ y \in T1
      BY <2>2 DEF Kept, Mutual, Present
    <3>2. QED
      BY <2>1, <3>1 DEF Joins
  <2>3. CASE x = a /\ l = k /\ y = b
    BY <2>1, <2>3 DEF Joins
  <2>4. CASE x = b /\ l = Dual[k] /\ y = a
    <3>1. Dual[l] = k
      BY <1>1, <2>4
    <3>2. QED
      BY <2>4, <3>1 DEF Joins
  <2>5. QED
    BY <1>2, <2>2, <2>3, <2>4 DEF Joins
<1>3. Mutual(new) /\ Present(new, T1) /\ Sound(new)
  BY <1>2 DEF Mutual, Present, Joins
<1>4. QED
  BY <1>3 DEF Kept

LEMMA AddBothFacts ==
  ASSUME NEW now, Sound(now), NEW a, NEW k, NEW b, << a, k, b >> \in Admitted
  PROVE  Joins(AddBoth(now, a, k, b), now, a, k, b)
<1> DEFINE mid == FindOrAdd(now, a, k, b)
           new == FindOrAdd(mid, b, Dual[k], a)
<1>1. << b, Dual[k], a >> \in Admitted
  BY AdmittedBoth
<1>2. Adds(mid, now, a, k, b)
  BY FindOrAddFacts
<1> HIDE DEF mid
<1>3. Sound(mid)
  BY <1>2 DEF Adds
<1>4. Adds(new, mid, b, Dual[k], a)
  BY <1>1, <1>3, FindOrAddFacts
<1> HIDE DEF new
<1>5. Joins(new, now, a, k, b)
  BY <1>2, <1>4 DEF Adds, Joins
<1>6. QED
  BY <1>5 DEF AddBoth, new, mid

-----------------------------------------------------------------------------
(* The other calls                                                           *)

\* A relation that no arrangement uses fills a hole or is appended.
LEMMA AppendRelationFacts ==
  ASSUME NEW now, Sound(now), NEW e \in Entities, NEW b \in Entities
  PROVE  Same(AppendRelation(now, e, b), now)
<1> DEFINE R == now.relations[e]
           A == now.arranged[e]
           h == now.hole[e]
           new == AppendRelation(now, e, b)
           after == From(R, h + 1, Null)
<1>1. /\ now \in States /\ R \in Seq(Ids) /\ Len(R) \in Nat /\ DOMAIN R = 1 .. Len(R) /\ h \in Nat
      /\ h # 0 => h \in DOMAIN R /\ R[h] = Null
  BY SoundFacts
<1>2. /\ now = [relations |-> now.relations, arranged |-> now.arranged, hole |-> now.hole]
      /\ now.arranged = [now.arranged EXCEPT ![e] = A]
      /\ now.hole = [now.hole EXCEPT ![e] = h]
  BY <1>1 DEF States
<1>3. b \in Ids
  BY DEF Ids
<1>4. ASSUME NEW k \in Kind, NEW i \in DOMAIN A[k]
      PROVE  A[k][i] \in DOMAIN R /\ R[A[k][i]] # Null
  <2>1. /\ A[k][i] \in DOMAIN R /\ R[A[k][i]] = Related(now, e, k, i)
        /\ Related(now, e, k, i) # Null
    BY UsedIsEntity
  <2>2. QED
    BY <2>1
<1>5. CASE h = 0
  <2> DEFINE R1 == Append(R, b)
  <2>1. new = At(now, e, R1, A, h)
    <3>1. new = [now EXCEPT !.relations = [now.relations EXCEPT ![e] = R1]]
      BY <1>5 DEF AppendRelation
    <3> HIDE DEF new, R1, A, h
    <3>2. QED
      BY <1>2, <3>1 DEF At
  <2>2. /\ R1 \in Seq(Ids) /\ \A q \in DOMAIN R : q \in DOMAIN R1 /\ R1[q] = R[q]
    <3> HIDE DEF R
    <3>1. QED
      BY <1>1, <1>3, AppendFacts
  <2>3. \A k \in Kind : \A i \in DOMAIN A[k] : A[k][i] \in DOMAIN R1 /\ R1[A[k][i]] = R[A[k][i]]
    <3> HIDE DEF R1, R, A
    <3>1. QED
      BY <1>4, <2>2
  <2> HIDE DEF R1, new
  <2>4. Same(At(now, e, R1, A, h), now)
    BY <1>1, <1>5, <2>2, <2>3, KeptAt
  <2>5. QED
    BY <2>1, <2>4 DEF new
<1>6. CASE h # 0
  <2> DEFINE R1 == [R EXCEPT ![h] = b]
  <2>1. new = At(now, e, R1, A, after)
    <3>1. new = [now EXCEPT !.relations = [now.relations EXCEPT ![e] = R1],
                            !.hole = [now.hole EXCEPT ![e] = after]]
      BY <1>1, <1>6 DEF AppendRelation, States
    <3> HIDE DEF new, R1, A, h, after
    <3>2. QED
      BY <1>2, <3>1 DEF At
  <2>2. /\ R1 \in Seq(Ids) /\ DOMAIN R1 = DOMAIN R
        /\ \A q \in DOMAIN R : q # h => R1[q] = R[q]
    <3> HIDE DEF R, h
    <3>1. QED
      BY <1>1, <1>3, <1>6, HoleFilled
  <2>3. \A k \in Kind : \A i \in DOMAIN A[k] : A[k][i] \in DOMAIN R1 /\ R1[A[k][i]] = R[A[k][i]]
    <3> HIDE DEF R1, R, A, h
    <3>1. QED
      BY <1>1, <1>4, <1>6, <2>2
  <2>4. /\ after \in Nat
        /\ after # 0 => after \in DOMAIN R1 /\ R1[after] = Null
    <3>1. h + 1 \in Nat \ {0}
      BY <1>1
    <3> HIDE DEF R, R1
    <3>2. /\ after \in Nat
          /\ after # 0 => after \in (h + 1) .. Len(R) /\ R[after] = Null
      BY <1>1, <3>1, FromFacts
    <3> HIDE DEF after, h
    <3>3. after # 0 => after \in DOMAIN R /\ after # h
      BY <1>1, <3>2
    <3>4. QED
      BY <2>2, <3>2, <3>3
  <2> HIDE DEF R1, new, after
  <2>5. Same(At(now, e, R1, A, after), now)
    BY <2>2, <2>3, <2>4, KeptAt
  <2>6. QED
    BY <2>1, <2>5 DEF new
<1>7. QED
  BY <1>5, <1>6

\* What addInstance does to the entities.
Instanced(now, i, o) ==
  LET related == FindOrAppend(FindOrAppend(now, o, i), i, o)
  IN  [related EXCEPT
         !.arranged[i]["INSTANCE_OF"] = Append(@, From(related.relations[i], 1, o)),
         !.arranged[o]["INSTANCED_BY"] = Append(@, From(related.relations[o], 1, i))]

LEMMA InstancedFacts ==
  ASSUME NEW now, Sound(now), NEW i, NEW o, << i, "INSTANCE_OF", o >> \in Admitted,
         ~Linked(now, i, "INSTANCE_OF", o), ~Linked(now, o, "INSTANCED_BY", i)
  PROVE  Joins(Instanced(now, i, o), now, i, "INSTANCE_OF", o)
<1> DEFINE first == FindOrAppend(now, o, i)
           related == FindOrAppend(first, i, o)
           p == From(related.relations[i], 1, o)
           q == From(related.relations[o], 1, i)
           mid == [related EXCEPT !.arranged[i]["INSTANCE_OF"] = Append(@, p)]
           new == [mid EXCEPT !.arranged[o]["INSTANCED_BY"] = Append(@, q)]
<1>1. /\ i \in Entities /\ o \in Entities /\ i # o /\ Dual["INSTANCE_OF"] = "INSTANCED_BY"
      /\ << o, "INSTANCED_BY", i >> \in Admitted /\ "INSTANCE_OF" \in Kind /\ "INSTANCED_BY" \in Kind
  <2>1. Dual["INSTANCE_OF"] = "INSTANCED_BY"
    BY DEF Dual
  <2>2. QED
    BY <2>1, AdmittedBoth, KindsAre
<1>2. Instanced(now, i, o) = new
  BY DEF Instanced
<1>3. /\ Same(first, now) /\ Apart(first, now, o)
      /\ \E n \in DOMAIN first.relations[o] : first.relations[o][n] = i
  BY <1>1, FindOrAppendFacts
<1> HIDE DEF first
<1>4. Sound(first)
  BY <1>3 DEF Same
<1>5. /\ Same(related, first) /\ Apart(related, first, i)
      /\ \E n \in DOMAIN related.relations[i] : related.relations[i][n] = o
  BY <1>1, <1>4, FindOrAppendFacts
<1> HIDE DEF related
<1>6. /\ Same(related, now) /\ Sound(related)
      /\ \E n \in DOMAIN related.relations[o] : related.relations[o][n] = i
  BY <1>1, <1>3, <1>5 DEF Same, Apart
<1>7. /\ p \in DOMAIN related.relations[i] /\ related.relations[i][p] = o
      /\ q \in DOMAIN related.relations[o] /\ related.relations[o][q] = i
  BY <1>1, <1>5, <1>6, FirstOf
<1> HIDE DEF p, q
<1>8. ~Linked(related, i, "INSTANCE_OF", o) /\ ~Linked(related, o, "INSTANCED_BY", i)
  BY <1>1, <1>6 DEF Same
<1>9. Adds(mid, related, i, "INSTANCE_OF", o) /\ Apart(mid, related, i)
  BY <1>6, <1>7, <1>8, AppendArrangement
<1> HIDE DEF mid
<1>10. /\ Sound(mid) /\ ~Linked(mid, o, "INSTANCED_BY", i)
       /\ q \in DOMAIN mid.relations[o] /\ mid.relations[o][q] = i
  BY <1>1, <1>7, <1>8, <1>9 DEF Adds, Apart
<1>11. Adds(new, mid, o, "INSTANCED_BY", i)
  BY <1>1, <1>10, AppendArrangement
<1> HIDE DEF new
<1>12. Joins(new, now, i, "INSTANCE_OF", o)
  BY <1>1, <1>6, <1>9, <1>11 DEF Joins, Adds, Same
<1>13. QED
  BY <1>2, <1>12

-----------------------------------------------------------------------------
(* All arrangements of an entity                                             *)

\* Min of FiniteSetsExt is the smallest element, for numbers.
LEMMA FirstOfPart ==
  ASSUME NEW s \in SUBSET Nat, s # {}
  PROVE  Min(s) \in s /\ \A q \in s : Min(s) <= q
<1>1. \E q \in s : \A r \in s : q <= r
  BY SmallestNumber
<1>2. QED
  BY <1>1 DEF Min

\* The arrangements of one kind are taken out, from the last position to the first.
UnarrangeKind(n, e, k, positions) ==
  FoldRight(LAMBDA i, m : Unarrange(m, e, k, i), [i \in positions |-> i], n)

\* The states in between: h[s] when those at the positions s are out.
StepsOfKind(h, n, e, k, positions) ==
  /\ h[{}] = n
  /\ \A s \in SUBSET positions : s # {} => h[s] = Unarrange(h[s \ {Min(s)}], e, k, Min(s))

LEMMA UnarrangeKindSteps ==
  ASSUME NEW n, NEW e, NEW k, NEW len \in Nat
  PROVE  \E h : /\ UnarrangeKind(n, e, k, 1 .. len) = h[1 .. len]
                /\ StepsOfKind(h, n, e, k, 1 .. len)
<1> DEFINE S == 1 .. len
           seq == [i \in S |-> i]
           Value(h, s) == IF s = {} THEN n ELSE Unarrange(h[s \ {Min(s)}], e, k, seq[Min(s)])
           UpTo_(h, m) == h = [s \in PartsUpTo(S, m) |-> Value(h, s)]
           Is(h) == h = [s \in SUBSET DOMAIN seq |-> Value(h, s)]
           G == {m \in Nat : \E h : UpTo_(h, m)}
           all == CHOOSE h : Is(h)
<1>1. IsFiniteSet(S)
  BY FS_Interval
<1>2. ASSUME NEW s \in SUBSET S, s # {} PROVE Min(s) \in s
  <2>1. s \in SUBSET Nat
    OBVIOUS
  <2>2. QED
    BY <1>2, <2>1, FirstOfPart
<1> HIDE DEF S
<1>3. 0 \in G
  <2>1. PartsUpTo(S, 0) = {{}}
    BY <1>1, PartsAre
  <2> DEFINE h == [s \in PartsUpTo(S, 0) |-> n]
  <2>2. UpTo_(h, 0)
    BY <2>1
  <2> HIDE DEF UpTo_
  <2>3. QED
    BY <2>2
<1>4. ASSUME NEW m \in Nat, m < Cardinality(S), m \in G PROVE m + 1 \in G
  <2>1. PICK h : UpTo_(h, m)
    BY <1>4
  <2> DEFINE g == [s \in PartsUpTo(S, m + 1) |-> IF Cardinality(s) = m + 1 THEN Value(h, s) ELSE h[s]]
  <2>2. ASSUME NEW s \in PartsUpTo(S, m + 1) PROVE g[s] = Value(g, s)
    <3>1. CASE s = {}
      <4>1. {} \in PartsUpTo(S, m) /\ Cardinality({}) # m + 1
        BY <1>1, PartsAre
      <4>2. QED
        BY <2>1, <3>1, <4>1
    <3>2. CASE s # {}
      <4> DEFINE x == Min(s)
      <4>1. x \in s
        BY <1>2, <3>2 DEF PartsUpTo
      <4> HIDE DEF x
      <4>2. /\ s \ {x} \in PartsUpTo(S, m) \cap PartsUpTo(S, m + 1)
            /\ Cardinality(s \ {x}) # m + 1
            /\ Cardinality(s) # m + 1 => s \in PartsUpTo(S, m)
        BY <1>1, <4>1, PartGrows
      <4>3. g[s \ {x}] = h[s \ {x}]
        BY <4>2
      <4>4. g[s] = Value(h, s)
        BY <2>1, <4>2
      <4> HIDE DEF g
      <4>5. QED
        BY <3>2, <4>3, <4>4 DEF x
    <3>3. QED
      BY <3>1, <3>2
  <2>3. g = [s \in PartsUpTo(S, m + 1) |-> g[s]]
    OBVIOUS
  <2> HIDE DEF g, Value
  <2>4. UpTo_(g, m + 1)
    BY <2>2, <2>3
  <2> HIDE DEF UpTo_
  <2>5. QED
    BY <2>4
<1>5. \E h : Is(h)
  <2>1. Cardinality(S) \in Nat /\ PartsUpTo(S, Cardinality(S)) = SUBSET S /\ DOMAIN seq = S
    BY <1>1, PartsAre
  <2> HIDE DEF G
  <2>2. 0 .. Cardinality(S) \subseteq G
    BY <1>3, <1>4, <2>1, UpTo
  <2>3. Cardinality(S) \in G
    BY <2>1, <2>2
  <2> HIDE DEF Value, seq, UpTo_
  <2>4. PICK h : UpTo_(h, Cardinality(S))
    BY <2>3 DEF G
  <2>5. Is(h)
    BY <2>1, <2>4 DEF UpTo_
  <2> HIDE DEF Is
  <2>6. QED
    BY <2>5
<1>6. Is(all)
  <2> HIDE DEF Is
  <2>1. QED
    BY <1>5
<1>7. UnarrangeKind(n, e, k, S) = all[DOMAIN seq]
  BY DEF UnarrangeKind, FoldRight, MapThenFoldSet
<1>8. DOMAIN seq = S
  OBVIOUS
<1> HIDE DEF all
<1>9. all[{}] = n
  BY <1>6, <1>8
<1>10. ASSUME NEW s \in SUBSET S, s # {}
       PROVE  all[s] = Unarrange(all[s \ {Min(s)}], e, k, Min(s))
  <2>1. seq[Min(s)] = Min(s)
    BY <1>2, <1>10
  <2> HIDE DEF seq
  <2>2. QED
    BY <1>6, <1>8, <1>10, <2>1
<1>11. StepsOfKind(all, n, e, k, S)
  BY <1>9, <1>10 DEF StepsOfKind
<1>12. QED
  BY <1>7, <1>8, <1>11 DEF S

\* Arrangements that have nothing to do with e stay.
Elsewhere(new, now, e) ==
  \A x, y \in Entities, l \in Kind : x # e /\ y # e => (Linked(new, x, l, y) <=> Linked(now, x, l, y))

\* As many arrangements of a kind are left, and all of the other kinds.
Left(new, now, e, k, count) ==
  /\ Kept(new, there) /\ Elsewhere(new, now, e)
  /\ Len(new.arranged[e][k]) = count
  /\ \A l \in Kind : l # k => new.arranged[e][l] = now.arranged[e][l]

LEMMA LeftBefore ==
  ASSUME NEW now, NEW m, NEW e \in Entities, NEW k \in Kind, NEW i \in Nat \ {0},
         Left(m, now, e, k, i)
  PROVE  Left(Unarrange(m, e, k, i), now, e, k, i - 1)
<1> DEFINE new == Unarrange(m, e, k, i)
           b == Related(m, e, k, i)
<1>1. Kept(m, there) /\ Sound(m) /\ i \in DOMAIN m.arranged[e][k]
  <2>1. Sound(m) /\ Len(m.arranged[e][k]) = i
    BY DEF Left, Kept
  <2>2. m.arranged[e] \in [Kind -> Seq(Nat)]
    BY <2>1, SoundFacts
  <2>3. DOMAIN m.arranged[e][k] = 1 .. i
    BY <2>1, <2>2
  <2>4. QED
    BY <2>1, <2>3 DEF Left
<1>2. /\ Parts(new, m, e, k, b) /\ Len(new.arranged[e][k]) = Len(m.arranged[e][k]) - 1
      /\ \A l \in Kind : l # k => new.arranged[e][l] = m.arranged[e][l]
  BY <1>1, UnarrangeFacts
<1>3. b \in Entities
  BY <1>1, UsedIsEntity
<1> HIDE DEF new, b
<1>4. Kept(new, there)
  BY <1>1, <1>2, <1>3, PartsKeeps
<1>5. Elsewhere(new, now, e)
  BY <1>2 DEF Left, Elsewhere, Parts
<1>6. Left(new, now, e, k, i - 1)
  BY <1>2, <1>4, <1>5 DEF Left
<1>7. QED
  BY <1>6 DEF new

LEMMA UnarrangeKindFacts ==
  ASSUME NEW now, Kept(now, there), NEW e \in Entities, NEW k \in Kind
  PROVE  Left(UnarrangeKind(now, e, k, DOMAIN now.arranged[e][k]), now, e, k, 0)
<1> DEFINE len == Len(now.arranged[e][k])
           last == UnarrangeKind(now, e, k, DOMAIN now.arranged[e][k])
<1>1. len \in Nat /\ DOMAIN now.arranged[e][k] = 1 .. len
  <2>1. now.arranged[e] \in [Kind -> Seq(Nat)]
    BY SoundFacts DEF Kept
  <2>2. QED
    BY <2>1
<1>2. last = UnarrangeKind(now, e, k, 1 .. len)
  BY <1>1
<1>3. Left(now, now, e, k, len)
  BY DEF Left, Elsewhere
<1> HIDE DEF len, last
<1>4. PICK h : last = h[1 .. len] /\ StepsOfKind(h, now, e, k, 1 .. len)
  BY <1>1, <1>2, UnarrangeKindSteps
<1> DEFINE G == {j \in Nat : Left(h[(len - j + 1) .. len], now, e, k, len - j)}
<1>5. 0 \in G
  <2>1. (len - 0 + 1) .. len = {} /\ len - 0 = len
    BY <1>1
  <2>2. h[{}] = now
    BY <1>4 DEF StepsOfKind
  <2>3. QED
    BY <1>3, <2>1, <2>2
<1>6. ASSUME NEW j \in Nat, j < len, j \in G PROVE j + 1 \in G
  <2> DEFINE i == len - j
             s == i .. len
  <2>1. /\ i \in Nat \ {0} /\ i <= len /\ len - (j + 1) = i - 1
        /\ (len - (j + 1) + 1) .. len = s /\ (len - j + 1) .. len = (i + 1) .. len
    BY <1>1, <1>6
  <2> HIDE DEF i
  <2>2. /\ s \in SUBSET (1 .. len) /\ s \in SUBSET Nat /\ s # {} /\ i \in s
        /\ \A q \in s : i <= q
    <3>1. \A q \in s : q \in 1 .. len /\ q \in Nat /\ i <= q
      BY <1>1, <2>1
    <3>2. i \in s
      BY <1>1, <2>1
    <3> HIDE DEF s
    <3>3. QED
      BY <3>1, <3>2
  <2>3. s \ {i} = (i + 1) .. len
    BY <1>1, <2>1
  <2> HIDE DEF s
  <2>4. Min(s) = i
    <3> DEFINE first == Min(s)
    <3>1. first \in s /\ first <= i
      BY <2>2, FirstOfPart
    <3> HIDE DEF first
    <3>2. first = i
      BY <2>1, <2>2, <3>1
    <3>3. QED
      BY <3>2 DEF first
  <2>5. Left(h[s \ {i}], now, e, k, i)
    BY <1>6, <2>1, <2>3 DEF i
  <2>6. h[s] = Unarrange(h[s \ {i}], e, k, i)
    BY <1>4, <2>2, <2>4 DEF StepsOfKind
  <2>7. Left(h[s], now, e, k, i - 1)
    BY <2>1, <2>5, <2>6, LeftBefore
  <2>8. QED
    BY <2>1, <2>7
<1>7. len \in G
  <2> HIDE DEF G
  <2>1. 0 .. len \subseteq G
    BY <1>1, <1>5, <1>6, UpTo
  <2>2. QED
    BY <1>1, <2>1
<1>8. len - len + 1 = 1 /\ len - len = 0
  BY <1>1
<1>9. Left(last, now, e, k, 0)
  BY <1>4, <1>7, <1>8
<1>10. QED
  BY <1>9 DEF last

\* The states in between: h[s] when the kinds at the positions s are through.
StepsOfAll(h, now, e) ==
  /\ h[{}] = now
  /\ \A s \in SUBSET (1 .. 6) : s # {} =>
       h[s] = UnarrangeKind(h[s \ {Max(s)}], e, Kinds[Max(s)], DOMAIN now.arranged[e][Kinds[Max(s)]])

LEMMA UnarrangeAllSteps ==
  ASSUME NEW now, NEW e
  PROVE  \E h : UnarrangeAll(now, e) = h[1 .. 6] /\ StepsOfAll(h, now, e)
<1> DEFINE S == 1 .. 6
           Value(h, s) ==
             IF s = {} THEN now
             ELSE UnarrangeKind(h[s \ {Max(s)}], e, Kinds[Max(s)], DOMAIN now.arranged[e][Kinds[Max(s)]])
           UpTo_(h, m) == h = [s \in PartsUpTo(S, m) |-> Value(h, s)]
           Is(h) == h = [s \in SUBSET DOMAIN Kinds |-> Value(h, s)]
           G == {m \in Nat : \E h : UpTo_(h, m)}
           all == CHOOSE h : Is(h)
<1>1. IsFiniteSet(S)
  <2>1. \A n \in Nat : IsFiniteSet(1 .. n)
    BY FS_Interval
  <2>2. QED
    BY <2>1
<1>2. ASSUME NEW s \in SUBSET S, s # {} PROVE Max(s) \in s
  BY <1>2, LastOfPart
<1> HIDE DEF S
<1>3. 0 \in G
  <2>1. PartsUpTo(S, 0) = {{}}
    BY <1>1, PartsAre
  <2> DEFINE h == [s \in PartsUpTo(S, 0) |-> now]
  <2>2. UpTo_(h, 0)
    BY <2>1
  <2> HIDE DEF UpTo_
  <2>3. QED
    BY <2>2
<1>4. ASSUME NEW m \in Nat, m < Cardinality(S), m \in G PROVE m + 1 \in G
  <2>1. PICK h : UpTo_(h, m)
    BY <1>4
  <2> DEFINE g == [s \in PartsUpTo(S, m + 1) |-> IF Cardinality(s) = m + 1 THEN Value(h, s) ELSE h[s]]
  <2>2. ASSUME NEW s \in PartsUpTo(S, m + 1) PROVE g[s] = Value(g, s)
    <3>1. CASE s = {}
      <4>1. {} \in PartsUpTo(S, m) /\ Cardinality({}) # m + 1
        BY <1>1, PartsAre
      <4>2. QED
        BY <2>1, <3>1, <4>1
    <3>2. CASE s # {}
      <4> DEFINE x == Max(s)
      <4>1. x \in s
        BY <1>2, <3>2 DEF PartsUpTo
      <4> HIDE DEF x
      <4>2. /\ s \ {x} \in PartsUpTo(S, m) \cap PartsUpTo(S, m + 1)
            /\ Cardinality(s \ {x}) # m + 1
            /\ Cardinality(s) # m + 1 => s \in PartsUpTo(S, m)
        BY <1>1, <4>1, PartGrows
      <4>3. g[s \ {x}] = h[s \ {x}]
        BY <4>2
      <4>4. g[s] = Value(h, s)
        BY <2>1, <4>2
      <4> HIDE DEF g
      <4>5. QED
        BY <3>2, <4>3, <4>4 DEF x
    <3>3. QED
      BY <3>1, <3>2
  <2>3. g = [s \in PartsUpTo(S, m + 1) |-> g[s]]
    OBVIOUS
  <2> HIDE DEF g, Value
  <2>4. UpTo_(g, m + 1)
    BY <2>2, <2>3
  <2> HIDE DEF UpTo_
  <2>5. QED
    BY <2>4
<1>5. DOMAIN Kinds = S
  BY DEF Kinds, S
<1>6. \E h : Is(h)
  <2>1. Cardinality(S) \in Nat /\ PartsUpTo(S, Cardinality(S)) = SUBSET S
    BY <1>1, PartsAre
  <2> HIDE DEF G
  <2>2. 0 .. Cardinality(S) \subseteq G
    BY <1>3, <1>4, <2>1, UpTo
  <2>3. Cardinality(S) \in G
    BY <2>1, <2>2
  <2> HIDE DEF Value, UpTo_
  <2>4. PICK h : UpTo_(h, Cardinality(S))
    BY <2>3 DEF G
  <2>5. Is(h)
    BY <1>5, <2>1, <2>4 DEF UpTo_
  <2> HIDE DEF Is
  <2>6. QED
    BY <2>5
<1>7. Is(all)
  <2> HIDE DEF Is
  <2>1. QED
    BY <1>6
<1>8. UnarrangeAll(now, e) = all[DOMAIN Kinds]
  BY DEF UnarrangeAll, UnarrangeKind, FoldLeft, FoldRight, MapThenFoldSet
<1> HIDE DEF all
<1>9. all[{}] = now
  BY <1>5, <1>7
<1>10. ASSUME NEW s \in SUBSET S, s # {}
       PROVE  all[s] = Value(all, s)
  <2> HIDE DEF Value
  <2>1. QED
    BY <1>5, <1>7
<1>11. StepsOfAll(all, now, e)
  BY <1>9, <1>10 DEF StepsOfAll, S
<1>12. QED
  BY <1>5, <1>8, <1>11 DEF S

\* No arrangement of the first kinds is left, and all of the others.
Through(m, now, e, j) ==
  /\ Kept(m, there) /\ Elsewhere(m, now, e)
  /\ \A i \in 1 .. j : Len(m.arranged[e][Kinds[i]]) = 0
  /\ \A i \in (j + 1) .. 6 : m.arranged[e][Kinds[i]] = now.arranged[e][Kinds[i]]

LEMMA KindsDiffer ==
  /\ \A i \in 1 .. 6 : Kinds[i] \in Kind
  /\ \A i, j \in 1 .. 6 : Kinds[i] = Kinds[j] => i = j
  /\ \A k \in Kind : \E i \in 1 .. 6 : Kinds[i] = k
BY KindsAre DEF Kinds

LEMMA ThroughNext ==
  ASSUME NEW now, NEW m, NEW e \in Entities, NEW j \in 0 .. 5, Through(m, now, e, j)
  PROVE  Through(UnarrangeKind(m, e, Kinds[j + 1], DOMAIN now.arranged[e][Kinds[j + 1]]), now, e, j + 1)
<1> DEFINE k == Kinds[j + 1]
           new == UnarrangeKind(m, e, k, DOMAIN m.arranged[e][k])
<1>1. /\ j + 1 \in 1 .. 6 /\ j + 1 \in (j + 1) .. 6 /\ k \in Kind
      /\ m.arranged[e][k] = now.arranged[e][k] /\ Kept(m, there)
  BY KindsDiffer DEF Through
<1> HIDE DEF k
<1>2. Left(new, m, e, k, 0)
  BY <1>1, UnarrangeKindFacts
<1> HIDE DEF new
<1>3. ASSUME NEW i \in 1 .. 6, i # j + 1
      PROVE  new.arranged[e][Kinds[i]] = m.arranged[e][Kinds[i]]
  <2>1. Kinds[i] \in Kind /\ Kinds[i] # k
    BY <1>1, <1>3, KindsDiffer DEF k
  <2>2. QED
    BY <1>2, <2>1 DEF Left
<1>4. \A i \in 1 .. (j + 1) : Len(new.arranged[e][Kinds[i]]) = 0
  <2>1. ASSUME NEW i \in 1 .. (j + 1) PROVE Len(new.arranged[e][Kinds[i]]) = 0
    <3>1. CASE i = j + 1
      BY <1>2, <3>1 DEF Left, k
    <3>2. CASE i # j + 1
      <4>1. i \in 1 .. 6 /\ i \in 1 .. j
        BY <3>2
      <4>2. QED
        BY <1>3, <3>2, <4>1 DEF Through
    <3>3. QED
      BY <3>1, <3>2
  <2>2. QED
    BY <2>1
<1>5. \A i \in (j + 1 + 1) .. 6 : new.arranged[e][Kinds[i]] = now.arranged[e][Kinds[i]]
  <2>1. ASSUME NEW i \in (j + 1 + 1) .. 6
        PROVE  new.arranged[e][Kinds[i]] = now.arranged[e][Kinds[i]]
    <3>1. i \in 1 .. 6 /\ i # j + 1 /\ i \in (j + 1) .. 6
      OBVIOUS
    <3>2. m.arranged[e][Kinds[i]] = now.arranged[e][Kinds[i]]
      BY <3>1 DEF Through
    <3>3. QED
      BY <1>3, <3>1, <3>2
  <2>2. QED
    BY <2>1
<1>6. Kept(new, there) /\ Elsewhere(new, now, e)
  BY <1>2 DEF Left, Through, Elsewhere
<1>7. Through(new, now, e, j + 1)
  BY <1>4, <1>5, <1>6 DEF Through
<1>8. QED
  BY <1>1, <1>7 DEF new, k

LEMMA UnarrangeAllFacts ==
  ASSUME NEW now, Kept(now, there), NEW e \in Entities
  PROVE  /\ Kept(UnarrangeAll(now, e), there) /\ Elsewhere(UnarrangeAll(now, e), now, e)
         /\ \A l \in Kind, y \in Entities : ~Linked(UnarrangeAll(now, e), e, l, y)
<1> DEFINE last == UnarrangeAll(now, e)
<1>1. PICK h : last = h[1 .. 6] /\ StepsOfAll(h, now, e)
  BY UnarrangeAllSteps
<1> HIDE DEF last
<1> DEFINE G == {j \in Nat : Through(h[1 .. j], now, e, j)}
<1>2. 0 \in G
  <2>1. h[{}] = now
    BY <1>1 DEF StepsOfAll
  <2>2. Through(now, now, e, 0)
    BY DEF Through, Elsewhere
  <2>3. 1 .. 0 = {}
    BY SMT
  <2>4. QED
    BY <2>1, <2>2, <2>3
<1>3. ASSUME NEW j \in Nat, j < 6, j \in G PROVE j + 1 \in G
  <2> DEFINE s == 1 .. (j + 1)
  <2>1. j \in 0 .. 5 /\ j + 1 \in 1 .. 6
    BY <1>3
  <2>2. s \in SUBSET (1 .. 6) /\ s # {} /\ j + 1 \in s /\ s \ {j + 1} = 1 .. j
    BY <2>1
  <2>3. \A q \in s : q \in Nat /\ q <= j + 1
    OBVIOUS
  <2> HIDE DEF s
  <2>4. Max(s) = j + 1
    <3> DEFINE top == Max(s)
    <3>1. top \in s /\ j + 1 <= top
      BY <2>2, LastOfPart
    <3> HIDE DEF top
    <3>2. top = j + 1
      BY <2>3, <3>1
    <3>3. QED
      BY <3>2 DEF top
  <2>5. h[s] = UnarrangeKind(h[1 .. j], e, Kinds[j + 1], DOMAIN now.arranged[e][Kinds[j + 1]])
    BY <1>1, <2>2, <2>4 DEF StepsOfAll
  <2>6. Through(h[s], now, e, j + 1)
    BY <1>3, <2>1, <2>5, ThroughNext
  <2>7. QED
    BY <2>6 DEF s
<1>4. Through(last, now, e, 6)
  <2> HIDE DEF G
  <2>1. \A n \in Nat : n <= 6 => 0 .. n \subseteq G
    BY <1>2, <1>3, UpTo
  <2>2. 6 \in G
    BY <2>1
  <2>3. QED
    BY <1>1, <2>2 DEF G
<1>5. ASSUME NEW l \in Kind, NEW y \in Entities PROVE ~Linked(last, e, l, y)
  <2>1. PICK i \in 1 .. 6 : Kinds[i] = l
    BY KindsDiffer
  <2>2. Len(last.arranged[e][l]) = 0
    BY <1>4, <2>1 DEF Through
  <2>3. last.arranged[e] \in [Kind -> Seq(Nat)]
    BY <1>4, SoundFacts DEF Through, Kept
  <2>4. DOMAIN last.arranged[e][l] = {}
    BY <2>2, <2>3
  <2>5. QED
    BY <2>4 DEF Linked, Means
<1>6. QED
  BY <1>4, <1>5 DEF Through, last

-----------------------------------------------------------------------------
(* An entity is erased                                                       *)

\* What erase leaves of the entities once e is unarranged.
Cleared(now, e) == [now EXCEPT !.relations[e] = << >>, !.arranged[e] = Bare, !.hole[e] = 0]

Erased(now, e) == Cleared(Elide(now, e), e)

LEMMA ClearedIs ==
  ASSUME NEW now, NEW e, NEW R, NEW A, NEW h, now = [relations |-> R, arranged |-> A, hole |-> h]
  PROVE  Cleared(now, e) = At([relations |-> R, arranged |-> A, hole |-> h], e, << >>, Bare, 0)
<1> DEFINE R1 == [now.relations EXCEPT ![e] = << >>]
           n1 == [now EXCEPT !.relations = R1]
           A1 == [n1.arranged EXCEPT ![e] = Bare]
           n2 == [n1 EXCEPT !.arranged = A1]
           h1 == [n2.hole EXCEPT ![e] = 0]
           n3 == [n2 EXCEPT !.hole = h1]
<1>1. Cleared(now, e) = n3
  BY DEF Cleared
<1>2. R1 = [R EXCEPT ![e] = << >>]
  OBVIOUS
<1> HIDE DEF R1
<1>3. n1 = [relations |-> R1, arranged |-> A, hole |-> h]
  OBVIOUS
<1> HIDE DEF n1
<1>4. A1 = [A EXCEPT ![e] = Bare]
  BY <1>3
<1> HIDE DEF A1
<1>5. n2 = [relations |-> R1, arranged |-> A1, hole |-> h]
  BY <1>3
<1> HIDE DEF n2
<1>6. h1 = [h EXCEPT ![e] = 0]
  BY <1>5
<1> HIDE DEF h1
<1>7. n3 = [relations |-> R1, arranged |-> A1, hole |-> h1]
  BY <1>5
<1> HIDE DEF n3
<1>8. QED
  BY <1>1, <1>2, <1>4, <1>6, <1>7 DEF At

\* Relations to e that are elided are no arrangement's any more.
LEMMA ElidedEnd ==
  ASSUME NEW now, Sound(now), NEW e \in Entities, NEW b \in Entities, b # e,
         \A k \in Kind : ~Linked(now, b, k, e)
  PROVE  /\ GoodEnd(b, Erased(now, e).relations[b], Erased(now, e).arranged[b], Erased(now, e).hole[b])
         /\ \A k \in Kind, y \in Entities : Linked(Erased(now, e), b, k, y) <=> Linked(now, b, k, y)
         /\ Erased(now, e).relations[b] \in Seq(Ids)
         /\ Erased(now, e).arranged[b] = now.arranged[b] /\ Erased(now, e).hole[b] = now.hole[b]
<1> DEFINE R == now.relations[b]
           A == now.arranged[b]
           h == now.hole[b]
           new == Erased(now, e)
           R1 == new.relations[b]
<1>1. /\ now \in States /\ GoodEnd(b, R, A, h) /\ R \in Seq(Ids) /\ Len(R) \in Nat
      /\ DOMAIN R = 1 .. Len(R) /\ h \in Nat
      /\ h # 0 => h \in DOMAIN R /\ R[h] = Null
  BY SoundFacts
<1>2. new.arranged[b] = A /\ new.hole[b] = h
  BY <1>1 DEF Erased, Cleared, Elide, States
<1>3. \/ R1 = R
      \/ R1 = [p \in DOMAIN R |-> IF R[p] = e THEN Null ELSE R[p]]
  BY <1>1 DEF Erased, Cleared, Elide, States
<1>4. ASSUME NEW k \in Kind, NEW i \in DOMAIN A[k]
      PROVE  A[k][i] \in DOMAIN R /\ R[A[k][i]] # e
  <2>1. /\ A[k][i] \in DOMAIN R /\ R[A[k][i]] = Related(now, b, k, i)
        /\ Linked(now, b, k, Related(now, b, k, i))
    BY UsedIsEntity
  <2>2. QED
    BY <2>1
<1> HIDE DEF R, A, h, R1, new
<1>5. /\ R1 \in Seq(Ids) /\ DOMAIN R1 = DOMAIN R
      /\ \A p \in DOMAIN R : R[p] # e => R1[p] = R[p]
  <2>1. \A p \in DOMAIN R : R[p] \in Ids /\ Null \in Ids
    BY <1>1 DEF Ids
  <2>2. CASE R1 = R
    BY <1>1, <2>2
  <2>3. CASE R1 = [p \in DOMAIN R |-> IF R[p] = e THEN Null ELSE R[p]]
    <3>1. R1 \in [1 .. Len(R) -> Ids]
      BY <1>1, <2>1, <2>3
    <3>2. QED
      BY <1>1, <2>3, <3>1
  <2>4. QED
    BY <1>3, <2>2, <2>3
<1>6. h # 0 => h \in DOMAIN R1 /\ R1[h] = Null
  <2>1. e # Null
    BY ArrangementConstantsOK
  <2>2. QED
    BY <1>1, <1>5, <2>1
<1>7. \A k \in Kind : \A i \in DOMAIN A[k] : A[k][i] \in DOMAIN R1 /\ R1[A[k][i]] = R[A[k][i]]
  BY <1>4, <1>5
<1>8. /\ GoodEnd(b, R1, A, h)
      /\ \A k \in Kind, y \in Entities : Means(R1, A, k, y) <=> Means(R, A, k, y)
  BY <1>1, <1>5, <1>6, <1>7, KeptEnd
<1>9. QED
  BY <1>2, <1>5, <1>8 DEF Linked, R, A, h, R1, new

LEMMA ErasedFacts ==
  ASSUME NEW now, NEW T, Kept(now, T), NEW e \in Entities,
         \A l \in Kind, y \in Entities : ~Linked(now, e, l, y)
  PROVE  Kept(Erased(now, e), T \ {e}) /\ Same(Erased(now, e), now)
<1> DEFINE new == Erased(now, e)
<1>1. Sound(now) /\ now \in States /\ \A l \in Kind : Dual[l] \in Kind
  BY DualFacts DEF Kept, Sound
<1>2. \A b \in Entities, l \in Kind : ~Linked(now, b, l, e)
  BY <1>1 DEF Kept, Mutual
<1>3. ASSUME NEW b \in Entities, b # e
      PROVE  /\ GoodEnd(b, new.relations[b], new.arranged[b], new.hole[b])
             /\ \A l \in Kind, y \in Entities : Linked(new, b, l, y) <=> Linked(now, b, l, y)
  BY <1>1, <1>2, <1>3, ElidedEnd
<1>4. /\ new.relations[e] = << >> /\ new.arranged[e] = Bare /\ new.hole[e] = 0
  BY <1>1 DEF Erased, Cleared, Elide, States
<1>5. /\ new = [relations |-> new.relations, arranged |-> new.arranged, hole |-> new.hole]
      /\ DOMAIN new.relations = Entities /\ DOMAIN new.arranged = Entities /\ DOMAIN new.hole = Entities
      /\ new.relations = [b \in Entities |-> new.relations[b]]
      /\ new.arranged = [b \in Entities |-> new.arranged[b]]
      /\ new.hole = [b \in Entities |-> new.hole[b]]
  <2> DEFINE f == [b \in Entities |->
                    IF b \in there /\ b \in Range(now.relations[e])
                    THEN [p \in DOMAIN now.relations[b] |->
                            IF now.relations[b][p] = e THEN Null ELSE now.relations[b][p]]
                    ELSE now.relations[b]]
  <2>1. Elide(now, e) = [now EXCEPT !.relations = f]
    BY DEF Elide
  <2>2. DOMAIN f = Entities /\ f = [b \in Entities |-> f[b]]
    OBVIOUS
  <2> HIDE DEF f
  <2>3. now = [relations |-> now.relations, arranged |-> now.arranged, hole |-> now.hole]
    BY <1>1 DEF States
  <2>4. Elide(now, e) = [relations |-> f, arranged |-> now.arranged, hole |-> now.hole]
    BY <2>1, <2>3
  <2>5. new = [relations |-> [f EXCEPT ![e] = << >>],
               arranged |-> [now.arranged EXCEPT ![e] = Bare],
               hole |-> [now.hole EXCEPT ![e] = 0]]
    <3> DEFINE el == Elide(now, e)
    <3>1. el = [relations |-> f, arranged |-> now.arranged, hole |-> now.hole]
      BY <2>4
    <3> HIDE DEF el
    <3>2. Cleared(el, e) = At([relations |-> f, arranged |-> now.arranged, hole |-> now.hole], e, << >>, Bare, 0)
      BY <3>1, ClearedIs
    <3>3. QED
      BY <3>2 DEF Erased, el, At
  <2> HIDE DEF new
  <2>6. QED
    BY <1>1, <2>2, <2>5 DEF States
<1> HIDE DEF new
<1>6. /\ GoodEnd(e, new.relations[e], new.arranged[e], new.hole[e])
      /\ \A l \in Kind, y \in Entities : ~Linked(new, e, l, y)
  <2>1. /\ Bare \in [Kind -> Seq(Nat)] /\ << >> \in Seq(Ids) /\ \A l \in Kind : DOMAIN Bare[l] = {}
    BY DEF Bare
  <2> HIDE DEF Bare
  <2>2. GoodEnd(e, << >>, Bare, 0)
    BY <2>1 DEF GoodEnd
  <2>3. QED
    BY <1>4, <2>1, <2>2 DEF Linked, Means
<1>7. \A b \in Entities : GoodEnd(b, new.relations[b], new.arranged[b], new.hole[b])
  BY <1>3, <1>6
<1>8. new \in States
  <2>1. \A b \in Entities : /\ new.relations[b] \in Seq(Ids) /\ new.arranged[b] \in [Kind -> Seq(Nat)]
                            /\ new.hole[b] \in Nat
    BY <1>7 DEF GoodEnd
  <2>2. /\ new.relations \in [Entities -> Seq(Ids)]
        /\ new.arranged \in [Entities -> [Kind -> Seq(Nat)]]
        /\ new.hole \in [Entities -> Nat]
    BY <1>5, <2>1
  <2>3. QED
    BY <1>5, <2>2 DEF States
<1>9. Sound(new)
  BY <1>7, <1>8 DEF Sound
<1>10. \A x, y \in Entities, l \in Kind : Linked(new, x, l, y) <=> Linked(now, x, l, y)
  BY <1>3, <1>6
<1>11. Same(new, now)
  BY <1>9, <1>10 DEF Same
<1>12. Kept(new, T \ {e})
  <2>1. Mutual(new)
    BY <1>1, <1>10 DEF Kept, Mutual
  <2>2. Present(new, T \ {e})
    BY <1>2, <1>10 DEF Kept, Present
  <2>3. QED
    BY <1>9, <2>1, <2>2 DEF Kept
<1>13. QED
  BY <1>11, <1>12 DEF new

-----------------------------------------------------------------------------
(* Every call keeps the invariant, and changes the arrangements of one pair  *)

LEMMA KeptGrows ==
  ASSUME NEW now, NEW T, NEW T1, Kept(now, T), T \subseteq T1
  PROVE  Kept(now, T1)
BY DEF Kept, Present

LEMMA SameKeeps ==
  ASSUME NEW new, NEW now, NEW T, Kept(now, T), Same(new, now)
  PROVE  Kept(new, T)
<1>1. \A l \in Kind : Dual[l] \in Kind
  BY DualFacts
<1>2. Mutual(new)
  BY <1>1 DEF Kept, Same, Mutual
<1>3. Present(new, T) /\ Sound(new)
  BY DEF Kept, Same, Present
<1>4. QED
  BY <1>2, <1>3 DEF Kept

\* Only the arrangements of a pair change.
LocalTo(new, now, P) ==
  \A x, y \in Entities, l \in Kind : {x, y} = P \/ (Linked(new, x, l, y) <=> Linked(now, x, l, y))

LEMMA LocalChanges ==
  ASSUME NEW new, NEW now, NEW a, NEW k, NEW b
  PROVE  /\ Joins(new, now, a, k, b) => LocalTo(new, now, {a, b})
         /\ Parts(new, now, a, k, b) => LocalTo(new, now, {a, b})
         /\ Same(new, now) => LocalTo(new, now, {a, b})
<1>1. ASSUME NEW x, NEW y, {x, y} # {a, b} PROVE ~(x = a /\ y = b) /\ ~(x = b /\ y = a)
  BY <1>1
<1>2. ASSUME Joins(new, now, a, k, b) PROVE LocalTo(new, now, {a, b})
  BY <1>1, <1>2 DEF Joins, LocalTo
<1>3. ASSUME Parts(new, now, a, k, b) PROVE LocalTo(new, now, {a, b})
  BY <1>1, <1>3 DEF Parts, LocalTo
<1>4. ASSUME Same(new, now) PROVE LocalTo(new, now, {a, b})
  BY <1>4 DEF Same, LocalTo
<1>5. QED
  BY <1>2, <1>3, <1>4

LEMMA EffectIs ==
  ASSUME NEW new, Sound(new), Effect(new)
  PROVE  Now' = new
<1>1. new = [relations |-> new.relations, arranged |-> new.arranged, hole |-> new.hole]
  BY DEF Sound, States
<1>2. QED
  BY <1>1 DEF Effect, Now

\* What a call does.
StepOf(P) == ArrInv' /\ LocalTo(Now', Now, P)

\* A call that leaves the entities there.
LEMMA Kept_ ==
  ASSUME ArrInv, NEW new, NEW P, Kept(new, there), LocalTo(new, Now, P), Effect(new), Keep
  PROVE  StepOf(P)
<1>1. Now' = new /\ fresh' = fresh /\ there' = there
  BY EffectIs DEF Kept, Keep
<1>2. QED
  BY <1>1 DEF ArrInv, StepOf

LEMMA InsertStep ==
  ASSUME ArrInv, NEW e \in Entities, Insert(e)
  PROVE  StepOf({e, e})
<1>1. Now' = Now /\ fresh' = fresh \ {e} /\ there' = there \cup {e} /\ e \in fresh
  BY DEF Insert, Now, Add
<1>2. Kept(Now, there')
  BY <1>1, KeptGrows DEF ArrInv
<1>3. /\ fresh' \subseteq Entities /\ there' \subseteq Entities \ fresh'
  BY <1>1 DEF ArrInv
<1>4. LocalTo(Now', Now, {e, e})
  BY <1>1 DEF LocalTo
<1>5. QED
  BY <1>1, <1>2, <1>3, <1>4 DEF ArrInv, StepOf

LEMMA RelateStep ==
  ASSUME ArrInv, NEW a, NEW k, NEW b, << a, k, b >> \in Ways, Relate(a, k, b)
  PROVE  StepOf({a, b})
<1> DEFINE new == IF Type[a] = "group" /\ Find(Now, a, k, b) # 0 THEN Now ELSE AddBoth(Now, a, k, b)
<1>1. /\ << a, k, b >> \in Admitted /\ a \in Entities /\ k \in Kind /\ b \in Entities
      /\ Sound(Now) /\ Kept(Now, there) /\ {a, b} \subseteq there
  BY AdmittedBoth DEF ArrInv, Kept, Relate
<1>2. Effect(new) /\ Keep
  BY DEF Relate
<1>3. CASE new = Now
  <2>1. LocalTo(new, Now, {a, b})
    BY <1>3 DEF LocalTo
  <2>2. QED
    BY <1>1, <1>2, <1>3, <2>1, Kept_
<1>4. CASE new = AddBoth(Now, a, k, b)
  <2>1. Joins(new, Now, a, k, b)
    BY <1>1, <1>4, AddBothFacts
  <2> HIDE DEF new
  <2>2. Kept(new, there)
    BY <1>1, <2>1, JoinsKeeps
  <2>3. LocalTo(new, Now, {a, b})
    BY <2>1, LocalChanges
  <2>4. QED
    BY <1>2, <2>2, <2>3, Kept_
<1>5. QED
  BY <1>3, <1>4

\* One arrangement is taken out at both ends.
LEMMA UnarrangeStep ==
  ASSUME ArrInv, NEW e \in Entities, NEW k \in Kind, NEW i \in DOMAIN arranged[e][k],
         Effect(Unarrange(Now, e, k, i)), Keep
  PROVE  \E b \in Entities : StepOf({e, b})
<1> DEFINE b == Related(Now, e, k, i)
           new == Unarrange(Now, e, k, i)
<1>1. Kept(Now, there) /\ Sound(Now) /\ i \in DOMAIN Now.arranged[e][k]
  BY DEF ArrInv, Kept, Now
<1>2. Parts(new, Now, e, k, b) /\ b \in Entities
  BY <1>1, UnarrangeFacts, UsedIsEntity
<1> HIDE DEF b
<1>3. Effect(new)
  OBVIOUS
<1> HIDE DEF new
<1>4. Kept(new, there) /\ LocalTo(new, Now, {e, b})
  BY <1>1, <1>2, PartsKeeps, LocalChanges
<1>5. StepOf({e, b})
  BY <1>3, <1>4, Kept_
<1>6. QED
  BY <1>2, <1>5

LEMMA UnrelateStep ==
  ASSUME ArrInv, NEW a, NEW k, NEW b, << a, k, b >> \in Ways, Unrelate(a, k, b)
  PROVE  \E c \in Entities : StepOf({a, c})
<1> DEFINE i == Find(Now, a, k, b)
<1>1. /\ a \in Entities /\ k \in Kind /\ b \in Entities /\ Sound(Now)
      /\ i # 0 /\ Effect(Unarrange(Now, a, k, i)) /\ Keep
  BY AdmittedBoth DEF ArrInv, Kept, Unrelate
<1>2. i \in DOMAIN Now.arranged[a][k]
  BY <1>1, FindFacts
<1> HIDE DEF i
<1>3. i \in DOMAIN arranged[a][k]
  BY <1>2 DEF Now
<1>4. QED
  BY <1>1, <1>3, UnarrangeStep

\* A model and a cell can be arranged as an inclusion only.
LEMMA OneWayWithCell ==
  ASSUME NEW m, NEW c, NEW k, << m, k, c >> \in Admitted, Type[m] = "model", Type[c] = "cell"
  PROVE  k = "INCLUDES"
<1>1. /\ m \in Entities /\ c \in Entities /\ k \in Kind
      /\ << m, k, c >> \in Ways \/ << c, Dual[k], m >> \in Ways
  BY AdmittedBoth DEF Admitted
<1>2. \A w \in Ways : /\ w[2] \in {"INCLUDES", "SUPERSET_OF", "INSTANCE_OF"}
                      /\ w[2] = "INCLUDES" => Embeds(w[1], w[3])
                      /\ w[2] = "SUPERSET_OF" => Collects(w[1], w[3])
                      /\ w[2] = "INSTANCE_OF" => Type[w[1]] = "instance"
  BY ArrangementConstantsOK
<1>3. ~Embeds(c, m) /\ ~Collects(m, c) /\ ~Collects(c, m)
  BY DEF Embeds, Collects
<1>4. << c, Dual[k], m >> \notin Ways
  <2> SUFFICES ASSUME << c, Dual[k], m >> \in Ways PROVE FALSE
    OBVIOUS
  <2>1. /\ Dual[k] \in {"INCLUDES", "SUPERSET_OF", "INSTANCE_OF"}
        /\ Dual[k] = "INCLUDES" => Embeds(c, m)
        /\ Dual[k] = "SUPERSET_OF" => Collects(c, m)
        /\ Dual[k] = "INSTANCE_OF" => Type[c] = "instance"
    BY <1>2
  <2>2. QED
    BY <1>3, <2>1
<1>5. /\ k \in {"INCLUDES", "SUPERSET_OF", "INSTANCE_OF"}
      /\ k = "SUPERSET_OF" => Collects(m, c)
      /\ k = "INSTANCE_OF" => Type[m] = "instance"
  BY <1>1, <1>2, <1>4
<1>6. QED
  BY <1>3, <1>5

LEMMA LinkedIsAdmitted ==
  ASSUME NEW now, Sound(now), NEW a \in Entities, NEW k \in Kind, NEW b, Linked(now, a, k, b)
  PROVE  << a, k, b >> \in Admitted
<1>1. PICK i \in DOMAIN now.arranged[a][k] : now.relations[a][now.arranged[a][k][i]] = b
  BY DEF Linked, Means
<1>2. << a, k, now.relations[a][now.arranged[a][k][i]] >> \in Admitted
  BY DEF Sound, GoodEnd
<1>3. QED
  BY <1>1, <1>2

LEMMA RemoveCellStep ==
  ASSUME ArrInv, NEW m \in Entities, NEW c \in Entities, RemoveCell(m, c)
  PROVE  StepOf({m, c})
<1> DEFINE i == Find(Now, m, "INCLUDES", c)
           mid == IF i = 0 THEN Now ELSE Unarrange(Now, m, "INCLUDES", i)
           half == InvalidateEntity(mid, m, c)
           new == InvalidateEntity(half, c, m)
<1>1. /\ Type[m] = "model" /\ Type[c] = "cell" /\ Effect(new) /\ Keep
      /\ Kept(Now, there) /\ Sound(Now) /\ "INCLUDES" \in Kind
      /\ \A l \in Kind : Dual[l] \in Kind
  BY KindsAre, DualFacts DEF RemoveCell, ArrInv, Kept
<1>2. /\ Kept(mid, there) /\ LocalTo(mid, Now, {m, c})
      /\ ~Linked(mid, m, "INCLUDES", c)
  <2>1. CASE i = 0
    <3>1. mid = Now /\ ~Linked(Now, m, "INCLUDES", c)
      BY <1>1, <2>1, FindFacts
    <3>2. QED
      BY <1>1, <3>1 DEF LocalTo
  <2>2. CASE i # 0
    <3>1. i \in DOMAIN Now.arranged[m]["INCLUDES"] /\ Related(Now, m, "INCLUDES", i) = c
      BY <1>1, <2>2, FindFacts
    <3> HIDE DEF i
    <3>2. Parts(Unarrange(Now, m, "INCLUDES", i), Now, m, "INCLUDES", c)
      BY <1>1, <3>1, UnarrangeFacts
    <3>3. mid = Unarrange(Now, m, "INCLUDES", i)
      BY <2>2
    <3> HIDE DEF mid
    <3>4. Parts(mid, Now, m, "INCLUDES", c)
      BY <3>2, <3>3
    <3>5. Kept(mid, there) /\ LocalTo(mid, Now, {m, c})
      BY <1>1, <3>4, PartsKeeps, LocalChanges
    <3>6. QED
      BY <1>1, <3>4, <3>5 DEF Parts
  <2>3. QED
    BY <2>1, <2>2
<1> HIDE DEF mid
<1>3. \A k \in Kind : ~Linked(mid, m, k, c) /\ ~Linked(mid, c, k, m)
  <2>1. Sound(mid) /\ Mutual(mid)
    BY <1>2 DEF Kept
  <2>2. ASSUME NEW k \in Kind PROVE ~Linked(mid, m, k, c)
    BY <1>1, <1>2, <2>1, LinkedIsAdmitted, OneWayWithCell
  <2>3. ASSUME NEW k \in Kind PROVE ~Linked(mid, c, k, m)
    BY <1>1, <2>1, <2>2 DEF Mutual
  <2>4. QED
    BY <2>2, <2>3
<1>4. Same(half, mid)
  BY <1>2, <1>3, InvalidateEntityFacts DEF Kept
<1> HIDE DEF half
<1>5. Sound(half) /\ \A k \in Kind : ~Linked(half, c, k, m)
  BY <1>3, <1>4 DEF Same
<1>6. Same(new, half)
  BY <1>5, InvalidateEntityFacts
<1> HIDE DEF new
<1>7. Same(new, mid)
  BY <1>4, <1>6 DEF Same
<1>8. Kept(new, there) /\ LocalTo(new, Now, {m, c})
  <2>1. Kept(new, there)
    BY <1>2, <1>7, SameKeeps
  <2>2. LocalTo(new, Now, {m, c})
    BY <1>2, <1>7 DEF Same, LocalTo
  <2>3. QED
    BY <2>1, <2>2
<1>9. QED
  BY <1>1, <1>8, Kept_

LEMMA AddInstanceStep ==
  ASSUME ArrInv, NEW i, NEW o, << i, "INSTANCE_OF", o >> \in Ways, AddInstance(i, o)
  PROVE  StepOf({i, o})
<1> DEFINE new == Instanced(Now, i, o)
<1>1. /\ << i, "INSTANCE_OF", o >> \in Admitted /\ i \in Entities /\ o \in Entities
      /\ i \in fresh /\ o \in there /\ Add(i) /\ "INSTANCE_OF" \in Kind /\ "INSTANCED_BY" \in Kind
      /\ Kept(Now, there) /\ Sound(Now) /\ i \notin there
  BY AdmittedBoth, KindsAre DEF ArrInv, Kept, AddInstance
<1>2. Effect(new)
  BY DEF AddInstance, Instanced
<1>3. ~Linked(Now, i, "INSTANCE_OF", o) /\ ~Linked(Now, o, "INSTANCED_BY", i)
  BY <1>1 DEF Kept, Present
<1>4. Joins(new, Now, i, "INSTANCE_OF", o)
  BY <1>1, <1>3, InstancedFacts
<1> HIDE DEF new
<1>5. Kept(new, there \cup {i})
  <2> DEFINE T1 == there \cup {i}
  <2>1. there \subseteq T1 /\ i \in T1 /\ o \in T1
    BY <1>1
  <2> HIDE DEF T1
  <2>2. Kept(new, T1)
    BY <1>1, <1>4, <2>1, JoinsKeeps
  <2>3. QED
    BY <2>2 DEF T1
<1>6. Now' = new
  BY <1>2, <1>5, EffectIs DEF Kept
<1>7. /\ fresh' = fresh \ {i} /\ there' = there \cup {i}
  BY <1>1 DEF Add
<1>8. /\ fresh' \subseteq Entities /\ there' \subseteq Entities \ fresh'
  BY <1>1, <1>7 DEF ArrInv
<1>9. LocalTo(new, Now, {i, o})
  BY <1>4, LocalChanges
<1>10. QED
  BY <1>5, <1>6, <1>7, <1>8, <1>9 DEF ArrInv, StepOf

LEMMA RawStep ==
  ASSUME ArrInv, NEW a \in Entities, NEW b \in Entities, RelateRaw(a, b) \/ ElideRaw(a, b)
  PROVE  StepOf({a, b})
<1>1. Kept(Now, there) /\ Sound(Now)
  BY DEF ArrInv, Kept
<1>2. CASE RelateRaw(a, b)
  <2> DEFINE new == AppendRelation(Now, a, b)
  <2>1. Effect(new) /\ Keep
    BY <1>2 DEF RelateRaw
  <2>2. Same(new, Now)
    BY <1>1, AppendRelationFacts
  <2> HIDE DEF new
  <2>3. QED
    BY <1>1, <2>1, <2>2, SameKeeps, LocalChanges, Kept_
<1>3. CASE ElideRaw(a, b)
  <2> DEFINE new == InvalidateEntity(Now, a, b)
  <2>1. Effect(new) /\ Keep /\ \A k \in Kind : Find(Now, a, k, b) = 0
    BY <1>3 DEF ElideRaw
  <2>2. \A k \in Kind : ~Linked(Now, a, k, b)
    BY <1>1, <2>1, FindFacts
  <2>3. Same(new, Now)
    BY <1>1, <2>2, InvalidateEntityFacts
  <2> HIDE DEF new
  <2>4. QED
    BY <1>1, <2>1, <2>3, SameKeeps, LocalChanges, Kept_
<1>4. QED
  BY <1>2, <1>3

LEMMA EraseStep ==
  ASSUME ArrInv, NEW e \in Entities, Erase(e)
  PROVE  /\ ArrInv' /\ e \in there \ there'
         /\ \A x, y \in Entities, l \in Kind :
              x = e \/ y = e \/ (Linked(Now', x, l, y) <=> Linked(Now, x, l, y))
<1> DEFINE mid == UnarrangeAll(Now, e)
           new == Erased(mid, e)
<1>1. /\ Effect(new) /\ e \in there /\ there' = there \ {e} /\ fresh' = fresh /\ Kept(Now, there)
  BY DEF Erase, Erased, Cleared, ArrInv
<1>2. /\ Kept(mid, there) /\ Elsewhere(mid, Now, e)
      /\ \A l \in Kind, y \in Entities : ~Linked(mid, e, l, y)
  BY <1>1, UnarrangeAllFacts
<1> HIDE DEF mid
<1>3. Kept(new, there \ {e}) /\ Same(new, mid)
  BY <1>2, ErasedFacts
<1> HIDE DEF new
<1>4. Now' = new
  BY <1>1, <1>3, EffectIs DEF Kept
<1>5. ArrInv'
  <2>1. fresh' \subseteq Entities /\ there' \subseteq Entities \ fresh'
    BY <1>1 DEF ArrInv
  <2>2. Kept(Now', there')
    BY <1>1, <1>3, <1>4
  <2>3. QED
    BY <2>1, <2>2 DEF ArrInv
<1>6. ASSUME NEW x \in Entities, NEW y \in Entities, NEW l \in Kind, x # e, y # e
      PROVE  Linked(Now', x, l, y) <=> Linked(Now, x, l, y)
  BY <1>2, <1>3, <1>4, <1>6 DEF Elsewhere, Same
<1>7. QED
  BY <1>1, <1>5, <1>6

LEMMA InitArr ==
  ASSUME Init
  PROVE  ArrInv
<1>1. /\ Now.relations = [e \in Entities |-> << >>] /\ Now.arranged = [e \in Entities |-> Bare]
      /\ Now.hole = [e \in Entities |-> 0]
      /\ Now = [relations |-> Now.relations, arranged |-> Now.arranged, hole |-> Now.hole]
  BY DEF Init, Now
<1>2. /\ Bare \in [Kind -> Seq(Nat)] /\ << >> \in Seq(Ids) /\ \A l \in Kind : DOMAIN Bare[l] = {}
  BY DEF Bare
<1> DEFINE now == Now
<1> HIDE DEF now
<1>3. /\ now.relations = [e \in Entities |-> << >>] /\ now.arranged = [e \in Entities |-> Bare]
      /\ now.hole = [e \in Entities |-> 0]
      /\ now = [relations |-> now.relations, arranged |-> now.arranged, hole |-> now.hole]
  BY <1>1 DEF now
<1> HIDE DEF Bare
<1>4. \A e \in Entities : /\ GoodEnd(e, now.relations[e], now.arranged[e], now.hole[e])
                          /\ \A l \in Kind, y \in Entities : ~Linked(now, e, l, y)
  BY <1>2, <1>3 DEF GoodEnd, Linked, Means
<1>5. now \in States
  <2> DEFINE R == now.relations
             A == now.arranged
             h == now.hole
  <2>1. R \in [Entities -> Seq(Ids)]
    BY <1>2, <1>3
  <2>2. A \in [Entities -> [Kind -> Seq(Nat)]]
    BY <1>2, <1>3
  <2>3. h \in [Entities -> Nat]
    BY <1>3
  <2>4. now = [relations |-> R, arranged |-> A, hole |-> h]
    BY <1>3
  <2> HIDE DEF R, A, h
  <2>5. QED
    BY <2>1, <2>2, <2>3, <2>4 DEF States
<1>6. Kept(now, there)
  BY <1>4, <1>5 DEF Kept, Sound, Mutual, Present
<1>7. QED
  BY <1>6 DEF ArrInv, Init, now

\* A step changes nothing, is a call that changes the arrangements of a pair, or
\* erases an entity.
LEMMA NextIs ==
  ASSUME ArrInv, Next
  PROVE  \/ \E a, b \in Entities : StepOf({a, b})
         \/ \E e \in Entities : Erase(e)
<1>1. ASSUME NEW e \in Entities, Insert(e)
      PROVE  \E a, b \in Entities : StepOf({a, b})
  BY <1>1, InsertStep
<1>2. ASSUME NEW w \in Ways, Relate(w[1], w[2], w[3]) \/ Unrelate(w[1], w[2], w[3])
      PROVE  \E a, b \in Entities : StepOf({a, b})
  <2>1. w[1] \in Entities /\ w[3] \in Entities /\ << w[1], w[2], w[3] >> \in Ways
    BY WaysAre
  <2>2. CASE Relate(w[1], w[2], w[3])
    BY <2>1, <2>2, RelateStep
  <2>3. CASE Unrelate(w[1], w[2], w[3])
    BY <2>1, <2>3, UnrelateStep
  <2>4. QED
    BY <1>2, <2>2, <2>3
<1>3. ASSUME NEW w \in Ways, w[2] = "INSTANCE_OF", AddInstance(w[1], w[3])
      PROVE  \E a, b \in Entities : StepOf({a, b})
  <2>1. w[1] \in Entities /\ w[3] \in Entities /\ << w[1], "INSTANCE_OF", w[3] >> \in Ways
    BY <1>3, WaysAre
  <2>2. QED
    BY <1>3, <2>1, AddInstanceStep
<1>4. ASSUME NEW m \in Entities, NEW c \in Entities, RemoveCell(m, c)
      PROVE  \E a, b \in Entities : StepOf({a, b})
  BY <1>4, RemoveCellStep
<1>5. ASSUME NEW e \in Entities, NEW k \in Kind, NEW i \in 1 .. MaxRelations, RemoveArrangement(e, k, i)
      PROVE  \E a, b \in Entities : StepOf({a, b})
  <2>1. i \in DOMAIN arranged[e][k] /\ Effect(Unarrange(Now, e, k, i)) /\ Keep
    BY <1>5 DEF RemoveArrangement
  <2>2. QED
    BY <2>1, UnarrangeStep
<1>6. ASSUME NEW r \in Raw, RelateRaw(r[1], r[2]) \/ ElideRaw(r[1], r[2])
      PROVE  \E a, b \in Entities : StepOf({a, b})
  <2>1. r[1] \in Entities /\ r[2] \in Entities
    BY ArrangementConstantsOK
  <2>2. QED
    BY <1>6, <2>1, RawStep
<1>7. QED
  BY <1>1, <1>2, <1>3, <1>4, <1>5, <1>6 DEF Next

LEMMA NextArr ==
  ASSUME ArrInv, [Next]_vars
  PROVE  ArrInv'
<1>1. CASE Next
  BY <1>1, NextIs, EraseStep DEF StepOf
<1>2. CASE UNCHANGED vars
  BY <1>2 DEF vars, ArrInv, Now, Kept, Sound, Mutual, Present, Linked
<1>3. QED
  BY <1>1, <1>2

LEMMA AlwaysArr == Spec => []ArrInv
<1>1. QED
  BY InitArr, NextArr, PTL DEF Spec

-----------------------------------------------------------------------------
(* Theorems                                                                  *)

LEMMA TypesFollow ==
  ASSUME ArrInv
  PROVE  TypeOK
<1>1. Sound(Now) /\ fresh \subseteq Entities /\ there \subseteq Entities \ fresh
  BY DEF ArrInv, Kept
<1>2. ASSUME NEW e \in Entities
      PROVE  /\ relations[e] \in Seq(Entities \cup {Null})
             /\ DOMAIN arranged[e] = Kind
             /\ \A k \in Kind : arranged[e][k] \in Seq(DOMAIN relations[e])
             /\ hole[e] # 0 => hole[e] \in DOMAIN relations[e] /\ relations[e][hole[e]] = Null
  <2>1. /\ GoodEnd(e, relations[e], arranged[e], hole[e])
        /\ relations[e] \in Seq(Ids) /\ arranged[e] \in [Kind -> Seq(Nat)]
        /\ hole[e] # 0 => hole[e] \in DOMAIN relations[e] /\ relations[e][hole[e]] = Null
    BY <1>1, SoundFacts DEF Now
  <2>2. ASSUME NEW k \in Kind PROVE arranged[e][k] \in Seq(DOMAIN relations[e])
    <3> DEFINE s == arranged[e][k]
               D == DOMAIN relations[e]
    <3>1. s \in Seq(Nat) /\ \A i \in DOMAIN s : s[i] \in D
      BY <2>1 DEF GoodEnd
    <3> HIDE DEF s, D
    <3>2. s \in [1 .. Len(s) -> D] /\ Len(s) \in Nat
      BY <3>1
    <3>3. s \in Seq(D)
      BY <3>2
    <3>4. QED
      BY <3>3 DEF s, D
  <2>3. QED
    BY <2>1, <2>2 DEF Ids
<1>3. QED
  BY <1>1, <1>2 DEF TypeOK

\* The indices of all arrangements are indices of relations, and the hole an entity
\* knows of is one: what is appended (appendRelation, consumeInvalidIndex) overwrites
\* no relation.
THEOREM ArrangementTypes == Spec => []TypeOK
<1>1. ArrInv => TypeOK
  BY TypesFollow
<1>2. QED
  BY <1>1, AlwaysArr, PTL

\* An entity is related to another by one arrangement of a kind at most.
LEMMA CountOfArrangements ==
  ASSUME ArrInv, NEW a \in Entities, NEW k \in Kind, NEW b \in Entities
  PROVE  Cardinality(Arrangements(a, k, b)) = IF Linked(Now, a, k, b) THEN 1 ELSE 0
<1> DEFINE S == Arrangements(a, k, b)
<1>1. /\ Linked(Now, a, k, b) <=> S # {}
      /\ \A i, j \in S : i = j
  <2>1. GoodEnd(a, relations[a], arranged[a], hole[a])
    BY DEF ArrInv, Kept, Sound, Now
  <2>2. S = {i \in DOMAIN arranged[a][k] : relations[a][arranged[a][k][i]] = b}
    BY DEF Arrangements, Related, Now
  <2> HIDE DEF S
  <2>3. \A i, j \in S : i = j
    BY <2>1, <2>2 DEF GoodEnd
  <2>4. Linked(Now, a, k, b) <=> S # {}
    BY <2>2 DEF Linked, Means, Now
  <2>5. QED
    BY <2>3, <2>4
<1> HIDE DEF S
<1>2. CASE S = {}
  BY <1>1, <1>2, FS_EmptySet DEF S
<1>3. CASE S # {}
  <2>1. PICK i : S = {i}
    BY <1>1, <1>3
  <2>2. Cardinality(S) = 1
    BY <2>1, FS_Singleton
  <2>3. QED
    BY <1>1, <1>3, <2>2 DEF S
<1>4. QED
  BY <1>2, <1>3

\* Whatever is arranged, unarranged, related, elided and erased, in whatever order and
\* by as many entities: arrangements relate to entities that are there, and for each
\* the other end has its dual. No hole that is filled again and no index that moves up
\* ever parts the two (Entity::unarrange finds the dual by searching for it).
THEOREM ArrangementsAreMutual == Spec => []DualsAgree
<1>1. ASSUME ArrInv PROVE DualsAgree
  <2>1. Sound(Now) /\ Mutual(Now) /\ Present(Now, there) /\ there \subseteq Entities
    BY <1>1 DEF ArrInv, Kept
  <2>2. ASSUME NEW e \in there, NEW k \in Kind, NEW i \in DOMAIN arranged[e][k]
        PROVE  Related(Now, e, k, i) \in there
    <3>1. e \in Entities /\ i \in DOMAIN Now.arranged[e][k]
      BY <2>1 DEF Now
    <3>2. Linked(Now, e, k, Related(Now, e, k, i)) /\ Related(Now, e, k, i) \in Entities
      BY <2>1, <3>1, UsedIsEntity
    <3>3. QED
      BY <2>1, <3>1, <3>2 DEF Present
  <2>3. ASSUME NEW a \in there, NEW b \in there, NEW k \in Kind
        PROVE  Cardinality(Arrangements(a, k, b)) = Cardinality(Arrangements(b, Dual[k], a))
    <3>1. a \in Entities /\ b \in Entities /\ Dual[k] \in Kind /\ Dual[Dual[k]] = k
      BY <2>1, DualFacts
    <3>2. Linked(Now, a, k, b) <=> Linked(Now, b, Dual[k], a)
      BY <2>1, <3>1 DEF Mutual
    <3>3. QED
      BY <1>1, <3>1, <3>2, CountOfArrangements
  <2>4. QED
    BY <2>2, <2>3 DEF DualsAgree
<1>2. ArrInv => DualsAgree
  BY <1>1
<1>3. QED
  BY <1>2, AlwaysArr, PTL

\* The arrangements there are, of a state.
ArrangedIn(now) == {t \in Entities \X Kind \X Entities : Linked(now, t[1], t[2], t[3])}

\* A call arranges or unarranges one pair of entities, erase all pairs of one: no other
\* arrangement ever comes to mean another entity, although all indices of an entity are
\* into one array whose holes (invalidateRelationByIndex) are filled again.
THEOREM CallsAreLocal == Spec => ChangesAreLocal
<1> DEFINE Changed == (Arranged \ Arranged') \cup (Arranged' \ Arranged)
           Pairs == {{t[1], t[3]} : t \in Changed}
           Local == \/ \A p, q \in Pairs : p = q
                    \/ \E e \in there \ there' : \A p \in Pairs : e \in p
<1>1. ASSUME ArrInv, [Next]_vars
      PROVE  Local \/ UNCHANGED vars
  <2>1. Arranged = ArrangedIn(Now)
    BY DEF Arranged, ArrangedIn, Arrangements, Related, Linked, Means, Now
  <2>2. Arranged' = ArrangedIn(Now')
    BY DEF Arranged, ArrangedIn, Arrangements, Related, Linked, Means, Now
  <2> HIDE DEF Arranged
  <2>3. ASSUME NEW t \in Changed
        PROVE  /\ t[1] \in Entities /\ t[2] \in Kind /\ t[3] \in Entities
               /\ ~(Linked(Now', t[1], t[2], t[3]) <=> Linked(Now, t[1], t[2], t[3]))
    BY <2>1, <2>2 DEF ArrangedIn
  <2> HIDE DEF Changed
  <2>4. ASSUME NEW P, LocalTo(Now', Now, P) PROVE \A p \in Pairs : p = P
    <3>1. ASSUME NEW t \in Changed PROVE {t[1], t[3]} = P
      BY <2>3, <2>4 DEF LocalTo
    <3>2. QED
      BY <3>1
  <2>5. CASE \E a, b \in Entities : StepOf({a, b})
    BY <2>4, <2>5 DEF StepOf
  <2>6. CASE \E e \in Entities : Erase(e)
    <3>1. PICK e \in Entities : Erase(e)
      BY <2>6
    <3>2. /\ e \in there \ there'
          /\ \A x, y \in Entities, l \in Kind :
               x = e \/ y = e \/ (Linked(Now', x, l, y) <=> Linked(Now, x, l, y))
      BY <1>1, <3>1, EraseStep
    <3>3. ASSUME NEW t \in Changed PROVE e \in {t[1], t[3]}
      BY <2>3, <3>2
    <3>4. \A p \in Pairs : e \in p
      BY <3>3
    <3>5. QED
      BY <3>2, <3>4
  <2>7. QED
    BY <1>1, <2>5, <2>6, NextIs
<1>2. QED
  BY <1>1, AlwaysArr, PTL DEF Spec, ChangesAreLocal
=============================================================================
