--------------------------- MODULE PhraseModelProofs ---------------------------
(***************************************************************************)
(* Rows are the resources, and views show the rows: the safety properties  *)
(* of PhraseModel for any number of managers, resources, views, lists and  *)
(* titles, as long as views wait for the end of a loop before they ask a   *)
(* row for its children.                                                   *)
(***************************************************************************)
EXTENDS PhraseModel, FiniteSetTheorems, SequenceTheorems, Inductions

-----------------------------------------------------------------------------
(* Lists                                                                     *)

\* A list of different members of S.
ListOf(S) == {s \in Seq(S) : IsInjective(s)}

LEMMA ListFacts ==
  ASSUME NEW S, NEW s \in ListOf(S)
  PROVE  /\ s \in Seq(S) /\ Len(s) \in Nat /\ DOMAIN s = 1 .. Len(s)
         /\ \A i \in 1 .. Len(s) : s[i] \in S
         /\ \A i, j \in 1 .. Len(s) : s[i] = s[j] => i = j
<1>1. s \in Seq(S) /\ IsInjective(s)
  BY DEF ListOf
<1>2. QED
  BY <1>1, LenProperties, ElementOfSeq DEF IsInjective

LEMMA MemberOfList ==
  ASSUME NEW S, NEW s \in Seq(S)
  PROVE  /\ \A x : x \in ToSet(s) <=> \E i \in 1 .. Len(s) : s[i] = x
         /\ ToSet(s) \subseteq S
<1>1. Len(s) \in Nat /\ DOMAIN s = 1 .. Len(s) /\ \A i \in 1 .. Len(s) : s[i] \in S
  BY LenProperties, ElementOfSeq
<1>2. QED
  BY <1>1 DEF ToSet

\* What a list w is that lacks rows lo .. hi of s.
LeftOut(w, s, lo, hi) ==
  /\ Len(w) = Len(s) - (hi - lo + 1)
  /\ \A i \in 1 .. Len(s) - (hi - lo + 1) :
       w[i] = IF i <= lo THEN s[i] ELSE s[i + (hi - lo + 1)]

\* Rows lo .. hi are taken out.
LEMMA WithoutFacts ==
  ASSUME NEW S, NEW s \in Seq(S), NEW lo \in Nat, NEW hi \in Nat, lo <= hi, hi < Len(s)
  PROVE  Without(s, lo, hi) \in Seq(S) /\ LeftOut(Without(s, lo, hi), s, lo, hi)
<1> DEFINE a == SubSeq(s, 1, lo)
           b == SubSeq(s, hi + 2, Len(s))
<1>1. Len(s) \in Nat /\ \A i \in 1 .. Len(s) : s[i] \in S
  BY LenProperties, ElementOfSeq
<1>2. a \in Seq(S) /\ Len(a) = lo /\ \A i \in 1 .. lo : a[i] = s[i]
  <2>1. \A i \in 1 .. lo : s[i] \in S
    BY <1>1
  <2>2. /\ a \in Seq(S) /\ Len(a) = IF 1 <= lo THEN lo - 1 + 1 ELSE 0
        /\ \A i \in 1 .. lo - 1 + 1 : a[i] = s[1 + i - 1]
    BY <2>1, SubSeqProperties
  <2>3. QED
    BY <2>2
<1>3. b \in Seq(S) /\ Len(b) = Len(s) - hi - 1 /\ \A i \in 1 .. Len(s) - hi - 1 : b[i] = s[hi + 1 + i]
  <2>1. \A i \in hi + 2 .. Len(s) : s[i] \in S
    BY <1>1
  <2>2. /\ b \in Seq(S) /\ Len(b) = IF hi + 2 <= Len(s) THEN Len(s) - (hi + 2) + 1 ELSE 0
        /\ \A i \in 1 .. Len(s) - (hi + 2) + 1 : b[i] = s[hi + 2 + i - 1]
    BY <2>1, <1>1, SubSeqProperties
  <2>3. QED
    BY <2>2, <1>1
<1> HIDE DEF a, b
<1>4. /\ a \o b \in Seq(S) /\ Len(a \o b) = Len(a) + Len(b)
      /\ \A i \in 1 .. Len(a) + Len(b) : (a \o b)[i] = IF i <= Len(a) THEN a[i] ELSE b[i - Len(a)]
  BY <1>2, <1>3, ConcatProperties
<1> DEFINE w == a \o b
<1>5. /\ w \in Seq(S) /\ Len(w) = Len(s) - (hi - lo + 1)
      /\ \A i \in 1 .. Len(s) - (hi - lo + 1) : w[i] = IF i <= lo THEN a[i] ELSE b[i - lo]
  BY <1>1, <1>2, <1>3, <1>4
<1>6. Without(s, lo, hi) = w
  BY DEF Without, a, b
<1> HIDE DEF w
<1>7. \A i \in 1 .. Len(s) - (hi - lo + 1) : w[i] = IF i <= lo THEN s[i] ELSE s[i + (hi - lo + 1)]
  <2> TAKE i \in 1 .. Len(s) - (hi - lo + 1)
  <2>1. CASE i <= lo
    BY <2>1, <1>1, <1>2, <1>5
  <2>2. CASE ~(i <= lo)
    <3>1. i - lo \in 1 .. Len(s) - hi - 1 /\ hi + 1 + (i - lo) = i + (hi - lo + 1)
      BY <2>2, <1>1
    <3>2. QED
      BY <3>1, <2>2, <1>3, <1>5
  <2>3. QED
    BY <2>1, <2>2
<1>8. QED
  BY <1>5, <1>6, <1>7 DEF LeftOut

\* What a list w with batch b put in at row lo of s is.
Spliced(w, s, lo, b) ==
  /\ Len(w) = Len(s) + Len(b)
  /\ \A i \in 1 .. lo : w[i] = s[i]
  /\ \A i \in 1 .. Len(b) : w[lo + i] = b[i]
  /\ \A i \in lo + 1 .. Len(s) : w[i + Len(b)] = s[i]

\* A batch is put in at row lo.
LEMMA WithFacts ==
  ASSUME NEW S, NEW s \in Seq(S), NEW b \in Seq(S), NEW lo \in Nat, lo <= Len(s)
  PROVE  With(s, lo, b) \in Seq(S) /\ Spliced(With(s, lo, b), s, lo, b)
<1> DEFINE a == SubSeq(s, 1, lo)
           c == SubSeq(s, lo + 1, Len(s))
<1>1. Len(s) \in Nat /\ Len(b) \in Nat /\ \A i \in 1 .. Len(s) : s[i] \in S
  BY LenProperties, ElementOfSeq
<1>2. a \in Seq(S) /\ Len(a) = lo /\ \A i \in 1 .. lo : a[i] = s[i]
  <2>1. \A i \in 1 .. lo : s[i] \in S
    BY <1>1
  <2>2. /\ a \in Seq(S) /\ Len(a) = IF 1 <= lo THEN lo - 1 + 1 ELSE 0
        /\ \A i \in 1 .. lo - 1 + 1 : a[i] = s[1 + i - 1]
    BY <2>1, SubSeqProperties
  <2>3. QED
    BY <2>2
<1>3. c \in Seq(S) /\ Len(c) = Len(s) - lo /\ \A i \in 1 .. Len(s) - lo : c[i] = s[lo + i]
  <2>1. \A i \in lo + 1 .. Len(s) : s[i] \in S
    BY <1>1
  <2>2. /\ c \in Seq(S) /\ Len(c) = IF lo + 1 <= Len(s) THEN Len(s) - (lo + 1) + 1 ELSE 0
        /\ \A i \in 1 .. Len(s) - (lo + 1) + 1 : c[i] = s[lo + 1 + i - 1]
    BY <2>1, <1>1, SubSeqProperties
  <2>3. QED
    BY <2>2, <1>1
<1> HIDE DEF a, c
<1> DEFINE d == a \o b
           w == d \o c
<1>4. /\ d \in Seq(S) /\ Len(d) = lo + Len(b)
      /\ \A i \in 1 .. lo + Len(b) : d[i] = IF i <= lo THEN a[i] ELSE b[i - lo]
  BY <1>2, ConcatProperties
<1> HIDE DEF d
<1>5. /\ w \in Seq(S) /\ Len(w) = Len(d) + Len(c)
      /\ \A i \in 1 .. Len(d) + Len(c) : w[i] = IF i <= Len(d) THEN d[i] ELSE c[i - Len(d)]
  <2>1. d \in Seq(S) /\ c \in Seq(S)
    BY <1>3, <1>4
  <2>2. QED
    BY <2>1, ConcatProperties
<1>6. With(s, lo, b) = w
  BY DEF With, a, c, d
<1> HIDE DEF w
<1>7. ASSUME NEW i \in 1 .. lo PROVE w[i] = s[i]
  <2>1. i \in 1 .. Len(d) + Len(c) /\ i <= Len(d) /\ i \in 1 .. lo + Len(b) /\ i <= lo
    BY <1>1, <1>3, <1>4
  <2>2. w[i] = d[i]
    BY <2>1, <1>5
  <2>3. d[i] = a[i]
    BY <2>1, <1>4
  <2>4. QED
    BY <2>2, <2>3, <1>2
<1>8. ASSUME NEW i \in 1 .. Len(b) PROVE w[lo + i] = b[i]
  <2>1. /\ lo + i \in 1 .. lo + Len(b) /\ lo + i \in 1 .. Len(d) + Len(c) /\ lo + i <= Len(d)
        /\ ~(lo + i <= lo) /\ lo + i - lo = i
    BY <1>1, <1>3, <1>4
  <2>2. w[lo + i] = d[lo + i]
    BY <2>1, <1>5
  <2>3. d[lo + i] = b[i]
    BY <2>1, <1>4
  <2>4. QED
    BY <2>2, <2>3
<1>9. ASSUME NEW i \in lo + 1 .. Len(s) PROVE w[i + Len(b)] = s[i]
  <2>1. /\ i + Len(b) \in 1 .. Len(d) + Len(c) /\ ~(i + Len(b) <= Len(d))
        /\ i + Len(b) - Len(d) = i - lo /\ i - lo \in 1 .. Len(s) - lo /\ lo + (i - lo) = i
    BY <1>1, <1>3, <1>4
  <2>2. w[i + Len(b)] = c[i + Len(b) - Len(d)]
    <3> DEFINE j == i + Len(b)
    <3>1. j \in 1 .. Len(d) + Len(c) /\ ~(j <= Len(d))
      BY <2>1
    <3> HIDE DEF j
    <3>2. w[j] = c[j - Len(d)]
      BY <3>1, <1>5
    <3>3. QED
      BY <3>2 DEF j
  <2>3. c[i - lo] = s[i]
    <3>1. c[i - lo] = s[lo + (i - lo)]
      BY <2>1, <1>3
    <3>2. QED
      BY <3>1, <2>1
  <2>4. QED
    BY <2>1, <2>2, <2>3
<1>10. Len(w) = Len(s) + Len(b)
  BY <1>1, <1>3, <1>4, <1>5
<1>11. QED
  BY <1>5, <1>6, <1>7, <1>8, <1>9, <1>10 DEF Spliced

LEMMA Range2Facts ==
  ASSUME NEW S, NEW s \in Seq(S), NEW lo \in Nat, NEW hi \in Nat, lo <= hi, hi < Len(s)
  PROVE  /\ Range2(s, lo, hi) \in Seq(S) /\ Len(Range2(s, lo, hi)) = hi - lo + 1
         /\ \A i \in 1 .. hi - lo + 1 : Range2(s, lo, hi)[i] = s[lo + i]
<1>1. Len(s) \in Nat /\ \A i \in 1 .. Len(s) : s[i] \in S
  BY LenProperties, ElementOfSeq
<1>2. \A i \in lo + 1 .. hi + 1 : s[i] \in S
  BY <1>1
<1>3. /\ SubSeq(s, lo + 1, hi + 1) \in Seq(S)
      /\ Len(SubSeq(s, lo + 1, hi + 1)) = IF lo + 1 <= hi + 1 THEN hi + 1 - (lo + 1) + 1 ELSE 0
      /\ \A i \in 1 .. hi + 1 - (lo + 1) + 1 : SubSeq(s, lo + 1, hi + 1)[i] = s[lo + 1 + i - 1]
  BY <1>2, SubSeqProperties
<1>4. QED
  BY <1>3 DEF Range2

\* The rows of an event are those that were put in.
LEMMA BatchShown ==
  ASSUME NEW S, NEW s \in Seq(S), NEW b \in Seq(S), NEW lo \in Nat, NEW hi \in Nat,
         lo <= hi, lo <= Len(s), Len(b) = hi - lo + 1
  PROVE  Range2(With(s, lo, b), lo, hi) = b
<1> DEFINE w == With(s, lo, b)
<1>1. Len(s) \in Nat /\ Len(b) \in Nat
  BY LenProperties
<1>2. w \in Seq(S) /\ Spliced(w, s, lo, b)
  BY WithFacts
<1> HIDE DEF w
<1>3. /\ Range2(w, lo, hi) \in Seq(S) /\ Len(Range2(w, lo, hi)) = hi - lo + 1
      /\ \A i \in 1 .. hi - lo + 1 : Range2(w, lo, hi)[i] = w[lo + i]
  <2>1. hi < Len(w)
    BY <1>1, <1>2 DEF Spliced
  <2>2. QED
    BY <2>1, <1>2, Range2Facts
<1> DEFINE v == Range2(w, lo, hi)
<1> HIDE DEF v
<1>4. \A i \in 1 .. Len(v) : v[i] = b[i]
  <2>1. Len(v) = Len(b) /\ \A i \in 1 .. Len(b) : v[i] = w[lo + i]
    BY <1>3 DEF v
  <2>2. SUFFICES ASSUME NEW i \in 1 .. Len(b) PROVE v[i] = b[i]
    BY <2>1
  <2>3. w[lo + i] = b[i]
    BY <1>2 DEF Spliced
  <2>4. QED
    BY <2>1, <2>3
<1>5. v = b
  <2>1. v \in Seq(S) /\ Len(v) = Len(b)
    BY <1>3 DEF v
  <2>2. QED
    BY <2>1, <1>4, SeqEqual
<1>6. QED
  BY <1>5 DEF v, w

\* One more at the end of a list changes no range before it.
LEMMA RangeBefore ==
  ASSUME NEW S, NEW s \in Seq(S), NEW x \in S, NEW lo \in Nat, NEW hi \in Nat, lo <= hi, hi < Len(s)
  PROVE  Range2(Append(s, x), lo, hi) = Range2(s, lo, hi)
<1> DEFINE a == Append(s, x)
           u == Range2(a, lo, hi)
           v == Range2(s, lo, hi)
<1>1. Len(s) \in Nat
  BY LenProperties
<1>2. a \in Seq(S) /\ Len(a) = Len(s) + 1 /\ \A i \in 1 .. Len(s) : a[i] = s[i]
  BY AppendProperties
<1> HIDE DEF a
<1>3. hi < Len(a)
  BY <1>1, <1>2
<1>4. /\ u \in Seq(S) /\ Len(u) = hi - lo + 1
      /\ \A i \in 1 .. hi - lo + 1 : u[i] = a[lo + i]
  BY <1>2, <1>3, Range2Facts
<1>5. /\ v \in Seq(S) /\ Len(v) = hi - lo + 1
      /\ \A i \in 1 .. hi - lo + 1 : v[i] = s[lo + i]
  BY Range2Facts
<1> HIDE DEF u, v
<1>6. ASSUME NEW i \in 1 .. Len(u) PROVE u[i] = v[i]
  <2>1. i \in 1 .. hi - lo + 1 /\ lo + i \in 1 .. Len(s)
    BY <1>1, <1>4
  <2>2. a[lo + i] = s[lo + i]
    BY <2>1, <1>2
  <2>3. QED
    BY <2>1, <2>2, <1>4, <1>5
<1>7. u = v
  BY <1>4, <1>5, <1>6, SeqEqual
<1>8. QED
  BY <1>7 DEF u, v, a

LEMMA WithoutBefore ==
  ASSUME NEW S, NEW s \in Seq(S), NEW x \in S, NEW lo \in Nat, NEW hi \in Nat, lo <= hi, hi < Len(s)
  PROVE  Without(Append(s, x), lo, hi) = Append(Without(s, lo, hi), x)
<1> DEFINE a == Append(s, x)
           u == Without(a, lo, hi)
           v == Without(s, lo, hi)
           b == Append(v, x)
           k == hi - lo + 1
<1>1. Len(s) \in Nat
  BY LenProperties
<1>2. a \in Seq(S) /\ Len(a) = Len(s) + 1 /\ (\A i \in 1 .. Len(s) : a[i] = s[i]) /\ a[Len(s) + 1] = x
  BY AppendProperties
<1> HIDE DEF a
<1>3. hi < Len(a)
  BY <1>1, <1>2
<1>4. u \in Seq(S) /\ LeftOut(u, a, lo, hi)
  BY <1>2, <1>3, WithoutFacts
<1>5. v \in Seq(S) /\ LeftOut(v, s, lo, hi)
  BY WithoutFacts
<1> HIDE DEF u, v
<1>6. b \in Seq(S) /\ Len(b) = Len(v) + 1 /\ (\A i \in 1 .. Len(v) : b[i] = v[i]) /\ b[Len(v) + 1] = x
  BY <1>5, AppendProperties
<1> HIDE DEF b
<1>7. Len(v) = Len(s) - k /\ Len(u) = Len(s) + 1 - k /\ k \in Nat /\ k >= 1
  BY <1>1, <1>2, <1>4, <1>5 DEF LeftOut
<1>8. /\ \A i \in 1 .. Len(s) + 1 - k : u[i] = IF i <= lo THEN a[i] ELSE a[i + k]
      /\ \A i \in 1 .. Len(s) - k : v[i] = IF i <= lo THEN s[i] ELSE s[i + k]
  BY <1>2, <1>4, <1>5 DEF LeftOut
<1> HIDE DEF k
<1>9. ASSUME NEW i \in 1 .. Len(u) PROVE u[i] = b[i]
  <2>1. CASE i <= Len(s) - k
    <3>1. i \in 1 .. Len(s) - k /\ i \in 1 .. Len(v) /\ i \in 1 .. Len(s) + 1 - k
      BY <2>1, <1>1, <1>7
    <3>2. b[i] = v[i]
      BY <3>1, <1>6
    <3>3. CASE i <= lo
      <4>1. i \in 1 .. Len(s) /\ a[i] = s[i]
        BY <3>1, <1>1, <1>2, <1>7
      <4>2. QED
        BY <3>1, <3>2, <3>3, <4>1, <1>8
    <3>4. CASE ~(i <= lo)
      <4>1. i + k \in 1 .. Len(s)
        BY <3>1, <1>1, <1>7
      <4>2. a[i + k] = s[i + k]
        BY <4>1, <1>2
      <4>3. QED
        BY <3>1, <3>2, <3>4, <4>2, <1>8
    <3>5. QED
      BY <3>3, <3>4
  <2>2. CASE ~(i <= Len(s) - k)
    <3>1. i = Len(s) - k + 1 /\ i + k = Len(s) + 1 /\ i = Len(v) + 1 /\ i \in 1 .. Len(s) + 1 - k
      BY <2>2, <1>1, <1>7
    <3>2. ~(i <= lo)
      BY <3>1, <1>1, <1>7 DEF k
    <3>3. u[i] = a[i + k]
      BY <3>1, <3>2, <1>8
    <3>4. QED
      BY <3>1, <3>3, <1>2, <1>6
  <2>3. QED
    BY <2>1, <2>2
<1>10. u = b
  <2>1. Len(u) = Len(b)
    BY <1>1, <1>6, <1>7
  <2>2. QED
    BY <2>1, <1>4, <1>6, <1>9, SeqEqual
<1>11. QED
  BY <1>10 DEF u, b, v, a

LEMMA WithBefore ==
  ASSUME NEW S, NEW s \in Seq(S), NEW x \in S, NEW b \in Seq(S), NEW lo \in Nat, lo <= Len(s)
  PROVE  With(Append(s, x), lo, b) = Append(With(s, lo, b), x)
<1> DEFINE a == Append(s, x)
           u == With(a, lo, b)
           v == With(s, lo, b)
           c == Append(v, x)
<1>1. Len(s) \in Nat /\ Len(b) \in Nat
  BY LenProperties
<1>2. a \in Seq(S) /\ Len(a) = Len(s) + 1 /\ (\A i \in 1 .. Len(s) : a[i] = s[i]) /\ a[Len(s) + 1] = x
  BY AppendProperties
<1> HIDE DEF a
<1>3. lo <= Len(a)
  BY <1>1, <1>2
<1>4. u \in Seq(S) /\ Spliced(u, a, lo, b)
  BY <1>2, <1>3, WithFacts
<1>5. v \in Seq(S) /\ Spliced(v, s, lo, b)
  BY WithFacts
<1> HIDE DEF u, v
<1>6. c \in Seq(S) /\ Len(c) = Len(v) + 1 /\ (\A i \in 1 .. Len(v) : c[i] = v[i]) /\ c[Len(v) + 1] = x
  BY <1>5, AppendProperties
<1> HIDE DEF c
<1>7. Len(v) = Len(s) + Len(b) /\ Len(u) = Len(s) + 1 + Len(b)
  BY <1>1, <1>2, <1>4, <1>5 DEF Spliced
<1>8. ASSUME NEW i \in 1 .. Len(u) PROVE u[i] = c[i]
  <2>1. CASE i <= lo
    <3>1. i \in 1 .. lo /\ i \in 1 .. Len(s) /\ i \in 1 .. Len(v)
      BY <2>1, <1>1, <1>7
    <3>2. u[i] = a[i] /\ v[i] = s[i]
      BY <3>1, <1>4, <1>5 DEF Spliced
    <3>3. QED
      BY <3>1, <3>2, <1>2, <1>6
  <2>2. CASE lo < i /\ i <= lo + Len(b)
    <3> DEFINE j == i - lo
    <3>1. j \in 1 .. Len(b) /\ lo + j = i /\ i \in 1 .. Len(v)
      BY <2>2, <1>1, <1>7
    <3> HIDE DEF j
    <3>2. u[lo + j] = b[j] /\ v[lo + j] = b[j]
      BY <3>1, <1>4, <1>5 DEF Spliced
    <3>3. QED
      BY <3>1, <3>2, <1>6
  <2>3. CASE lo + Len(b) < i
    <3> DEFINE j == i - Len(b)
    <3>1. j \in lo + 1 .. Len(a) /\ j + Len(b) = i
      BY <2>3, <1>1, <1>2, <1>7
    <3>2. j \in 1 .. Len(s) + 1 /\ (j # Len(s) + 1 => j \in lo + 1 .. Len(s) /\ j \in 1 .. Len(s) /\ i \in 1 .. Len(v))
          /\ (j = Len(s) + 1 => i = Len(v) + 1)
      BY <2>3, <1>1, <1>2, <1>7
    <3> HIDE DEF j
    <3>3. u[j + Len(b)] = a[j]
      BY <3>1, <1>4 DEF Spliced
    <3>4. CASE j = Len(s) + 1
      BY <3>1, <3>2, <3>3, <3>4, <1>2, <1>6
    <3>5. CASE j # Len(s) + 1
      <4>1. v[j + Len(b)] = s[j]
        BY <3>2, <3>5, <1>5 DEF Spliced
      <4>2. QED
        BY <4>1, <3>1, <3>2, <3>3, <3>5, <1>2, <1>6
    <3>6. QED
      BY <3>4, <3>5
  <2>4. QED
    BY <2>1, <2>2, <2>3, <1>1
<1>9. u = c
  <2>1. Len(u) = Len(c)
    BY <1>1, <1>6, <1>7
  <2>2. QED
    BY <2>1, <1>4, <1>6, <1>8, SeqEqual
<1>10. QED
  BY <1>9 DEF u, c, v, a

-----------------------------------------------------------------------------
(* Runs of numbers                                                           *)

IsLastRun(b, D) ==
  \E lo, hi \in D :
    /\ b = << lo, hi >> /\ lo <= hi /\ lo .. hi \subseteq D
    /\ \A i \in D : i <= hi /\ (i \notin lo .. hi => i < lo)

IsFirstRun(b, D) ==
  \E lo, hi \in D :
    /\ b = << lo, hi >> /\ lo <= hi /\ lo .. hi \subseteq D
    /\ hi + 1 \notin D /\ \A i \in D : lo <= i

IsRun(b, D) ==
  \E x, y \in D :
    b = << x, y >> /\ x <= y /\ x .. y \subseteq D /\ x - 1 \notin D /\ y + 1 \notin D

LEMMA RunsAreRuns ==
  ASSUME NEW D, NEW b, b \in RunsOf(D)
  PROVE  IsRun(b, D)
<1>1. b \in D \X D
  BY DEF RunsOf
<1>2. b = << b[1], b[2] >> /\ b[1] \in D /\ b[2] \in D
  BY <1>1
<1>3. b[1] <= b[2] /\ b[1] .. b[2] \subseteq D /\ b[1] - 1 \notin D /\ b[2] + 1 \notin D
  BY DEF RunsOf
<1>4. QED
  BY <1>2, <1>3 DEF IsRun

LEMMA LastRunFacts ==
  ASSUME NEW n \in Nat, NEW D \in SUBSET (0 .. n), D # {}
  PROVE  IsLastRun(LastRun(D), D)
<1>1. PICK hi \in D : \A i \in D : i <= hi
  BY LargestNumber
<1> DEFINE B == {i \in D : i .. hi \subseteq D}
<1>2. B \in SUBSET Nat /\ hi \in B
  <2>1. hi \in Nat /\ hi .. hi = {hi}
    OBVIOUS
  <2>2. hi .. hi \subseteq D
    BY <2>1
  <2>3. D \in SUBSET Nat
    OBVIOUS
  <2>4. QED
    BY <2>2, <2>3
<1>3. PICK lo \in B : \A i \in B : lo <= i
  BY <1>2, SmallestNumber
<1>4. lo - 1 \notin D
  <2>1. SUFFICES ASSUME lo - 1 \in D PROVE FALSE
    OBVIOUS
  <2>2. lo - 1 .. hi \subseteq D
    <3>1. lo .. hi \subseteq D /\ lo \in Nat /\ hi \in Nat
      BY <1>3
    <3>2. QED
      BY <3>1, <2>1
  <2>3. lo - 1 \in B
    BY <2>1, <2>2
  <2>4. QED
    BY <2>3, <1>3
<1>5. hi + 1 \notin D
  BY <1>1
<1>6. lo <= hi
  BY <1>2, <1>3
<1>7. << lo, hi >> \in RunsOf(D) /\ \A i \in D : i <= << lo, hi >>[2]
  BY <1>1, <1>3, <1>4, <1>5, <1>6 DEF RunsOf
<1>8. LastRun(D) \in RunsOf(D) /\ \A i \in D : i <= LastRun(D)[2]
  BY <1>7 DEF LastRun
<1>9. PICK x \in D, y \in D : LastRun(D) = << x, y >> /\ x <= y /\ x .. y \subseteq D
  <2>1. IsRun(LastRun(D), D)
    BY <1>8, RunsAreRuns
  <2>2. QED
    BY <2>1 DEF IsRun
<1>10. \A i \in D : i <= y
  BY <1>8, <1>9
<1>11. ASSUME NEW i \in D, i \notin x .. y PROVE i < x
  BY <1>10, <1>11
<1>12. QED
  BY <1>9, <1>10, <1>11 DEF IsLastRun

LEMMA FirstRunFacts ==
  ASSUME NEW n \in Nat, NEW D \in SUBSET (0 .. n), D # {}
  PROVE  IsFirstRun(FirstRun(D), D)
<1>1. PICK lo \in D : \A i \in D : lo <= i
  BY SmallestNumber
<1> DEFINE B == {i \in D : lo .. i \subseteq D}
<1>2. B \in SUBSET (0 .. n) /\ lo \in B
  <2>1. lo \in Nat /\ lo .. lo = {lo}
    OBVIOUS
  <2>2. lo .. lo \subseteq D
    BY <2>1
  <2>3. D \in SUBSET Nat
    OBVIOUS
  <2>4. QED
    BY <2>2, <2>3
<1>3. PICK hi \in B : \A i \in B : i <= hi
  BY <1>2, LargestNumber
<1>4. hi + 1 \notin D
  <2>1. SUFFICES ASSUME hi + 1 \in D PROVE FALSE
    OBVIOUS
  <2>2. lo .. hi + 1 \subseteq D
    <3>1. lo .. hi \subseteq D /\ lo \in Nat /\ hi \in Nat
      BY <1>3
    <3>2. QED
      BY <3>1, <2>1
  <2>3. hi + 1 \in B
    BY <2>1, <2>2
  <2>4. QED
    BY <2>3, <1>3
<1>5. lo - 1 \notin D
  BY <1>1
<1>6. lo <= hi
  BY <1>2, <1>3
<1>7. << lo, hi >> \in RunsOf(D) /\ \A i \in D : << lo, hi >>[1] <= i
  BY <1>1, <1>3, <1>4, <1>5, <1>6 DEF RunsOf
<1>8. FirstRun(D) \in RunsOf(D) /\ \A i \in D : FirstRun(D)[1] <= i
  BY <1>7 DEF FirstRun
<1>9. PICK x \in D, y \in D : FirstRun(D) = << x, y >> /\ x <= y /\ x .. y \subseteq D /\ y + 1 \notin D
  <2>1. IsRun(FirstRun(D), D)
    BY <1>8, RunsAreRuns
  <2>2. QED
    BY <2>1 DEF IsRun
<1>10. \A i \in D : x <= i
  BY <1>8, <1>9
<1>11. QED
  BY <1>9, <1>10 DEF IsFirstRun

-----------------------------------------------------------------------------
(* The inductive invariant                                                   *)
(*                                                                           *)
(* What is said of a frame takes as parameters the rows of its parent and    *)
(* the resources whose phrase is built.                                      *)

Items(p) == IF p = Root THEN Rsrcs ELSE Parts

EventTypes == ABOUT \cup {"removed", "inserted", "told", "check"}
Events     == [type : EventTypes, at : Parents, lo : Nat, hi : Nat]

UpdateFrames ==
  [kind : {"update"}, parent : Parents, goal : Seq(Rsrcs \cup Parts), keeps : BOOLEAN,
   onePlace : BOOLEAN, unused : SUBSET Nat, insert : SUBSET Nat, todo : Seq(Events),
   cursor : Handles \cup {-1}, calling : BOOLEAN]

\* The batch that is announced and not carried out yet.
Taken(f, type) ==
  IF f.todo # << >> /\ Head(f.todo).type = type
  THEN Head(f.todo).lo .. Head(f.todo).hi ELSE {}

\* Rows that are left to remove are those that are not asked for, and rows left
\* to insert are missing; if they are in one place, no other is.
WorkKnown(f, R, unused, insert) ==
  /\ unused = Unused(R, f.goal)
  /\ insert \subseteq Fresh(R, f.goal)
  /\ f.onePlace => insert = Fresh(R, f.goal) /\ InOnePlace(Fresh(R, f.goal))
  /\ f.keeps /\ f.onePlace => KeepsOrder(R, f.goal)

\* An update stands before or after one of its changes, or checks the new rows.
Ended(f) == f.todo = << >> /\ f.unused = {} /\ f.insert = {}

Removing(f) ==
  \E lo, hi \in Nat :
    /\ lo <= hi /\ \A i \in f.unused : i < lo
    /\ f.todo = Pair(f, << lo, hi >>, "aboutRemove", "removed")

Removed(f) ==
  \E lo, hi \in Nat : lo <= hi /\ f.todo = << Event("removed", f.parent, lo, hi) >>

Inserting(f) ==
  /\ f.unused = {}
  /\ f.onePlace => f.insert = {}
  /\ \E lo, hi \in Nat :
       /\ lo <= hi /\ f.insert \cap (lo .. hi) = {}
       /\ f.todo = Pair(f, << lo, hi >>, "aboutInsert", "inserted")

NewRows(f, R, bs, lo, hi) ==
  f.parent = Root => \A i \in lo .. hi : i < Len(R) /\ R[i + 1] \in Rsrcs \ bs

PutIn(f, R, bs) ==
  /\ f.unused = {}
  /\ \E lo, hi \in Nat :
       /\ lo <= hi /\ f.todo = << Event("inserted", f.parent, lo, hi) >>
       /\ NewRows(f, R, bs, lo, hi)

Checking(f, bs) ==
  /\ f.unused = {} /\ f.todo # << >>
  /\ \A i \in 1 .. Len(f.todo) : f.todo[i].type = "check" /\ f.todo[i].at \in Rsrcs \ bs

Shaped(f, R, bs) ==
  Ended(f) \/ Removing(f) \/ Removed(f) \/ Inserting(f) \/ PutIn(f, R, bs) \/ Checking(f, bs)

UpdateGood(f, R, bs) ==
  /\ f \in UpdateFrames
  /\ f.goal \in ListOf(Items(f.parent))
  /\ WorkKnown(f, R, f.unused \cup Taken(f, "aboutRemove"), f.insert \cup Taken(f, "aboutInsert"))
  /\ Shaped(f, R, bs)
  /\ f.calling => f.todo # << >> /\ Head(f.todo).type # "check"

-----------------------------------------------------------------------------
(* What updateChildren() works out                                           *)

LEMMA WorkFacts ==
  ASSUME NEW S, NEW R \in ListOf(S), NEW G \in ListOf(S)
  PROVE  /\ Unused(R, G) \in SUBSET (0 .. Len(R)) /\ Fresh(R, G) \in SUBSET (0 .. Len(G))
         /\ \A i : i \in Unused(R, G) <=>
              i \in Nat /\ i < Len(R) /\ \A j \in 1 .. Len(G) : G[j] # R[i + 1]
         /\ \A i : i \in Fresh(R, G) <=>
              i \in Nat /\ i < Len(G) /\ \A j \in 1 .. Len(R) : R[j] # G[i + 1]
<1>1. /\ R \in Seq(S) /\ Len(R) \in Nat
      /\ G \in Seq(S) /\ Len(G) \in Nat
  BY ListFacts
<1>2. /\ \A x : x \in ToSet(R) <=> \E j \in 1 .. Len(R) : R[j] = x
      /\ \A x : x \in ToSet(G) <=> \E j \in 1 .. Len(G) : G[j] = x
  BY <1>1, MemberOfList
<1>3. \A i : i \in Unused(R, G) <=> i \in Nat /\ i < Len(R) /\ R[i + 1] \notin ToSet(G)
  BY <1>1 DEF Unused
<1>4. \A i : i \in Fresh(R, G) <=> i \in Nat /\ i < Len(G) /\ G[i + 1] \notin ToSet(R)
  BY <1>1 DEF Fresh
<1>5. Unused(R, G) \subseteq 0 .. Len(R) /\ Fresh(R, G) \subseteq 0 .. Len(G)
  <2>1. ASSUME NEW i \in Unused(R, G) PROVE i \in 0 .. Len(R)
    BY <1>1, <1>3
  <2>2. ASSUME NEW i \in Fresh(R, G) PROVE i \in 0 .. Len(G)
    BY <1>1, <1>4
  <2>3. QED
    BY <2>1, <2>2
<1>6. ASSUME NEW i
      PROVE  i \in Unused(R, G) <=> i \in Nat /\ i < Len(R) /\ \A j \in 1 .. Len(G) : G[j] # R[i + 1]
  <2>1. R[i + 1] \in ToSet(G) <=> \E j \in 1 .. Len(G) : G[j] = R[i + 1]
    BY <1>2
  <2>2. i \in Unused(R, G) <=> i \in Nat /\ i < Len(R) /\ R[i + 1] \notin ToSet(G)
    BY <1>3
  <2>3. QED
    BY <2>1, <2>2
<1>7. ASSUME NEW i
      PROVE  i \in Fresh(R, G) <=> i \in Nat /\ i < Len(G) /\ \A j \in 1 .. Len(R) : R[j] # G[i + 1]
  <2>1. G[i + 1] \in ToSet(R) <=> \E j \in 1 .. Len(R) : R[j] = G[i + 1]
    BY <1>2
  <2>2. i \in Fresh(R, G) <=> i \in Nat /\ i < Len(G) /\ G[i + 1] \notin ToSet(R)
    BY <1>4
  <2>3. QED
    BY <2>1, <2>2
<1>8. QED
  BY <1>5, <1>6, <1>7

LEMMA EventTyped ==
  ASSUME NEW t \in EventTypes, NEW p \in Parents, NEW lo \in Nat, NEW hi \in Nat
  PROVE  Event(t, p, lo, hi) \in Events
BY DEF Event, Events

LEMMA FrameFields ==
  ASSUME NEW f \in UpdateFrames
  PROVE  /\ f.parent \in Parents /\ f.goal \in Seq(Rsrcs \cup Parts)
         /\ f.unused \in SUBSET Nat /\ f.insert \in SUBSET Nat /\ f.todo \in Seq(Events)
         /\ f.cursor \in Handles \cup {-1} /\ f.calling \in BOOLEAN
BY DEF UpdateFrames

\* The loops take up a batch: what it takes and what they leave is what there
\* was, but for rows that get lost.
LEMMA NextBatchKeeps ==
  ASSUME NEW f \in UpdateFrames, NEW R \in ListOf(Items(f.parent)), NEW bs,
         f.goal \in ListOf(Items(f.parent)), f.todo = << >>, f.calling = FALSE,
         WorkKnown(f, R, f.unused, f.insert)
  PROVE  /\ UpdateGood(NextBatch(f), R, bs)
         /\ NextBatch(f).parent = f.parent /\ NextBatch(f).goal = f.goal
         /\ NextBatch(f).onePlace = f.onePlace /\ NextBatch(f).keeps = f.keeps
         /\ NextBatch(f).calling = FALSE
         /\ NextBatch(f).todo = << >> \/ Head(NextBatch(f).todo).type \in {"aboutRemove", "aboutInsert"}
<1> DEFINE g == NextBatch(f)
           last == LastRun(f.unused)
           first == FirstRun(f.insert)
<1>1. /\ f.unused \in SUBSET (0 .. Len(R)) /\ f.insert \in SUBSET (0 .. Len(f.goal))
      /\ Len(R) \in Nat /\ Len(f.goal) \in Nat
  BY WorkFacts, ListFacts DEF WorkKnown
<1>2. CASE f.unused # {}
  <2>1. PICK lo \in f.unused, hi \in f.unused :
          /\ last = << lo, hi >> /\ lo <= hi /\ lo .. hi \subseteq f.unused
          /\ \A i \in f.unused : i <= hi /\ (i \notin lo .. hi => i < lo)
    <3>1. IsLastRun(LastRun(f.unused), f.unused)
      BY <1>1, <1>2, LastRunFacts
    <3>2. QED
      BY <3>1 DEF IsLastRun
  <2>2. f.unused \in SUBSET Nat
    BY <1>1
  <2>3. lo \in Nat /\ hi \in Nat
    BY <2>2
  <2>4. \A i \in f.unused \ (lo .. hi) : i < lo
    BY <2>1
  <2> DEFINE U == f.unused \ (lo .. hi)
             e1 == Event("aboutRemove", f.parent, lo, hi)
             e2 == Event("removed", f.parent, lo, hi)
  <2>5. g = [f EXCEPT !.unused = U, !.todo = << e1, e2 >>]
    BY <1>2, <2>1 DEF NextBatch, Pair
  <2>6. e1 \in Events /\ e2 \in Events
    <3>1. f.parent \in Parents
      BY FrameFields
    <3>2. QED
      BY <2>3, <3>1, EventTyped DEF EventTypes, ABOUT
  <2>7. e1.type = "aboutRemove" /\ e1.lo = lo /\ e1.hi = hi
    BY DEF Event
  <2> HIDE DEF last, U, e1, e2, g
  <2>8. U \in SUBSET Nat
    BY <2>2 DEF U
  <2>9. << e1, e2 >> \in Seq(Events) /\ << e1, e2 >> # << >> /\ Head(<< e1, e2 >>) = e1
    BY <2>6
  <2>10. /\ g \in UpdateFrames /\ g.parent = f.parent /\ g.goal = f.goal /\ g.onePlace = f.onePlace
         /\ g.keeps = f.keeps /\ g.calling = FALSE /\ g.unused = U /\ g.insert = f.insert
         /\ g.todo = << e1, e2 >>
    BY <2>5, <2>8, <2>9 DEF UpdateFrames
  <2>11. Taken(g, "aboutRemove") = lo .. hi /\ Taken(g, "aboutInsert") = {}
    BY <2>7, <2>9, <2>10 DEF Taken
  <2>12. WorkKnown(g, R, U \cup Taken(g, "aboutRemove"), f.insert \cup Taken(g, "aboutInsert"))
    <3>1. U \cup Taken(g, "aboutRemove") = f.unused /\ f.insert \cup Taken(g, "aboutInsert") = f.insert
      BY <2>1, <2>11 DEF U
    <3>2. QED
      BY <3>1, <2>10 DEF WorkKnown
  <2>13. Removing(g)
    BY <2>1, <2>3, <2>4, <2>10 DEF Removing, Pair, U, e1, e2
  <2>14. UpdateGood(g, R, bs)
    BY <2>10, <2>12, <2>13, <2>9 DEF UpdateGood, Shaped
  <2>15. QED
    BY <2>7, <2>9, <2>10, <2>14 DEF g
<1>3. CASE f.unused = {} /\ f.insert # {}
  <2>1. PICK lo \in f.insert, hi \in f.insert :
          /\ first = << lo, hi >> /\ lo <= hi /\ lo .. hi \subseteq f.insert
          /\ hi + 1 \notin f.insert /\ \A i \in f.insert : lo <= i
    <3>1. IsFirstRun(FirstRun(f.insert), f.insert)
      BY <1>1, <1>3, FirstRunFacts
    <3>2. QED
      BY <3>1 DEF IsFirstRun
  <2>2. f.insert \in SUBSET Nat
    BY <1>1
  <2>3. lo \in Nat /\ hi \in Nat
    BY <2>2
  <2> DEFINE I == {i \in f.insert : \E j \in f.insert : hi < j /\ j < i}
             e1 == Event("aboutInsert", f.parent, lo, hi)
             e2 == Event("inserted", f.parent, lo, hi)
  <2>5. g = [f EXCEPT !.insert = I, !.todo = << e1, e2 >>]
    BY <1>3, <2>1 DEF NextBatch, Pair
  <2>6. e1 \in Events /\ e2 \in Events
    <3>1. f.parent \in Parents
      BY FrameFields
    <3>2. QED
      BY <2>3, <3>1, EventTyped DEF EventTypes, ABOUT
  <2>7. e1.type = "aboutInsert" /\ e1.lo = lo /\ e1.hi = hi
    BY DEF Event
  <2>8. I \in SUBSET f.insert /\ I \cap (lo .. hi) = {}
    BY <2>1, <2>2, <2>3
  <2>9. InOnePlace(f.insert) => I = {} /\ f.insert = lo .. hi
    <3>1. SUFFICES ASSUME InOnePlace(f.insert) PROVE I = {} /\ f.insert = lo .. hi
      OBVIOUS
    <3>2. ASSUME NEW j \in f.insert, hi < j PROVE FALSE
      <4>1. lo .. j \subseteq f.insert
        BY <3>1, <2>1 DEF InOnePlace
      <4>2. hi + 1 \in lo .. j
        BY <2>1, <2>2, <2>3, <3>2
      <4>3. QED
        BY <4>1, <4>2, <2>1
    <3>3. I = {}
      BY <3>2
    <3>4. \A i \in f.insert : i \in Nat /\ lo <= i /\ i <= hi
      BY <3>2, <2>1, <2>2, <2>3
    <3>5. f.insert = lo .. hi
      <4>1. \A i : i \in lo .. hi <=> i \in Nat /\ lo <= i /\ i <= hi
        BY <2>3
      <4>2. QED
        BY <3>4, <2>1, <4>1
    <3>6. QED
      BY <3>3, <3>5
  <2> HIDE DEF first, I, e1, e2, g
  <2>10. << e1, e2 >> \in Seq(Events) /\ << e1, e2 >> # << >> /\ Head(<< e1, e2 >>) = e1
    BY <2>6
  <2>11. /\ g \in UpdateFrames /\ g.parent = f.parent /\ g.goal = f.goal /\ g.onePlace = f.onePlace
         /\ g.keeps = f.keeps /\ g.calling = FALSE /\ g.unused = f.unused /\ g.insert = I
         /\ g.todo = << e1, e2 >>
    BY <2>5, <2>2, <2>8, <2>10 DEF UpdateFrames
  <2>12. Taken(g, "aboutRemove") = {} /\ Taken(g, "aboutInsert") = lo .. hi
    BY <2>7, <2>10, <2>11 DEF Taken
  <2>13. WorkKnown(g, R, f.unused \cup Taken(g, "aboutRemove"), I \cup Taken(g, "aboutInsert"))
    <3>1. f.unused \cup Taken(g, "aboutRemove") = f.unused
      BY <2>12
    <3>2. I \cup Taken(g, "aboutInsert") \subseteq f.insert
      BY <2>1, <2>8, <2>12
    <3>3. f.onePlace => I \cup Taken(g, "aboutInsert") = f.insert
      BY <2>9, <2>12 DEF WorkKnown
    <3>4. QED
      BY <3>1, <3>2, <3>3, <2>11 DEF WorkKnown
  <2>14. Inserting(g)
    <3>1. g.unused = {} /\ (g.onePlace => g.insert = {})
      BY <1>3, <2>9, <2>11 DEF WorkKnown
    <3>2. g.todo = Pair(g, << lo, hi >>, "aboutInsert", "inserted")
      BY <2>11 DEF Pair, e1, e2
    <3>3. QED
      BY <3>1, <3>2, <2>1, <2>3, <2>8, <2>11 DEF Inserting
  <2>15. UpdateGood(g, R, bs)
    BY <2>10, <2>11, <2>13, <2>14 DEF UpdateGood, Shaped
  <2>16. QED
    BY <2>7, <2>10, <2>11, <2>15 DEF g
<1>4. CASE f.unused = {} /\ f.insert = {}
  <2>1. g = f
    BY <1>4 DEF NextBatch
  <2>2. Taken(f, "aboutRemove") = {} /\ Taken(f, "aboutInsert") = {}
    BY DEF Taken
  <2>3. UpdateGood(f, R, bs)
    BY <2>2, <1>4 DEF UpdateGood, Shaped, Ended, WorkKnown
  <2>4. QED
    BY <2>1, <2>3
<1>5. QED
  BY <1>2, <1>3, <1>4

-----------------------------------------------------------------------------
(* One event after the other                                                 *)

\* The frame past its first event, with more events before the rest.
Stepped(f, more) ==
  LET next == [f EXCEPT !.todo = more \o Tail(@), !.cursor = -1]
  IN  IF next.todo = << >> THEN NextBatch(next) ELSE next

\* What a step within an update leaves alone.
SameUpdate(g, f) ==
  /\ g.parent = f.parent /\ g.goal = f.goal /\ g.onePlace = f.onePlace /\ g.keeps = f.keeps
  /\ g.calling = FALSE

Moved(f, todo, c) == [f EXCEPT !.todo = todo, !.cursor = c]

\* Only the events and the cursor of g differ from those of f.
OnlyMoved(g, f, todo, c) ==
  /\ g.todo = todo /\ g.cursor = c
  /\ g.parent = f.parent /\ g.goal = f.goal /\ g.onePlace = f.onePlace
  /\ g.keeps = f.keeps /\ g.calling = f.calling
  /\ g.unused = f.unused /\ g.insert = f.insert

LEMMA FrameMoves ==
  ASSUME NEW f \in UpdateFrames, NEW todo \in Seq(Events), NEW c \in Handles \cup {-1}
  PROVE  Moved(f, todo, c) \in UpdateFrames /\ OnlyMoved(Moved(f, todo, c), f, todo, c)
BY DEF UpdateFrames, Moved, OnlyMoved

LEMMA PairTodo ==
  ASSUME NEW f \in UpdateFrames, NEW lo \in Nat, NEW hi \in Nat,
         NEW s \in EventTypes, NEW t \in EventTypes,
         f.todo = Pair(f, << lo, hi >>, s, t)
  PROVE  /\ f.todo # << >> /\ Tail(f.todo) = << Event(t, f.parent, lo, hi) >>
         /\ Head(f.todo) = Event(s, f.parent, lo, hi)
         /\ Head(f.todo).type = s /\ Head(f.todo).at = f.parent
         /\ Head(f.todo).lo = lo /\ Head(f.todo).hi = hi
<1>1. f.todo = << Event(s, f.parent, lo, hi), Event(t, f.parent, lo, hi) >>
  BY DEF Pair
<1>2. Event(s, f.parent, lo, hi) \in Events /\ Event(t, f.parent, lo, hi) \in Events
  BY FrameFields, EventTyped
<1> DEFINE a == Event(s, f.parent, lo, hi)
           b == Event(t, f.parent, lo, hi)
<1>3. a.type = s /\ a.at = f.parent /\ a.lo = lo /\ a.hi = hi
  BY DEF Event
<1> HIDE DEF a, b
<1>4. /\ << a, b >> # << >> /\ Head(<< a, b >>) = a /\ Tail(<< a, b >>) = << b >>
  BY <1>2
<1>5. QED
  BY <1>1, <1>3, <1>4 DEF a, b

LEMMA OneTodo ==
  ASSUME NEW f \in UpdateFrames, NEW lo \in Nat, NEW hi \in Nat, NEW s \in EventTypes,
         f.todo = << Event(s, f.parent, lo, hi) >>
  PROVE  /\ f.todo # << >> /\ Tail(f.todo) = << >>
         /\ Head(f.todo) = Event(s, f.parent, lo, hi)
         /\ Head(f.todo).type = s /\ Head(f.todo).at = f.parent
         /\ Head(f.todo).lo = lo /\ Head(f.todo).hi = hi
<1>1. Event(s, f.parent, lo, hi) \in Events
  BY FrameFields, EventTyped
<1> DEFINE a == Event(s, f.parent, lo, hi)
<1>2. a.type = s /\ a.at = f.parent /\ a.lo = lo /\ a.hi = hi
  BY DEF Event
<1> HIDE DEF a
<1>3. /\ << a >> # << >> /\ Head(<< a >>) = a /\ Tail(<< a >>) = << >>
  BY <1>1
<1>4. QED
  BY <1>2, <1>3 DEF a

\* The type of the first event tells where an update stands.
LEMMA PhaseFacts ==
  ASSUME NEW f \in UpdateFrames, NEW R, NEW bs, Shaped(f, R, bs), f.todo # << >>
  PROVE  /\ Head(f.todo).type = "aboutRemove" <=> Removing(f)
         /\ Head(f.todo).type = "removed"     <=> Removed(f)
         /\ Head(f.todo).type = "aboutInsert" <=> Inserting(f)
         /\ Head(f.todo).type = "inserted"    <=> PutIn(f, R, bs)
         /\ Head(f.todo).type = "check"       <=> Checking(f, bs)
         /\ Head(f.todo).type \in {"aboutRemove", "removed", "aboutInsert", "inserted", "check"}
<1>1. /\ "aboutRemove" \in EventTypes /\ "removed" \in EventTypes
      /\ "aboutInsert" \in EventTypes /\ "inserted" \in EventTypes
  BY DEF EventTypes, ABOUT
<1>2. Removing(f) => Head(f.todo).type = "aboutRemove"
  <2>1. SUFFICES ASSUME NEW lo \in Nat, NEW hi \in Nat,
                        f.todo = Pair(f, << lo, hi >>, "aboutRemove", "removed")
                 PROVE  Head(f.todo).type = "aboutRemove"
    BY DEF Removing
  <2>2. QED
    BY <2>1, <1>1, PairTodo
<1>3. Inserting(f) => Head(f.todo).type = "aboutInsert"
  <2>1. SUFFICES ASSUME NEW lo \in Nat, NEW hi \in Nat,
                        f.todo = Pair(f, << lo, hi >>, "aboutInsert", "inserted")
                 PROVE  Head(f.todo).type = "aboutInsert"
    BY DEF Inserting
  <2>2. QED
    BY <2>1, <1>1, PairTodo
<1>4. Removed(f) => Head(f.todo).type = "removed"
  BY <1>1, OneTodo DEF Removed
<1>5. PutIn(f, R, bs) => Head(f.todo).type = "inserted"
  BY <1>1, OneTodo DEF PutIn
<1>6. Checking(f, bs) => Head(f.todo).type = "check"
  <2>1. f.todo \in Seq(Events)
    BY FrameFields
  <2>2. f.todo # << >> => Head(f.todo) = f.todo[1] /\ 1 \in 1 .. Len(f.todo)
    BY <2>1
  <2>3. QED
    BY <2>2 DEF Checking
<1>7. ~Ended(f)
  BY DEF Ended
<1>8. QED
  BY <1>2, <1>3, <1>4, <1>5, <1>6, <1>7 DEF Shaped

\* An event that is neither followed by another nor about to change rows: the
\* loops take up the next batch.
LEMMA LastEvent ==
  ASSUME NEW f \in UpdateFrames, NEW R \in ListOf(Items(f.parent)), NEW bs,
         UpdateGood(f, R, bs), f.todo # << >>, Tail(f.todo) = << >>, f.calling = FALSE,
         Head(f.todo).type \notin {"aboutRemove", "aboutInsert"}
  PROVE  /\ UpdateGood(Stepped(f, << >>), R, bs) /\ SameUpdate(Stepped(f, << >>), f)
         /\ \/ Stepped(f, << >>).todo = << >>
            \/ Head(Stepped(f, << >>).todo).type \in {"aboutRemove", "aboutInsert"}
<1> DEFINE g == [f EXCEPT !.todo = << >> \o Tail(@), !.cursor = -1]
<1>1. << >> \o Tail(f.todo) = << >>
  OBVIOUS
<1>2. /\ g \in UpdateFrames /\ g.todo = << >> /\ g.parent = f.parent /\ g.goal = f.goal
      /\ g.onePlace = f.onePlace /\ g.keeps = f.keeps /\ g.calling = FALSE
      /\ g.unused = f.unused /\ g.insert = f.insert
  <2>1. << >> \in Seq(Events) /\ -1 \in Handles \cup {-1}
    BY EmptySeq
  <2>2. g = Moved(f, << >>, -1)
    BY <1>1 DEF Moved
  <2> HIDE DEF g
  <2>3. Moved(f, << >>, -1) \in UpdateFrames /\ OnlyMoved(Moved(f, << >>, -1), f, << >>, -1)
    BY <2>1, FrameMoves
  <2>4. QED
    BY <2>2, <2>3 DEF OnlyMoved
<1>3. Taken(f, "aboutRemove") = {} /\ Taken(f, "aboutInsert") = {}
  BY DEF Taken
<1>4. Stepped(f, << >>) = NextBatch(g)
  BY <1>2 DEF Stepped
<1> HIDE DEF g
<1>5. WorkKnown(g, R, g.unused, g.insert)
  BY <1>2, <1>3 DEF UpdateGood, WorkKnown
<1>6. R \in ListOf(Items(g.parent)) /\ g.goal \in ListOf(Items(g.parent))
  BY <1>2 DEF UpdateGood
<1>7. QED
  BY <1>2, <1>4, <1>5, <1>6, NextBatchKeeps DEF SameUpdate

-----------------------------------------------------------------------------
(* Rows go                                                                   *)

\* What R without rows lo .. hi still has, and what it lacks of G.
Erased(Q, R, G, lo, hi, U) ==
  /\ Unused(Q, G) = U /\ Fresh(Q, G) = Fresh(R, G)
  /\ KeepsOrder(R, G) => KeepsOrder(Q, G)
  /\ ToSet(R) \ ToSet(Range2(R, lo, hi)) \subseteq ToSet(Q)
  /\ hi < Len(R)

LEMMA EraseData ==
  ASSUME NEW S, NEW R \in ListOf(S), NEW G \in ListOf(S), NEW lo \in Nat, NEW hi \in Nat, lo <= hi,
         NEW U \in SUBSET Nat, \A i \in U : i < lo, U \cup (lo .. hi) = Unused(R, G)
  PROVE  Without(R, lo, hi) \in ListOf(S) /\ Erased(Without(R, lo, hi), R, G, lo, hi, U)
<1> DEFINE Q == Without(R, lo, hi)
           w == hi - lo + 1
           n == Len(R) - w
           from(i) == IF i <= lo THEN i ELSE i + w
<1>1. /\ R \in Seq(S) /\ Len(R) \in Nat /\ DOMAIN R = 1 .. Len(R)
      /\ \A i, j \in 1 .. Len(R) : R[i] = R[j] => i = j
      /\ G \in Seq(S) /\ Len(G) \in Nat /\ DOMAIN G = 1 .. Len(G)
  BY ListFacts
<1>2. \A i : i \in Unused(R, G) <=>
               i \in Nat /\ i < Len(R) /\ \A j \in 1 .. Len(G) : G[j] # R[i + 1]
  BY WorkFacts
<1>3. \A i : i \in Fresh(R, G) <=>
               i \in Nat /\ i < Len(G) /\ \A j \in 1 .. Len(R) : R[j] # G[i + 1]
  BY WorkFacts
<1>4. hi < Len(R) /\ \A i \in lo .. hi : i \in Unused(R, G)
  <2>1. hi \in lo .. hi
    OBVIOUS
  <2>2. QED
    BY <2>1, <1>2
<1>5. /\ Q \in Seq(S) /\ Len(Q) = n
      /\ \A i \in 1 .. n : Q[i] = IF i <= lo THEN R[i] ELSE R[i + (hi - lo + 1)]
  <2>1. Without(R, lo, hi) \in Seq(S) /\ LeftOut(Without(R, lo, hi), R, lo, hi)
    BY <1>1, <1>4, WithoutFacts
  <2>2. QED
    BY <2>1 DEF LeftOut
<1>6. /\ n \in Nat /\ w \in Nat /\ w > 0 /\ lo <= n
      /\ \A i \in 1 .. n : from(i) \in 1 .. Len(R) /\ from(i) \notin lo + 1 .. hi + 1
      /\ \A i, j \in 1 .. n : (i < j <=> from(i) < from(j)) /\ (from(i) = from(j) => i = j)
  BY <1>1, <1>4
<1>7. \A i \in 1 .. n : Q[i] = R[from(i)]
  BY <1>5, <1>6
<1>8. \A k \in 1 .. Len(R) : k \notin lo + 1 .. hi + 1 => \E i \in 1 .. n : from(i) = k
  <2> TAKE k \in 1 .. Len(R)
  <2>1. CASE k <= lo
    <3>1. k \in 1 .. n /\ from(k) = k
      BY <2>1, <1>6
    <3>2. QED
      BY <3>1
  <2>2. CASE k > hi + 1
    <3>1. k - w \in 1 .. n /\ ~(k - w <= lo) /\ from(k - w) = k
      BY <2>2, <1>1, <1>6
    <3>2. QED
      BY <3>1
  <2>3. QED
    BY <2>1, <2>2
<1>9. Q \in ListOf(S)
  <2> HIDE DEF Q, n, from
  <2>1. DOMAIN Q = 1 .. n
    BY <1>5, LenProperties
  <2>2. QED
    BY <2>1, <1>1, <1>5, <1>6, <1>7 DEF ListOf, IsInjective
<1> HIDE DEF Q, n, w
<1>10. \A i : i \in Unused(Q, G) <=>
                i \in Nat /\ i < n /\ \A j \in 1 .. Len(G) : G[j] # Q[i + 1]
  BY <1>5, <1>9, WorkFacts
<1>11. \A i : i \in Fresh(Q, G) <=>
                i \in Nat /\ i < Len(G) /\ \A j \in 1 .. n : Q[j] # G[i + 1]
  BY <1>5, <1>9, WorkFacts
<1>12. Unused(Q, G) \subseteq U
  <2> SUFFICES ASSUME NEW i \in Unused(Q, G) PROVE i \in U
    OBVIOUS
  <2>1. i \in Nat /\ i + 1 \in 1 .. n /\ \A j \in 1 .. Len(G) : G[j] # Q[i + 1]
    BY <1>6, <1>10
  <2>2. from(i + 1) - 1 \in Nat /\ from(i + 1) - 1 < Len(R) /\ from(i + 1) - 1 \notin lo .. hi
    BY <2>1, <1>1, <1>6
  <2>3. R[from(i + 1) - 1 + 1] = Q[i + 1]
    <3>1. from(i + 1) - 1 + 1 = from(i + 1)
      BY <2>1, <1>6
    <3>2. Q[i + 1] = R[from(i + 1)]
      BY <2>1, <1>7
    <3> HIDE DEF from
    <3>3. QED
      BY <3>1, <3>2
  <2>4. from(i + 1) - 1 \in Unused(R, G)
    BY <2>1, <2>2, <2>3, <1>2
  <2>5. from(i + 1) - 1 \in U
    BY <2>2, <2>4
  <2>6. QED
    BY <2>1, <2>5, <1>6
<1>13. U \subseteq Unused(Q, G)
  <2> SUFFICES ASSUME NEW i \in U PROVE i \in Unused(Q, G)
    OBVIOUS
  <2>1. i \in Nat /\ i < lo /\ i \in Unused(R, G)
    OBVIOUS
  <2>2. i + 1 \in 1 .. n /\ from(i + 1) = i + 1 /\ i < n
    BY <2>1, <1>6
  <2>3. Q[i + 1] = R[i + 1]
    BY <2>2, <1>7
  <2>4. QED
    BY <2>1, <2>2, <2>3, <1>2, <1>10
<1>14. Fresh(Q, G) = Fresh(R, G)
  <2>1. ASSUME NEW i \in Fresh(R, G) PROVE i \in Fresh(Q, G)
    BY <1>3, <1>6, <1>7, <1>11
  <2>2. ASSUME NEW i \in Fresh(Q, G), NEW j \in 1 .. Len(R), R[j] = G[i + 1] PROVE FALSE
    <3>1. i + 1 \in 1 .. Len(G) /\ \A k \in 1 .. n : Q[k] # G[i + 1]
      BY <1>1, <1>11
    <3>2. CASE j \in lo + 1 .. hi + 1
      <4>1. j - 1 \in lo .. hi /\ j - 1 + 1 = j
        BY <3>2
      <4>2. QED
        BY <4>1, <3>1, <2>2, <1>2, <1>4
    <3>3. CASE j \notin lo + 1 .. hi + 1
      BY <3>3, <3>1, <2>2, <1>7, <1>8
    <3>4. QED
      BY <3>2, <3>3
  <2>3. ASSUME NEW i \in Fresh(Q, G) PROVE i \in Fresh(R, G)
    BY <2>2, <1>3, <1>11
  <2>4. QED
    BY <2>1, <2>3
<1>15. KeepsOrder(R, G) => KeepsOrder(Q, G)
  <2>1. DOMAIN Q = 1 .. n
    BY <1>5, LenProperties
  <2>2. SUFFICES ASSUME KeepsOrder(R, G), NEW i \in 1 .. n, NEW j \in 1 .. n,
                        NEW k \in 1 .. Len(G), NEW l \in 1 .. Len(G),
                        Q[i] = G[k], Q[j] = G[l], i < j
                 PROVE  k < l
    BY <2>1, <1>1 DEF KeepsOrder
  <2>3. /\ from(i) \in 1 .. Len(R) /\ from(j) \in 1 .. Len(R) /\ from(i) < from(j)
        /\ R[from(i)] = G[k] /\ R[from(j)] = G[l]
    BY <2>2, <1>6, <1>7
  <2>4. QED
    BY <2>2, <2>3, <1>1 DEF KeepsOrder
<1>16. ToSet(R) \ ToSet(Range2(R, lo, hi)) \subseteq ToSet(Q)
  <2> DEFINE g == Range2(R, lo, hi)
  <2>1. /\ g \in Seq(S) /\ Len(g) = hi - lo + 1
        /\ \A i \in 1 .. hi - lo + 1 : g[i] = R[lo + i]
    BY <1>1, <1>4, Range2Facts
  <2> HIDE DEF g
  <2>2. SUFFICES ASSUME NEW x, x \in ToSet(R), x \notin ToSet(g) PROVE x \in ToSet(Q)
    BY DEF g
  <2>3. PICK k \in 1 .. Len(R) : R[k] = x
    BY <2>2, <1>1, MemberOfList
  <2>4. k \notin lo + 1 .. hi + 1
    <3>1. SUFFICES ASSUME k \in lo + 1 .. hi + 1 PROVE FALSE
      OBVIOUS
    <3>2. k - lo \in 1 .. hi - lo + 1 /\ lo + (k - lo) = k
      BY <3>1
    <3>3. g[k - lo] = x /\ k - lo \in 1 .. Len(g)
      BY <3>2, <2>1, <2>3
    <3>4. QED
      BY <3>3, <2>1, <2>2, MemberOfList
  <2>5. PICK i \in 1 .. n : from(i) = k
    BY <2>4, <1>8
  <2>6. Q[i] = x /\ i \in 1 .. Len(Q)
    BY <2>3, <2>5, <1>5, <1>7
  <2>7. QED
    BY <2>6, <1>5, MemberOfList
<1>17. QED
  BY <1>4, <1>9, <1>12, <1>13, <1>14, <1>15, <1>16 DEF Erased, Q

-----------------------------------------------------------------------------
(* Rows come                                                                 *)

\* A list that keeps the order of G, and has nothing else, begins like G as far
\* as it misses nothing of G.
LEMMA CommonPrefix ==
  ASSUME NEW S, NEW R \in ListOf(S), NEW G \in ListOf(S), KeepsOrder(R, G), Unused(R, G) = {},
         NEW a \in Nat, a <= Len(G), \A i \in Fresh(R, G) : a <= i
  PROVE  a <= Len(R) /\ \A k \in 1 .. a : R[k] = G[k]
<1> DEFINE Good == {b \in 0 .. a : b <= Len(R) /\ \A k \in 1 .. b : R[k] = G[k]}
<1>1. /\ Len(R) \in Nat /\ DOMAIN R = 1 .. Len(R) /\ \A i, j \in 1 .. Len(R) : R[i] = R[j] => i = j
      /\ Len(G) \in Nat /\ DOMAIN G = 1 .. Len(G) /\ \A i, j \in 1 .. Len(G) : G[i] = G[j] => i = j
  BY ListFacts
<1>2. \A i \in 1 .. Len(R) : \E l \in 1 .. Len(G) : G[l] = R[i]
  <2>1. TAKE i \in 1 .. Len(R)
  <2>2. i - 1 \in Nat /\ i - 1 < Len(R) /\ i - 1 + 1 = i
    BY <1>1
  <2>3. QED
    BY <2>2, WorkFacts
<1>3. \A k \in 1 .. a : \E j \in 1 .. Len(R) : R[j] = G[k]
  <2>1. TAKE k \in 1 .. a
  <2>2. k - 1 \in Nat /\ k - 1 < Len(G) /\ k - 1 + 1 = k /\ k - 1 \notin Fresh(R, G)
    BY <1>1
  <2>3. QED
    BY <2>2, WorkFacts
<1>4. 0 \in Good
  BY <1>1
<1>5. ASSUME NEW b \in Nat, b < a, b \in Good PROVE b + 1 \in Good
  <2>1. b <= Len(R) /\ (\A k \in 1 .. b : R[k] = G[k]) /\ b + 1 \in 1 .. a /\ b + 1 \in 1 .. Len(G)
    BY <1>5, <1>1
  <2>2. PICK j \in 1 .. Len(R) : R[j] = G[b + 1]
    BY <2>1, <1>3
  <2>3. j \notin 1 .. b
    <3>1. SUFFICES ASSUME j \in 1 .. b PROVE FALSE
      OBVIOUS
    <3>2. G[j] = G[b + 1] /\ j \in 1 .. Len(G) /\ j # b + 1
      BY <3>1, <2>1, <2>2, <1>1
    <3>3. QED
      BY <3>2, <2>1, <1>1
  <2>4. b + 1 <= j /\ b + 1 \in 1 .. Len(R)
    BY <2>3, <1>1
  <2>5. PICK l \in 1 .. Len(G) : G[l] = R[b + 1]
    BY <2>4, <1>2
  <2>6. ~(b + 1 < j)
    <3>1. SUFFICES ASSUME b + 1 < j PROVE FALSE
      OBVIOUS
    <3>2. l < b + 1
      BY <3>1, <2>1, <2>2, <2>4, <2>5, <1>1 DEF KeepsOrder
    <3>3. l \in 1 .. b /\ l \in 1 .. Len(R) /\ R[l] = R[b + 1] /\ l # b + 1
      BY <3>2, <2>1, <2>5, <1>1
    <3>4. QED
      BY <3>3, <2>4, <1>1
  <2>7. j = b + 1
    BY <2>4, <2>6
  <2>8. \A k \in 1 .. b + 1 : R[k] = G[k]
    BY <2>1, <2>2, <2>7
  <2>9. QED
    BY <2>1, <2>4, <2>8
<1>6. 0 .. a \subseteq Good
  <2> HIDE DEF Good
  <2>1. QED
    BY <1>4, <1>5, UpTo
<1>7. a \in Good
  BY <1>6
<1>8. QED
  BY <1>7

\* A list with the rows of G in the order of G is G.
LEMMA SameList ==
  ASSUME NEW S, NEW R \in ListOf(S), NEW G \in ListOf(S), KeepsOrder(R, G),
         Unused(R, G) = {}, Fresh(R, G) = {}
  PROVE  R = G
<1>1. /\ R \in Seq(S) /\ Len(R) \in Nat /\ \A i, j \in 1 .. Len(R) : R[i] = R[j] => i = j
      /\ G \in Seq(S) /\ Len(G) \in Nat
  BY ListFacts
<1>2. Len(G) <= Len(R) /\ \A k \in 1 .. Len(G) : R[k] = G[k]
  BY <1>1, CommonPrefix
<1>3. ~(Len(G) < Len(R))
  <2>1. SUFFICES ASSUME Len(G) < Len(R) PROVE FALSE
    OBVIOUS
  <2>2. Len(G) \notin Unused(R, G) /\ Len(G) + 1 \in 1 .. Len(R)
    BY <2>1, <1>1
  <2>3. PICK l \in 1 .. Len(G) : G[l] = R[Len(G) + 1]
    BY <2>1, <2>2, <1>1, WorkFacts
  <2>4. R[l] = R[Len(G) + 1] /\ l \in 1 .. Len(R) /\ l # Len(G) + 1
    BY <2>1, <2>3, <1>1, <1>2
  <2>5. QED
    BY <2>2, <2>4, <1>1
<1>4. Len(G) = Len(R)
  BY <1>1, <1>2, <1>3
<1>5. QED
  BY <1>1, <1>2, <1>4, SeqEqual

\* What R with rows lo .. hi of G put in has, and what it still lacks.
Inserted2(Q, R, G, lo, hi, I) ==
  /\ Unused(Q, G) = {} /\ I \subseteq Fresh(Q, G)
  /\ Fresh(R, G) = lo .. hi => Fresh(Q, G) = {}
  /\ Fresh(R, G) = lo .. hi /\ KeepsOrder(R, G) => KeepsOrder(Q, G)
  /\ ToSet(R) \subseteq ToSet(Q)
  /\ \A i \in lo .. hi : i < Len(Q) /\ Q[i + 1] \notin ToSet(R)
  /\ Range2(Q, lo, hi) = Range2(G, lo, hi)

LEMMA InsertData ==
  ASSUME NEW S, NEW R \in ListOf(S), NEW G \in ListOf(S), NEW lo \in Nat, NEW hi \in Nat, lo <= hi,
         lo <= Len(R), Unused(R, G) = {}, NEW I \in SUBSET Nat, I \cap (lo .. hi) = {},
         I \cup (lo .. hi) \subseteq Fresh(R, G)
  PROVE  /\ With(R, lo, Range2(G, lo, hi)) \in ListOf(S)
         /\ Inserted2(With(R, lo, Range2(G, lo, hi)), R, G, lo, hi, I)
<1> DEFINE B == Range2(G, lo, hi)
           Q == With(R, lo, B)
           w == hi - lo + 1
           n == Len(R) + w
           from(i) == IF i <= lo THEN i ELSE i - w
           Old(i) == i <= lo \/ hi + 1 < i
<1>1. /\ R \in Seq(S) /\ Len(R) \in Nat /\ DOMAIN R = 1 .. Len(R)
      /\ \A i, j \in 1 .. Len(R) : R[i] = R[j] => i = j
      /\ G \in Seq(S) /\ Len(G) \in Nat /\ DOMAIN G = 1 .. Len(G)
      /\ \A i, j \in 1 .. Len(G) : G[i] = G[j] => i = j
  BY ListFacts
<1>2. \A i \in Fresh(R, G) : i \in Nat /\ i < Len(G) /\ \A j \in 1 .. Len(R) : R[j] # G[i + 1]
  BY WorkFacts
<1>3. \A i \in lo .. hi : i \in Fresh(R, G)
  OBVIOUS
<1>4. hi < Len(G)
  BY <1>2, <1>3
<1>5. B \in Seq(S) /\ Len(B) = w /\ \A i \in 1 .. w : B[i] = G[lo + i]
  BY <1>1, <1>4, Range2Facts
<1> HIDE DEF B
<1>6. Q \in Seq(S) /\ Spliced(Q, R, lo, B)
  BY <1>1, <1>5, WithFacts
<1>7. Range2(Q, lo, hi) = B
  BY <1>1, <1>5, BatchShown
<1> HIDE DEF Q
<1>8. /\ n \in Nat /\ w \in Nat /\ w > 0 /\ Len(Q) = n
      /\ \A i \in 1 .. n : Old(i) => from(i) \in 1 .. Len(R)
      /\ \A i, j \in 1 .. n : Old(i) /\ Old(j) => (i < j <=> from(i) < from(j)) /\ (from(i) = from(j) => i = j)
  BY <1>1, <1>5, <1>6 DEF Spliced
<1>9. \A i \in 1 .. n : Old(i) => Q[i] = R[from(i)]
  <2>1. TAKE i \in 1 .. n
  <2>2. CASE i <= lo
    BY <2>2, <1>6 DEF Spliced
  <2>3. CASE hi + 1 < i
    <3>1. i - w \in lo + 1 .. Len(R) /\ i - w + Len(B) = i /\ ~(i <= lo)
      BY <2>3, <1>1, <1>5
    <3>2. Q[i - w + Len(B)] = R[i - w]
      BY <3>1, <1>6 DEF Spliced
    <3>3. QED
      BY <3>1, <3>2
  <2>4. QED
    BY <2>2, <2>3
<1>10. \A i \in lo + 1 .. hi + 1 : Q[i] = G[i] /\ i \in 1 .. n /\ i \in 1 .. Len(G) /\ i - 1 \in Fresh(R, G)
  <2>1. TAKE i \in lo + 1 .. hi + 1
  <2>2. i - lo \in 1 .. w /\ lo + (i - lo) = i /\ i - 1 \in lo .. hi
    OBVIOUS
  <2>3. Q[lo + (i - lo)] = B[i - lo]
    BY <2>2, <1>5, <1>6 DEF Spliced
  <2>4. QED
    BY <2>2, <2>3, <1>1, <1>3, <1>4, <1>5
<1>11. \A i \in 1 .. n : Old(i) \/ i \in lo + 1 .. hi + 1
  OBVIOUS
<1>12. \A k \in 1 .. Len(R) : \E i \in 1 .. n : Old(i) /\ from(i) = k
  <2>1. TAKE k \in 1 .. Len(R)
  <2>2. CASE k <= lo
    <3>1. k \in 1 .. n /\ Old(k) /\ from(k) = k
      BY <2>2, <1>1
    <3>2. QED
      BY <3>1
  <2>3. CASE lo < k
    <3>1. k + w \in 1 .. n /\ Old(k + w) /\ from(k + w) = k
      BY <2>3, <1>1
    <3>2. QED
      BY <3>1
  <2>4. QED
    BY <2>2, <2>3
<1> HIDE DEF n, w, from, Old
\* Old and new rows are different.
<1>13. ASSUME NEW i \in 1 .. n, NEW j \in lo + 1 .. hi + 1, Old(i) PROVE Q[i] # Q[j]
  <2>1. Q[i] = R[from(i)] /\ from(i) \in 1 .. Len(R)
    BY <1>13, <1>8, <1>9
  <2>2. Q[j] = G[j - 1 + 1] /\ j - 1 \in Fresh(R, G)
    BY <1>10
  <2>3. QED
    BY <2>1, <2>2, <1>2
<1>14. Q \in ListOf(S)
  <2>1. DOMAIN Q = 1 .. n
    BY <1>6, <1>8, LenProperties
  <2>2. ASSUME NEW i \in 1 .. n, NEW j \in 1 .. n, Q[i] = Q[j] PROVE i = j
    <3>1. CASE Old(i) /\ Old(j)
      <4>1. R[from(i)] = R[from(j)] /\ from(i) \in 1 .. Len(R) /\ from(j) \in 1 .. Len(R)
        BY <3>1, <2>2, <1>8, <1>9
      <4>2. from(i) = from(j)
        BY <4>1, <1>1
      <4>3. QED
        BY <4>2, <3>1, <1>8
    <3>2. CASE i \in lo + 1 .. hi + 1 /\ j \in lo + 1 .. hi + 1
      BY <3>2, <2>2, <1>1, <1>10
    <3>3. QED
      BY <3>1, <3>2, <2>2, <1>11, <1>13
  <2>3. QED
    BY <2>1, <2>2, <1>6 DEF ListOf, IsInjective
<1>15. \A i : i \in Unused(Q, G) <=>
                i \in Nat /\ i < n /\ \A j \in 1 .. Len(G) : G[j] # Q[i + 1]
  BY <1>8, <1>14, WorkFacts
<1>16. \A i : i \in Fresh(Q, G) <=>
                i \in Nat /\ i < Len(G) /\ \A j \in 1 .. n : Q[j] # G[i + 1]
  <2>1. \A i : i \in Fresh(Q, G) <=>
                 i \in Nat /\ i < Len(G) /\ \A j \in 1 .. Len(Q) : Q[j] # G[i + 1]
    BY <1>14, WorkFacts
  <2>2. Len(Q) = n
    BY <1>8
  <2>3. QED
    BY <2>1, <2>2
<1>17. \A k \in 1 .. Len(R) : \E l \in 1 .. Len(G) : G[l] = R[k]
  <2>1. TAKE k \in 1 .. Len(R)
  <2>2. k - 1 \in Nat /\ k - 1 < Len(R) /\ k - 1 + 1 = k
    BY <1>1
  <2>3. QED
    BY <2>2, WorkFacts
<1>18. Unused(Q, G) = {}
  <2>1. SUFFICES ASSUME NEW i \in Unused(Q, G) PROVE FALSE
    OBVIOUS
  <2>2. i + 1 \in 1 .. n /\ \A j \in 1 .. Len(G) : G[j] # Q[i + 1]
    BY <1>8, <1>15
  <2>3. CASE Old(i + 1)
    BY <2>2, <2>3, <1>8, <1>9, <1>17
  <2>4. CASE i + 1 \in lo + 1 .. hi + 1
    BY <2>2, <2>4, <1>10
  <2>5. QED
    BY <2>2, <2>3, <2>4, <1>11
\* A row that was missing and is not of the batch is missing still.
<1>19. ASSUME NEW i \in Fresh(R, G), i \notin lo .. hi PROVE i \in Fresh(Q, G)
  <2>1. i \in Nat /\ i < Len(G) /\ i + 1 \in 1 .. Len(G) /\ \A j \in 1 .. Len(R) : R[j] # G[i + 1]
    BY <1>1, <1>2
  <2>2. ASSUME NEW j \in 1 .. n, Q[j] = G[i + 1] PROVE FALSE
    <3>1. CASE Old(j)
      BY <3>1, <2>1, <2>2, <1>8, <1>9
    <3>2. CASE j \in lo + 1 .. hi + 1
      <4>1. G[j] = G[i + 1] /\ j \in 1 .. Len(G) /\ j # i + 1
        BY <3>2, <2>1, <2>2, <1>10, <1>19
      <4>2. QED
        BY <4>1, <2>1, <1>1
    <3>3. QED
      BY <3>1, <3>2, <1>11
  <2>3. QED
    BY <2>1, <2>2, <1>16
<1>20. I \subseteq Fresh(Q, G)
  BY <1>19
<1>21. ASSUME NEW i \in Fresh(Q, G) PROVE i \in Fresh(R, G) /\ i \notin lo .. hi
  <2>1. i \in Nat /\ i < Len(G) /\ \A j \in 1 .. n : Q[j] # G[i + 1]
    BY <1>16
  <2>2. \A k \in 1 .. Len(R) : R[k] # G[i + 1]
    BY <2>1, <1>9, <1>12
  <2>3. i \in Fresh(R, G)
    BY <2>1, <2>2, WorkFacts
  <2>4. i \notin lo .. hi
    <3>1. i \in lo .. hi => i + 1 \in lo + 1 .. hi + 1
      OBVIOUS
    <3>2. QED
      BY <3>1, <2>1, <1>10
  <2>5. QED
    BY <2>3, <2>4
<1>22. Fresh(R, G) = lo .. hi => Fresh(Q, G) = {}
  BY <1>21
<1>23. ASSUME Fresh(R, G) = lo .. hi, KeepsOrder(R, G) PROVE KeepsOrder(Q, G)
  <2>1. \A k \in 1 .. lo : R[k] = G[k]
    <3>1. \A i \in Fresh(R, G) : lo <= i
      BY <1>23
    <3>2. lo <= Len(G)
      BY <1>1, <1>4
    <3>3. QED
      BY <3>1, <3>2, <1>23, CommonPrefix
  <2>2. DOMAIN Q = 1 .. n
    BY <1>6, <1>8, LenProperties
  <2>3. \A i \in 1 .. n : i <= hi + 1 => Q[i] = G[i] /\ i \in 1 .. Len(G)
    <3>1. TAKE i \in 1 .. n
    <3>2. CASE i <= lo
      <4>1. Old(i) /\ from(i) = i
        BY <3>2 DEF Old, from
      <4>2. QED
        BY <4>1, <3>2, <2>1, <1>1, <1>4, <1>9
    <3>3. CASE i \in lo + 1 .. hi + 1
      BY <3>3, <1>10
    <3>4. QED
      BY <3>2, <3>3
  <2>4. ASSUME NEW i \in 1 .. n, hi + 1 < i, NEW l \in 1 .. Len(G), G[l] = Q[i] PROVE hi + 1 < l
    <3>1. SUFFICES ASSUME l <= hi + 1 PROVE FALSE
      BY <1>1
    <3>2. l \in 1 .. n /\ l # i
      BY <3>1, <2>4, <1>8
    <3>3. Q[l] = Q[i]
      BY <3>1, <3>2, <2>3, <2>4
    <3>4. QED
      BY <3>2, <3>3, <2>2, <1>14 DEF ListOf, IsInjective
  <2>5. SUFFICES ASSUME NEW i \in 1 .. n, NEW j \in 1 .. n,
                        NEW k \in 1 .. Len(G), NEW l \in 1 .. Len(G),
                        Q[i] = G[k], Q[j] = G[l], i < j
                 PROVE  k < l
    BY <2>2, <1>1 DEF KeepsOrder
  <2>6. ASSUME i <= hi + 1 PROVE k = i
    BY <2>3, <2>5, <2>6, <1>1
  <2>7. CASE j <= hi + 1
    <3>1. l = j
      BY <2>3, <2>5, <2>7, <1>1
    <3>2. QED
      BY <3>1, <2>5, <2>6, <2>7
  <2>8. CASE i <= hi + 1 /\ hi + 1 < j
    BY <2>4, <2>5, <2>6, <2>8
  <2>9. CASE hi + 1 < i /\ hi + 1 < j
    <3>1. Old(i) /\ Old(j)
      BY <2>9 DEF Old
    <3>2. /\ from(i) \in 1 .. Len(R) /\ from(j) \in 1 .. Len(R) /\ from(i) < from(j)
          /\ R[from(i)] = G[k] /\ R[from(j)] = G[l]
      BY <3>1, <2>5, <1>8, <1>9
    <3>3. QED
      BY <3>2, <1>1, <1>23 DEF KeepsOrder
  <2>10. QED
    BY <2>5, <2>7, <2>8, <2>9
<1>24. ToSet(R) \subseteq ToSet(Q)
  <2>1. SUFFICES ASSUME NEW x \in ToSet(R) PROVE x \in ToSet(Q)
    OBVIOUS
  <2>2. PICK k \in 1 .. Len(R) : R[k] = x
    BY <1>1, MemberOfList
  <2>3. \E i \in 1 .. Len(Q) : Q[i] = x
    BY <2>2, <1>8, <1>9, <1>12
  <2>4. QED
    BY <2>3, <1>6, MemberOfList
<1>25. \A i \in lo .. hi : i < Len(Q) /\ Q[i + 1] \notin ToSet(R)
  <2>1. TAKE i \in lo .. hi
  <2>2. i + 1 \in lo + 1 .. hi + 1 /\ i + 1 - 1 = i
    OBVIOUS
  <2>3. Q[i + 1] = G[i + 1] /\ i + 1 \in 1 .. n /\ i \in Fresh(R, G)
    BY <2>2, <1>10
  <2>4. Q[i + 1] \notin ToSet(R)
    BY <2>3, <1>1, <1>2, MemberOfList
  <2>5. QED
    BY <2>3, <2>4, <1>8
<1>26. QED
  BY <1>7, <1>14, <1>18, <1>20, <1>22, <1>23, <1>24, <1>25 DEF Inserted2, Q, B

-----------------------------------------------------------------------------
(* Lists a resource manager, a sort and a removal make                       *)

\* A number that is in S and not in two places.
LEMMA OneFresh ==
  ASSUME NEW S, NEW R \in ListOf(S), NEW G \in ListOf(S), NEW r, ToSet(G) \subseteq ToSet(R) \cup {r}
  PROVE  InOnePlace(Fresh(R, G))
<1>1. /\ R \in Seq(S) /\ G \in Seq(S) /\ Len(G) \in Nat
      /\ \A i, j \in 1 .. Len(G) : G[i] = G[j] => i = j
  BY ListFacts
<1>2. ASSUME NEW i \in Fresh(R, G) PROVE i \in Nat /\ i + 1 \in 1 .. Len(G) /\ G[i + 1] = r
  <2>1. i \in Nat /\ i < Len(G) /\ G[i + 1] \notin ToSet(R)
    BY <1>1 DEF Fresh
  <2>2. i + 1 \in 1 .. Len(G)
    BY <2>1, <1>1
  <2>3. G[i + 1] \in ToSet(G)
    BY <2>2, <1>1, MemberOfList
  <2>4. QED
    BY <2>1, <2>2, <2>3
<1>3. SUFFICES ASSUME NEW i \in Fresh(R, G), NEW j \in Fresh(R, G) PROVE i .. j \subseteq Fresh(R, G)
  BY DEF InOnePlace
<1>4. i \in Nat /\ j \in Nat /\ i + 1 = j + 1
  BY <1>1, <1>2
<1>5. i .. j = {i}
  BY <1>4
<1>6. QED
  BY <1>5

LEMMA NoneFresh ==
  ASSUME NEW S, NEW R \in ListOf(S), NEW G \in ListOf(S), Unused(R, G) = {}, Fresh(R, G) = {}
  PROVE  ToSet(R) = ToSet(G)
<1>1. R \in Seq(S) /\ G \in Seq(S) /\ Len(R) \in Nat /\ Len(G) \in Nat
  BY ListFacts
<1>2. ASSUME NEW x \in ToSet(R) PROVE x \in ToSet(G)
  <2>1. PICK k \in 1 .. Len(R) : R[k] = x
    BY <1>1, MemberOfList
  <2>2. k - 1 \in 0 .. Len(R) - 1 /\ k - 1 + 1 = k
    BY <1>1
  <2>3. QED
    BY <2>1, <2>2 DEF Unused
<1>3. ASSUME NEW x \in ToSet(G) PROVE x \in ToSet(R)
  <2>1. PICK k \in 1 .. Len(G) : G[k] = x
    BY <1>1, MemberOfList
  <2>2. k - 1 \in 0 .. Len(G) - 1 /\ k - 1 + 1 = k
    BY <1>1
  <2>3. QED
    BY <2>1, <2>2 DEF Fresh
<1>4. QED
  BY <1>2, <1>3

LEMMA AppendList ==
  ASSUME NEW S, NEW s \in ListOf(S), NEW x \in S, x \notin ToSet(s)
  PROVE  Append(s, x) \in ListOf(S) /\ ToSet(Append(s, x)) = ToSet(s) \cup {x}
<1> DEFINE t == Append(s, x)
<1>1. /\ s \in Seq(S) /\ Len(s) \in Nat /\ DOMAIN s = 1 .. Len(s)
      /\ \A i, j \in 1 .. Len(s) : s[i] = s[j] => i = j
  BY ListFacts
<1>2. /\ t \in Seq(S) /\ Len(t) = Len(s) + 1 /\ t[Len(s) + 1] = x
      /\ \A i \in 1 .. Len(s) : t[i] = s[i]
  BY <1>1, AppendProperties
<1> HIDE DEF t
<1>3. DOMAIN t = 1 .. Len(s) + 1
  BY <1>2, LenProperties
<1>4. \A i \in 1 .. Len(s) : s[i] # x
  BY <1>1, MemberOfList
<1>5. IsInjective(t)
  <2>1. SUFFICES ASSUME NEW i \in 1 .. Len(s) + 1, NEW j \in 1 .. Len(s) + 1, t[i] = t[j] PROVE i = j
    BY <1>3 DEF IsInjective
  <2>2. \A k \in 1 .. Len(s) + 1 : k \in 1 .. Len(s) \/ k = Len(s) + 1
    BY <1>1
  <2>3. QED
    BY <2>1, <2>2, <1>1, <1>2, <1>4
<1>6. ASSUME NEW y PROVE y \in ToSet(t) <=> y \in ToSet(s) \/ y = x
  <2>1. y \in ToSet(t) <=> \E i \in 1 .. Len(s) + 1 : t[i] = y
    BY <1>2, MemberOfList
  <2>2. y \in ToSet(s) <=> \E i \in 1 .. Len(s) : s[i] = y
    BY <1>1, MemberOfList
  <2>3. Len(s) + 1 \in 1 .. Len(s) + 1 /\ \A k \in 1 .. Len(s) : k \in 1 .. Len(s) + 1
    BY <1>1
  <2>4. \A k \in 1 .. Len(s) + 1 : k \in 1 .. Len(s) \/ k = Len(s) + 1
    BY <1>1
  <2>5. QED
    BY <2>1, <2>2, <2>3, <2>4, <1>2
<1>7. QED
  BY <1>2, <1>5, <1>6 DEF ListOf, t

\* remove_if() on a list without duplicates.
LEMMA RemoveFirstList ==
  ASSUME NEW S, NEW s \in ListOf(S), NEW x
  PROVE  RemoveFirst(s, x) \in ListOf(S) /\ ToSet(RemoveFirst(s, x)) = ToSet(s) \ {x}
<1>1. /\ s \in Seq(S) /\ Len(s) \in Nat /\ DOMAIN s = 1 .. Len(s)
      /\ \A i, j \in 1 .. Len(s) : s[i] = s[j] => i = j
  BY ListFacts
<1>2. CASE x \notin ToSet(s)
  <2>1. ~ \E i \in 1 .. Len(s) : s[i] = x
    BY <1>1, <1>2, MemberOfList
  <2>2. RemoveFirst(s, x) = s
    BY <2>1 DEF RemoveFirst
  <2>3. QED
    BY <2>2, <1>2
<1>3. CASE x \in ToSet(s)
  <2>1. PICK k \in 1 .. Len(s) : s[k] = x
    BY <1>1, <1>3, MemberOfList
  <2>2. {i \in 1 .. Len(s) : s[i] = x} = {k}
    BY <2>1, <1>1
  <2>3. Min({k}) = k
    BY <2>1 DEF Min
  <2>4. SelectInSeq(s, LAMBDA v : v = x) = k
    BY <2>2, <2>3 DEF SelectInSeq
  <2>5. RemoveFirst(s, x) = RemoveAt(s, k)
    BY <2>1, <2>4 DEF RemoveFirst
  <2>6. k - 1 \in Nat /\ k - 1 <= k - 1 /\ k - 1 < Len(s) /\ k - 1 + 2 = k + 1
    BY <2>1, <1>1
  <2> DEFINE t == Without(s, k - 1, k - 1)
  <2>7. RemoveAt(s, k) = t
    BY <2>6 DEF RemoveAt, Without
  <2>8. t \in Seq(S) /\ LeftOut(t, s, k - 1, k - 1)
    BY <2>6, <1>1, WithoutFacts
  <2> HIDE DEF t
  <2>9. Len(t) = Len(s) - 1 /\ \A i \in 1 .. Len(s) - 1 : t[i] = IF i <= k - 1 THEN s[i] ELSE s[i + 1]
    <3>1. k - 1 - (k - 1) + 1 = 1
      BY <2>6
    <3>2. QED
      BY <3>1, <2>8 DEF LeftOut
  <2> DEFINE from(i) == IF i <= k - 1 THEN i ELSE i + 1
  <2>10. \A i \in 1 .. Len(s) - 1 : t[i] = s[from(i)] /\ from(i) \in 1 .. Len(s) /\ from(i) # k
    BY <2>1, <2>9, <1>1
  <2>11. \A i, j \in 1 .. Len(s) - 1 : from(i) = from(j) => i = j
    OBVIOUS
  <2>12. \A l \in 1 .. Len(s) : l # k => \E i \in 1 .. Len(s) - 1 : from(i) = l
    <3>1. TAKE l \in 1 .. Len(s)
    <3>2. CASE l <= k - 1
      <4>1. l \in 1 .. Len(s) - 1 /\ from(l) = l
        BY <3>2, <2>1, <1>1
      <4>2. QED
        BY <4>1
    <3>3. CASE l > k
      <4>1. l - 1 \in 1 .. Len(s) - 1 /\ from(l - 1) = l
        BY <3>3, <2>1, <1>1
      <4>2. QED
        BY <4>1
    <3>4. QED
      BY <3>2, <3>3, <2>1
  <2> HIDE DEF from
  <2>13. DOMAIN t = 1 .. Len(s) - 1
    BY <2>8, <2>9, LenProperties
  <2>14. IsInjective(t)
    BY <2>10, <2>11, <2>13, <1>1 DEF IsInjective
  <2>15. ASSUME NEW y PROVE y \in ToSet(t) <=> y \in ToSet(s) /\ y # x
    <3>1. y \in ToSet(t) <=> \E i \in 1 .. Len(s) - 1 : t[i] = y
      BY <2>8, <2>9, MemberOfList
    <3>2. y \in ToSet(s) <=> \E i \in 1 .. Len(s) : s[i] = y
      BY <1>1, MemberOfList
    <3>3. ASSUME y \in ToSet(t) PROVE y \in ToSet(s) /\ y # x
      BY <3>1, <3>2, <3>3, <2>1, <2>10, <1>1
    <3>4. ASSUME y \in ToSet(s), y # x PROVE y \in ToSet(t)
      <4>1. PICK l \in 1 .. Len(s) : s[l] = y
        BY <3>2, <3>4
      <4>2. PICK i \in 1 .. Len(s) - 1 : from(i) = l
        BY <4>1, <3>4, <2>1, <2>12
      <4>3. QED
        BY <4>1, <4>2, <3>1, <2>10
    <3>5. QED
      BY <3>3, <3>4
  <2>16. QED
    BY <2>5, <2>7, <2>8, <2>14, <2>15 DEF ListOf
<1>4. QED
  BY <1>2, <1>3

\* All orders of a sort have the members of the list, once.
LEMMA SortedList ==
  ASSUME NEW S, NEW s \in ListOf(S), NEW t \in Sorted(s)
  PROVE  t \in ListOf(S) /\ ToSet(t) = ToSet(s)
<1> DEFINE n == Len(s)
<1>1. /\ s \in Seq(S) /\ n \in Nat /\ DOMAIN s = 1 .. n
      /\ \A i \in 1 .. n : s[i] \in S
      /\ \A i, j \in 1 .. n : s[i] = s[j] => i = j
  BY ListFacts
<1> HIDE DEF n
<1>2. PICK f \in {g \in [1 .. n -> 1 .. n] : IsInjective(g)} : t = [i \in 1 .. n |-> s[f[i]]]
  BY <1>1 DEF Sorted
<1>3. f \in Injection(1 .. n, 1 .. n) /\ f \in [1 .. n -> 1 .. n] /\ DOMAIN f = 1 .. n
  BY <1>2 DEF Injection
<1>4. IsFiniteSet(1 .. n)
  BY <1>1, FS_Interval
<1>5. f \in Surjection(1 .. n, 1 .. n)
  BY <1>3, <1>4, FS_Injection
<1>6. \A k \in 1 .. n : \E i \in 1 .. n : f[i] = k
  BY <1>5 DEF Surjection
<1>7. \A i \in 1 .. n : t[i] = s[f[i]] /\ f[i] \in 1 .. n /\ t[i] \in S
  BY <1>1, <1>2, <1>3
<1>8. t \in Seq(S) /\ Len(t) = n /\ DOMAIN t = 1 .. n
  <2>1. t \in [1 .. n -> S]
    BY <1>2, <1>7
  <2>2. t \in Seq(S)
    BY <2>1, <1>1
  <2>3. DOMAIN t = 1 .. n
    BY <1>2
  <2>4. QED
    BY <2>2, <2>3, <1>1, LenProperties
<1>9. IsInjective(t)
  <2>1. SUFFICES ASSUME NEW i \in 1 .. n, NEW j \in 1 .. n, t[i] = t[j] PROVE i = j
    BY <1>8 DEF IsInjective
  <2>2. f[i] = f[j]
    BY <2>1, <1>1, <1>7
  <2>3. QED
    BY <2>2, <1>2, <1>3 DEF IsInjective
<1>10. ASSUME NEW y PROVE y \in ToSet(t) <=> y \in ToSet(s)
  <2>1. y \in ToSet(t) <=> \E i \in 1 .. n : t[i] = y
    BY <1>8, MemberOfList
  <2>2. y \in ToSet(s) <=> \E i \in 1 .. n : s[i] = y
    BY <1>1, MemberOfList DEF n
  <2>3. ASSUME NEW k \in 1 .. n, s[k] = y PROVE \E i \in 1 .. n : t[i] = y
    <3>1. PICK i \in 1 .. n : f[i] = k
      BY <1>6
    <3>2. t[i] = y
      BY <3>1, <2>3, <1>7
    <3>3. QED
      BY <3>2
  <2>4. ASSUME NEW i \in 1 .. n, t[i] = y PROVE \E k \in 1 .. n : s[k] = y
    <3>1. s[f[i]] = y /\ f[i] \in 1 .. n
      BY <2>4, <1>7
    <3>2. QED
      BY <3>1
  <2>5. QED
    BY <2>1, <2>2, <2>3, <2>4
<1>11. QED
  BY <1>8, <1>9, <1>10 DEF ListOf

\* What a resource manager has, in any order.
LEMMA AllInSome ==
  ASSUME NEW S, IsFiniteSet(S), NEW q \in SetToSeqs(S)
  PROVE  q \in Seq(S) /\ ToSet(q) = S
<1> DEFINE n == Cardinality(S)
<1>1. n \in Nat
  BY FS_CardinalityType
<1>2. q \in [1 .. n -> S] /\ \A i, j \in 1 .. n : i # j => q[i] # q[j]
  BY DEF SetToSeqs
<1>3. IsFiniteSet(1 .. n) /\ Cardinality(1 .. n) = n
  BY <1>1, FS_Interval
<1>4. q \in Injection(1 .. n, S)
  <2>1. DOMAIN q = 1 .. n
    BY <1>2
  <2>2. IsInjective(q)
    BY <2>1, <1>2 DEF IsInjective
  <2>3. QED
    BY <2>2, <1>2 DEF Injection
<1>5. q \in Surjection(1 .. n, S)
  BY <1>3, <1>4, FS_Injection
<1>6. q \in Seq(S) /\ DOMAIN q = 1 .. n
  BY <1>1, <1>2
<1>7. \A x \in S : \E i \in 1 .. n : q[i] = x
  BY <1>5 DEF Surjection
<1>8. QED
  BY <1>2, <1>6, <1>7 DEF ToSet

-----------------------------------------------------------------------------
(* The steps of an update                                                    *)

\* With an event left, a frame only moves on to it.
LEMMA StepMoves ==
  ASSUME NEW f \in UpdateFrames, NEW more \in Seq(Events), more \o Tail(f.todo) \in Seq(Events),
         more \o Tail(f.todo) # << >>, f.calling = FALSE
  PROVE  /\ Stepped(f, more) \in UpdateFrames
         /\ OnlyMoved(Stepped(f, more), f, more \o Tail(f.todo), -1)
         /\ SameUpdate(Stepped(f, more), f)
<1> DEFINE todo == more \o Tail(f.todo)
           g == Moved(f, todo, -1)
<1>1. g \in UpdateFrames /\ OnlyMoved(g, f, todo, -1)
  <2>1. -1 \in Handles \cup {-1} /\ todo \in Seq(Events)
    OBVIOUS
  <2> HIDE DEF todo
  <2>2. QED
    BY <2>1, FrameMoves
<1>2. [f EXCEPT !.todo = more \o Tail(@), !.cursor = -1] = g
  BY DEF Moved
<1> HIDE DEF g
<1>3. Stepped(f, more) = g
  BY <1>1, <1>2 DEF Stepped, OnlyMoved
<1>4. QED
  BY <1>1, <1>3 DEF SameUpdate, OnlyMoved

\* The loop before rows go is over.
EraseSteps(f, R, bs) ==
  LET e == Head(f.todo)
      Q == Without(R, e.lo, e.hi)
      g == Stepped(f, << >>)
  IN  /\ e.at = f.parent /\ e.lo \in Nat /\ e.hi \in Nat /\ e.lo <= e.hi /\ e.hi < Len(R)
      /\ Q \in ListOf(Items(f.parent))
      /\ ToSet(R) \ ToSet(Range2(R, e.lo, e.hi)) \subseteq ToSet(Q)
      /\ ToSet(Range2(R, e.lo, e.hi)) \subseteq ToSet(R)
      /\ UpdateGood(g, Q, bs) /\ SameUpdate(g, f)
      /\ g.todo # << >> /\ Head(g.todo) = Event("removed", f.parent, e.lo, e.hi) /\ g.cursor = -1

LEMMA EraseStep ==
  ASSUME NEW f \in UpdateFrames, NEW R \in ListOf(Items(f.parent)), NEW bs, NEW bs2,
         UpdateGood(f, R, bs), f.calling = FALSE, f.todo # << >>, Head(f.todo).type = "aboutRemove"
  PROVE  EraseSteps(f, R, bs2)
<1>1. PICK lo \in Nat, hi \in Nat :
        /\ lo <= hi /\ \A i \in f.unused : i < lo
        /\ f.todo = Pair(f, << lo, hi >>, "aboutRemove", "removed")
  <2>1. Removing(f)
    BY PhaseFacts DEF UpdateGood
  <2>2. QED
    BY <2>1 DEF Removing
<1> DEFINE e == Head(f.todo)
           d == Event("removed", f.parent, lo, hi)
           g == Stepped(f, << >>)
           Q == Without(R, lo, hi)
           S == Items(f.parent)
<1>2. Tail(f.todo) = << d >> /\ e.type = "aboutRemove" /\ e.at = f.parent /\ e.lo = lo /\ e.hi = hi
  <2>1. "aboutRemove" \in EventTypes /\ "removed" \in EventTypes
    BY DEF EventTypes, ABOUT
  <2>2. QED
    BY <2>1, <1>1, PairTodo
<1>3. d \in Events /\ d.type = "removed"
  <2>1. "removed" \in EventTypes /\ f.parent \in Parents
    BY FrameFields DEF EventTypes, ABOUT
  <2>2. QED
    BY <2>1, EventTyped DEF Event
<1> HIDE DEF d
<1>4. << >> \o Tail(f.todo) = << d >> /\ << d >> \in Seq(Events) /\ << d >> # << >> /\ Head(<< d >>) = d
  BY <1>2, <1>3
<1>5. g \in UpdateFrames /\ OnlyMoved(g, f, << d >>, -1) /\ SameUpdate(g, f)
  BY <1>4, StepMoves, EmptySeq
<1> HIDE DEF g, e
<1>6. f.goal \in ListOf(S) /\ WorkKnown(f, R, f.unused \cup (lo .. hi), f.insert)
  <2>1. Taken(f, "aboutRemove") = lo .. hi /\ Taken(f, "aboutInsert") = {}
    BY <1>2 DEF Taken, e
  <2>2. f.insert \cup {} = f.insert
    OBVIOUS
  <2>3. QED
    BY <2>1, <2>2 DEF UpdateGood
<1>7. Q \in ListOf(S) /\ Erased(Q, R, f.goal, lo, hi, f.unused)
  <2>1. f.unused \in SUBSET Nat
    BY FrameFields
  <2>2. QED
    BY <1>1, <1>6, <2>1, EraseData DEF WorkKnown
<1> HIDE DEF Q
<1>8. UpdateGood(g, Q, bs2)
  <2>1. g.goal \in ListOf(Items(g.parent)) /\ g.calling = FALSE
    BY <1>5, <1>6 DEF SameUpdate
  <2>2. WorkKnown(g, Q, g.unused, g.insert)
    BY <1>5, <1>6, <1>7 DEF WorkKnown, OnlyMoved, Erased
  <2>3. Taken(g, "aboutRemove") = {} /\ Taken(g, "aboutInsert") = {}
    BY <1>3, <1>4, <1>5 DEF Taken, OnlyMoved
  <2>4. g.unused \cup {} = g.unused /\ g.insert \cup {} = g.insert
    OBVIOUS
  <2>5. Removed(g)
    BY <1>1, <1>5 DEF Removed, OnlyMoved, d
  <2>6. QED
    BY <1>5, <2>1, <2>2, <2>3, <2>4, <2>5 DEF UpdateGood, Shaped
<1>9. ToSet(Range2(R, lo, hi)) \subseteq ToSet(R)
  <2>1. R \in Seq(S)
    BY ListFacts
  <2>2. /\ Range2(R, lo, hi) \in Seq(S) /\ Len(Range2(R, lo, hi)) = hi - lo + 1
        /\ \A i \in 1 .. hi - lo + 1 : Range2(R, lo, hi)[i] = R[lo + i]
    BY <1>1, <1>7, <2>1, Range2Facts DEF Erased
  <2>3. SUFFICES ASSUME NEW x \in ToSet(Range2(R, lo, hi)) PROVE x \in ToSet(R)
    OBVIOUS
  <2>4. PICK i \in 1 .. hi - lo + 1 : Range2(R, lo, hi)[i] = x
    BY <2>2, <2>3, MemberOfList
  <2>5. lo + i \in 1 .. Len(R) /\ R[lo + i] = x
    BY <2>1, <2>2, <2>4, <1>7, ListFacts DEF Erased
  <2>6. QED
    BY <2>1, <2>5, MemberOfList
<1>10. g.todo # << >> /\ Head(g.todo) = Event("removed", f.parent, lo, hi) /\ g.cursor = -1
  BY <1>4, <1>5 DEF OnlyMoved, d
<1>11. hi < Len(R)
  BY <1>7 DEF Erased
<1>12. QED
  BY <1>1, <1>2, <1>5, <1>7, <1>8, <1>9, <1>10, <1>11 DEF EraseSteps, Erased, e, g, Q

\* The loop before rows come is over.
InsertSteps(f, R, bs) ==
  LET e == Head(f.todo)
      Q == With(R, e.lo, Range2(f.goal, e.lo, e.hi))
      g == Stepped(f, << >>)
  IN  /\ e.at = f.parent /\ e.lo \in Nat /\ e.hi \in Nat /\ e.lo <= e.hi /\ e.hi < Len(Q)
      /\ Q \in ListOf(Items(f.parent))
      /\ ToSet(R) \subseteq ToSet(Q)
      /\ Range2(Q, e.lo, e.hi) = Range2(f.goal, e.lo, e.hi)
      /\ UpdateGood(g, Q, bs) /\ SameUpdate(g, f)
      /\ g.todo # << >> /\ Head(g.todo) = Event("inserted", f.parent, e.lo, e.hi) /\ g.cursor = -1

LEMMA InsertStep ==
  ASSUME NEW f \in UpdateFrames, NEW R \in ListOf(Items(f.parent)), NEW bs,
         UpdateGood(f, R, bs), f.calling = FALSE, f.todo # << >>, Head(f.todo).type = "aboutInsert",
         Head(f.todo).lo <= Len(R), f.parent = Root => bs \subseteq {Root} \cup ToSet(R)
  PROVE  InsertSteps(f, R, bs)
<1>1. PICK lo \in Nat, hi \in Nat :
        /\ lo <= hi /\ f.insert \cap (lo .. hi) = {}
        /\ f.todo = Pair(f, << lo, hi >>, "aboutInsert", "inserted")
        /\ f.unused = {} /\ (f.onePlace => f.insert = {})
  <2>1. Inserting(f)
    BY PhaseFacts DEF UpdateGood
  <2>2. QED
    BY <2>1 DEF Inserting
<1> DEFINE e == Head(f.todo)
           d == Event("inserted", f.parent, lo, hi)
           g == Stepped(f, << >>)
           Q == With(R, lo, Range2(f.goal, lo, hi))
           S == Items(f.parent)
<1>2. Tail(f.todo) = << d >> /\ e.type = "aboutInsert" /\ e.at = f.parent /\ e.lo = lo /\ e.hi = hi
  <2>1. "aboutInsert" \in EventTypes /\ "inserted" \in EventTypes
    BY DEF EventTypes, ABOUT
  <2>2. QED
    BY <2>1, <1>1, PairTodo
<1>3. d \in Events /\ d.type = "inserted"
  <2>1. "inserted" \in EventTypes /\ f.parent \in Parents
    BY FrameFields DEF EventTypes, ABOUT
  <2>2. QED
    BY <2>1, EventTyped DEF Event
<1> HIDE DEF d
<1>4. << >> \o Tail(f.todo) = << d >> /\ << d >> \in Seq(Events) /\ << d >> # << >> /\ Head(<< d >>) = d
  BY <1>2, <1>3
<1>5. g \in UpdateFrames /\ OnlyMoved(g, f, << d >>, -1) /\ SameUpdate(g, f)
  BY <1>4, StepMoves, EmptySeq
<1>6. f.goal \in ListOf(S) /\ WorkKnown(f, R, {}, f.insert \cup (lo .. hi))
  <2>1. Taken(f, "aboutRemove") = {} /\ Taken(f, "aboutInsert") = lo .. hi
    BY <1>2 DEF Taken
  <2>2. QED
    BY <2>1, <1>1 DEF UpdateGood
<1>7. lo <= Len(R)
  BY <1>2
<1> HIDE DEF g, e
<1>8. Q \in ListOf(S) /\ Inserted2(Q, R, f.goal, lo, hi, f.insert)
  <2>1. f.insert \in SUBSET Nat
    BY FrameFields
  <2>2. QED
    BY <1>1, <1>6, <1>7, <2>1, InsertData DEF WorkKnown
<1> HIDE DEF Q
<1>9. UpdateGood(g, Q, bs)
  <2>1. g.goal \in ListOf(Items(g.parent)) /\ g.calling = FALSE
    BY <1>5, <1>6 DEF SameUpdate
  <2>2. f.onePlace => f.insert = {} /\ Fresh(R, f.goal) = lo .. hi /\ Fresh(Q, f.goal) = {}
    <3>1. {} \cup (lo .. hi) = lo .. hi
      OBVIOUS
    <3>2. QED
      BY <3>1, <1>1, <1>6, <1>8 DEF WorkKnown, Inserted2
  <2>3. InOnePlace({})
    BY DEF InOnePlace
  <2>4. WorkKnown(f, Q, {}, f.insert)
    BY <2>2, <2>3, <1>6, <1>8 DEF WorkKnown, Inserted2
  <2>5. WorkKnown(g, Q, g.unused, g.insert)
    BY <2>4, <1>1, <1>5 DEF WorkKnown, OnlyMoved
  <2>6. Taken(g, "aboutRemove") = {} /\ Taken(g, "aboutInsert") = {}
    BY <1>3, <1>4, <1>5 DEF Taken, OnlyMoved
  <2>7. g.unused \cup {} = g.unused /\ g.insert \cup {} = g.insert
    OBVIOUS
  <2>8. NewRows(g, Q, bs, lo, hi)
    <3>1. SUFFICES ASSUME f.parent = Root, NEW i \in lo .. hi
                   PROVE  i < Len(Q) /\ Q[i + 1] \in Rsrcs \ bs
      BY <1>5 DEF NewRows, OnlyMoved
    <3>2. i < Len(Q) /\ Q[i + 1] \notin ToSet(R)
      BY <1>8 DEF Inserted2
    <3>3. i + 1 \in 1 .. Len(Q) /\ S = Rsrcs
      BY <3>1, <3>2, <1>8, ListFacts DEF Items
    <3>4. Q[i + 1] \in S
      BY <3>3, <1>8, ListFacts
    <3>5. QED
      BY <3>1, <3>2, <3>3, <3>4, ConstantsOK
  <2>9. PutIn(g, Q, bs)
    BY <1>1, <1>5, <2>8 DEF PutIn, OnlyMoved, d
  <2>10. QED
    BY <1>5, <2>1, <2>5, <2>6, <2>7, <2>9 DEF UpdateGood, Shaped
<1>10. g.todo # << >> /\ Head(g.todo) = Event("inserted", f.parent, lo, hi) /\ g.cursor = -1
  BY <1>4, <1>5 DEF OnlyMoved, d
<1>11. hi < Len(Q)
  <2>1. hi \in lo .. hi
    BY <1>1
  <2>2. QED
    BY <2>1, <1>8 DEF Inserted2
<1>12. QED
  BY <1>1, <1>2, <1>5, <1>8, <1>9, <1>10, <1>11 DEF InsertSteps, Inserted2, e, g, Q

\* An update that changes no rows in a step, and which waits for no view.
Settled(g, f, R, bs) ==
  /\ UpdateGood(g, R, bs) /\ SameUpdate(g, f)
  /\ g.todo = << >> \/ Head(g.todo).type \in {"aboutRemove", "aboutInsert", "check"}

LEMMA SettledNow ==
  ASSUME NEW f \in UpdateFrames, NEW R \in ListOf(Items(f.parent)), NEW bs,
         UpdateGood(f, R, bs), f.todo # << >>, Tail(f.todo) = << >>, f.calling = FALSE,
         Head(f.todo).type \notin {"aboutRemove", "aboutInsert"}
  PROVE  Settled(Stepped(f, << >>), f, R, bs)
BY LastEvent DEF Settled

\* New checks or those that are left.
LEMMA ChecksLeft ==
  ASSUME NEW f \in UpdateFrames, NEW R \in ListOf(Items(f.parent)), NEW bs, NEW more \in Seq(Events),
         UpdateGood(f, R, bs), f.todo # << >>, f.calling = FALSE, f.unused = {},
         Head(f.todo).type \notin {"aboutRemove", "aboutInsert"},
         NEW todo, todo = more \o Tail(f.todo), todo \in Seq(Events), todo # << >>,
         \A i \in 1 .. Len(todo) : todo[i].type = "check" /\ todo[i].at \in Rsrcs \ bs
  PROVE  Settled(Stepped(f, more), f, R, bs)
<1> DEFINE g == Stepped(f, more)
<1>1. g \in UpdateFrames /\ OnlyMoved(g, f, todo, -1) /\ SameUpdate(g, f)
  BY StepMoves
<1> HIDE DEF g
<1>2. Head(todo) = todo[1] /\ 1 \in 1 .. Len(todo)
  OBVIOUS
<1>3. Head(todo).type = "check"
  BY <1>2
<1>4. Taken(f, "aboutRemove") = {} /\ Taken(f, "aboutInsert") = {}
  BY DEF Taken
<1>5. Taken(g, "aboutRemove") = {} /\ Taken(g, "aboutInsert") = {}
  BY <1>1, <1>3 DEF Taken, OnlyMoved
<1>6. WorkKnown(g, R, g.unused \cup {}, g.insert \cup {})
  BY <1>1, <1>4 DEF UpdateGood, WorkKnown, OnlyMoved
<1>7. g.goal \in ListOf(Items(g.parent)) /\ g.calling = FALSE
  BY <1>1 DEF SameUpdate, UpdateGood
<1>8. Checking(g, bs)
  BY <1>1 DEF Checking, OnlyMoved
<1>9. UpdateGood(g, R, bs)
  BY <1>1, <1>5, <1>6, <1>7, <1>8 DEF UpdateGood, Shaped
<1>10. QED
  BY <1>1, <1>3, <1>9 DEF Settled, OnlyMoved, g

\* The loop after rows went is over.
LEMMA RemovedStep ==
  ASSUME NEW f \in UpdateFrames, NEW R \in ListOf(Items(f.parent)), NEW bs,
         UpdateGood(f, R, bs), f.calling = FALSE, f.todo # << >>, Head(f.todo).type = "removed"
  PROVE  Settled(Stepped(f, << >>), f, R, bs)
<1>1. Removed(f)
  BY PhaseFacts DEF UpdateGood
<1>2. Tail(f.todo) = << >>
  BY <1>1, OneTodo DEF Removed, EventTypes
<1>3. QED
  BY <1>2, SettledNow

\* The checks of a batch of new rows.
ChecksOf(new) == [i \in DOMAIN new |-> Event("check", new[i], 0, 0)]

LEMMA ChecksFacts ==
  ASSUME NEW new \in Seq(Rsrcs)
  PROVE  /\ ChecksOf(new) \in Seq(Events) /\ Len(ChecksOf(new)) = Len(new)
         /\ \A i \in 1 .. Len(new) : ChecksOf(new)[i].type = "check" /\ ChecksOf(new)[i].at = new[i]
<1>1. Len(new) \in Nat /\ DOMAIN new = 1 .. Len(new) /\ \A i \in 1 .. Len(new) : new[i] \in Rsrcs
  BY LenProperties, ElementOfSeq
<1> DEFINE c == ChecksOf(new)
<1>2. c = [i \in 1 .. Len(new) |-> Event("check", new[i], 0, 0)]
  BY <1>1 DEF ChecksOf
<1>3. \A i \in 1 .. Len(new) : Event("check", new[i], 0, 0) \in Events
  <2>1. TAKE i \in 1 .. Len(new)
  <2>2. new[i] \in Parents /\ "check" \in EventTypes
    BY <1>1 DEF Parents, EventTypes
  <2>3. QED
    BY <2>2, EventTyped
<1> HIDE DEF c
<1>4. c \in [1 .. Len(new) -> Events] /\ DOMAIN c = 1 .. Len(new)
  BY <1>2, <1>3
<1>5. c \in Seq(Events)
  BY <1>1, <1>4
<1>6. Len(c) = Len(new)
  BY <1>1, <1>4, <1>5, LenProperties
<1>7. \A i \in 1 .. Len(new) : c[i] = Event("check", new[i], 0, 0)
  BY <1>2
<1>8. \A i \in 1 .. Len(new) : c[i].type = "check" /\ c[i].at = new[i]
  <2>1. \A x : Event("check", x, 0, 0).type = "check" /\ Event("check", x, 0, 0).at = x
    BY DEF Event
  <2>2. QED
    BY <2>1, <1>7
<1>9. QED
  BY <1>5, <1>6, <1>8 DEF c

\* The loop after rows came is over.
LEMMA PutInStep ==
  ASSUME NEW f \in UpdateFrames, NEW R \in ListOf(Items(f.parent)), NEW bs,
         UpdateGood(f, R, bs), f.calling = FALSE, f.todo # << >>, Head(f.todo).type = "inserted",
         NEW new, new = IF f.parent = Root THEN Range2(R, Head(f.todo).lo, Head(f.todo).hi) ELSE << >>
  PROVE  Head(f.todo).at = f.parent /\ Settled(Stepped(f, ChecksOf(new)), f, R, bs)
<1>1. PICK lo \in Nat, hi \in Nat :
        /\ lo <= hi /\ f.todo = << Event("inserted", f.parent, lo, hi) >>
        /\ NewRows(f, R, bs, lo, hi) /\ f.unused = {}
  <2>1. PutIn(f, R, bs)
    BY PhaseFacts DEF UpdateGood
  <2>2. QED
    BY <2>1 DEF PutIn
<1>2. Tail(f.todo) = << >> /\ Head(f.todo).at = f.parent /\ Head(f.todo).lo = lo /\ Head(f.todo).hi = hi
  <2>1. "inserted" \in EventTypes
    BY DEF EventTypes
  <2>2. QED
    BY <2>1, <1>1, OneTodo
<1>3. CASE f.parent # Root
  <2>1. ChecksOf(new) = << >>
    BY <1>3 DEF ChecksOf
  <2>2. QED
    BY <2>1, <1>2, SettledNow
<1>4. CASE f.parent = Root
  <2>1. \A i \in lo .. hi : i < Len(R) /\ R[i + 1] \in Rsrcs \ bs
    BY <1>1, <1>4 DEF NewRows
  <2>2. R \in Seq(Rsrcs) /\ hi < Len(R) /\ new = Range2(R, lo, hi)
    <3>1. hi \in lo .. hi
      BY <1>1
    <3>2. QED
      BY <3>1, <2>1, <1>2, <1>4, ListFacts DEF Items
  <2>3. /\ new \in Seq(Rsrcs) /\ Len(new) = hi - lo + 1
        /\ \A i \in 1 .. hi - lo + 1 : new[i] = R[lo + i]
    <3> DEFINE v == Range2(R, lo, hi)
    <3>1. /\ v \in Seq(Rsrcs) /\ Len(v) = hi - lo + 1
          /\ \A i \in 1 .. hi - lo + 1 : v[i] = R[lo + i]
      BY <2>2, <1>1, Range2Facts
    <3>2. new = v
      BY <2>2
    <3> HIDE DEF v
    <3>3. QED
      BY <3>1, <3>2
  <2>4. \A i \in 1 .. Len(new) : new[i] \in Rsrcs \ bs
    <3>1. TAKE i \in 1 .. Len(new)
    <3>2. lo + i - 1 \in lo .. hi /\ lo + i - 1 + 1 = lo + i /\ i \in 1 .. hi - lo + 1
      BY <2>3
    <3>3. R[lo + i - 1 + 1] \in Rsrcs \ bs
      BY <3>2, <2>1
    <3>4. QED
      BY <3>2, <3>3, <2>3
  <2> DEFINE c == ChecksOf(new)
  <2>5. /\ c \in Seq(Events) /\ Len(c) = Len(new)
        /\ \A i \in 1 .. Len(new) : c[i].type = "check" /\ c[i].at = new[i]
    BY <2>3, ChecksFacts
  <2> HIDE DEF c
  <2>6. c \o Tail(f.todo) = c /\ c # << >>
    BY <2>3, <2>5, <1>1, <1>2, ConcatEmptySeq
  <2>7. \A i \in 1 .. Len(c) : c[i].type = "check" /\ c[i].at \in Rsrcs \ bs
    BY <2>4, <2>5
  <2>8. Settled(Stepped(f, c), f, R, bs)
    BY <2>5, <2>6, <2>7, <1>1, ChecksLeft
  <2>9. QED
    BY <2>8, <1>2 DEF c
<1>5. QED
  BY <1>3, <1>4

\* A new row has no children yet, as long as no view asks for them.
LEMMA CheckStep ==
  ASSUME NEW f \in UpdateFrames, NEW R \in ListOf(Items(f.parent)), NEW bs,
         UpdateGood(f, R, bs), f.calling = FALSE, f.todo # << >>, Head(f.todo).type = "check"
  PROVE  Head(f.todo).at \notin bs /\ Settled(Stepped(f, << >>), f, R, bs)
<1> DEFINE t == Tail(f.todo)
<1>1. /\ f.unused = {} /\ f.todo # << >>
      /\ \A i \in 1 .. Len(f.todo) : f.todo[i].type = "check" /\ f.todo[i].at \in Rsrcs \ bs
  <2>1. Checking(f, bs)
    BY PhaseFacts DEF UpdateGood
  <2>2. QED
    BY <2>1 DEF Checking
<1>2. f.todo \in Seq(Events) /\ Len(f.todo) \in Nat
  BY FrameFields, LenProperties
<1>3. Head(f.todo) = f.todo[1] /\ 1 \in 1 .. Len(f.todo)
  BY <1>1, <1>2
<1>4. /\ t \in Seq(Events) /\ Len(t) = Len(f.todo) - 1
      /\ \A i \in 1 .. Len(t) : t[i] = f.todo[i + 1]
  BY <1>1, <1>2, HeadTailProperties
<1> HIDE DEF t
<1>5. \A i \in 1 .. Len(t) : t[i].type = "check" /\ t[i].at \in Rsrcs \ bs
  <2>1. TAKE i \in 1 .. Len(t)
  <2>2. i + 1 \in 1 .. Len(f.todo)
    BY <1>2, <1>4
  <2>3. QED
    BY <2>2, <1>1, <1>4
<1>6. CASE t = << >>
  BY <1>1, <1>3, <1>6, SettledNow DEF t
<1>7. CASE t # << >>
  <2>1. << >> \o Tail(f.todo) = t
    BY <1>4, ConcatEmptySeq DEF t
  <2>2. << >> \in Seq(Events)
    BY EmptySeq
  <2>3. Settled(Stepped(f, << >>), f, R, bs)
    BY <2>1, <2>2, <1>1, <1>4, <1>5, <1>7, ChecksLeft
  <2>4. QED
    BY <2>3, <1>1, <1>3
<1>8. QED
  BY <1>6, <1>7

\* A new frame.  R stands for the rows of its parent.
NewFrame(p, R, next) ==
  NextBatch([kind |-> "update", parent |-> p, goal |-> next,
             keeps |-> KeepsOrder(R, next), onePlace |-> InOnePlace(Fresh(R, next)),
             unused |-> Unused(R, next), insert |-> Fresh(R, next),
             todo |-> << >>, cursor |-> -1, calling |-> FALSE])

NewUpdate(g, p, R, next, bs) ==
  /\ UpdateGood(g, R, bs) /\ g.parent = p /\ g.goal = next /\ g.calling = FALSE
  /\ g.onePlace = InOnePlace(Fresh(R, next))
  /\ g.todo = << >> \/ Head(g.todo).type \in {"aboutRemove", "aboutInsert"}

LEMMA NewFrameFacts ==
  ASSUME NEW p \in Parents, NEW R \in ListOf(Items(p)), NEW next \in ListOf(Items(p)), NEW bs
  PROVE  NewUpdate(NewFrame(p, R, next), p, R, next, bs)
<1> DEFINE f == [kind |-> "update", parent |-> p, goal |-> next,
                 keeps |-> KeepsOrder(R, next), onePlace |-> InOnePlace(Fresh(R, next)),
                 unused |-> Unused(R, next), insert |-> Fresh(R, next),
                 todo |-> << >>, cursor |-> -1, calling |-> FALSE]
<1>1. Unused(R, next) \in SUBSET Nat /\ Fresh(R, next) \in SUBSET Nat
  <2>1. Unused(R, next) \in SUBSET (0 .. Len(R)) /\ Fresh(R, next) \in SUBSET (0 .. Len(next))
    BY WorkFacts
  <2>2. QED
    BY <2>1
<1>2. KeepsOrder(R, next) \in BOOLEAN /\ InOnePlace(Fresh(R, next)) \in BOOLEAN
  BY DEF KeepsOrder, InOnePlace
<1>3. next \in Seq(Rsrcs \cup Parts)
  <2>1. next \in Seq(Items(p))
    BY ListFacts
  <2>2. Items(p) \subseteq Rsrcs \cup Parts
    BY DEF Items
  <2>3. QED
    BY <2>1, <2>2, SeqMonotonic
<1>4. << >> \in Seq(Events)
  BY EmptySeq
<1>5. /\ f \in UpdateFrames /\ f.parent = p /\ f.goal = next /\ f.todo = << >> /\ f.calling = FALSE
      /\ f.unused = Unused(R, next) /\ f.insert = Fresh(R, next)
      /\ f.keeps = KeepsOrder(R, next) /\ f.onePlace = InOnePlace(Fresh(R, next))
  BY <1>1, <1>2, <1>3, <1>4 DEF UpdateFrames
<1>6. NewFrame(p, R, next) = NextBatch(f)
  BY DEF NewFrame
<1> HIDE DEF f
<1>7. WorkKnown(f, R, f.unused, f.insert)
  BY <1>5 DEF WorkKnown
<1>8. R \in ListOf(Items(f.parent)) /\ f.goal \in ListOf(Items(f.parent))
  BY <1>5
<1>9. /\ UpdateGood(NextBatch(f), R, bs)
      /\ NextBatch(f).parent = f.parent /\ NextBatch(f).goal = f.goal
      /\ NextBatch(f).onePlace = f.onePlace /\ NextBatch(f).calling = FALSE
      /\ NextBatch(f).todo = << >> \/ Head(NextBatch(f).todo).type \in {"aboutRemove", "aboutInsert"}
  BY <1>5, <1>7, <1>8, NextBatchKeeps
<1>10. QED
  BY <1>5, <1>6, <1>9 DEF NewUpdate

-----------------------------------------------------------------------------
(* The whole invariant.  What is said of the state takes the variables as    *)
(* parameters, so that it can be said of the next state too.                 *)

Trees == [Parents -> Seq(Rsrcs \cup Parts)]

\* What views put together may hold more than phrases.
ViewTrees == [Parents -> Seq(Rsrcs \cup Parts \cup {NoPhrase})]

\* A list w that a view shows of the rows L of p: those, those and one that is
\* none, or none of those it was not told of.
ListShown(w, L, p, bs) ==
  \/ w = L
  \/ p \in bs /\ w = Append(L, NoPhrase)
  \/ p \in Silent /\ w = << >>

Shows(tree, R, bs) ==
  tree \in ViewTrees /\ \A p \in Parents : ListShown(tree[p], R[p], p, bs)

AllShow(h, sh, R, bs) ==
  sh \in [Views -> ViewTrees] /\ \A v \in Views : h[v] # Nil => Shows(sh[v], R, bs)

DeliverFrames ==
  [kind : {"deliver"}, adding : BOOLEAN, queue : Seq(Rsrcs), effect : {"none", "erase", "source"},
   mgr : Managers \cup {Nil}, rsrc : Rsrcs \cup OperManagers]

DeliverGood(d, src) ==
  /\ d.effect = "none" => d.adding
  /\ d.effect = "erase" => ~d.adding /\ d.mgr \in Managers /\ d.rsrc \in Rsrcs /\ ToSet(d.queue) \subseteq {d.rsrc}
  /\ d.effect = "source" => d.adding /\ d.mgr \in Managers /\ d.rsrc \in OperManagers /\ << d.mgr, d.rsrc >> \notin ToSet(src)

\* An update of a row below the root that has its children built and announced,
\* or a delivery, for which the rows of the root may be updated.
Stacked(stk, src, R, bs) ==
  \/ stk = << >>
  \/ \E d \in DeliverFrames : stk = << d >> /\ DeliverGood(d, src)
  \/ \E u \in UpdateFrames :
       /\ stk = << u >> /\ u.parent # Root /\ u.parent \in bs /\ u.parent \notin Silent
       /\ UpdateGood(u, R[u.parent], bs)
  \/ \E d \in DeliverFrames, u \in UpdateFrames :
       /\ stk = << d, u >> /\ DeliverGood(d, src) /\ u.parent = Root /\ Root \in bs
       /\ UpdateGood(u, R[Root], bs)

World(mng, ttl, src, res) ==
  /\ mng \in [Managers -> SUBSET Rsrcs] /\ ttl \in [Rsrcs -> Titles]
  /\ \A m \in Managers : IsFiniteSet(mng[m])
  /\ \A m, n \in Managers : m # n => mng[m] \cap mng[n] = {}
  /\ src \in ListOf(Managers \X OperManagers) /\ res \subseteq Rsrcs

\* Only rows of the root have children; no phrase has any before it is asked.
Tree(R, bs) ==
  /\ R \in Trees /\ \A p \in Parents : R[p] \in ListOf(Items(p))
  /\ bs \subseteq {Root} \cup ToSet(R[Root])
  /\ \A p \in Parents : p \notin bs => R[p] = << >>

\* The rows of the root are the resources, or they will be.
Rooted(stk, R, res) ==
  IF Len(stk) = 2 THEN ToSet(stk[2].goal) = res /\ stk[2].onePlace
  ELSE ToSet(R[Root]) = res

Delivers(stk)   == stk # << >> /\ stk[1].kind = "deliver"
Unsent(stk)     == IF Delivers(stk) THEN ToSet(stk[1].queue) ELSE {}
Queued(stk)     == IF Delivers(stk) /\ stk[1].adding THEN ToSet(stk[1].queue) ELSE {}
Going(stk, m)   == IF Delivers(stk) /\ stk[1].effect = "erase" /\ stk[1].mgr = m THEN {stk[1].rsrc} ELSE {}
Joins(stk, m)   == Delivers(stk) /\ stk[1].effect = "source" /\ stk[1].mgr = m
Watching(src, m) == \E i \in DOMAIN src : src[i][1] = m

\* What a watched resource manager has is known, or waits to be told; what is
\* about to go is not known any more, or that waits to be told.
Watchful(stk, mng, src, res) ==
  \A m \in Managers :
    /\ Watching(src, m) => mng[m] \ Going(stk, m) \subseteq res \cup Queued(stk)
    /\ Watching(src, m) => Going(stk, m) \cap res \subseteq Unsent(stk)
    /\ Going(stk, m) \subseteq mng[m]
    /\ Joins(stk, m) => mng[m] \subseteq res \cup Queued(stk)

ViewsKnown(o, h) ==
  /\ DOMAIN o \subseteq Handles /\ h \in [Views -> Handles \cup {Nil}]
  /\ \A g \in DOMAIN o : o[g] \in Views /\ h[o[g]] = g
  /\ \A v \in Views : h[v] # Nil => h[v] \in DOMAIN o /\ o[h[v]] = v

\* Replay, for the rows there are when the event is sent.
After(tree, e, R) ==
  IF e.type = "removed"
  THEN [p \in Parents |-> IF p = e.at THEN Without(tree[p], e.lo, e.hi)
                          ELSE IF p \in ToSet(Range2(tree[e.at], e.lo, e.hi)) THEN << >>
                          ELSE tree[p]]
  ELSE IF e.type \in {"inserted", "told"}
  THEN [tree EXCEPT ![e.at] = With(@, e.lo, Range2(R[e.at], e.lo, e.hi))]
  ELSE tree

\* Rows have changed, and views are told.
Telling(stk) ==
  /\ stk # << >> /\ Update(stk[Len(stk)]) /\ stk[Len(stk)].todo # << >>
  /\ Head(stk[Len(stk)].todo).type \in {"removed", "inserted"}

Awaits(stk, k) == Telling(stk) /\ k > stk[Len(stk)].cursor

Mirror(stk, h, sh, R, bs) ==
  /\ sh \in [Views -> ViewTrees]
  /\ \A v \in Views : h[v] # Nil =>
       IF Awaits(stk, h[v]) THEN Shows(After(sh[v], Head(stk[Len(stk)].todo), R), R, bs)
       ELSE Shows(sh[v], R, bs)

PhraseInv ==
  /\ World(managed, title, sources, resources)
  /\ Tree(rows, built)
  /\ Stacked(stack, sources, rows, built)
  /\ Rooted(stack, rows, resources)
  /\ Watchful(stack, managed, sources, resources)
  /\ ViewsKnown(observers, handle)
  /\ Mirror(stack, handle, shown, rows, built)

-----------------------------------------------------------------------------
(* What views show                                                           *)

Listed == Rsrcs \cup Parts \cup {NoPhrase}

LEMMA TreeListed ==
  ASSUME NEW R \in Trees, NEW p \in Parents
  PROVE  R[p] \in Seq(Listed) /\ Append(R[p], NoPhrase) \in Seq(Listed) /\ NoPhrase \in Listed
<1>1. R[p] \in Seq(Rsrcs \cup Parts) /\ Rsrcs \cup Parts \subseteq Listed /\ NoPhrase \in Listed
  BY DEF Trees, Listed
<1>2. R[p] \in Seq(Listed)
  BY <1>1, SeqMonotonic
<1>3. QED
  BY <1>1, <1>2, AppendProperties

\* What is shown has its type.
LEMMA ShownTyped ==
  ASSUME NEW R \in Trees, NEW bs, NEW t, t = [p \in Parents |-> t[p]],
         \A p \in Parents : ListShown(t[p], R[p], p, bs)
  PROVE  Shows(t, R, bs)
<1>1. ASSUME NEW p \in Parents PROVE t[p] \in Seq(Listed)
  <2>1. R[p] \in Seq(Listed) /\ Append(R[p], NoPhrase) \in Seq(Listed)
    BY TreeListed
  <2>2. << >> \in Seq(Listed)
    BY EmptySeq
  <2>3. ListShown(t[p], R[p], p, bs)
    OBVIOUS
  <2>4. QED
    BY <2>1, <2>2, <2>3 DEF ListShown
<1>2. t \in [Parents -> Seq(Listed)]
  BY <1>1
<1>3. t \in ViewTrees
  BY <1>2 DEF ViewTrees, Listed
<1>4. QED
  BY <1>3 DEF Shows

\* Rows lo .. hi of q go, and what hung below them.
RowsGone(R2, bs2, R, bs, q, lo, hi) ==
  LET gone == ToSet(Range2(R[q], lo, hi))
  IN  /\ R2[q] = Without(R[q], lo, hi)
      /\ \A p \in Parents : p # q => R2[p] = IF p \in gone THEN << >> ELSE R[p]
      /\ \A p \in bs : p \notin gone => p \in bs2
      /\ q \in bs2

\* A view that showed the rows shows them when it has heard which are gone.
LEMMA EraseShows ==
  ASSUME NEW R \in Trees, NEW R2 \in Trees, NEW bs, NEW bs2, NEW q \in Parents, q \notin Silent,
         NEW lo \in Nat, NEW hi \in Nat, lo <= hi, hi < Len(R[q]),
         RowsGone(R2, bs2, R, bs, q, lo, hi), NEW t, Shows(t, R, bs),
         NEW e, e.type = "removed", e.at = q, e.lo = lo, e.hi = hi
  PROVE  Shows(After(t, e, R2), R2, bs2)
<1> DEFINE gone == ToSet(Range2(R[q], lo, hi))
           u == After(t, e, R2)
<1>1. R[q] \in Seq(Listed) /\ NoPhrase \in Listed
  BY TreeListed
<1>2. t[q] = R[q] \/ (q \in bs /\ t[q] = Append(R[q], NoPhrase))
  BY DEF Shows, ListShown
<1>3. Range2(t[q], lo, hi) = Range2(R[q], lo, hi)
  <2>1. Range2(Append(R[q], NoPhrase), lo, hi) = Range2(R[q], lo, hi)
    BY <1>1, RangeBefore
  <2>2. CASE t[q] = R[q]
    BY <2>2
  <2>3. CASE t[q] = Append(R[q], NoPhrase)
    BY <2>1, <2>3
  <2>4. QED
    BY <2>2, <2>3, <1>2
<1>4. u = [p \in Parents |-> IF p = q THEN Without(t[p], lo, hi) ELSE IF p \in gone THEN << >> ELSE t[p]]
  BY <1>3 DEF After
<1>5. u = [p \in Parents |-> u[p]]
  BY <1>4
<1>6. /\ u[q] = Without(t[q], lo, hi)
      /\ \A p \in Parents : p # q => u[p] = IF p \in gone THEN << >> ELSE t[p]
  BY <1>4
<1>7. /\ R2[q] = Without(R[q], lo, hi) /\ q \in bs2
      /\ \A p \in Parents : p # q => R2[p] = IF p \in gone THEN << >> ELSE R[p]
      /\ \A p \in bs : p \notin gone => p \in bs2
  BY DEF RowsGone
<1> HIDE DEF u, gone
<1>8. ASSUME NEW p \in Parents PROVE ListShown(u[p], R2[p], p, bs2)
  <2>1. CASE p = q
    <3>1. CASE t[q] = R[q]
      BY <2>1, <3>1, <1>6, <1>7 DEF ListShown
    <3>2. CASE t[q] = Append(R[q], NoPhrase)
      <4>1. u[q] = Append(R2[q], NoPhrase)
        BY <3>2, <1>1, <1>6, <1>7, WithoutBefore
      <4>2. QED
        BY <2>1, <4>1, <1>7 DEF ListShown
    <3>3. QED
      BY <3>1, <3>2, <1>2
  <2>2. CASE p # q /\ p \in gone
    BY <2>2, <1>6, <1>7 DEF ListShown
  <2>3. CASE p # q /\ p \notin gone
    <3>1. ListShown(t[p], R[p], p, bs) /\ (p \in bs => p \in bs2)
      BY <2>3, <1>7 DEF Shows
    <3>2. u[p] = t[p] /\ R2[p] = R[p]
      BY <2>3, <1>6, <1>7
    <3>3. QED
      BY <3>1, <3>2 DEF ListShown
  <2>4. QED
    BY <2>1, <2>2, <2>3
<1>9. Shows(u, R2, bs2)
  BY <1>5, <1>8, ShownTyped
<1>10. QED
  BY <1>9 DEF u

\* And the same of rows that have come.
LEMMA InsertShows ==
  ASSUME NEW R \in Trees, NEW R2 \in Trees, NEW bs, NEW q \in Parents, q \notin Silent, q \in bs,
         NEW lo \in Nat, NEW hi, lo <= Len(R[q]), NEW B \in Seq(Rsrcs \cup Parts),
         R2 = [R EXCEPT ![q] = With(R[q], lo, B)], Range2(R2[q], lo, hi) = B,
         NEW t, Shows(t, R, bs),
         NEW e, e.type = "inserted", e.at = q, e.lo = lo, e.hi = hi
  PROVE  Shows(After(t, e, R2), R2, bs)
<1> DEFINE u == After(t, e, R2)
<1>1. R[q] \in Seq(Listed) /\ NoPhrase \in Listed
  BY TreeListed
<1>2. t[q] = R[q] \/ t[q] = Append(R[q], NoPhrase)
  BY DEF Shows, ListShown
<1>3. B \in Seq(Listed)
  <2>1. Rsrcs \cup Parts \subseteq Listed
    BY DEF Listed
  <2>2. QED
    BY <2>1, SeqMonotonic
<1>4. t = [p \in Parents |-> t[p]] /\ \A p \in Parents : ListShown(t[p], R[p], p, bs)
  BY DEF Shows, ViewTrees
<1>5. u = [t EXCEPT ![q] = With(t[q], lo, B)]
  BY DEF After
<1>6. u = [p \in Parents |-> IF p = q THEN With(t[q], lo, B) ELSE t[p]]
  BY <1>4, <1>5
<1>7. u = [p \in Parents |-> u[p]] /\ u[q] = With(t[q], lo, B) /\ \A p \in Parents : p # q => u[p] = t[p]
  BY <1>6
<1>8. R2[q] = With(R[q], lo, B) /\ \A p \in Parents : p # q => R2[p] = R[p]
  BY DEF Trees
<1> HIDE DEF u
<1>9. ASSUME NEW p \in Parents PROVE ListShown(u[p], R2[p], p, bs)
  <2>1. CASE p = q
    <3>1. CASE t[q] = R[q]
      BY <2>1, <3>1, <1>7, <1>8 DEF ListShown
    <3>2. CASE t[q] = Append(R[q], NoPhrase)
      <4>1. u[q] = Append(R2[q], NoPhrase)
        BY <3>2, <1>1, <1>3, <1>7, <1>8, WithBefore
      <4>2. QED
        BY <2>1, <4>1 DEF ListShown
    <3>3. QED
      BY <3>1, <3>2, <1>2
  <2>2. CASE p # q
    BY <2>2, <1>4, <1>7, <1>8
  <2>3. QED
    BY <2>1, <2>2
<1>10. Shows(u, R2, bs)
  BY <1>7, <1>9, ShownTyped
<1>11. QED
  BY <1>10 DEF u

\* What is shown stays so when more phrases were asked for their children.
LEMMA MoreBuilt ==
  ASSUME NEW h, NEW sh, NEW R, NEW bs, NEW bs2, bs \subseteq bs2, AllShow(h, sh, R, bs)
  PROVE  AllShow(h, sh, R, bs2)
<1>1. ASSUME NEW tree, Shows(tree, R, bs) PROVE Shows(tree, R, bs2)
  BY <1>1 DEF Shows, ListShown
<1>2. QED
  BY <1>1 DEF AllShow

\* And when children of r were built without a word, of which views have none.
LEMMA SilentlyBuilt ==
  ASSUME NEW h, NEW sh, NEW R \in Trees, NEW bs, AllShow(h, sh, R, bs), NEW r \in Silent,
         r \in Parents, r \notin bs, R[r] = << >>, NEW R2 \in Trees,
         \A p \in Parents : p # r => R2[p] = R[p]
  PROVE  AllShow(h, sh, R2, bs \cup {r})
<1>1. ASSUME NEW t, Shows(t, R, bs) PROVE Shows(t, R2, bs \cup {r})
  <2>1. t[r] = << >>
    BY <1>1 DEF Shows, ListShown
  <2>2. ASSUME NEW p \in Parents PROVE ListShown(t[p], R2[p], p, bs \cup {r})
    BY <2>1, <1>1 DEF Shows, ListShown
  <2>3. QED
    BY <2>2, <1>1 DEF Shows
<1>2. QED
  BY <1>1 DEF AllShow

-----------------------------------------------------------------------------
(* The stack                                                                 *)

LEMMA ListOfOne ==
  ASSUME NEW S, NEW x \in S, NEW w \in Seq(S), Len(w) = 1, w[1] = x
  PROVE  w = << x >>
<1> DEFINE v == << x >>
<1>1. v \in Seq(S) /\ Len(v) = 1 /\ v[1] = x
  OBVIOUS
<1> HIDE DEF v
<1>2. w = v
  <2>1. \A i \in 1 .. Len(w) : w[i] = v[i]
    BY <1>1
  <2>2. QED
    BY <2>1, <1>1, SeqEqual
<1>3. QED
  BY <1>2 DEF v

LEMMA ListOfTwo ==
  ASSUME NEW S, NEW x \in S, NEW y \in S, NEW w \in Seq(S), Len(w) = 2, w[1] = x, w[2] = y
  PROVE  w = << x, y >>
<1> DEFINE v == << x, y >>
<1>1. v \in Seq(S) /\ Len(v) = 2 /\ v[1] = x /\ v[2] = y
  OBVIOUS
<1> HIDE DEF v
<1>2. w = v
  <2>1. \A i \in 1 .. Len(w) : w[i] = v[i]
    BY <1>1
  <2>2. QED
    BY <2>1, <1>1, SeqEqual
<1>3. QED
  BY <1>2 DEF v

LEMMA AppendToOne ==
  ASSUME NEW x, NEW z
  PROVE  Append(<< >>, z) = << z >> /\ Append(<< x >>, z) = << x, z >>
<1> DEFINE S == {x, z}
           one == << x >>
           none == << >>
<1>1. none \in Seq(S) /\ Len(none) = 0 /\ one \in Seq(S) /\ Len(one) = 1 /\ one[1] = x /\ x \in S /\ z \in S
  OBVIOUS
<1> HIDE DEF S, one, none
<1>2. Append(none, z) \in Seq(S) /\ Len(Append(none, z)) = 1 /\ Append(none, z)[1] = z
  BY <1>1, AppendProperties
<1>3. /\ Append(one, z) \in Seq(S) /\ Len(Append(one, z)) = 2 /\ Append(one, z)[1] = x
      /\ Append(one, z)[2] = z
  <2>1. /\ Append(one, z) \in Seq(S) /\ Len(Append(one, z)) = Len(one) + 1
        /\ \A i \in 1 .. Len(one) : Append(one, z)[i] = one[i]
        /\ Append(one, z)[Len(one) + 1] = z
    <3>1. one \in Seq(S) /\ z \in S
      BY <1>1
    <3>2. QED
      BY <3>1, AppendProperties
  <2>2. Len(one) + 1 = 2 /\ 1 \in 1 .. Len(one)
    BY <1>1
  <2>3. QED
    BY <2>1, <2>2, <1>1
<1>4. Append(none, z) = << z >>
  BY <1>1, <1>2, ListOfOne
<1>5. Append(one, z) = << x, z >>
  BY <1>1, <1>3, ListOfTwo
<1>6. QED
  BY <1>4, <1>5 DEF one, none

OneFrame(s, x) ==
  /\ s # << >> /\ Len(s) = 1 /\ s[1] = x /\ s[Len(s)] = x
  /\ SubSeq(s, 1, Len(s) - 1) = << >>
  /\ \A z : Append(SubSeq(s, 1, Len(s) - 1), z) = << z >>
  /\ \A z : Append(s, z) = << x, z >>

LEMMA OneOnStack ==
  ASSUME NEW x, NEW s, s = << x >>
  PROVE  OneFrame(s, x)
<1>1. s # << >> /\ Len(s) = 1 /\ s[1] = x
  OBVIOUS
<1>2. SubSeq(s, 1, 0) = << >>
  BY SubSeqEmpty
<1>3. \A z : Append(<< >>, z) = << z >> /\ Append(s, z) = << x, z >>
  BY AppendToOne
<1>4. Len(s) - 1 = 0
  BY <1>1
<1>5. QED
  BY <1>1, <1>2, <1>3, <1>4 DEF OneFrame

TwoFrames(s, x, y) ==
  /\ s # << >> /\ Len(s) = 2 /\ s[1] = x /\ s[2] = y /\ s[Len(s)] = y
  /\ SubSeq(s, 1, Len(s) - 1) = << x >>
  /\ \A z : Append(SubSeq(s, 1, Len(s) - 1), z) = << x, z >>

LEMMA TwoOnStack ==
  ASSUME NEW x, NEW y, NEW s, s = << x, y >>
  PROVE  TwoFrames(s, x, y)
<1>1. s # << >> /\ Len(s) = 2 /\ s[1] = x /\ s[2] = y
  OBVIOUS
<1>2. SubSeq(s, 1, 1) = << x >>
  <2>2. \A i \in 1 .. 1 : s[i] \in {x, y}
    BY <1>1
  <2>3. /\ SubSeq(s, 1, 1) \in Seq({x, y}) /\ Len(SubSeq(s, 1, 1)) = 1
        /\ \A i \in 1 .. 1 - 1 + 1 : SubSeq(s, 1, 1)[i] = s[1 + i - 1]
    BY <2>2, SubSeqProperties
  <2>4. SubSeq(s, 1, 1)[1] = x
    BY <2>3, <1>1
  <2>5. QED
    BY <2>3, <2>4, ListOfOne
<1>3. \A z : Append(<< x >>, z) = << x, z >>
  BY AppendToOne
<1>4. Len(s) - 1 = 1
  BY <1>1
<1>5. QED
  BY <1>1, <1>2, <1>3, <1>4 DEF TwoFrames

LEMMA Kinds ==
  /\ \A d \in DeliverFrames : d.kind = "deliver" /\ ~Update(d)
  /\ \A u \in UpdateFrames : u.kind = "update" /\ Update(u)
BY DEF DeliverFrames, UpdateFrames, Update

\* A resource manager or an operation is telling.
LEMMA DeliverOnTop ==
  ASSUME NEW stk, NEW src, NEW R, NEW bs, Stacked(stk, src, R, bs),
         stk # << >>, stk[Len(stk)].kind = "deliver"
  PROVE  \E d \in DeliverFrames : stk = << d >> /\ DeliverGood(d, src)
BY OneOnStack, TwoOnStack, Kinds DEF Stacked, Update, OneFrame, TwoFrames

\* The rows are being updated.
OnTop(stk, R, bs) ==
  LET t == stk[Len(stk)]
  IN  /\ t \in UpdateFrames /\ t.parent \in Parents /\ UpdateGood(t, R[t.parent], bs)
      /\ t.parent \in bs /\ t.parent \notin Silent
      /\ IF t.parent = Root THEN Len(stk) = 2 /\ stk[2] = t ELSE Len(stk) = 1

LEMMA UpdateOnTop ==
  ASSUME NEW stk, NEW src, NEW R, NEW bs, Stacked(stk, src, R, bs),
         stk # << >>, Update(stk[Len(stk)])
  PROVE  OnTop(stk, R, bs)
<1>1. CASE \E d \in DeliverFrames : stk = << d >>
  BY <1>1, OneOnStack, Kinds DEF OneFrame
<1>2. ASSUME NEW u \in UpdateFrames, stk = << u >>, u.parent # Root, u.parent \in bs,
             u.parent \notin Silent, UpdateGood(u, R[u.parent], bs)
      PROVE  OnTop(stk, R, bs)
  BY <1>2, OneOnStack, FrameFields DEF OnTop, OneFrame
<1>3. ASSUME NEW d \in DeliverFrames, NEW u \in UpdateFrames, stk = << d, u >>, u.parent = Root,
             Root \in bs, UpdateGood(u, R[Root], bs)
      PROVE  OnTop(stk, R, bs)
  <2>1. TwoFrames(stk, d, u)
    BY <1>3, TwoOnStack
  <2>2. Root \notin Silent
    BY ConstantsOK
  <2>3. QED
    BY <2>1, <2>2, <1>3, FrameFields DEF OnTop, TwoFrames
<1>4. QED
  BY <1>1, <1>2, <1>3 DEF Stacked

SameBelow(t, s) ==
  (Delivers(t) <=> Delivers(s)) /\ (Delivers(s) => t[1] = s[1])

LEMMA WatchfulStill ==
  ASSUME NEW s, NEW t, NEW mng, NEW src, NEW res, Watchful(s, mng, src, res), SameBelow(t, s)
  PROVE  Watchful(t, mng, src, res)
<1>1. Unsent(t) = Unsent(s) /\ Queued(t) = Queued(s)
  BY DEF SameBelow, Unsent, Queued
<1>2. \A m : Going(t, m) = Going(s, m) /\ (Joins(t, m) <=> Joins(s, m))
  BY DEF SameBelow, Going, Joins
<1>3. QED
  BY <1>1, <1>2 DEF Watchful

\* The innermost update steps: the stack below it stays as it is.
Follows(stk2, stk, g, src, R, bs, mng, res) ==
  /\ Stacked(stk2, src, R, bs) /\ Rooted(stk2, R, res) /\ Watchful(stk2, mng, src, res)
  /\ stk2 # << >> /\ stk2[Len(stk2)] = g

LEMMA BecomeKeeps ==
  ASSUME NEW stk, NEW src, NEW R, NEW bs, NEW R2, NEW bs2, NEW mng, NEW res, NEW g, NEW stk2,
         Stacked(stk, src, R, bs), Rooted(stk, R, res), Watchful(stk, mng, src, res),
         stk # << >>, Update(stk[Len(stk)]), NEW t, t = stk[Len(stk)],
         g.parent = t.parent, g.goal = t.goal, g.onePlace = t.onePlace,
         UpdateGood(g, R2[g.parent], bs2), t.parent \in bs2, t.parent # Root => R2[Root] = R[Root],
         stk2 = Append(SubSeq(stk, 1, Len(stk) - 1), g)
  PROVE  Follows(stk2, stk, g, src, R2, bs2, mng, res)
<1>1. g \in UpdateFrames
  BY DEF UpdateGood
<1>2. ASSUME NEW d \in DeliverFrames, stk = << d >>
      PROVE  FALSE
  BY <1>2, OneOnStack, Kinds DEF OneFrame
<1>3. ASSUME NEW u \in UpdateFrames, stk = << u >>, u.parent # Root, u.parent \notin Silent
      PROVE  Follows(stk2, stk, g, src, R2, bs2, mng, res)
  <2>1. /\ stk # << >> /\ Len(stk) = 1 /\ stk[1] = u /\ t = u /\ stk2 = << g >>
    BY <1>3, OneOnStack DEF OneFrame
  <2>2. stk2 # << >> /\ Len(stk2) = 1 /\ stk2[1] = g /\ stk2[Len(stk2)] = g
    BY <2>1, OneOnStack DEF OneFrame
  <2>3. Stacked(stk2, src, R2, bs2)
    BY <1>1, <1>3, <2>1 DEF Stacked
  <2>4. ~Delivers(stk2) /\ ~Delivers(stk)
    BY <1>1, <2>1, <2>2, Kinds DEF Delivers
  <2>5. Watchful(stk2, mng, src, res)
    BY <2>4, WatchfulStill DEF SameBelow
  <2>6. Rooted(stk2, R2, res)
    BY <1>3, <2>1, <2>2 DEF Rooted
  <2>7. QED
    BY <2>2, <2>3, <2>5, <2>6 DEF Follows
<1>4. ASSUME NEW d \in DeliverFrames, NEW u \in UpdateFrames, stk = << d, u >>, DeliverGood(d, src), u.parent = Root
      PROVE  Follows(stk2, stk, g, src, R2, bs2, mng, res)
  <2>1. /\ stk # << >> /\ Len(stk) = 2 /\ stk[1] = d /\ stk[2] = u /\ t = u /\ stk2 = << d, g >>
    <3>1. stk = << d, u >>
      BY <1>4
    <3>2. TwoFrames(stk, d, u)
      BY <3>1, TwoOnStack
    <3>3. QED
      BY <3>1, <3>2 DEF TwoFrames
  <2>2. stk2 # << >> /\ Len(stk2) = 2 /\ stk2[1] = d /\ stk2[2] = g /\ stk2[Len(stk2)] = g
    BY <2>1, TwoOnStack DEF TwoFrames
  <2>3. Stacked(stk2, src, R2, bs2)
    BY <1>1, <1>4, <2>1 DEF Stacked
  <2>4. SameBelow(stk2, stk)
    BY <2>1, <2>2 DEF SameBelow, Delivers
  <2>5. Watchful(stk2, mng, src, res)
    BY <2>4, WatchfulStill
  <2>6. Rooted(stk2, R2, res)
    BY <2>1, <2>2 DEF Rooted
  <2>7. QED
    BY <2>2, <2>3, <2>5, <2>6 DEF Follows
<1>5. QED
  BY <1>2, <1>3, <1>4 DEF Stacked

\* An empty stack, and one with a delivery only.
LEMMA EmptyStack ==
  /\ ~Telling(<< >>) /\ Unsent(<< >>) = {} /\ Queued(<< >>) = {} /\ Len(<< >>) = 0
  /\ \A m : Going(<< >>, m) = {} /\ ~Joins(<< >>, m)
BY DEF Telling, Unsent, Queued, Going, Joins, Delivers

OneDelivery(s, d, src, R, bs) ==
  /\ Stacked(s, src, R, bs) /\ Len(s) = 1 /\ ~Telling(s)
  /\ Unsent(s) = ToSet(d.queue) /\ Queued(s) = (IF d.adding THEN ToSet(d.queue) ELSE {})
  /\ \A m : Going(s, m) = IF d.effect = "erase" /\ d.mgr = m THEN {d.rsrc} ELSE {}
  /\ \A m : Joins(s, m) <=> d.effect = "source" /\ d.mgr = m

LEMMA DeliveryFacts ==
  ASSUME NEW src, NEW R, NEW bs, NEW d \in DeliverFrames, DeliverGood(d, src), NEW s, s = << d >>
  PROVE  OneDelivery(s, d, src, R, bs)
<1>1. s # << >> /\ Len(s) = 1 /\ s[1] = d /\ s[Len(s)] = d
  BY OneOnStack DEF OneFrame
<1>2. d.kind = "deliver" /\ ~Update(d)
  BY Kinds
<1>3. Delivers(s) /\ ~Telling(s)
  BY <1>1, <1>2 DEF Delivers, Telling
<1>4. Stacked(s, src, R, bs)
  BY DEF Stacked
<1>5. Unsent(s) = ToSet(d.queue) /\ Queued(s) = (IF d.adding THEN ToSet(d.queue) ELSE {})
  BY <1>1, <1>3 DEF Unsent, Queued
<1>6. \A m : /\ Going(s, m) = IF d.effect = "erase" /\ d.mgr = m THEN {d.rsrc} ELSE {}
             /\ Joins(s, m) <=> d.effect = "source" /\ d.mgr = m
  BY <1>1, <1>3 DEF Going, Joins
<1>7. QED
  BY <1>1, <1>3, <1>4, <1>5, <1>6 DEF OneDelivery

\* Between calls, and while no view is told, every view shows the rows.
LEMMA MirrorCalm ==
  ASSUME NEW s, NEW h, NEW sh, NEW R, NEW bs, ~Telling(s)
  PROVE  Mirror(s, h, sh, R, bs) <=> AllShow(h, sh, R, bs)
BY DEF Mirror, Awaits, AllShow

\* Between calls what watched resource managers have is known.
LEMMA WatchfulIdle ==
  ASSUME NEW mng, NEW src, NEW res
  PROVE  Watchful(<< >>, mng, src, res) <=>
           \A m \in Managers : Watching(src, m) => mng[m] \subseteq res
BY EmptyStack DEF Watchful

LEMMA IdleFacts ==
  ASSUME PhraseInv, Idle
  PROVE  /\ stack = << >> /\ ToSet(rows[Root]) = resources
         /\ \A m \in Managers : Watching(sources, m) => managed[m] \subseteq resources
         /\ AllShow(handle, shown, rows, built)
<1>1. stack = << >>
  BY DEF Idle
<1>2. ToSet(rows[Root]) = resources
  BY <1>1, EmptyStack DEF PhraseInv, Rooted
<1>3. \A m \in Managers : Watching(sources, m) => managed[m] \subseteq resources
  BY <1>1, WatchfulIdle DEF PhraseInv
<1>4. AllShow(handle, shown, rows, built)
  BY <1>1, EmptyStack, MirrorCalm DEF PhraseInv
<1>5. QED
  BY <1>1, <1>2, <1>3, <1>4

LEMMA ToSourcesFacts ==
  ASSUME NEW x, NEW r \in Rsrcs, sources \in Seq(Managers \X OperManagers)
  PROVE  /\ ToSources(x, r) \in Seq(Rsrcs) /\ ToSet(ToSources(x, r)) \subseteq {r}
         /\ Watching(sources, x) => r \in ToSet(ToSources(x, r))
<1> DEFINE J == {j \in DOMAIN sources : x \in ToSet(sources[j])}
           n == Cardinality(J)
           q == [i \in 1 .. n |-> r]
<1>1. Len(sources) \in Nat /\ DOMAIN sources = 1 .. Len(sources)
      /\ \A i \in 1 .. Len(sources) : sources[i] \in Managers \X OperManagers
  BY LenProperties, ElementOfSeq
<1>2. IsFiniteSet(J)
  <2>1. IsFiniteSet(1 .. Len(sources))
    BY <1>1, FS_Interval
  <2>2. J \in SUBSET (1 .. Len(sources))
    BY <1>1
  <2>3. QED
    BY <2>1, <2>2, FS_Subset
<1>3. n \in Nat
  BY <1>2, FS_CardinalityType
<1>4. q \in Seq(Rsrcs) /\ DOMAIN q = 1 .. n /\ \A i \in 1 .. n : q[i] = r
  <2> HIDE DEF n
  <2>1. q \in [1 .. n -> Rsrcs]
    OBVIOUS
  <2>2. QED
    BY <2>1, <1>3
<1>5. ToSources(x, r) = q
  BY DEF ToSources
<1>6. ASSUME Watching(sources, x) PROVE 1 \in 1 .. n
  <2>1. PICK i \in 1 .. Len(sources) : sources[i][1] = x
    BY <1>1, <1>6 DEF Watching
  <2>2. x \in ToSet(sources[i])
    <3>1. PICK a \in Managers, b \in OperManagers : sources[i] = << a, b >>
      BY <1>1
    <3>2. DOMAIN << a, b >> = 1 .. 2 /\ << a, b >>[1] = a
      OBVIOUS
    <3>3. 1 \in 1 .. 2
      OBVIOUS
    <3>4. a \in ToSet(<< a, b >>)
      BY <3>2, <3>3 DEF ToSet
    <3>5. a = x
      BY <2>1, <3>1, <3>2
    <3>6. QED
      BY <3>1, <3>4, <3>5
  <2>3. J # {}
    BY <1>1, <2>1, <2>2
  <2>4. n # 0
    BY <1>2, <2>3, FS_EmptySet
  <2>5. QED
    BY <2>4, <1>3
<1> HIDE DEF q, n, J
<1>7. QED
  BY <1>4, <1>5, <1>6 DEF ToSet

-----------------------------------------------------------------------------
(* Resource managers and operations tell                                     *)

LEMMA AddResourceKeeps ==
  ASSUME PhraseInv, NEW m \in Managers, NEW r \in Rsrcs, AddResource(m, r)
  PROVE  PhraseInv'
<1> DEFINE q == ToSources(m, r)
           d == DeliverFrame(TRUE, q, "none", m, r)
<1>1. /\ Idle /\ (\A n \in Managers : r \notin managed[n])
      /\ managed' = [managed EXCEPT ![m] = @ \cup {r}] /\ stack' = << d >>
      /\ UNCHANGED << title, sources, resources, rows, built, observers, handle, shown >>
  BY DEF AddResource, modelVars, viewVars
<1>2. /\ World(managed, title, sources, resources) /\ Tree(rows, built) /\ ViewsKnown(observers, handle)
      /\ sources \in Seq(Managers \X OperManagers)
  BY ListFacts DEF PhraseInv, World
<1>3. /\ ToSet(rows[Root]) = resources
      /\ \A n \in Managers : Watching(sources, n) => managed[n] \subseteq resources
      /\ AllShow(handle, shown, rows, built)
  BY <1>1, IdleFacts
<1>4. q \in Seq(Rsrcs) /\ (Watching(sources, m) => r \in ToSet(q))
  BY <1>2, ToSourcesFacts
<1> HIDE DEF q
<1>5. d \in DeliverFrames /\ d.adding = TRUE /\ d.queue = q /\ d.effect = "none"
  BY <1>4 DEF DeliverFrame, DeliverFrames
<1>6. DeliverGood(d, sources)
  BY <1>5 DEF DeliverGood
<1> HIDE DEF d
<1>7. OneDelivery(stack', d, sources, rows, built)
  BY <1>1, <1>5, <1>6, DeliveryFacts
<1>8. /\ \A n : n \in Managers => managed'[n] = IF n = m THEN managed[n] \cup {r} ELSE managed[n]
      /\ managed' \in [Managers -> SUBSET Rsrcs]
  BY <1>1, <1>2 DEF World
<1>9. World(managed', title', sources', resources')
  <2>1. \A n \in Managers : IsFiniteSet(managed'[n])
    <3>1. \A n \in Managers : IsFiniteSet(managed[n]) /\ IsFiniteSet(managed[n] \cup {r})
      BY <1>2, FS_AddElement DEF World
    <3>2. QED
      BY <3>1, <1>8
  <2>2. ASSUME NEW n \in Managers, NEW o \in Managers, n # o PROVE managed'[n] \cap managed'[o] = {}
    BY <1>1, <1>2, <1>8, <2>2 DEF World
  <2>3. QED
    BY <2>1, <2>2, <1>1, <1>2, <1>8 DEF World
<1>10. Rooted(stack', rows', resources')
  BY <1>1, <1>3, <1>7 DEF OneDelivery, Rooted
<1>11. Watchful(stack', managed', sources', resources')
  <2>1. /\ Queued(stack') = ToSet(q) /\ \A n : Going(stack', n) = {} /\ ~Joins(stack', n)
    BY <1>5, <1>7 DEF OneDelivery
  <2>2. ASSUME NEW n \in Managers, Watching(sources, n) PROVE managed'[n] \subseteq resources \cup ToSet(q)
    BY <1>3, <1>4, <1>8, <2>2
  <2>3. QED
    BY <2>1, <2>2, <1>1 DEF Watchful
<1>12. Mirror(stack', handle', shown', rows', built')
  BY <1>1, <1>3, <1>7, MirrorCalm DEF OneDelivery
<1>13. QED
  BY <1>1, <1>2, <1>7, <1>9, <1>10, <1>11, <1>12 DEF PhraseInv, OneDelivery

LEMMA RemoveResourceKeeps ==
  ASSUME PhraseInv, NEW m \in Managers, NEW r \in Rsrcs, RemoveResource(m, r)
  PROVE  PhraseInv'
<1> DEFINE q == ToSources(m, r)
           d == DeliverFrame(FALSE, q, "erase", m, r)
<1>1. /\ Idle /\ r \in managed[m] /\ stack' = << d >>
      /\ UNCHANGED << managed, title, sources, resources, rows, built, observers, handle, shown >>
  BY DEF RemoveResource, worldVars, modelVars, viewVars
<1>2. /\ World(managed, title, sources, resources) /\ Tree(rows, built) /\ ViewsKnown(observers, handle)
      /\ sources \in Seq(Managers \X OperManagers)
  BY ListFacts DEF PhraseInv, World
<1>3. /\ ToSet(rows[Root]) = resources
      /\ \A n \in Managers : Watching(sources, n) => managed[n] \subseteq resources
      /\ AllShow(handle, shown, rows, built)
  BY <1>1, IdleFacts
<1>4. q \in Seq(Rsrcs) /\ ToSet(q) \subseteq {r} /\ (Watching(sources, m) => r \in ToSet(q))
  BY <1>2, ToSourcesFacts
<1> HIDE DEF q
<1>5. /\ d \in DeliverFrames /\ d.adding = FALSE /\ d.queue = q /\ d.effect = "erase"
      /\ d.mgr = m /\ d.rsrc = r
  BY <1>4 DEF DeliverFrame, DeliverFrames
<1>6. DeliverGood(d, sources)
  BY <1>4, <1>5 DEF DeliverGood
<1> HIDE DEF d
<1>7. OneDelivery(stack', d, sources, rows, built)
  BY <1>1, <1>5, <1>6, DeliveryFacts
<1>8. Rooted(stack', rows', resources')
  BY <1>1, <1>3, <1>7 DEF OneDelivery, Rooted
<1>9. Watchful(stack', managed', sources', resources')
  <2>1. /\ Queued(stack') = {} /\ Unsent(stack') = ToSet(q) /\ \A n : ~Joins(stack', n)
        /\ \A n : Going(stack', n) = IF m = n THEN {r} ELSE {}
    BY <1>5, <1>7 DEF OneDelivery
  <2>2. ASSUME NEW n \in Managers PROVE Going(stack', n) \subseteq managed[n]
    BY <1>1, <2>1
  <2>3. ASSUME NEW n \in Managers, Watching(sources, n)
        PROVE  managed[n] \ Going(stack', n) \subseteq resources /\ Going(stack', n) \subseteq ToSet(q)
    BY <1>3, <1>4, <2>1, <2>3
  <2>4. QED
    BY <2>1, <2>2, <2>3, <1>1 DEF Watchful
<1>10. Mirror(stack', handle', shown', rows', built')
  BY <1>1, <1>3, <1>7, MirrorCalm DEF OneDelivery
<1>11. QED
  BY <1>1, <1>2, <1>7, <1>8, <1>9, <1>10 DEF PhraseInv, OneDelivery

LEMMA OperatedKeeps ==
  ASSUME PhraseInv, NEW x \in OperManagers, NEW r \in Rsrcs, Operated(x, r)
  PROVE  PhraseInv'
<1> DEFINE q == ToSources(x, r)
           d == DeliverFrame(TRUE, q, "none", Nil, r)
<1>1. /\ Idle /\ stack' = << d >>
      /\ UNCHANGED << managed, title, sources, resources, rows, built, observers, handle, shown >>
  BY DEF Operated, worldVars, modelVars, viewVars
<1>2. /\ World(managed, title, sources, resources) /\ Tree(rows, built) /\ ViewsKnown(observers, handle)
      /\ sources \in Seq(Managers \X OperManagers)
  BY ListFacts DEF PhraseInv, World
<1>3. /\ ToSet(rows[Root]) = resources
      /\ \A n \in Managers : Watching(sources, n) => managed[n] \subseteq resources
      /\ AllShow(handle, shown, rows, built)
  BY <1>1, IdleFacts
<1>4. q \in Seq(Rsrcs)
  BY <1>2, ToSourcesFacts
<1> HIDE DEF q
<1>5. d \in DeliverFrames /\ d.adding = TRUE /\ d.queue = q /\ d.effect = "none"
  BY <1>4 DEF DeliverFrame, DeliverFrames
<1>6. DeliverGood(d, sources)
  BY <1>5 DEF DeliverGood
<1> HIDE DEF d
<1>7. OneDelivery(stack', d, sources, rows, built)
  BY <1>1, <1>5, <1>6, DeliveryFacts
<1>8. Rooted(stack', rows', resources')
  BY <1>1, <1>3, <1>7 DEF OneDelivery, Rooted
<1>9. Watchful(stack', managed', sources', resources')
  <2>1. /\ Queued(stack') = ToSet(q) /\ \A n : Going(stack', n) = {} /\ ~Joins(stack', n)
    BY <1>5, <1>7 DEF OneDelivery
  <2>2. QED
    BY <2>1, <1>1, <1>3 DEF Watchful
<1>10. Mirror(stack', handle', shown', rows', built')
  BY <1>1, <1>3, <1>7, MirrorCalm DEF OneDelivery
<1>11. QED
  BY <1>1, <1>2, <1>7, <1>8, <1>9, <1>10 DEF PhraseInv, OneDelivery

LEMMA AddSourceKeeps ==
  ASSUME PhraseInv, NEW m \in Managers, NEW x \in OperManagers, AddSource(m, x)
  PROVE  PhraseInv'
<1>1. PICK q \in SetToSeqs(managed[m]) :
        /\ Idle /\ << m, x >> \notin ToSet(sources)
        /\ stack' = << DeliverFrame(TRUE, q, "source", m, x) >>
        /\ UNCHANGED << managed, title, sources, resources, rows, built, observers, handle, shown >>
  BY DEF AddSource, worldVars, modelVars, viewVars
<1> DEFINE d == DeliverFrame(TRUE, q, "source", m, x)
<1>2. /\ World(managed, title, sources, resources) /\ Tree(rows, built) /\ ViewsKnown(observers, handle)
  BY DEF PhraseInv
<1>3. /\ ToSet(rows[Root]) = resources
      /\ \A n \in Managers : Watching(sources, n) => managed[n] \subseteq resources
      /\ AllShow(handle, shown, rows, built)
  BY <1>1, IdleFacts
<1>4. q \in Seq(Rsrcs) /\ ToSet(q) = managed[m]
  <2>1. IsFiniteSet(managed[m]) /\ managed[m] \subseteq Rsrcs
    BY <1>2 DEF World
  <2>2. q \in Seq(managed[m]) /\ ToSet(q) = managed[m]
    BY <2>1, AllInSome
  <2>3. QED
    BY <2>1, <2>2, SeqMonotonic
<1>5. /\ d \in DeliverFrames /\ d.adding = TRUE /\ d.queue = q /\ d.effect = "source"
      /\ d.mgr = m /\ d.rsrc = x
  BY <1>4 DEF DeliverFrame, DeliverFrames
<1>6. DeliverGood(d, sources)
  BY <1>1, <1>5 DEF DeliverGood
<1>7. stack' = << d >>
  BY <1>1
<1> HIDE DEF d
<1>8. OneDelivery(stack', d, sources, rows, built)
  BY <1>5, <1>6, <1>7, DeliveryFacts
<1>9. Rooted(stack', rows', resources')
  BY <1>1, <1>3, <1>8 DEF OneDelivery, Rooted
<1>10. Watchful(stack', managed', sources', resources')
  <2>1. /\ Queued(stack') = ToSet(q) /\ \A n : Going(stack', n) = {} /\ (Joins(stack', n) <=> m = n)
    BY <1>5, <1>8 DEF OneDelivery
  <2>2. QED
    BY <2>1, <1>1, <1>3, <1>4 DEF Watchful
<1>11. Mirror(stack', handle', shown', rows', built')
  BY <1>1, <1>3, <1>8, MirrorCalm DEF OneDelivery
<1>12. QED
  BY <1>1, <1>2, <1>8, <1>9, <1>10, <1>11 DEF PhraseInv, OneDelivery

LEMMA RelocateKeeps ==
  ASSUME PhraseInv, NEW r \in Rsrcs, NEW t \in Titles, Relocate(r, t)
  PROVE  PhraseInv'
<1>1. /\ title' = [title EXCEPT ![r] = t]
      /\ UNCHANGED << managed, sources, resources, rows, built, observers, handle, shown, stack >>
  BY DEF Relocate, modelVars, viewVars
<1>2. World(managed, title, sources, resources)
  BY DEF PhraseInv
<1>3. World(managed', title', sources', resources')
  BY <1>1, <1>2 DEF World
<1>4. QED
  BY <1>1, <1>3 DEF PhraseInv

LEMMA WatchingIs ==
  ASSUME NEW src \in Seq(Managers \X OperManagers), NEW m
  PROVE  Watching(src, m) <=> \E e \in ToSet(src) : e[1] = m
BY DEF Watching, ToSet

\* Fewer sources watch less.
LEMMA FewerSources ==
  ASSUME PhraseInv, Idle, NEW src \in ListOf(Managers \X OperManagers), ToSet(src) \subseteq ToSet(sources),
         sources' = src, UNCHANGED << managed, title, resources, rows, built, observers, handle, shown, stack >>
  PROVE  PhraseInv'
<1>1. /\ World(managed, title, sources, resources) /\ Tree(rows, built) /\ ViewsKnown(observers, handle)
      /\ Rooted(stack, rows, resources) /\ Mirror(stack, handle, shown, rows, built)
  BY DEF PhraseInv
<1>2. stack = << >> /\ \A n \in Managers : Watching(sources, n) => managed[n] \subseteq resources
  BY IdleFacts
<1>3. World(managed', title', sources', resources')
  BY <1>1 DEF World
<1>4. \A n \in Managers : Watching(src, n) => Watching(sources, n)
  <2>1. sources \in Seq(Managers \X OperManagers) /\ src \in Seq(Managers \X OperManagers)
    BY <1>1, ListFacts DEF World
  <2>2. QED
    BY <2>1, WatchingIs
<1>5. Watchful(stack', managed', sources', resources')
  BY <1>2, <1>4, WatchfulIdle
<1>6. Stacked(stack', sources', rows', built')
  BY <1>2 DEF Stacked
<1>7. QED
  BY <1>1, <1>3, <1>5, <1>6 DEF PhraseInv

LEMMA RemoveSourceKeeps ==
  ASSUME PhraseInv, NEW m \in Managers, NEW x \in OperManagers, RemoveSource(m, x)
  PROVE  PhraseInv'
<1>1. /\ Idle /\ sources' = RemoveFirst(sources, << m, x >>)
      /\ UNCHANGED << managed, title, resources, rows, built, observers, handle, shown, stack >>
  BY DEF RemoveSource, worldVars, viewVars
<1>2. sources \in ListOf(Managers \X OperManagers)
  BY DEF PhraseInv, World
<1>3. /\ RemoveFirst(sources, << m, x >>) \in ListOf(Managers \X OperManagers)
      /\ ToSet(RemoveFirst(sources, << m, x >>)) \subseteq ToSet(sources)
  BY <1>2, RemoveFirstList
<1>4. QED
  BY <1>1, <1>3, FewerSources

LEMMA EmptyList ==
  ASSUME NEW S
  PROVE  << >> \in ListOf(S) /\ ToSet(<< >>) = {}
<1>1. << >> \in Seq(S) /\ DOMAIN << >> = {}
  OBVIOUS
<1>2. QED
  BY <1>1 DEF ListOf, IsInjective, ToSet

LEMMA ResetSourcesKeeps ==
  ASSUME PhraseInv, ResetSources
  PROVE  PhraseInv'
<1>1. /\ Idle /\ sources' = << >>
      /\ UNCHANGED << managed, title, resources, rows, built, observers, handle, shown, stack >>
  BY DEF ResetSources, worldVars, viewVars
<1>2. QED
  BY <1>1, EmptyList, FewerSources

LEMMA TreeFacts ==
  ASSUME PhraseInv, NEW p \in Parents
  PROVE  /\ rows[p] \in ListOf(Items(p)) /\ rows[Root] \in ListOf(Rsrcs) /\ Root \in Parents
         /\ ToSet(rows[Root]) \subseteq Rsrcs
<1>1. Root \in Parents /\ Items(Root) = Rsrcs
  BY DEF Parents, Items
<1>2. \A q \in Parents : rows[q] \in ListOf(Items(q))
  BY DEF PhraseInv, Tree
<1>3. rows[Root] \in ListOf(Rsrcs)
  BY <1>1, <1>2
<1>4. ToSet(rows[Root]) \subseteq Rsrcs
  BY <1>3, MemberOfList DEF ListOf
<1>5. QED
  BY <1>1, <1>2, <1>3, <1>4

\* processResource() begins an update of the rows of the root.
UpdateBegun(s, d, u, src, R, bs, res) ==
  /\ Stacked(s, src, R, bs) /\ Rooted(s, R, res) /\ ~Telling(s) /\ s[1] = d /\ Delivers(s)

LEMMA RootUpdate ==
  ASSUME PhraseInv, NEW d \in DeliverFrames, DeliverGood(d, sources), NEW next \in ListOf(Rsrcs),
         NEW r, ToSet(next) \subseteq ToSet(rows[Root]) \cup {r}, NEW s,
         s = << d, UpdateFrame(Root, next) >>
  PROVE  UpdateBegun(s, d, UpdateFrame(Root, next), sources, rows, built \cup {Root}, ToSet(next))
<1> DEFINE u == UpdateFrame(Root, next)
           bs == built \cup {Root}
<1>1. rows[Root] \in ListOf(Items(Root)) /\ Root \in Parents /\ next \in ListOf(Items(Root))
  BY TreeFacts DEF Items, Parents
<1>2. u = NewFrame(Root, rows[Root], next)
  BY DEF UpdateFrame, NewFrame
<1>3. NewUpdate(u, Root, rows[Root], next, bs)
  BY <1>1, <1>2, NewFrameFacts
<1>4. InOnePlace(Fresh(rows[Root], next))
  BY <1>1, OneFresh
<1> HIDE DEF u
<1>5. /\ s # << >> /\ Len(s) = 2 /\ s[1] = d /\ s[2] = u /\ s[Len(s)] = u
  <2>1. s = << d, u >>
    BY DEF u
  <2>2. QED
    BY <2>1, TwoOnStack DEF TwoFrames
<1>6. u \in UpdateFrames /\ UpdateGood(u, rows[Root], bs) /\ u.parent = Root /\ u.goal = next /\ u.onePlace
  BY <1>3, <1>4 DEF NewUpdate, UpdateGood
<1>7. s = << d, u >>
  BY DEF u
<1>8. Stacked(s, sources, rows, bs)
  BY <1>6, <1>7 DEF Stacked
<1>9. Rooted(s, rows, ToSet(next))
  BY <1>5, <1>6 DEF Rooted
<1>10. ~Telling(s)
  BY <1>3, <1>5 DEF Telling, NewUpdate
<1>11. Delivers(s)
  BY <1>5, Kinds DEF Delivers
<1>12. QED
  BY <1>5, <1>8, <1>9, <1>10, <1>11 DEF UpdateBegun

\* The queue of a delivery gets shorter, and what was known is.
LEMMA WatchfulLater ==
  ASSUME NEW s, NEW t, NEW mng, NEW src, NEW res, NEW res2, Watchful(s, mng, src, res),
         \A m \in Managers : Going(t, m) = Going(s, m) /\ (Joins(t, m) <=> Joins(s, m)),
         res \cup Queued(s) \subseteq res2 \cup Queued(t) \cup {x \in res : \E m \in Managers : x \in Going(s, m)},
         \A m, n \in Managers : m # n => mng[m] \cap mng[n] = {},
         \A m \in Managers : Joins(s, m) => \A n \in Managers : Going(s, n) = {},
         \A m \in Managers : Watching(src, m) => Going(t, m) \cap res2 \subseteq Unsent(t)
  PROVE  Watchful(t, mng, src, res2)
<1>1. SUFFICES ASSUME NEW m \in Managers
               PROVE  /\ Watching(src, m) => mng[m] \ Going(t, m) \subseteq res2 \cup Queued(t)
                      /\ Going(t, m) \subseteq mng[m]
                      /\ Joins(t, m) => mng[m] \subseteq res2 \cup Queued(t)
  BY DEF Watchful
<1>2. Going(t, m) \subseteq mng[m]
  BY DEF Watchful
<1>3. ASSUME Watching(src, m), NEW x \in mng[m], x \notin Going(t, m) PROVE x \in res2 \cup Queued(t)
  <2>1. x \in res \cup Queued(s)
    BY <1>3 DEF Watchful
  <2>2. \A n \in Managers : x \notin Going(s, n)
    <3>1. SUFFICES ASSUME NEW n \in Managers, x \in Going(s, n) PROVE FALSE
      OBVIOUS
    <3>2. x \in mng[n]
      BY <3>1 DEF Watchful
    <3>3. QED
      BY <3>1, <3>2, <1>3
  <2>3. QED
    BY <2>1, <2>2
<1>4. ASSUME Joins(t, m) PROVE mng[m] \subseteq res2 \cup Queued(t)
  <2>1. mng[m] \subseteq res \cup Queued(s)
    BY <1>4 DEF Watchful
  <2>2. \A n \in Managers : Going(s, n) = {}
    BY <1>4
  <2>3. QED
    BY <2>1, <2>2
<1>5. QED
  BY <1>2, <1>3, <1>4

\* A delivery of the next resource of the queue.
LEMMA ProcessKeeps ==
  ASSUME PhraseInv, NEW d \in DeliverFrames, DeliverGood(d, sources), NEW r \in Rsrcs,
         NEW s, s = << d >>, ToSet(rows[Root]) = resources, Process(s, r, d.adding)
  PROVE  /\ resources' = IF d.adding THEN resources \cup {r} ELSE resources \ {r}
         /\ built' = built \/ built' = built \cup {Root}
         /\ Stacked(stack', sources, rows, built') /\ Rooted(stack', rows, resources')
         /\ ~Telling(stack') /\ stack'[1] = d /\ Delivers(stack')
<1>1. d.adding \in BOOLEAN /\ rows[Root] \in ListOf(Rsrcs)
  <2>1. Root \in Parents
    BY DEF Parents
  <2>2. QED
    BY <2>1, TreeFacts DEF DeliverFrames
<1>2. CASE d.adding = (r \in resources)
  <2>1. stack' = << d >> /\ resources' = resources /\ built' = built
    BY <1>2 DEF Process
  <2>2. resources = IF d.adding THEN resources \cup {r} ELSE resources \ {r}
    BY <1>1, <1>2
  <2>3. OneDelivery(stack', d, sources, rows, built)
    BY <2>1, DeliveryFacts
  <2>4. Rooted(stack', rows, resources')
    BY <2>1, <2>3 DEF OneDelivery, Rooted
  <2>5. stack'[1] = d /\ stack' # << >>
    BY <2>1, OneOnStack DEF OneFrame
  <2>6. Delivers(stack')
    BY <2>5, Kinds DEF Delivers
  <2>7. QED
    BY <2>1, <2>2, <2>3, <2>4, <2>5, <2>6 DEF OneDelivery
<1>3. CASE d.adding /\ r \notin resources
  <2>1. PICK next \in Sorted(Append(rows[Root], r)) :
          /\ stack' = Append(s, UpdateFrame(Root, next)) /\ resources' = resources \cup {r}
          /\ built' = built \cup {Root}
    BY <1>1, <1>3 DEF Process
  <2>2. Append(rows[Root], r) \in ListOf(Rsrcs) /\ ToSet(Append(rows[Root], r)) = resources \cup {r}
    BY <1>1, <1>3, AppendList
  <2>3. next \in ListOf(Rsrcs) /\ ToSet(next) = resources \cup {r}
    BY <2>2, SortedList
  <2>4. stack' = << d, UpdateFrame(Root, next) >>
    BY <2>1, OneOnStack DEF OneFrame
  <2>5. UpdateBegun(stack', d, UpdateFrame(Root, next), sources, rows, built \cup {Root}, ToSet(next))
    BY <2>3, <2>4, RootUpdate
  <2>6. QED
    BY <2>1, <2>3, <2>5, <1>3 DEF UpdateBegun
<1>4. CASE ~d.adding /\ r \in resources
  <2> DEFINE next == RemoveFirst(rows[Root], r)
  <2>1. /\ stack' = Append(s, UpdateFrame(Root, next)) /\ resources' = resources \ {r}
        /\ built' = built \cup {Root}
    BY <1>1, <1>4 DEF Process
  <2>2. next \in ListOf(Rsrcs) /\ ToSet(next) = resources \ {r}
    BY <1>1, RemoveFirstList
  <2> HIDE DEF next
  <2>3. stack' = << d, UpdateFrame(Root, next) >>
    BY <2>1, OneOnStack DEF OneFrame
  <2>4. UpdateBegun(stack', d, UpdateFrame(Root, next), sources, rows, built \cup {Root}, ToSet(next))
    BY <2>2, <2>3, RootUpdate
  <2>5. QED
    BY <2>1, <2>2, <2>4, <1>4 DEF UpdateBegun
<1>5. QED
  BY <1>1, <1>2, <1>3, <1>4

LEMMA ShorterQueue ==
  ASSUME NEW d \in DeliverFrames, NEW src, DeliverGood(d, src), d.queue # << >>,
         NEW t, t = [d EXCEPT !.queue = Tail(@)]
  PROVE  /\ t \in DeliverFrames /\ DeliverGood(t, src) /\ Head(d.queue) \in Rsrcs
         /\ t.adding = d.adding /\ t.effect = d.effect /\ t.mgr = d.mgr /\ t.rsrc = d.rsrc
         /\ ToSet(d.queue) = {Head(d.queue)} \cup ToSet(t.queue)
<1>1. d.queue \in Seq(Rsrcs)
  BY DEF DeliverFrames
<1> DEFINE q == d.queue
           w == Tail(q)
<1>2. /\ Head(q) \in Rsrcs /\ Head(q) = q[1] /\ w \in Seq(Rsrcs) /\ Len(w) = Len(q) - 1 /\ Len(q) \in Nat
      /\ Len(q) # 0 /\ \A i \in 1 .. Len(w) : w[i] = q[i + 1]
  BY <1>1, HeadTailProperties, LenProperties, EmptySeq
<1>3. /\ t \in DeliverFrames /\ t.queue = w
      /\ t.adding = d.adding /\ t.effect = d.effect /\ t.mgr = d.mgr /\ t.rsrc = d.rsrc
  BY <1>2 DEF DeliverFrames
<1> HIDE DEF w, q
<1>4. ASSUME NEW x PROVE x \in ToSet(q) <=> x = Head(q) \/ x \in ToSet(w)
  <2>1. x \in ToSet(q) <=> \E i \in 1 .. Len(q) : q[i] = x
    BY <1>1, MemberOfList DEF q
  <2>2. x \in ToSet(w) <=> \E i \in 1 .. Len(w) : w[i] = x
    BY <1>2, MemberOfList
  <2>3. ASSUME NEW i \in 1 .. Len(q), q[i] = x PROVE x = Head(q) \/ x \in ToSet(w)
    <3>1. CASE i = 1
      BY <3>1, <2>3, <1>2
    <3>2. CASE i # 1
      <4>1. i - 1 \in 1 .. Len(w) /\ i - 1 + 1 = i
        BY <3>2, <1>2
      <4>2. w[i - 1] = x
        BY <4>1, <2>3, <1>2
      <4>3. QED
        BY <4>1, <4>2, <2>2
    <3>3. QED
      BY <3>1, <3>2
  <2>4. ASSUME NEW i \in 1 .. Len(w), w[i] = x PROVE x \in ToSet(q)
    <3>1. i + 1 \in 1 .. Len(q) /\ q[i + 1] = x
      BY <2>4, <1>2
    <3>2. QED
      BY <3>1, <2>1
  <2>5. 1 \in 1 .. Len(q)
    BY <1>2
  <2>6. QED
    BY <2>1, <2>2, <2>3, <2>4, <2>5, <1>2
<1>5. ToSet(q) = {Head(q)} \cup ToSet(w)
  BY <1>4
<1>6. DeliverGood(t, src)
  BY <1>3, <1>5 DEF DeliverGood, q
<1>7. QED
  BY <1>2, <1>3, <1>5, <1>6 DEF q

LEMMA DeliverKeeps ==
  ASSUME PhraseInv, Deliver
  PROVE  PhraseInv'
<1>1. PICK d \in DeliverFrames : stack = << d >> /\ DeliverGood(d, sources)
  BY DeliverOnTop DEF Deliver, Delivering, Idle, Top, PhraseInv
<1> DEFINE t == [d EXCEPT !.queue = Tail(@)]
           r == Head(d.queue)
<1>2. OneDelivery(stack, d, sources, rows, built) /\ OneFrame(stack, d)
  BY <1>1, DeliveryFacts, OneOnStack
<1>3. Top = d /\ Rest = << >>
  BY <1>2 DEF OneFrame, Top, Rest
<1>4. /\ d.queue # << >> /\ Process(<< t >>, r, d.adding)
      /\ UNCHANGED << managed, title, sources, rows, observers, handle, shown >>
  <2>1. Append(<< >>, t) = << t >>
    BY AppendToOne
  <2>2. QED
    BY <2>1, <1>3 DEF Deliver, worldVars, viewVars
<1>5. /\ t \in DeliverFrames /\ DeliverGood(t, sources) /\ r \in Rsrcs
      /\ t.adding = d.adding /\ t.effect = d.effect /\ t.mgr = d.mgr /\ t.rsrc = d.rsrc
      /\ ToSet(d.queue) = {r} \cup ToSet(t.queue)
  BY <1>1, <1>4, ShorterQueue
<1>6. Process(<< t >>, r, t.adding)
  BY <1>4, <1>5
<1> HIDE DEF t, r
<1>7. ToSet(rows[Root]) = resources
  BY <1>2 DEF PhraseInv, Rooted, OneDelivery
<1>8. /\ resources' = IF d.adding THEN resources \cup {r} ELSE resources \ {r}
      /\ built' = built \/ built' = built \cup {Root}
      /\ Stacked(stack', sources, rows, built') /\ Rooted(stack', rows, resources')
      /\ ~Telling(stack') /\ stack'[1] = t /\ Delivers(stack')
  BY <1>5, <1>6, <1>7, ProcessKeeps
<1>9. /\ World(managed, title, sources, resources) /\ Tree(rows, built) /\ ViewsKnown(observers, handle)
      /\ Watchful(stack, managed, sources, resources)
      /\ AllShow(handle, shown, rows, built)
  BY <1>2, MirrorCalm DEF PhraseInv, OneDelivery
<1>10. World(managed', title', sources', resources')
  BY <1>4, <1>5, <1>8, <1>9 DEF World
<1>11. Watchful(stack', managed', sources', resources')
  <2>1. /\ Unsent(stack') = ToSet(t.queue) /\ Queued(stack') = IF d.adding THEN ToSet(t.queue) ELSE {}
        /\ \A m : Going(stack', m) = IF d.effect = "erase" /\ d.mgr = m THEN {d.rsrc} ELSE {}
        /\ \A m : Joins(stack', m) <=> d.effect = "source" /\ d.mgr = m
    BY <1>5, <1>8 DEF Unsent, Queued, Going, Joins
  <2>2. /\ Unsent(stack) = ToSet(d.queue) /\ Queued(stack) = IF d.adding THEN ToSet(d.queue) ELSE {}
        /\ \A m : Going(stack, m) = IF d.effect = "erase" /\ d.mgr = m THEN {d.rsrc} ELSE {}
        /\ \A m : Joins(stack, m) <=> d.effect = "source" /\ d.mgr = m
    BY <1>2 DEF OneDelivery
  <2>3. d.effect \in {"none", "erase", "source"}
    BY DEF DeliverFrames
  <2>4. ~d.adding => d.effect = "erase" /\ d.mgr \in Managers /\ r = d.rsrc
    BY <2>3, <1>1, <1>5 DEF DeliverGood
  <2>5. resources \cup Queued(stack) \subseteq resources' \cup Queued(stack') \cup {x \in resources : \E m \in Managers : x \in Going(stack, m)}
    <3>1. CASE d.adding
      BY <3>1, <2>1, <2>2, <1>5, <1>8
    <3>2. CASE ~d.adding
      <4>1. r \in Going(stack, d.mgr) /\ d.mgr \in Managers
        BY <3>2, <2>2, <2>4
      <4>2. Queued(stack) = {} /\ Queued(stack') = {} /\ resources' = resources \ {r}
        BY <3>2, <2>1, <2>2, <1>8
      <4>3. QED
        BY <4>1, <4>2
    <3>3. QED
      BY <3>1, <3>2
  <2>6. ASSUME NEW m \in Managers PROVE Going(stack', m) \cap resources' = {}
    <3>1. CASE d.effect = "erase" /\ d.mgr = m
      <4>1. ~d.adding
        BY <3>1, <1>1 DEF DeliverGood
      <4>2. QED
        BY <4>1, <3>1, <2>1, <2>4, <1>8
    <3>2. CASE ~(d.effect = "erase" /\ d.mgr = m)
      BY <3>2, <2>1
    <3>3. QED
      BY <3>1, <3>2
  <2>7. \A m \in Managers : Going(stack', m) = Going(stack, m) /\ (Joins(stack', m) <=> Joins(stack, m))
    BY <2>1, <2>2
  <2>8. \A m \in Managers : Joins(stack, m) => \A n \in Managers : Going(stack, n) = {}
    BY <2>2
  <2>9. \A m, n \in Managers : m # n => managed[m] \cap managed[n] = {}
    BY <1>9 DEF World
  <2>10. Watchful(stack', managed, sources, resources')
    BY <2>5, <2>6, <2>7, <2>8, <2>9, <1>9, WatchfulLater
  <2>11. QED
    BY <2>10, <1>4
<1>12. Mirror(stack', handle', shown', rows', built')
  <2>1. AllShow(handle, shown, rows, built')
    BY <1>8, <1>9, MoreBuilt
  <2>2. QED
    BY <2>1, <1>4, <1>8, MirrorCalm
<1>13. Tree(rows', built')
  BY <1>4, <1>8, <1>9 DEF Tree
<1>14. QED
  BY <1>4, <1>8, <1>9, <1>10, <1>11, <1>12, <1>13 DEF PhraseInv

LEMMA DeliveredKeeps ==
  ASSUME PhraseInv, Delivered
  PROVE  PhraseInv'
<1>1. PICK d \in DeliverFrames : stack = << d >> /\ DeliverGood(d, sources)
  BY DeliverOnTop DEF Delivered, Delivering, Idle, Top, PhraseInv
<1>2. OneDelivery(stack, d, sources, rows, built) /\ OneFrame(stack, d)
  BY <1>1, DeliveryFacts, OneOnStack
<1>3. /\ d.queue = << >> /\ stack' = << >>
      /\ managed' = IF d.effect = "erase" THEN [managed EXCEPT ![d.mgr] = @ \ {d.rsrc}] ELSE managed
      /\ sources' = IF d.effect = "source" THEN Append(sources, << d.mgr, d.rsrc >>) ELSE sources
      /\ UNCHANGED << title, resources, rows, built, observers, handle, shown >>
  <2>1. Top = d /\ Rest = << >>
    BY <1>2 DEF OneFrame, Top, Rest
  <2>2. QED
    BY <2>1 DEF Delivered, viewVars
<1>4. /\ World(managed, title, sources, resources) /\ Tree(rows, built) /\ ViewsKnown(observers, handle)
      /\ Watchful(stack, managed, sources, resources) /\ ToSet(rows[Root]) = resources
      /\ AllShow(handle, shown, rows, built)
  BY <1>2, MirrorCalm DEF PhraseInv, OneDelivery, Rooted
<1>5. /\ Unsent(stack) = {} /\ Queued(stack) = {}
      /\ \A m : Going(stack, m) = IF d.effect = "erase" /\ d.mgr = m THEN {d.rsrc} ELSE {}
      /\ \A m : Joins(stack, m) <=> d.effect = "source" /\ d.mgr = m
  BY <1>2, <1>3, EmptyList DEF OneDelivery
<1>6. ASSUME d.effect = "source"
      PROVE  /\ sources' \in ListOf(Managers \X OperManagers)
             /\ ToSet(sources') = ToSet(sources) \cup {<< d.mgr, d.rsrc >>} /\ d.mgr \in Managers
  <2>1. << d.mgr, d.rsrc >> \in Managers \X OperManagers /\ << d.mgr, d.rsrc >> \notin ToSet(sources)
    BY <1>1, <1>6 DEF DeliverGood
  <2>2. sources \in ListOf(Managers \X OperManagers)
    BY <1>4 DEF World
  <2>3. d.mgr \in Managers
    BY <1>1, <1>6 DEF DeliverGood
  <2>4. QED
    BY <2>1, <2>2, <2>3, <1>3, <1>6, AppendList
<1>7. /\ \A n \in Managers : managed'[n] = managed[n] \ Going(stack, n)
      /\ managed' \in [Managers -> SUBSET Rsrcs]
  <2>1. CASE d.effect = "erase"
    <3>1. managed' = [managed EXCEPT ![d.mgr] = @ \ {d.rsrc}] /\ d.mgr \in Managers
      BY <2>1, <1>1, <1>3 DEF DeliverGood
    <3>2. QED
      BY <3>1, <2>1, <1>4, <1>5 DEF World
  <2>2. CASE d.effect # "erase"
    BY <2>2, <1>3, <1>4, <1>5 DEF World
  <2>3. QED
    BY <2>1, <2>2
<1>8. World(managed', title', sources', resources')
  <2>1. sources' \in ListOf(Managers \X OperManagers)
    BY <1>3, <1>4, <1>6 DEF World
  <2>2. ASSUME NEW n \in Managers PROVE IsFiniteSet(managed'[n])
    <3>1. IsFiniteSet(managed[n]) /\ managed'[n] \in SUBSET managed[n]
      BY <1>4, <1>7 DEF World
    <3>2. QED
      BY <3>1, FS_Subset
  <2>3. \A m, n \in Managers : m # n => managed'[m] \cap managed'[n] = {}
    BY <1>4, <1>7 DEF World
  <2>4. QED
    BY <2>1, <2>2, <2>3, <1>3, <1>4, <1>7 DEF World
<1>9. Watchful(stack', managed', sources', resources')
  <2>1. SUFFICES ASSUME NEW m \in Managers, Watching(sources', m) PROVE managed'[m] \subseteq resources'
    BY <1>3, WatchfulIdle
  <2>2. CASE Watching(sources, m)
    BY <2>2, <1>3, <1>4, <1>5, <1>7 DEF Watchful
  <2>3. CASE ~Watching(sources, m)
    <3>1. d.effect = "source"
      BY <2>1, <2>3, <1>3
    <3>2. sources \in Seq(Managers \X OperManagers) /\ sources' \in Seq(Managers \X OperManagers)
      BY <3>1, <1>4, <1>6, ListFacts DEF World
    <3>3. PICK e \in ToSet(sources') : e[1] = m
      BY <3>2, <2>1, WatchingIs
    <3>4. e \notin ToSet(sources)
      BY <3>2, <3>3, <2>3, WatchingIs
    <3>5. e = << d.mgr, d.rsrc >>
      BY <3>1, <3>4, <1>6
    <3>6. d.mgr = m
      BY <3>3, <3>5
    <3>7. Joins(stack, m)
      BY <3>1, <3>6, <1>5
    <3>8. QED
      BY <3>7, <1>3, <1>4, <1>5, <1>7 DEF Watchful
  <2>4. QED
    BY <2>2, <2>3
<1>10. Rooted(stack', rows', resources') /\ Stacked(stack', sources', rows', built')
  BY <1>3, <1>4, EmptyStack DEF Rooted, Stacked
<1>11. Mirror(stack', handle', shown', rows', built')
  BY <1>3, <1>4, EmptyStack, MirrorCalm
<1>12. QED
  BY <1>3, <1>4, <1>8, <1>9, <1>10, <1>11 DEF PhraseInv

-----------------------------------------------------------------------------
(* Views come and go                                                         *)

LEMMA NextHandleFacts ==
  ASSUME DOMAIN observers \subseteq Handles, NextHandle <= MaxHandle
  PROVE  NextHandle \in Handles /\ NextHandle \notin DOMAIN observers
<1>1. MaxHandle \in Nat
  BY ConstantsOK
<1>2. CASE DOMAIN observers = {}
  BY <1>1, <1>2 DEF NextHandle, Handles
<1>3. CASE DOMAIN observers # {}
  <2> DEFINE D == DOMAIN observers
             k == CHOOSE h \in D : \A g \in D : g <= h
  <2>1. D \in SUBSET (0 .. MaxHandle) /\ D # {}
    BY <1>3 DEF Handles
  <2>2. NextHandle = 1 + k
    BY <1>3 DEF NextHandle
  <2> HIDE DEF D
  <2>3. \E h \in D : \A g \in D : g <= h
    BY <1>1, <2>1, LargestNumber
  <2>4. k \in D /\ \A g \in D : g <= k
    BY <2>3
  <2> HIDE DEF k
  <2>5. k \in Nat /\ 1 + k \notin D
    BY <2>1, <2>4
  <2>6. QED
    BY <1>1, <2>2, <2>5 DEF Handles, D
<1>4. QED
  BY <1>2, <1>3

\* A phrase whose children a view is not told of has none.
LEMMA TreeToldShows ==
  ASSUME PhraseInv
  PROVE  Shows(TreeTold, rows, built)
<1>1. Tree(rows, built)
  BY DEF PhraseInv
<1>2. rows \in Trees
  BY <1>1 DEF Tree
<1>3. ASSUME NEW p \in Parents PROVE ListShown(TreeTold[p], rows[p], p, built)
  <2>1. CASE Live(p) /\ p \in built
    BY <2>1 DEF TreeTold, ListShown
  <2>2. CASE ~(Live(p) /\ p \in built)
    <3>1. p \notin built
      BY <2>2, <1>1 DEF Live, Tree
    <3>2. rows[p] = << >>
      BY <3>1, <1>1 DEF Tree
    <3>3. QED
      BY <3>2, <2>2 DEF TreeTold, ListShown
  <2>3. QED
    BY <2>1, <2>2
<1>4. TreeTold = [p \in Parents |-> TreeTold[p]]
  BY DEF TreeTold
<1>5. QED
  BY <1>2, <1>3, <1>4, ShownTyped

LEMMA NotNil ==
  /\ Nil \notin Handles /\ -1 \notin Handles /\ \A h \in Handles : h \in Nat /\ h > -1
BY ConstantsOK DEF Handles

LEMMA StackTop ==
  ASSUME NEW stk, NEW src, NEW R, NEW bs, Stacked(stk, src, R, bs), stk # << >>
  PROVE  Len(stk) \in DOMAIN stk
<1>1. ASSUME NEW x, stk = << x >> PROVE Len(stk) \in DOMAIN stk
  BY <1>1
<1>2. ASSUME NEW x, NEW y, stk = << x, y >> PROVE Len(stk) \in DOMAIN stk
  BY <1>2
<1>3. QED
  BY <1>1, <1>2 DEF Stacked

LEMMA ObserveKeeps ==
  ASSUME PhraseInv, NEW v \in Views, Observe(v)
  PROVE  PhraseInv'
<1> DEFINE k == NextHandle
<1>1. /\ \A i \in DOMAIN stack : Sending(stack[i]) => Head(stack[i].todo).type \in {"aboutRemove", "aboutInsert"}
      /\ handle[v] = Nil /\ k <= MaxHandle
      /\ observers' = [h \in DOMAIN observers \cup {k} |-> IF h = k THEN v ELSE observers[h]]
      /\ handle' = [handle EXCEPT ![v] = k]
      /\ shown' = [shown EXCEPT ![v] = TreeTold]
      /\ UNCHANGED << managed, title, sources, resources, rows, built, stack >>
  BY DEF Observe, worldVars, modelVars
<1>2. /\ World(managed, title, sources, resources) /\ Tree(rows, built) /\ ViewsKnown(observers, handle)
      /\ Stacked(stack, sources, rows, built) /\ Rooted(stack, rows, resources)
      /\ Watchful(stack, managed, sources, resources) /\ Mirror(stack, handle, shown, rows, built)
  BY DEF PhraseInv
<1>3. k \in Handles /\ k \notin DOMAIN observers
  BY <1>1, <1>2, NextHandleFacts DEF ViewsKnown
<1> HIDE DEF k
<1>4. ViewsKnown(observers', handle')
  <2>1. \A g \in DOMAIN observers : observers[g] # v
    BY <1>1, <1>2, NotNil DEF ViewsKnown
  <2>2. /\ DOMAIN observers' = DOMAIN observers \cup {k}
        /\ observers'[k] = v /\ \A g \in DOMAIN observers : observers'[g] = observers[g]
    BY <1>1, <1>3
  <2>3. /\ handle' \in [Views -> Handles \cup {Nil}] /\ handle'[v] = k
        /\ \A w \in Views : w # v => handle'[w] = handle[w]
    BY <1>1, <1>2, <1>3 DEF ViewsKnown
  <2>4. \A g \in DOMAIN observers' : observers'[g] \in Views /\ handle'[observers'[g]] = g
    BY <2>1, <2>2, <2>3, <1>2 DEF ViewsKnown
  <2>5. \A w \in Views : handle'[w] # Nil => handle'[w] \in DOMAIN observers' /\ observers'[handle'[w]] = w
    BY <2>2, <2>3, <1>2 DEF ViewsKnown
  <2>6. QED
    BY <2>2, <2>3, <2>4, <2>5, <1>2, <1>3 DEF ViewsKnown
<1>5. ~Telling(stack)
  <2>1. SUFFICES ASSUME Telling(stack) PROVE FALSE
    OBVIOUS
  <2>2. stack # << >> /\ Len(stack) \in DOMAIN stack
    BY <2>1, <1>2, StackTop DEF Telling
  <2>3. Sending(stack[Len(stack)])
    BY <2>1 DEF Telling, Sending
  <2>4. QED
    BY <2>1, <2>2, <2>3, <1>1 DEF Telling
<1>6. Mirror(stack', handle', shown', rows', built')
  <2>1. AllShow(handle, shown, rows, built)
    BY <1>2, <1>5, MirrorCalm
  <2>2. Shows(TreeTold, rows, built) /\ TreeTold \in ViewTrees
    BY TreeToldShows DEF Shows
  <2>3. AllShow(handle', shown', rows, built)
    BY <2>1, <2>2, <1>1, <1>2 DEF AllShow, ViewsKnown
  <2>4. QED
    BY <2>3, <1>1, <1>5, MirrorCalm
<1>7. QED
  BY <1>1, <1>2, <1>4, <1>6 DEF PhraseInv

LEMMA NoRowsTree ==
  NoRows \in Trees /\ NoRows \in ViewTrees
<1>1. << >> \in Seq(Rsrcs \cup Parts) /\ << >> \in Seq(Rsrcs \cup Parts \cup {NoPhrase})
  BY EmptySeq
<1>2. QED
  BY <1>1 DEF NoRows, Trees, ViewTrees

LEMMA UnobserveKeeps ==
  ASSUME PhraseInv, NEW v \in Views, Unobserve(v)
  PROVE  PhraseInv'
<1>1. /\ handle[v] # Nil
      /\ observers' = [h \in DOMAIN observers \ {handle[v]} |-> observers[h]]
      /\ handle' = [handle EXCEPT ![v] = Nil]
      /\ shown' = [shown EXCEPT ![v] = NoRows]
      /\ UNCHANGED << managed, title, sources, resources, rows, built, stack >>
  BY DEF Unobserve, worldVars, modelVars
<1>2. /\ World(managed, title, sources, resources) /\ Tree(rows, built) /\ ViewsKnown(observers, handle)
      /\ Stacked(stack, sources, rows, built) /\ Rooted(stack, rows, resources)
      /\ Watchful(stack, managed, sources, resources) /\ Mirror(stack, handle, shown, rows, built)
  BY DEF PhraseInv
<1>3. /\ handle' \in [Views -> Handles \cup {Nil}] /\ handle'[v] = Nil
      /\ \A w \in Views : w # v => handle'[w] = handle[w]
  BY <1>1, <1>2 DEF ViewsKnown
<1>4. /\ DOMAIN observers' = DOMAIN observers \ {handle[v]}
      /\ \A g \in DOMAIN observers' : observers'[g] = observers[g]
  BY <1>1
<1>5. ViewsKnown(observers', handle')
  <2>1. \A g \in DOMAIN observers' : observers[g] # v
    BY <1>2, <1>4 DEF ViewsKnown
  <2>2. \A g \in DOMAIN observers' : observers'[g] \in Views /\ handle'[observers'[g]] = g
    BY <2>1, <1>2, <1>3, <1>4 DEF ViewsKnown
  <2>3. \A w \in Views : handle'[w] # Nil => handle'[w] \in DOMAIN observers' /\ observers'[handle'[w]] = w
    <3>1. SUFFICES ASSUME NEW w \in Views, handle'[w] # Nil
                   PROVE  handle'[w] \in DOMAIN observers' /\ observers'[handle'[w]] = w
      OBVIOUS
    <3>2. w # v /\ handle'[w] = handle[w]
      BY <3>1, <1>3
    <3>3. handle[w] \in DOMAIN observers /\ observers[handle[w]] = w
      BY <3>1, <3>2, <1>2 DEF ViewsKnown
    <3>4. handle[w] # handle[v]
      BY <3>2, <3>3, <1>1, <1>2 DEF ViewsKnown
    <3>5. QED
      BY <3>2, <3>3, <3>4, <1>4
  <2>4. QED
    BY <2>2, <2>3, <1>2, <1>3, <1>4 DEF ViewsKnown
<1>6. Mirror(stack', handle', shown', rows', built')
  <2>1. shown' \in [Views -> ViewTrees] /\ \A w \in Views : w # v => shown'[w] = shown[w]
    BY <1>1, <1>2, NoRowsTree DEF Mirror
  <2>2. ASSUME NEW w \in Views, handle'[w] # Nil
        PROVE  IF Awaits(stack, handle'[w])
               THEN Shows(After(shown'[w], Head(stack[Len(stack)].todo), rows), rows, built)
               ELSE Shows(shown'[w], rows, built)
    <3>1. w # v /\ handle'[w] = handle[w]
      BY <2>2, <1>3
    <3>2. handle[w] # Nil /\ shown'[w] = shown[w]
      BY <3>1, <2>1, <2>2
    <3>3. IF Awaits(stack, handle[w])
          THEN Shows(After(shown[w], Head(stack[Len(stack)].todo), rows), rows, built)
          ELSE Shows(shown[w], rows, built)
      BY <3>2, <1>2 DEF Mirror
    <3>4. QED
      BY <3>1, <3>2, <3>3
  <2>3. QED
    BY <2>1, <2>2, <1>1 DEF Mirror
<1>7. QED
  BY <1>1, <1>2, <1>5, <1>6 DEF PhraseInv

-----------------------------------------------------------------------------
(* Children are built and replaced                                           *)

LEMMA ChildUpdate ==
  ASSUME PhraseInv, Idle, NEW r \in Rsrcs, NEW next \in ListOf(Parts), NEW bs, r \in bs, r \notin Silent,
         Tree(rows, bs), AllShow(handle, shown, rows, bs),
         stack' = << UpdateFrame(r, next) >>, built' = bs,
         UNCHANGED << managed, title, sources, resources, rows, observers, handle, shown >>
  PROVE  PhraseInv'
<1> DEFINE u == UpdateFrame(r, next)
<1>1. r \in Parents /\ r # Root /\ Items(r) = Parts
  BY ConstantsOK DEF Parents, Items
<1>2. rows[r] \in ListOf(Items(r)) /\ next \in ListOf(Items(r))
  BY <1>1, TreeFacts
<1>3. u = NewFrame(r, rows[r], next)
  BY DEF UpdateFrame, NewFrame
<1>4. NewUpdate(u, r, rows[r], next, bs)
  BY <1>1, <1>2, <1>3, NewFrameFacts
<1>5. stack' = << u >>
  OBVIOUS
<1> HIDE DEF u
<1>6. stack' # << >> /\ Len(stack') = 1 /\ stack'[1] = u /\ stack'[Len(stack')] = u
  BY <1>5, OneOnStack DEF OneFrame
<1>7. u \in UpdateFrames /\ UpdateGood(u, rows[r], bs) /\ u.parent = r
  BY <1>4 DEF NewUpdate, UpdateGood
<1>8. Stacked(stack', sources, rows, bs)
  BY <1>1, <1>5, <1>7 DEF Stacked
<1>9. /\ stack = << >> /\ ToSet(rows[Root]) = resources
      /\ \A n \in Managers : Watching(sources, n) => managed[n] \subseteq resources
  BY IdleFacts
<1>10. Rooted(stack', rows, resources)
  BY <1>6, <1>9 DEF Rooted
<1>11. Watchful(stack', managed, sources, resources)
  <2>1. ~Delivers(stack') /\ ~Delivers(stack)
    BY <1>6, <1>7, <1>9, Kinds DEF Delivers
  <2>2. QED
    BY <2>1, WatchfulStill DEF PhraseInv, SameBelow
<1>12. ~Telling(stack')
  BY <1>4, <1>6 DEF Telling, NewUpdate
<1>13. Mirror(stack', handle', shown', rows', built')
  BY <1>12, MirrorCalm
<1>14. World(managed, title, sources, resources) /\ ViewsKnown(observers, handle)
  BY DEF PhraseInv
<1>15. QED
  BY <1>8, <1>10, <1>11, <1>13, <1>14 DEF PhraseInv

LEMMA BuildKeeps ==
  ASSUME PhraseInv, ~BuildInLoops, NEW r \in Rsrcs, Build(r)
  PROVE  PhraseInv'
<1>1. /\ Idle /\ Live(r) /\ r \notin built /\ built' = built \cup {r}
      /\ IF r \in Silent
         THEN rows' = [rows EXCEPT ![r] = Generated[r]] /\ UNCHANGED stack
         ELSE stack' = Append(stack, UpdateFrame(r, Generated[r])) /\ UNCHANGED rows
      /\ UNCHANGED << managed, title, sources, resources, observers, handle, shown >>
  BY DEF Build, worldVars, viewVars
<1>2. Generated[r] \in ListOf(Parts)
  BY ConstantsOK DEF ListOf
<1>3. r \in Parents /\ r # Root /\ Root \in Parents /\ Items(r) = Parts /\ r \in ToSet(rows[Root])
  BY <1>1, ConstantsOK DEF Live, Parents, Items
<1>4. /\ Tree(rows, built) /\ World(managed, title, sources, resources) /\ ViewsKnown(observers, handle)
      /\ rows \in Trees
  BY DEF PhraseInv, Tree
<1>5. /\ stack = << >> /\ ToSet(rows[Root]) = resources /\ AllShow(handle, shown, rows, built)
      /\ \A m \in Managers : Watching(sources, m) => managed[m] \subseteq resources
  BY <1>1, IdleFacts
<1>6. CASE r \notin Silent
  <2>1. stack' = << UpdateFrame(r, Generated[r]) >>
    BY <1>1, <1>5, <1>6, AppendToOne
  <2>2. Tree(rows, built \cup {r})
    BY <1>3, <1>4 DEF Tree
  <2>3. AllShow(handle, shown, rows, built \cup {r})
    BY <1>5, MoreBuilt
  <2>4. QED
    BY <2>1, <2>2, <2>3, <1>1, <1>2, <1>6, ChildUpdate
<1>7. CASE r \in Silent
  <2>1. /\ rows' \in Trees /\ rows'[r] = Generated[r] /\ \A p \in Parents : p # r => rows'[p] = rows[p]
    <3>1. rows' = [rows EXCEPT ![r] = Generated[r]]
      BY <1>1, <1>7
    <3>2. Generated[r] \in Seq(Rsrcs \cup Parts)
      <4>1. Generated[r] \in Seq(Parts) /\ Parts \subseteq Rsrcs \cup Parts
        BY <1>2 DEF ListOf
      <4>2. QED
        BY <4>1, SeqMonotonic
    <3>3. QED
      BY <3>1, <3>2, <1>3, <1>4 DEF Trees
  <2>2. Tree(rows', built')
    <3>1. rows'[Root] = rows[Root]
      BY <2>1, <1>3
    <3>2. \A p \in Parents : rows'[p] \in ListOf(Items(p))
      BY <2>1, <1>2, <1>3, <1>4 DEF Tree
    <3>3. \A p \in Parents : p \notin built' => rows'[p] = << >>
      BY <2>1, <1>1, <1>4 DEF Tree
    <3>4. built' \subseteq {Root} \cup ToSet(rows'[Root])
      BY <3>1, <1>1, <1>3, <1>4 DEF Tree
    <3>5. QED
      BY <2>1, <3>2, <3>3, <3>4 DEF Tree
  <2>3. rows[r] = << >>
    BY <1>1, <1>3, <1>4 DEF Tree
  <2>4. AllShow(handle, shown, rows', built')
    BY <2>1, <2>3, <1>1, <1>3, <1>4, <1>5, <1>7, SilentlyBuilt
  <2>5. stack' = << >>
    BY <1>1, <1>5, <1>7
  <2>6. Mirror(stack', handle', shown', rows', built')
    BY <2>4, <2>5, <1>1, EmptyStack, MirrorCalm
  <2>7. Stacked(stack', sources', rows', built')
    BY <2>5 DEF Stacked
  <2>8. Rooted(stack', rows', resources')
    BY <2>1, <2>5, <1>1, <1>3, <1>5, EmptyStack DEF Rooted
  <2>9. Watchful(stack', managed', sources', resources')
    BY <2>5, <1>1, <1>5, WatchfulIdle
  <2>10. QED
    BY <2>2, <2>6, <2>7, <2>8, <2>9, <1>1, <1>4 DEF PhraseInv
<1>8. QED
  BY <1>6, <1>7

\* While a view runs the root has been asked for its rows; before that it has
\* none.
LEMMA BuildRootKeeps ==
  ASSUME PhraseInv, BuildRoot
  PROVE  PhraseInv'
<1>1. /\ ClientRuns /\ Root \notin built /\ built' = built \cup {Root}
      /\ UNCHANGED << managed, title, sources, resources, rows, observers, handle, shown, stack >>
  BY DEF BuildRoot, worldVars, viewVars
<1>2. /\ Tree(rows, built) /\ World(managed, title, sources, resources)
      /\ Stacked(stack, sources, rows, built) /\ Rooted(stack, rows, resources)
      /\ Watchful(stack, managed, sources, resources) /\ ViewsKnown(observers, handle)
  BY DEF PhraseInv
<1>3. Root \in Parents /\ rows[Root] = << >>
  <2>1. Root \in Parents
    BY DEF Parents
  <2>2. QED
    BY <2>1, <1>1, <1>2 DEF Tree
<1>4. built = {}
  BY <1>1, <1>2, <1>3, EmptyList DEF Tree
<1>5. Idle
  <2>1. SUFFICES ASSUME ~Idle, Update(Top) PROVE FALSE
    BY <1>1 DEF ClientRuns, ViewRuns
  <2>2. OnTop(stack, rows, built)
    BY <2>1, <1>2, UpdateOnTop DEF Idle, Top
  <2>3. QED
    BY <2>2, <1>4 DEF OnTop
<1>6. stack = << >> /\ AllShow(handle, shown, rows, built)
  BY <1>5, IdleFacts
<1>7. Tree(rows, built')
  BY <1>1, <1>2 DEF Tree
<1>8. AllShow(handle, shown, rows, built')
  BY <1>1, <1>6, MoreBuilt
<1>9. Mirror(stack', handle', shown', rows', built')
  BY <1>1, <1>6, <1>8, EmptyStack, MirrorCalm
<1>10. Stacked(stack', sources', rows', built')
  BY <1>1, <1>6 DEF Stacked
<1>11. QED
  BY <1>1, <1>2, <1>7, <1>9, <1>10 DEF PhraseInv

LEMMA UpdateChildrenKeeps ==
  ASSUME PhraseInv, NEW r \in Rsrcs, NEW next \in NewLists, UpdateChildren(r, next)
  PROVE  PhraseInv'
<1>1. /\ Idle /\ r \in built /\ r \notin Silent /\ stack' = << UpdateFrame(r, next) >>
      /\ UNCHANGED << managed, title, sources, resources, rows, built, observers, handle, shown >>
  BY DEF UpdateChildren, worldVars, modelVars, viewVars
<1>2. next \in ListOf(Parts)
  BY ConstantsOK DEF ListOf
<1>3. Tree(rows, built) /\ AllShow(handle, shown, rows, built)
  BY <1>1, IdleFacts DEF PhraseInv
<1>4. QED
  BY <1>1, <1>2, <1>3, ChildUpdate

-----------------------------------------------------------------------------
(* updateChildren() and trigger()                                            *)

\* Only the loop of g stands elsewhere than that of f.
LoopMoved(g, f, R, bs, c) ==
  /\ UpdateGood(g, R, bs) /\ g.parent = f.parent /\ g.goal = f.goal /\ g.onePlace = f.onePlace
  /\ g.todo = f.todo /\ g.cursor = c /\ g.kind = f.kind

LEMMA LoopMoves ==
  ASSUME NEW f, NEW R, NEW bs, UpdateGood(f, R, bs), NEW c \in Handles \cup {-1}, NEW b \in BOOLEAN,
         f.todo # << >>, b => Head(f.todo).type # "check", NEW g, g = [f EXCEPT !.cursor = c, !.calling = b]
  PROVE  LoopMoved(g, f, R, bs, c)
<1>1. f \in UpdateFrames
  BY DEF UpdateGood
<1>2. /\ g \in UpdateFrames /\ g.parent = f.parent /\ g.goal = f.goal /\ g.onePlace = f.onePlace
      /\ g.keeps = f.keeps /\ g.todo = f.todo /\ g.cursor = c /\ g.kind = f.kind
      /\ g.unused = f.unused /\ g.insert = f.insert
  BY <1>1 DEF UpdateFrames
<1>3. \A type : Taken(g, type) = Taken(f, type)
  BY <1>2 DEF Taken
<1>4. WorkKnown(g, R, g.unused \cup Taken(g, "aboutRemove"), g.insert \cup Taken(g, "aboutInsert"))
  BY <1>2, <1>3 DEF UpdateGood, WorkKnown
<1>5. \A b2, s, t : Pair(g, b2, s, t) = Pair(f, b2, s, t)
  BY <1>2 DEF Pair
<1>6. Shaped(g, R, bs)
  <2>1. Shaped(f, R, bs)
    BY DEF UpdateGood
  <2>2. Ended(f) => Ended(g)
    BY <1>2 DEF Ended
  <2>3. Removing(f) => Removing(g)
    BY <1>2, <1>5 DEF Removing
  <2>4. Removed(f) => Removed(g)
    BY <1>2 DEF Removed
  <2>5. Inserting(f) => Inserting(g)
    BY <1>2, <1>5 DEF Inserting
  <2>6. PutIn(f, R, bs) => PutIn(g, R, bs)
    BY <1>2 DEF PutIn, NewRows
  <2>7. Checking(f, bs) => Checking(g, bs)
    BY <1>2 DEF Checking
  <2>8. QED
    BY <2>1, <2>2, <2>3, <2>4, <2>5, <2>6, <2>7 DEF Shaped
<1>7. g.calling => g.todo # << >> /\ Head(g.todo).type # "check"
  <2>1. g.calling = b
    BY <1>1 DEF UpdateFrames
  <2>2. QED
    BY <2>1, <1>2
<1>8. QED
  BY <1>2, <1>4, <1>6, <1>7 DEF UpdateGood, LoopMoved

\* The innermost update, and the rows it is about.
LEMMA Innermost ==
  ASSUME PhraseInv, ~Idle, Update(Top)
  PROVE  /\ Top = stack[Len(stack)] /\ stack # << >>
         /\ Top \in UpdateFrames /\ Top.parent \in Parents /\ UpdateGood(Top, rows[Top.parent], built)
         /\ rows[Top.parent] \in ListOf(Items(Top.parent)) /\ Top.goal \in ListOf(Items(Top.parent))
         /\ Top.parent \in built /\ Top.parent \notin Silent
         /\ Top.calling \in BOOLEAN /\ (Head(Top.todo).type = "check" => Top.calling = FALSE)
         /\ Top.todo # << >> => Head(Top.todo).type \in {"aboutRemove", "removed", "aboutInsert", "inserted", "check"}
<1>1. Top = stack[Len(stack)] /\ stack # << >>
  BY DEF Top, Idle
<1>2. OnTop(stack, rows, built)
  BY <1>1, UpdateOnTop DEF PhraseInv
<1>3. /\ Top \in UpdateFrames /\ Top.parent \in Parents /\ UpdateGood(Top, rows[Top.parent], built)
      /\ Top.parent \in built /\ Top.parent \notin Silent
  BY <1>1, <1>2 DEF OnTop
<1>4. rows[Top.parent] \in ListOf(Items(Top.parent))
  BY <1>3, TreeFacts
<1>5. Top.todo # << >> => Head(Top.todo).type \in {"aboutRemove", "removed", "aboutInsert", "inserted", "check"}
  BY <1>3, PhaseFacts DEF UpdateGood
<1>6. Top.calling \in BOOLEAN /\ (Head(Top.todo).type = "check" => Top.calling = FALSE)
  BY <1>3, FrameFields DEF UpdateGood
<1>7. QED
  BY <1>1, <1>3, <1>4, <1>5, <1>6 DEF UpdateGood

\* A step of the innermost update that leaves the rows alone.
LEMMA SameRows ==
  ASSUME PhraseInv, ~Idle, Update(Top), NEW g, UpdateGood(g, rows[Top.parent], built),
         g.parent = Top.parent, g.goal = Top.goal, g.onePlace = Top.onePlace, Become(g),
         UNCHANGED << managed, title, sources, resources, rows, built, observers, handle >>,
         Mirror(stack', handle, shown', rows, built)
  PROVE  PhraseInv'
<1>1. /\ Top = stack[Len(stack)] /\ stack # << >>
      /\ Top.parent \in built
  BY Innermost
<1>2. stack' = Append(SubSeq(stack, 1, Len(stack) - 1), g)
  BY DEF Become, Rest
<1>3. /\ Stacked(stack, sources, rows, built) /\ Rooted(stack, rows, resources)
      /\ Watchful(stack, managed, sources, resources)
      /\ World(managed, title, sources, resources) /\ Tree(rows, built) /\ ViewsKnown(observers, handle)
  BY DEF PhraseInv
<1>4. Follows(stack', stack, g, sources, rows, built, managed, resources)
  BY <1>1, <1>2, <1>3, BecomeKeeps
<1>5. QED
  BY <1>3, <1>4 DEF PhraseInv, Follows

\* What Become puts on top.
LEMMA Became ==
  ASSUME PhraseInv, ~Idle, NEW g, Become(g)
  PROVE  stack' # << >> /\ stack'[Len(stack')] = g
<1>1. stack # << >> /\ stack' = Append(SubSeq(stack, 1, Len(stack) - 1), g)
  BY DEF Become, Rest, Idle
<1>2. ASSUME NEW x, stack = << x >> PROVE stack' # << >> /\ stack'[Len(stack')] = g
  <2>1. stack' = << g >>
    BY <1>1, <1>2, OneOnStack DEF OneFrame
  <2>2. QED
    BY <2>1, OneOnStack DEF OneFrame
<1>3. ASSUME NEW x, NEW y, stack = << x, y >> PROVE stack' # << >> /\ stack'[Len(stack')] = g
  <2>1. TwoFrames(stack, x, y)
    BY <1>3, TwoOnStack
  <2>2. stack' = << x, g >>
    BY <1>1, <2>1 DEF TwoFrames
  <2>3. TwoFrames(stack', x, g)
    BY <2>2, TwoOnStack
  <2>4. QED
    BY <2>3 DEF TwoFrames
<1>4. QED
  BY <1>1, <1>2, <1>3 DEF PhraseInv, Stacked

LEMMA ReturnKeeps ==
  ASSUME PhraseInv, Return
  PROVE  PhraseInv'
<1> DEFINE g == [Top EXCEPT !.calling = FALSE]
<1>1. /\ ~Idle /\ Update(Top) /\ Top.calling /\ Become(g)
      /\ UNCHANGED << managed, title, sources, resources, rows, built, observers, handle, shown >>
  BY DEF Return, ViewRuns, worldVars, modelVars, viewVars
<1>2. UpdateGood(Top, rows[Top.parent], built) /\ Top \in UpdateFrames /\ Top = stack[Len(stack)] /\ stack # << >>
  BY <1>1, Innermost
<1>3. Top.cursor \in Handles \cup {-1} /\ Top.todo # << >>
  BY <1>1, <1>2, FrameFields DEF UpdateGood
<1>4. g = [Top EXCEPT !.cursor = Top.cursor, !.calling = FALSE]
  BY <1>2 DEF UpdateFrames
<1> HIDE DEF g
<1>5. /\ UpdateGood(g, rows[Top.parent], built) /\ g.parent = Top.parent /\ g.goal = Top.goal
      /\ g.onePlace = Top.onePlace /\ g.todo = Top.todo /\ g.cursor = Top.cursor /\ g.kind = Top.kind
  <2>1. LoopMoved(g, Top, rows[Top.parent], built, Top.cursor)
    BY <1>2, <1>3, <1>4, LoopMoves
  <2>2. QED
    BY <2>1 DEF LoopMoved
<1>6. stack' # << >> /\ stack'[Len(stack')] = g
  BY <1>1, Became
<1>7. Mirror(stack', handle, shown', rows, built)
  <2>1. Telling(stack') <=> Telling(stack)
    BY <1>1, <1>2, <1>5, <1>6 DEF Telling, Update
  <2>2. \A k : Awaits(stack', k) <=> Awaits(stack, k)
    BY <2>1, <1>2, <1>5, <1>6 DEF Awaits
  <2>3. Mirror(stack, handle, shown, rows, built)
    BY DEF PhraseInv
  <2>4. stack'[Len(stack')].todo = stack[Len(stack)].todo
    BY <1>2, <1>5, <1>6
  <2>5. QED
    BY <2>2, <2>3, <2>4, <1>1 DEF Mirror
<1>8. QED
  BY <1>1, <1>5, <1>7, SameRows

\* Once all views were told, they show the rows.
LEMMA LoopOver ==
  ASSUME PhraseInv, ~Idle, Ahead(Top) = {}
  PROVE  AllShow(handle, shown, rows, built)
<1>1. Mirror(stack, handle, shown, rows, built) /\ ViewsKnown(observers, handle)
  BY DEF PhraseInv
<1>2. ASSUME NEW v \in Views, handle[v] # Nil PROVE ~Awaits(stack, handle[v])
  <2>1. handle[v] \in DOMAIN observers
    BY <1>1, <1>2 DEF ViewsKnown
  <2>2. ~(handle[v] > Top.cursor)
    BY <2>1 DEF Ahead
  <2>3. QED
    BY <2>2 DEF Awaits, Top
<1>3. QED
  BY <1>1, <1>2 DEF Mirror, AllShow

LEMMA VisitKeeps ==
  ASSUME PhraseInv, Visit
  PROVE  PhraseInv'
<1> DEFINE h == CHOOSE k \in Ahead(Top) : \A j \in Ahead(Top) : k <= j
           v == observers[h]
           g == [Top EXCEPT !.cursor = h, !.calling = TRUE]
           e == Head(Top.todo)
<1>1. /\ ~Idle /\ Update(Top) /\ Top.todo # << >> /\ Ahead(Top) # {} /\ e.type # "check"
      /\ Become(g) /\ shown' = [shown EXCEPT ![v] = Replay(@, e)]
      /\ UNCHANGED << managed, title, sources, resources, rows, built, observers, handle >>
  BY DEF Visit, InLoop, Sending, worldVars, modelVars
<1>2. /\ Mirror(stack, handle, shown, rows, built) /\ ViewsKnown(observers, handle) /\ Tree(rows, built)
  BY DEF PhraseInv
<1>3. h \in Ahead(Top) /\ \A j \in Ahead(Top) : h <= j
  <2>1. Ahead(Top) \in SUBSET Nat
    BY <1>2, NotNil DEF Ahead, ViewsKnown
  <2>2. \E k \in Ahead(Top) : \A j \in Ahead(Top) : k <= j
    BY <2>1, <1>1, SmallestNumber
  <2>3. QED
    BY <2>2
<1> HIDE DEF h
<1>4. h \in DOMAIN observers /\ h > Top.cursor /\ h \in Handles /\ v \in Views /\ handle[v] = h /\ h # Nil /\ h \in Nat
  BY <1>2, <1>3, NotNil DEF Ahead, ViewsKnown
<1>5. /\ UpdateGood(Top, rows[Top.parent], built) /\ Top = stack[Len(stack)] /\ stack # << >>
      /\ Top.cursor \in Handles \cup {-1}
      /\ e.type \in {"aboutRemove", "removed", "aboutInsert", "inserted", "check"}
  BY <1>1, Innermost, FrameFields
<1>6. /\ UpdateGood(g, rows[Top.parent], built) /\ g.parent = Top.parent /\ g.goal = Top.goal
      /\ g.onePlace = Top.onePlace /\ g.todo = Top.todo /\ g.cursor = h /\ g.kind = Top.kind
  <2>1. h \in Handles \cup {-1} /\ Head(Top.todo).type # "check"
    BY <1>1, <1>4
  <2>2. LoopMoved(g, Top, rows[Top.parent], built, h)
    BY <2>1, <1>1, <1>5, LoopMoves
  <2>3. QED
    BY <2>2 DEF LoopMoved
<1> HIDE DEF g
<1>7. stack' # << >> /\ stack'[Len(stack')] = g
  BY <1>1, Became
<1>8. Telling(stack') <=> Telling(stack)
  BY <1>1, <1>5, <1>6, <1>7 DEF Telling, Update
<1>9. /\ \A k : Awaits(stack', k) <=> Telling(stack) /\ k > h
      /\ \A k : Awaits(stack, k) <=> Telling(stack) /\ k > Top.cursor
  BY <1>5, <1>6, <1>7, <1>8 DEF Awaits
<1>10. Replay(shown[v], e) = After(shown[v], e, rows)
  BY DEF Replay, After
<1>11. Shows(Replay(shown[v], e), rows, built)
  <2>1. CASE Telling(stack)
    <3>1. Awaits(stack, handle[v])
      BY <2>1, <1>4, <1>9
    <3>2. QED
      BY <3>1, <1>2, <1>4, <1>5, <1>10 DEF Mirror
  <2>2. CASE ~Telling(stack)
    <3>1. e.type \notin {"removed", "inserted", "told"}
      BY <2>2, <1>1, <1>5 DEF Telling
    <3>2. Replay(shown[v], e) = shown[v]
      BY <3>1, <1>10 DEF After
    <3>3. QED
      BY <3>2, <2>2, <1>2, <1>4, MirrorCalm DEF AllShow
  <2>3. QED
    BY <2>1, <2>2
<1>12. Replay(shown[v], e) \in ViewTrees
  BY <1>11 DEF Shows
<1>13. /\ shown' \in [Views -> ViewTrees] /\ Shows(shown'[v], rows, built)
       /\ \A w \in Views : w # v => shown'[w] = shown[w]
  BY <1>1, <1>2, <1>4, <1>11, <1>12 DEF Mirror
<1> HIDE DEF v, e
<1>14. ASSUME NEW w \in Views, handle[w] # Nil
       PROVE  IF Awaits(stack', handle[w])
              THEN Shows(After(shown'[w], Head(stack'[Len(stack')].todo), rows), rows, built)
              ELSE Shows(shown'[w], rows, built)
  <2>1. CASE w = v
    <3>1. ~Awaits(stack', handle[w])
      BY <2>1, <1>4, <1>9
    <3>2. QED
      BY <3>1, <2>1, <1>13
  <2>2. CASE w # v
    <3>1. handle[w] \in DOMAIN observers /\ observers[handle[w]] = w /\ handle[w] \in Nat
      BY <1>2, <1>14, NotNil DEF ViewsKnown
    <3>2. handle[w] # h
      BY <3>1, <2>2 DEF v
    <3>3. Awaits(stack', handle[w]) <=> Awaits(stack, handle[w])
      <4>1. ASSUME handle[w] > Top.cursor PROVE handle[w] > h
        <5>1. h <= handle[w]
          BY <3>1, <4>1, <1>3 DEF Ahead
        <5>2. QED
          BY <5>1, <3>1, <3>2, <1>4
      <4>2. ASSUME handle[w] > h PROVE handle[w] > Top.cursor
        BY <4>2, <3>1, <1>4, <1>5, NotNil
      <4>3. QED
        BY <4>1, <4>2, <1>9
    <3>4. stack'[Len(stack')].todo = stack[Len(stack)].todo
      BY <1>5, <1>6, <1>7
    <3>5. shown'[w] = shown[w]
      BY <2>2, <1>13
    <3>6. IF Awaits(stack, handle[w])
          THEN Shows(After(shown[w], Head(stack[Len(stack)].todo), rows), rows, built)
          ELSE Shows(shown[w], rows, built)
      BY <1>2, <1>14 DEF Mirror
    <3>7. QED
      BY <3>3, <3>4, <3>5, <3>6
  <2>3. QED
    BY <2>1, <2>2
<1>15. Mirror(stack', handle, shown', rows, built)
  BY <1>13, <1>14 DEF Mirror
<1>16. QED
  BY <1>1, <1>6, <1>15, SameRows

\* A step past an event, if no view is told before and after it.
LEMMA SettledKeeps ==
  ASSUME PhraseInv, ~Idle, Update(Top), NEW g, Settled(g, Top, rows[Top.parent], built), Become(g),
         UNCHANGED << managed, title, sources, resources, rows, built, observers, handle, shown >>,
         AllShow(handle, shown, rows, built)
  PROVE  PhraseInv'
<1>1. stack' # << >> /\ stack'[Len(stack')] = g
  BY Became
<1>2. ~Telling(stack')
  BY <1>1 DEF Telling, Settled
<1>3. Mirror(stack', handle, shown', rows, built)
  BY <1>2, MirrorCalm
<1>4. QED
  BY <1>3, SameRows DEF Settled, SameUpdate

LEMMA NextEventIs ==
  ASSUME NEW more, NextEvent(more)
  PROVE  Become(Stepped(Top, more))
BY DEF NextEvent, Stepped

LEMMA PassedKeeps ==
  ASSUME PhraseInv, Passed
  PROVE  PhraseInv'
<1>1. /\ ~Idle /\ Update(Top) /\ Top.todo # << >> /\ ~Top.calling /\ Ahead(Top) = {}
      /\ Head(Top.todo).type \in {"removed", "aboutTell", "told"} /\ NextEvent(<< >>)
      /\ UNCHANGED << managed, title, sources, resources, rows, built, observers, handle, shown >>
  BY DEF Passed, LoopEnds, InLoop, Sending, worldVars, modelVars, viewVars
<1>2. /\ Top \in UpdateFrames /\ UpdateGood(Top, rows[Top.parent], built)
      /\ rows[Top.parent] \in ListOf(Items(Top.parent)) /\ Top.calling = FALSE
      /\ Head(Top.todo).type = "removed"
  BY <1>1, Innermost
<1>3. Settled(Stepped(Top, << >>), Top, rows[Top.parent], built)
  BY <1>1, <1>2, RemovedStep
<1>4. Become(Stepped(Top, << >>))
  BY <1>1, NextEventIs
<1>5. AllShow(handle, shown, rows, built)
  BY <1>1, LoopOver
<1>6. QED
  BY <1>1, <1>3, <1>4, <1>5, SettledKeeps

LEMMA InsertedKeeps ==
  ASSUME PhraseInv, Inserted
  PROVE  PhraseInv'
<1> DEFINE e   == Head(Top.todo)
           new == IF e.at = Root THEN Range2(rows[Root], e.lo, e.hi) ELSE << >>
<1>1. /\ ~Idle /\ Update(Top) /\ Top.todo # << >> /\ ~Top.calling /\ Ahead(Top) = {}
      /\ e.type = "inserted" /\ NextEvent(ChecksOf(new))
      /\ UNCHANGED << managed, title, sources, resources, rows, built, observers, handle, shown >>
  BY DEF Inserted, LoopEnds, InLoop, Sending, ChecksOf, worldVars, modelVars, viewVars
<1>2. /\ Top \in UpdateFrames /\ UpdateGood(Top, rows[Top.parent], built)
      /\ rows[Top.parent] \in ListOf(Items(Top.parent)) /\ Top.calling = FALSE
  BY <1>1, Innermost
<1> DEFINE new2 == IF Top.parent = Root THEN Range2(rows[Top.parent], e.lo, e.hi) ELSE << >>
<1>3. e.at = Top.parent /\ Settled(Stepped(Top, ChecksOf(new2)), Top, rows[Top.parent], built)
  BY <1>1, <1>2, PutInStep
<1>4. new2 = new
  BY <1>3
<1> HIDE DEF new, new2
<1>5. Become(Stepped(Top, ChecksOf(new2)))
  BY <1>1, <1>4, NextEventIs
<1>6. AllShow(handle, shown, rows, built)
  BY <1>1, LoopOver
<1>7. QED
  BY <1>1, <1>3, <1>5, <1>6, SettledKeeps

LEMMA CheckKeeps ==
  ASSUME PhraseInv, Check
  PROVE  PhraseInv'
<1> DEFINE p    == Head(Top.todo).at
           last == Len(rows[p]) - 1
           more == IF p \in built /\ rows[p] # << >>
                   THEN << Event("aboutTell", p, 0, last), Event("told", p, 0, last) >>
                   ELSE << >>
<1>1. /\ ~Idle /\ Update(Top) /\ Top.todo # << >>
      /\ Head(Top.todo).type = "check" /\ NextEvent(more)
      /\ UNCHANGED << managed, title, sources, resources, rows, built, observers, handle, shown >>
  BY DEF Check, worldVars, modelVars, viewVars
<1>2. /\ Top \in UpdateFrames /\ UpdateGood(Top, rows[Top.parent], built) /\ Top = stack[Len(stack)]
      /\ rows[Top.parent] \in ListOf(Items(Top.parent)) /\ Top.calling = FALSE
  BY <1>1, Innermost
<1>3. p \notin built /\ Settled(Stepped(Top, << >>), Top, rows[Top.parent], built)
  BY <1>1, <1>2, CheckStep
<1>4. more = << >>
  BY <1>3
<1> HIDE DEF more
<1>5. Become(Stepped(Top, << >>))
  BY <1>1, <1>4, NextEventIs
<1>6. ~Telling(stack)
  BY <1>1, <1>2 DEF Telling
<1>7. AllShow(handle, shown, rows, built)
  BY <1>6, MirrorCalm DEF PhraseInv
<1>8. QED
  BY <1>1, <1>3, <1>5, <1>7, SettledKeeps


\* A view that showed rows R shows R2 once it has heard e.
Shifts(e, R, bs, R2, bs2) == \A t : Shows(t, R, bs) => Shows(After(t, e, R2), R2, bs2)

\* Rows have changed from R to R2, and no view was told yet.
LEMMA NoneTold ==
  ASSUME NEW s, s # << >>, Update(s[Len(s)]), NEW g, g = s[Len(s)], g.todo # << >>, g.cursor = -1,
         NEW e, e = Head(g.todo), e.type \in {"removed", "inserted"},
         NEW o, NEW h, ViewsKnown(o, h), NEW sh, NEW R, NEW bs, NEW R2, NEW bs2,
         AllShow(h, sh, R, bs), Shifts(e, R, bs, R2, bs2)
  PROVE  Mirror(s, h, sh, R2, bs2)
<1>1. Telling(s)
  BY DEF Telling
<1>2. ASSUME NEW v \in Views, h[v] # Nil PROVE Awaits(s, h[v])
  <2>1. h[v] \in Handles
    BY <1>2 DEF ViewsKnown
  <2>2. h[v] > -1
    BY <2>1, NotNil
  <2>3. QED
    BY <1>1, <2>2 DEF Awaits
<1>3. ASSUME NEW v \in Views, h[v] # Nil PROVE Shows(After(sh[v], Head(s[Len(s)].todo), R2), R2, bs2)
  <2>1. Shows(sh[v], R, bs)
    BY <1>3 DEF AllShow
  <2>2. Shows(After(sh[v], e, R2), R2, bs2)
    BY <2>1 DEF Shifts
  <2>3. QED
    BY <2>2
<1>4. sh \in [Views -> ViewTrees]
  BY DEF AllShow
<1>5. QED
  BY <1>2, <1>3, <1>4 DEF Mirror

LEMMA EraseKeeps ==
  ASSUME PhraseInv, Erase
  PROVE  PhraseInv'
<1> DEFINE e    == Head(Top.todo)
           q    == Top.parent
           R    == rows[q]
           gone == ToSet(Range2(rows[e.at], e.lo, e.hi))
           more == [p \in Parents |-> IF p = e.at THEN Without(rows[p], e.lo, e.hi)
                                      ELSE IF p \in gone THEN << >> ELSE rows[p]]
           g    == Stepped(Top, << >>)
           Q    == Without(R, e.lo, e.hi)
<1>1. /\ ~Idle /\ Update(Top) /\ Top.todo # << >> /\ ~Top.calling /\ Ahead(Top) = {}
      /\ e.type = "aboutRemove" /\ NextEvent(<< >>) /\ rows' = more /\ built' = built \ gone
      /\ UNCHANGED << managed, title, sources, resources, observers, handle, shown >>
  BY DEF Erase, LoopEnds, InLoop, Sending, worldVars, viewVars
<1>2. /\ Top \in UpdateFrames /\ q \in Parents /\ UpdateGood(Top, R, built) /\ R \in ListOf(Items(q))
      /\ Top.calling = FALSE /\ Top = stack[Len(stack)] /\ stack # << >>
      /\ q \in built /\ q \notin Silent
  BY <1>1, Innermost
<1>3. EraseSteps(Top, R, built')
  BY <1>1, <1>2, EraseStep
<1>4. /\ e.at = q /\ e.lo \in Nat /\ e.hi \in Nat /\ e.lo <= e.hi /\ e.hi < Len(R)
      /\ Q \in ListOf(Items(q)) /\ ToSet(R) \ gone \subseteq ToSet(Q) /\ gone \subseteq ToSet(R)
      /\ UpdateGood(g, Q, built') /\ SameUpdate(g, Top)
      /\ g.todo # << >> /\ Head(g.todo) = Event("removed", q, e.lo, e.hi) /\ g.cursor = -1
  <2>1. e.at = q
    BY <1>3 DEF EraseSteps
  <2>2. QED
    BY <1>3, <2>1 DEF EraseSteps
<1>5. Become(g)
  BY <1>1, NextEventIs
<1> HIDE DEF g, gone, e
<1>6. /\ rows'[q] = Q /\ rows' \in Trees
      /\ \A p \in Parents : p # q => rows'[p] = IF p \in gone THEN << >> ELSE rows[p]
  <2>1. Tree(rows, built)
    BY DEF PhraseInv
  <2>2. Q \in Seq(Rsrcs \cup Parts)
    <3>1. Q \in Seq(Items(q)) /\ Items(q) \subseteq Rsrcs \cup Parts
      BY <1>4 DEF ListOf, Items
    <3>2. QED
      BY <3>1, SeqMonotonic
  <2> HIDE DEF Q
  <2>3. rows'[q] = Q
    BY <1>1, <1>2, <1>4 DEF Q
  <2>4. \A p \in Parents : p # q => rows'[p] = IF p \in gone THEN << >> ELSE rows[p]
    BY <1>1, <1>4
  <2>5. \A p \in Parents : rows[p] \in Seq(Rsrcs \cup Parts)
    BY <2>1 DEF Tree, Trees
  <2>6. \A p \in Parents : rows'[p] \in Seq(Rsrcs \cup Parts)
    BY <2>2, <2>3, <2>4, <2>5, EmptySeq
  <2>7. rows' = [p \in Parents |-> rows'[p]]
    BY <1>1
  <2>8. QED
    BY <2>3, <2>4, <2>6, <2>7 DEF Trees
<1> HIDE DEF more, Q
<1>7. Root \notin Rsrcs \cup Parts /\ Rsrcs \cap Parts = {} /\ Parents = {Root} \cup Rsrcs
  BY ConstantsOK DEF Parents
<1>8. q \notin gone /\ Root \notin gone /\ (q # Root => gone \cap Parents = {}) /\ q \in built'
  <2>1. gone \subseteq Items(q)
    <3>1. R \in Seq(Items(q))
      BY <1>2 DEF ListOf
    <3>2. QED
      BY <3>1, <1>4, MemberOfList
  <2>2. QED
    BY <2>1, <1>1, <1>2, <1>7 DEF Items
<1>9. Tree(rows', built')
  <2>1. Tree(rows, built)
    BY DEF PhraseInv
  <2>2. ASSUME NEW p \in Parents PROVE rows'[p] \in ListOf(Items(p))
    <3>1. CASE p = q
      BY <3>1, <1>4, <1>6
    <3>2. CASE p # q
      BY <3>2, <2>1, <1>6, EmptyList DEF Tree
    <3>3. QED
      BY <3>1, <3>2
  <2>3. built' \subseteq {Root} \cup ToSet(rows'[Root])
    <3>1. CASE q = Root
      BY <3>1, <2>1, <1>1, <1>4, <1>6 DEF Tree
    <3>2. CASE q # Root
      <4>1. rows'[Root] = rows[Root]
        BY <3>2, <1>6, <1>7, <1>8
      <4>2. QED
        BY <4>1, <2>1, <1>1 DEF Tree
    <3>3. QED
      BY <3>1, <3>2
  <2>4. ASSUME NEW p \in Parents, p \notin built' PROVE rows'[p] = << >>
    <3>1. p # q /\ (p \in gone \/ p \notin built)
      BY <2>4, <1>1, <1>8
    <3>2. QED
      BY <3>1, <2>1, <1>6 DEF Tree
  <2>5. QED
    BY <2>2, <2>3, <2>4, <1>6 DEF Tree
<1>10. stack' = Append(SubSeq(stack, 1, Len(stack) - 1), g)
  BY <1>2, <1>5 DEF Become, Rest
<1>11. Follows(stack', stack, g, sources, rows', built', managed, resources)
  <2>1. /\ Stacked(stack, sources, rows, built) /\ Rooted(stack, rows, resources)
        /\ Watchful(stack, managed, sources, resources)
    BY DEF PhraseInv
  <2>2. /\ g.parent = Top.parent /\ g.goal = Top.goal /\ g.onePlace = Top.onePlace
        /\ UpdateGood(g, rows'[g.parent], built')
    BY <1>4, <1>6 DEF SameUpdate
  <2>3. Top.parent \in built' /\ (Top.parent # Root => rows'[Root] = rows[Root])
    BY <1>6, <1>7, <1>8
  <2>4. QED
    BY <2>1, <2>2, <2>3, <1>1, <1>2, <1>10, BecomeKeeps
<1>12. Mirror(stack', handle', shown', rows', built')
  <2>1. stack' # << >> /\ stack'[Len(stack')] = g /\ g \in UpdateFrames
    BY <1>4, <1>11 DEF Follows, UpdateGood
  <2>2. /\ Head(g.todo).type = "removed" /\ Head(g.todo).at = e.at
        /\ Head(g.todo).lo = e.lo /\ Head(g.todo).hi = e.hi
    BY <1>4 DEF Event
  <2>3. Shifts(Head(g.todo), rows, built, rows', built')
    <3>1. RowsGone(rows', built', rows, built, q, e.lo, e.hi)
      BY <1>1, <1>4, <1>6, <1>8 DEF RowsGone, gone, Q
    <3>2. rows \in Trees /\ rows' \in Trees
      BY <1>6 DEF PhraseInv, Tree
    <3>3. ASSUME NEW t, Shows(t, rows, built) PROVE Shows(After(t, Head(g.todo), rows'), rows', built')
      BY <3>1, <3>2, <3>3, <2>2, <1>2, <1>4, EraseShows
    <3>4. QED
      BY <3>3 DEF Shifts
  <2>4. AllShow(handle, shown, rows, built)
    BY <1>1, LoopOver
  <2>5. ViewsKnown(observers, handle) /\ Update(g)
    BY <2>1, Kinds DEF PhraseInv
  <2>6. Mirror(stack', handle, shown, rows', built')
    BY <2>1, <2>2, <2>3, <2>4, <2>5, <1>4, NoneTold
  <2>7. QED
    BY <2>6, <1>1
<1>13. QED
  BY <1>1, <1>9, <1>11, <1>12 DEF PhraseInv, Follows, World, ViewsKnown


LEMMA InsertKeeps ==
  ASSUME PhraseInv, Insert
  PROVE  PhraseInv'
<1> DEFINE e == Head(Top.todo)
           q == Top.parent
           R == rows[q]
           g == Stepped(Top, << >>)
           B == Range2(Top.goal, e.lo, e.hi)
           Q == With(R, e.lo, B)
<1>1. /\ ~Idle /\ Update(Top) /\ Top.todo # << >> /\ ~Top.calling /\ Ahead(Top) = {}
      /\ e.type = "aboutInsert" /\ NextEvent(<< >>) /\ e.lo <= Len(rows[e.at])
      /\ rows' = [rows EXCEPT ![e.at] = With(@, e.lo, B)]
      /\ UNCHANGED << managed, title, sources, resources, built, observers, handle, shown >>
  BY DEF Insert, LoopEnds, InLoop, Sending, worldVars, viewVars
<1>2. /\ Top \in UpdateFrames /\ q \in Parents /\ UpdateGood(Top, R, built) /\ R \in ListOf(Items(q))
      /\ Top.calling = FALSE /\ Top = stack[Len(stack)] /\ stack # << >>
      /\ q \in built /\ q \notin Silent
  BY <1>1, Innermost
<1>3. /\ Tree(rows, built) /\ World(managed, title, sources, resources)
      /\ Stacked(stack, sources, rows, built) /\ Rooted(stack, rows, resources)
      /\ Watchful(stack, managed, sources, resources) /\ ViewsKnown(observers, handle)
  BY DEF PhraseInv
<1>4. e.at = q
  <2>1. Inserting(Top)
    BY <1>1, <1>2, PhaseFacts DEF UpdateGood
  <2>2. PICK lo \in Nat, hi \in Nat : Top.todo = Pair(Top, << lo, hi >>, "aboutInsert", "inserted")
    BY <2>1 DEF Inserting
  <2>3. "aboutInsert" \in EventTypes /\ "inserted" \in EventTypes
    BY DEF EventTypes, ABOUT
  <2>4. QED
    BY <2>2, <2>3, <1>2, PairTodo
<1>5. InsertSteps(Top, R, built)
  <2>1. Top.parent = Root => built \subseteq {Root} \cup ToSet(R)
    BY <1>3 DEF Tree
  <2>2. e.lo <= Len(R)
    BY <1>1, <1>4
  <2>3. QED
    BY <2>1, <2>2, <1>1, <1>2, InsertStep
<1>6. /\ e.lo \in Nat /\ e.hi \in Nat /\ e.lo <= e.hi /\ e.hi < Len(Q)
      /\ Q \in ListOf(Items(q)) /\ ToSet(R) \subseteq ToSet(Q) /\ Range2(Q, e.lo, e.hi) = B
      /\ UpdateGood(g, Q, built) /\ SameUpdate(g, Top)
      /\ g.todo # << >> /\ Head(g.todo) = Event("inserted", q, e.lo, e.hi) /\ g.cursor = -1
  BY <1>5 DEF InsertSteps
<1>7. Become(g)
  BY <1>1, NextEventIs
<1> HIDE DEF g, e
<1>8. rows' = [rows EXCEPT ![q] = Q]
  BY <1>1, <1>4
<1> HIDE DEF B, Q
<1>9. rows'[q] = Q /\ rows' \in Trees /\ \A p \in Parents : p # q => rows'[p] = rows[p]
  <2>1. Q \in Seq(Rsrcs \cup Parts)
    <3>1. Q \in Seq(Items(q)) /\ Items(q) \subseteq Rsrcs \cup Parts
      BY <1>6 DEF ListOf, Items
    <3>2. QED
      BY <3>1, SeqMonotonic
  <2>2. rows \in Trees
    BY <1>3 DEF Tree
  <2>3. QED
    BY <2>1, <2>2, <1>2, <1>8 DEF Trees
<1>10. Root \notin Rsrcs \cup Parts /\ Parents = {Root} \cup Rsrcs
  BY ConstantsOK DEF Parents
<1>11. Tree(rows', built')
  <2>1. ASSUME NEW p \in Parents PROVE rows'[p] \in ListOf(Items(p))
    <3>1. CASE p = q
      BY <3>1, <1>6, <1>9
    <3>2. CASE p # q
      BY <3>2, <1>3, <1>9 DEF Tree
    <3>3. QED
      BY <3>1, <3>2
  <2>2. built' \subseteq {Root} \cup ToSet(rows'[Root])
    <3>1. CASE q = Root
      BY <3>1, <1>1, <1>3, <1>6, <1>9 DEF Tree
    <3>2. CASE q # Root
      BY <3>2, <1>1, <1>3, <1>9, <1>10 DEF Tree
    <3>3. QED
      BY <3>1, <3>2
  <2>3. ASSUME NEW p \in Parents, p \notin built' PROVE rows'[p] = << >>
    <3>1. p # q
      BY <2>3, <1>1, <1>2
    <3>2. QED
      BY <3>1, <2>3, <1>1, <1>3, <1>9 DEF Tree
  <2>4. QED
    BY <2>1, <2>2, <2>3, <1>9 DEF Tree
<1>12. stack' = Append(SubSeq(stack, 1, Len(stack) - 1), g)
  BY <1>2, <1>7 DEF Become, Rest
<1>13. Follows(stack', stack, g, sources, rows', built', managed, resources)
  <2>1. /\ g.parent = Top.parent /\ g.goal = Top.goal /\ g.onePlace = Top.onePlace
        /\ UpdateGood(g, rows'[g.parent], built')
    BY <1>1, <1>6, <1>9 DEF SameUpdate
  <2>2. Top.parent \in built' /\ (Top.parent # Root => rows'[Root] = rows[Root])
    BY <1>1, <1>2, <1>9, <1>10
  <2>3. QED
    BY <2>1, <2>2, <1>1, <1>2, <1>3, <1>12, BecomeKeeps
<1>14. Mirror(stack', handle', shown', rows', built')
  <2>1. stack' # << >> /\ stack'[Len(stack')] = g /\ g \in UpdateFrames
    BY <1>6, <1>13 DEF Follows, UpdateGood
  <2>2. /\ Head(g.todo).type = "inserted" /\ Head(g.todo).at = q
        /\ Head(g.todo).lo = e.lo /\ Head(g.todo).hi = e.hi
    BY <1>6 DEF Event
  <2>3. Shifts(Head(g.todo), rows, built, rows', built')
    <3>1. rows \in Trees /\ rows' \in Trees /\ e.lo <= Len(rows[q])
      BY <1>1, <1>3, <1>4, <1>9 DEF Tree
    <3>2. B \in Seq(Rsrcs \cup Parts)
      <4>1. Q \in Seq(Rsrcs \cup Parts)
        BY <3>1, <1>2, <1>9 DEF Trees
      <4>2. QED
        BY <4>1, <1>6, Range2Facts
    <3>3. rows' = [rows EXCEPT ![q] = With(rows[q], e.lo, B)] /\ Range2(rows'[q], e.lo, e.hi) = B
      BY <1>6, <1>8, <1>9 DEF Q
    <3>4. ASSUME NEW t, Shows(t, rows, built) PROVE Shows(After(t, Head(g.todo), rows'), rows', built)
      BY <3>1, <3>2, <3>3, <3>4, <2>2, <1>2, <1>6, InsertShows
    <3>5. QED
      BY <3>4, <1>1 DEF Shifts
  <2>4. AllShow(handle, shown, rows, built)
    BY <1>1, LoopOver
  <2>5. ViewsKnown(observers, handle) /\ Update(g)
    BY <2>1, <1>3, Kinds
  <2>6. Mirror(stack', handle, shown, rows', built')
    BY <2>1, <2>2, <2>3, <2>4, <2>5, <1>6, NoneTold
  <2>7. QED
    BY <2>6, <1>1
<1>15. QED
  BY <1>1, <1>3, <1>11, <1>13, <1>14 DEF PhraseInv, Follows, World, ViewsKnown

\* An update that has no event left has done what it was asked to, if the rows
\* it found missing were in one place.
LEMMA UpdateAtEnd ==
  ASSUME PhraseInv, UpdateReturns
  PROVE  /\ Unused(rows[Top.parent], Top.goal) = {}
         /\ Top.onePlace => Fresh(rows[Top.parent], Top.goal) = {}
         /\ Top.keeps /\ Top.onePlace => KeepsOrder(rows[Top.parent], Top.goal)
         /\ rows[Top.parent] \in ListOf(Items(Top.parent)) /\ Top.goal \in ListOf(Items(Top.parent))
         /\ Top = stack[Len(stack)] /\ stack # << >> /\ Update(Top)
<1>1. ~Idle /\ Update(Top) /\ Top.todo = << >>
  BY DEF UpdateReturns
<1>2. /\ Top \in UpdateFrames /\ UpdateGood(Top, rows[Top.parent], built)
      /\ rows[Top.parent] \in ListOf(Items(Top.parent)) /\ Top.goal \in ListOf(Items(Top.parent))
      /\ Top = stack[Len(stack)] /\ stack # << >>
  BY <1>1, Innermost
<1>3. Ended(Top)
  <2>1. Shaped(Top, rows[Top.parent], built)
    BY <1>2 DEF UpdateGood
  <2>2. ~Removing(Top)
    <3>1. \A lo, hi : Pair(Top, << lo, hi >>, "aboutRemove", "removed") # << >>
      BY DEF Pair
    <3>2. QED
      BY <3>1, <1>1 DEF Removing
  <2>3. ~Inserting(Top)
    <3>1. \A lo, hi : Pair(Top, << lo, hi >>, "aboutInsert", "inserted") # << >>
      BY DEF Pair
    <3>2. QED
      BY <3>1, <1>1 DEF Inserting
  <2>4. ~Removed(Top) /\ ~PutIn(Top, rows[Top.parent], built) /\ ~Checking(Top, built)
    BY <1>1 DEF Removed, PutIn, Checking
  <2>5. QED
    BY <2>1, <2>2, <2>3, <2>4 DEF Shaped
<1>4. WorkKnown(Top, rows[Top.parent], {}, {})
  <2>1. Taken(Top, "aboutRemove") = {} /\ Taken(Top, "aboutInsert") = {}
    BY <1>1 DEF Taken
  <2>2. Top.unused \cup {} = {} /\ Top.insert \cup {} = {}
    BY <1>3 DEF Ended
  <2>3. QED
    BY <2>1, <2>2, <1>2 DEF UpdateGood
<1>5. QED
  BY <1>1, <1>2, <1>4 DEF WorkKnown

LEMMA LeaveKeeps ==
  ASSUME PhraseInv, Leave
  PROVE  PhraseInv'
<1>1. /\ UpdateReturns /\ stack' = SubSeq(stack, 1, Len(stack) - 1)
      /\ UNCHANGED << managed, title, sources, resources, rows, built, observers, handle, shown >>
  BY DEF Leave, Rest, worldVars, modelVars, viewVars
<1>2. /\ Tree(rows, built) /\ World(managed, title, sources, resources)
      /\ Stacked(stack, sources, rows, built) /\ Rooted(stack, rows, resources)
      /\ Watchful(stack, managed, sources, resources) /\ ViewsKnown(observers, handle)
      /\ Mirror(stack, handle, shown, rows, built)
  BY DEF PhraseInv
<1>3. /\ Unused(rows[Top.parent], Top.goal) = {}
      /\ Top.onePlace => Fresh(rows[Top.parent], Top.goal) = {}
      /\ rows[Top.parent] \in ListOf(Items(Top.parent)) /\ Top.goal \in ListOf(Items(Top.parent))
      /\ Top = stack[Len(stack)] /\ stack # << >> /\ Update(Top) /\ Top.todo = << >>
  BY <1>1, UpdateAtEnd DEF UpdateReturns
<1>4. AllShow(handle, shown, rows, built)
  <2>1. ~Telling(stack)
    BY <1>3 DEF Telling
  <2>2. QED
    BY <2>1, <1>2, MirrorCalm
<1>5. ASSUME NEW d, stack = << d >>, Update(d), ToSet(rows[Root]) = resources
      PROVE  PhraseInv'
  <2>1. Top = d /\ stack' = << >> /\ stack[1] = d
    BY <1>1, <1>3, <1>5, OneOnStack DEF OneFrame
  <2>2. ~Delivers(stack) /\ ~Delivers(stack')
    BY <2>1, <1>5 DEF Delivers, Update
  <2>3. Watchful(stack', managed, sources, resources)
    BY <2>2, <1>2, WatchfulStill DEF SameBelow
  <2>4. Stacked(stack', sources, rows, built) /\ Rooted(stack', rows, resources)
    BY <2>1, <1>5, EmptyStack DEF Stacked, Rooted
  <2>5. Mirror(stack', handle, shown, rows, built)
    BY <2>1, <1>4, EmptyStack, MirrorCalm
  <2>6. QED
    BY <2>3, <2>4, <2>5, <1>1, <1>2 DEF PhraseInv
<1>6. ASSUME NEW d \in DeliverFrames, NEW u \in UpdateFrames, stack = << d, u >>, DeliverGood(d, sources),
             u.parent = Root
      PROVE  PhraseInv'
  <2>1. Top = u /\ stack' = << d >> /\ stack[1] = d /\ stack[2] = u /\ Len(stack) = 2
    BY <1>1, <1>3, <1>6, TwoOnStack DEF TwoFrames
  <2>2. ToSet(rows[Root]) = resources
    <3>1. ToSet(u.goal) = resources /\ u.onePlace
      BY <2>1, <1>2 DEF Rooted
    <3>2. ToSet(rows[Root]) = ToSet(u.goal)
      BY <3>1, <2>1, <1>3, <1>6, NoneFresh
    <3>3. QED
      BY <3>1, <3>2
  <2>3. OneDelivery(stack', d, sources, rows, built) /\ OneFrame(stack', d)
    BY <2>1, <1>6, DeliveryFacts, OneOnStack
  <2>4. SameBelow(stack', stack)
    BY <2>1, <2>3, <1>3 DEF SameBelow, Delivers, OneFrame
  <2>5. Watchful(stack', managed, sources, resources)
    BY <2>4, <1>2, WatchfulStill
  <2>6. Stacked(stack', sources, rows, built) /\ Rooted(stack', rows, resources)
    BY <2>2, <2>3 DEF OneDelivery, Rooted
  <2>7. Mirror(stack', handle, shown, rows, built)
    BY <2>3, <1>4, MirrorCalm DEF OneDelivery
  <2>8. QED
    BY <2>5, <2>6, <2>7, <1>1, <1>2 DEF PhraseInv
<1>7. ASSUME NEW d \in DeliverFrames, stack = << d >> PROVE FALSE
  BY <1>3, <1>7, OneOnStack, Kinds DEF OneFrame
<1>8. ASSUME NEW u \in UpdateFrames, stack = << u >> PROVE PhraseInv'
  <2>1. ToSet(rows[Root]) = resources
    BY <1>2, <1>8, OneOnStack DEF Rooted, OneFrame
  <2>2. QED
    BY <2>1, <1>5, <1>8, Kinds
<1>9. QED
  BY <1>2, <1>3, <1>6, <1>7, <1>8 DEF Stacked


-----------------------------------------------------------------------------
(* The invariant holds                                                       *)

LEMMA InitKeeps ==
  ASSUME Init
  PROVE  PhraseInv
<1>1. /\ managed = [m \in Managers |-> {}] /\ sources = << >> /\ resources = {} /\ built = {}
      /\ rows = NoRows /\ observers = << >> /\ handle = [v \in Views |-> Nil]
      /\ shown = [v \in Views |-> NoRows] /\ stack = << >>
      /\ title \in {[r \in Rsrcs |-> t] : t \in Titles}
  BY DEF Init
<1>2. title \in [Rsrcs -> Titles]
  BY <1>1
<1>3. /\ managed \in [Managers -> SUBSET Rsrcs]
      /\ \A m \in Managers : managed[m] = {}
  BY <1>1
<1>4. World(managed, title, sources, resources)
  BY <1>1, <1>2, <1>3, EmptyList, FS_EmptySet DEF World
<1>5. rows \in Trees /\ Root \in Parents /\ Rsrcs \subseteq Parents /\ \A p \in Parents : rows[p] = << >>
  BY <1>1, NoRowsTree DEF NoRows, Parents
<1>6. Tree(rows, built)
  BY <1>1, <1>5, EmptyList DEF Tree
<1>7. Stacked(stack, sources, rows, built) /\ Rooted(stack, rows, resources)
  BY <1>1, <1>5, EmptyStack, EmptyList DEF Stacked, Rooted
<1>8. Watchful(stack, managed, sources, resources)
  BY <1>1, <1>3, WatchfulIdle
<1>9. ViewsKnown(observers, handle)
  BY <1>1 DEF ViewsKnown
<1>10. Mirror(stack, handle, shown, rows, built)
  <2>1. shown \in [Views -> ViewTrees] /\ \A v \in Views : handle[v] = Nil
    BY <1>1, NoRowsTree
  <2>2. AllShow(handle, shown, rows, built)
    BY <2>1 DEF AllShow
  <2>3. QED
    BY <2>2, <1>1, EmptyStack, MirrorCalm
<1>11. QED
  BY <1>4, <1>6, <1>7, <1>8, <1>9, <1>10 DEF PhraseInv

LEMMA StutterKeeps ==
  ASSUME PhraseInv, UNCHANGED vars
  PROVE  PhraseInv'
<1>1. UNCHANGED << managed, title, sources, resources, rows, built, observers, handle, shown, stack >>
  BY DEF vars, worldVars, modelVars, viewVars
<1>2. QED
  BY <1>1 DEF PhraseInv

LEMMA StepKeeps ==
  ASSUME ~BuildInLoops, PhraseInv, Next
  PROVE  PhraseInv'
<1>1. ASSUME NEW m \in Managers, NEW r \in Rsrcs, AddResource(m, r) \/ RemoveResource(m, r) PROVE PhraseInv'
  BY <1>1, AddResourceKeeps, RemoveResourceKeeps
<1>2. ASSUME NEW x \in OperManagers, NEW r \in Rsrcs, Operated(x, r) PROVE PhraseInv'
  BY <1>2, OperatedKeeps
<1>3. ASSUME NEW r \in Rsrcs, NEW t \in Titles, Relocate(r, t) PROVE PhraseInv'
  BY <1>3, RelocateKeeps
<1>4. ASSUME NEW m \in Managers, NEW x \in OperManagers, AddSource(m, x) \/ RemoveSource(m, x) PROVE PhraseInv'
  BY <1>4, AddSourceKeeps, RemoveSourceKeeps
<1>5. CASE ResetSources
  BY <1>5, ResetSourcesKeeps
<1>6. ASSUME NEW v \in Views, Observe(v) \/ Unobserve(v) PROVE PhraseInv'
  BY <1>6, ObserveKeeps, UnobserveKeeps
<1>7. ASSUME NEW r \in Rsrcs, Build(r) PROVE PhraseInv'
  BY <1>7, BuildKeeps
<1>8. ASSUME NEW r \in Rsrcs, NEW next \in NewLists, UpdateChildren(r, next) PROVE PhraseInv'
  BY <1>8, UpdateChildrenKeeps
<1>9. CASE Deliver \/ Delivered
  BY <1>9, DeliverKeeps, DeliveredKeeps
<1>10. CASE Visit \/ Return
  BY <1>10, VisitKeeps, ReturnKeeps
<1>11. CASE Erase \/ Insert \/ Inserted
  BY <1>11, EraseKeeps, InsertKeeps, InsertedKeeps
<1>12. CASE Check \/ Passed \/ Leave
  BY <1>12, CheckKeeps, PassedKeeps, LeaveKeeps
<1>13. CASE BuildRoot
  BY <1>13, BuildRootKeeps
<1>14. QED
  BY <1>1, <1>2, <1>3, <1>4, <1>5, <1>6, <1>7, <1>8, <1>9, <1>10, <1>11, <1>12, <1>13 DEF Next

\* The inductive invariant: through every interleaving of deliveries, updates
\* in the middle of their loops, and views that come and go.
THEOREM PhraseInvariance ==
  ASSUME ~BuildInLoops
  PROVE  Spec => []PhraseInv
<1>1. Init => PhraseInv
  BY InitKeeps
<1>2. PhraseInv /\ [Next]_vars => PhraseInv'
  BY StepKeeps, StutterKeeps
<1>3. QED
  BY <1>1, <1>2, PTL DEF Spec

-----------------------------------------------------------------------------
(* What follows from it                                                      *)

\* The state has its types: sources are there once, a view's handle leads to
\* the view, and the calls in progress are one delivery and one update at most.
THEOREM PhraseTypeOK ==
  ASSUME ~BuildInLoops
  PROVE  Spec => []TypeOK
<1>1. ASSUME PhraseInv PROVE TypeOK
  <2>1. /\ World(managed, title, sources, resources) /\ Tree(rows, built) /\ ViewsKnown(observers, handle)
        /\ Stacked(stack, sources, rows, built)
    BY <1>1 DEF PhraseInv
  <2>2. /\ managed \in [Managers -> SUBSET Rsrcs] /\ title \in [Rsrcs -> Titles]
        /\ sources \in Seq(Managers \X OperManagers) /\ IsInjective(sources) /\ resources \subseteq Rsrcs
    BY <2>1 DEF World, ListOf
  <2>3. rows[Root] \in Seq(Rsrcs) /\ built \subseteq Parents
    <3>1. Root \in Parents
      BY DEF Parents
    <3>2. rows[Root] \in ListOf(Rsrcs) /\ ToSet(rows[Root]) \subseteq Rsrcs
      BY <3>1, <1>1, TreeFacts
    <3>3. QED
      BY <3>2, <2>1 DEF Tree, ListOf, Parents
  <2>4. ASSUME NEW r \in Rsrcs PROVE rows[r] \in Seq(Parts)
    <3>1. r \in Parents /\ Items(r) = Parts
      BY ConstantsOK DEF Parents, Items
    <3>2. QED
      BY <3>1, <2>1 DEF Tree, ListOf
  <2>5. \A i \in DOMAIN stack : Update(stack[i]) \/ i = 1
    <3>1. ASSUME NEW x, stack = << x >> PROVE \A i \in DOMAIN stack : i = 1
      BY <3>1
    <3>2. ASSUME NEW x, NEW u \in UpdateFrames, stack = << x, u >>
          PROVE  \A i \in DOMAIN stack : Update(stack[i]) \/ i = 1
      BY <3>2, Kinds
    <3>3. CASE stack = << >>
      BY <3>3
    <3>4. QED
      BY <3>1, <3>2, <3>3, <2>1 DEF Stacked
  <2>6. QED
    BY <2>1, <2>2, <2>3, <2>4, <2>5 DEF TypeOK, ViewsKnown
<1>2. QED
  BY <1>1, PhraseInvariance, PTL

\* Between calls a view shows the rows of the model, whichever batches its
\* events told of and whenever it joined - with one too many where it joined
\* after the rows, and none of the children that were built in silence.
THEOREM MirrorRowsSafe ==
  ASSUME ~BuildInLoops
  PROVE  Spec => []ViewsMirrorRows
<1>1. ASSUME PhraseInv, Idle, NEW v \in Views, NEW p \in Parents, handle[v] # Nil
      PROVE  LET list == shown[v][p]
             IN  Exact(list, p) \/ OneTooMany(list, p) \/ Untold(list, p)
  <2>1. Shows(shown[v], rows, built)
    BY <1>1, IdleFacts DEF AllShow
  <2>2. ListShown(shown[v][p], rows[p], p, built)
    BY <2>1 DEF Shows
  <2>3. QED
    BY <2>2 DEF ListShown, Exact, OneTooMany, Untold
<1>2. PhraseInv => ViewsMirrorRows
  BY <1>1 DEF ViewsMirrorRows
<1>3. QED
  BY <1>2, PhraseInvariance, PTL

\* Between calls the root has one row for each resource of m_resources, though
\* several sources tell of a resource and a sort is free in equal titles.
THEOREM RowsSafe ==
  ASSUME ~BuildInLoops
  PROVE  Spec => []RowsAreResources
<1>1. ASSUME PhraseInv, Idle PROVE ToSet(rows[Root]) = resources /\ IsInjective(rows[Root])
  <2>1. Root \in Parents
    BY DEF Parents
  <2>2. rows[Root] \in ListOf(Rsrcs)
    BY <2>1, <1>1, TreeFacts
  <2>3. QED
    BY <2>2, <1>1, IdleFacts DEF ListOf
<1>2. PhraseInv => RowsAreResources
  BY <1>1 DEF RowsAreResources
<1>3. QED
  BY <1>2, PhraseInvariance, PTL

\* Between calls every resource of a watched manager has a row: addSource()
\* was told of what was there, and each delivery of what came later.
THEOREM ShownSafe ==
  ASSUME ~BuildInLoops
  PROVE  Spec => []ResourcesShown
<1>1. ASSUME PhraseInv PROVE ResourcesShown
  BY <1>1, IdleFacts DEF ResourcesShown, Watched, Watching
<1>2. QED
  BY <1>1, PhraseInvariance, PTL

\* When updateChildren() returns, an update that moves no row and inserts in
\* one place has made the list it was given.
THEOREM OrderlySafe ==
  ASSUME ~BuildInLoops
  PROVE  Spec => []OrderlyUpdateDone
<1>1. ASSUME PhraseInv, UpdateReturns, Top.keeps, Top.onePlace PROVE rows[Top.parent] = Top.goal
  BY <1>1, UpdateAtEnd, SameList
<1>2. PhraseInv => OrderlyUpdateDone
  BY <1>1 DEF OrderlyUpdateDone
<1>3. QED
  BY <1>2, PhraseInvariance, PTL

\* A resource that leaves a watched manager has lost its row by then.
LEMMA GoneUnshown ==
  ASSUME PhraseInv, Delivered, NEW m \in Managers, Watched(m)
  PROVE  (managed[m] \ managed'[m]) \cap ToSet(rows'[Root]) = {}
<1>1. PICK d \in DeliverFrames : stack = << d >> /\ DeliverGood(d, sources)
  BY DeliverOnTop DEF Delivered, Delivering, Idle, Top, PhraseInv
<1>2. OneDelivery(stack, d, sources, rows, built) /\ OneFrame(stack, d)
  BY <1>1, DeliveryFacts, OneOnStack
<1>3. /\ d.queue = << >> /\ rows' = rows
      /\ managed' = IF d.effect = "erase" THEN [managed EXCEPT ![d.mgr] = @ \ {d.rsrc}] ELSE managed
  <2>1. Top = d
    BY <1>2 DEF OneFrame, Top
  <2>2. QED
    BY <2>1 DEF Delivered
<1>4. /\ managed \in [Managers -> SUBSET Rsrcs] /\ Watchful(stack, managed, sources, resources)
      /\ ToSet(rows[Root]) = resources
  BY <1>2 DEF PhraseInv, World, OneDelivery, Rooted
<1>5. Unsent(stack) = {} /\ Going(stack, m) = IF d.effect = "erase" /\ d.mgr = m THEN {d.rsrc} ELSE {}
  BY <1>2, <1>3, EmptyList DEF OneDelivery
<1>6. Going(stack, m) \cap resources = {}
  <2>1. Watching(sources, m)
    BY DEF Watched, Watching
  <2>2. QED
    BY <2>1, <1>4, <1>5 DEF Watchful
<1>7. managed[m] \ managed'[m] \subseteq Going(stack, m)
  <2>1. CASE d.effect = "erase"
    <3>1. d.mgr \in Managers
      BY <2>1, <1>1 DEF DeliverGood
    <3>2. QED
      BY <3>1, <2>1, <1>3, <1>4, <1>5
  <2>2. CASE d.effect # "erase"
    BY <2>2, <1>3
  <2>3. QED
    BY <2>1, <2>2
<1>8. QED
  BY <1>3, <1>4, <1>6, <1>7

\* remove() tells of a resource before it erases it: when a watched manager
\* lets a resource go, its row is gone.
THEOREM RemovedSafe ==
  ASSUME ~BuildInLoops
  PROVE  Spec => RemovedDisappear
<1> DEFINE A == \A m \in Managers : Watched(m) => (managed[m] \ managed'[m]) \cap ToSet(rows'[Root]) = {}
<1>1. ASSUME PhraseInv, Next PROVE A
  <2>1. CASE Delivered
    BY <2>1, <1>1, GoneUnshown
  <2>2. ASSUME NEW m \in Managers, NEW r \in Rsrcs, AddResource(m, r)
        PROVE  \A n \in Managers : managed[n] \ managed'[n] = {}
    <3>1. managed \in [Managers -> SUBSET Rsrcs] /\ managed' = [managed EXCEPT ![m] = @ \cup {r}]
      BY <2>2, <1>1 DEF PhraseInv, World, AddResource
    <3>2. QED
      BY <3>1
  <2>3. ASSUME UNCHANGED managed PROVE A
    BY <2>3
  <2>4. ASSUME NEW m \in Managers, NEW r \in Rsrcs, RemoveResource(m, r) PROVE UNCHANGED managed
    BY <2>4 DEF RemoveResource, worldVars
  <2>5. ASSUME NEW x \in OperManagers, NEW r \in Rsrcs, Operated(x, r) PROVE UNCHANGED managed
    BY <2>5 DEF Operated, worldVars
  <2>6. ASSUME NEW r \in Rsrcs, NEW t \in Titles, Relocate(r, t) PROVE UNCHANGED managed
    BY <2>6 DEF Relocate
  <2>7. ASSUME NEW m \in Managers, NEW x \in OperManagers, AddSource(m, x) \/ RemoveSource(m, x)
        PROVE  UNCHANGED managed
    BY <2>7 DEF AddSource, RemoveSource, worldVars
  <2>8. ASSUME NEW v \in Views, Observe(v) \/ Unobserve(v) PROVE UNCHANGED managed
    BY <2>8 DEF Observe, Unobserve, worldVars
  <2>9. ASSUME NEW r \in Rsrcs, Build(r) \/ \E next \in NewLists : UpdateChildren(r, next)
        PROVE  UNCHANGED managed
    BY <2>9 DEF Build, UpdateChildren, worldVars
  <2>10. CASE ResetSources \/ BuildRoot \/ Deliver \/ Visit \/ Return
    BY <2>10 DEF ResetSources, BuildRoot, Deliver, Visit, Return, worldVars
  <2>11. CASE Erase \/ Insert \/ Inserted \/ Check \/ Passed \/ Leave
    BY <2>11 DEF Erase, Insert, Inserted, Check, Passed, Leave, worldVars
  <2>12. QED
    BY <1>1, <2>1, <2>2, <2>3, <2>4, <2>5, <2>6, <2>7, <2>8, <2>9, <2>10, <2>11 DEF Next
<1>2. PhraseInv /\ [Next]_vars => [A]_vars
  BY <1>1
<1>3. QED
  BY <1>2, PhraseInvariance, PTL DEF Spec, RemovedDisappear

================================================================================
