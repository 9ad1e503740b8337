--------------------------- MODULE AssociationsProofs ---------------------------
(***************************************************************************)
(* Both copies of what is associated agree, for any number of attributes,  *)
(* entities and managers and for items of any size, as long as a           *)
(* collection keeps its model manager while something is associated and    *)
(* only entities of that manager are.                                      *)
(***************************************************************************)
EXTENDS Associations, FiniteSetTheorems, SequenceTheorems, Inductions

Keys == Entities \cup {Null}

Assignments(made_) == [Managers -> [Keys -> SUBSET made_]]

\* An association item within the rules of its attribute's definition, whose
\* entities are those of the collection's model manager.
ItemGood(a, w) ==
  /\ w \in Seq(Refs)
  /\ IF Extensible[a] THEN Limit[a] = 0 \/ Len(w) <= Limit[a] ELSE Len(w) = Required[a]
  /\ \A i, j \in DOMAIN w : w[i][2] = w[j][2] => i = j \/ w[i][2] = Null
  /\ \A i \in DOMAIN w : w[i][2] \in Entities => w[i][1] = ref

\* What an attribute holds and what managers have assigned to it.
LinksGood(a, w, as) ==
  \A e \in Entities :
    /\ \A m \in Managers : a \in as[m][e] => m = ref /\ Holds(w, e)
    /\ Holds(w, e) /\ ref # Nil /\ e \notin erased => a \in as[ref][e]

\* What attributes hold they go on to hold.
Keeps(now, new, made_) ==
  \A b \in made_, d \in Entities : Holds(now.values[b], d) => Holds(new.values[b], d)

\* Both copies, of the attributes made so far and those of the collection.
CopiesGood(vs, as, here, made_) ==
  /\ vs \in [Attributes -> Seq(Refs)]
  /\ as \in Assignments(made_)
  /\ here \subseteq made_
  /\ \A a \in made_ : ItemGood(a, vs[a])
  /\ \A a \in here : LinksGood(a, vs[a], as)

States(made_) ==
  [values : [Attributes -> Seq(Refs)], assigned : Assignments(made_), known : SUBSET Managers,
   here : SUBSET made_, ok : {"yes", "no"}]

\* The state within a call, and between two.
Good(now, made_) ==
  /\ now \in States(made_)
  /\ CopiesGood(now.values, now.assigned, now.here, made_)

AssociationsInv ==
  /\ ref \in Managers \cup {Nil}
  /\ made \subseteq Attributes
  /\ model \in [Managers -> SUBSET Entities]
  /\ erased \subseteq Entities
  /\ call.ok \in {"yes", "no"}
  /\ Good(Now, made)

LEMMA InvFacts ==
  ASSUME AssociationsInv
  PROVE  /\ made \in SUBSET Attributes /\ ref \in Managers \cup {Nil} /\ Good(Now, made)
         /\ Now \in States(made) /\ CopiesGood(values, assigned, collection, made)
         /\ Now.values = values /\ Now.assigned = assigned /\ Now.here = collection
         /\ values \in [Attributes -> Seq(Refs)] /\ assigned \in Assignments(made)
         /\ collection \subseteq made
BY DEF AssociationsInv, Good, CopiesGood, Now

-----------------------------------------------------------------------------
(* Items *)

LEMMA RefsFacts ==
  ASSUME NEW r \in Refs
  PROVE  /\ r = << r[1], r[2] >> /\ r[1] \in Managers \cup {Nil} /\ r[2] \in Keys
         /\ r[2] # Null => r[2] \in Entities
BY DEF Refs, Keys

LEMMA UnsetIsRef == Unset \in Refs /\ Unset[2] = Null /\ Null \notin Entities
BY ConstantsOK DEF Unset, Refs

\* RemoveAt of SequencesExt.
LEMMA RemoveAtFacts ==
  ASSUME NEW S, NEW w \in Seq(S), NEW p \in 1 .. Len(w)
  PROVE  /\ RemoveAt(w, p) \in Seq(S) /\ Len(RemoveAt(w, p)) = Len(w) - 1
         /\ DOMAIN RemoveAt(w, p) = 1 .. Len(w) - 1
         /\ \A i \in 1 .. Len(w) - 1 : RemoveAt(w, p)[i] = w[IF i < p THEN i ELSE i + 1]
<1> DEFINE front == SubSeq(w, 1, p - 1)
           back == SubSeq(w, p + 1, Len(w))
<1>1. Len(w) \in Nat /\ p \in Nat
  OBVIOUS
<1>2. /\ front \in Seq(S) /\ Len(front) = p - 1
      /\ \A i \in 1 .. p - 1 : front[i] = w[i]
  BY <1>1
<1>3. /\ back \in Seq(S) /\ Len(back) = Len(w) - p
      /\ \A i \in 1 .. Len(w) - p : back[i] = w[i + p]
  BY <1>1
<1> HIDE DEF front, back
<1> DEFINE v == front \o back
<1>4. v \in Seq(S) /\ Len(v) = Len(w) - 1 /\ DOMAIN v = 1 .. Len(w) - 1
  <2>1. v \in Seq(S) /\ Len(v) = Len(front) + Len(back)
    BY <1>2, <1>3, ConcatProperties
  <2> HIDE DEF v
  <2>2. Len(v) = Len(w) - 1
    BY <1>1, <1>2, <1>3, <2>1
  <2>3. QED
    BY <2>1, <2>2
<1>5. \A i \in 1 .. Len(w) - 1 : v[i] = IF i <= p - 1 THEN front[i] ELSE back[i - (p - 1)]
  BY <1>1, <1>2, <1>3
<1> HIDE DEF v
<1>6. ASSUME NEW i \in 1 .. Len(w) - 1
      PROVE  v[i] = w[IF i < p THEN i ELSE i + 1]
  <2>1. CASE i < p
    BY <1>1, <1>2, <1>5, <2>1
  <2>2. CASE ~(i < p)
    <3>1. i - (p - 1) \in 1 .. Len(w) - p /\ (i - (p - 1)) + p = i + 1
      BY <1>1, <2>2
    <3>2. v[i] = back[i - (p - 1)]
      BY <1>1, <1>5, <2>2
    <3>3. QED
      BY <1>3, <2>2, <3>1, <3>2
  <2>3. QED
    BY <2>1, <2>2
<1>7. RemoveAt(w, p) = v
  BY DEF RemoveAt, v, front, back
<1>8. QED
  BY <1>4, <1>6, <1>7

\* Blank items.
LEMMA BlankGood ==
  ASSUME NEW a \in Attributes
  PROVE  /\ ItemGood(a, Blank(a))
         /\ \A e \in Entities : ~Holds(Blank(a), e)
<1>1. Required[a] \in Nat /\ Limit[a] \in Nat /\ (Limit[a] = 0 \/ Required[a] <= Limit[a])
  BY ConstantsOK
<1>2. /\ Blank(a) \in Seq(Refs) /\ Len(Blank(a)) = Required[a]
      /\ DOMAIN Blank(a) = 1 .. Required[a]
      /\ \A i \in 1 .. Required[a] : Blank(a)[i] = Unset
  BY <1>1, UnsetIsRef DEF Blank
<1>3. \A i \in DOMAIN Blank(a) : Blank(a)[i][2] = Null
  BY <1>2, UnsetIsRef
<1>4. \A e \in Entities : ~Holds(Blank(a), e)
  BY <1>3, UnsetIsRef DEF Holds
<1>5. QED
  BY <1>1, <1>2, <1>3, <1>4, UnsetIsRef DEF ItemGood

\* One slot of an item set to an entity of the collection's manager that the item
\* does not hold yet, or cleared.
SlotChange(v, w, p, r) ==
  /\ p \in DOMAIN w /\ r \in Refs
  /\ r[2] \in Entities => r[1] = ref /\ ~Holds(w, r[2])
  /\ v \in Seq(Refs) /\ DOMAIN v = DOMAIN w /\ Len(v) = Len(w)
  /\ v[p] = r /\ \A i \in DOMAIN w : i # p => v[i] = w[i]

LEMMA SlotSet ==
  ASSUME NEW a \in Attributes, NEW w, NEW v, NEW p, NEW r, ItemGood(a, w), SlotChange(v, w, p, r)
  PROVE  /\ ItemGood(a, v)
         /\ \A d \in Entities : Holds(v, d) <=> d = r[2] \/ \E i \in DOMAIN w : i # p /\ w[i][2] = d
<1> USE DEF SlotChange
<1>1. /\ w \in Seq(Refs) /\ Len(w) \in Nat /\ DOMAIN w = 1 .. Len(w)
  BY DEF ItemGood
<1>2. ASSUME NEW i \in DOMAIN v, NEW j \in DOMAIN v, v[i][2] = v[j][2], i # j
      PROVE  v[i][2] = Null
  <2>1. CASE i # p /\ j # p
    BY <1>2, <2>1 DEF ItemGood
  <2>2. CASE i = p \/ j = p
    <3>1. \E k \in DOMAIN w : k # p /\ v[i][2] = r[2] /\ w[k][2] = r[2]
      BY <1>2, <2>2
    <3>2. r[2] \notin Entities
      BY <3>1 DEF Holds
    <3>3. r[2] = Null
      BY <3>2, RefsFacts
    <3>4. QED
      BY <3>1, <3>3
  <2>3. QED
    BY <2>1, <2>2
<1>3. ASSUME NEW i \in DOMAIN v, v[i][2] \in Entities
      PROVE  v[i][1] = ref
  BY <1>3 DEF ItemGood
<1>4. ItemGood(a, v)
  BY <1>1, <1>2, <1>3 DEF ItemGood
<1>5. \A d \in Entities : Holds(v, d) <=> d = r[2] \/ \E i \in DOMAIN w : i # p /\ w[i][2] = d
  BY DEF Holds
<1>6. QED
  BY <1>4, <1>5

\* appendValue with an entity of the collection's manager, or with none.
LEMMA AppendGood ==
  ASSUME NEW a \in Attributes, NEW w, ItemGood(a, w), NEW e \in Keys, ref \in Managers \cup {Nil}
  PROVE  /\ ItemGood(a, AppendValue(a, w, << ref, e >>))
         /\ \A d \in Entities : d # e => (Holds(AppendValue(a, w, << ref, e >>), d) <=> Holds(w, d))
         /\ Holds(w, e) /\ e # Null => AppendValue(a, w, << ref, e >>) = w
<1> DEFINE r == << ref, e >>
           empty == {i \in DOMAIN w : w[i][2] = Null}
           last == CHOOSE i \in empty : \A j \in empty : j <= i
           v == AppendValue(a, w, r)
<1>1. r \in Refs /\ r[1] = ref /\ r[2] = e
  BY DEF Refs, Keys
<1>2. /\ w \in Seq(Refs) /\ Len(w) \in Nat /\ DOMAIN w = 1 .. Len(w)
  BY DEF ItemGood
<1>3. CASE e # Null /\ Holds(w, e)
  BY <1>1, <1>3 DEF AppendValue
<1>4. CASE ~(e # Null /\ Holds(w, e)) /\ empty # {}
  <2>1. v = [w EXCEPT ![last] = r]
    BY <1>1, <1>4 DEF AppendValue
  <2>2. \E h \in empty : \A g \in empty : g <= h
    <3> HIDE DEF last, v, r
    <3>1. empty \in SUBSET (0 .. Len(w))
      BY <1>2
    <3> HIDE DEF empty
    <3>2. QED
      BY <1>2, <1>4, <3>1, LargestNumber
  <2>3. last \in empty
    <3> HIDE DEF empty, v, r
    <3>1. QED
      BY <2>2
  <2>4. last \in DOMAIN w /\ w[last][2] = Null
    BY <2>3
  <2> HIDE DEF last
  <2>5. r[2] \in Entities => r[1] = ref /\ ~Holds(w, r[2])
    BY <1>1, <1>4, ConstantsOK
  <2> HIDE DEF v, r, empty
  <2>6. /\ v \in Seq(Refs) /\ DOMAIN v = DOMAIN w /\ Len(v) = Len(w)
        /\ v[last] = r /\ \A i \in DOMAIN w : i # last => v[i] = w[i]
    BY <1>1, <1>2, <2>1, <2>4
  <2>7. /\ ItemGood(a, v)
        /\ \A d \in Entities : Holds(v, d) <=> d = r[2] \/ \E i \in DOMAIN w : i # last /\ w[i][2] = d
    <3>1. r \in Refs /\ last \in DOMAIN w
      BY <1>1, <2>4
    <3>2. /\ v \in Seq(Refs) /\ DOMAIN v = DOMAIN w /\ Len(v) = Len(w) /\ v[last] = r
          /\ \A i \in DOMAIN w : i # last => v[i] = w[i]
      BY <2>6
    <3>3. SlotChange(v, w, last, r)
      BY <2>5, <3>1, <3>2 DEF SlotChange
    <3>4. QED
      BY <3>3, SlotSet
  <2>8. \A d \in Entities : Holds(w, d) <=> \E i \in DOMAIN w : i # last /\ w[i][2] = d
    BY <2>4, ConstantsOK DEF Holds
  <2>9. QED
    BY <1>1, <1>4, <2>7, <2>8 DEF v, r
<1>5. CASE ~(e # Null /\ Holds(w, e)) /\ empty = {} /\ Full(a, w)
  <2>1. v = w
    BY <1>1, <1>5 DEF AppendValue
  <2>2. QED
    BY <1>1, <1>5, <2>1
<1>6. CASE ~(e # Null /\ Holds(w, e)) /\ empty = {} /\ ~Full(a, w)
  <2>1. v = Append(w, r)
    BY <1>1, <1>6 DEF AppendValue
  <2> HIDE DEF v, r
  <2>2. /\ v \in Seq(Refs) /\ Len(v) = Len(w) + 1 /\ DOMAIN v = 1 .. Len(w) + 1
        /\ v[Len(w) + 1] = r /\ \A i \in DOMAIN w : v[i] = w[i]
    BY <1>1, <1>2, <2>1
  <2>3. IF Extensible[a] THEN Limit[a] = 0 \/ Len(v) <= Limit[a] ELSE Len(v) = Required[a]
    BY <1>2, <1>6, <2>2, ConstantsOK DEF ItemGood, Full
  <2> HIDE DEF v, r
  <2>4. \A i \in DOMAIN w : w[i][2] # e
    BY <1>6 DEF Holds
  <2>5. ASSUME NEW i \in DOMAIN v, NEW j \in DOMAIN v, v[i][2] = v[j][2]
        PROVE  i = j \/ v[i][2] = Null
    <3>1. CASE i \in DOMAIN w /\ j \in DOMAIN w
      BY <2>2, <2>5, <3>1 DEF ItemGood
    <3>2. CASE ~(i \in DOMAIN w /\ j \in DOMAIN w)
      BY <1>1, <1>2, <2>2, <2>4, <2>5, <3>2
    <3>3. QED
      BY <3>1, <3>2
  <2>6. ASSUME NEW i \in DOMAIN v, v[i][2] \in Entities
        PROVE  v[i][1] = ref
    <3>1. CASE i \in DOMAIN w
      BY <2>2, <2>6, <3>1 DEF ItemGood
    <3>2. CASE i \notin DOMAIN w
      BY <1>1, <1>2, <2>2, <3>2
    <3>3. QED
      BY <3>1, <3>2
  <2>7. ItemGood(a, v)
    BY <2>2, <2>3, <2>5, <2>6 DEF ItemGood
  <2>8. ASSUME NEW d \in Entities, d # e
        PROVE  Holds(v, d) <=> Holds(w, d)
    <3>1. ASSUME NEW i \in DOMAIN v, v[i][2] = d PROVE i \in DOMAIN w
      BY <1>1, <1>2, <2>2, <2>8, <3>1
    <3>2. \A i \in DOMAIN w : i \in DOMAIN v
      BY <1>2, <2>2
    <3>3. QED
      BY <2>2, <3>1, <3>2 DEF Holds
  <2>9. QED
    BY <1>6, <2>7, <2>8 DEF v, r
<1>7. QED
  BY <1>3, <1>4, <1>5, <1>6

\* removeValue.
LEMMA RemoveGood ==
  ASSUME NEW a \in Attributes, NEW w, ItemGood(a, w), NEW p \in DOMAIN w
  PROVE  /\ ItemGood(a, RemoveValue(a, w, p))
         /\ \A d \in Entities : Holds(RemoveValue(a, w, p), d) <=> Holds(w, d) /\ d # w[p][2]
<1>1. /\ w \in Seq(Refs) /\ Len(w) \in Nat /\ DOMAIN w = 1 .. Len(w) /\ p \in 1 .. Len(w)
      /\ \A i \in DOMAIN w : w[i] \in Refs
  BY DEF ItemGood
<1>2. \A d \in Entities : Holds(w, d) /\ d # w[p][2] <=> \E i \in DOMAIN w : i # p /\ w[i][2] = d
  <2>1. ASSUME NEW d \in Entities, NEW i \in DOMAIN w, i # p, w[i][2] = d
        PROVE  d # w[p][2]
    BY <2>1, ConstantsOK DEF ItemGood
  <2>2. QED
    BY <2>1 DEF Holds
<1>3. CASE ~Extensible[a]
  <2> DEFINE v == RemoveValue(a, w, p)
  <2>1. v = [w EXCEPT ![p] = Unset]
    BY <1>3 DEF RemoveValue
  <2>2. Unset \in Refs /\ Unset[2] \notin Entities
    BY UnsetIsRef
  <2> HIDE DEF v
  <2>3. /\ v \in Seq(Refs) /\ DOMAIN v = DOMAIN w /\ Len(v) = Len(w)
        /\ v[p] = Unset /\ \A i \in DOMAIN w : i # p => v[i] = w[i]
    BY <1>1, <2>1, <2>2
  <2>4. /\ ItemGood(a, v)
        /\ \A d \in Entities : Holds(v, d) <=> d = Unset[2] \/ \E i \in DOMAIN w : i # p /\ w[i][2] = d
    <3>1. SlotChange(v, w, p, Unset)
      BY <2>2, <2>3 DEF SlotChange
    <3>2. QED
      BY <3>1, SlotSet
  <2>5. QED
    BY <1>2, <2>2, <2>4 DEF v
<1>4. CASE Extensible[a]
  <2> DEFINE v == RemoveAt(w, p)
  <2>1. RemoveValue(a, w, p) = v
    BY <1>4 DEF RemoveValue
  <2>2. /\ v \in Seq(Refs) /\ Len(v) = Len(w) - 1 /\ DOMAIN v = 1 .. Len(w) - 1
        /\ \A i \in 1 .. Len(w) - 1 : v[i] = w[IF i < p THEN i ELSE i + 1]
    BY <1>1, RemoveAtFacts
  <2> HIDE DEF v
  <2> DEFINE Was(i) == IF i < p THEN i ELSE i + 1
  <2>3. \A i \in DOMAIN v : Was(i) \in DOMAIN w /\ Was(i) # p /\ v[i] = w[Was(i)]
    BY <1>1, <2>2
  <2>4. \A i, j \in DOMAIN v : Was(i) = Was(j) => i = j
    BY <1>1, <2>2
  <2>5. \A i \in DOMAIN w : i # p => \E j \in DOMAIN v : Was(j) = i
    <3>1. ASSUME NEW i \in DOMAIN w, i # p PROVE \E j \in DOMAIN v : Was(j) = i
      <4>1. CASE i < p
        <5>1. i \in DOMAIN v
          BY <1>1, <2>2, <4>1
        <5>2. QED
          BY <4>1, <5>1
      <4>2. CASE i > p
        <5>1. i - 1 \in DOMAIN v /\ Was(i - 1) = i
          BY <1>1, <2>2, <4>2
        <5>2. QED
          BY <5>1
      <4>3. QED
        BY <1>1, <3>1, <4>1, <4>2
    <3>2. QED
      BY <3>1
  <2> HIDE DEF Was
  <2>6. ASSUME NEW i \in DOMAIN v, NEW j \in DOMAIN v, v[i][2] = v[j][2]
        PROVE  i = j \/ v[i][2] = Null
    <3>1. Was(i) = Was(j) \/ w[Was(i)][2] = Null
      BY <2>3, <2>6 DEF ItemGood
    <3>2. QED
      BY <2>3, <2>4, <3>1
  <2>7. ASSUME NEW i \in DOMAIN v, v[i][2] \in Entities
        PROVE  v[i][1] = ref
    BY <2>3, <2>7 DEF ItemGood
  <2>8. Limit[a] = 0 \/ Len(v) <= Limit[a]
    BY <1>1, <1>4, <2>2, ConstantsOK DEF ItemGood
  <2>9. ItemGood(a, v)
    BY <1>4, <2>2, <2>6, <2>7, <2>8 DEF ItemGood
  <2>10. \A d \in Entities : Holds(v, d) <=> \E i \in DOMAIN w : i # p /\ w[i][2] = d
    <3>1. ASSUME NEW d \in Entities, Holds(v, d) PROVE \E i \in DOMAIN w : i # p /\ w[i][2] = d
      BY <2>3, <3>1 DEF Holds
    <3>2. ASSUME NEW d \in Entities, NEW i \in DOMAIN w, i # p, w[i][2] = d PROVE Holds(v, d)
      <4>1. PICK j \in DOMAIN v : Was(j) = i
        BY <2>5, <3>2
      <4>2. QED
        BY <2>3, <3>2, <4>1 DEF Holds
    <3>3. QED
      BY <3>1, <3>2
  <2>11. QED
    BY <1>2, <2>1, <2>9, <2>10
<1>5. QED
  BY <1>3, <1>4

\* The first slot with an entity.
LEMMA FirstIs ==
  ASSUME NEW w \in Seq(Refs), NEW e, Holds(w, e)
  PROVE  First(w, LAMBDA r : r[2] = e) \in DOMAIN w /\ w[First(w, LAMBDA r : r[2] = e)][2] = e
<1> DEFINE D == {i \in DOMAIN w : w[i][2] = e}
<1>1. DOMAIN w = 1 .. Len(w) /\ Len(w) \in Nat
  OBVIOUS
<1>2. D \in SUBSET Nat /\ D # {}
  BY <1>1 DEF Holds
<1>3. PICK k \in D : \A j \in D : k <= j
  <2> HIDE DEF D
  <2>1. QED
    BY <1>2, SmallestNumber
<1>4. k \in DOMAIN w /\ w[k][2] = e /\ \A j \in 1 .. k - 1 : w[j][2] # e
  BY <1>1, <1>3
<1>5. QED
  BY <1>4 DEF First

\* The first slot with a reference.
LEMMA FirstRefIs ==
  ASSUME NEW w \in Seq(Refs), NEW r, NEW i \in DOMAIN w, w[i] = r
  PROVE  First(w, LAMBDA x : x = r) \in DOMAIN w /\ w[First(w, LAMBDA x : x = r)] = r
<1> DEFINE D == {j \in DOMAIN w : w[j] = r}
<1>1. DOMAIN w = 1 .. Len(w) /\ Len(w) \in Nat
  OBVIOUS
<1>2. D \in SUBSET Nat /\ D # {}
  BY <1>1
<1>3. PICK k \in D : \A j \in D : k <= j
  <2> HIDE DEF D
  <2>1. QED
    BY <1>2, SmallestNumber
<1>4. k \in DOMAIN w /\ w[k] = r /\ \A j \in 1 .. k - 1 : w[j] # r
  BY <1>1, <1>3
<1>5. QED
  BY <1>4 DEF First

\* What appendValue leaves holding an entity, it holds as an entity of the
\* collection's manager; the same for the null entity.
LEMMA AppendHolds ==
  ASSUME NEW a \in Attributes, NEW w, ItemGood(a, w), NEW e \in Keys, ref \in Managers \cup {Nil},
         NEW v, v = AppendValue(a, w, << ref, e >>), Holds(v, e)
  PROVE  \E i \in DOMAIN v : v[i] = << ref, e >>
<1>1. ItemGood(a, v)
  BY AppendGood
<1>2. CASE e # Null
  <2>1. e \in Entities
    BY <1>2 DEF Keys
  <2>2. PICK i \in DOMAIN v : v[i][2] = e
    BY DEF Holds
  <2>3. v[i][1] = ref /\ v[i] \in Refs
    <3>1. v \in Seq(Refs) /\ v[i][1] = ref
      BY <1>1, <2>1, <2>2 DEF ItemGood
    <3>2. QED
      BY <3>1
  <2>4. v[i] = << ref, e >>
    BY <2>2, <2>3 DEF Refs
  <2>5. QED
    BY <2>4
<1>3. CASE e = Null
  <2> DEFINE r == << ref, e >>
             empty == {i \in DOMAIN w : w[i][2] = Null}
             last == CHOOSE i \in empty : \A j \in empty : j <= i
  <2>1. /\ w \in Seq(Refs) /\ Len(w) \in Nat /\ DOMAIN w = 1 .. Len(w)
    BY DEF ItemGood
  <2>2. r[2] = Null /\ r \in Refs
    BY <1>3 DEF Refs, Keys
  <2>3. CASE empty # {}
    <3>1. v = [w EXCEPT ![last] = r]
      BY <2>2, <2>3 DEF AppendValue
    <3>2. \E h \in empty : \A g \in empty : g <= h
      <4>1. empty \in SUBSET (0 .. Len(w))
        BY <2>1
      <4> HIDE DEF empty
      <4>2. QED
        BY <2>1, <2>3, <4>1, LargestNumber
    <3>3. last \in empty
      <4> HIDE DEF empty
      <4>1. QED
        BY <3>2
    <3>4. last \in DOMAIN w
      BY <3>3
    <3> HIDE DEF last, r, empty
    <3>5. last \in DOMAIN v /\ v[last] = r
      BY <3>1, <3>4
    <3>6. QED
      BY <3>5 DEF r
  <2>4. CASE empty = {} /\ Full(a, w)
    <3>1. v = w
      BY <2>2, <2>4 DEF AppendValue
    <3>2. QED
      BY <1>3, <2>4, <3>1 DEF Holds
  <2>5. CASE empty = {} /\ ~Full(a, w)
    <3>1. v = Append(w, r)
      BY <2>2, <2>5 DEF AppendValue
    <3> HIDE DEF r
    <3>2. Len(w) + 1 \in DOMAIN v /\ v[Len(w) + 1] = r
      BY <2>1, <2>2, <3>1
    <3>3. QED
      BY <3>2 DEF r
  <2>6. QED
    BY <2>3, <2>4, <2>5
<1>4. QED
  BY <1>2, <1>3

-----------------------------------------------------------------------------
(* A change to one attribute *)

AttributeChange(a, vs, as, here, vs2, as2, here2, made_) ==
  /\ vs2 \in [Attributes -> Seq(Refs)]
  /\ ItemGood(a, vs2[a])
  /\ \A b \in Attributes : b # a => vs2[b] = vs[b]
  /\ as2 \in Assignments(made_ \cup {a})
  /\ \A b \in made_ : b # a => \A m \in Managers, e \in Keys : b \in as2[m][e] <=> b \in as[m][e]
  /\ here2 \subseteq here \cup {a}
  /\ a \in here2 => LinksGood(a, vs2[a], as2)

LEMMA ChangeGood ==
  ASSUME NEW a \in Attributes, NEW vs, NEW as, NEW here, NEW vs2, NEW as2, NEW here2,
         NEW made_ \in SUBSET Attributes, ref \in Managers \cup {Nil},
         CopiesGood(vs, as, here, made_), AttributeChange(a, vs, as, here, vs2, as2, here2, made_)
  PROVE  CopiesGood(vs2, as2, here2, made_ \cup {a})
<1>1. ASSUME NEW b \in made_ \cup {a}
      PROVE  ItemGood(b, vs2[b])
  BY DEF AttributeChange, CopiesGood
<1>2. ASSUME NEW b \in here2
      PROVE  LinksGood(b, vs2[b], as2)
  <2>1. CASE b = a
    BY <2>1 DEF AttributeChange
  <2>2. CASE b # a
    <3>1. b \in here /\ b \in made_ /\ b \in Attributes
      BY <2>2 DEF AttributeChange, CopiesGood
    <3>2. LinksGood(b, vs[b], as) /\ vs2[b] = vs[b]
      BY <2>2, <3>1 DEF AttributeChange, CopiesGood
    <3>3. \A m \in Managers, e \in Keys : b \in as2[m][e] <=> b \in as[m][e]
      BY <2>2, <3>1 DEF AttributeChange
    <3>4. ASSUME NEW e \in Entities
          PROVE  /\ \A m \in Managers : b \in as2[m][e] => m = ref /\ Holds(vs[b], e)
                 /\ Holds(vs[b], e) /\ ref # Nil /\ e \notin erased => b \in as2[ref][e]
      <4>1. e \in Keys
        BY DEF Keys
      <4>2. \A m \in Managers : b \in as2[m][e] => m = ref /\ Holds(vs[b], e)
        BY <3>2, <3>3, <4>1 DEF LinksGood
      <4>3. ASSUME Holds(vs[b], e), ref # Nil, e \notin erased
            PROVE  b \in as2[ref][e]
        BY <3>2, <3>3, <4>1, <4>3 DEF LinksGood
      <4>4. QED
        BY <4>2, <4>3
    <3>5. QED
      BY <3>2, <3>4 DEF LinksGood
  <2>3. QED
    BY <2>1, <2>2
<1>3. QED
  BY <1>1, <1>2 DEF AttributeChange, CopiesGood

\* A state that differs from an earlier one in one attribute, which may be new.
OneChange(a, now, new, made_) ==
  /\ new \in States(made_ \cup {a})
  /\ AttributeChange(a, now.values, now.assigned, now.here,
                     new.values, new.assigned, new.here, made_)

LEMMA OneChangeGood ==
  ASSUME NEW a \in Attributes, NEW now, NEW new, NEW made_ \in SUBSET Attributes,
         ref \in Managers \cup {Nil}, Good(now, made_), OneChange(a, now, new, made_)
  PROVE  Good(new, made_ \cup {a})
BY ChangeGood DEF Good, OneChange

\* What is known of an attribute within a call.
LEMMA GoodFacts ==
  ASSUME NEW made_ \in SUBSET Attributes, NEW now, Good(now, made_), NEW a \in made_
  PROVE  /\ a \in Attributes /\ now \in States(made_) /\ now.here \subseteq made_
         /\ ItemGood(a, now.values[a]) /\ now.values[a] \in Seq(Refs)
         /\ now.assigned \in Assignments(made_)
         /\ a \in now.here => LinksGood(a, now.values[a], now.assigned)
BY DEF Good, CopiesGood, ItemGood

\* An answer, and the managers that know the collection, matter to nothing else.
Answered(now, ok) == [now EXCEPT !.ok = ok]

LEMMA AnswerGood ==
  ASSUME NEW made_, NEW now, Good(now, made_), NEW ok \in {"yes", "no"}
  PROVE  /\ Good(Answered(now, ok), made_)
         /\ Answered(now, ok).here = now.here
         /\ Answered(now, ok).values = now.values
         /\ Answered(now, ok).assigned = now.assigned
         /\ Answered(now, ok).known = now.known
         /\ Answered(now, ok).ok = ok
<1>1. now \in States(made_) /\ CopiesGood(now.values, now.assigned, now.here, made_)
  BY DEF Good
<1> DEFINE new == Answered(now, ok)
<1>2. /\ new \in States(made_) /\ new.values = now.values /\ new.assigned = now.assigned
      /\ new.known = now.known /\ new.here = now.here /\ new.ok = ok
  BY <1>1 DEF States, Answered
<1> HIDE DEF new
<1>3. Good(new, made_)
  BY <1>1, <1>2 DEF Good
<1>4. QED
  BY <1>2, <1>3 DEF new

Told(now, S, ok) == [now EXCEPT !.known = S, !.ok = ok]

LEMMA ToldGood ==
  ASSUME NEW made_, NEW now, Good(now, made_), NEW S \in SUBSET Managers, NEW ok \in {"yes", "no"}
  PROVE  /\ Good(Told(now, S, ok), made_)
         /\ Told(now, S, ok).here = now.here
         /\ Told(now, S, ok).values = now.values
         /\ Told(now, S, ok).ok = ok
<1>1. now \in States(made_) /\ CopiesGood(now.values, now.assigned, now.here, made_)
  BY DEF Good
<1> DEFINE new == Told(now, S, ok)
<1>2. /\ new \in States(made_) /\ new.values = now.values /\ new.assigned = now.assigned
      /\ new.here = now.here /\ new.ok = ok
  BY <1>1 DEF States, Told
<1> HIDE DEF new
<1>3. Good(new, made_)
  BY <1>1, <1>2 DEF Good
<1>4. QED
  BY <1>2, <1>3 DEF new

\* The state with new slots for an attribute and a new assignment of an entity.
Changed(now, a, w, m, e, S) == [now EXCEPT !.values[a] = w, !.assigned[m][e] = S]

\* When it is as good as it was: nothing is different but for a and e.
MayChange(now, made_, a, w, m, e, S) ==
  /\ ItemGood(a, w) /\ S \in SUBSET made_
  /\ \A b \in made_ : b # a => (b \in S <=> b \in now.assigned[m][e])
  /\ a \in now.here =>
       \A d \in Entities :
         IF d # e THEN Holds(w, d) <=> Holds(now.values[a], d)
         ELSE /\ a \in S => m = ref /\ Holds(w, d)
              /\ \A n \in Managers : n # m /\ a \in now.assigned[n][d] => n = ref /\ Holds(w, d)
              /\ Holds(w, d) /\ ref # Nil /\ d \notin erased =>
                   IF m = ref THEN a \in S ELSE a \in now.assigned[ref][d]

LEMMA ChangedGood ==
  ASSUME NEW made_ \in SUBSET Attributes, NEW now, Good(now, made_), ref \in Managers \cup {Nil},
         NEW a \in made_, NEW w, NEW m \in Managers, NEW e \in Keys, NEW S,
         MayChange(now, made_, a, w, m, e, S)
  PROVE  /\ Good(Changed(now, a, w, m, e, S), made_)
         /\ Changed(now, a, w, m, e, S).here = now.here
         /\ Changed(now, a, w, m, e, S).values[a] = w
         /\ Changed(now, a, w, m, e, S).ok = now.ok
         /\ Changed(now, a, w, m, e, S).known = now.known
<1> DEFINE new == Changed(now, a, w, m, e, S)
<1>1. /\ now \in States(made_) /\ a \in Attributes /\ w \in Seq(Refs) /\ S \in SUBSET made_
      /\ CopiesGood(now.values, now.assigned, now.here, made_)
  BY DEF Good, ItemGood, MayChange
<1>2. /\ new \in States(made_)
      /\ new.here = now.here /\ new.ok = now.ok /\ new.known = now.known
      /\ new.values = [now.values EXCEPT ![a] = w]
      /\ new.assigned = [now.assigned EXCEPT ![m] = [@ EXCEPT ![e] = S]]
  BY <1>1 DEF States, Changed, Assignments
<1>3. /\ now.values \in [Attributes -> Seq(Refs)] /\ now.assigned \in Assignments(made_)
      /\ now.here \subseteq made_
  BY <1>1 DEF CopiesGood
<1> HIDE DEF new
<1>4. new.values \in [Attributes -> Seq(Refs)] /\ new.assigned \in Assignments(made_)
  BY <1>2 DEF States
<1>5. new.values[a] = w /\ \A b \in Attributes : b # a => new.values[b] = now.values[b]
  BY <1>1, <1>2, <1>3
<1>6. \A n \in Managers, d \in Keys :
        new.assigned[n][d] = IF n = m /\ d = e THEN S ELSE now.assigned[n][d]
  BY <1>2, <1>3 DEF Assignments
<1>7. ASSUME a \in now.here PROVE LinksGood(a, w, new.assigned)
  <2>1. LinksGood(a, now.values[a], now.assigned)
    BY <1>1, <1>7 DEF CopiesGood
  <2>2. ASSUME NEW d \in Entities
        PROVE  /\ \A n \in Managers : a \in new.assigned[n][d] => n = ref /\ Holds(w, d)
               /\ Holds(w, d) /\ ref # Nil /\ d \notin erased => a \in new.assigned[ref][d]
    <3>1. d \in Keys
      BY DEF Keys
    <3>2. CASE d # e
      <4>1. Holds(w, d) <=> Holds(now.values[a], d)
        BY <1>7, <3>2 DEF MayChange
      <4>2. \A n \in Managers : new.assigned[n][d] = now.assigned[n][d]
        BY <1>6, <3>1, <3>2
      <4>3. \A n \in Managers : a \in new.assigned[n][d] => n = ref /\ Holds(w, d)
        BY <2>1, <4>1, <4>2 DEF LinksGood
      <4>4. ASSUME Holds(w, d), ref # Nil, d \notin erased PROVE a \in new.assigned[ref][d]
        BY <2>1, <4>1, <4>2, <4>4 DEF LinksGood
      <4>5. QED
        BY <4>3, <4>4
    <3>3. CASE d = e
      <4>1. \A n \in Managers : new.assigned[n][d] = IF n = m THEN S ELSE now.assigned[n][d]
        BY <1>6, <3>1, <3>3
      <4>2. /\ a \in S => m = ref /\ Holds(w, d)
            /\ \A n \in Managers : n # m /\ a \in now.assigned[n][d] => n = ref /\ Holds(w, d)
            /\ Holds(w, d) /\ ref # Nil /\ d \notin erased =>
                 IF m = ref THEN a \in S ELSE a \in now.assigned[ref][d]
        BY <1>7, <3>3 DEF MayChange
      <4>3. \A n \in Managers : a \in new.assigned[n][d] => n = ref /\ Holds(w, d)
        BY <4>1, <4>2
      <4>4. ASSUME Holds(w, d), ref # Nil, d \notin erased PROVE a \in new.assigned[ref][d]
        BY <4>1, <4>2, <4>4
      <4>5. QED
        BY <4>3, <4>4
    <3>4. QED
      BY <3>2, <3>3
  <2>3. QED
    BY <2>2 DEF LinksGood
<1>8. made_ \cup {a} = made_
  OBVIOUS
<1>9. \A b \in made_ : b # a => \A n \in Managers, d \in Keys :
        b \in new.assigned[n][d] <=> b \in now.assigned[n][d]
  BY <1>6 DEF MayChange
<1>10. ItemGood(a, w)
  BY DEF MayChange
<1>11. OneChange(a, now, new, made_)
  BY <1>2, <1>4, <1>5, <1>7, <1>8, <1>9, <1>10 DEF AttributeChange, OneChange
<1>12. Good(new, made_)
  BY <1>1, <1>8, <1>11, OneChangeGood
<1>13. QED
  BY <1>2, <1>5, <1>12 DEF new

\* While the collection has no manager, nothing is assigned, whatever is held.
LEMMA RefilledGood ==
  ASSUME NEW made_ \in SUBSET Attributes, NEW now, Good(now, made_), ref = Nil,
         NEW a \in made_, NEW w, ItemGood(a, w)
  PROVE  /\ Good([now EXCEPT !.values[a] = w], made_)
         /\ [now EXCEPT !.values[a] = w].here = now.here
         /\ [now EXCEPT !.values[a] = w].values[a] = w
         /\ [now EXCEPT !.values[a] = w].ok = now.ok
<1> DEFINE new == [now EXCEPT !.values[a] = w]
<1>1. /\ now \in States(made_) /\ a \in Attributes /\ w \in Seq(Refs)
      /\ now.here \subseteq made_
      /\ now.values \in [Attributes -> Seq(Refs)] /\ now.assigned \in Assignments(made_)
      /\ a \in now.here => LinksGood(a, now.values[a], now.assigned)
  BY DEF Good, ItemGood, CopiesGood
<1>2. /\ new \in States(made_)
      /\ new.here = now.here /\ new.ok = now.ok /\ new.assigned = now.assigned
      /\ new.values = [now.values EXCEPT ![a] = w]
  BY <1>1 DEF States
<1> HIDE DEF new
<1>3. /\ new.values \in [Attributes -> Seq(Refs)] /\ new.values[a] = w
      /\ \A b \in Attributes : b # a => new.values[b] = now.values[b]
  BY <1>1, <1>2
<1>4. a \in now.here => LinksGood(a, w, now.assigned)
  BY <1>1, ConstantsOK DEF LinksGood
<1>5. made_ \cup {a} = made_
  OBVIOUS
<1>6. OneChange(a, now, new, made_)
  BY <1>1, <1>2, <1>3, <1>4, <1>5 DEF OneChange, AttributeChange
<1>7. Good(new, made_)
  BY <1>1, <1>5, <1>6, OneChangeGood
<1>8. QED
  BY <1>2, <1>3, <1>7 DEF new

-----------------------------------------------------------------------------
(* Associating *)

\* The attribute first: it takes the entity if it may, and tells its manager.
LEMMA AttributeAssociatesGood ==
  ASSUME NEW made_ \in SUBSET Attributes, NEW now, Good(now, made_), ref \in Managers \cup {Nil},
         NEW a \in made_, NEW e \in Keys,
         NEW new, new = AttributeAssociates(now, a, << ref, e >>)
  PROVE  /\ Good(new, made_)
         /\ new.here = now.here /\ new.ok \in {"yes", "no"}
         /\ new.ok = "yes" => Holds(new.values[a], e)
         /\ Keeps(now, new, made_)
<1> DEFINE r == << ref, e >>
           w == now.values[a]
           valid == IsValueValid(a, r)
           v == AppendValue(a, w, r)
           taken == [now EXCEPT !.values[a] = v]
<1>1. /\ a \in Attributes /\ now \in States(made_) /\ ItemGood(a, w)
      /\ now.assigned \in Assignments(made_)
      /\ a \in now.here => LinksGood(a, w, now.assigned)
  BY GoodFacts
<1>2. /\ ItemGood(a, v)
      /\ \A d \in Entities : d # e => (Holds(v, d) <=> Holds(w, d))
      /\ \A d \in Entities : Holds(w, d) => Holds(v, d)
  <2>1. /\ ItemGood(a, v)
        /\ \A d \in Entities : d # e => (Holds(v, d) <=> Holds(w, d))
        /\ Holds(w, e) /\ e # Null => v = w
    BY <1>1, AppendGood
  <2> HIDE DEF v, w
  <2>2. QED
    BY <2>1, ConstantsOK
<1>3. Holds(v, e) => \E i \in DOMAIN v : v[i] = r
  <2> DEFINE x == AppendValue(a, now.values[a], << ref, e >>)
  <2>1. ASSUME NEW u, u = x, Holds(u, e) PROVE \E i \in DOMAIN u : u[i] = << ref, e >>
    <3> HIDE DEF v, r
    <3>1. QED
      BY <1>1, <2>1, AppendHolds
  <2>2. QED
    BY <2>1
<1>4. r[1] = ref /\ r[2] = e
  OBVIOUS
<1> DEFINE same == \E i \in DOMAIN w : w[i] = r
<1>5. CASE same
  <2>1. new = Answered(now, "yes")
    BY <1>5 DEF AttributeAssociates, Answered
  <2>2. Holds(w, e)
    BY <1>4, <1>5 DEF Holds
  <2> HIDE DEF r, v, valid, taken
  <2>3. /\ Good(new, made_) /\ new.here = now.here /\ new.values = now.values /\ new.ok = "yes"
    BY <2>1, AnswerGood
  <2>4. QED
    BY <2>2, <2>3 DEF Keeps
<1>6. CASE ~same /\ (~valid \/ ~Holds(v, e))
  <2>1. new = Answered(now, "no")
    BY <1>4, <1>6 DEF AttributeAssociates, Answered
  <2> HIDE DEF r, v, valid, taken, same
  <2>2. /\ Good(new, made_) /\ new.here = now.here /\ new.values = now.values /\ new.ok = "no"
    BY <2>1, AnswerGood
  <2>3. QED
    BY <2>2 DEF Keeps
<1>7. CASE ~same /\ valid /\ Holds(v, e) /\ ref = Nil
  <2>1. new = Answered(taken, "yes")
    BY <1>4, <1>7 DEF AttributeAssociates, Answered
  <2>2. Holds(v, e) /\ ref = Nil
    BY <1>7
  <2> HIDE DEF r, v, valid, same, taken
  <2>3. Good(taken, made_) /\ taken.here = now.here /\ taken.values[a] = v
    BY <1>2, <2>2, RefilledGood DEF taken
  <2>4. Good(new, made_) /\ new.here = now.here /\ new.values[a] = v /\ new.ok = "yes"
    BY <2>1, <2>3, AnswerGood
  <2>5. \A b \in made_ : b # a => new.values[b] = now.values[b]
    <3>1. \A b \in made_ : b # a => taken.values[b] = now.values[b]
      BY <1>1 DEF taken, States
    <3>2. new.values = taken.values
      BY <2>1, <2>3, AnswerGood
    <3>3. QED
      BY <3>1, <3>2
  <2>6. Keeps(now, new, made_)
    BY <1>2, <2>4, <2>5 DEF Keeps
  <2>7. QED
    BY <2>2, <2>4, <2>6
<1>8. CASE ~same /\ valid /\ Holds(v, e) /\ ref # Nil
  <2> DEFINE answer == CallBack(taken, a, e)
             S == IF answer = "yes" THEN now.assigned[ref][e] \cup {a} ELSE now.assigned[ref][e]
             held == Changed(now, a, v, ref, e, S)
             K == now.known \cup {ref}
  <2>1. new = Recorded(taken, ref, a, e, answer)
    BY <1>4, <1>8 DEF AttributeAssociates
  <2>2. /\ taken.here = now.here /\ taken.values[a] = v /\ taken.assigned = now.assigned
        /\ taken.known = now.known
    BY <1>1 DEF States
  <2>3. /\ a \in now.here => answer = "yes"
        /\ a \notin now.here => answer = "no"
    BY <1>3, <1>8, <2>2 DEF CallBack
  <2>4. ref \in Managers /\ Holds(v, e)
    BY <1>8
  <2> HIDE DEF answer
  <2>5. new = Told(held, K, answer)
    <3> HIDE DEF v, r, same, valid
    <3>1. QED
      BY <1>1, <2>1, <2>4 DEF Recorded, Changed, Told, States, Assignments
  <2> HIDE DEF v, r, same, valid, taken
  <2>6. MayChange(now, made_, a, v, ref, e, S)
    <3>1. S \in SUBSET made_ /\ \A b \in made_ : b # a => (b \in S <=> b \in now.assigned[ref][e])
      BY <1>1, <2>4 DEF Assignments
    <3>2. ASSUME a \in now.here, NEW n \in Managers, n # ref, e \in Entities
          PROVE  a \notin now.assigned[n][e]
      BY <1>1, <3>2 DEF LinksGood
    <3>3. a \in now.here => a \in S
      BY <2>3
    <3> HIDE DEF S
    <3>4. QED
      BY <1>2, <2>4, <3>1, <3>2, <3>3 DEF MayChange
  <2> HIDE DEF S
  <2>7. Good(held, made_) /\ held.here = now.here /\ held.values[a] = v
    BY <2>4, <2>6, ChangedGood
  <2>8. K \in SUBSET Managers /\ answer \in {"yes", "no"}
    BY <1>1, <2>3, <2>4 DEF States
  <2>9. \A b \in made_ : b # a => held.values[b] = now.values[b]
    BY <1>1 DEF Changed, States
  <2> HIDE DEF held, K
  <2>10. Good(new, made_) /\ new.here = now.here /\ new.values[a] = v /\ new.ok = answer
    BY <2>5, <2>7, <2>8, ToldGood
  <2>11. \A b \in made_ : b # a => new.values[b] = now.values[b]
    BY <2>5, <2>7, <2>8, <2>9, ToldGood
  <2>12. Keeps(now, new, made_)
    BY <1>2, <2>10, <2>11 DEF Keeps
  <2>13. QED
    BY <2>4, <2>8, <2>10, <2>12
<1>9. QED
  BY <1>5, <1>6, <1>7, <1>8

\* A manager notes an association that the attribute has, or was refused.
LEMMA RecordedGood ==
  ASSUME NEW made_ \in SUBSET Attributes, NEW now, Good(now, made_), NEW m \in Managers, m = ref,
         NEW a \in made_, NEW e \in Keys, NEW answer \in {"yes", "no"},
         answer = "yes" => Holds(now.values[a], e)
  PROVE  /\ Good(Recorded(now, m, a, e, answer), made_)
         /\ Recorded(now, m, a, e, answer).here = now.here
         /\ Recorded(now, m, a, e, answer).values = now.values
         /\ Recorded(now, m, a, e, answer).ok = answer
<1> DEFINE w == now.values[a]
           S == IF answer = "yes" THEN now.assigned[m][e] \cup {a} ELSE now.assigned[m][e]
           K == now.known \cup {m}
           held == Changed(now, a, w, m, e, S)
           new == Recorded(now, m, a, e, answer)
<1>1. /\ a \in Attributes /\ now \in States(made_) /\ ItemGood(a, w)
      /\ now.assigned \in Assignments(made_)
      /\ a \in now.here => LinksGood(a, w, now.assigned)
  BY GoodFacts
<1>2. new = Told(held, K, answer)
  <2>1. held.values = now.values
    BY <1>1 DEF Changed, States
  <2>2. held.assigned = [now.assigned EXCEPT ![m][e] = S]
    BY <1>1 DEF Changed, States
  <2>3. new = [now EXCEPT !.known = K, !.assigned = [now.assigned EXCEPT ![m][e] = S], !.ok = answer]
    BY <1>1 DEF Recorded, States, Assignments
  <2>4. held = [now EXCEPT !.assigned = [now.assigned EXCEPT ![m][e] = S]]
    BY <1>1, <2>1, <2>2 DEF Changed, States
  <2> HIDE DEF S, K, held, new
  <2>5. QED
    BY <1>1, <2>3, <2>4 DEF Told, States
<1> HIDE DEF new
<1>3. MayChange(now, made_, a, w, m, e, S)
  <2>1. S \in SUBSET made_ /\ \A b \in made_ : b # a => (b \in S <=> b \in now.assigned[m][e])
    BY <1>1 DEF Assignments
  <2>2. ASSUME a \in now.here, NEW n \in Managers, n # m, e \in Entities
        PROVE  a \notin now.assigned[n][e]
    BY <1>1, <2>2 DEF LinksGood
  <2>3. ASSUME a \in now.here, e \in Entities, a \in S PROVE Holds(w, e)
    BY <1>1, <2>3 DEF LinksGood
  <2>4. ASSUME a \in now.here, e \in Entities, Holds(w, e), e \notin erased PROVE a \in S
    BY <1>1, <2>4, ConstantsOK DEF LinksGood
  <2> HIDE DEF S
  <2>5. QED
    BY <1>1, <2>1, <2>2, <2>3, <2>4 DEF MayChange
<1> HIDE DEF S
<1>4. Good(held, made_) /\ held.here = now.here /\ held.values = now.values
  <2>1. held.values = now.values
    BY <1>1 DEF Changed, States
  <2>2. QED
    BY <1>3, <2>1, ChangedGood
<1>5. K \in SUBSET Managers
  BY <1>1 DEF States
<1> HIDE DEF held, K
<1>6. Good(new, made_) /\ new.here = now.here /\ new.values = now.values /\ new.ok = answer
  BY <1>2, <1>4, <1>5, ToldGood
<1>7. QED
  BY <1>6 DEF new

\* The manager first: it tells an attribute that the collection still finds.
LEMMA ManagerAssociatesGood ==
  ASSUME NEW made_ \in SUBSET Attributes, NEW now, Good(now, made_), NEW m \in Managers, m = ref,
         NEW a \in made_, NEW e \in Keys
  PROVE  /\ Good(ManagerAssociates(now, m, a, e), made_)
         /\ ManagerAssociates(now, m, a, e).here = now.here
         /\ ManagerAssociates(now, m, a, e).ok = "yes" =>
              Holds(ManagerAssociates(now, m, a, e).values[a], e)
         /\ Keeps(now, ManagerAssociates(now, m, a, e), made_)
<1> DEFINE told == AttributeAssociates(now, a, << ref, e >>)
<1>1. /\ Good(told, made_) /\ told.here = now.here /\ told.ok \in {"yes", "no"}
      /\ told.ok = "yes" => Holds(told.values[a], e)
      /\ Keeps(now, told, made_)
  <2>1. ref \in Managers \cup {Nil}
    OBVIOUS
  <2>2. ASSUME NEW new, new = told
        PROVE  /\ Good(new, made_) /\ new.here = now.here /\ new.ok \in {"yes", "no"}
               /\ new.ok = "yes" => Holds(new.values[a], e)
               /\ Keeps(now, new, made_)
    BY <2>1, <2>2, AttributeAssociatesGood
  <2>3. QED
    BY <2>2
<1> HIDE DEF told
<1>2. CASE a \in now.here
  <2> DEFINE answer == told.ok
  <2>1. ManagerAssociates(now, m, a, e) = Recorded(told, m, a, e, answer)
    BY <1>2 DEF ManagerAssociates, told
  <2>2. answer \in {"yes", "no"} /\ (answer = "yes" => Holds(told.values[a], e))
    BY <1>1
  <2> HIDE DEF answer
  <2> DEFINE new == Recorded(told, m, a, e, answer)
  <2>3. /\ Good(new, made_) /\ new.here = told.here /\ new.values = told.values
        /\ new.ok = answer
    BY <1>1, <2>2, RecordedGood
  <2> HIDE DEF new
  <2>4. Keeps(now, new, made_)
    BY <1>1, <2>3 DEF Keeps
  <2>5. QED
    BY <1>1, <2>1, <2>2, <2>3, <2>4 DEF new
<1>3. CASE a \notin now.here
  <2>1. ManagerAssociates(now, m, a, e) = Recorded(now, m, a, e, "no")
    BY <1>3 DEF ManagerAssociates
  <2> DEFINE new == Recorded(now, m, a, e, "no")
  <2>2. /\ Good(new, made_) /\ new.here = now.here /\ new.values = now.values
        /\ new.ok = "no"
    BY RecordedGood
  <2> HIDE DEF new
  <2>3. Keeps(now, new, made_)
    BY <2>2 DEF Keeps
  <2>4. QED
    BY <2>1, <2>2, <2>3 DEF new
<1>4. QED
  BY <1>2, <1>3

-----------------------------------------------------------------------------
(* Disassociating *)

\* A slot is cleared and its assignment dropped.
Forgotten(now, a, p, m, e) ==
  Changed(now, a, RemoveValue(a, now.values[a], p), m, e, now.assigned[m][e] \ {a})

LEMMA ForgottenGood ==
  ASSUME NEW made_ \in SUBSET Attributes, NEW now, Good(now, made_), NEW m \in Managers, m = ref,
         NEW a \in made_, NEW e \in Entities, NEW p \in DOMAIN now.values[a],
         now.values[a][p][2] = e
  PROVE  /\ Good(Forgotten(now, a, p, m, e), made_)
         /\ Forgotten(now, a, p, m, e).here = now.here
<1> DEFINE w == now.values[a]
           v == RemoveValue(a, w, p)
           S == now.assigned[m][e] \ {a}
<1>1. /\ a \in Attributes /\ now \in States(made_) /\ ItemGood(a, w)
      /\ now.assigned \in Assignments(made_)
      /\ a \in now.here => LinksGood(a, w, now.assigned)
  BY GoodFacts
<1>2. ItemGood(a, v) /\ \A d \in Entities : Holds(v, d) <=> Holds(w, d) /\ d # e
  BY <1>1, RemoveGood
<1> HIDE DEF v
<1>3. e \in Keys
  BY DEF Keys
<1>4. MayChange(now, made_, a, v, m, e, S)
  <2>1. S \in SUBSET made_ /\ \A b \in made_ : b # a => (b \in S <=> b \in now.assigned[m][e])
    BY <1>1, <1>3 DEF Assignments
  <2>2. ASSUME a \in now.here, NEW n \in Managers, n # m
        PROVE  a \notin now.assigned[n][e]
    BY <1>1, <2>2 DEF LinksGood
  <2>3. a \notin S
    OBVIOUS
  <2> HIDE DEF S
  <2>4. QED
    BY <1>2, <2>1, <2>2, <2>3 DEF MayChange
<1> HIDE DEF S
<1>5. Good(Changed(now, a, v, m, e, S), made_) /\ Changed(now, a, v, m, e, S).here = now.here
  <2>1. ref \in Managers \cup {Nil}
    OBVIOUS
  <2>2. QED
    BY <1>3, <1>4, <2>1, ChangedGood
<1>6. QED
  BY <1>5 DEF v, S, Forgotten

\* Nothing is lost but what some attributes have to do with one entity.
Spares(now, new, attrs, e, made_) ==
  /\ new.known = now.known
  /\ \A b \in made_, d \in Entities :
       Holds(now.values[b], d) => Holds(new.values[b], d) \/ (b \in attrs /\ d = e)
  /\ \A b \in made_, n \in Managers, d \in Entities :
       b \in now.assigned[n][d] => b \in new.assigned[n][d] \/ (b \in attrs /\ d = e)

LEMMA ChangedSpares ==
  ASSUME NEW made_ \in SUBSET Attributes, NEW now \in States(made_), NEW m \in Managers,
         NEW a \in made_, NEW e \in Entities, NEW v,
         \A d \in Entities : d # e /\ Holds(now.values[a], d) => Holds(v, d)
  PROVE  Spares(now, Changed(now, a, v, m, e, now.assigned[m][e] \ {a}), {a}, e, made_)
<1> DEFINE S == now.assigned[m][e] \ {a}
           new == Changed(now, a, v, m, e, S)
<1>1. /\ new.known = now.known
      /\ new.values = [now.values EXCEPT ![a] = v]
      /\ new.assigned = [now.assigned EXCEPT ![m][e] = S]
  BY DEF Changed, States
<1>2. \A b \in made_ : new.values[b] = IF b = a THEN v ELSE now.values[b]
  <2> HIDE DEF new
  <2>1. QED
    BY <1>1 DEF States
<1>3. \A n \in Managers, d \in Entities :
        new.assigned[n][d] = IF n = m /\ d = e THEN S ELSE now.assigned[n][d]
  <2> HIDE DEF new, S
  <2>1. QED
    BY <1>1 DEF States, Assignments, Keys
<1> HIDE DEF new
<1>4. Spares(now, new, {a}, e, made_)
  BY <1>1, <1>2, <1>3 DEF Spares
<1>5. QED
  BY <1>4 DEF new

\* From the manager's side.
LEMMA ManagerDisassociatesGood ==
  ASSUME NEW made_ \in SUBSET Attributes, NEW now, Good(now, made_), ref \in Managers \cup {Nil},
         NEW m \in Managers, NEW a \in made_, NEW e \in Entities
  PROVE  /\ Good(ManagerDisassociates(now, m, a, e), made_)
         /\ ManagerDisassociates(now, m, a, e).here = now.here
         /\ Spares(now, ManagerDisassociates(now, m, a, e), {a}, e, made_)
<1> DEFINE w == now.values[a]
           p == First(w, LAMBDA r : r[2] = e)
           S == now.assigned[m][e] \ {a}
           new == ManagerDisassociates(now, m, a, e)
<1>1. /\ a \in Attributes /\ now \in States(made_) /\ ItemGood(a, w) /\ w \in Seq(Refs)
      /\ now.assigned \in Assignments(made_) /\ e \in Keys
      /\ a \in now.here => LinksGood(a, w, now.assigned)
  BY GoodFacts DEF Keys
<1>2. CASE a \notin now.assigned[m][e]
  <2>1. new = Answered(now, "no")
    BY <1>2 DEF ManagerDisassociates, Answered
  <2> HIDE DEF new
  <2>2. /\ Good(new, made_) /\ new.here = now.here
        /\ new.values = now.values /\ new.assigned = now.assigned /\ new.known = now.known
    BY <2>1, AnswerGood
  <2>3. Spares(now, new, {a}, e, made_)
    BY <2>2 DEF Spares
  <2>4. QED
    BY <2>2, <2>3 DEF new
<1>3. CASE a \in now.assigned[m][e] /\ a \in now.here
  <2>1. m = ref /\ Holds(w, e)
    BY <1>1, <1>3 DEF LinksGood
  <2>2. p \in DOMAIN w /\ w[p][2] = e
    BY <1>1, <2>1, FirstIs
  <2> DEFINE rest == Forgotten(now, a, p, m, e)
  <2>3. new = Answered(rest, "yes")
    <3> DEFINE forgot == ManagerForgets(now, m, a, e)
    <3>1. new = [AttributeForgets(forgot, a, e) EXCEPT !.ok = "yes"]
      BY <1>3 DEF ManagerDisassociates
    <3>2. forgot.values = now.values
      BY <1>1 DEF ManagerForgets, States
    <3>3. AttributeForgets(forgot, a, e) = [forgot EXCEPT !.values[a] = RemoveValue(a, w, p)]
      <4> HIDE DEF forgot
      <4>1. QED
        BY <2>1, <3>2 DEF AttributeForgets
    <3> HIDE DEF p, new
    <3>4. [forgot EXCEPT !.values[a] = RemoveValue(a, w, p)] = rest
      BY <1>1 DEF ManagerForgets, Forgotten, Changed, States, Assignments
    <3>5. QED
      BY <3>1, <3>3, <3>4 DEF Answered
  <2>4. Good(rest, made_) /\ rest.here = now.here
    <3> HIDE DEF p, new
    <3>1. QED
      BY <2>1, <2>2, ForgottenGood
  <2>5. Spares(now, rest, {a}, e, made_)
    <3> HIDE DEF p, new
    <3> DEFINE v == RemoveValue(a, w, p)
    <3>1. \A d \in Entities : d # e /\ Holds(w, d) => Holds(v, d)
      BY <1>1, <2>2, RemoveGood
    <3> HIDE DEF v
    <3>2. Spares(now, Changed(now, a, v, m, e, now.assigned[m][e] \ {a}), {a}, e, made_)
      BY <1>1, <3>1, ChangedSpares
    <3>3. QED
      BY <3>2 DEF Forgotten, v
  <2> HIDE DEF rest, new
  <2>6. /\ Good(new, made_) /\ new.here = now.here
        /\ new.values = rest.values /\ new.assigned = rest.assigned /\ new.known = rest.known
    BY <2>3, <2>4, AnswerGood
  <2>7. Spares(now, new, {a}, e, made_)
    BY <2>5, <2>6 DEF Spares
  <2>8. QED
    BY <2>6, <2>7 DEF new
<1>4. CASE a \in now.assigned[m][e] /\ a \notin now.here
  <2> DEFINE rest == Changed(now, a, w, m, e, S)
  <2>1. new = Answered(rest, "yes")
    BY <1>1, <1>4 DEF ManagerDisassociates, ManagerForgets, Changed, States, Assignments, Answered
  <2>2. MayChange(now, made_, a, w, m, e, S)
    BY <1>1, <1>4 DEF MayChange, Assignments
  <2>3. Spares(now, rest, {a}, e, made_)
    BY <1>1, ChangedSpares
  <2> HIDE DEF S
  <2>4. Good(rest, made_) /\ rest.here = now.here
    BY <1>1, <2>2, ChangedGood
  <2> HIDE DEF rest, new
  <2>5. /\ Good(new, made_) /\ new.here = now.here
        /\ new.values = rest.values /\ new.assigned = rest.assigned /\ new.known = rest.known
    BY <2>1, <2>4, AnswerGood
  <2>6. Spares(now, new, {a}, e, made_)
    BY <2>3, <2>5 DEF Spares
  <2>7. QED
    BY <2>5, <2>6 DEF new
<1>5. QED
  BY <1>2, <1>3, <1>4

\* From the attribute's side, by id: its manager is told, if there is one.
LEMMA DisassociateIdGood ==
  ASSUME NEW made_ \in SUBSET Attributes, NEW now, Good(now, made_), ref \in Managers \cup {Nil},
         NEW a \in made_, NEW e \in Entities
  PROVE  /\ Good(DisassociateId(now, a, e), made_)
         /\ DisassociateId(now, a, e).here = now.here
         /\ DisassociateId(now, a, e).ok = now.ok
<1> DEFINE w == now.values[a]
           p == First(w, LAMBDA r : r[2] = e)
           v == RemoveValue(a, w, p)
           new == DisassociateId(now, a, e)
<1>1. /\ a \in Attributes /\ now \in States(made_) /\ ItemGood(a, w) /\ w \in Seq(Refs)
      /\ now.assigned \in Assignments(made_) /\ e \in Keys
  BY GoodFacts DEF Keys
<1>2. CASE ~Holds(w, e)
  BY <1>2 DEF DisassociateId, AttributeForgets
<1>3. CASE Holds(w, e)
  <2>1. AttributeForgets(now, a, e) = [now EXCEPT !.values[a] = v]
    BY <1>3 DEF AttributeForgets
  <2>2. p \in DOMAIN w /\ w[p][2] = e
    BY <1>1, <1>3, FirstIs
  <2> HIDE DEF p
  <2>3. ItemGood(a, v)
    BY <1>1, <2>2, RemoveGood
  <2>4. CASE ref = Nil
    <3>1. new = [now EXCEPT !.values[a] = v]
      BY <2>1, <2>4 DEF DisassociateId
    <3> HIDE DEF v, new
    <3>2. Good(new, made_) /\ new.here = now.here /\ new.ok = now.ok
      BY <2>3, <2>4, <3>1, RefilledGood
    <3>3. QED
      BY <3>2 DEF new
  <2>5. CASE ref # Nil
    <3>1. ref \in Managers
      BY <2>5
    <3>2. new = Forgotten(now, a, p, ref, e)
      <4>1. new = ManagerForgets([now EXCEPT !.values[a] = v], ref, a, e)
        BY <1>3, <2>1, <2>5 DEF DisassociateId
      <4> HIDE DEF new
      <4>2. QED
        BY <1>1, <3>1, <4>1 DEF ManagerForgets, Forgotten, Changed, States, Assignments
    <3> HIDE DEF new
    <3>3. Good(new, made_) /\ new.here = now.here
      BY <2>2, <3>1, <3>2, ForgottenGood
    <3>4. new.ok = now.ok
      BY <1>1, <3>2 DEF Forgotten, Changed, States
    <3>5. QED
      BY <3>3, <3>4 DEF new
  <2>6. QED
    BY <2>4, <2>5
<1>4. QED
  BY <1>2, <1>3

\* By reference: the manager of the reference is told.
LEMMA DisassociateRefGood ==
  ASSUME NEW made_ \in SUBSET Attributes, NEW now, Good(now, made_), ref \in Managers \cup {Nil},
         NEW a \in made_, NEW m \in Managers, NEW e \in Entities
  PROVE  /\ Good(DisassociateRef(now, a, << m, e >>), made_)
         /\ DisassociateRef(now, a, << m, e >>).here = now.here
         /\ DisassociateRef(now, a, << m, e >>).ok = now.ok
<1> DEFINE r == << m, e >>
           w == now.values[a]
           p == First(w, LAMBDA x : x = r)
           new == DisassociateRef(now, a, r)
           there == \E i \in DOMAIN w : w[i] = r
<1>1. /\ a \in Attributes /\ now \in States(made_) /\ ItemGood(a, w) /\ w \in Seq(Refs)
      /\ now.assigned \in Assignments(made_) /\ e \in Keys
  BY GoodFacts DEF Keys
<1>2. CASE ~there
  BY <1>2 DEF DisassociateRef
<1>3. CASE there
  <2>1. p \in DOMAIN w /\ w[p] = r
    BY <1>1, <1>3, FirstRefIs
  <2>2. new = ManagerForgets([now EXCEPT !.values[a] = RemoveValue(a, @, First(@, LAMBDA x : x = r))],
                             r[1], a, r[2])
    BY <1>3 DEF DisassociateRef
  <2>3. new = ManagerForgets([now EXCEPT !.values[a] = RemoveValue(a, w, p)], m, a, e)
    BY <2>2
  <2> HIDE DEF p, new
  <2>4. new = Forgotten(now, a, p, m, e)
    BY <1>1, <2>3 DEF ManagerForgets, Forgotten, Changed, States, Assignments
  <2>5. w[p][2] = e /\ w[p][1] = m
    BY <2>1
  <2>6. m = ref
    BY <1>1, <2>1, <2>5 DEF ItemGood
  <2>7. Good(new, made_) /\ new.here = now.here
    BY <2>1, <2>4, <2>5, <2>6, ForgottenGood
  <2>8. new.ok = now.ok
    BY <1>1, <2>4 DEF Forgotten, Changed, States
  <2>9. QED
    BY <2>7, <2>8 DEF new
<1>4. QED
  BY <1>2, <1>3

-----------------------------------------------------------------------------
(* Several calls in a row *)

\* The good states with the same attributes in the collection.
Reached(here, made_) == {s \in States(made_) : Good(s, made_) /\ s.here = here}

\* Those that calls which associate reach: nothing is lost, and no answer.
Gained(now, made_) ==
  {s \in Reached(now.here, made_) : Keeps(now, s, made_) /\ (s.ok = "yes" => now.ok = "yes")}

LEMMA GainedMore ==
  ASSUME NEW now, NEW made_, NEW s \in Gained(now, made_), NEW new, Good(new, made_),
         new.here = s.here, Keeps(s, new, made_), new.ok = "yes" => s.ok = "yes"
  PROVE  new \in Gained(now, made_)
BY DEF Gained, Reached, Keeps, Good

LEMMA GainedFirst ==
  ASSUME NEW now, NEW made_, Good(now, made_)
  PROVE  now \in Gained(now, made_)
BY DEF Gained, Reached, Keeps, Good

\* SetToSeq and SetToSeqs list the elements of a finite set.
LEMMA ListOf ==
  ASSUME NEW S, IsFiniteSet(S)
  PROVE  /\ Cardinality(S) \in Nat
         /\ SetToSeq(S) \in [1 .. Cardinality(S) -> S]
         /\ SetToSeqs(S) \subseteq [1 .. Cardinality(S) -> S]
         /\ \A q \in SetToSeqs(S) \cup {SetToSeq(S)}, x \in S : \E i \in 1 .. Cardinality(S) : q[i] = x
<1>1. Cardinality(S) \in Nat /\ ExistsBijection(1 .. Cardinality(S), S)
  BY FS_CardinalityType
<1>2. \E f \in [1 .. Cardinality(S) -> S] : IsInjective(f)
  BY <1>1 DEF ExistsBijection, Bijection, Injection
<1>3. SetToSeq(S) \in [1 .. Cardinality(S) -> S] /\ IsInjective(SetToSeq(S))
  BY <1>2 DEF SetToSeq
<1>4. SetToSeqs(S) \subseteq {q \in [1 .. Cardinality(S) -> S] : IsInjective(q)}
  BY DEF SetToSeqs, IsInjective
<1>5. ASSUME NEW q \in [1 .. Cardinality(S) -> S], IsInjective(q)
      PROVE  \A x \in S : \E i \in 1 .. Cardinality(S) : q[i] = x
  <2>1. q \in Injection(1 .. Cardinality(S), S)
    BY <1>5 DEF Injection
  <2>2. Cardinality(1 .. Cardinality(S)) = Cardinality(S)
    BY <1>1, FS_Interval
  <2>3. q \in Surjection(1 .. Cardinality(S), S)
    BY <2>1, <2>2, FS_Injection
  <2>4. QED
    BY <2>3 DEF Surjection
<1>6. QED
  BY <1>1, <1>3, <1>4, <1>5

\* Some of the attributes are removed from an entity.
LEMMA DisassociateAnyGood ==
  ASSUME NEW made_ \in SUBSET Attributes, NEW now, Good(now, made_), ref \in Managers \cup {Nil},
         NEW m \in Managers, NEW e \in Entities, NEW attrs \in SUBSET made_
  PROVE  /\ Good(DisassociateAny(now, m, e, attrs), made_)
         /\ DisassociateAny(now, m, e, attrs).here = now.here
         /\ Spares(now, DisassociateAny(now, m, e, attrs), attrs, e, made_)
<1> DEFINE q == SetToSeq(attrs)
           n == Cardinality(attrs)
           T == {s \in Reached(now.here, made_) : Spares(now, s, attrs, e, made_)}
           F == [p \in T \X (1 .. n) |-> ManagerDisassociates(p[1], m, q[p[2]], e)]
           Is(h) == h = [s \in SUBSET (1 .. n) |->
                           IF s = {} THEN now
                           ELSE ManagerDisassociates(h[s \ {Max(s)}], m, q[Max(s)], e)]
           g == CHOOSE k : Is(k)
           gone == FoldLeft(LAMBDA s, a : ManagerDisassociates(s, m, a, e), now, SetToSeq(attrs))
<1>1. n \in Nat /\ q \in [1 .. n -> attrs]
  <2>1. IsFiniteSet(attrs)
    BY ConstantsFinite, FS_Subset
  <2>2. QED
    BY <2>1, ListOf
<1>2. now \in T
  BY DEF Reached, Good, Spares
<1>3. F \in FoldSteps(n, T)
  <2>1. ASSUME NEW s \in T, NEW i \in 1 .. n PROVE ManagerDisassociates(s, m, q[i], e) \in T
    <3>1. /\ Good(s, made_) /\ s.here = now.here /\ Spares(now, s, attrs, e, made_)
          /\ q[i] \in attrs /\ q[i] \in made_
      BY <1>1 DEF Reached
    <3> DEFINE a == q[i]
               new == ManagerDisassociates(s, m, a, e)
    <3>2. Good(new, made_) /\ new.here = s.here /\ Spares(s, new, {a}, e, made_)
      <4>1. a \in made_
        BY <3>1
      <4> HIDE DEF a
      <4>2. QED
        BY <3>1, <4>1, ManagerDisassociatesGood
    <3> HIDE DEF new
    <3>3. Spares(now, new, attrs, e, made_)
      <4>1. a \in attrs
        BY <3>1
      <4> HIDE DEF a
      <4>2. QED
        BY <3>1, <3>2, <4>1 DEF Spares
    <3>4. new \in T
      BY <3>1, <3>2, <3>3 DEF Reached, Good
    <3>5. QED
      BY <3>4 DEF new
  <2> HIDE DEF T
  <2>2. QED
    BY <2>1 DEF FoldSteps
<1>4. Is(g)
  <2>1. PICK h : Folds(h, n, T, now, F)
    <3> HIDE DEF T, F, q, n
    <3>1. QED
      BY <1>1, <1>2, <1>3, FoldSolved
  <2>2. Is(h)
    <3> HIDE DEF T, q, n
    <3>1. QED
      BY <2>1 DEF Folds
  <2> HIDE DEF Is
  <2>3. QED
    BY <2>2
<1>5. gone = g[1 .. n]
  <2>1. DOMAIN q = 1 .. n
    BY <1>1
  <2>2. QED
    BY <2>1 DEF FoldLeft, MapThenFoldSet
<1>6. FoldsWithin(g, n, T, now, F)
  <2> HIDE DEF g, q, T, n
  <2>1. QED
    BY <1>4 DEF FoldsWithin
<1>7. gone \in T
  <2> HIDE DEF g, F, T, n, gone
  <2>1. QED
    BY <1>1, <1>2, <1>3, <1>5, <1>6, FoldStays
<1> DEFINE ok == IF \E a \in attrs : a \in now.assigned[m][e] THEN "yes" ELSE "no"
<1>8. DisassociateAny(now, m, e, attrs) = Answered(gone, ok)
  BY DEF DisassociateAny, Answered
<1>9. ok \in {"yes", "no"}
  OBVIOUS
<1> HIDE DEF gone, ok
<1>10. Good(gone, made_) /\ gone.here = now.here /\ Spares(now, gone, attrs, e, made_)
  BY <1>7 DEF Reached
<1> DEFINE new == Answered(gone, ok)
<1>11. /\ Good(new, made_) /\ new.here = gone.here
       /\ new.values = gone.values /\ new.assigned = gone.assigned /\ new.known = gone.known
  BY <1>9, <1>10, AnswerGood
<1> HIDE DEF new
<1>12. Spares(now, new, attrs, e, made_)
  BY <1>10, <1>11 DEF Spares
<1>13. QED
  BY <1>8, <1>10, <1>11, <1>12 DEF new

\* The state after a call, with the answers of both.
After(s, new) == [new EXCEPT !.ok = Both(s.ok, @)]

LEMMA AfterGood ==
  ASSUME NEW made_, NEW s, NEW new, Good(s, made_), Good(new, made_)
  PROVE  /\ Good(After(s, new), made_) /\ After(s, new).here = new.here
         /\ After(s, new).values = new.values /\ After(s, new).assigned = new.assigned
         /\ After(s, new).known = new.known
         /\ After(s, new).ok = "yes" => s.ok = "yes" /\ new.ok = "yes"
<1>1. /\ s \in States(made_) /\ new \in States(made_)
      /\ CopiesGood(new.values, new.assigned, new.here, made_)
  BY DEF Good
<1> DEFINE last == After(s, new)
<1>2. /\ last \in States(made_) /\ last.values = new.values /\ last.assigned = new.assigned
      /\ last.known = new.known /\ last.here = new.here
      /\ last.ok = "yes" => s.ok = "yes" /\ new.ok = "yes"
  BY <1>1 DEF States, After, Both
<1> HIDE DEF last
<1>3. Good(last, made_)
  BY <1>1, <1>2 DEF Good
<1>4. QED
  BY <1>2, <1>3 DEF last

\* An entity is disassociated from several attributes.
EachDisassociates(now, m, e, attrs) == 
  Each(now, SetToSeq(attrs), LAMBDA s, a : ManagerDisassociates(s, m, a, e))

LEMMA EachDisassociatesGood ==
  ASSUME NEW made_ \in SUBSET Attributes, NEW now, Good(now, made_), ref \in Managers \cup {Nil},
         NEW m \in Managers, NEW e \in Entities, NEW attrs \in SUBSET made_
  PROVE  /\ Good(EachDisassociates(now, m, e, attrs), made_)
         /\ EachDisassociates(now, m, e, attrs).here = now.here
<1> DEFINE q == SetToSeq(attrs)
           n == Cardinality(attrs)
           Step(s, i) == After(s, ManagerDisassociates(s, m, q[i], e))
           T == Reached(now.here, made_)
           F == [p \in T \X (1 .. n) |-> Step(p[1], p[2])]
           Is(h) == h = [s \in SUBSET (1 .. n) |->
                           IF s = {} THEN now ELSE Step(h[s \ {Max(s)}], Max(s))]
           g == CHOOSE k : Is(k)
           all == EachDisassociates(now, m, e, attrs)
<1>1. n \in Nat /\ q \in [1 .. n -> made_]
  <2>1. IsFiniteSet(attrs)
    BY ConstantsFinite, FS_Subset
  <2>2. QED
    BY <2>1, ListOf
<1>2. now \in T
  BY DEF Reached, Good
<1>3. F \in FoldSteps(n, T)
  <2>1. ASSUME NEW s \in T, NEW i \in 1 .. n PROVE Step(s, i) \in T
    <3>1. Good(s, made_) /\ s.here = now.here /\ q[i] \in made_
      BY <1>1 DEF Reached
    <3> DEFINE x == q[i]
               new == ManagerDisassociates(s, m, x, e)
    <3>2. Good(new, made_) /\ new.here = s.here
      <4> HIDE DEF x, q
      <4>1. QED
        BY <3>1, ManagerDisassociatesGood DEF x
    <3> HIDE DEF new
    <3>3. Good(After(s, new), made_) /\ After(s, new).here = now.here
      BY <3>1, <3>2, AfterGood
    <3>4. After(s, new) \in T
      BY <3>3 DEF Reached, Good
    <3>5. QED
      BY <3>4 DEF new
  <2> HIDE DEF T, Step
  <2>2. QED
    BY <2>1 DEF FoldSteps
<1>4. Is(g)
  <2> HIDE DEF T, q, n, Step
  <2>1. PICK h : Folds(h, n, T, now, F)
    <3> HIDE DEF F
    <3>1. QED
      BY <1>1, <1>2, <1>3, FoldSolved
  <2>2. Is(h)
    BY <2>1 DEF Folds
  <2> HIDE DEF Is
  <2>3. QED
    BY <2>2
<1>5. all = g[1 .. n]
  <2>1. DOMAIN q = 1 .. n
    BY <1>1
  <2>2. QED
    BY <2>1 DEF EachDisassociates, Each, FoldLeft, MapThenFoldSet, After
<1>6. FoldsWithin(g, n, T, now, F)
  <2> HIDE DEF g, q, T, n, Step
  <2>1. QED
    BY <1>4 DEF FoldsWithin
<1>7. all \in T
  <2> HIDE DEF g, F, T, n, all
  <2>1. QED
    BY <1>1, <1>2, <1>3, <1>5, <1>6, FoldStays
<1>8. QED
  BY <1>7 DEF Reached

\* An entity is associated with several attributes.
EachAssociates(now, m, e, attrs) == 
  Each(now, SetToSeq(attrs), LAMBDA s, a : ManagerAssociates(s, m, a, e))

LEMMA EachAssociatesGood ==
  ASSUME NEW made_ \in SUBSET Attributes, NEW now, Good(now, made_), ref \in Managers \cup {Nil},
         NEW m \in Managers, m = ref, NEW e \in Entities, NEW attrs \in SUBSET made_
  PROVE  /\ Good(EachAssociates(now, m, e, attrs), made_)
         /\ EachAssociates(now, m, e, attrs).here = now.here
         /\ Keeps(now, EachAssociates(now, m, e, attrs), made_)
         /\ EachAssociates(now, m, e, attrs).ok = "yes" =>
              \A a \in attrs : Holds(EachAssociates(now, m, e, attrs).values[a], e)
<1> DEFINE q == SetToSeq(attrs)
           n == Cardinality(attrs)
           Step(s, i) == After(s, ManagerAssociates(s, m, q[i], e))
           T == Gained(now, made_)
           F == [p \in T \X (1 .. n) |-> Step(p[1], p[2])]
           R == {p \in T \X (1 .. n) : p[1].ok = "yes" => Holds(p[1].values[q[p[2]]], e)}
           Is(h) == h = [s \in SUBSET (1 .. n) |->
                           IF s = {} THEN now ELSE Step(h[s \ {Max(s)}], Max(s))]
           g == CHOOSE k : Is(k)
           all == EachAssociates(now, m, e, attrs)
<1>1. n \in Nat /\ q \in [1 .. n -> made_] /\ \A a \in attrs : \E i \in 1 .. n : q[i] = a
  <2>1. IsFiniteSet(attrs)
    BY ConstantsFinite, FS_Subset
  <2>2. QED
    BY <2>1, ListOf
<1>2. now \in T
  BY GainedFirst
<1>10. ASSUME NEW s \in T, NEW i \in 1 .. n
       PROVE  /\ Step(s, i) \in T
              /\ Step(s, i).ok = "yes" => s.ok = "yes" /\ Holds(Step(s, i).values[q[i]], e)
              /\ Keeps(s, Step(s, i), made_)
    <3>1. Good(s, made_) /\ s.here = now.here /\ q[i] \in made_
      BY <1>1 DEF Gained, Reached
    <3> DEFINE x == q[i]
               new == ManagerAssociates(s, m, x, e)
    <3>2. /\ Good(new, made_) /\ new.here = s.here /\ Keeps(s, new, made_)
          /\ new.ok = "yes" => Holds(new.values[x], e)
      <4>1. e \in Keys /\ x \in made_
        BY <3>1 DEF Keys
      <4> HIDE DEF x
      <4>2. QED
        BY <3>1, <4>1, ManagerAssociatesGood
    <3> HIDE DEF new
    <3>3. /\ Good(After(s, new), made_) /\ After(s, new).here = s.here
          /\ After(s, new).values = new.values
          /\ After(s, new).ok = "yes" => s.ok = "yes" /\ new.ok = "yes"
      BY <3>1, <3>2, AfterGood
    <3>4. Keeps(s, After(s, new), made_)
      BY <3>2, <3>3 DEF Keeps
    <3>5. After(s, new) \in T
      BY <3>3, <3>4, GainedMore
    <3>6. QED
      BY <3>2, <3>3, <3>4, <3>5 DEF new
<1>3. F \in FoldSteps(n, T)
  <2> HIDE DEF T, Step
  <2>1. QED
    BY <1>10 DEF FoldSteps
<1>11. \A s \in T, i \in 1 .. n : << F[<< s, i >>], i >> \in R
  <2> HIDE DEF T, Step
  <2>1. QED
    BY <1>10
<1>12. \A s \in T, i, j \in 1 .. n : << s, j >> \in R => << F[<< s, i >>], j >> \in R
  <2> SUFFICES ASSUME NEW s \in T, NEW i \in 1 .. n, NEW j \in 1 .. n, << s, j >> \in R
               PROVE  << F[<< s, i >>], j >> \in R
    <3> HIDE DEF T, F, R, n
    <3>1. QED
      OBVIOUS
  <2>1. s.ok = "yes" => Holds(s.values[q[j]], e)
    OBVIOUS
  <2>2. q[j] \in made_
    BY <1>1
  <2> HIDE DEF T, Step, q, n
  <2>3. QED
    BY <1>10, <2>1, <2>2 DEF Keeps
<1>4. Is(g)
  <2> HIDE DEF T, q, n, Step
  <2>1. PICK h : Folds(h, n, T, now, F)
    <3> HIDE DEF F
    <3>1. QED
      BY <1>1, <1>2, <1>3, FoldSolved
  <2>2. Is(h)
    BY <2>1 DEF Folds
  <2> HIDE DEF Is
  <2>3. QED
    BY <2>2
<1>5. all = g[1 .. n]
  <2>1. DOMAIN q = 1 .. n
    BY <1>1
  <2>2. QED
    BY <2>1 DEF EachAssociates, Each, FoldLeft, MapThenFoldSet, After
<1>6. FoldsWithin(g, n, T, now, F)
  <2> HIDE DEF g, q, T, n, Step
  <2>1. QED
    BY <1>4 DEF FoldsWithin
<1>13. Achieves(R, n, T, F)
  <2> HIDE DEF F, T, n, R
  <2>1. QED
    BY <1>11, <1>12 DEF Achieves
<1>7. all \in T /\ \A i \in 1 .. n : << all, i >> \in R
  <2> HIDE DEF g, F, T, n, all, R
  <2>1. QED
    BY <1>1, <1>2, <1>3, <1>5, <1>6, <1>13, FoldAchieves
<1>8. all.ok = "yes" => \A a \in attrs : Holds(all.values[a], e)
  <2> HIDE DEF all, q, n, T
  <2>1. QED
    BY <1>1, <1>7
<1>9. QED
  BY <1>7, <1>8 DEF Gained, Reached

\* An attribute is associated with several entities, or the null one.
EachTakes(now, a, order) == 
  Each(now, order, LAMBDA s, e : AttributeAssociates(s, a, << ref, e >>))

LEMMA EachTakesGood ==
  ASSUME NEW made_ \in SUBSET Attributes, NEW now, Good(now, made_), ref \in Managers \cup {Nil},
         NEW a \in made_, NEW order \in Seq(Keys)
  PROVE  /\ Good(EachTakes(now, a, order), made_)
         /\ EachTakes(now, a, order).here = now.here
<1> DEFINE q == order
           n == Len(order)
           Step(s, i) == After(s, AttributeAssociates(s, a, << ref, q[i] >>))
           T == Reached(now.here, made_)
           F == [p \in T \X (1 .. n) |-> Step(p[1], p[2])]
           Is(h) == h = [s \in SUBSET (1 .. n) |->
                           IF s = {} THEN now ELSE Step(h[s \ {Max(s)}], Max(s))]
           g == CHOOSE k : Is(k)
           all == EachTakes(now, a, order)
<1>1. n \in Nat /\ q \in [1 .. n -> Keys]
  OBVIOUS
<1>2. now \in T
  BY DEF Reached, Good
<1>3. F \in FoldSteps(n, T)
  <2>1. ASSUME NEW s \in T, NEW i \in 1 .. n PROVE Step(s, i) \in T
    <3>1. Good(s, made_) /\ s.here = now.here /\ q[i] \in Keys
      BY <1>1 DEF Reached
    <3> DEFINE x == q[i]
               new == AttributeAssociates(s, a, << ref, x >>)
    <3>2. Good(new, made_) /\ new.here = s.here
      <4>1. x \in Keys
        BY <3>1
      <4> HIDE DEF x, q
      <4>2. ASSUME NEW y, y = new PROVE Good(y, made_) /\ y.here = s.here
        BY <3>1, <4>1, <4>2, AttributeAssociatesGood
      <4>3. QED
        BY <4>2
    <3> HIDE DEF new
    <3>3. Good(After(s, new), made_) /\ After(s, new).here = now.here
      BY <3>1, <3>2, AfterGood
    <3>4. After(s, new) \in T
      BY <3>3 DEF Reached, Good
    <3>5. QED
      BY <3>4 DEF new
  <2> HIDE DEF T, Step
  <2>2. QED
    BY <2>1 DEF FoldSteps
<1>4. Is(g)
  <2> HIDE DEF T, q, n, Step
  <2>1. PICK h : Folds(h, n, T, now, F)
    <3> HIDE DEF F
    <3>1. QED
      BY <1>1, <1>2, <1>3, FoldSolved
  <2>2. Is(h)
    BY <2>1 DEF Folds
  <2> HIDE DEF Is
  <2>3. QED
    BY <2>2
<1>5. all = g[1 .. n]
  <2>1. DOMAIN q = 1 .. n
    BY <1>1
  <2>2. QED
    BY <2>1 DEF EachTakes, Each, FoldLeft, MapThenFoldSet, After
<1>6. FoldsWithin(g, n, T, now, F)
  <2> HIDE DEF g, q, T, n, Step
  <2>1. QED
    BY <1>4 DEF FoldsWithin
<1>7. all \in T
  <2> HIDE DEF g, F, T, n, all
  <2>1. QED
    BY <1>1, <1>2, <1>3, <1>5, <1>6, FoldStays
<1>8. QED
  BY <1>7 DEF Reached

\* An attribute is associated with the parts of a split entity.
SplitOne(now, m, a, from, order) == 
  Each(now, order, LAMBDA t, e : IF e # from /\ e \in model[m]
                                   THEN ManagerAssociates(t, m, a, e) ELSE t)

\* When the answer is yes, it now is with all of them that are there.
Spread(now, new, m, a, from, order) ==
  new.ok = "yes" =>
    /\ now.ok = "yes"
    /\ \A e \in Range(order) : e # from /\ e \in model[m] => Holds(new.values[a], e)

LEMMA EachSplitGood ==
  ASSUME NEW made_ \in SUBSET Attributes, NEW now, Good(now, made_), ref \in Managers \cup {Nil},
         NEW m \in Managers, m = ref, NEW a \in made_, NEW from, NEW order \in Seq(Entities)
  PROVE  /\ Good(SplitOne(now, m, a, from, order), made_)
         /\ SplitOne(now, m, a, from, order).here = now.here
         /\ Keeps(now, SplitOne(now, m, a, from, order), made_)
         /\ Spread(now, SplitOne(now, m, a, from, order), m, a, from, order)
<1> DEFINE q == order
           n == Len(order)
           part(x) == x # from /\ x \in model[m]
           Step(s, i) == After(s, IF part(q[i]) THEN ManagerAssociates(s, m, a, q[i]) ELSE s)
           T == Gained(now, made_)
           F == [p \in T \X (1 .. n) |-> Step(p[1], p[2])]
           R == {p \in T \X (1 .. n) :
                   p[1].ok = "yes" /\ part(q[p[2]]) => Holds(p[1].values[a], q[p[2]])}
           Is(h) == h = [s \in SUBSET (1 .. n) |->
                           IF s = {} THEN now ELSE Step(h[s \ {Max(s)}], Max(s))]
           g == CHOOSE k : Is(k)
           all == SplitOne(now, m, a, from, order)
<1>1. n \in Nat /\ q \in [1 .. n -> Entities] /\ \A e \in Range(q) : \E i \in 1 .. n : q[i] = e
  BY DEF Range
<1>2. now \in T
  BY GainedFirst
<1>9. ASSUME NEW s \in T, NEW i \in 1 .. n
      PROVE  /\ Step(s, i) \in T
             /\ Step(s, i).ok = "yes" =>
                  s.ok = "yes" /\ (part(q[i]) => Holds(Step(s, i).values[a], q[i]))
             /\ Keeps(s, Step(s, i), made_)
  <2>1. Good(s, made_) /\ s.here = now.here /\ q[i] \in Entities
    BY <1>1 DEF Gained, Reached
  <2> DEFINE x == q[i]
             new == IF part(x) THEN ManagerAssociates(s, m, a, x) ELSE s
  <2>2. /\ Good(new, made_) /\ new.here = s.here /\ Keeps(s, new, made_)
        /\ new.ok = "yes" /\ part(x) => Holds(new.values[a], x)
    <3>1. x \in Keys
      BY <2>1 DEF Keys
    <3> HIDE DEF x
    <3>2. CASE part(x)
      <4> DEFINE asked == ManagerAssociates(s, m, a, x)
      <4>1. /\ Good(asked, made_) /\ asked.here = s.here /\ Keeps(s, asked, made_)
            /\ asked.ok = "yes" => Holds(asked.values[a], x)
        BY <2>1, <3>1, ManagerAssociatesGood
      <4>2. new = asked
        BY <3>2
      <4> HIDE DEF new, asked
      <4>3. QED
        BY <4>1, <4>2
    <3>3. CASE ~part(x)
      <4>1. new = s
        BY <3>3
      <4> HIDE DEF new, part
      <4>2. QED
        BY <2>1, <3>3, <4>1 DEF Keeps
    <3>4. QED
      BY <3>2, <3>3
  <2> HIDE DEF new, part
  <2>3. /\ Good(After(s, new), made_) /\ After(s, new).here = s.here
        /\ After(s, new).values = new.values
        /\ After(s, new).ok = "yes" => s.ok = "yes" /\ new.ok = "yes"
    BY <2>1, <2>2, AfterGood
  <2>4. Keeps(s, After(s, new), made_)
    BY <2>2, <2>3 DEF Keeps
  <2>5. After(s, new) \in T
    BY <2>3, <2>4, GainedMore
  <2>6. QED
    BY <2>2, <2>3, <2>4, <2>5 DEF new
<1> HIDE DEF part
<1>3. F \in FoldSteps(n, T)
  <2> HIDE DEF T, Step
  <2>1. QED
    BY <1>9 DEF FoldSteps
<1>10. \A s \in T, i \in 1 .. n : << F[<< s, i >>], i >> \in R
  <2> HIDE DEF T, Step
  <2>1. QED
    BY <1>9
<1>11. \A s \in T, i, j \in 1 .. n : << s, j >> \in R => << F[<< s, i >>], j >> \in R
  <2> SUFFICES ASSUME NEW s \in T, NEW i \in 1 .. n, NEW j \in 1 .. n, << s, j >> \in R
               PROVE  << F[<< s, i >>], j >> \in R
    <3> HIDE DEF T, F, R, n
    <3>1. QED
      OBVIOUS
  <2>1. s.ok = "yes" /\ part(q[j]) => Holds(s.values[a], q[j])
    OBVIOUS
  <2>2. q[j] \in Entities
    BY <1>1
  <2> HIDE DEF T, Step, q, n
  <2>3. QED
    BY <1>9, <2>1, <2>2 DEF Keeps
<1>12. Achieves(R, n, T, F)
  <2> HIDE DEF F, T, n, R
  <2>1. QED
    BY <1>10, <1>11 DEF Achieves
<1>4. Is(g)
  <2> HIDE DEF T, q, n, Step
  <2>1. PICK h : Folds(h, n, T, now, F)
    <3> HIDE DEF F
    <3>1. QED
      BY <1>1, <1>2, <1>3, FoldSolved
  <2>2. Is(h)
    BY <2>1 DEF Folds
  <2> HIDE DEF Is
  <2>3. QED
    BY <2>2
<1>5. all = g[1 .. n]
  <2>1. DOMAIN q = 1 .. n
    BY <1>1
  <2>2. QED
    BY <2>1 DEF SplitOne, Each, FoldLeft, MapThenFoldSet, After, part
<1>6. FoldsWithin(g, n, T, now, F)
  <2> HIDE DEF g, q, T, n, Step
  <2>1. QED
    BY <1>4 DEF FoldsWithin
<1>7. all \in T /\ \A i \in 1 .. n : << all, i >> \in R
  <2> HIDE DEF g, F, T, n, all, R
  <2>1. QED
    BY <1>1, <1>2, <1>3, <1>5, <1>6, <1>12, FoldAchieves
<1>8. all.ok = "yes" => \A e \in Range(q) : part(e) => Holds(all.values[a], e)
  <2> HIDE DEF all, q, n, T
  <2>1. QED
    BY <1>1, <1>7
<1>13. QED
  BY <1>7, <1>8 DEF Gained, Reached, part, Spread

\* Several attributes are.
SplitEach(now, m, from, order, q) ==
  FoldLeft(LAMBDA s, a : Each(s, order, LAMBDA t, e : IF e # from /\ e \in model[m]
                                                      THEN ManagerAssociates(t, m, a, e) ELSE t),
           now, q)

SpreadEach(new, m, n, q, from, order) ==
  new.ok = "yes" =>
    \A i \in 1 .. n, e \in Range(order) : e # from /\ e \in model[m] => Holds(new.values[q[i]], e)

LEMMA SplitsGood ==
  ASSUME NEW made_ \in SUBSET Attributes, NEW now, Good(now, made_), ref \in Managers \cup {Nil},
         NEW m \in Managers, m = ref, NEW from, NEW order \in Seq(Entities),
         NEW n \in Nat, NEW q \in [1 .. n -> made_]
  PROVE  /\ Good(SplitEach(now, m, from, order, q), made_)
         /\ Keeps(now, SplitEach(now, m, from, order, q), made_)
         /\ SpreadEach(SplitEach(now, m, from, order, q), m, n, q, from, order)
<1> DEFINE Parts == {e \in Range(order) : e # from /\ e \in model[m]}
           Step(s, i) == SplitOne(s, m, q[i], from, order)
           T == Gained(now, made_)
           F == [p \in T \X (1 .. n) |-> Step(p[1], p[2])]
           R == {p \in T \X (1 .. n) :
                   p[1].ok = "yes" => \A e \in Parts : Holds(p[1].values[q[p[2]]], e)}
           Is(h) == h = [s \in SUBSET (1 .. n) |->
                           IF s = {} THEN now ELSE Step(h[s \ {Max(s)}], Max(s))]
           g == CHOOSE k : Is(k)
           all == SplitEach(now, m, from, order, q)
<1>2. now \in T
  BY GainedFirst
<1>1. Parts \subseteq Entities
  BY DEF Range
<1>9. ASSUME NEW s \in T, NEW i \in 1 .. n
      PROVE  /\ Step(s, i) \in T
             /\ Step(s, i).ok = "yes" =>
                  s.ok = "yes" /\ \A e \in Parts : Holds(Step(s, i).values[q[i]], e)
             /\ Keeps(s, Step(s, i), made_)
  <2>1. Good(s, made_) /\ s.here = now.here /\ q[i] \in made_
    BY DEF Gained, Reached
  <2> DEFINE a == q[i]
             new == SplitOne(s, m, a, from, order)
  <2>2. /\ Good(new, made_) /\ new.here = s.here /\ Keeps(s, new, made_)
        /\ new.ok = "yes" => s.ok = "yes" /\ \A e \in Parts : Holds(new.values[a], e)
    <3>1. a \in made_
      BY <2>1
    <3> HIDE DEF a, Parts, T, F, R, Step
    <3>2. /\ Good(new, made_) /\ new.here = s.here /\ Keeps(s, new, made_)
          /\ Spread(s, new, m, a, from, order)
      BY <2>1, <3>1, EachSplitGood
    <3> HIDE DEF new
    <3>3. QED
      BY <3>2 DEF Parts, Spread
  <2> HIDE DEF new, Parts
  <2>3. new \in T
    BY <2>2, GainedMore
  <2>4. QED
    BY <2>2, <2>3 DEF new
<1> HIDE DEF Parts
<1>3. F \in FoldSteps(n, T)
  <2> HIDE DEF T, Step
  <2>1. QED
    BY <1>9 DEF FoldSteps
<1>10. \A s \in T, i \in 1 .. n : << F[<< s, i >>], i >> \in R
  <2> HIDE DEF T, Step
  <2>1. QED
    BY <1>9
<1>11. \A s \in T, i, j \in 1 .. n : << s, j >> \in R => << F[<< s, i >>], j >> \in R
  <2> SUFFICES ASSUME NEW s \in T, NEW i \in 1 .. n, NEW j \in 1 .. n, << s, j >> \in R
               PROVE  << F[<< s, i >>], j >> \in R
    <3> HIDE DEF T, F, R
    <3>1. QED
      OBVIOUS
  <2>1. s.ok = "yes" => \A e \in Parts : Holds(s.values[q[j]], e)
    OBVIOUS
  <2>2. q[j] \in made_
    OBVIOUS
  <2> HIDE DEF T, Step
  <2>3. QED
    BY <1>1, <1>9, <2>1, <2>2 DEF Keeps
<1>12. Achieves(R, n, T, F)
  <2> HIDE DEF F, T, R
  <2>1. QED
    BY <1>10, <1>11 DEF Achieves
<1>4. Is(g)
  <2> HIDE DEF T, Step
  <2>1. PICK h : Folds(h, n, T, now, F)
    <3> HIDE DEF F
    <3>1. QED
      BY <1>2, <1>3, FoldSolved
  <2>2. Is(h)
    BY <2>1 DEF Folds
  <2> HIDE DEF Is
  <2>3. QED
    BY <2>2
<1>5. all = g[1 .. n]
  <2>1. DOMAIN q = 1 .. n
    OBVIOUS
  <2>2. QED
    BY <2>1 DEF SplitEach, FoldLeft, MapThenFoldSet, SplitOne
<1>6. FoldsWithin(g, n, T, now, F)
  <2> HIDE DEF g, T, Step
  <2>1. QED
    BY <1>4 DEF FoldsWithin
<1>7. all \in T /\ \A i \in 1 .. n : << all, i >> \in R
  <2> HIDE DEF g, F, T, all, R
  <2>1. QED
    BY <1>2, <1>3, <1>5, <1>6, <1>12, FoldAchieves
<1>8. all.ok = "yes" => \A i \in 1 .. n : \A e \in Parts : Holds(all.values[q[i]], e)
  <2> HIDE DEF all, T
  <2>1. QED
    BY <1>7
<1>13. QED
  BY <1>7, <1>8 DEF Gained, Reached, Parts, SpreadEach

\* Session::splitAttributes.
LEMMA SplitGood ==
  ASSUME AssociationsInv, NEW m \in Managers, m = ref, NEW from \in Entities,
         NEW order \in Seq(Entities), NEW n \in Nat, NEW q \in [1 .. n -> made]
  PROVE  /\ Good(SplitAttributes(m, from, order, q), made)
         /\ SplitAttributes(m, from, order, q).ok = "yes" =>
              \A i \in 1 .. n, e \in Range(order) \cap model[m] :
                e # from \/ Holds(values[q[i]], e) => Holds(SplitAttributes(m, from, order, q).values[q[i]], e)
<1> DEFINE attrs == Range(q)
           cut == IF from \notin Range(order) THEN DisassociateAny(Now, m, from, attrs) ELSE Now
           all == SplitEach(cut, m, from, order, q)
<1>1. made \in SUBSET Attributes /\ ref \in Managers \cup {Nil} /\ Good(Now, made)
  BY DEF AssociationsInv
<1>2. attrs \in SUBSET made
  BY DEF Range
<1> HIDE DEF attrs
<1>3. Good(cut, made)
  BY <1>1, <1>2, DisassociateAnyGood
<1>4. SplitAttributes(m, from, order, q) = all
  BY DEF SplitAttributes, SplitEach, cut, attrs
<1>5. /\ Good(all, made) /\ Keeps(cut, all, made)
      /\ SpreadEach(all, m, n, q, from, order)
  <2> HIDE DEF cut
  <2>1. QED
    BY <1>1, <1>3, SplitsGood
<1>6. ASSUME NEW i \in 1 .. n, from \in Range(order), Holds(values[q[i]], from)
      PROVE  Holds(all.values[q[i]], from)
  <2>1. cut.values = values
    BY <1>6 DEF cut, Now
  <2> HIDE DEF all, cut
  <2>2. QED
    BY <1>5, <1>6, <2>1 DEF Keeps
<1> HIDE DEF all
<1>7. QED
  BY <1>4, <1>5, <1>6 DEF SpreadEach

\* The states while attributes are gathered.
Gathering(made_) ==
  {s \in [attrs : SUBSET made_, now : States(made_)] : Good(s.now, made_)}

\* What else is known of them: nothing but sources is lost, and what was assigned
\* is gathered or assigned yet.
Sifted(made_, m, to) ==
  {s \in Gathering(made_) :
     /\ s.now.known = known /\ s.now.here = collection
     /\ \A b \in made_ : Holds(values[b], to) => Holds(s.now.values[b], to)
     /\ \A b \in made_, d \in Entities :
          b \in assigned[m][d] => b \in s.attrs \/ b \in s.now.assigned[m][d]}

Gather(s, m, to, e) ==
  IF e = to \/ e \notin model[m] THEN s
  ELSE LET attrs == s.attrs \cup Found(s.now, m, e)
           cut   == DisassociateAny(s.now, m, e, attrs)
       IN  [attrs |-> attrs, now |-> After(s.now, cut)]

\* Those of one entity.
LEMMA GatherGood ==
  ASSUME NEW made_ \in SUBSET Attributes, ref \in Managers \cup {Nil}, NEW m \in Managers,
         NEW to \in Entities, NEW e \in Entities, NEW s \in Sifted(made_, m, to)
  PROVE  /\ Gather(s, m, to, e) \in Sifted(made_, m, to)
         /\ s.attrs \subseteq Gather(s, m, to, e).attrs
         /\ \A b \in made_ : b \in Found(Now, m, e) /\ e # to /\ e \in model[m] =>
                            b \in Gather(s, m, to, e).attrs
<1> DEFINE attrs == s.attrs \cup Found(s.now, m, e)
           cut == DisassociateAny(s.now, m, e, attrs)
           new == [attrs |-> attrs, now |-> After(s.now, cut)]
<1>1. /\ s.attrs \in SUBSET made_ /\ s.now \in States(made_) /\ Good(s.now, made_)
      /\ s.now.known = known /\ s.now.here = collection
      /\ \A b \in made_ : Holds(values[b], to) => Holds(s.now.values[b], to)
      /\ \A b \in made_, d \in Entities :
           b \in assigned[m][d] => b \in s.attrs \/ b \in s.now.assigned[m][d]
      /\ s \in Gathering(made_)
  BY DEF Sifted, Gathering
<1>2. CASE e = to \/ e \notin model[m]
  BY <1>2 DEF Gather
<1>3. CASE e # to /\ e \in model[m]
  <2>1. attrs \in SUBSET made_
    BY <1>1 DEF Found, States, Assignments, Keys
  <2>2. ASSUME NEW b \in made_, b \in Found(Now, m, e) PROVE b \in attrs
    <3>1. m \in known /\ b \in assigned[m][e] /\ b \in collection
      BY <2>2 DEF Found, Now
    <3>2. QED
      BY <1>1, <3>1 DEF Found
  <2>3. s.attrs \subseteq attrs
    OBVIOUS
  <2> HIDE DEF attrs
  <2>4. Good(cut, made_) /\ cut.here = s.now.here /\ Spares(s.now, cut, attrs, e, made_)
    BY <1>1, <2>1, DisassociateAnyGood
  <2> HIDE DEF cut
  <2> DEFINE last == After(s.now, cut)
  <2>5. /\ Good(last, made_) /\ last.here = cut.here
        /\ last.values = cut.values /\ last.assigned = cut.assigned /\ last.known = cut.known
    BY <1>1, <2>4, AfterGood
  <2> HIDE DEF last
  <2>6. \A b \in made_ : Holds(values[b], to) => Holds(last.values[b], to)
    BY <1>1, <1>3, <2>4, <2>5 DEF Spares
  <2>7. \A b \in made_, d \in Entities :
          b \in assigned[m][d] => b \in attrs \/ b \in last.assigned[m][d]
    BY <1>1, <2>3, <2>4, <2>5 DEF Spares
  <2>8. new = [attrs |-> attrs, now |-> last]
    BY DEF last
  <2> HIDE DEF new
  <2>9. new \in Gathering(made_)
    BY <2>1, <2>5, <2>8 DEF Gathering, Good
  <2>10. new \in Sifted(made_, m, to)
    BY <1>1, <2>4, <2>5, <2>6, <2>7, <2>8, <2>9 DEF Sifted, Spares
  <2>11. Gather(s, m, to, e) = new
    BY <1>3 DEF Gather, new, attrs, cut
  <2>12. QED
    BY <2>2, <2>3, <2>8, <2>10, <2>11
<1>4. QED
  BY <1>2, <1>3

\* Those of several entities.
LEMMA GatheredGood ==
  ASSUME AssociationsInv, NEW m \in Managers, NEW to \in Entities, NEW q \in Seq(Entities)
  PROVE  /\ Gathered(m, q, to) \in Sifted(made, m, to)
         /\ \A e \in Range(q) \cap model[m] :
              e # to => Found(Now, m, e) \subseteq Gathered(m, q, to).attrs
<1> DEFINE n == Len(q)
           T == Sifted(made, m, to)
           base == [attrs |-> {}, now |-> Now]
           Step(s, i) == Gather(s, m, to, q[i])
           F == [p \in T \X (1 .. n) |-> Step(p[1], p[2])]
           Seen(e, attrs) == \A b \in made : b \in Found(Now, m, e) /\ e # to /\ e \in model[m] => b \in attrs
           R == {p \in T \X (1 .. n) : Seen(q[p[2]], p[1].attrs)}
           Is(h) == h = [s \in SUBSET (1 .. n) |->
                           IF s = {} THEN base ELSE Step(h[s \ {Max(s)}], Max(s))]
           g == CHOOSE k : Is(k)
           all == Gathered(m, q, to)
<1>1. /\ made \in SUBSET Attributes /\ ref \in Managers \cup {Nil} /\ Good(Now, made)
      /\ n \in Nat /\ q \in [1 .. n -> Entities] /\ \A e \in Range(q) : \E i \in 1 .. n : q[i] = e
  BY DEF AssociationsInv, Range
<1>2. base \in T
  <2> DEFINE now == Now
  <2>1. /\ Good(now, made) /\ now.known = known /\ now.here = collection
        /\ now.values = values /\ now.assigned = assigned
    BY <1>1 DEF Now
  <2> HIDE DEF now
  <2> DEFINE first == [attrs |-> {}, now |-> now]
  <2>2. first \in Gathering(made)
    BY <2>1 DEF Gathering, Good
  <2>3. first.now = now /\ first = base
    BY DEF now
  <2> HIDE DEF first
  <2>4. first \in T
    BY <2>1, <2>2, <2>3 DEF Sifted
  <2>5. QED
    BY <2>3, <2>4
<1>9. ASSUME NEW s \in T, NEW i \in 1 .. n
      PROVE  Step(s, i) \in T /\ s.attrs \subseteq Step(s, i).attrs /\ Seen(q[i], Step(s, i).attrs)
  <2> DEFINE e == q[i]
             new == Gather(s, m, to, e)
  <2>1. e \in Entities
    BY <1>1
  <2> HIDE DEF e
  <2>2. /\ new \in T /\ s.attrs \subseteq new.attrs
        /\ \A b \in made : b \in Found(Now, m, e) /\ e # to /\ e \in model[m] => b \in new.attrs
    BY <1>1, <2>1, GatherGood
  <2>3. QED
    BY <2>2 DEF e
<1>3. F \in FoldSteps(n, T)
  <2> HIDE DEF T, Step
  <2>1. QED
    BY <1>9 DEF FoldSteps
<1>10. \A s \in T, i \in 1 .. n : << F[<< s, i >>], i >> \in R
  <2> HIDE DEF T, Step, Seen
  <2>1. QED
    BY <1>9
<1>11. \A s \in T, i, j \in 1 .. n : << s, j >> \in R => << F[<< s, i >>], j >> \in R
  <2> SUFFICES ASSUME NEW s \in T, NEW i \in 1 .. n, NEW j \in 1 .. n, << s, j >> \in R
               PROVE  << F[<< s, i >>], j >> \in R
    <3> HIDE DEF T, F, R, n
    <3>1. QED
      OBVIOUS
  <2>1. Step(s, i) \in T /\ s.attrs \subseteq Step(s, i).attrs
    BY <1>9
  <2> HIDE DEF T, Step
  <2>2. Seen(q[j], Step(s, i).attrs)
    BY <2>1
  <2> HIDE DEF Seen
  <2>3. QED
    BY <2>1, <2>2
<1>12. Achieves(R, n, T, F)
  <2> HIDE DEF F, T, n, R
  <2>1. QED
    BY <1>10, <1>11 DEF Achieves
<1>4. Is(g)
  <2> HIDE DEF T, n, Step, base
  <2>1. PICK h : Folds(h, n, T, base, F)
    <3> HIDE DEF F
    <3>1. QED
      BY <1>1, <1>2, <1>3, FoldSolved
  <2>2. Is(h)
    BY <2>1 DEF Folds
  <2> HIDE DEF Is
  <2>3. QED
    BY <2>2
<1>5. all = g[1 .. n]
  <2>1. DOMAIN q = 1 .. n
    BY <1>1
  <2>2. QED
    BY <2>1 DEF Gathered, FoldLeft, MapThenFoldSet, Gather, After
<1>6. FoldsWithin(g, n, T, base, F)
  <2> HIDE DEF g, T, n, Step, base
  <2>1. QED
    BY <1>4 DEF FoldsWithin
<1>7. all \in T /\ \A i \in 1 .. n : << all, i >> \in R
  <2> HIDE DEF g, F, T, n, all, base, R
  <2>1. QED
    BY <1>1, <1>2, <1>3, <1>5, <1>6, <1>12, FoldAchieves
<1>8. ASSUME NEW e \in Range(q) \cap model[m], e # to PROVE Found(Now, m, e) \subseteq all.attrs
  <2>1. Found(Now, m, e) \subseteq made
    BY InvFacts DEF Found
  <2>2. PICK i \in 1 .. n : q[i] = e
    BY <1>1
  <2> HIDE DEF T, n, all
  <2>3. Seen(e, all.attrs)
    BY <1>7, <2>2
  <2>4. QED
    BY <1>8, <2>1, <2>3
<1>13. QED
  BY <1>7, <1>8

\* Session::mergeAttributes.
LEMMA MergeGood ==
  ASSUME AssociationsInv, NEW m \in Managers, m = ref, NEW to \in Entities, NEW q \in Seq(Entities)
  PROVE  /\ Good(MergeAttributes(m, q, to), made)
         /\ MergeAttributes(m, q, to).ok = "yes" =>
              \A e \in Range(q) \cap model[m] : \A a \in Found(Now, m, e) :
                e # to \/ Holds(values[a], to) => Holds(MergeAttributes(m, q, to).values[a], to)
<1> DEFINE sum == Gathered(m, q, to)
           now == sum.now
           attrs == sum.attrs
           all == EachAssociates(now, m, to, attrs)
<1>1. made \in SUBSET Attributes /\ ref \in Managers \cup {Nil}
  BY DEF AssociationsInv
<1>2. /\ Good(now, made) /\ attrs \in SUBSET made
      /\ \A b \in made : Holds(values[b], to) => Holds(now.values[b], to)
      /\ \A e \in Range(q) \cap model[m] : e # to => Found(Now, m, e) \subseteq attrs
  BY GatheredGood DEF Gathering, Sifted
<1> HIDE DEF sum
<1>3. MergeAttributes(m, q, to) = all
  BY DEF MergeAttributes, EachAssociates, sum
<1> HIDE DEF now, attrs
<1>4. /\ Good(all, made) /\ Keeps(now, all, made)
      /\ all.ok = "yes" => \A a \in attrs : Holds(all.values[a], to)
  BY <1>1, <1>2, EachAssociatesGood
<1> HIDE DEF all
<1>5. ASSUME all.ok = "yes", NEW e \in Range(q) \cap model[m], NEW a \in Found(Now, m, e),
             e # to \/ Holds(values[a], to)
      PROVE  Holds(all.values[a], to)
  <2>1. CASE e # to
    BY <1>2, <1>4, <1>5, <2>1
  <2>2. CASE Holds(values[a], to)
    <3>1. a \in made
      BY InvFacts DEF Found
    <3>2. QED
      BY <1>2, <1>4, <2>2, <3>1 DEF Keeps
  <2>3. QED
    BY <1>5, <2>1, <2>2
<1>6. QED
  BY <1>3, <1>4, <1>5

-----------------------------------------------------------------------------
(* The calls of clients *)

\* A call ends in a good state.
LEMMA Landed ==
  ASSUME AssociationsInv, NEW now, Good(now, made'), made' \in SUBSET Attributes, Effect(now),
         UNCHANGED << ref, erased >>, model' \in [Managers -> SUBSET Entities],
         call'.ok \in {"yes", "no"}
  PROVE  AssociationsInv'
<1>1. now \in States(made') /\ CopiesGood(now.values, now.assigned, now.here, made')
  BY DEF Good
<1>2. /\ values' = now.values /\ assigned' = now.assigned /\ known' = now.known
      /\ collection' = now.here /\ ref' = ref /\ erased' = erased
  BY DEF Effect
<1>3. (Now \in States(made))'
  BY <1>1, <1>2 DEF Now, States, Assignments, Keys, Refs
<1>4. (\A a \in made : ItemGood(a, values[a]))'
  BY <1>1, <1>2 DEF CopiesGood, ItemGood, Refs
<1>5. (\A a \in collection : LinksGood(a, values[a], assigned))'
  BY <1>1, <1>2 DEF CopiesGood, LinksGood
<1>6. (CopiesGood(Now.values, Now.assigned, Now.here, made))'
  <2>1. (values \in [Attributes -> Seq(Refs)] /\ assigned \in Assignments(made) /\ collection \subseteq made)'
    BY <1>1, <1>2 DEF CopiesGood, Assignments, Keys, Refs
  <2>2. CopiesGood(values, assigned, collection, made)'
    BY <1>4, <1>5, <2>1 DEF CopiesGood
  <2>3. (Now.values = values /\ Now.assigned = assigned /\ Now.here = collection)'
    BY DEF Now
  <2>4. QED
    BY <2>2, <2>3
<1>7. QED
  BY <1>2, <1>3, <1>6 DEF AssociationsInv, Good

\* Calls on what exists.
LEMMA Associated ==
  ASSUME AssociationsInv, NEW now, Good(now, made), Associate(now)
  PROVE  AssociationsInv'
<1>1. now.ok \in {"yes", "no"}
  BY DEF Good, States
<1>2. /\ Effect(now) /\ UNCHANGED << ref, made, model, erased >>
      /\ call' = [Idle EXCEPT !.ok = IF now.ok = "never" THEN now.ok ELSE @]
  BY DEF Associate, Done
<1>3. call'.ok \in {"yes", "no"}
  BY <1>1, <1>2 DEF Idle
<1>4. /\ made' = made /\ model' \in [Managers -> SUBSET Entities] /\ made' \in SUBSET Attributes
  BY <1>2 DEF AssociationsInv
<1>5. Good(now, made')
  BY <1>4
<1>6. QED
  BY <1>2, <1>3, <1>4, <1>5, Landed

\* Calls that make an attribute.
LEMMA Made ==
  ASSUME AssociationsInv, NEW a \in Attributes, Make(a), NEW now, Good(now, made \cup {a}),
         Done(now), UNCHANGED << ref, model, erased >>
  PROVE  AssociationsInv'
<1>1. now.ok \in {"yes", "no"}
  BY DEF Good, States
<1>2. call'.ok \in {"yes", "no"}
  BY <1>1 DEF Done, Idle
<1>3. /\ made' = made \cup {a} /\ model' \in [Managers -> SUBSET Entities]
      /\ made' \in SUBSET Attributes /\ Effect(now)
  BY DEF AssociationsInv, Make, Done
<1>4. Good(now, made')
  BY <1>3
<1>5. QED
  BY <1>2, <1>3, <1>4, Landed

\* A new attribute with slots of its own, of entities that need no assignment.
Fresh(a, w) == [Now EXCEPT !.values[a] = w, !.here = @ \cup {a}]

LEMMA FreshFacts ==
  ASSUME AssociationsInv, NEW a \in Attributes, NEW w \in Seq(Refs)
  PROVE  /\ Fresh(a, w) \in States(made \cup {a}) /\ Fresh(a, w).here = collection \cup {a}
         /\ Fresh(a, w).assigned = assigned /\ Fresh(a, w).values = [values EXCEPT ![a] = w]
<1> DEFINE n == Now
           new == Fresh(a, w)
           made2 == made \cup {a}
<1>1. n \in States(made) /\ n.values = values /\ n.assigned = assigned /\ n.here = collection
  BY InvFacts
<1>2. new = [n EXCEPT !.values[a] = w, !.here = @ \cup {a}]
  BY DEF Fresh
<1> HIDE DEF n, new
<1>3. n \in States(made2)
  BY <1>1 DEF States, Assignments
<1>4. n.here \cup {a} \in SUBSET made2
  BY <1>1 DEF States
<1> HIDE DEF made2
<1>5. new \in States(made2)
  BY <1>2, <1>3, <1>4 DEF States
<1>6. new.here = n.here \cup {a} /\ new.assigned = n.assigned /\ new.values = [n.values EXCEPT ![a] = w]
  BY <1>2, <1>3 DEF States
<1>7. QED
  BY <1>1, <1>5, <1>6 DEF new, made2

LEMMA FreshGood ==
  ASSUME AssociationsInv, NEW a \in Attributes \ made, NEW w, ItemGood(a, w),
         ref # Nil => \A e \in Entities : ~Holds(w, e)
  PROVE  Good(Fresh(a, w), made \cup {a}) /\ Fresh(a, w).here = collection \cup {a}
<1> DEFINE new == Fresh(a, w)
<1>1. /\ new \in States(made \cup {a}) /\ new.here = collection \cup {a}
      /\ new.assigned = assigned /\ new.values = [values EXCEPT ![a] = w]
  <2>1. w \in Seq(Refs)
    BY DEF ItemGood
  <2>2. QED
    BY <2>1, FreshFacts
<1> HIDE DEF new
<1>2. /\ new.values \in [Attributes -> Seq(Refs)] /\ new.values[a] = w
      /\ \A b \in Attributes : b # a => new.values[b] = values[b]
  BY <1>1, InvFacts DEF ItemGood
<1>3. LinksGood(a, w, assigned)
  BY InvFacts DEF LinksGood, Assignments, Keys
<1>4. OneChange(a, Now, new, made)
  <2>1. new.assigned \in Assignments(made \cup {a})
    BY <1>1 DEF States
  <2>2. QED
    BY <1>1, <1>2, <1>3, <2>1, InvFacts DEF OneChange, AttributeChange
<1>5. Good(new, made \cup {a})
  BY <1>4, InvFacts, OneChangeGood
<1>6. QED
  BY <1>1, <1>5 DEF new

LEMMA CreateStep ==
  ASSUME AssociationsInv, NEW a \in Attributes, Create(a)
  PROVE  AssociationsInv'
<1> DEFINE w == Blank(a)
           now == Fresh(a, w)
<1>1. Make(a) /\ Done(now) /\ UNCHANGED << ref, model, erased >> /\ a \notin made
  BY DEF Create, Fresh, Make
<1>2. ItemGood(a, w) /\ \A e \in Entities : ~Holds(w, e)
  BY BlankGood
<1> HIDE DEF w
<1>3. Good(now, made \cup {a})
  BY <1>1, <1>2, FreshGood
<1> HIDE DEF now
<1>4. QED
  BY <1>1, <1>3, Made

\* The entities a file may hold for an item.
LEMMA SlotsFacts ==
  ASSUME NEW a \in Attributes, NEW s \in Slots(a)
  PROVE  /\ s \in Seq(Keys)
         /\ IF Extensible[a] THEN Limit[a] = 0 \/ Len(s) <= Limit[a] ELSE Len(s) = Required[a]
         /\ \A i, j \in DOMAIN s : s[i] = s[j] => i = j \/ s[i] = Null
<1>1. Fits[a] \in SUBSET Entities /\ Required[a] \in Nat
  BY ConstantsOK
<1>2. CASE Extensible[a]
  <2>1. PICK S \in SUBSET Fits[a] : s \in SetToSeqs(S)
    BY <1>2 DEF Slots
  <2>2. Limit[a] = 0 \/ Len(s) <= Limit[a]
    BY <1>2 DEF Slots
  <2>3. IsFiniteSet(S)
    BY <1>1, <2>1, ConstantsFinite, FS_Subset
  <2>4. Cardinality(S) \in Nat /\ s \in [1 .. Cardinality(S) -> S]
    BY <2>1, <2>3, ListOf
  <2>5. \A i, j \in 1 .. Cardinality(S) : i # j => s[i] # s[j]
    BY <2>1 DEF SetToSeqs
  <2>6. s \in Seq(Keys)
    <3>1. S \subseteq Keys
      BY <1>1 DEF Keys
    <3>2. s \in [1 .. Cardinality(S) -> Keys]
      BY <2>4, <3>1
    <3>3. QED
      BY <2>4, <3>2
  <2>7. QED
    BY <1>2, <2>2, <2>4, <2>5, <2>6
<1>3. CASE ~Extensible[a]
  <2>1. /\ s \in [1 .. Required[a] -> Fits[a] \cup {Null}]
        /\ \A i, j \in 1 .. Required[a] : s[i] = s[j] => i = j \/ s[i] = Null
    BY <1>3 DEF Slots
  <2>2. Fits[a] \cup {Null} \subseteq Keys
    BY <1>1 DEF Keys
  <2>3. s \in Seq(Keys) /\ Len(s) = Required[a]
    <3>1. s \in [1 .. Required[a] -> Keys]
      BY <2>1, <2>2
    <3>2. QED
      BY <1>1, <3>1
  <2>4. QED
    BY <1>3, <2>1, <2>3
<1>4. QED
  BY <1>2, <1>3

LEMMA ReadStep ==
  ASSUME AssociationsInv, NEW a \in Attributes, NEW s \in Slots(a), ReadAttribute(a, s)
  PROVE  AssociationsInv'
<1> DEFINE w == [i \in DOMAIN s |-> IF s[i] = Null THEN Unset ELSE << ref, s[i] >>]
           noted == [e \in Keys |-> IF Holds(w, e) THEN assigned[ref][e] \cup {a} ELSE assigned[ref][e]]
           kept == Fresh(a, w)
           now == IF ref = Nil THEN kept ELSE [kept EXCEPT !.assigned[ref] = noted]
<1>1. Make(a) /\ Done(now) /\ UNCHANGED << ref, model, erased >> /\ a \notin made
  BY DEF ReadAttribute, Fresh, Make, Keys
<1>2. ItemGood(a, w)
  <2>1. /\ s \in Seq(Keys) /\ Len(s) \in Nat /\ DOMAIN s = 1 .. Len(s)
        /\ IF Extensible[a] THEN Limit[a] = 0 \/ Len(s) <= Limit[a] ELSE Len(s) = Required[a]
        /\ \A i, j \in DOMAIN s : s[i] = s[j] => i = j \/ s[i] = Null
    BY SlotsFacts
  <2>2. ASSUME NEW i \in DOMAIN s
        PROVE  /\ w[i] \in Refs /\ w[i][2] = s[i]
               /\ w[i][2] \in Entities => w[i][1] = ref
    <3>1. s[i] \in Keys
      BY <2>1, <2>2
    <3>2. CASE s[i] = Null
      BY <3>2, UnsetIsRef
    <3>3. CASE s[i] # Null
      BY <3>1, <3>3, InvFacts DEF Refs, Keys
    <3>4. QED
      BY <3>2, <3>3
  <2>3. DOMAIN w = 1 .. Len(s)
    BY <2>1
  <2>4. w = [i \in 1 .. Len(s) |-> w[i]]
    BY <2>1
  <2> HIDE DEF w
  <2>5. w \in Seq(Refs) /\ Len(w) = Len(s)
    <3>1. w \in [1 .. Len(s) -> Refs]
      BY <2>1, <2>2, <2>4
    <3>2. QED
      BY <2>1, <3>1
  <2>6. QED
    BY <2>1, <2>2, <2>3, <2>5 DEF ItemGood
<1> HIDE DEF w
<1>3. Good(now, made \cup {a})
  <2>1. CASE ref = Nil
    BY <1>1, <1>2, <2>1, FreshGood
  <2>2. CASE ref # Nil
    <3>1. ref \in Managers
      BY <2>2, InvFacts
    <3>2. noted \in [Keys -> SUBSET (made \cup {a})]
      BY <3>1, InvFacts DEF Assignments
    <3> HIDE DEF noted
    <3>3. now = [kept EXCEPT !.assigned[ref] = noted]
      BY <2>2
    <3>4. /\ now \in States(made \cup {a}) /\ now.here = collection \cup {a}
          /\ now.assigned = [assigned EXCEPT ![ref] = noted]
          /\ now.values = [values EXCEPT ![a] = w]
      <4>1. w \in Seq(Refs)
        BY <1>2 DEF ItemGood
      <4>2. /\ kept \in States(made \cup {a}) /\ kept.here = collection \cup {a}
            /\ kept.assigned = assigned /\ kept.values = [values EXCEPT ![a] = w]
        BY <4>1, FreshFacts
      <4> HIDE DEF kept
      <4>3. QED
        BY <3>1, <3>2, <3>3, <4>2 DEF States, Assignments
    <3> HIDE DEF now
    <3>5. /\ now.values \in [Attributes -> Seq(Refs)] /\ now.values[a] = w
          /\ \A b \in Attributes : b # a => now.values[b] = values[b]
      BY <1>2, <3>4, InvFacts DEF ItemGood
    <3>6. \A n \in Managers, e \in Keys :
            now.assigned[n][e] = IF n = ref /\ Holds(w, e) THEN assigned[n][e] \cup {a} ELSE assigned[n][e]
      <4>1. ASSUME NEW n \in Managers, NEW e \in Keys, n # ref
            PROVE  now.assigned[n][e] = assigned[n][e]
        BY <3>4, <4>1, InvFacts DEF Assignments
      <4>2. now.assigned[ref] = noted
        BY <3>1, <3>4, InvFacts DEF Assignments
      <4>3. \A e \in Keys : noted[e] = IF Holds(w, e) THEN assigned[ref][e] \cup {a} ELSE assigned[ref][e]
        BY DEF noted
      <4>4. QED
        BY <4>1, <4>2, <4>3
    <3>7. \A n \in Managers, e \in Keys : a \in now.assigned[n][e] <=> n = ref /\ Holds(w, e)
      <4>1. \A n \in Managers, e \in Keys : a \notin assigned[n][e]
        BY <1>1, InvFacts DEF Assignments
      <4> HIDE DEF w
      <4>2. QED
        BY <3>6, <4>1
    <3>8. LinksGood(a, w, now.assigned)
      BY <3>1, <3>7 DEF LinksGood, Keys
    <3>9. \A b \in made : b # a => \A n \in Managers, e \in Keys :
             b \in now.assigned[n][e] <=> b \in assigned[n][e]
      BY <3>6
    <3>10. now.assigned \in Assignments(made \cup {a})
      BY <3>4 DEF States
    <3>11. OneChange(a, Now, now, made)
      BY <1>2, <3>4, <3>5, <3>8, <3>9, <3>10, InvFacts DEF OneChange, AttributeChange
    <3>12. QED
      BY <3>11, InvFacts, OneChangeGood
  <2>3. QED
    BY <2>1, <2>2
<1> HIDE DEF now
<1>4. QED
  BY <1>1, <1>3, Made

LEMMA CopyStep ==
  ASSUME AssociationsInv, NEW a \in Attributes, NEW b \in Attributes, CopyAttribute(a, b)
  PROVE  AssociationsInv'
<1> DEFINE w == Blank(b)
           fresh == Fresh(b, w)
           held == {e \in Entities : Holds(values[a], e)}
<1>1. PICK order \in SetToSeqs(held) :
        LET ids == IF Holds(values[a], Null) THEN << Null >> \o order ELSE order
        IN  Done(Each(fresh, ids, LAMBDA s, e : AttributeAssociates(s, b, << ref, e >>)))
  BY DEF CopyAttribute, Fresh
<1>2. Make(b) /\ UNCHANGED << ref, model, erased >> /\ b \notin made
  BY DEF CopyAttribute, Make
<1> DEFINE ids == IF Holds(values[a], Null) THEN << Null >> \o order ELSE order
           now == EachTakes(fresh, b, ids)
           made2 == made \cup {b}
<1>3. Done(now)
  BY <1>1 DEF EachTakes
<1>4. ItemGood(b, w) /\ \A e \in Entities : ~Holds(w, e)
  BY BlankGood
<1> HIDE DEF w
<1>5. Good(fresh, made2)
  BY <1>2, <1>4, FreshGood
<1>6. ids \in Seq(Keys)
  <2>1. IsFiniteSet(held)
    BY ConstantsFinite, FS_Subset
  <2> HIDE DEF held
  <2>2. Cardinality(held) \in Nat /\ order \in [1 .. Cardinality(held) -> held]
    BY <2>1, ListOf
  <2>3. held \subseteq Keys
    BY DEF held, Keys
  <2>4. order \in Seq(Keys)
    <3>1. order \in [1 .. Cardinality(held) -> Keys]
      BY <2>2, <2>3
    <3>2. QED
      BY <2>2, <3>1
  <2>5. << Null >> \in Seq(Keys)
    BY DEF Keys
  <2>6. << Null >> \o order \in Seq(Keys)
    BY <2>4, <2>5, ConcatProperties
  <2>7. QED
    BY <2>4, <2>6
<1>7. made2 \in SUBSET Attributes /\ b \in made2 /\ ref \in Managers \cup {Nil}
  BY InvFacts
<1> HIDE DEF fresh, ids, made2
<1>8. Good(now, made2)
  BY <1>5, <1>6, <1>7, EachTakesGood
<1> HIDE DEF now
<1>9. QED
  BY <1>2, <1>3, <1>8, Made DEF made2

\* What is removed from the collection is not looked at from there any more.
LEMMA RemoveStep ==
  ASSUME AssociationsInv, NEW a \in Attributes, RemoveAttribute(a)
  PROVE  AssociationsInv'
<1> DEFINE now == [Now EXCEPT !.here = @ \ {a}]
<1>1. Associate(now) /\ a \in made
  BY InvFacts DEF RemoveAttribute, Associate
<1>2. /\ now \in States(made) /\ now.values = values /\ now.assigned = assigned
      /\ now.here = collection \ {a}
  BY InvFacts DEF Good, States, Now
<1> HIDE DEF now
<1>3. CopiesGood(values, assigned, collection, made)
  BY InvFacts DEF Good
<1>4. Good(now, made)
  BY <1>2, <1>3 DEF Good, CopiesGood
<1>5. QED
  BY <1>1, <1>4, Associated

\* Attribute::removeAllAssociations.
LEMMA RemoveAllStep ==
  ASSUME AssociationsInv, NEW a \in made, RemoveAll(a)
  PROVE  AssociationsInv'
<1> DEFINE w == Blank(a)
           blank == [Now EXCEPT !.values[a] = w]
           freed == [e \in Keys |-> IF Holds(values[a], e) THEN assigned[ref][e] \ {a} ELSE assigned[ref][e]]
           now == IF ref = Nil THEN blank ELSE [blank EXCEPT !.assigned[ref] = freed]
<1>1. Associate(now) /\ a \in Attributes
  BY InvFacts DEF RemoveAll, Keys
<1>2. ItemGood(a, w) /\ \A e \in Entities : ~Holds(w, e)
  BY <1>1, BlankGood
<1> HIDE DEF w
<1>3. Good(now, made)
  <2>1. CASE ref = Nil
    <3> DEFINE n == Now
    <3>1. Good(n, made) /\ made \in SUBSET Attributes
      BY InvFacts
    <3> HIDE DEF n
    <3>2. Good([n EXCEPT !.values[a] = w], made)
      BY <1>2, <2>1, <3>1, RefilledGood
    <3>3. QED
      BY <2>1, <3>2 DEF n
  <2>2. CASE ref # Nil
    <3>1. ref \in Managers
      BY <2>2, InvFacts
    <3>2. freed \in [Keys -> SUBSET made]
      BY <3>1, InvFacts DEF Assignments
    <3> HIDE DEF freed
    <3>3. now = [blank EXCEPT !.assigned[ref] = freed]
      BY <2>2
    <3>4. /\ now \in States(made) /\ now.here = collection
          /\ now.assigned = [assigned EXCEPT ![ref] = freed]
          /\ now.values = [values EXCEPT ![a] = w]
      <4>1. w \in Seq(Refs)
        BY <1>2 DEF ItemGood
      <4>2. /\ blank \in States(made) /\ blank.here = collection
            /\ blank.assigned = assigned /\ blank.values = [values EXCEPT ![a] = w]
        BY <1>1, <4>1, InvFacts DEF States, Assignments
      <4> HIDE DEF blank
      <4>3. QED
        BY <3>1, <3>2, <3>3, <4>2 DEF States, Assignments
    <3> HIDE DEF now
    <3>5. /\ now.values \in [Attributes -> Seq(Refs)] /\ now.values[a] = w
          /\ \A b \in Attributes : b # a => now.values[b] = values[b]
      BY <1>1, <1>2, <3>4, InvFacts DEF ItemGood
    <3>6. \A n \in Managers, e \in Keys :
            now.assigned[n][e] = IF n = ref /\ Holds(values[a], e)
                                 THEN assigned[n][e] \ {a} ELSE assigned[n][e]
      <4>1. ASSUME NEW n \in Managers, NEW e \in Keys, n # ref
            PROVE  now.assigned[n][e] = assigned[n][e]
        BY <3>4, <4>1, InvFacts DEF Assignments
      <4>2. now.assigned[ref] = freed
        BY <3>1, <3>4, InvFacts DEF Assignments
      <4>3. \A e \in Keys : freed[e] = IF Holds(values[a], e) THEN assigned[ref][e] \ {a} ELSE assigned[ref][e]
        BY DEF freed
      <4>4. QED
        BY <4>1, <4>2, <4>3
    <3>7. ASSUME a \in collection, NEW n \in Managers, NEW e \in Entities
          PROVE  a \notin now.assigned[n][e]
      <4>1. a \in assigned[n][e] => n = ref /\ Holds(values[a], e)
        BY <3>7, InvFacts DEF Good, CopiesGood, LinksGood
      <4>2. QED
        BY <3>6, <4>1 DEF Keys
    <3>8. a \in collection => LinksGood(a, w, now.assigned)
      BY <1>2, <3>7 DEF LinksGood
    <3>9. \A b \in made : b # a => \A n \in Managers, e \in Keys :
             b \in now.assigned[n][e] <=> b \in assigned[n][e]
      <4> HIDE DEF w
      <4>1. ASSUME NEW b \in made, b # a, NEW n \in Managers, NEW e \in Keys
            PROVE  b \in now.assigned[n][e] <=> b \in assigned[n][e]
        BY <3>6, <4>1
      <4>2. QED
        BY <4>1
    <3>10. made \cup {a} = made
      OBVIOUS
    <3>11. now.assigned \in Assignments(made)
      BY <3>4 DEF States
    <3>12. OneChange(a, Now, now, made)
      BY <1>2, <3>4, <3>5, <3>8, <3>9, <3>10, <3>11, InvFacts DEF OneChange, AttributeChange
    <3>13. QED
      BY <1>1, <3>10, <3>12, InvFacts, OneChangeGood
  <2>3. QED
    BY <2>1, <2>2
<1> HIDE DEF now
<1>4. QED
  BY <1>1, <1>3, Associated

\* A collection changes its model manager while nothing is associated.
LEMMA SetRefStep ==
  ASSUME ~Foreign, AssociationsInv, NEW m \in Managers \cup {Nil}, SetRefModelManager(m)
  PROVE  AssociationsInv'
<1>1. /\ ref' = m /\ values' = values /\ assigned' = assigned /\ known' = known
      /\ collection' = collection /\ made' = made /\ model' = model /\ erased' = erased
      /\ call'.ok = "yes"
  BY DEF SetRefModelManager, Done, Effect, Now, Idle
<1>2. \A a \in made, e \in Entities : ~Holds(values[a], e)
  BY DEF SetRefModelManager
<1>3. ASSUME NEW a \in made
      PROVE  ItemGood(a, values[a])'
  <2>1. ItemGood(a, values[a])
    BY InvFacts DEF CopiesGood
  <2>2. \A i \in DOMAIN values[a] : values[a][i][2] \notin Entities
    BY <1>2 DEF Holds
  <2>3. QED
    BY <1>1, <2>1, <2>2 DEF ItemGood, Refs
<1>4. ASSUME NEW a \in collection
      PROVE  LinksGood(a, values[a], assigned)'
  <2>1. LinksGood(a, values[a], assigned) /\ a \in made
    BY InvFacts DEF CopiesGood
  <2>2. \A e \in Entities : ~Holds(values[a], e)
    BY <1>2, <2>1
  <2>3. \A e \in Entities, n \in Managers : a \notin assigned[n][e]
    BY <2>1, <2>2 DEF LinksGood
  <2>4. \A e \in Entities : ~Holds(values'[a], e) /\ \A n \in Managers : a \notin assigned'[n][e]
    BY <1>1, <2>2, <2>3
  <2>5. QED
    BY <2>4 DEF LinksGood
<1>5. (CopiesGood(values, assigned, collection, made))'
  <2>1. (values \in [Attributes -> Seq(Refs)] /\ assigned \in Assignments(made) /\ collection \subseteq made)'
    BY <1>1, InvFacts DEF Assignments, Keys, Refs
  <2>2. (\A a \in made : ItemGood(a, values[a]))'
    BY <1>1, <1>3
  <2>3. (\A a \in collection : LinksGood(a, values[a], assigned))'
    BY <1>1, <1>4
  <2>4. QED
    BY <2>1, <2>2, <2>3 DEF CopiesGood
<1>6. (Now \in States(made))'
  BY <1>1, InvFacts DEF Now, States, Assignments, Keys, Refs
<1>7. (Good(Now, made))'
  BY <1>5, <1>6 DEF Good, Now
<1>8. QED
  BY <1>1, <1>7 DEF AssociationsInv

LEMMA InsertStep ==
  ASSUME AssociationsInv, NEW m \in Managers, NEW e \in Entities, InsertEntity(m, e)
  PROVE  AssociationsInv'
<1> DEFINE now == Now
<1>1. Good(now, made) /\ now.ok = "yes"
  BY InvFacts DEF Now
<1>2. Effect(now) /\ call'.ok = "yes"
  BY <1>1 DEF InsertEntity, Done, Idle
<1>3. UNCHANGED << ref, erased >> /\ made' = made /\ made' \in SUBSET Attributes
  BY InvFacts DEF InsertEntity
<1>4. model' \in [Managers -> SUBSET Entities]
  BY DEF InsertEntity, AssociationsInv
<1> HIDE DEF now
<1>5. Good(now, made')
  BY <1>1, <1>3
<1>6. QED
  BY <1>2, <1>3, <1>4, <1>5, Landed

\* An entity is erased; if its assignments go, that is remembered.
LEMMA EraseStep ==
  ASSUME AssociationsInv, NEW m \in Managers, NEW e \in Entities, NEW also \in BOOLEAN,
         Erase(m, e, also)
  PROVE  AssociationsInv'
<1>1. /\ ref' = ref /\ values' = values /\ known' = known
      /\ collection' = collection /\ made' = made
      /\ assigned' = IF also THEN [assigned EXCEPT ![m] = [@ EXCEPT ![e] = {}]] ELSE assigned
      /\ call'.ok = "yes"
  BY DEF Erase, Done, Effect, Now, Idle
<1>2. /\ erased' = IF also /\ assigned[m][e] # {} THEN erased \cup {e} ELSE erased
      /\ model' = [model EXCEPT ![m] = @ \ {e}]
  BY DEF Erase
<1>3. model' \in [Managers -> SUBSET Entities] /\ erased' \subseteq Entities
  BY <1>2 DEF AssociationsInv
<1>4. e \in Keys
  BY DEF Keys
<1>5. assigned' \in Assignments(made)
  BY <1>1, <1>4, InvFacts DEF Assignments
<1>6. \A n \in Managers, d \in Keys :
        assigned'[n][d] = IF also /\ n = m /\ d = e THEN {} ELSE assigned[n][d]
  BY <1>1, <1>4, InvFacts DEF Assignments
<1>7. ASSUME NEW a \in collection
      PROVE  LinksGood(a, values[a], assigned)'
  <2>1. LinksGood(a, values[a], assigned)
    BY InvFacts DEF CopiesGood
  <2>2. ASSUME NEW d \in Entities
        PROVE  /\ \A n \in Managers : a \in assigned'[n][d] => n = ref' /\ Holds(values'[a], d)
               /\ Holds(values'[a], d) /\ ref' # Nil /\ d \notin erased' => a \in assigned'[ref'][d]
    <3>1. d \in Keys /\ values'[a] = values[a] /\ ref' = ref
      BY <1>1 DEF Keys
    <3>2. \A n \in Managers : a \in assigned'[n][d] => a \in assigned[n][d]
      BY <1>6, <3>1
    <3>3. \A n \in Managers : a \in assigned'[n][d] => n = ref' /\ Holds(values'[a], d)
      BY <2>1, <3>1, <3>2 DEF LinksGood
    <3>4. ASSUME Holds(values[a], d), ref # Nil, d \notin erased'
          PROVE  a \in assigned'[ref][d]
      <4>1. d \notin erased /\ ref \in Managers
        BY <1>2, <3>4, InvFacts
      <4>2. a \in assigned[ref][d]
        BY <2>1, <3>4, <4>1 DEF LinksGood
      <4>3. ~(also /\ ref = m /\ d = e)
        BY <1>2, <3>4, <4>2
      <4>4. QED
        BY <1>6, <3>1, <4>1, <4>2, <4>3
    <3>5. QED
      BY <3>1, <3>3, <3>4
  <2>3. QED
    BY <2>2 DEF LinksGood
<1>8. (CopiesGood(values, assigned, collection, made))'
  <2>1. (values \in [Attributes -> Seq(Refs)] /\ assigned \in Assignments(made) /\ collection \subseteq made)'
    BY <1>1, <1>5, InvFacts DEF Assignments, Keys, Refs
  <2>2. (\A a \in made : ItemGood(a, values[a]))'
    BY <1>1, InvFacts DEF CopiesGood, ItemGood, Refs
  <2>3. (\A a \in collection : LinksGood(a, values[a], assigned))'
    BY <1>1, <1>7
  <2>4. QED
    BY <2>1, <2>2, <2>3 DEF CopiesGood
<1>9. (Now \in States(made))'
  BY <1>1, <1>5, InvFacts DEF Now, States, Assignments, Keys, Refs
<1>10. (Good(Now, made))'
  BY <1>8, <1>9 DEF Good, Now
<1>11. QED
  BY <1>1, <1>3, <1>10 DEF AssociationsInv

\* Calls on one attribute and one entity.
LEMMA OneStep ==
  ASSUME ~Foreign, AssociationsInv, NEW a \in made, NEW e \in Entities,
         \/ AssociateId(a, e) \/ DropId(a, e)
         \/ \E m \in Own : AssociateRef(a, m, e) \/ AssociateFrom(m, a, e)
         \/ \E m \in Managers : DropRef(a, m, e) \/ DropFrom(m, a, e)
  PROVE  AssociationsInv'
<1> DEFINE n == Now
<1>1. /\ made \in SUBSET Attributes /\ ref \in Managers \cup {Nil} /\ Good(n, made) /\ e \in Keys
  BY InvFacts DEF Keys
<1>2. ASSUME NEW now, now = AttributeAssociates(n, a, << ref, e >>)
      PROVE  Good(now, made)
  <2> HIDE DEF n
  <2>1. QED
    BY <1>1, <1>2, AttributeAssociatesGood
<1>3. \A m \in Own : m = ref /\ m \in Managers
  BY <1>1 DEF Own
<1>4. CASE AssociateId(a, e)
  BY <1>2, <1>4, Associated DEF AssociateId
<1>5. CASE DropId(a, e)
  <2> DEFINE now == DisassociateId(n, a, e)
  <2>1. Associate(now)
    BY <1>5 DEF DropId
  <2> HIDE DEF n
  <2>2. Good(now, made)
    BY <1>1, DisassociateIdGood
  <2> HIDE DEF now
  <2>3. QED
    BY <2>1, <2>2, Associated
<1>6. ASSUME NEW m \in Own, AssociateRef(a, m, e) PROVE AssociationsInv'
  <2>1. m = ref
    BY <1>3
  <2>2. Associate(AttributeAssociates(n, a, << ref, e >>))
    BY <1>6, <2>1 DEF AssociateRef
  <2>3. QED
    BY <1>2, <2>2, Associated
<1>7. ASSUME NEW m \in Own, AssociateFrom(m, a, e) PROVE AssociationsInv'
  <2> DEFINE now == ManagerAssociates(n, m, a, e)
  <2>1. Associate(now)
    BY <1>7 DEF AssociateFrom
  <2> HIDE DEF n
  <2>2. Good(now, made)
    BY <1>1, <1>3, ManagerAssociatesGood
  <2> HIDE DEF now
  <2>3. QED
    BY <2>1, <2>2, Associated
<1>8. ASSUME NEW m \in Managers, DropRef(a, m, e) PROVE AssociationsInv'
  <2> DEFINE now == DisassociateRef(n, a, << m, e >>)
  <2>1. Associate(now)
    BY <1>8 DEF DropRef
  <2> HIDE DEF n
  <2>2. Good(now, made)
    BY <1>1, DisassociateRefGood
  <2> HIDE DEF now
  <2>3. QED
    BY <2>1, <2>2, Associated
<1>9. ASSUME NEW m \in Managers, DropFrom(m, a, e) PROVE AssociationsInv'
  <2> DEFINE now == ManagerDisassociates(n, m, a, e)
  <2>1. Associate(now)
    BY <1>9 DEF DropFrom
  <2> HIDE DEF n
  <2>2. Good(now, made)
    BY <1>1, ManagerDisassociatesGood
  <2> HIDE DEF now
  <2>3. QED
    BY <2>1, <2>2, Associated
<1>10. QED
  BY <1>4, <1>5, <1>6, <1>7, <1>8, <1>9

LEMMA DropAllStep ==
  ASSUME AssociationsInv, NEW m \in Managers, NEW e \in Entities, DropAllOf(m, e)
  PROVE  AssociationsInv'
<1> DEFINE n == Now
           attrs == assigned[m][e]
           now == EachDisassociates(n, m, e, attrs)
<1>1. Associate(now)
  BY DEF DropAllOf, EachDisassociates
<1>2. /\ made \in SUBSET Attributes /\ ref \in Managers \cup {Nil} /\ Good(n, made)
      /\ attrs \in SUBSET made
  BY InvFacts DEF Assignments, Keys
<1> HIDE DEF n, attrs
<1>3. Good(now, made)
  BY <1>2, EachDisassociatesGood
<1> HIDE DEF now
<1>4. QED
  BY <1>1, <1>3, Associated

\* Calls that move associations.
LEMMA MovedStep ==
  ASSUME AssociationsInv, NEW now, Good(now, made), NEW op, NEW m, NEW from, NEW to,
         Moved(op, m, from, to, now), UNCHANGED << ref, made, model, erased >>
  PROVE  AssociationsInv'
<1>1. Effect(now) /\ call'.ok \in {"yes", "no"}
  BY DEF Moved, Good, States
<1>2. /\ made' = made /\ model' \in [Managers -> SUBSET Entities] /\ made' \in SUBSET Attributes
  BY DEF AssociationsInv
<1>3. Good(now, made')
  BY <1>2
<1>4. QED
  BY <1>1, <1>2, <1>3, Landed

LEMMA ListsFacts == Lists \subseteq Seq(Entities)
<1> SUFFICES ASSUME NEW l \in Lists PROVE l \in Seq(Entities)
  OBVIOUS
<1>1. PICK S \in SUBSET Entities : l \in SetToSeqs(S)
  <2> DEFINE Listing(e, f) == SetToSeqs({e, f})
  <2>1. PICK e \in Entities, f \in Entities : l \in Listing(e, f)
    <3>1. l \in UNION {Listing(x, y) : x, y \in Entities}
      BY DEF Lists
    <3> HIDE DEF Listing
    <3>2. PICK A \in {Listing(x, y) : x, y \in Entities} : l \in A
      BY <3>1
    <3>3. PICK x \in Entities, y \in Entities : A = Listing(x, y)
      BY <3>2
    <3>4. QED
      BY <3>2, <3>3
  <2> DEFINE S == {e, f}
  <2>2. S \in SUBSET Entities /\ l \in SetToSeqs(S)
    BY <2>1, Zenon
  <2> HIDE DEF S
  <2>3. QED
    BY <2>2
<1>2. IsFiniteSet(S)
  BY ConstantsFinite, FS_Subset
<1>3. Cardinality(S) \in Nat /\ l \in [1 .. Cardinality(S) -> S]
  BY <1>1, <1>2, ListOf
<1>4. l \in [1 .. Cardinality(S) -> Entities]
  BY <1>3
<1>5. QED
  BY <1>3, <1>4

LEMMA MoveStep ==
  ASSUME ~Foreign, AssociationsInv, NEW m \in Own, NEW e \in Entities, NEW l \in Lists,
         Split(m, e, l) \/ Merge(m, l, e)
  PROVE  AssociationsInv'
<1>1. m = ref /\ m \in Managers /\ l \in Seq(Entities)
  BY InvFacts, ListsFacts DEF Own
<1>2. CASE Split(m, e, l)
  <2> DEFINE found == Found(Now, m, e)
  <2>1. PICK attrs \in SetToSeqs(found) :
          Moved("split", m, {e}, Range(l) \cap model[m], SplitAttributes(m, e, l, attrs))
    BY <1>2 DEF Split
  <2>2. found \in SUBSET made
    BY <1>1, InvFacts DEF Found
  <2> HIDE DEF found
  <2>3. IsFiniteSet(found)
    <3>1. found \in SUBSET Attributes
      BY <2>2, InvFacts
    <3>2. QED
      BY <3>1, ConstantsFinite, FS_Subset
  <2> DEFINE n == Cardinality(found)
  <2>4. n \in Nat /\ attrs \in [1 .. n -> found]
    BY <2>3, ListOf
  <2>5. attrs \in [1 .. n -> made]
    BY <2>2, <2>4
  <2> HIDE DEF n
  <2> DEFINE now == SplitAttributes(m, e, l, attrs)
  <2>6. Good(now, made)
    BY <1>1, <2>4, <2>5, SplitGood
  <2>7. Moved("split", m, {e}, Range(l) \cap model[m], now) /\ UNCHANGED << ref, made, model, erased >>
    BY <1>2, <2>1 DEF Split
  <2> HIDE DEF now
  <2>8. QED
    BY <2>6, <2>7, MovedStep
<1>3. CASE Merge(m, l, e)
  <2> DEFINE now == MergeAttributes(m, l, e)
  <2>1. Moved("merge", m, Range(l) \cap model[m], {e}, now) /\ UNCHANGED << ref, made, model, erased >>
    BY <1>3 DEF Merge
  <2>2. Good(now, made)
    BY <1>1, MergeGood
  <2> HIDE DEF now
  <2>3. QED
    BY <2>1, <2>2, MovedStep
<1>4. QED
  BY <1>2, <1>3

-----------------------------------------------------------------------------
(* The specification *)

LEMMA InitAssociations == Init => AssociationsInv
<1> SUFFICES ASSUME Init PROVE AssociationsInv
  OBVIOUS
<1>1. /\ ref = Nil /\ made = {} /\ collection = {} /\ known = {} /\ erased = {}
      /\ values = [a \in Attributes |-> << >>]
      /\ assigned = [m \in Managers |-> [e \in Keys |-> {}]]
      /\ model = [m \in Managers |-> {}] /\ call.ok = "yes"
  BY DEF Init, Keys, Idle
<1>2. values \in [Attributes -> Seq(Refs)] /\ assigned \in Assignments({})
  BY <1>1 DEF Assignments
<1>3. CopiesGood(values, assigned, collection, made)
  BY <1>1, <1>2 DEF CopiesGood
<1>4. Now \in States(made)
  BY <1>1, <1>2 DEF Now, States
<1>5. Good(Now, made)
  BY <1>3, <1>4 DEF Good, Now
<1>6. QED
  BY <1>1, <1>5 DEF AssociationsInv

LEMMA NextAssociations ==
  ASSUME ~Foreign, AssociationsInv, [Next]_vars
  PROVE  AssociationsInv'
<1>1. CASE UNCHANGED vars
  <2>1. /\ ref' = ref /\ made' = made /\ model' = model /\ erased' = erased /\ call' = call
        /\ values' = values /\ assigned' = assigned /\ known' = known /\ collection' = collection
    BY <1>1 DEF vars
  <2> DEFINE now == Now
  <2>2. Effect(now)
    BY <2>1 DEF Effect, Now
  <2>3. Good(now, made') /\ made' \in SUBSET Attributes
    BY <2>1, InvFacts
  <2>4. model' \in [Managers -> SUBSET Entities] /\ call'.ok \in {"yes", "no"}
    BY <2>1 DEF AssociationsInv
  <2> HIDE DEF now
  <2>5. QED
    BY <2>1, <2>2, <2>3, <2>4, Landed
<1>2. ASSUME NEW m \in Managers \cup {Nil}, SetRefModelManager(m) PROVE AssociationsInv'
  BY <1>2, SetRefStep
<1>3. ASSUME NEW m \in Managers, NEW e \in Entities,
             InsertEntity(m, e) \/ (\E also \in BOOLEAN : Erase(m, e, also)) \/ DropAllOf(m, e)
      PROVE  AssociationsInv'
  BY <1>3, InsertStep, EraseStep, DropAllStep
<1>4. ASSUME NEW a \in Attributes, Create(a) \/ RemoveAttribute(a) \/ (\E s \in Slots(a) : ReadAttribute(a, s))
      PROVE  AssociationsInv'
  BY <1>4, CreateStep, RemoveStep, ReadStep
<1>5. ASSUME NEW a \in Attributes, NEW b \in Attributes, CopyAttribute(a, b) PROVE AssociationsInv'
  BY <1>5, CopyStep
<1>6. ASSUME NEW a \in made, RemoveAll(a) PROVE AssociationsInv'
  BY <1>6, RemoveAllStep
<1>7. ASSUME NEW a \in made, NEW e \in Entities,
             \/ AssociateId(a, e) \/ DropId(a, e)
             \/ \E m \in Own : AssociateRef(a, m, e) \/ AssociateFrom(m, a, e)
             \/ \E m \in Managers : DropRef(a, m, e) \/ DropFrom(m, a, e)
      PROVE  AssociationsInv'
  BY <1>7, OneStep
<1>8. ASSUME NEW m \in Own, NEW e \in Entities, NEW l \in Lists, Split(m, e, l) \/ Merge(m, l, e)
      PROVE  AssociationsInv'
  BY <1>8, MoveStep
<1>9. QED
  BY <1>1, <1>2, <1>3, <1>4, <1>5, <1>6, <1>7, <1>8 DEF Next

LEMMA AssociationsInvariance ==
  ASSUME ~Foreign
  PROVE  Spec => []AssociationsInv
<1>1. AssociationsInv /\ [Next]_vars => AssociationsInv'
  BY NextAssociations
<1>2. QED
  BY <1>1, InitAssociations, PTL DEF Spec

\* Whatever fills or changes an association item (a call on either side, a
\* copy, a reader, a split, a merge), it keeps to its definition: no more slots
\* than are allowed, exactly as many where the number is fixed, and no entity
\* in two of them (ModelEntityItem::appendValue and removeValue).
THEOREM AssociationTypes ==
  ASSUME ~Foreign
  PROVE  Spec => []TypeOK
<1>1. ASSUME AssociationsInv PROVE TypeOK
  <2>1. ItemsKeepToRules
    BY <1>1, InvFacts DEF CopiesGood, ItemGood, ItemsKeepToRules
  <2>2. assigned \in [Managers -> [Entities \cup {Null} -> SUBSET made]]
    BY <1>1, InvFacts DEF Assignments, Keys
  <2>3. known \subseteq Managers
    BY <1>1, InvFacts DEF Now, States
  <2>4. QED
    BY <1>1, <2>1, <2>2, <2>3, InvFacts DEF TypeOK, AssociationsInv
<1>2. QED
  BY <1>1, AssociationsInvariance, PTL

\* Both sides agree, whichever of them a call comes in on and however it fails:
\* what a model manager has assigned to an entity, the attribute holds and is
\* of the collection's manager, and what an attribute holds, that manager has
\* assigned unless it erased the entity (Manager::associateAttribute,
\* Attribute::associateEntity and their converses).
THEOREM AssociationsAgree ==
  ASSUME ~Foreign
  PROVE  Spec => []LinksAgree
<1>1. ASSUME AssociationsInv PROVE LinksAgree
  BY <1>1, InvFacts DEF CopiesGood, LinksGood, LinksAgree
<1>2. QED
  BY <1>1, AssociationsInvariance, PTL

\* A call on either side answers: the attribute and the manager do not call each
\* other for ever (Attribute::associateEntity, Manager::associateAttribute).
THEOREM AssociationsAnswer ==
  ASSUME ~Foreign
  PROVE  Spec => []AssociateAnswers
<1>1. ASSUME AssociationsInv PROVE AssociateAnswers
  BY <1>1 DEF AssociationsInv, AssociateAnswers
<1>2. QED
  BY <1>1, AssociationsInvariance, PTL

-----------------------------------------------------------------------------
(* Splits and merges *)

\* What a split or a merge that answers yes may not leave out.
AllMoved ==
  call'.op \in {"split", "merge"} /\ call'.ok = "yes" =>
    \A s \in call'.from, t \in call'.to :
      \A a \in Found(Now, call'.mgr, s) : Holds(values'[a], t)

\* What an entity's manager finds of it, the attributes hold.
LEMMA FoundHeld ==
  ASSUME AssociationsInv, NEW m \in Managers, NEW e \in Entities, NEW a \in Found(Now, m, e)
  PROVE  a \in made /\ Holds(values[a], e)
<1>1. a \in assigned[m][e] /\ a \in collection
  BY DEF Found, Now
<1>2. a \in made /\ LinksGood(a, values[a], assigned)
  BY <1>1, InvFacts DEF CopiesGood
<1>3. QED
  BY <1>1, <1>2 DEF LinksGood

LEMMA SplitMoves ==
  ASSUME ~Foreign, AssociationsInv, NEW m \in Own, NEW e \in Entities, NEW l \in Lists, Split(m, e, l)
  PROVE  AllMoved
<1>1. m = ref /\ m \in Managers /\ l \in Seq(Entities)
  BY InvFacts, ListsFacts DEF Own
<1> DEFINE found == Found(Now, m, e)
           n == Cardinality(found)
<1>2. PICK attrs \in SetToSeqs(found) :
        Moved("split", m, {e}, Range(l) \cap model[m], SplitAttributes(m, e, l, attrs))
  BY DEF Split
<1>3. \A a \in found : a \in made /\ Holds(values[a], e)
  BY <1>1, FoundHeld
<1> HIDE DEF found
<1>4. IsFiniteSet(found)
  <2>1. found \in SUBSET Attributes
    BY <1>3, InvFacts
  <2>2. QED
    BY <2>1, ConstantsFinite, FS_Subset
<1>5. n \in Nat /\ attrs \in [1 .. n -> found] /\ \A a \in found : \E i \in 1 .. n : attrs[i] = a
  BY <1>4, ListOf
<1>6. attrs \in [1 .. n -> made]
  BY <1>3, <1>5
<1> HIDE DEF n
<1> DEFINE now == SplitAttributes(m, e, l, attrs)
<1>7. now.ok = "yes" =>
        \A i \in 1 .. n, t \in Range(l) \cap model[m] :
          t # e \/ Holds(values[attrs[i]], t) => Holds(now.values[attrs[i]], t)
  BY <1>1, <1>5, <1>6, SplitGood
<1>8. /\ values' = now.values /\ call'.ok = now.ok /\ call'.mgr = m
      /\ call'.from = {e} /\ call'.to = Range(l) \cap model[m]
  BY <1>2 DEF Moved, Effect
<1> HIDE DEF now
<1>9. ASSUME now.ok = "yes", NEW t \in Range(l) \cap model[m], NEW a \in found
      PROVE  Holds(values'[a], t)
  <2>1. PICK i \in 1 .. n : attrs[i] = a
    BY <1>5
  <2>2. t # e \/ Holds(values[a], t)
    BY <1>3
  <2>3. QED
    BY <1>7, <1>8, <1>9, <2>1, <2>2
<1>10. QED
  BY <1>8, <1>9 DEF AllMoved, found

LEMMA MergeMoves ==
  ASSUME ~Foreign, AssociationsInv, NEW m \in Own, NEW e \in Entities, NEW l \in Lists, Merge(m, l, e)
  PROVE  AllMoved
<1>1. m = ref /\ m \in Managers /\ l \in Seq(Entities)
  BY InvFacts, ListsFacts DEF Own
<1> DEFINE now == MergeAttributes(m, l, e)
<1>2. now.ok = "yes" =>
        \A s \in Range(l) \cap model[m] : \A a \in Found(Now, m, s) :
          s # e \/ Holds(values[a], e) => Holds(now.values[a], e)
  BY <1>1, MergeGood
<1>3. /\ values' = now.values /\ call'.ok = now.ok /\ call'.mgr = m
      /\ call'.from = Range(l) \cap model[m] /\ call'.to = {e}
  BY DEF Merge, Moved, Effect
<1> HIDE DEF now
<1>4. ASSUME now.ok = "yes", NEW s \in Range(l) \cap model[m], NEW a \in Found(Now, m, s)
      PROVE  Holds(values'[a], e)
  <2>1. s # e \/ Holds(values[a], e)
    BY <1>1, FoundHeld
  <2>2. QED
    BY <1>2, <1>3, <1>4, <2>1
<1>5. QED
  BY <1>3, <1>4 DEF AllMoved

\* All other calls are none that move associations.
LEMMA DoneMovesNone ==
  ASSUME NEW now, Done(now)
  PROVE  AllMoved
BY DEF Done, Idle, AllMoved

LEMMA NextMoves ==
  ASSUME ~Foreign, AssociationsInv, Next
  PROVE  AllMoved
<1>1. ASSUME NEW m \in Managers \cup {Nil}, SetRefModelManager(m) PROVE AllMoved
  BY <1>1, DoneMovesNone DEF SetRefModelManager
<1>2. ASSUME NEW m \in Managers, NEW e \in Entities,
             InsertEntity(m, e) \/ (\E also \in BOOLEAN : Erase(m, e, also)) \/ DropAllOf(m, e)
      PROVE  AllMoved
  BY <1>2, DoneMovesNone DEF InsertEntity, Erase, DropAllOf, Associate
<1>3. ASSUME NEW a \in Attributes, Create(a) \/ RemoveAttribute(a) \/ (\E s \in Slots(a) : ReadAttribute(a, s))
      PROVE  AllMoved
  BY <1>3, DoneMovesNone DEF Create, RemoveAttribute, ReadAttribute
<1>4. ASSUME NEW a \in Attributes, NEW b \in Attributes, CopyAttribute(a, b) PROVE AllMoved
  BY <1>4, DoneMovesNone DEF CopyAttribute
<1>5. ASSUME NEW a \in made, RemoveAll(a) PROVE AllMoved
  BY <1>5, DoneMovesNone DEF RemoveAll, Associate
<1>6. ASSUME NEW a \in made, NEW e \in Entities,
             \/ AssociateId(a, e) \/ DropId(a, e)
             \/ \E m \in Own : AssociateRef(a, m, e) \/ AssociateFrom(m, a, e)
             \/ \E m \in Managers : DropRef(a, m, e) \/ DropFrom(m, a, e)
      PROVE  AllMoved
  BY <1>6, DoneMovesNone
     DEF AssociateId, DropId, AssociateRef, AssociateFrom, DropRef, DropFrom, Associate
<1>7. ASSUME NEW m \in Own, NEW e \in Entities, NEW l \in Lists, Split(m, e, l) \/ Merge(m, l, e)
      PROVE  AllMoved
  BY <1>7, SplitMoves, MergeMoves
<1>8. QED
  BY <1>1, <1>2, <1>3, <1>4, <1>5, <1>6, <1>7 DEF Next

\* A session that splits or merges entities is told if an attribute its manager
\* knew of is lost on the way: when all calls in the loops answered yes, each of
\* these attributes holds every entity it should, although the sources are
\* disassociated first, attribute by attribute and source by source
\* (Session::splitAttributes, Session::mergeAttributes).
THEOREM NothingLostSilently ==
  ASSUME ~Foreign
  PROVE  Spec => NoSilentLoss
<1>1. ASSUME AssociationsInv, [Next]_vars
      PROVE  AllMoved \/ UNCHANGED vars
  BY <1>1, NextMoves
<1>2. AssociationsInv /\ [Next]_vars => [AllMoved]_vars
  BY <1>1
<1>3. Spec => [][AllMoved]_vars
  BY <1>2, AssociationsInvariance, PTL DEF Spec
<1>4. QED
  BY <1>3 DEF NoSilentLoss, AllMoved
================================================================================
