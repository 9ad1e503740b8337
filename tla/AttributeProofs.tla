---------------------------- MODULE AttributeProofs ----------------------------
(***************************************************************************)
(* Proofs about the attribute system, for AttributeCollection, References  *)
(* and ValueItem.                                                          *)
(*                                                                         *)
(* The indices of a collection agree and its derivation tree is closed for *)
(* any number of definitions, types, attributes and names, as long as      *)
(* clients leave alone what was removed.                                   *)
(*                                                                         *)
(* The two ends of references between attributes agree, for any number of  *)
(* attributes and items of any size, under clients that are careful: a     *)
(* call on an item changes that item and what attributes have of it, and   *)
(* what they have of it afterwards is what it holds.                       *)
(*                                                                         *)
(* The vectors of items of values agree and their expressions are their    *)
(* own, for any number of items, and calls do what they answer: a call     *)
(* changes one element or makes the vectors of one item anew, a loop over  *)
(* elements is a fold of such calls, and whatever keeps a state Sound      *)
(* without touching the other items is a step that clients were told of.   *)
(***************************************************************************)
EXTENDS AttributeCollection, ValueItem, FiniteSetTheorems, SequenceTheorems, Inductions

-----------------------------------------------------------------------------
(* The collection                                                            *)

\* Attributes in the clusters are of definitions that are in the collection:
\* what lookups down the tree need, and definitions come and go.
ClustersKnown ==
  \A t \in Types : \A a \in clusters[t] : Registered(def[a]) /\ def[a] \notin Abstract

\* The invariant of the collection: what each call relies on.
CollectionInv == TypeOK /\ IndicesAgree /\ TreeClosed /\ ClustersKnown

-----------------------------------------------------------------------------
(* Types, whatever clients do *)

\* A new attribute of a definition the collection knows of has a name and an id.
LEMMA NewTypeOK ==
  ASSUME TypeOK, NEW a \in Atts, NEW n \in Names, NEW d \in made, NEW i \in Ids,
         New(a, n, d, i), Index(a, n, d, i), UNCHANGED defVars
  PROVE  TypeOK'
<1> USE NilIsNothing, ConstantsOK
<1>1. d \in Defs /\ d # Nil /\ n # Nil /\ i # Nil
  BY DEF TypeOK
<1>2. UNCHANGED << made, base, definitions, derived >>
  BY DEF defVars
<1>3. /\ def' \in [Atts -> Defs \cup {Nil}]
      /\ name' \in [Atts -> Names \cup {Nil}]
      /\ id' \in [Atts -> Ids \cup {Nil}]
  BY <1>1 DEF TypeOK, New
<1>4. ASSUME NEW b \in Atts, def'[b] # Nil
      PROVE  def'[b] \in made /\ name'[b] # Nil /\ id'[b] # Nil
  BY <1>1, <1>4 DEF TypeOK, New, Exists
<1>5. /\ byName' \in [Names -> Atts \cup {Nil}]
      /\ byId' \in [Ids -> Atts \cup {Nil}]
      /\ clusters' \in [Types -> SUBSET Atts]
  BY <1>1 DEF TypeOK, Index
<1>6. QED
  BY <1>2, <1>3, <1>4, <1>5 DEF TypeOK, Exists

LEMMA NextTypeOK == TypeOK /\ [Next]_vars => TypeOK'
<1> SUFFICES ASSUME TypeOK, [Next]_vars PROVE TypeOK'
  OBVIOUS
<1> USE NilIsNothing, ConstantsOK
<1>1. ASSUME NEW d \in Defs, NEW b \in Defs \cup {Nil}, CreateDefinition(d, b)
      PROVE  TypeOK'
  <2>1. UNCHANGED << def, name, id, byName, byId, clusters >>
    BY <1>1 DEF CreateDefinition, objVars, indexVars
  <2>2. /\ made' = made \cup {d}
        /\ base' = [base EXCEPT ![d] = b]
        /\ definitions' = [definitions EXCEPT ![DefType[d]] = d]
        /\ derived' = IF b = Nil THEN derived ELSE [derived EXCEPT ![b] = @ \cup {d}]
    BY <1>1 DEF CreateDefinition, EnterBelow, Enter
  <2>3. /\ made' \subseteq Defs /\ base' \in [Defs -> Defs \cup {Nil}]
        /\ definitions' \in [Types -> made' \cup {Nil}]
        /\ \A t \in Types : definitions'[t] # Nil => DefType[definitions'[t]] = t
    BY <2>2 DEF TypeOK
  <2>4. derived' \in [Defs -> SUBSET Defs]
    BY <2>2 DEF TypeOK
  <2>5. QED
    BY <2>1, <2>2, <2>3, <2>4 DEF TypeOK, Exists
<1>2. ASSUME NEW d \in Defs, RemoveDefinition(d)
      PROVE  TypeOK'
  <2>1. UNCHANGED << made, base, def, name, id, byName, byId, clusters >>
    BY <1>2 DEF RemoveDefinition, objVars, indexVars
  <2>2. derived' \in [Defs -> SUBSET Defs]
    BY <1>2 DEF RemoveDefinition, TypeOK
  <2>3. /\ definitions' \in [Types -> made \cup {Nil}]
        /\ \A t \in Types : definitions'[t] # Nil => DefType[definitions'[t]] = t
    BY <1>2 DEF RemoveDefinition, TypeOK
  <2>4. QED
    BY <2>1, <2>2, <2>3 DEF TypeOK, Exists
<1>3. ASSUME NEW d \in Defs, ReleaseDefinition(d)
      PROVE  TypeOK'
  <2>1. UNCHANGED << definitions, derived, def, name, id, byName, byId, clusters >>
    BY <1>3 DEF ReleaseDefinition, objVars, indexVars
  <2>2. made' = made \ {d} /\ base' = [base EXCEPT ![d] = Nil]
    BY <1>3 DEF ReleaseDefinition
  <2>3. \A t \in Types : definitions[t] # d
    BY <1>3 DEF ReleaseDefinition, Registered, TypeOK
  <2>4. \A a \in Atts : def[a] # d
    BY <1>3 DEF ReleaseDefinition
  <2>5. QED
    BY <2>1, <2>2, <2>3, <2>4 DEF TypeOK, Exists
<1>4. ASSUME NEW a \in Atts, NEW n \in Names, NEW d \in Defs, CreateAttribute(a, n, d)
      PROVE  TypeOK'
  <2>1. PICK i \in Ids : New(a, n, d, i) /\ Index(a, n, d, i)
    BY <1>4 DEF CreateAttribute
  <2>2. d \in made /\ UNCHANGED defVars
    BY <1>4 DEF CreateAttribute, UsableDef
  <2>3. QED
    BY <2>1, <2>2, NewTypeOK
<1>5. ASSUME NEW a \in Atts, NEW d \in Defs, CreateUnique(a, d)
      PROVE  TypeOK'
  BY <1>4, <1>5 DEF CreateUnique
<1>6. ASSUME NEW a \in Atts, NEW n \in Names, NEW d \in Defs, NEW i \in Ids,
             ReadAttribute(a, n, d, i)
      PROVE  TypeOK'
  <2>1. d \in made
    BY <1>6 DEF ReadAttribute, Registered, TypeOK
  <2>2. QED
    BY <1>6, <2>1, NewTypeOK DEF ReadAttribute
<1>7. ASSUME NEW a \in Atts, RemoveAttribute(a)
      PROVE  TypeOK'
  BY <1>7 DEF RemoveAttribute, TypeOK, defVars, objVars, Exists
<1>8. ASSUME NEW a \in Atts, Release(a)
      PROVE  TypeOK'
  BY <1>8 DEF Release, TypeOK, defVars, indexVars, Exists
<1>9. ASSUME NEW a \in Atts, NEW n \in Names, Rename(a, n)
      PROVE  TypeOK'
  BY <1>9 DEF Rename, TypeOK, defVars, Exists
<1>10. CASE UNCHANGED vars
  BY <1>10 DEF vars, defVars, objVars, indexVars, TypeOK, Exists
<1>11. QED
  BY <1>1, <1>2, <1>3, <1>4, <1>5, <1>6, <1>7, <1>8, <1>9, <1>10 DEF Next
-----------------------------------------------------------------------------
(* The derivation tree *)

\* createDefinition: nothing derives yet from a type that is new, and the base
\* of a careful client is in the collection.
LEMMA CreateTreeClosed ==
  ASSUME Careful, TypeOK, TreeClosed,
         NEW d \in Defs, NEW b \in Defs \cup {Nil}, CreateDefinition(d, b)
  PROVE  TreeClosed'
<1> USE NilIsNothing, ConstantsOK
<1>1. /\ d \notin made /\ definitions[DefType[d]] = Nil
      /\ b = Nil \/ Registered(b)
      /\ base' = [base EXCEPT ![d] = b]
      /\ definitions' = [definitions EXCEPT ![DefType[d]] = d]
      /\ derived' = IF b = Nil THEN derived ELSE [derived EXCEPT ![b] = @ \cup {d}]
  BY DEF CreateDefinition, EnterBelow, Enter, UsableDef
<1>2. ~Registered(d) /\ d # Nil
  BY <1>1 DEF Registered
<1>3. \A c \in Defs : d \notin derived[c]
  BY <1>2 DEF TreeClosed
<1>4. derived[d] = {}
  <2>1. ASSUME NEW c \in derived[d]
        PROVE  FALSE
    <3>1. c \in Defs /\ Registered(c) /\ base[c] = d
      BY DEF TreeClosed, TypeOK
    <3>2. Registered(base[c])
      BY <1>2, <3>1 DEF TreeClosed
    <3>3. QED
      BY <1>2, <3>1, <3>2
  <2>2. QED
    BY <2>1
<1>5. \A c \in Defs : Registered(c)' <=> Registered(c) \/ c = d
  BY <1>1, <1>2 DEF Registered, TypeOK
<1>6. ASSUME NEW c \in Defs, Registered(c)', base'[c] # Nil
      PROVE  Registered(base[c])' /\ c \in derived'[base'[c]]
  <2>1. CASE c = d
    <3>1. base'[c] = b /\ b \in Defs
      BY <1>1, <1>6, <2>1 DEF TypeOK
    <3>2. c \in derived'[b]
      BY <1>1, <1>6, <2>1, <3>1 DEF TypeOK
    <3>3. QED
      BY <1>1, <1>5, <1>6, <3>1, <3>2
  <2>2. CASE c # d
    <3>1. base'[c] = base[c] /\ base[c] \in Defs /\ Registered(c)
      BY <1>1, <1>5, <1>6, <2>2 DEF TypeOK
    <3>2. Registered(base[c]) /\ c \in derived[base[c]]
      BY <1>6, <3>1 DEF TreeClosed
    <3>3. QED
      BY <1>1, <1>5, <3>1, <3>2 DEF TypeOK
  <2>3. QED
    BY <2>1, <2>2
<1>7. ASSUME NEW e \in Defs, NEW c \in derived'[e]
      PROVE  Registered(c)' /\ base'[c] = e
  <2>1. CASE c \in derived[e]
    <3>1. c \in Defs /\ Registered(c) /\ base[c] = e /\ c # d
      BY <1>3, <2>1 DEF TreeClosed, TypeOK
    <3>2. QED
      BY <1>1, <1>5, <3>1 DEF TypeOK
  <2>2. CASE c \notin derived[e]
    <3>1. c = d /\ e = b /\ b # Nil
      BY <1>1, <1>7, <2>2 DEF TypeOK
    <3>2. QED
      BY <1>1, <1>5, <3>1 DEF TypeOK
  <2>3. QED
    BY <2>1, <2>2
<1>8. QED
  BY <1>6, <1>7 DEF TreeClosed

\* removeDefinition: the removed definition is no base, and it leaves the list
\* of its own base.
LEMMA RemoveTreeClosed ==
  ASSUME Careful, TypeOK, TreeClosed, NEW d \in Defs, RemoveDefinition(d)
  PROVE  TreeClosed'
<1> USE NilIsNothing, ConstantsOK
<1>1. /\ Registered(d) /\ derived[d] = {} /\ base' = base
      /\ derived' = IF base[d] = Nil THEN derived ELSE [derived EXCEPT ![base[d]] = @ \ {d}]
      /\ definitions' = [definitions EXCEPT ![DefType[d]] = Nil]
  BY DEF RemoveDefinition, UsableDef
<1>2. \A c \in Defs : Registered(c)' <=> Registered(c) /\ c # d
  BY <1>1 DEF Registered, TypeOK
<1>3. \A e \in Defs : derived'[e] = derived[e] \ {d}
  <2>1. \A e \in Defs : d \in derived[e] => base[d] = e
    BY DEF TreeClosed
  <2>2. QED
    BY <1>1, <2>1 DEF TypeOK
<1>4. ASSUME NEW c \in Defs, Registered(c)', base'[c] # Nil
      PROVE  Registered(base[c])' /\ c \in derived'[base'[c]]
  <2>1. Registered(c) /\ c # d /\ base[c] \in Defs /\ base'[c] = base[c]
    BY <1>1, <1>2, <1>4 DEF TypeOK
  <2>2. Registered(base[c]) /\ c \in derived[base[c]]
    BY <1>1, <1>4, <2>1 DEF TreeClosed
  <2>3. base[c] # d
    BY <1>1, <2>2
  <2>4. QED
    BY <1>2, <1>3, <2>1, <2>2, <2>3
<1>5. ASSUME NEW e \in Defs, NEW c \in derived'[e]
      PROVE  Registered(c)' /\ base'[c] = e
  <2>1. e \in Defs /\ c \in Defs /\ c \in derived[e] /\ c # d
    BY <1>3, <1>5 DEF TypeOK
  <2>2. Registered(c) /\ base[c] = e
    BY <2>1 DEF TreeClosed
  <2>3. QED
    BY <1>1, <1>2, <2>1, <2>2
<1>6. QED
  BY <1>4, <1>5 DEF TreeClosed

\* A definition that goes away is not in the tree any more.
LEMMA ReleaseTreeClosed ==
  ASSUME TypeOK, TreeClosed, NEW d \in Defs, ReleaseDefinition(d)
  PROVE  TreeClosed'
<1>1. /\ ~Registered(d) /\ base' = [base EXCEPT ![d] = Nil]
      /\ derived' = derived /\ definitions' = definitions
  BY DEF ReleaseDefinition
<1>2. \A c \in Defs : Registered(c)' <=> Registered(c)
  BY <1>1 DEF Registered
<1>3. \A c \in Defs : c # d => base'[c] = base[c]
  BY <1>1 DEF TypeOK
<1>4. ASSUME NEW c \in Defs, Registered(c), base'[c] # Nil
      PROVE  Registered(base[c])' /\ c \in derived'[base'[c]]
  <2>1. c # d /\ base'[c] = base[c] /\ base[c] \in Defs
    BY <1>1, <1>3, <1>4 DEF TypeOK
  <2>2. QED
    BY <1>1, <1>2, <1>4, <2>1 DEF TreeClosed
<1>5. ASSUME NEW e \in Defs, NEW c \in derived[e]
      PROVE  Registered(c)' /\ base'[c] = e
  BY <1>1, <1>2, <1>3 DEF TreeClosed, TypeOK
<1>6. QED
  BY <1>1, <1>2, <1>4, <1>5 DEF TreeClosed

-----------------------------------------------------------------------------
(* The indices *)

\* What a lookup may rely on: the keys an attribute carries are in the domains.
LEMMA KeysOK ==
  ASSUME TypeOK, NEW a \in Atts, Exists(a)
  PROVE  /\ def[a] \in made /\ TypeOf(a) \in Types
         /\ name[a] \in Names /\ id[a] \in Ids
BY NilIsNothing, ConstantsOK DEF TypeOK, Exists, TypeOf

\* A new attribute under a name and an id nobody has.
LEMMA NewIndicesAgree ==
  ASSUME TypeOK, IndicesAgree,
         NEW a \in Atts, NEW n \in Names, NEW d \in made, NEW i \in Ids,
         byName[n] = Nil, byId[i] = Nil,
         New(a, n, d, i), Index(a, n, d, i)
  PROVE  IndicesAgree'
<1> USE NilIsNothing, ConstantsOK
<1>1. d \in Defs /\ d # Nil /\ DefType[d] \in Types
  BY DEF TypeOK
<1>2. /\ ~Exists(a) /\ ~Indexed(a)
      /\ def' = [def EXCEPT ![a] = d]
      /\ name' = [name EXCEPT ![a] = n]
      /\ id' = [id EXCEPT ![a] = i]
      /\ byName' = [byName EXCEPT ![n] = a]
      /\ byId' = [byId EXCEPT ![i] = a]
      /\ clusters' = [clusters EXCEPT ![DefType[d]] = @ \cup {a}]
  BY DEF New, Index
<1>3. /\ \A m \in Names : byName[m] # a
      /\ \A j \in Ids : byId[j] # a
      /\ \A t \in Types : a \notin clusters[t]
  BY <1>2 DEF Indexed
<1>4. /\ def'[a] = d /\ name'[a] = n /\ id'[a] = i
      /\ byName'[n] = a /\ byId'[i] = a /\ a \in clusters'[DefType[d]]
  BY <1>1, <1>2 DEF TypeOK
<1>5. /\ \A m \in Names : byName'[m] = a => m = n
      /\ \A j \in Ids : byId'[j] = a => j = i
      /\ \A t \in Types : a \in clusters'[t] => t = DefType[d]
  BY <1>1, <1>2, <1>3 DEF TypeOK
<1>6. ASSUME NEW b \in Atts, b # a
      PROVE  /\ def'[b] = def[b] /\ name'[b] = name[b] /\ id'[b] = id[b]
             /\ \A m \in Names : byName'[m] = b <=> byName[m] = b
             /\ \A j \in Ids : byId'[j] = b <=> byId[j] = b
             /\ \A t \in Types : b \in clusters'[t] <=> b \in clusters[t]
  BY <1>1, <1>2, <1>6 DEF TypeOK
<1>7. ASSUME NEW b \in Atts, b # a
      PROVE  /\ \A m \in Names : byName'[m] = b => /\ Exists(b)' /\ name'[b] = m
                    /\ byId'[id'[b]] = b /\ b \in clusters'[TypeOf(b)']
             /\ \A j \in Ids : byId'[j] = b => Exists(b)' /\ id'[b] = j /\ byName'[name'[b]] = b
             /\ \A t \in Types : b \in clusters'[t] =>
                    Exists(b)' /\ TypeOf(b)' = t /\ byName'[name'[b]] = b
  <2>1. (Exists(b)' <=> Exists(b)) /\ TypeOf(b)' = TypeOf(b)
    BY <1>6, <1>7 DEF Exists, TypeOf
  <2>2. /\ def'[b] = def[b] /\ name'[b] = name[b] /\ id'[b] = id[b]
        /\ \A m \in Names : byName'[m] = b <=> byName[m] = b
        /\ \A j \in Ids : byId'[j] = b <=> byId[j] = b
        /\ \A t \in Types : b \in clusters'[t] <=> b \in clusters[t]
    BY <1>6, <1>7
  <2>3. Exists(b) => name[b] \in Names /\ id[b] \in Ids /\ TypeOf(b) \in Types
    BY KeysOK
  <2>4. ASSUME NEW m \in Names, byName[m] = b
        PROVE  Exists(b) /\ name[b] = m /\ byId[id[b]] = b /\ b \in clusters[TypeOf(b)]
    BY <2>4 DEF IndicesAgree
  <2>5. ASSUME NEW j \in Ids, byId[j] = b
        PROVE  Exists(b) /\ id[b] = j /\ byName[name[b]] = b
    BY <2>5 DEF IndicesAgree
  <2>6. ASSUME NEW t \in Types, b \in clusters[t]
        PROVE  Exists(b) /\ TypeOf(b) = t /\ byName[name[b]] = b
    BY <2>6 DEF IndicesAgree
  <2>7. QED
    BY <2>1, <2>2, <2>3, <2>4, <2>5, <2>6
<1>8. Exists(a)' /\ TypeOf(a)' = DefType[d]
  BY <1>1, <1>4 DEF Exists, TypeOf
<1>9. QED
  BY <1>4, <1>5, <1>7, <1>8 DEF IndicesAgree

\* removeAttribute on an attribute that is there drops its three entries.
LEMMA RemoveIndicesAgree ==
  ASSUME Careful, TypeOK, IndicesAgree, NEW a \in Atts, RemoveAttribute(a)
  PROVE  IndicesAgree'
<1> USE NilIsNothing, ConstantsOK
<1>1. /\ Exists(a) /\ byName[name[a]] = a /\ byId[id[a]] = a
      /\ name[a] \in Names /\ id[a] \in Ids /\ TypeOf(a) \in Types
  BY KeysOK DEF RemoveAttribute, UsableAtt, IndicesAgree
<1>2. /\ byName' = [byName EXCEPT ![name[a]] = Nil]
      /\ byId' = [byId EXCEPT ![id[a]] = Nil]
      /\ clusters' = [clusters EXCEPT ![TypeOf(a)] = @ \ {a}]
      /\ UNCHANGED << def, name, id >>
  BY DEF RemoveAttribute, objVars
<1>3. ASSUME NEW b \in Atts
      PROVE  (Exists(b)' <=> Exists(b)) /\ TypeOf(b)' = TypeOf(b)
  BY <1>2 DEF Exists, TypeOf
<1>4. /\ \A m \in Names : byName'[m] # a
      /\ \A j \in Ids : byId'[j] # a
      /\ \A t \in Types : a \notin clusters'[t]
  BY <1>1, <1>2 DEF TypeOK, IndicesAgree
<1>5. ASSUME NEW b \in Atts, b # a
      PROVE  /\ \A m \in Names : byName'[m] = b <=> byName[m] = b
             /\ \A j \in Ids : byId'[j] = b <=> byId[j] = b
             /\ \A t \in Types : b \in clusters'[t] <=> b \in clusters[t]
  BY <1>1, <1>2, <1>5 DEF TypeOK
<1>6. QED
  BY <1>2, <1>3, <1>4, <1>5, KeysOK DEF IndicesAgree

\* rename moves the entry by name and nothing else.
LEMMA RenameIndicesAgree ==
  ASSUME Careful, TypeOK, IndicesAgree, NEW a \in Atts, NEW n \in Names, Rename(a, n)
  PROVE  IndicesAgree'
<1> USE NilIsNothing, ConstantsOK
<1>1. /\ Exists(a) /\ byName[name[a]] = a /\ byId[id[a]] = a /\ byName[n] = Nil
      /\ name[a] \in Names /\ id[a] \in Ids /\ a \in clusters[TypeOf(a)]
  BY KeysOK DEF Rename, UsableAtt, IndicesAgree
<1>2. /\ byName' = [byName EXCEPT ![name[a]] = Nil, ![n] = a]
      /\ name' = [name EXCEPT ![a] = n]
      /\ UNCHANGED << def, id, byId, clusters >>
  BY DEF Rename
<1>3. ASSUME NEW b \in Atts
      PROVE  (Exists(b)' <=> Exists(b)) /\ TypeOf(b)' = TypeOf(b)
  BY <1>2 DEF Exists, TypeOf
<1>4. /\ name'[a] = n /\ byName'[n] = a
      /\ \A m \in Names : byName'[m] = a => m = n
  BY <1>1, <1>2 DEF TypeOK, IndicesAgree
<1>5. ASSUME NEW b \in Atts, b # a
      PROVE  /\ name'[b] = name[b]
             /\ \A m \in Names : byName'[m] = b <=> byName[m] = b
  BY <1>1, <1>2, <1>5 DEF TypeOK
<1>6. ASSUME NEW b \in Atts
      PROVE  /\ \A m \in Names : byName'[m] = b => /\ Exists(b)' /\ name'[b] = m
                    /\ byId'[id'[b]] = b /\ b \in clusters'[TypeOf(b)']
             /\ \A j \in Ids : byId'[j] = b => Exists(b)' /\ id'[b] = j /\ byName'[name'[b]] = b
             /\ \A t \in Types : b \in clusters'[t] =>
                    Exists(b)' /\ TypeOf(b)' = t /\ byName'[name'[b]] = b
  <2>1. CASE b = a
    BY <1>1, <1>2, <1>3, <1>4, <2>1 DEF IndicesAgree
  <2>2. CASE b # a
    <3>1. ASSUME Exists(b)
          PROVE  /\ name[b] \in Names
                 /\ byName'[name'[b]] = b <=> byName[name[b]] = b
      BY <1>5, <2>2, <3>1, KeysOK
    <3>2. /\ \A m \in Names : byName[m] = b => /\ Exists(b) /\ name[b] = m
                /\ byId[id[b]] = b /\ b \in clusters[TypeOf(b)]
          /\ \A j \in Ids : byId[j] = b => Exists(b) /\ id[b] = j /\ byName[name[b]] = b
          /\ \A t \in Types : b \in clusters[t] =>
                Exists(b) /\ TypeOf(b) = t /\ byName[name[b]] = b
      BY DEF IndicesAgree
    <3>3. QED
      BY <1>2, <1>3, <1>5, <2>2, <3>1, <3>2
  <2>3. QED
    BY <2>1, <2>2
<1>7. QED
  BY <1>6 DEF IndicesAgree

\* The last pointer to an attribute no index holds.
LEMMA ReleaseIndicesAgree ==
  ASSUME TypeOK, IndicesAgree, NEW a \in Atts, Release(a)
  PROVE  IndicesAgree'
<1>1. /\ def' = [def EXCEPT ![a] = Nil]
      /\ name' = [name EXCEPT ![a] = Nil]
      /\ id' = [id EXCEPT ![a] = Nil]
      /\ UNCHANGED << byName, byId, clusters >>
      /\ ~Indexed(a)
  BY DEF Release, indexVars
<1>2. ASSUME NEW b \in Atts, b # a
      PROVE  /\ Exists(b)' <=> Exists(b)
             /\ TypeOf(b)' = TypeOf(b) /\ name'[b] = name[b] /\ id'[b] = id[b]
  BY <1>1, <1>2 DEF Exists, TypeOf, TypeOK
<1>3. QED
  BY <1>1, <1>2 DEF IndicesAgree, Indexed

-----------------------------------------------------------------------------
(* The clusters *)

\* Definitions that stay keep the attributes of the clusters known.
LEMMA StayKnown ==
  ASSUME TypeOK, IndicesAgree, ClustersKnown,
         UNCHANGED << objVars, indexVars >>,
         \A c \in Defs : Registered(c) /\ clusters[DefType[c]] # {} => Registered(c)'
  PROVE  ClustersKnown'
<1>1. ASSUME NEW t \in Types, NEW a \in clusters[t]
      PROVE  Registered(def[a])' /\ def[a] \notin Abstract
  <2>1. Registered(def[a]) /\ def[a] \notin Abstract
    BY DEF ClustersKnown
  <2>2. a \in Atts
    BY DEF TypeOK
  <2>3. DefType[def[a]] = t
    BY <2>2 DEF IndicesAgree, TypeOf
  <2>4. def[a] \in Defs /\ clusters[DefType[def[a]]] # {}
    BY <2>1, <2>3 DEF Registered
  <2>5. Registered(def[a])' <=> (def[a] \in Defs /\ definitions'[DefType[def[a]]] = def[a])
    BY DEF Registered, objVars
  <2>6. definitions'[DefType[def[a]]] = def[a]
    BY <2>1, <2>4 DEF Registered
  <2>7. QED
    BY <2>1, <2>4, <2>5, <2>6
<1>2. QED
  BY <1>1 DEF ClustersKnown, objVars, indexVars

\* A new attribute is of a definition in the collection that is not abstract.
LEMMA NewKnown ==
  ASSUME TypeOK, ClustersKnown, UNCHANGED defVars,
         NEW a \in Atts, NEW n \in Names, NEW d \in Defs, NEW i \in Ids,
         Registered(d), d \notin Abstract,
         New(a, n, d, i), Index(a, n, d, i)
  PROVE  ClustersKnown'
<1>1. /\ ~Indexed(a)
      /\ def' = [def EXCEPT ![a] = d]
      /\ clusters' = [clusters EXCEPT ![DefType[d]] = @ \cup {a}]
      /\ definitions' = definitions
  BY DEF New, Index, defVars
<1>2. ASSUME NEW t \in Types, NEW b \in clusters'[t]
      PROVE  Registered(def'[b]) /\ def'[b] \notin Abstract
  <2>1. CASE b = a
    BY <1>1, <2>1 DEF TypeOK
  <2>2. CASE b # a
    <3>1. b \in clusters[t]
      BY <1>1, <1>2, <2>2 DEF TypeOK
    <3>2. b \in Atts /\ def'[b] = def[b]
      BY <1>1, <2>2, <3>1 DEF TypeOK
    <3>3. QED
      BY <3>1, <3>2 DEF ClustersKnown
  <2>3. QED
    BY <2>1, <2>2
<1>3. \A c : Registered(c) => (c \in Defs /\ definitions'[DefType[c]] = c)
  BY <1>1 DEF Registered
<1>4. QED
  BY <1>2, <1>3 DEF ClustersKnown, Registered

\* Attributes that leave or are released do not matter to the clusters.
LEMMA LeaveKnown ==
  ASSUME TypeOK, ClustersKnown, UNCHANGED defVars, NEW a \in Atts,
         RemoveAttribute(a) \/ Release(a) \/ \E n \in Names : Rename(a, n)
  PROVE  ClustersKnown'
<1>1. ASSUME NEW t \in Types, NEW b \in clusters'[t]
      PROVE  b \in clusters[t] /\ def'[b] = def[b]
  <2>1. CASE RemoveAttribute(a)
    BY <1>1, <2>1 DEF RemoveAttribute, objVars, TypeOK
  <2>2. CASE Release(a)
    <3>1. clusters' = clusters /\ a \notin clusters[t] /\ def' = [def EXCEPT ![a] = Nil]
      BY <2>2 DEF Release, indexVars, Indexed
    <3>2. b # a /\ b \in Atts
      BY <1>1, <3>1 DEF TypeOK
    <3>3. QED
      BY <1>1, <3>1, <3>2 DEF TypeOK
  <2>3. CASE \E n \in Names : Rename(a, n)
    BY <1>1, <2>3 DEF Rename
  <2>4. QED
    BY <2>1, <2>2, <2>3
<1>2. definitions' = definitions
  BY DEF defVars
<1>3. QED
  BY <1>1, <1>2 DEF ClustersKnown, Registered

-----------------------------------------------------------------------------
(* Every step *)

LEMMA NextCollectionInv ==
  ASSUME Careful
  PROVE  CollectionInv /\ [Next]_vars => CollectionInv'
<1> SUFFICES ASSUME CollectionInv, [Next]_vars PROVE CollectionInv'
  OBVIOUS
<1>0. TypeOK /\ IndicesAgree /\ TreeClosed /\ ClustersKnown /\ TypeOK'
  BY NextTypeOK DEF CollectionInv
<1>1. ASSUME UNCHANGED defVars
      PROVE  TreeClosed'
  BY <1>0, <1>1 DEF defVars, TreeClosed, Registered
<1>2. ASSUME UNCHANGED << objVars, indexVars >>
      PROVE  IndicesAgree'
  BY <1>0, <1>2 DEF objVars, indexVars, IndicesAgree, Exists, TypeOf
<1>3. ASSUME NEW d \in Defs, NEW b \in Defs \cup {Nil}, CreateDefinition(d, b)
      PROVE  IndicesAgree' /\ TreeClosed' /\ ClustersKnown'
  <2>1. UNCHANGED << objVars, indexVars >>
    BY <1>3 DEF CreateDefinition
  <2>2. \A c \in Defs : Registered(c) => Registered(c)'
    BY <1>0, <1>3, NilIsNothing, ConstantsOK DEF CreateDefinition, EnterBelow, Enter, Registered, TypeOK
  <2>3. ClustersKnown'
    BY <1>0, <2>1, <2>2, StayKnown
  <2>4. QED
    BY <1>0, <1>2, <1>3, <2>1, <2>3, CreateTreeClosed
<1>4. ASSUME NEW d \in Defs, RemoveDefinition(d)
      PROVE  IndicesAgree' /\ TreeClosed' /\ ClustersKnown'
  <2>1. UNCHANGED << objVars, indexVars >>
    BY <1>4 DEF RemoveDefinition
  <2>2. clusters[DefType[d]] = {} /\ definitions' = [definitions EXCEPT ![DefType[d]] = Nil]
    BY <1>4 DEF RemoveDefinition
  <2>3. \A c \in Defs : Registered(c) /\ clusters[DefType[c]] # {} => Registered(c)'
    BY <1>0, <2>2, ConstantsOK DEF Registered, TypeOK
  <2>4. ClustersKnown'
    BY <1>0, <2>1, <2>3, StayKnown
  <2>5. QED
    BY <1>0, <1>2, <1>4, <2>1, <2>4, RemoveTreeClosed
<1>5. ASSUME NEW d \in Defs, ReleaseDefinition(d)
      PROVE  IndicesAgree' /\ TreeClosed' /\ ClustersKnown'
  <2>1. UNCHANGED << objVars, indexVars >>
    BY <1>5 DEF ReleaseDefinition
  <2>2. \A c \in Defs : Registered(c) => Registered(c)'
    BY <1>5 DEF ReleaseDefinition, Registered
  <2>3. ClustersKnown'
    BY <1>0, <2>1, <2>2, StayKnown
  <2>4. QED
    BY <1>0, <1>2, <1>5, <2>1, <2>3, ReleaseTreeClosed
<1>6. ASSUME NEW a \in Atts, NEW n \in Names, NEW d \in Defs, CreateAttribute(a, n, d)
      PROVE  IndicesAgree' /\ TreeClosed' /\ ClustersKnown'
  <2>1. PICK i \in Ids : /\ \A b \in Atts : Exists(b) => id[b] # i
                         /\ New(a, n, d, i) /\ Index(a, n, d, i)
    BY <1>6 DEF CreateAttribute
  <2>2. d \in made /\ byName[n] = Nil /\ UNCHANGED defVars
    BY <1>6 DEF CreateAttribute, UsableDef
  <2>3. byId[i] = Nil
    BY <1>0, <2>1 DEF IndicesAgree, TypeOK
  <2>4. IndicesAgree'
    BY <1>0, <2>1, <2>2, <2>3, NewIndicesAgree
  <2>5. Registered(d) /\ d \notin Abstract
    BY <1>6 DEF CreateAttribute, UsableDef
  <2>6. ClustersKnown'
    BY <1>0, <2>1, <2>2, <2>5, NewKnown
  <2>7. QED
    BY <1>1, <2>2, <2>4, <2>6
<1>7. ASSUME NEW a \in Atts, NEW d \in Defs, CreateUnique(a, d)
      PROVE  IndicesAgree' /\ TreeClosed' /\ ClustersKnown'
  BY <1>6, <1>7 DEF CreateUnique
<1>8. ASSUME NEW a \in Atts, NEW n \in Names, NEW d \in Defs, NEW i \in Ids,
             ReadAttribute(a, n, d, i)
      PROVE  IndicesAgree' /\ TreeClosed' /\ ClustersKnown'
  <2>1. /\ byName[n] = Nil /\ byId[i] = Nil /\ UNCHANGED defVars
        /\ New(a, n, d, i) /\ Index(a, n, d, i)
    BY <1>8 DEF ReadAttribute
  <2>2. d \in made
    BY <1>0, <1>8, NilIsNothing, ConstantsOK DEF ReadAttribute, Registered, TypeOK
  <2>3. IndicesAgree'
    BY <1>0, <2>1, <2>2, NewIndicesAgree
  <2>4. ClustersKnown'
    BY <1>0, <1>8, <2>1, NewKnown DEF ReadAttribute
  <2>5. QED
    BY <1>1, <2>1, <2>3, <2>4
<1>9. ASSUME NEW a \in Atts, RemoveAttribute(a) \/ Release(a)
      PROVE  IndicesAgree' /\ TreeClosed' /\ ClustersKnown'
  <2>1. UNCHANGED defVars
    BY <1>9 DEF RemoveAttribute, Release
  <2>2. ClustersKnown'
    BY <1>0, <1>9, <2>1, LeaveKnown
  <2>3. QED
    BY <1>0, <1>1, <1>9, <2>1, <2>2, RemoveIndicesAgree, ReleaseIndicesAgree
<1>10. ASSUME NEW a \in Atts, NEW n \in Names, Rename(a, n)
      PROVE  IndicesAgree' /\ TreeClosed' /\ ClustersKnown'
  <2>1. UNCHANGED defVars
    BY <1>10 DEF Rename
  <2>2. ClustersKnown'
    BY <1>0, <1>10, <2>1, LeaveKnown
  <2>3. QED
    BY <1>0, <1>1, <1>10, <2>1, <2>2, RenameIndicesAgree
<1>11. ASSUME UNCHANGED vars
       PROVE  IndicesAgree' /\ TreeClosed' /\ ClustersKnown'
  <2>1. UNCHANGED defVars /\ UNCHANGED << objVars, indexVars >>
    BY <1>11 DEF vars, defVars, objVars, indexVars
  <2>2. \A c \in Defs : Registered(c) => Registered(c)'
    BY <2>1 DEF defVars, Registered
  <2>3. ClustersKnown'
    BY <1>0, <2>1, <2>2, StayKnown
  <2>4. QED
    BY <1>1, <1>2, <2>1, <2>3
<1>12. IndicesAgree' /\ TreeClosed' /\ ClustersKnown'
  BY <1>3, <1>4, <1>5, <1>6, <1>7, <1>8, <1>9, <1>10, <1>11 DEF Next
<1>13. QED
  BY <1>0, <1>12 DEF CollectionInv

LEMMA InitCollectionInv == Init => CollectionInv
<1> SUFFICES ASSUME Init PROVE CollectionInv
  OBVIOUS
<1> USE NilIsNothing, ConstantsOK
<1>1. TypeOK
  BY DEF Init, TypeOK, Exists
<1>2. IndicesAgree
  BY DEF Init, IndicesAgree
<1>3. TreeClosed
  <2>1. \A d \in Defs : ~Registered(d) /\ derived[d] = {}
    BY DEF Init, Registered
  <2>2. QED
    BY <2>1 DEF TreeClosed
<1>4. ClustersKnown
  BY DEF Init, ClustersKnown
<1>5. QED
  BY <1>1, <1>2, <1>3, <1>4 DEF CollectionInv

-----------------------------------------------------------------------------
(* Lookups down the tree *)

Depth == Cardinality(Defs)

LEMMA DepthNat == Depth \in Nat
BY DefsFinite, FS_CardinalityType DEF Depth

\* Found, unfolded.
LEMMA FoundSteps ==
  ASSUME TypeOK, NEW k \in 0 .. Depth, NEW d \in Defs
  PROVE  Found[k][d] = OwnAtts(d) \cup (IF k = 0 THEN {} ELSE UNION {Found[k-1][c] : c \in derived[d]})
<1> DEFINE T == [Defs -> SUBSET Atts]
           first == [e \in Defs |-> OwnAtts(e)]
           F == [g \in T |-> [e \in Defs |-> OwnAtts(e) \cup UNION {g[c] : c \in derived[e]}]]
           Body(f) == [j \in 0 .. Depth |->
                        [e \in Defs |->
                          OwnAtts(e) \cup (IF j = 0 THEN {} ELSE UNION {f[j-1][c] : c \in derived[e]})]]
<1>1. \A e \in Defs : OwnAtts(e) \subseteq Atts /\ derived[e] \subseteq Defs
  BY ConstantsOK DEF TypeOK, OwnAtts
<1>2. first \in T
  BY <1>1
<1>3. ASSUME NEW g \in T
      PROVE  [e \in Defs |-> OwnAtts(e) \cup UNION {g[c] : c \in derived[e]}] \in T
  <2>1. ASSUME NEW e \in Defs
        PROVE  OwnAtts(e) \cup UNION {g[c] : c \in derived[e]} \subseteq Atts
    BY <1>1
  <2>2. QED
    BY <2>1
<1>4. F \in StepsOn(T)
  BY <1>3 DEF StepsOn
<1>5. PICK h : AreSteps(h, Depth, T, first, F)
  <2> HIDE DEF T, first, F, Body
  <2>1. QED
    BY <1>2, <1>4, DepthNat, StepsExist
<1> USE DEF AreSteps
<1>6. ASSUME NEW j \in 0 .. Depth
      PROVE  h[j] = Body(h)[j]
  <2>1. CASE j = 0
    <3>1. Body(h)[0] = [e \in Defs |-> OwnAtts(e) \cup {}]
      BY DepthNat
    <3>2. QED
      BY <1>5, <2>1, <3>1
  <2>2. CASE j # 0
    <3>1. j \in 1 .. Depth /\ j - 1 \in 0 .. Depth
      BY <2>2, DepthNat
    <3>2. h[j] = F[h[j-1]] /\ h[j-1] \in T
      BY <1>5, <3>1
    <3>3. F[h[j-1]] = [e \in Defs |-> OwnAtts(e) \cup UNION {h[j-1][c] : c \in derived[e]}]
      BY <3>2
    <3>4. QED
      BY <2>2, <3>2, <3>3
  <2>3. QED
    BY <2>1, <2>2
<1>7. h = Body(h)
  <2>1. h = [j \in 0 .. Depth |-> h[j]]
    BY <1>5
  <2>2. QED
    BY <1>6, <2>1
<1>8. Found = CHOOSE f : f = Body(f)
  BY DEF Found, Depth
<1>9. Found = Body(Found)
  <2> HIDE DEF Body
  <2>1. QED
    BY <1>7, <1>8
<1>10. QED
  <2>1. Found[k] = Body(Found)[k]
    BY <1>9
  <2>2. QED
    BY <2>1

\* What lookups find are attributes.
LEMMA FoundType ==
  ASSUME TypeOK, NEW k \in 0 .. Depth, NEW d \in Defs
  PROVE  Found[k][d] \subseteq Atts
<1> DEFINE G == {j \in 0 .. Depth : \A e \in Defs : Found[j][e] \subseteq Atts}
<1>0. \A e \in Defs : OwnAtts(e) \subseteq Atts /\ derived[e] \subseteq Defs
  BY ConstantsOK DEF TypeOK, OwnAtts
<1>1. 0 \in G
  <2>1. 0 \in 0 .. Depth
    BY DepthNat
  <2>2. \A e \in Defs : Found[0][e] = OwnAtts(e)
    BY <2>1, FoundSteps
  <2>3. QED
    BY <1>0, <2>1, <2>2
<1>2. ASSUME NEW j \in Nat, j < Depth, j \in G PROVE j + 1 \in G
  <2>1. j + 1 \in 0 .. Depth /\ j + 1 # 0 /\ (j + 1) - 1 = j
    BY <1>2, DepthNat
  <2>2. \A e \in Defs : Found[j+1][e] = OwnAtts(e) \cup UNION {Found[j][c] : c \in derived[e]}
    BY <2>1, FoundSteps
  <2>3. ASSUME NEW e \in Defs PROVE Found[j+1][e] \subseteq Atts
    <3>1. \A c \in derived[e] : Found[j][c] \subseteq Atts
      BY <1>0, <1>2
    <3>2. QED
      BY <1>0, <2>2, <3>1
  <2>4. QED
    BY <2>1, <2>3
<1>3. 0 .. Depth \subseteq G
  <2> HIDE DEF G
  <2>1. QED
    BY <1>1, <1>2, DepthNat, UpTo
<1>4. QED
  BY <1>3

\* Climb, unfolded.
LEMMA ClimbSteps ==
  ASSUME TypeOK, NEW k \in 0 .. Depth, NEW d \in Defs
  PROVE  Climb[k][d] = {d} \cup (IF k = 0 \/ base[d] = Nil THEN {} ELSE Climb[k-1][base[d]])
<1> DEFINE T == [Defs -> SUBSET Defs]
           first == [e \in Defs |-> {e}]
           F == [g \in T |-> [e \in Defs |-> {e} \cup (IF base[e] = Nil THEN {} ELSE g[base[e]])]]
           Body(f) == [j \in 0 .. Depth |->
                        [e \in Defs |->
                          {e} \cup (IF j = 0 \/ base[e] = Nil THEN {} ELSE f[j-1][base[e]])]]
<1>1. \A e \in Defs : base[e] # Nil => base[e] \in Defs
  BY DEF TypeOK
<1>2. first \in T
  OBVIOUS
<1>3. ASSUME NEW g \in T
      PROVE  [e \in Defs |-> {e} \cup (IF base[e] = Nil THEN {} ELSE g[base[e]])] \in T
  <2>1. ASSUME NEW e \in Defs
        PROVE  {e} \cup (IF base[e] = Nil THEN {} ELSE g[base[e]]) \subseteq Defs
    BY <1>1
  <2>2. QED
    BY <2>1
<1>4. F \in StepsOn(T)
  BY <1>3 DEF StepsOn
<1>5. PICK h : AreSteps(h, Depth, T, first, F)
  <2> HIDE DEF T, first, F, Body
  <2>1. QED
    BY <1>2, <1>4, DepthNat, StepsExist
<1> USE DEF AreSteps
<1>6. ASSUME NEW j \in 0 .. Depth
      PROVE  h[j] = Body(h)[j]
  <2>1. CASE j = 0
    BY <1>5, <2>1, DepthNat
  <2>2. CASE j # 0
    <3>1. j \in 1 .. Depth /\ j - 1 \in 0 .. Depth
      BY <2>2, DepthNat
    <3>2. h[j] = F[h[j-1]] /\ h[j-1] \in T
      BY <1>5, <3>1
    <3>3. F[h[j-1]] = [e \in Defs |-> {e} \cup (IF base[e] = Nil THEN {} ELSE h[j-1][base[e]])]
      BY <3>2
    <3>4. QED
      BY <2>2, <3>2, <3>3
  <2>3. QED
    BY <2>1, <2>2
<1>7. h = Body(h)
  <2>1. h = [j \in 0 .. Depth |-> h[j]]
    BY <1>5
  <2>2. QED
    BY <1>6, <2>1
<1>8. Climb = CHOOSE f : f = Body(f)
  BY DEF Climb, Depth
<1>9. Climb = Body(Climb)
  <2> HIDE DEF Body
  <2>1. QED
    BY <1>7, <1>8
<1>10. QED
  <2>1. Climb[k] = Body(Climb)[k]
    BY <1>9
  <2>2. QED
    BY <2>1

\* Whoever climbs from a definition of the collection stays in the collection.
LEMMA ClimbRegistered ==
  ASSUME TypeOK, TreeClosed, NEW k \in 0 .. Depth, NEW c \in Defs, Registered(c)
  PROVE  \A e \in Climb[k][c] : Registered(e)
<1> DEFINE G == {j \in 0 .. Depth :
                   \A b \in Defs : Registered(b) => \A e \in Climb[j][b] : Registered(e)}
<1>1. 0 \in G
  <2>1. \A b \in Defs : Climb[0][b] = {b}
    BY ClimbSteps, DepthNat
  <2>2. QED
    BY <2>1, DepthNat
<1>2. ASSUME NEW j \in Nat, j < Depth, j \in G PROVE j + 1 \in G
  <2>1. j + 1 \in 0 .. Depth /\ j + 1 # 0 /\ (j + 1) - 1 = j
    BY <1>2, DepthNat
  <2>2. ASSUME NEW b \in Defs, Registered(b), NEW e \in Climb[j+1][b]
        PROVE  Registered(e)
    <3>1. e = b \/ (base[b] # Nil /\ e \in Climb[j][base[b]])
      BY <2>1, <2>2, ClimbSteps
    <3>2. CASE e = b
      BY <2>2, <3>2
    <3>3. CASE base[b] # Nil /\ e \in Climb[j][base[b]]
      <4>1. base[b] \in Defs /\ Registered(base[b])
        BY <2>2, <3>3 DEF TreeClosed, TypeOK
      <4>2. QED
        BY <1>2, <3>3, <4>1
    <3>4. QED
      BY <3>1, <3>2, <3>3
  <2>3. QED
    BY <2>1, <2>2
<1>3. 0 .. Depth \subseteq G
  <2> HIDE DEF G
  <2>1. QED
    BY <1>1, <1>2, DepthNat, UpTo
<1>4. QED
  BY <1>3

\* The last step of a climb: to the base of what one step less reaches.
LEMMA ClimbLast ==
  ASSUME TypeOK, NEW k \in Nat, k < Depth, NEW c \in Defs, NEW d \in Defs
  PROVE  d \in Climb[k+1][c] <=> d = c \/ \E e \in Climb[k][c] : base[e] = d
<1> DEFINE Far(j, b) == d \in Climb[j+1][b] <=> d = b \/ \E e \in Climb[j][b] : base[e] = d
           G == {j \in 0 .. k : \A b \in Defs : Far(j, b)}
<1>0. \A j \in 0 .. k : j \in 0 .. Depth /\ j + 1 \in 0 .. Depth /\ j + 1 # 0 /\ (j + 1) - 1 = j
  BY DepthNat
<1>1. \A b \in Defs : base[b] = Nil \/ base[b] \in Defs
  BY DEF TypeOK
<1>2. d # Nil
  BY NilIsNothing
<1>3. 0 \in G
  <2>1. ASSUME NEW b \in Defs PROVE Far(0, b)
    <3>1. Climb[0][b] = {b}
      BY ClimbSteps, <1>0
    <3>2. base[b] # Nil => Climb[0][base[b]] = {base[b]}
      BY ClimbSteps, <1>0, <1>1
    <3>3. Climb[0+1][b] = {b} \cup (IF base[b] = Nil THEN {} ELSE Climb[0][base[b]])
      BY ClimbSteps, <1>0
    <3>4. QED
      BY <1>2, <3>1, <3>2, <3>3
  <2>2. QED
    BY <2>1
<1>4. ASSUME NEW j \in Nat, j < k, j \in G PROVE j + 1 \in G
  <2>1. j \in 0 .. k /\ j + 1 \in 0 .. k
    BY <1>4
  <2>2. ASSUME NEW b \in Defs PROVE Far(j + 1, b)
    <3>1. Climb[(j+1)+1][b] = {b} \cup (IF base[b] = Nil THEN {} ELSE Climb[j+1][base[b]])
      BY ClimbSteps, <1>0, <2>1
    <3>2. Climb[j+1][b] = {b} \cup (IF base[b] = Nil THEN {} ELSE Climb[j][base[b]])
      BY ClimbSteps, <1>0, <2>1
    <3>3. base[b] # Nil => Far(j, base[b])
      BY <1>1, <1>4
    <3>4. QED
      BY <1>2, <3>1, <3>2, <3>3
  <2>3. QED
    BY <2>1, <2>2
<1>5. 0 .. k \subseteq G
  <2> HIDE DEF G
  <2>1. QED
    BY <1>3, <1>4, UpTo
<1>6. QED
  BY <1>5

\* Down the tree in k steps are the definitions that climb in k steps.
LEMMA FoundClimbs ==
  ASSUME TypeOK, TreeClosed, NEW k \in 0 .. Depth, NEW d \in Defs, Registered(d), NEW a \in Atts
  PROVE  a \in Found[k][d] <=>
           \E c \in Defs : Registered(c) /\ d \in Climb[k][c] /\ a \in OwnAtts(c)
<1> DEFINE Below(j, e) == a \in Found[j][e] <=>
             \E c \in Defs : Registered(c) /\ e \in Climb[j][c] /\ a \in OwnAtts(c)
           G == {j \in 0 .. Depth : \A e \in Defs : Registered(e) => Below(j, e)}
<1>1. 0 \in G
  <2>1. ASSUME NEW e \in Defs, Registered(e) PROVE Below(0, e)
    <3>1. Found[0][e] = OwnAtts(e)
      <4>1. 0 \in 0 .. Depth
        BY DepthNat
      <4>2. QED
        BY <4>1, FoundSteps
    <3>2. \A c \in Defs : Climb[0][c] = {c}
      BY ClimbSteps, DepthNat
    <3>3. QED
      BY <2>1, <3>1, <3>2
  <2>2. QED
    BY <2>1, DepthNat
<1>2. ASSUME NEW j \in Nat, j < Depth, j \in G PROVE j + 1 \in G
  <2>1. j \in 0 .. Depth /\ j + 1 \in 0 .. Depth /\ j + 1 # 0 /\ (j + 1) - 1 = j
    BY <1>2, DepthNat
  <2>2. ASSUME NEW e \in Defs, Registered(e) PROVE Below(j + 1, e)
    <3>1. Found[j+1][e] = OwnAtts(e) \cup UNION {Found[j][c] : c \in derived[e]}
      BY <2>1, FoundSteps
    <3>2. \A b \in derived[e] : b \in Defs /\ Registered(b) /\ base[b] = e
      BY DEF TreeClosed, TypeOK
    <3>3. \A b \in derived[e] : Below(j, b)
      BY <1>2, <3>2
    <3>4. \A c \in Defs : e \in Climb[j+1][c] <=> e = c \/ \E b \in Climb[j][c] : base[b] = e
      BY <1>2, ClimbLast
    <3>5. ASSUME a \in Found[j+1][e]
          PROVE  \E c \in Defs : Registered(c) /\ e \in Climb[j+1][c] /\ a \in OwnAtts(c)
      <4>1. CASE a \in OwnAtts(e)
        BY <2>2, <3>4, <4>1
      <4>2. CASE a \notin OwnAtts(e)
        <5>1. PICK b \in derived[e] : a \in Found[j][b]
          BY <3>1, <3>5, <4>2
        <5>2. PICK c \in Defs : Registered(c) /\ b \in Climb[j][c] /\ a \in OwnAtts(c)
          BY <3>3, <5>1
        <5>3. e \in Climb[j+1][c]
          BY <3>2, <3>4, <5>2
        <5>4. QED
          BY <5>2, <5>3
      <4>3. QED
        BY <4>1, <4>2
    <3>6. ASSUME NEW c \in Defs, Registered(c), e \in Climb[j+1][c], a \in OwnAtts(c)
          PROVE  a \in Found[j+1][e]
      <4>1. CASE e = c
        BY <3>1, <3>6, <4>1
      <4>2. CASE e # c
        <5>1. PICK b \in Climb[j][c] : base[b] = e
          BY <3>4, <3>6, <4>2
        <5>2. Registered(b)
          BY <2>1, <3>6, <5>1, ClimbRegistered
        <5>3. b \in Defs /\ e # Nil
          BY <5>2, NilIsNothing DEF Registered
        <5>4. b \in derived[e]
          BY <5>1, <5>2, <5>3 DEF TreeClosed
        <5>5. a \in Found[j][b]
          BY <3>3, <3>6, <5>1, <5>4
        <5>6. QED
          BY <3>1, <5>4, <5>5
      <4>3. QED
        BY <4>1, <4>2
    <3>7. QED
      BY <3>5, <3>6
  <2>3. QED
    BY <2>1, <2>2
<1>3. 0 .. Depth \subseteq G
  <2> HIDE DEF G
  <2>1. QED
    BY <1>1, <1>2, DepthNat, UpTo
<1>4. QED
  BY <1>3

\* What a lookup needs to be exact.
LEMMA LookupExact ==
  ASSUME CollectionInv
  PROVE  FindsExactly
<1> SUFFICES ASSUME NEW d \in Defs, Registered(d)
             PROVE  FindAttributes(d) =
                      {a \in Atts : (\E n \in Names : byName[n] = a) /\ d \in Bases[def[a]]}
  BY DEF FindsExactly
<1> USE DEF CollectionInv
<1>1. Depth \in 0 .. Depth
  BY DepthNat
<1>2. ASSUME NEW a \in Atts
      PROVE  a \in FindAttributes(d) <=> (\E n \in Names : byName[n] = a) /\ d \in Bases[def[a]]
  <2>1. a \in FindAttributes(d) <=>
          \E c \in Defs : Registered(c) /\ d \in Bases[c] /\ a \in OwnAtts(c)
    BY <1>1, FoundClimbs DEF FindAttributes, Bases, Depth
  <2>2. ASSUME NEW c \in Defs, Registered(c), d \in Bases[c], a \in OwnAtts(c)
        PROVE  (\E n \in Names : byName[n] = a) /\ d \in Bases[def[a]]
    <3>1. DefType[c] \in Types /\ a \in clusters[DefType[c]]
      BY <2>2, ConstantsOK DEF OwnAtts
    <3>2. Exists(a) /\ DefType[def[a]] = DefType[c] /\ byName[name[a]] = a
      BY <3>1 DEF IndicesAgree, TypeOf
    <3>3. Registered(def[a])
      BY <3>1 DEF ClustersKnown
    <3>4. def[a] = c
      BY <2>2, <3>2, <3>3 DEF Registered
    <3>5. name[a] \in Names
      BY <3>2, KeysOK
    <3>6. QED
      BY <2>2, <3>2, <3>4, <3>5
  <2>3. ASSUME NEW n \in Names, byName[n] = a, d \in Bases[def[a]]
        PROVE  \E c \in Defs : Registered(c) /\ d \in Bases[c] /\ a \in OwnAtts(c)
    <3>1. Exists(a) /\ a \in clusters[TypeOf(a)] /\ TypeOf(a) \in Types
      BY <2>3, KeysOK DEF IndicesAgree
    <3>2. Registered(def[a]) /\ def[a] \notin Abstract
      BY <3>1 DEF ClustersKnown
    <3>3. def[a] \in Defs /\ a \in OwnAtts(def[a])
      BY <3>1, <3>2 DEF OwnAtts, TypeOf, Registered
    <3>4. QED
      BY <2>3, <3>2, <3>3
  <2>4. QED
    BY <2>1, <2>2, <2>3
<1>3. FindAttributes(d) \subseteq Atts
  BY <1>1, FoundType DEF FindAttributes, Depth
<1>4. QED
  BY <1>2, <1>3

-----------------------------------------------------------------------------
(* The theorems *)

\* Every call leaves the collection well typed, also those of clients that use
\* removed attributes and definitions: whatever an index holds exists, and its
\* definition is one that was created (Collection.cxx, all operations).
THEOREM CollectionTypeOK == Spec => []TypeOK
<1>1. Init => TypeOK
  BY InitCollectionInv DEF CollectionInv
<1>2. QED
  BY <1>1, NextTypeOK, PTL DEF Spec

\* However attributes are created, read, renamed and removed, the indices by
\* name, by id and by type hold the same attributes under the keys they carry,
\* for clients that leave alone what was removed and read no id twice
\* (Collection::createAttribute, rename, removeAttribute).
THEOREM IndicesSafe ==
  ASSUME Careful
  PROVE  Spec => []IndicesAgree
<1>1. CollectionInv /\ [Next]_vars => CollectionInv'
  BY NextCollectionInv
<1>2. CollectionInv => IndicesAgree
  BY DEF CollectionInv
<1>3. QED
  BY <1>1, <1>2, InitCollectionInv, PTL DEF Spec

\* Under the same assumption the derivation tree never refers to a definition
\* that is gone, so that lookups down the tree meet no expired pointer
\* (Collection::createDefinition, removeDefinition, internalFindAttributes).
THEOREM TreeSafe ==
  ASSUME Careful
  PROVE  Spec => []TreeClosed
<1>1. CollectionInv /\ [Next]_vars => CollectionInv'
  BY NextCollectionInv
<1>2. CollectionInv => TreeClosed
  BY DEF CollectionInv
<1>3. QED
  BY <1>1, <1>2, InitCollectionInv, PTL DEF Spec

\* Under the same assumption findAttributes, which gathers down the derivation
\* tree, finds exactly the attributes that are of the definition or of one
\* derived from it, as isA has it, also where definitions were removed and
\* their types came back (Collection::internalFindAttributes, Definition::isA).
THEOREM LookupSafe ==
  ASSUME Careful
  PROVE  Spec => []FindsExactly
<1>1. CollectionInv /\ [Next]_vars => CollectionInv'
  BY NextCollectionInv
<1>2. CollectionInv => FindsExactly
  BY LookupExact
<1>3. QED
  BY <1>1, <1>2, InitCollectionInv, PTL DEF Spec

-----------------------------------------------------------------------------
(* References                                                                *)

Slots == Attributes \cup {Null}

\* Items that are not there refer to nothing, and those of an attribute are
\* there only as long as it is.
LifeTimes ==
  /\ \A i \in Items : i \notin exists => values[i] = << >>
  /\ \A i \in exists : Owner[i] # Null => Owner[i] \in alive
  /\ \A i \in Items : \A p \in DOMAIN values[i] : values[i][p] \in alive \cup {Null}

RefInv == RefTypeOK /\ EndsAgree /\ AssertionsHold /\ LifeTimes

-----------------------------------------------------------------------------
(* Sequences *)

\* A function on an initial segment of the naturals is a sequence.
LEMMA TableIsSeq ==
  ASSUME NEW S, NEW n \in Nat, NEW f, f \in [1 .. n -> S]
  PROVE  f \in Seq(S) /\ Len(f) = n /\ DOMAIN f = 1 .. n
OBVIOUS

-----------------------------------------------------------------------------
(* What an action may take for granted, and what it has to show *)

Lists == [Attributes -> [Items -> SUBSET (Nat \ {0})]]

\* What holds of an item that is there.
Good(i) ==
  /\ i \in Items /\ alive \subseteq Attributes /\ exists \subseteq Items
  /\ values \in [Items -> Seq(Slots)] /\ values[i] \in Seq(Slots)
  /\ DOMAIN values[i] = 1 .. Len(values[i]) /\ Len(values[i]) \in Nat
  /\ refs \in Lists
  /\ \A a \in Attributes : \A p : p \in refs[a][i] <=> p \in DOMAIN values[i] /\ values[i][p] = a
  /\ \A p \in DOMAIN values[i] : values[i][p] \in alive \cup {Null}
  /\ (Owner[i] # Null => Owner[i] \in alive)
  /\ Null \notin Attributes
  /\ broken \in BOOLEAN /\ ~broken

LEMMA ItemFacts ==
  ASSUME RefInv, NEW i \in exists
  PROVE  Good(i)
<1>1. values \in [Items -> Seq(Slots)] /\ i \in Items
  BY DEF RefInv, RefTypeOK, Slots
<1>2. values[i] \in Seq(Slots)
  BY <1>1
<1>3. DOMAIN values[i] = 1 .. Len(values[i]) /\ Len(values[i]) \in Nat
  BY <1>2, LenProperties
<1>4. \A a \in Attributes : \A p : p \in refs[a][i] <=> p \in DOMAIN values[i] /\ values[i][p] = a
  BY <1>1 DEF RefInv, EndsAgree
<1>5. /\ alive \subseteq Attributes /\ exists \subseteq Items /\ refs \in Lists
      /\ broken \in BOOLEAN /\ ~broken
  BY DEF RefInv, RefTypeOK, AssertionsHold, Lists
<1>6. /\ \A p \in DOMAIN values[i] : values[i][p] \in alive \cup {Null}
      /\ (Owner[i] # Null => Owner[i] \in alive)
  BY <1>1 DEF RefInv, LifeTimes
<1>7. QED
  BY <1>1, <1>2, <1>3, <1>4, <1>5, <1>6, RefConstantsOK DEF Good

\* The new values of an item, and what attributes have of it then.
NewValues(i, n) ==
  /\ DOMAIN values' = Items /\ \A j \in Items : j # i => values'[j] = values[j]
  /\ values' = [j \in Items |-> values'[j]]
  /\ values'[i] \in Seq(Slots) /\ DOMAIN values'[i] = 1 .. n
  /\ \A p \in 1 .. n : values'[i][p] \in alive \cup {Null}

NewLists(i) ==
  /\ refs' \in Lists
  /\ \A a \in Attributes : \A j \in Items : j # i => refs'[a][j] = refs[a][j]
  /\ \A a \in Attributes : \A p : p \in refs'[a][i] <=> p \in DOMAIN values'[i] /\ values'[i][p] = a

\* A call on one item: the item changes to values of the attributes there are,
\* and the attributes have of it what it holds.
LEMMA ItemChanges ==
  ASSUME RefInv, NEW i \in Items, NEW n, NewValues(i, n), NewLists(i),
         alive' = alive, broken' = broken, exists' \subseteq Items,
         \A j \in Items : j # i => (j \in exists' <=> j \in exists),
         i \in exists' => (Owner[i] # Null => Owner[i] \in alive),
         i \notin exists' => values'[i] = << >>
  PROVE  RefInv'
<1>1. RefTypeOK'
  <2>1. alive' \subseteq Attributes /\ broken' \in BOOLEAN
    BY DEF RefInv, RefTypeOK
  <2>2. values' \in [Items -> Seq(Attributes \cup {Null})]
    <3>1. \A j \in Items : values'[j] \in Seq(Attributes \cup {Null})
      BY DEF NewValues, Slots, RefInv, RefTypeOK
    <3>2. QED
      BY <3>1 DEF NewValues
  <2>3. refs' \in [Attributes -> [Items -> SUBSET (Nat \ {0})]]
    BY DEF NewLists, Lists
  <2>4. QED
    BY <2>1, <2>2, <2>3 DEF RefTypeOK
<1>2. EndsAgree'
  <2> SUFFICES ASSUME NEW a \in Attributes, NEW j \in Items
               PROVE  refs'[a][j] = {p \in DOMAIN values'[j] : values'[j][p] = a}
    BY DEF EndsAgree
  <2>1. CASE j = i
    <3>1. \A p : p \in refs'[a][j] <=> p \in {q \in DOMAIN values'[j] : values'[j][q] = a}
      BY <2>1 DEF NewLists
    <3>2. QED
      BY <3>1
  <2>2. CASE j # i
    BY <2>2 DEF RefInv, EndsAgree, NewLists, NewValues
  <2>3. QED
    BY <2>1, <2>2
<1>3. AssertionsHold'
  BY DEF AssertionsHold, RefInv
<1>4. LifeTimes'
  <2>1. ASSUME NEW j \in Items, j \notin exists' PROVE values'[j] = << >>
    BY <2>1 DEF RefInv, LifeTimes, NewValues
  <2>2. ASSUME NEW j \in exists', Owner[j] # Null PROVE Owner[j] \in alive'
    BY <2>2 DEF RefInv, LifeTimes
  <2>3. ASSUME NEW j \in Items, NEW p \in DOMAIN values'[j] PROVE values'[j][p] \in alive' \cup {Null}
    BY <2>3 DEF RefInv, LifeTimes, NewValues
  <2>4. QED
    BY <2>1, <2>2, <2>3 DEF LifeTimes
<1>5. QED
  BY <1>1, <1>2, <1>3, <1>4 DEF RefInv

\* A call that changes nothing.
LEMMA NothingChanges ==
  ASSUME RefInv, alive' = alive, exists' = exists, values' = values, refs' = refs, broken' = broken
  PROVE  RefInv'
BY DEF RefInv, RefTypeOK, EndsAgree, AssertionsHold, LifeTimes

\* The values of one item replaced.
LEMMA ValuesFacts ==
  ASSUME NEW i \in exists, Good(i), NEW s, NEW n \in Nat,
         values' = [values EXCEPT ![i] = s], s \in Seq(Slots), DOMAIN s = 1 .. n,
         \A p \in 1 .. n : s[p] \in alive \cup {Null}
  PROVE  values'[i] = s /\ NewValues(i, n)
<1>1. i \in Items /\ values \in [Items -> Seq(Slots)]
  BY DEF Good
<1>2. values'[i] = s /\ values' \in [Items -> Seq(Slots)] /\ \A j \in Items : j # i => values'[j] = values[j]
  BY <1>1
<1>3. QED
  BY <1>2 DEF NewValues

\* What is left of the references when one position is taken back, or added.
LEMMA ForgetFacts ==
  ASSUME NEW r \in Lists, NEW i \in Items, NEW old \in Slots, NEW p
  PROVE  /\ Forget(r, old, i, p) \in Lists
         /\ \A b \in Attributes, j \in Items : \A q :
              q \in Forget(r, old, i, p)[b][j] <=> q \in r[b][j] /\ ~(b = old /\ j = i /\ q = p)
         /\ \A b \in Attributes, j \in Items : j # i => Forget(r, old, i, p)[b][j] = r[b][j]
<1>0. Null \notin Attributes
  BY RefConstantsOK
<1>1. CASE old = Null
  BY <1>0, <1>1 DEF Forget
<1>2. CASE old # Null
  <2>1. old \in Attributes /\ Forget(r, old, i, p) = [r EXCEPT ![old] = [r[old] EXCEPT ![i] = r[old][i] \ {p}]]
    BY <1>2 DEF Forget, Slots
  <2>2. r[old] \in [Items -> SUBSET (Nat \ {0})] /\ r[old][i] \ {p} \in SUBSET (Nat \ {0})
    BY <2>1 DEF Lists
  <2>3. [r[old] EXCEPT ![i] = r[old][i] \ {p}] \in [Items -> SUBSET (Nat \ {0})]
    BY <2>2
  <2>4. QED
    BY <2>1, <2>2, <2>3 DEF Lists
<1>3. QED
  BY <1>1, <1>2

LEMMA NoteFacts ==
  ASSUME NEW r \in Lists, NEW i \in Items, NEW a \in Attributes, NEW p \in Nat \ {0}
  PROVE  /\ Note(r, a, i, p) \in Lists
         /\ \A b \in Attributes, j \in Items : \A q :
              q \in Note(r, a, i, p)[b][j] <=> q \in r[b][j] \/ (b = a /\ j = i /\ q = p)
         /\ \A b \in Attributes, j \in Items : j # i => Note(r, a, i, p)[b][j] = r[b][j]
<1>1. r[a] \in [Items -> SUBSET (Nat \ {0})] /\ r[a][i] \cup {p} \in SUBSET (Nat \ {0})
  BY DEF Lists
<1>2. [r[a] EXCEPT ![i] = @ \cup {p}] \in [Items -> SUBSET (Nat \ {0})]
  BY <1>1
<1>3. QED
  BY <1>1, <1>2 DEF Lists, Note

-----------------------------------------------------------------------------
(* The calls on one item *)

\* setValue
LEMMA SetKeeps ==
  ASSUME RefInv, NEW i \in exists, NEW p \in DOMAIN values[i], NEW a \in alive, Set(i, p, a)
  PROVE  RefInv'
<1> DEFINE freed == Forget(refs, values[i][p], i, p)
           s     == [values[i] EXCEPT ![p] = a]
<1>1. Good(i)
  BY ItemFacts
<1>2. CASE a \notin Fits[i]
  <2>1. SetValue(Now, i, p, a) = Now
    BY <1>2 DEF SetValue
  <2>2. QED
    BY <2>1, NothingChanges DEF Set, Call, Effect, Now
<1>3. CASE a \in Fits[i]
  <2>1. /\ values' = [values EXCEPT ![i] = s] /\ refs' = Note(freed, a, i, p)
        /\ broken' = broken /\ alive' = alive /\ exists' = exists
    BY <1>1, <1>3 DEF Set, Call, Effect, SetValue, Now, Good
  <2>2. /\ i \in Items /\ a \in Attributes /\ p \in 1 .. Len(values[i]) /\ p \in Nat \ {0} /\ a \in Slots
        /\ values[i][p] \in Slots /\ values[i] \in Seq(Slots) /\ refs \in Lists
        /\ Len(values[i]) \in Nat
    BY <1>1 DEF Good, Slots
  <2>3. /\ freed \in Lists
        /\ \A b \in Attributes, j \in Items : \A q :
             q \in freed[b][j] <=> q \in refs[b][j] /\ ~(b = values[i][p] /\ j = i /\ q = p)
        /\ \A b \in Attributes, j \in Items : j # i => freed[b][j] = refs[b][j]
    BY <2>2, ForgetFacts
  <2>4. /\ refs' \in Lists
        /\ \A b \in Attributes, j \in Items : \A q :
             q \in refs'[b][j] <=> q \in freed[b][j] \/ (b = a /\ j = i /\ q = p)
        /\ \A b \in Attributes, j \in Items : j # i => refs'[b][j] = freed[b][j]
    <3> HIDE DEF freed
    <3> QED
      BY <2>1, <2>2, <2>3, NoteFacts
  <2>5. /\ s \in Seq(Slots) /\ DOMAIN s = 1 .. Len(values[i])
        /\ \A q \in DOMAIN values[i] : s[q] = IF q = p THEN a ELSE values[i][q]
        /\ \A q \in 1 .. Len(values[i]) : s[q] \in alive \cup {Null}
    BY <1>1, <2>2, ExceptSeq DEF Good
  <2>6. values'[i] = s /\ NewValues(i, Len(values[i]))
    <3> HIDE DEF s
    <3> QED
      BY <1>1, <2>1, <2>2, <2>5, ValuesFacts
  <2>7. NewLists(i)
    <3> HIDE DEF s, freed
    <3>1. ASSUME NEW b \in Attributes, NEW q
          PROVE  q \in refs'[b][i] <=> q \in DOMAIN s /\ s[q] = b
      <4>1. q \in freed[b][i] <=> q \in refs[b][i] /\ ~(b = values[i][p] /\ q = p)
        BY <2>2, <2>3
      <4>2. q \in refs'[b][i] <=> q \in freed[b][i] \/ (b = a /\ q = p)
        BY <2>2, <2>4
      <4>3. q \in refs[b][i] <=> q \in DOMAIN values[i] /\ values[i][q] = b
        BY <1>1 DEF Good
      <4>4. DOMAIN s = DOMAIN values[i] /\ p \in DOMAIN values[i]
        BY <1>1, <2>2, <2>5 DEF Good
      <4>5. q \in DOMAIN s => s[q] = IF q = p THEN a ELSE values[i][q]
        BY <2>5, <4>4
      <4>6. QED
        BY <4>1, <4>2, <4>3, <4>4, <4>5
    <3>2. refs' \in Lists /\ \A b \in Attributes : \A j \in Items : j # i => refs'[b][j] = refs[b][j]
      BY <2>3, <2>4
    <3>3. QED
      BY <2>6, <3>1, <3>2 DEF NewLists
  <2>8. QED
    BY <1>1, <2>1, <2>6, <2>7, ItemChanges DEF Good
<1>4. QED
  BY <1>2, <1>3

\* unset
LEMMA ClearKeeps ==
  ASSUME RefInv, NEW i \in exists, NEW p \in DOMAIN values[i], Clear(i, p)
  PROVE  RefInv'
<1> DEFINE freed == Forget(refs, values[i][p], i, p)
           s     == [values[i] EXCEPT ![p] = Null]
<1>1. Good(i)
  BY ItemFacts
<1>2. /\ values' = [values EXCEPT ![i] = s] /\ refs' = freed
      /\ broken' = broken /\ alive' = alive /\ exists' = exists
  BY <1>1 DEF Clear, Call, Effect, Unset, Now, Good
<1>3. /\ i \in Items /\ p \in 1 .. Len(values[i]) /\ Null \in Slots
      /\ values[i][p] \in Slots /\ values[i] \in Seq(Slots) /\ refs \in Lists
      /\ Len(values[i]) \in Nat
  BY <1>1 DEF Good, Slots
<1>4. /\ freed \in Lists
      /\ \A b \in Attributes, j \in Items : \A q :
           q \in freed[b][j] <=> q \in refs[b][j] /\ ~(b = values[i][p] /\ j = i /\ q = p)
      /\ \A b \in Attributes, j \in Items : j # i => freed[b][j] = refs[b][j]
  BY <1>3, ForgetFacts
<1>5. /\ s \in Seq(Slots) /\ DOMAIN s = 1 .. Len(values[i])
      /\ \A q \in DOMAIN values[i] : s[q] = IF q = p THEN Null ELSE values[i][q]
      /\ \A q \in 1 .. Len(values[i]) : s[q] \in alive \cup {Null}
  BY <1>1, <1>3, ExceptSeq DEF Good
<1>6. values'[i] = s /\ NewValues(i, Len(values[i]))
  <2> HIDE DEF s
  <2> QED
    BY <1>1, <1>2, <1>3, <1>5, ValuesFacts
<1>7. NewLists(i)
  <2> HIDE DEF s, freed
  <2>1. ASSUME NEW b \in Attributes, NEW q
        PROVE  q \in freed[b][i] <=> q \in DOMAIN s /\ s[q] = b
    <3>1. q \in freed[b][i] <=> q \in refs[b][i] /\ ~(b = values[i][p] /\ q = p)
      BY <1>3, <1>4
    <3>2. q \in refs[b][i] <=> q \in DOMAIN values[i] /\ values[i][q] = b
      BY <1>1 DEF Good
    <3>3. b # Null /\ DOMAIN s = DOMAIN values[i]
      BY <1>1, <1>5 DEF Good
    <3>4. QED
      BY <1>5, <3>1, <3>2, <3>3
  <2>2. QED
    BY <1>2, <1>4, <1>6, <2>1 DEF NewLists
<1>8. QED
  BY <1>1, <1>2, <1>6, <1>7, ItemChanges DEF Good

\* appendValue
LEMMA AddKeeps ==
  ASSUME RefInv, NEW i \in exists, NEW a \in alive, Add(i, a)
  PROVE  RefInv'
<1> DEFINE n == Len(values[i]) + 1
           s == Append(values[i], a)
<1>1. Good(i)
  BY ItemFacts
<1>2. CASE ~(Required[i] = 0 /\ a \in Fits[i])
  <2>1. AppendValue(Now, i, a) = Now
    BY <1>2 DEF AppendValue
  <2>2. QED
    BY <2>1, NothingChanges DEF Add, Call, Effect, Now
<1>3. CASE Required[i] = 0 /\ a \in Fits[i]
  <2>1. /\ values' = [values EXCEPT ![i] = s] /\ refs' = Note(refs, a, i, n)
        /\ broken' = broken /\ alive' = alive /\ exists' = exists
    BY <1>1, <1>3 DEF Add, Call, Effect, AppendValue, Now, Good
  <2>2. /\ i \in Items /\ a \in Attributes /\ n \in Nat \ {0} /\ a \in Slots
        /\ values[i] \in Seq(Slots) /\ refs \in Lists
    BY <1>1 DEF Good, Slots
  <2>3. /\ refs' \in Lists
        /\ \A b \in Attributes, j \in Items : \A q :
             q \in refs'[b][j] <=> q \in refs[b][j] \/ (b = a /\ j = i /\ q = n)
        /\ \A b \in Attributes, j \in Items : j # i => refs'[b][j] = refs[b][j]
    <3> HIDE DEF n
    <3> DEFINE noted == Note(refs, a, i, n)
    <3>1. /\ noted \in Lists
          /\ \A b \in Attributes, j \in Items : \A q :
               q \in noted[b][j] <=> q \in refs[b][j] \/ (b = a /\ j = i /\ q = n)
          /\ \A b \in Attributes, j \in Items : j # i => noted[b][j] = refs[b][j]
      BY <2>2, NoteFacts
    <3>2. refs' = noted
      BY <2>1
    <3> HIDE DEF noted
    <3>3. QED
      BY <3>1, <3>2
  <2>4. s \in Seq(Slots) /\ DOMAIN s = 1 .. n
    BY <2>2
  <2>5. \A q \in 1 .. n : s[q] = IF q = n THEN a ELSE values[i][q]
    BY <2>2
  <2>6. \A q \in 1 .. n : s[q] \in alive \cup {Null}
    BY <1>1, <2>5 DEF Good
  <2>7. values'[i] = s /\ NewValues(i, n)
    <3> HIDE DEF s, n
    <3> QED
      BY <1>1, <2>1, <2>2, <2>4, <2>6, ValuesFacts
  <2>8. NewLists(i)
    <3>1. DOMAIN values[i] = 1 .. (n - 1) /\ n \in Nat
      BY <1>1 DEF Good
    <3> HIDE DEF s, n
    <3>2. ASSUME NEW b \in Attributes, NEW q
          PROVE  q \in refs'[b][i] <=> q \in DOMAIN s /\ s[q] = b
      <4>1. q \in refs'[b][i] <=> q \in refs[b][i] \/ (b = a /\ q = n)
        BY <2>2, <2>3
      <4>2. q \in refs[b][i] <=> q \in 1 .. (n - 1) /\ values[i][q] = b
        BY <1>1, <3>1 DEF Good
      <4>3. q \in DOMAIN s <=> q \in 1 .. (n - 1) \/ q = n
        BY <2>4, <2>2
      <4>4. n \notin 1 .. (n - 1)
        BY <2>2
      <4>5. QED
        BY <2>4, <2>5, <4>1, <4>2, <4>3, <4>4
    <3>3. QED
      BY <2>3, <2>7, <3>2 DEF NewLists
  <2>9. QED
    BY <1>1, <2>1, <2>7, <2>8, ItemChanges DEF Good
<1>4. QED
  BY <1>2, <1>3

\* The sequence without its last element.
LEMMA WithoutLast ==
  ASSUME NEW S, NEW s \in Seq(S), Len(s) # 0
  PROVE  /\ RemoveAt(s, Len(s)) \in Seq(S) /\ DOMAIN RemoveAt(s, Len(s)) = 1 .. (Len(s) - 1)
         /\ \A q \in 1 .. (Len(s) - 1) : RemoveAt(s, Len(s))[q] = s[q]
<1> DEFINE n     == Len(s)
           front == SubSeq(s, 1, n - 1)
<1>1. n \in Nat /\ n - 1 \in Nat /\ DOMAIN s = 1 .. n
  BY LenProperties
<1>2. \A q \in 1 .. (n - 1) : s[q] \in S
  BY <1>1
<1>3. /\ front \in Seq(S) /\ Len(front) = n - 1
      /\ \A q \in 1 .. (n - 1) : front[q] = s[q]
  BY <1>1, <1>2, SubSeqProperties
<1>4. SubSeq(s, n + 1, n) = << >>
  BY <1>1, SubSeqEmpty
<1>5. front \o << >> = front
  BY <1>3, ConcatEmptySeq
<1>6. RemoveAt(s, n) = front
  BY <1>4, <1>5 DEF RemoveAt
<1>7. QED
  BY <1>1, <1>3, <1>6, LenProperties

\* removeValue, of the last value
LEMMA TakeOutKeeps ==
  ASSUME RefInv, ~Careless, NEW i \in exists, NEW p \in DOMAIN values[i], TakeOut(i, p)
  PROVE  RefInv'
<1> DEFINE freed == Forget(refs, values[i][p], i, p)
           n     == Len(values[i]) - 1
           s     == RemoveAt(values[i], p)
<1>1. Good(i) /\ p = Len(values[i])
  BY ItemFacts DEF TakeOut
<1>2. CASE Required[i] # 0
  <2>1. RemoveValue(Now, i, p) = Now
    BY <1>2 DEF RemoveValue
  <2>2. QED
    BY <2>1, NothingChanges DEF TakeOut, Call, Effect, Now
<1>3. CASE Required[i] = 0
  <2>1. /\ values' = [values EXCEPT ![i] = s] /\ refs' = freed
        /\ broken' = broken /\ alive' = alive /\ exists' = exists
    BY <1>1, <1>3 DEF TakeOut, Call, Effect, RemoveValue, Now, Good
  <2>2. /\ i \in Items /\ p \in 1 .. Len(values[i]) /\ Len(values[i]) \in Nat /\ n \in Nat
        /\ values[i][p] \in Slots /\ values[i] \in Seq(Slots) /\ refs \in Lists
    BY <1>1 DEF Good, Slots
  <2>3. /\ freed \in Lists
        /\ \A b \in Attributes, j \in Items : \A q :
             q \in freed[b][j] <=> q \in refs[b][j] /\ ~(b = values[i][p] /\ j = i /\ q = p)
        /\ \A b \in Attributes, j \in Items : j # i => freed[b][j] = refs[b][j]
    BY <2>2, ForgetFacts
  <2>4. /\ s \in Seq(Slots) /\ DOMAIN s = 1 .. n
        /\ \A q \in 1 .. n : s[q] = values[i][q]
    BY <1>1, <2>2, WithoutLast
  <2>5. \A q \in 1 .. n : s[q] \in alive \cup {Null}
    BY <1>1, <2>2, <2>4 DEF Good
  <2>6. values'[i] = s /\ NewValues(i, n)
    <3> HIDE DEF s, n
    <3> QED
      BY <1>1, <2>1, <2>2, <2>4, <2>5, ValuesFacts
  <2>7. NewLists(i)
    <3>1. p = n + 1 /\ DOMAIN values[i] = 1 .. (n + 1)
      BY <1>1, <2>2 DEF Good
    <3> HIDE DEF s, n, freed
    <3>2. ASSUME NEW b \in Attributes, NEW q
          PROVE  q \in freed[b][i] <=> q \in DOMAIN s /\ s[q] = b
      <4>1. q \in freed[b][i] <=> q \in refs[b][i] /\ ~(b = values[i][p] /\ q = p)
        BY <2>2, <2>3
      <4>2. q \in refs[b][i] <=> q \in 1 .. (n + 1) /\ values[i][q] = b
        BY <1>1, <3>1 DEF Good
      <4>3. q \in DOMAIN s <=> q \in 1 .. (n + 1) /\ q # p
        BY <2>2, <2>4, <3>1
      <4>4. QED
        BY <2>4, <4>1, <4>2, <4>3
    <3>3. QED
      BY <2>1, <2>3, <2>6, <3>2 DEF NewLists
  <2>8. QED
    BY <1>1, <2>1, <2>6, <2>7, ItemChanges DEF Good
<1>4. QED
  BY <1>2, <1>3

\* What resize() makes of the values of an item.
LEMMA ResizedFacts ==
  ASSUME NEW s \in Seq(Slots), NEW n \in Nat
  PROVE  /\ Resized(s, n) \in Seq(Slots) /\ DOMAIN Resized(s, n) = 1 .. n
         /\ \A q \in 1 .. n : Resized(s, n)[q] = IF q <= Len(s) THEN s[q] ELSE Null
<1>1. Len(s) \in Nat /\ DOMAIN s = 1 .. Len(s)
  BY LenProperties
<1>2. \A q \in 1 .. n : (IF q <= Len(s) THEN s[q] ELSE Null) \in Slots
  BY <1>1 DEF Slots
<1>3. Resized(s, n) \in [1 .. n -> Slots]
  BY <1>2 DEF Resized
<1>4. QED
  BY <1>3, TableIsSeq DEF Resized

\* setNumberOfValues, of values that are not set
LEMMA ResizeKeeps ==
  ASSUME RefInv, ~Careless, NEW i \in exists, NEW n \in Nat, Resize(i, n)
  PROVE  RefInv'
<1> DEFINE s == Resized(values[i], n)
<1>1. Good(i) /\ DropsNothing(i, n)
  BY ItemFacts DEF Resize
<1>2. CASE Required[i] # 0
  <2>1. SetNumberOfValues(Now, i, n) = Now
    BY <1>2 DEF SetNumberOfValues
  <2>2. QED
    BY <2>1, NothingChanges DEF Resize, Call, Effect, Now
<1>3. CASE Required[i] = 0
  <2>1. /\ values' = [values EXCEPT ![i] = s] /\ refs' = refs
        /\ broken' = broken /\ alive' = alive /\ exists' = exists
    BY <1>1, <1>3 DEF Resize, Call, Effect, SetNumberOfValues, Now, Good
  <2>2. i \in Items /\ Len(values[i]) \in Nat /\ values[i] \in Seq(Slots) /\ refs \in Lists
    BY <1>1 DEF Good
  <2>3. /\ s \in Seq(Slots) /\ DOMAIN s = 1 .. n
        /\ \A q \in 1 .. n : s[q] = IF q <= Len(values[i]) THEN values[i][q] ELSE Null
    BY <2>2, ResizedFacts
  <2>4. \A q \in 1 .. n : s[q] \in alive \cup {Null}
    <3> HIDE DEF s
    <3> QED
      BY <1>1, <2>2, <2>3 DEF Good
  <2>5. values'[i] = s /\ NewValues(i, n)
    <3> HIDE DEF s
    <3> QED
      BY <1>1, <2>1, <2>2, <2>3, <2>4, ValuesFacts
  <2>6. NewLists(i)
    <3> HIDE DEF s
    <3>1. ASSUME NEW b \in Attributes, NEW q
          PROVE  q \in refs[b][i] <=> q \in DOMAIN s /\ s[q] = b
      <4>1. q \in refs[b][i] <=> q \in 1 .. Len(values[i]) /\ values[i][q] = b
        BY <1>1 DEF Good
      <4>2. \A e \in (n + 1) .. Len(values[i]) : values[i][e] = Null
        BY <1>1 DEF DropsNothing
      <4>3. b # Null
        BY <1>1 DEF Good
      <4>4. QED
        BY <2>2, <2>3, <4>1, <4>2, <4>3
    <3>2. QED
      BY <2>1, <2>2, <2>5, <3>1 DEF NewLists
  <2>7. QED
    BY <1>1, <2>1, <2>5, <2>6, ItemChanges DEF Good
<1>4. QED
  BY <1>2, <1>3

\* A row of null pointers.
LEMMA BlankFacts ==
  ASSUME NEW n \in Nat
  PROVE  Blank(n) \in Seq(Slots) /\ DOMAIN Blank(n) = 1 .. n /\ \A q \in 1 .. n : Blank(n)[q] = Null
<1>1. Blank(n) \in [1 .. n -> Slots]
  BY DEF Blank, Slots
<1>2. QED
  BY <1>1, TableIsSeq DEF Blank

\* clearAllReferences: nothing is left of the item.
LEMMA ClearFacts ==
  ASSUME NEW i \in exists, Good(i)
  PROVE  /\ ClearAllReferences(Now, i).refs \in Lists
         /\ ClearAllReferences(Now, i).values = values
         /\ ClearAllReferences(Now, i).broken = broken
         /\ \A b \in Attributes, j \in Items : j # i => ClearAllReferences(Now, i).refs[b][j] = refs[b][j]
         /\ \A b \in Attributes : ClearAllReferences(Now, i).refs[b][i] = {}
<1> DEFINE r == [a \in Attributes |-> IF a \in Range(values[i]) THEN [refs[a] EXCEPT ![i] = {}] ELSE refs[a]]
<1>1. /\ ClearAllReferences(Now, i).refs = r /\ ClearAllReferences(Now, i).values = values
      /\ ClearAllReferences(Now, i).broken = broken
  BY DEF ClearAllReferences, Now
<1>2. i \in Items /\ refs \in [Attributes -> [Items -> SUBSET (Nat \ {0})]]
  BY DEF Good, Lists
<1>3. ASSUME NEW b \in Attributes, b \notin Range(values[i])
      PROVE  refs[b][i] = {}
  BY <1>3 DEF Good, Range
<1>4. ASSUME NEW b \in Attributes
      PROVE  /\ r[b] \in [Items -> SUBSET (Nat \ {0})] /\ r[b][i] = {}
             /\ \A j \in Items : j # i => r[b][j] = refs[b][j]
  <2>1. CASE b \in Range(values[i])
    BY <1>2, <2>1
  <2>2. CASE b \notin Range(values[i])
    BY <1>2, <1>3, <2>2
  <2>3. QED
    BY <2>1, <2>2
<1>5. r \in Lists
  BY <1>4 DEF Lists
<1>6. QED
  BY <1>1, <1>4, <1>5

\* An item without values that nobody lists.
LEMMA EmptyItem ==
  ASSUME NEW i \in exists, Good(i),
         values' = [values EXCEPT ![i] = << >>], refs' = ClearAllReferences(Now, i).refs
  PROVE  values'[i] = << >> /\ NewValues(i, 0) /\ NewLists(i)
<1>1. << >> \in Seq(Slots) /\ DOMAIN << >> = 1 .. 0 /\ 0 \in Nat
  BY EmptySeq
<1>2. \A p \in 1 .. 0 : << >>[p] \in alive \cup {Null}
  OBVIOUS
<1>3. values'[i] = << >> /\ NewValues(i, 0)
  BY <1>1, <1>2, ValuesFacts
<1>4. DOMAIN values'[i] = {}
  BY <1>1, <1>3
<1>5. NewLists(i)
  BY <1>4, ClearFacts DEF NewLists
<1>6. QED
  BY <1>3, <1>5

\* reset
LEMMA ResetKeeps ==
  ASSUME RefInv, NEW i \in exists, Reset(i)
  PROVE  RefInv'
<1>1. Good(i)
  BY ItemFacts
<1>2. CASE Required[i] = 0
  <2>1. /\ values' = [values EXCEPT ![i] = << >>] /\ refs' = ClearAllReferences(Now, i).refs
        /\ broken' = broken /\ alive' = alive /\ exists' = exists
    BY <1>1, <1>2, ClearFacts DEF Reset, Call, Effect, ResetItem, ClearAllReferences, Now
  <2>2. NewValues(i, 0) /\ NewLists(i)
    BY <1>1, <2>1, EmptyItem
  <2>3. QED
    BY <1>1, <2>1, <2>2, ItemChanges DEF Good
<1>3. CASE Required[i] # 0
  <2> DEFINE n == Len(values[i])
             s == Blank(n)
  <2>1. /\ values' = [values EXCEPT ![i] = s]
        /\ refs' = [a \in Attributes |->
                      [refs[a] EXCEPT ![i] = refs[a][i] \ {p \in DOMAIN values[i] : values[i][p] = a}]]
        /\ broken' = broken /\ alive' = alive /\ exists' = exists
    BY <1>1, <1>3 DEF Reset, Call, Effect, ResetItem, Now, Good
  <2>2. i \in Items /\ n \in Nat /\ refs \in [Attributes -> [Items -> SUBSET (Nat \ {0})]]
    BY <1>1 DEF Good, Lists
  <2>3. s \in Seq(Slots) /\ DOMAIN s = 1 .. n /\ \A q \in 1 .. n : s[q] = Null
    BY <2>2, BlankFacts
  <2>4. values'[i] = s /\ NewValues(i, n)
    <3>1. \A q \in 1 .. n : s[q] \in alive \cup {Null}
      BY <2>3
    <3> HIDE DEF s, n
    <3>2. QED
      BY <1>1, <2>1, <2>2, <2>3, <3>1, ValuesFacts
  <2>5. ASSUME NEW b \in Attributes
        PROVE  /\ refs'[b] \in [Items -> SUBSET (Nat \ {0})] /\ refs'[b][i] = {}
               /\ \A j \in Items : j # i => refs'[b][j] = refs[b][j]
    <3>1. refs[b][i] = {p \in DOMAIN values[i] : values[i][p] = b}
      <4>1. \A p : p \in refs[b][i] <=> p \in {q \in DOMAIN values[i] : values[i][q] = b}
        BY <1>1 DEF Good
      <4>2. QED
        BY <4>1
    <3>2. refs'[b] = [refs[b] EXCEPT ![i] = {}]
      BY <2>1, <3>1
    <3>3. QED
      BY <2>2, <3>2
  <2>6. NewLists(i)
    <3>1. refs' \in Lists
      BY <2>1, <2>5 DEF Lists
    <3>2. \A b \in Attributes : \A q : ~(q \in DOMAIN s /\ s[q] = b)
      BY <1>1, <2>3 DEF Good
    <3> HIDE DEF s
    <3>3. QED
      BY <2>4, <2>5, <3>1, <3>2 DEF NewLists
  <2>7. QED
    BY <1>1, <2>1, <2>4, <2>6, ItemChanges DEF Good
<1>4. QED
  BY <1>2, <1>3

\* ~RefItem
LEMMA DropKeeps ==
  ASSUME RefInv, NEW i \in exists, Drop(i)
  PROVE  RefInv'
<1>1. Good(i)
  BY ItemFacts
<1>2. /\ values' = [values EXCEPT ![i] = << >>] /\ refs' = ClearAllReferences(Now, i).refs
      /\ broken' = broken /\ alive' = alive /\ exists' = exists \ {i}
  BY <1>1, ClearFacts DEF Drop, Effect, DestroyItem, ClearAllReferences, Now
<1>3. values'[i] = << >> /\ NewValues(i, 0) /\ NewLists(i)
  BY <1>1, <1>2, EmptyItem
<1>4. QED
  BY <1>1, <1>2, <1>3, ItemChanges DEF Good

\* assign, from an item whose first value is set if any is
LEMMA AssignKeeps ==
  ASSUME RefInv, ~Careless, NEW i \in exists, NEW j \in exists, Assign(i, j)
  PROVE  RefInv'
<1> DEFINE src == values[j]
           n   == Len(src)
           set == {p \in DOMAIN src : src[p] # Null}
           old == Resized(values[i], n)
           s   == [p \in DOMAIN src |-> IF p \in set THEN src[1] ELSE Null]
<1>1. Good(i) /\ Good(j)
  BY ItemFacts
<1>2. /\ DropsNothing(i, n)
      /\ \A p \in DOMAIN src : src[p] # Null => src[1] # Null
  BY DEF Assign
<1>3. /\ values' = [values EXCEPT ![i] = s]
      /\ refs' = [a \in Attributes |->
                    [refs[a] EXCEPT ![i] = (refs[a][i] \ {p \in DOMAIN src : old[p] = a})
                                             \cup {p \in set : src[1] = a}]]
      /\ broken' = (broken \/ (set # {} /\ src[1] = Null))
      /\ alive' = alive /\ exists' = exists
  <2>1. AssignItem(Now, i, j).values = [values EXCEPT ![i] = s]
    BY DEF AssignItem, Now
  <2>2. AssignItem(Now, i, j).refs
          = [a \in Attributes |->
               [refs[a] EXCEPT ![i] = (refs[a][i] \ {p \in DOMAIN src : old[p] = a})
                                        \cup {p \in set : src[1] = a}]]
    BY DEF AssignItem, Now
  <2>3. AssignItem(Now, i, j).broken = (broken \/ (set # {} /\ src[1] = Null))
    BY DEF AssignItem, Now
  <2>4. Call(AssignItem(Now, i, j))
    BY DEF Assign
  <2> HIDE DEF set, s, src
  <2>5. QED
    BY <2>1, <2>2, <2>3, <2>4 DEF Call, Effect
<1>4. broken' = broken
  <2>1. ~(set # {} /\ src[1] = Null)
    BY <1>2
  <2>2. QED
    BY <1>1, <1>3, <2>1 DEF Good
<1>5. /\ i \in Items /\ n \in Nat /\ src \in Seq(Slots) /\ DOMAIN src = 1 .. n
      /\ values[i] \in Seq(Slots) /\ Len(values[i]) \in Nat
      /\ refs \in [Attributes -> [Items -> SUBSET (Nat \ {0})]]
  BY <1>1 DEF Good, Lists
<1>6. \A p \in set : p \in 1 .. n /\ src[1] \in alive /\ 1 \in 1 .. n
  BY <1>1, <1>2, <1>5 DEF Good
<1>7. \A q \in 1 .. n : s[q] = (IF q \in set THEN src[1] ELSE Null) /\ s[q] \in alive \cup {Null}
  BY <1>5, <1>6
<1>8. s \in Seq(Slots) /\ DOMAIN s = 1 .. n
  <2>1. s \in [1 .. n -> Slots]
    <3>1. \A q \in 1 .. n : s[q] \in Slots
      BY <1>1, <1>7 DEF Slots, Good
    <3>2. QED
      BY <1>5, <3>1
  <2>2. QED
    BY <1>5, <2>1, TableIsSeq
<1>9. values'[i] = s /\ NewValues(i, n)
  <2> HIDE DEF s, n
  <2> QED
    BY <1>1, <1>3, <1>5, <1>7, <1>8, ValuesFacts
<1>10. ASSUME NEW b \in Attributes
       PROVE  /\ refs'[b] \in [Items -> SUBSET (Nat \ {0})]
              /\ \A q : q \in refs'[b][i] <=> q \in DOMAIN s /\ s[q] = b
              /\ \A k \in Items : k # i => refs'[b][k] = refs[b][k]
  <2> DEFINE new == (refs[b][i] \ {p \in DOMAIN src : old[p] = b}) \cup {p \in set : src[1] = b}
  <2>1. \A q : ~(q \in refs[b][i] /\ q \notin {p \in DOMAIN src : old[p] = b})
    <3>1. SUFFICES ASSUME NEW q \in refs[b][i]
                   PROVE  q \in 1 .. n /\ old[q] = b
      BY <1>5
    <3>2. q \in 1 .. Len(values[i]) /\ values[i][q] = b /\ b # Null
      BY <1>1 DEF Good
    <3>3. q \in 1 .. n
      BY <1>2, <1>5, <3>2 DEF DropsNothing
    <3>4. old[q] = values[i][q]
      <4>1. q \in Nat /\ q <= Len(values[i])
        BY <1>5, <3>2
      <4> HIDE DEF n
      <4>2. old[q] = IF q <= Len(values[i]) THEN values[i][q] ELSE Null
        BY <1>5, <3>3, ResizedFacts
      <4>3. QED
        BY <4>1, <4>2
    <3>5. QED
      BY <3>2, <3>3, <3>4
  <2>2. \A q : q \in new <=> q \in set /\ src[1] = b
    BY <2>1
  <2>3. new \in SUBSET (Nat \ {0})
    BY <1>6, <2>2
  <2>4. refs'[b] = [refs[b] EXCEPT ![i] = new]
    BY <1>3
  <2>5. refs'[b][i] = new /\ \A k \in Items : k # i => refs'[b][k] = refs[b][k]
    <3> HIDE DEF new
    <3> QED
      BY <1>5, <2>4
  <2>6. refs'[b] \in [Items -> SUBSET (Nat \ {0})]
    <3> HIDE DEF new
    <3> QED
      BY <1>5, <2>3, <2>4
  <2>7. ASSUME NEW q
        PROVE  q \in set /\ src[1] = b <=> q \in DOMAIN s /\ s[q] = b
    <3>1. b # Null
      BY <1>1 DEF Good
    <3> HIDE DEF s, set
    <3>2. QED
      BY <1>6, <1>7, <1>8, <3>1
  <2>8. QED
    BY <2>2, <2>5, <2>6, <2>7
<1>11. NewLists(i)
  <2>1. refs' \in Lists
    <3>1. DOMAIN refs' = Attributes /\ refs' = [a \in Attributes |-> refs'[a]]
      BY <1>3
    <3>2. QED
      BY <1>10, <3>1 DEF Lists
  <2> HIDE DEF s
  <2>2. QED
    BY <1>9, <1>10, <2>1 DEF NewLists
<1>12. QED
  BY <1>1, <1>3, <1>4, <1>9, <1>11, ItemChanges DEF Good

\* RefItem::setDefinition, for an item that is a part of another one
LEMMA MakeKeeps ==
  ASSUME RefInv, NEW i \in Items, Owner[i] = Null, Make(i)
  PROVE  RefInv'
<1> DEFINE n == Required[i]
           s == Blank(n)
<1>1. /\ values' = [values EXCEPT ![i] = s] /\ refs' = refs /\ broken' = broken
      /\ alive' = alive /\ exists' = exists \cup {i} /\ i \notin exists
  BY DEF Make, Effect, MakeItem, Now, RefInv, RefTypeOK
<1>2. /\ values \in [Items -> Seq(Slots)] /\ refs \in Lists /\ exists \subseteq Items
      /\ Null \notin Attributes
  BY RefConstantsOK DEF RefInv, RefTypeOK, Slots, Lists
<1>3. /\ s \in Seq(Slots) /\ DOMAIN s = 1 .. n /\ \A q \in 1 .. n : s[q] = Null
  BY RefConstantsOK, BlankFacts
<1>4. /\ values'[i] = s /\ values' \in [Items -> Seq(Slots)]
      /\ \A j \in Items : j # i => values'[j] = values[j]
  <2> HIDE DEF s
  <2> QED
    BY <1>1, <1>2, <1>3
<1>5. NewValues(i, n)
  <2> HIDE DEF s
  <2> QED
    BY <1>3, <1>4 DEF NewValues
<1>6. \A b \in Attributes : refs[b][i] = {}
  <2>1. values[i] = << >>
    BY <1>1 DEF RefInv, LifeTimes
  <2>2. QED
    BY <2>1 DEF RefInv, EndsAgree
<1>7. NewLists(i)
  <2> HIDE DEF s
  <2> QED
    BY <1>1, <1>2, <1>3, <1>4, <1>6 DEF NewLists
<1>8. QED
  BY <1>1, <1>2, <1>5, <1>7, ItemChanges

-----------------------------------------------------------------------------
(* The life of an attribute *)

\* Attribute::build: the items of a new attribute are there and hold nothing.
LEMMA CreateKeeps ==
  ASSUME RefInv, NEW a \in Attributes, BuildAttribute(a)
  PROVE  RefInv'
<1>1. /\ a \notin alive /\ alive' = alive \cup {a} /\ exists' = exists \cup Owned(a)
      /\ values' = [i \in Items |-> IF i \in Owned(a) THEN Blank(Required[i]) ELSE values[i]]
      /\ refs' = refs /\ broken' = broken
  BY DEF BuildAttribute
<1>2. Owned(a) \subseteq Items /\ \A i \in Owned(a) : Owner[i] = a /\ Required[i] \in Nat
  BY RefConstantsOK DEF Owned
<1>3. \A i \in Owned(a) : i \notin exists
  <2>1. a # Null
    BY RefConstantsOK
  <2>2. QED
    BY <1>1, <1>2, <2>1 DEF RefInv, LifeTimes
<1>4. \A i \in Owned(a) : \A b \in Attributes : refs[b][i] = {}
  BY <1>2, <1>3 DEF RefInv, LifeTimes, EndsAgree
<1>5. ASSUME NEW i \in Owned(a)
      PROVE  /\ values'[i] \in Seq(Slots)
             /\ \A p \in DOMAIN values'[i] : values'[i][p] = Null
  <2>1. values'[i] = Blank(Required[i]) /\ Required[i] \in Nat
    BY <1>1, <1>2
  <2>2. QED
    BY <2>1, BlankFacts
<1>6. \A i \in Items \ Owned(a) : values'[i] = values[i]
  BY <1>1
<1>7. RefTypeOK'
  <2>1. \A i \in Items : values'[i] \in Seq(Attributes \cup {Null})
    BY <1>5, <1>6 DEF Slots, RefInv, RefTypeOK
  <2>2. values' \in [Items -> Seq(Attributes \cup {Null})]
    BY <1>1, <2>1
  <2>3. QED
    BY <1>1, <1>2, <2>2 DEF RefInv, RefTypeOK
<1>8. EndsAgree'
  <2> SUFFICES ASSUME NEW b \in Attributes, NEW i \in Items
               PROVE  refs'[b][i] = {p \in DOMAIN values'[i] : values'[i][p] = b}
    BY DEF EndsAgree
  <2>1. CASE i \in Owned(a)
    <3>1. b # Null
      BY RefConstantsOK
    <3>2. {p \in DOMAIN values'[i] : values'[i][p] = b} = {}
      BY <1>5, <2>1, <3>1
    <3>3. QED
      BY <1>1, <1>4, <2>1, <3>2
  <2>2. CASE i \notin Owned(a)
    BY <1>1, <1>6, <2>2 DEF RefInv, EndsAgree
  <2>3. QED
    BY <2>1, <2>2
<1>9. AssertionsHold'
  BY <1>1 DEF RefInv, AssertionsHold
<1>10. LifeTimes'
  <2>1. ASSUME NEW i \in Items, i \notin exists' PROVE values'[i] = << >>
    BY <1>1, <1>6, <2>1 DEF RefInv, LifeTimes
  <2>2. ASSUME NEW i \in exists', Owner[i] # Null PROVE Owner[i] \in alive'
    BY <1>1, <1>2, <2>2 DEF RefInv, LifeTimes
  <2>3. ASSUME NEW i \in Items, NEW p \in DOMAIN values'[i] PROVE values'[i][p] \in alive' \cup {Null}
    BY <1>1, <1>5, <1>6, <2>3 DEF RefInv, LifeTimes
  <2>4. QED
    BY <2>1, <2>2, <2>3 DEF LifeTimes
<1>11. QED
  BY <1>7, <1>8, <1>9, <1>10 DEF RefInv

\* What is left of the values of an item when the pointers to an attribute
\* have expired.
Left(a, i) == [p \in DOMAIN values[i] |-> IF values[i][p] = a THEN Null ELSE values[i][p]]

LEMMA LeftFacts ==
  ASSUME RefInv, NEW a \in Attributes, NEW i \in Items
  PROVE  /\ Left(a, i) \in Seq(Slots) /\ DOMAIN Left(a, i) = DOMAIN values[i]
         /\ \A p \in DOMAIN values[i] :
              /\ Left(a, i)[p] = IF values[i][p] = a THEN Null ELSE values[i][p]
              /\ Left(a, i)[p] \in (alive \ {a}) \cup {Null}
         /\ values[i] = << >> => Left(a, i) = << >>
<1>1. values[i] \in Seq(Slots)
  BY DEF RefInv, RefTypeOK, Slots
<1>2. Len(values[i]) \in Nat /\ DOMAIN values[i] = 1 .. Len(values[i])
  BY <1>1, LenProperties
<1>3. \A p \in DOMAIN values[i] : values[i][p] \in alive \cup {Null} /\ values[i][p] \in Slots
  BY <1>1, <1>2 DEF RefInv, LifeTimes
<1>4. Left(a, i) \in [1 .. Len(values[i]) -> Slots]
  BY <1>2, <1>3 DEF Left, Slots
<1>5. Left(a, i) \in Seq(Slots) /\ Len(Left(a, i)) = Len(values[i])
  BY <1>2, <1>4, TableIsSeq
<1>6. values[i] = << >> => Left(a, i) = << >>
  BY <1>1, <1>5, EmptySeq
<1>7. ASSUME NEW p \in DOMAIN values[i]
      PROVE  /\ Left(a, i)[p] = IF values[i][p] = a THEN Null ELSE values[i][p]
             /\ Left(a, i)[p] \in (alive \ {a}) \cup {Null}
  BY <1>3 DEF Left
<1>8. DOMAIN Left(a, i) = DOMAIN values[i]
  BY DEF Left
<1>9. QED
  BY <1>5, <1>6, <1>7, <1>8

\* By the time the destructor of an attribute goes through what refers to it,
\* none of the values it looks at is set.
LEMMA NothingToUnset ==
  ASSUME RefInv, NEW a \in Attributes
  PROVE  /\ UnsetAll(Expired(Now, a), a).values = [i \in Items |-> Left(a, i)]
         /\ UnsetAll(Expired(Now, a), a).refs
              = [b \in Attributes |-> [i \in Items |-> IF b = a THEN {} ELSE refs[b][i]]]
         /\ UnsetAll(Expired(Now, a), a).broken = broken
<1> DEFINE v == [i \in Items |-> Left(a, i)]
           hit(i, p) == p \in refs[a][i] /\ v[i][p] # Null
<1>1. /\ Expired(Now, a).values = v
      /\ Expired(Now, a).refs = refs /\ Expired(Now, a).broken = broken
      /\ Expired(Now, a) = [values |-> v, refs |-> refs, broken |-> broken]
  <2>1. Expired(Now, a) = [Now EXCEPT !.values = v]
    BY DEF Expired, Now, Left
  <2> HIDE DEF v
  <2>2. QED
    BY <2>1 DEF Now
<1>2. ASSUME NEW i \in Items, NEW p \in refs[a][i]
      PROVE  p \in DOMAIN values[i] /\ v[i][p] = Null /\ i \in exists
  <2>1. p \in DOMAIN values[i] /\ values[i][p] = a
    BY <1>2 DEF RefInv, EndsAgree
  <2>2. v[i][p] = Null
    BY <2>1 DEF Left
  <2>3. i \in exists
    BY <2>1, EmptySeq DEF RefInv, LifeTimes
  <2>4. QED
    BY <2>1, <2>2, <2>3
<1>3. \A i \in Items : \A p : ~hit(i, p)
  BY <1>2
<1>4. \A i \in Items : DOMAIN v[i] = DOMAIN values[i]
  BY DEF Left
<1>5. UnsetAll(Expired(Now, a), a).values
        = [i \in Items |-> [p \in DOMAIN v[i] |-> IF hit(i, p) THEN Null ELSE v[i][p]]]
  BY <1>1 DEF UnsetAll
<1>6. \A i \in Items : [p \in DOMAIN v[i] |-> IF hit(i, p) THEN Null ELSE v[i][p]] = v[i]
  BY <1>3 DEF Left
<1>7. UnsetAll(Expired(Now, a), a).refs
        = [b \in Attributes |-> [i \in Items |->
             IF b = a THEN {} ELSE refs[b][i] \ {p \in DOMAIN v[i] : hit(i, p) /\ v[i][p] = b}]]
  BY <1>1 DEF UnsetAll, RefInv, RefTypeOK
<1>8. \A b \in Attributes, i \in Items :
        refs[b][i] \ {p \in DOMAIN v[i] : hit(i, p) /\ v[i][p] = b} = refs[b][i]
  BY <1>3
<1>9. UnsetAll(Expired(Now, a), a).broken
        = (broken \/ \E i \in Items : \E p \in refs[a][i] : i \notin exists \/ p \notin DOMAIN v[i])
  <2> DEFINE now == [values |-> v, refs |-> refs, broken |-> broken]
  <2>1. now.values = v /\ now.refs = refs /\ now.broken = broken /\ DOMAIN now = {"values", "refs", "broken"}
    BY SMT
  <2> HIDE DEF now, v
  <2>2. UnsetAll(now, a).broken
          = (now.broken \/ \E i \in Items : \E p \in now.refs[a][i] :
                             i \notin exists \/ p \notin DOMAIN now.values[i])
    BY <2>1 DEF UnsetAll
  <2>3. Expired(Now, a) = now
    BY <1>1 DEF now
  <2>4. QED
    BY <2>1, <2>2, <2>3
<1>10. ~ \E i \in Items : \E p \in refs[a][i] : i \notin exists \/ p \notin DOMAIN v[i]
  BY <1>2, <1>4
<1>11. broken \in BOOLEAN
  BY DEF RefInv, RefTypeOK
<1>12. v = [i \in Items |-> v[i]]
  OBVIOUS
<1>13. UnsetAll(Expired(Now, a), a).values = v
  <2> HIDE DEF v, hit
  <2>1. [i \in Items |-> [p \in DOMAIN v[i] |-> IF hit(i, p) THEN Null ELSE v[i][p]]]
          = [i \in Items |-> v[i]]
    BY <1>6
  <2>2. QED
    BY <1>5, <1>12, <2>1
<1>14. UnsetAll(Expired(Now, a), a).refs
         = [b \in Attributes |-> [i \in Items |-> IF b = a THEN {} ELSE refs[b][i]]]
  <2> DEFINE kept(b, i) == refs[b][i] \ {p \in DOMAIN v[i] : hit(i, p) /\ v[i][p] = b}
  <2>1. \A b \in Attributes, i \in Items : kept(b, i) = refs[b][i]
    BY <1>8
  <2>2. UnsetAll(Expired(Now, a), a).refs
          = [b \in Attributes |-> [i \in Items |-> IF b = a THEN {} ELSE kept(b, i)]]
    BY <1>7
  <2> HIDE DEF kept
  <2>3. ASSUME NEW b \in Attributes
        PROVE  [i \in Items |-> IF b = a THEN {} ELSE kept(b, i)]
                 = [i \in Items |-> IF b = a THEN {} ELSE refs[b][i]]
    BY <2>1
  <2>4. QED
    BY <2>2, <2>3
<1>15. UnsetAll(Expired(Now, a), a).broken = broken
  BY <1>9, <1>10, <1>11
<1>16. QED
  BY <1>13, <1>14, <1>15

\* ~Attribute: the items that go with it are gone, the values that were the
\* attribute are null, and nothing is left of what it had.
LEMMA AfterDestruction ==
  ASSUME RefInv, NEW a \in Attributes, NEW gone, Destroy(a, gone)
  PROVE  /\ values' = [i \in Items |-> IF i \in gone THEN << >> ELSE Left(a, i)]
         /\ refs' = [b \in Attributes |-> [i \in Items |->
                       IF i \in gone /\ b \in Range(Left(a, i)) THEN {}
                       ELSE IF b = a THEN {} ELSE refs[b][i]]]
         /\ broken' = broken /\ alive' = alive \ {a} /\ exists' = exists \ gone
<1> DEFINE now  == UnsetAll(Expired(Now, a), a)
           v    == [i \in Items |-> Left(a, i)]
           r    == [b \in Attributes |-> [i \in Items |-> IF b = a THEN {} ELSE refs[b][i]]]
<1>1. now.values = v /\ now.refs = r /\ now.broken = broken
  BY NothingToUnset
<1>2. DOMAIN now = {"values", "refs", "broken"}
  BY DEF UnsetAll, Expired, Now
<1>3. /\ Effect(DestroyItems(now, gone)) /\ alive' = alive \ {a} /\ exists' = exists \ gone
  BY DEF Destroy, Destroyed
<1> HIDE DEF now
<1>4. /\ values' = [i \in Items |-> IF i \in gone THEN << >> ELSE now.values[i]]
      /\ refs' = [b \in Attributes |-> [i \in Items |->
                    IF i \in gone /\ b \in Range(now.values[i]) THEN {} ELSE now.refs[b][i]]]
      /\ broken' = now.broken
  BY <1>2, <1>3 DEF Effect, DestroyItems
<1>5. QED
  BY <1>1, <1>3, <1>4

LEMMA DestroyKeeps ==
  ASSUME RefInv, NEW a \in Attributes, NEW gone, Owned(a) \subseteq gone, Destroy(a, gone)
  PROVE  RefInv'
<1>1. /\ values' = [i \in Items |-> IF i \in gone THEN << >> ELSE Left(a, i)]
      /\ refs' = [b \in Attributes |-> [i \in Items |->
                    IF i \in gone /\ b \in Range(Left(a, i)) THEN {}
                    ELSE IF b = a THEN {} ELSE refs[b][i]]]
      /\ broken' = broken /\ alive' = alive \ {a} /\ exists' = exists \ gone
  BY AfterDestruction
<1>2. \A i \in Items : Owner[i] = a => i \in gone
  BY DEF Owned
<1>3. ASSUME NEW b \in Attributes, NEW i \in Items
      PROVE  refs'[b][i] = {p \in DOMAIN values'[i] : values'[i][p] = b}
  <2>1. refs[b][i] = {p \in DOMAIN values[i] : values[i][p] = b} /\ b # Null
    BY RefConstantsOK DEF RefInv, EndsAgree
  <2>2. refs'[b][i] = IF i \in gone /\ b \in Range(Left(a, i)) THEN {}
                      ELSE IF b = a THEN {} ELSE refs[b][i]
    BY <1>1
  <2>3. DOMAIN Left(a, i) = DOMAIN values[i]
    BY LeftFacts
  <2>4. \A p \in DOMAIN values[i] : Left(a, i)[p] = IF values[i][p] = a THEN Null ELSE values[i][p]
    BY LeftFacts
  <2>5. b = a => \A p \in DOMAIN Left(a, i) : Left(a, i)[p] # b
    BY <2>1, <2>3, <2>4
  <2>6. b # a => {p \in DOMAIN Left(a, i) : Left(a, i)[p] = b} = refs[b][i]
    BY <2>1, <2>3, <2>4
  <2>7. CASE i \in gone
    <3>1. values'[i] = << >>
      BY <1>1, <2>7
    <3>2. b # a /\ b \notin Range(Left(a, i)) => refs[b][i] = {}
      BY <2>6 DEF Range
    <3>3. refs'[b][i] = {}
      BY <2>2, <3>2, <2>7
    <3>4. QED
      BY <3>1, <3>3
  <2>8. CASE i \notin gone
    <3>1. values'[i] = Left(a, i)
      BY <1>1, <2>8
    <3>2. refs'[b][i] = IF b = a THEN {} ELSE refs[b][i]
      BY <2>2, <2>8
    <3>3. QED
      BY <3>1, <3>2, <2>5, <2>6
  <2>9. QED
    BY <2>7, <2>8
<1>4. RefTypeOK'
  <2>1. \A i \in Items : values'[i] \in Seq(Attributes \cup {Null})
    <3>1. << >> \in Seq(Slots)
      BY EmptySeq
    <3>2. QED
      BY <1>1, <3>1, LeftFacts DEF Slots
  <2>2. values' \in [Items -> Seq(Attributes \cup {Null})]
    BY <1>1, <2>1
  <2>3. refs' \in [Attributes -> [Items -> SUBSET (Nat \ {0})]]
    BY <1>1 DEF RefInv, RefTypeOK
  <2>4. alive' \subseteq Attributes /\ exists' \subseteq Items /\ broken' \in BOOLEAN
    BY <1>1 DEF RefInv, RefTypeOK
  <2>5. QED
    BY <2>2, <2>3, <2>4 DEF RefTypeOK
<1>5. EndsAgree'
  BY <1>3 DEF EndsAgree
<1>6. AssertionsHold'
  BY <1>1 DEF RefInv, AssertionsHold
<1>7. LifeTimes'
  <2>1. ASSUME NEW i \in Items, i \notin exists' PROVE values'[i] = << >>
    <3>1. CASE i \in gone
      BY <1>1, <3>1
    <3>2. CASE i \notin gone
      <4>1. values[i] = << >>
        BY <1>1, <2>1, <3>2 DEF RefInv, LifeTimes
      <4>2. QED
        BY <1>1, <3>2, <4>1, LeftFacts
    <3>3. QED
      BY <3>1, <3>2
  <2>2. ASSUME NEW i \in exists', Owner[i] # Null PROVE Owner[i] \in alive'
    BY <1>1, <1>2, <2>2 DEF RefInv, LifeTimes, RefTypeOK
  <2>3. ASSUME NEW i \in Items, NEW p \in DOMAIN values'[i] PROVE values'[i][p] \in alive' \cup {Null}
    <3>1. CASE i \in gone
      BY <1>1, <2>3, <3>1
    <3>2. CASE i \notin gone
      <4>1. values'[i] = Left(a, i)
        BY <1>1, <3>2
      <4>2. QED
        BY <1>1, <2>3, <4>1, LeftFacts
    <3>3. QED
      BY <3>1, <3>2
  <2>4. QED
    BY <2>1, <2>2, <2>3 DEF LifeTimes
<1>8. QED
  BY <1>4, <1>5, <1>6, <1>7 DEF RefInv

-----------------------------------------------------------------------------
(* The specification *)

LEMMA InitInv ==
  ASSUME RefInit
  PROVE  RefInv
<1>1. \A i \in Items : values[i] = << >> /\ << >> \in Seq(Attributes \cup {Null})
  BY EmptySeq DEF RefInit
<1>2. RefTypeOK
  BY <1>1 DEF RefInit, RefTypeOK
<1>3. EndsAgree
  BY <1>1 DEF RefInit, EndsAgree
<1>4. AssertionsHold /\ LifeTimes
  BY <1>1 DEF RefInit, AssertionsHold, LifeTimes
<1>5. QED
  BY <1>2, <1>3, <1>4 DEF RefInv

LEMMA NextKeeps ==
  ASSUME RefInv, ~Careless, [RefNext]_refVars
  PROVE  RefInv'
<1>1. CASE UNCHANGED refVars
  BY <1>1 DEF refVars, RefInv, RefTypeOK, EndsAgree, AssertionsHold, LifeTimes
<1>2. ASSUME NEW a \in Attributes, BuildAttribute(a) PROVE RefInv'
  BY <1>2, CreateKeeps
<1>3. ASSUME NEW a \in Attributes, DestroyAttribute(a) PROVE RefInv'
  BY <1>3, DestroyKeeps DEF DestroyAttribute
<1>4. ASSUME NEW i \in Items, Owner[i] = Null, Make(i) PROVE RefInv'
  BY <1>4, MakeKeeps
<1>5. ASSUME NEW i \in exists, Drop(i) PROVE RefInv'
  BY <1>5, DropKeeps
<1>6. ASSUME NEW i \in exists, OnItem(i) PROVE RefInv'
  <2>1. ASSUME NEW a \in alive, Add(i, a) PROVE RefInv'
    BY <2>1, AddKeeps
  <2>2. ASSUME NEW a \in alive, NEW p \in DOMAIN values[i], Set(i, p, a) PROVE RefInv'
    BY <2>2, SetKeeps
  <2>3. ASSUME NEW p \in DOMAIN values[i], Clear(i, p) PROVE RefInv'
    BY <2>3, ClearKeeps
  <2>4. ASSUME NEW p \in DOMAIN values[i], TakeOut(i, p) PROVE RefInv'
    BY <2>4, TakeOutKeeps
  <2>5. ASSUME NEW n \in 0 .. MaxLen, Resize(i, n) PROVE RefInv'
    <3>1. n \in Nat
      BY RefConstantsOK
    <3>2. QED
      BY <2>5, <3>1, ResizeKeeps
  <2>6. ASSUME Reset(i) PROVE RefInv'
    BY <2>6, ResetKeeps
  <2>7. ASSUME NEW j \in exists, Assign(i, j) PROVE RefInv'
    BY <2>7, AssignKeeps
  <2>8. QED
    BY <1>6, <2>1, <2>2, <2>3, <2>4, <2>5, <2>6, <2>7 DEF OnItem
<1>7. QED
  BY <1>1, <1>2, <1>3, <1>4, <1>5, <1>6 DEF RefNext

LEMMA Inductive == ASSUME ~Careless PROVE RefSpec => []RefInv
<1>1. RefInit => RefInv
  BY InitInv
<1>2. RefInv /\ [RefNext]_refVars => RefInv'
  BY NextKeeps
<1>3. QED
  BY <1>1, <1>2, PTL DEF RefSpec

\* What an item holds (RefItem::m_values) and what attributes have of it
\* (Attribute::m_references) is the same in every state, for items of any size
\* and any number of attributes, if clients are careful.
THEOREM ReferencesSafe == ASSUME ~Careless PROVE RefSpec => []EndsAgree
<1>1. RefInv => EndsAgree
  BY DEF RefInv
<1>2. QED
  BY <1>1, Inductive, PTL

\* The assertion of RefItem::unset holds whenever ~Attribute reaches it, and
\* nothing is called on an item that is gone.
THEOREM DestructorsSafe == ASSUME ~Careless PROVE RefSpec => []AssertionsHold
<1>1. RefInv => AssertionsHold
  BY DEF RefInv
<1>2. QED
  BY <1>1, Inductive, PTL

\* The variables keep their types.
THEOREM ReferencesTyped == ASSUME ~Careless PROVE RefSpec => []RefTypeOK
<1>1. RefInv => RefTypeOK
  BY DEF RefInv
<1>2. QED
  BY <1>1, Inductive, PTL

\* ~Attribute takes nothing from the items that stay but the references to the
\* attribute itself.
THEOREM DestructionSafe == ASSUME ~Careless PROVE RefSpec => DestructionIsLocal
<1> DEFINE Local ==
      \A i \in exists \cap exists' :
        alive' \subseteq alive /\ alive' # alive =>
          \A p \in DOMAIN values[i] :
            values[i][p] \in alive' => p \in DOMAIN values'[i] /\ values'[i][p] = values[i][p]
<1>1. ASSUME RefInv, NEW a \in Attributes, DestroyAttribute(a)
      PROVE  Local
  <2> SUFFICES ASSUME NEW i \in exists \cap exists', NEW p \in DOMAIN values[i], values[i][p] \in alive'
               PROVE  p \in DOMAIN values'[i] /\ values'[i][p] = values[i][p]
    OBVIOUS
  <2>1. values'[i] = Left(a, i) /\ values[i][p] # a
    BY <1>1, AfterDestruction DEF DestroyAttribute, RefInv, RefTypeOK
  <2>2. QED
    BY <1>1, <2>1 DEF Left
<1>2. ASSUME RefNext, ~ \E a \in Attributes : DestroyAttribute(a)
      PROVE  ~(alive' \subseteq alive /\ alive' # alive)
  BY <1>2 DEF RefNext, BuildAttribute, Make, Drop, OnItem, Add, Set, Clear, TakeOut, Resize, Reset,
              Assign, Call
<1>3. RefInv /\ [RefNext]_refVars => [Local]_refVars
  BY <1>1, <1>2
<1> HIDE DEF Local
<1>4. RefSpec => [][Local]_refVars
  BY <1>3, Inductive, PTL DEF RefSpec
<1>5. QED
  BY <1>4 DEF DestructionIsLocal, Local

-----------------------------------------------------------------------------
(* Items of values: the states between the calls                             *)

\* What a vector of values may hold.
Values == Data \cup {None}

\* The record that calls are operators on has these fields.
Fields == {"values", "refs", "broken", "exists", "data", "isSet", "index", "exprs", "active", "ok"}

Shape(s) == s = [f \in Fields |-> s[f]]

\* What attributes have of references is what the items hold.
RefsOf(vals) == [a \in Attributes |-> [i \in Items |-> {p \in DOMAIN vals[i] : vals[i][p] = a}]]

\* The attributes in L that every element may have for an expression.
Possible(L) == {a \in L : \A y \in Pool : a \in Fits[y]}

\* RefItems that are not there hold nothing, one that is there for an
\* expression holds one value, and all hold attributes in L.
RefsGood(s, L) ==
  /\ s.values \in [Items -> Seq(Slots)] /\ s.exists \subseteq Items
  /\ s.refs = RefsOf(s.values) /\ s.broken = FALSE
  /\ \A i \in Items : i \notin s.exists => s.values[i] = << >>
  /\ \A i \in s.exists : Owner[i] # Null => Owner[i] \in L
  /\ \A i \in Items : \A p \in DOMAIN s.values[i] : s.values[i][p] \in L \cup {Null}
  /\ \A x \in Pool \cap s.exists : \E c \in Possible(L) \cup {Null} : s.values[x] = << c >>

\* The vectors are of the length of the item, data of a discrete item are its
\* indices, and what is set has one.
ItemGood(s, v) ==
  LET n == Size(s, v) IN
  /\ n \in Nat /\ n <= MaxLen
  /\ s.isSet[v] \in [1 .. n -> BOOLEAN]
  /\ s.data[v] \in [1 .. n -> Valid[v] \cup {None}]
  /\ s.index[v] \in [1 .. (IF Discrete[v] THEN n ELSE 0) -> Valid[v] \cup {None}]
  /\ s.exprs[v] \in [1 .. (IF Allows[v] THEN n ELSE 0) -> Pool]
  /\ s.active[v] \in Values
  /\ Discrete[v] => \A e \in 1 .. n : /\ s.index[v][e] = s.data[v][e]
                                      /\ s.isSet[v][e] => s.data[v][e] # None

\* Every element has a RefItem of its own and the others are gone.
Owns(s) ==
  /\ \A v, w \in ValueItems : \A e \in DOMAIN s.exprs[v], f \in DOMAIN s.exprs[w] :
       s.exprs[v][e] = s.exprs[w][f] => v = w /\ e = f
  /\ \A x \in Pool : x \in s.exists <=> \E v \in ValueItems : \E e \in DOMAIN s.exprs[v] : s.exprs[v][e] = x

\* The active children are those of the first value.
Follows(s, v) == Discrete[v] /\ ~Extensible[v] /\ AtLeast[v] > 0 => s.active[v] = s.index[v][1]

\* The item has a size its definition allows, and its children follow.
Fitting(s, v) ==
  /\ IF Extensible[v] THEN WithinLimits(v, Size(s, v)) ELSE Size(s, v) = AtLeast[v]
  /\ Follows(s, v)

\* Every item has an entry in every table.
Tables(s) ==
  /\ s.data = [v \in ValueItems |-> s.data[v]] /\ s.isSet = [v \in ValueItems |-> s.isSet[v]]
  /\ s.index = [v \in ValueItems |-> s.index[v]] /\ s.exprs = [v \in ValueItems |-> s.exprs[v]]
  /\ s.active = [v \in ValueItems |-> s.active[v]]

\* A state in which the attributes in L are alive, and the items in S are part
\* of one.
Sound(s, L, S) ==
  /\ S \subseteq ValueItems /\ Shape(s) /\ s.ok \in BOOLEAN
  /\ RefsGood(s, L) /\ Tables(s) /\ Owns(s)
  /\ \A v \in ValueItems : ItemGood(s, v)
  /\ \A v \in S : Fitting(s, v)
  /\ \A v \in ValueItems \ S : Size(s, v) = 0

\* The expression of an element, and what clients see of it.
Attr(s, v, e) == IF Allows[v] THEN s.values[s.exprs[v][e]][1] ELSE Null

Seen(b, x, d) == IF ~b THEN NotSet ELSE IF x # Null THEN x ELSE d

\* An element shows its expression, its value or nothing.
LEMMA ElementSeen ==
  ASSUME NEW s, NEW v, NEW e
  PROVE  Element(s, v, e) = Seen(s.isSet[v][e], Attr(s, v, e), s.data[v][e])
BY DEF Element, Seen, Attr

\* The vectors of item w are the same.
Kept(s, t, w) ==
  /\ t.isSet[w] = s.isSet[w] /\ t.data[w] = s.data[w] /\ t.index[w] = s.index[w]
  /\ t.exprs[w] = s.exprs[w] /\ t.active[w] = s.active[w]

\* What is said of an item is said of its vectors.
LEMMA KeptGood ==
  ASSUME NEW s, NEW t, NEW w, Kept(s, t, w)
  PROVE  /\ Size(t, w) = Size(s, w)
         /\ ItemGood(s, w) => ItemGood(t, w)
         /\ Fitting(s, w) => Fitting(t, w)
<1>1. Size(t, w) = Size(s, w)
  BY DEF Kept, Size
<1>2. ItemGood(s, w) => ItemGood(t, w)
  BY <1>1 DEF Kept, ItemGood
<1>3. Fitting(s, w) => Fitting(t, w)
  BY <1>1 DEF Kept, Fitting, Follows
<1>4. QED
  BY <1>1, <1>2, <1>3

\* All but item v is the same in t as in s, its elements' expressions included.
Apart(s, t, v) ==
  \A w \in ValueItems \ {v} :
    /\ Kept(s, t, w)
    /\ \A e \in DOMAIN s.exprs[w] : t.values[s.exprs[w][e]] = s.values[s.exprs[w][e]]

\* Two calls in a row on v leave the others apart.
LEMMA ApartTwice ==
  ASSUME NEW s, NEW t, NEW u, NEW v, Apart(s, t, v), Apart(t, u, v)
  PROVE  Apart(s, u, v)
BY DEF Apart, Kept

\* An item that is left apart shows clients what it did.
LEMMA ApartShows ==
  ASSUME NEW s, NEW t, NEW v, Apart(s, t, v), NEW w \in ValueItems \ {v}, ItemGood(s, w)
  PROVE  Shown(t, w) = Shown(s, w)
<1> DEFINE n == Size(s, w)
<1>1. Size(t, w) = n
  BY DEF Apart, Kept, Size
<1>2. ASSUME NEW e \in 1 .. n PROVE Element(t, w, e) = Element(s, w, e)
  <2>1. /\ t.isSet[w][e] = s.isSet[w][e] /\ t.data[w][e] = s.data[w][e]
        /\ Allows[w] => e \in DOMAIN s.exprs[w]
    BY DEF Apart, Kept, ItemGood
  <2>2. Attr(t, w, e) = Attr(s, w, e)
    BY <2>1 DEF Apart, Kept, Attr
  <2>3. QED
    BY <2>1, <2>2, ElementSeen
<1> HIDE DEF n
<1>3. Shown(s, w) = [e \in 1 .. n |-> Element(s, w, e)] /\ Shown(t, w) = [e \in 1 .. n |-> Element(t, w, e)]
  BY <1>1 DEF Shown, n
<1>4. QED
  BY <1>2, <1>3

-----------------------------------------------------------------------------
(* One element changed                                                       *)

\* Element e of item v of s becomes d, b and x in t.
Became(s, t, v, e, d, b, x, act) ==
  /\ Shape(t) /\ t.ok \in BOOLEAN
  /\ t.exists = s.exists /\ t.exprs = s.exprs /\ t.broken = s.broken
  /\ t.data = [s.data EXCEPT ![v] = [s.data[v] EXCEPT ![e] = d]]
  /\ t.isSet = [s.isSet EXCEPT ![v] = [s.isSet[v] EXCEPT ![e] = b]]
  /\ t.index = IF Discrete[v] THEN [s.index EXCEPT ![v] = [s.index[v] EXCEPT ![e] = d]] ELSE s.index
  /\ t.values = IF Allows[v] THEN [s.values EXCEPT ![s.exprs[v][e]] = << x >>] ELSE s.values
  /\ t.refs = RefsOf(t.values)
  /\ t.active = [s.active EXCEPT ![v] = act]

\* What it may become.
MayBecome(s, v, e, d, b, x, act, L) ==
  /\ d \in Valid[v] \cup {None} /\ b \in BOOLEAN /\ act \in Values
  /\ x \in Possible(L) \cup {Null} /\ (~Allows[v] => x = Null)
  /\ Discrete[v] => (b => d # None)
  /\ Discrete[v] /\ ~Extensible[v] /\ AtLeast[v] > 0 => act = IF e = 1 THEN d ELSE s.index[v][1]

\* A change of one element that is allowed, of a state in order.
Change(s, t, v, e, d, b, x, act, L, S) ==
  /\ L \in SUBSET Attributes /\ Sound(s, L, S) /\ v \in ValueItems /\ e \in 1 .. Size(s, v)
  /\ MayBecome(s, v, e, d, b, x, act, L) /\ Became(s, t, v, e, d, b, x, act)

\* RefItems of expressions belong to no attribute and have one value.
LEMMA PoolItems == Pool \subseteq Items /\ \A x \in Pool : Owner[x] = Null /\ Required[x] = 1
BY ValueConstantsOK

\* The vectors agree after a change of one element.
LEMMA BecameVectors ==
  ASSUME NEW s, NEW t, NEW v, NEW e, NEW d, NEW b, NEW x, NEW act, NEW L, NEW S,
         Change(s, t, v, e, d, b, x, act, L, S)
  PROVE  /\ Size(t, v) = Size(s, v) /\ ItemGood(t, v) /\ Tables(t)
         /\ Follows(s, v) => Follows(t, v)
         /\ \A f \in 1 .. Size(s, v) : /\ t.data[v][f] = IF f = e THEN d ELSE s.data[v][f]
                                       /\ t.isSet[v][f] = IF f = e THEN b ELSE s.isSet[v][f]
         /\ \A w \in ValueItems \ {v} : Kept(s, t, w)
<1> /\ L \in SUBSET Attributes /\ Sound(s, L, S) /\ v \in ValueItems /\ e \in 1 .. Size(s, v)
    /\ MayBecome(s, v, e, d, b, x, act, L) /\ Became(s, t, v, e, d, b, x, act)
  BY DEF Change
<1> DEFINE n == Size(s, v)
<1>1. ItemGood(s, v) /\ Tables(s)
  BY DEF Sound
<1>2. /\ t.data[v] = [s.data[v] EXCEPT ![e] = d] /\ t.isSet[v] = [s.isSet[v] EXCEPT ![e] = b]
      /\ t.index[v] = IF Discrete[v] THEN [s.index[v] EXCEPT ![e] = d] ELSE s.index[v]
      /\ t.active[v] = act /\ t.exprs[v] = s.exprs[v]
      /\ \A w \in ValueItems \ {v} : Kept(s, t, w)
      /\ Tables(t)
  BY <1>1 DEF Became, Tables, Kept
<1> HIDE DEF n
<1>3. /\ n \in Nat /\ n <= MaxLen /\ s.isSet[v] \in [1 .. n -> BOOLEAN]
      /\ s.data[v] \in [1 .. n -> Valid[v] \cup {None}]
      /\ s.index[v] \in [1 .. (IF Discrete[v] THEN n ELSE 0) -> Valid[v] \cup {None}]
      /\ s.exprs[v] \in [1 .. (IF Allows[v] THEN n ELSE 0) -> Pool]
      /\ e \in 1 .. n /\ d \in Valid[v] \cup {None} /\ b \in BOOLEAN /\ act \in Values
  BY <1>1 DEF ItemGood, n, MayBecome
<1>4. t.isSet[v] \in [1 .. n -> BOOLEAN] /\ t.data[v] \in [1 .. n -> Valid[v] \cup {None}]
  BY <1>2, <1>3
<1>5. t.index[v] \in [1 .. (IF Discrete[v] THEN n ELSE 0) -> Valid[v] \cup {None}]
  BY <1>2, <1>3
<1>6. Size(t, v) = n
  BY <1>3, <1>4, TableIsSeq DEF Size
<1>7. Discrete[v] => \A f \in 1 .. n : /\ t.index[v][f] = t.data[v][f]
                                       /\ t.isSet[v][f] => t.data[v][f] # None
  BY <1>1, <1>2, <1>3 DEF ItemGood, n, MayBecome
<1>8. ItemGood(t, v)
  BY <1>2, <1>3, <1>4, <1>5, <1>6, <1>7 DEF ItemGood
<1>9. Follows(s, v) => Follows(t, v)
  <2> HAVE Follows(s, v)
  <2> SUFFICES ASSUME Discrete[v], ~Extensible[v], AtLeast[v] > 0
               PROVE  t.active[v] = t.index[v][1]
    BY DEF Follows
  <2>1. act = IF e = 1 THEN d ELSE s.index[v][1]
    BY DEF MayBecome
  <2>2. t.index[v][1] = IF e = 1 THEN d ELSE s.index[v][1]
    BY <1>2, <1>3
  <2>3. QED
    BY <1>2, <2>1, <2>2
<1>10. \A f \in 1 .. n : /\ t.data[v][f] = IF f = e THEN d ELSE s.data[v][f]
                         /\ t.isSet[v][f] = IF f = e THEN b ELSE s.isSet[v][f]
  BY <1>2, <1>3
<1>11. QED
  BY <1>2, <1>6, <1>8, <1>9, <1>10 DEF n

\* The references are in order after a change of one element, and no other
\* element has another expression.
LEMMA BecameRefs ==
  ASSUME NEW s, NEW t, NEW v, NEW e, NEW d, NEW b, NEW x, NEW act, NEW L, NEW S,
         Change(s, t, v, e, d, b, x, act, L, S)
  PROVE  /\ RefsGood(t, L) /\ Owns(t)
         /\ Attr(t, v, e) = x
         /\ \A f \in DOMAIN s.exprs[v] : f # e => t.values[s.exprs[v][f]] = s.values[s.exprs[v][f]]
         /\ \A w \in ValueItems \ {v} : \A f \in DOMAIN s.exprs[w] :
              t.values[s.exprs[w][f]] = s.values[s.exprs[w][f]]
<1> /\ L \in SUBSET Attributes /\ Sound(s, L, S) /\ v \in ValueItems /\ e \in 1 .. Size(s, v)
    /\ MayBecome(s, v, e, d, b, x, act, L) /\ Became(s, t, v, e, d, b, x, act)
  BY DEF Change
<1> DEFINE i == s.exprs[v][e]
<1>1. RefsGood(s, L) /\ Owns(s) /\ t.exprs = s.exprs /\ t.exists = s.exists /\ t.broken = s.broken
  BY DEF Sound, Became, Change
<1>2. Owns(t)
  BY <1>1 DEF Owns
<1>3. CASE ~Allows[v]
  <2>1. t.values = s.values /\ t.refs = s.refs /\ x = Null
    BY <1>1, <1>3 DEF Became, RefsGood, MayBecome
  <2>2. RefsGood(t, L)
    BY <1>1, <2>1 DEF RefsGood
  <2>3. QED
    BY <1>2, <1>3, <2>1, <2>2 DEF Attr
<1>4. CASE Allows[v]
  <2>1. e \in DOMAIN s.exprs[v] /\ i \in Pool
    BY <1>4 DEF Sound, ItemGood
  <2>2. i \in Pool /\ i \in s.exists /\ i \in Items
    BY <1>1, <2>1, PoolItems DEF Owns
  <2>3. t.values = [s.values EXCEPT ![i] = << x >>] /\ t.refs = RefsOf(t.values)
    BY <1>4 DEF Became
  <2>4. \A w \in ValueItems : \A f \in DOMAIN s.exprs[w] : s.exprs[w][f] = i => w = v /\ f = e
    BY <1>1, <2>1 DEF Owns
  <2> HIDE DEF i
  <2>5. x \in Possible(L) \cup {Null} /\ x \in L \cup {Null} /\ x \in Slots
    BY DEF MayBecome, Possible, Slots
  <2>6. /\ t.values \in [Items -> Seq(Slots)] /\ t.values[i] = << x >>
        /\ \A j \in Items : j # i => t.values[j] = s.values[j]
    BY <1>1, <2>2, <2>3, <2>5 DEF RefsGood
  <2>7. RefsGood(t, L)
    <3>1. ASSUME NEW j \in Items, j \notin t.exists PROVE t.values[j] = << >>
      BY <1>1, <2>2, <2>6, <3>1 DEF RefsGood
    <3>2. ASSUME NEW j \in Items, NEW p \in DOMAIN t.values[j] PROVE t.values[j][p] \in L \cup {Null}
      <4>1. CASE j = i
        BY <2>5, <2>6, <3>2, <4>1
      <4>2. CASE j # i
        BY <1>1, <2>6, <3>2, <4>2 DEF RefsGood
      <4>3. QED
        BY <4>1, <4>2
    <3>3. ASSUME NEW j \in Pool \cap t.exists
          PROVE  \E c \in Possible(L) \cup {Null} : t.values[j] = << c >>
      BY <1>1, <2>5, <2>6, PoolItems DEF RefsGood
    <3>4. QED
      BY <1>1, <2>3, <2>6, <3>1, <3>2, <3>3 DEF RefsGood
  <2>8. Attr(t, v, e) = x
    BY <1>1, <1>4, <2>6 DEF Attr, i
  <2>9. ASSUME NEW w \in ValueItems, NEW f \in DOMAIN s.exprs[w], w # v \/ f # e
        PROVE  t.values[s.exprs[w][f]] = s.values[s.exprs[w][f]]
    <3>1. s.exprs[w][f] \in Pool /\ s.exprs[w][f] # i
      BY <2>4, <2>9 DEF Sound, ItemGood
    <3>2. QED
      BY <2>6, <3>1, PoolItems
  <2>10. QED
    BY <1>2, <2>7, <2>8, <2>9
<1>5. QED
  BY <1>3, <1>4

\* Then t is as good a state as s, and only that element has changed.
LEMMA BecameGood ==
  ASSUME NEW s, NEW t, NEW v, NEW e, NEW d, NEW b, NEW x, NEW act, NEW L, NEW S,
         Change(s, t, v, e, d, b, x, act, L, S)
  PROVE  /\ Sound(t, L, S) /\ Apart(s, t, v) /\ Size(t, v) = Size(s, v)
         /\ Element(t, v, e) = Seen(b, x, d)
         /\ \A f \in 1 .. Size(s, v) : f # e => /\ Element(t, v, f) = Element(s, v, f)
                                               /\ t.data[v][f] = s.data[v][f]
                                               /\ Attr(t, v, f) = Attr(s, v, f)
<1> /\ L \in SUBSET Attributes /\ Sound(s, L, S) /\ v \in ValueItems /\ e \in 1 .. Size(s, v)
    /\ MayBecome(s, v, e, d, b, x, act, L) /\ Became(s, t, v, e, d, b, x, act)
  BY DEF Change
<1> DEFINE n == Size(s, v)
<1>1. ItemGood(s, v) /\ Tables(s)
  BY DEF Sound
<1>2. /\ Size(t, v) = n /\ ItemGood(t, v) /\ Tables(t) /\ (Follows(s, v) => Follows(t, v))
      /\ \A f \in 1 .. n : /\ t.data[v][f] = IF f = e THEN d ELSE s.data[v][f]
                          /\ t.isSet[v][f] = IF f = e THEN b ELSE s.isSet[v][f]
      /\ \A w \in ValueItems \ {v} : Kept(s, t, w)
  BY BecameVectors
<1>3. /\ RefsGood(t, L) /\ Owns(t) /\ Attr(t, v, e) = x
      /\ \A f \in DOMAIN s.exprs[v] : f # e => t.values[s.exprs[v][f]] = s.values[s.exprs[v][f]]
      /\ \A w \in ValueItems \ {v} : \A f \in DOMAIN s.exprs[w] :
           t.values[s.exprs[w][f]] = s.values[s.exprs[w][f]]
  BY BecameRefs
<1>4. t.exprs = s.exprs /\ Shape(t) /\ t.ok \in BOOLEAN
  BY DEF Became
<1>5. Apart(s, t, v)
  BY <1>2, <1>3, <1>4 DEF Apart, Kept
<1>6. Sound(t, L, S)
  <2>1. ASSUME NEW w \in ValueItems \ {v}
        PROVE  ItemGood(t, w) /\ Size(t, w) = Size(s, w) /\ (Fitting(s, w) => Fitting(t, w))
    BY <1>2, KeptGood DEF Sound
  <2>2. Fitting(s, v) => Fitting(t, v)
    BY <1>2 DEF Fitting
  <2>3. \A w \in ValueItems : ItemGood(t, w) /\ Size(t, w) = Size(s, w)
    BY <1>2, <2>1
  <2>4. \A w \in S : Fitting(t, w)
    BY <2>1, <2>2 DEF Sound
  <2>5. QED
    BY <1>2, <1>3, <1>4, <2>3, <2>4 DEF Sound
<1>7. Allows[v] => DOMAIN s.exprs[v] = 1 .. n
  BY <1>1 DEF ItemGood
<1> HIDE DEF n
<1>8. Element(t, v, e) = Seen(b, x, d)
  BY <1>2, <1>3, <1>7, ElementSeen DEF n
<1>9. ASSUME NEW f \in 1 .. n, f # e
      PROVE  /\ Element(t, v, f) = Element(s, v, f) /\ t.data[v][f] = s.data[v][f]
             /\ Attr(t, v, f) = Attr(s, v, f)
  <2>1. t.isSet[v][f] = s.isSet[v][f] /\ t.data[v][f] = s.data[v][f]
    BY <1>2, <1>9 DEF n
  <2>2. Attr(t, v, f) = Attr(s, v, f)
    BY <1>3, <1>4, <1>7, <1>9 DEF Attr
  <2>3. QED
    BY <2>1, <2>2, ElementSeen
<1>10. QED
  BY <1>2, <1>5, <1>6, <1>8, <1>9 DEF n

-----------------------------------------------------------------------------
(* The vectors of an item replaced                                           *)

\* The vectors of item v of s become dt, st and ex in t: RefItems that are new
\* hold nothing yet, those that are left out are destroyed.
Rebuilt(s, t, v, dt, st, ex, act) ==
  /\ Shape(t) /\ t.ok \in BOOLEAN /\ t.broken = s.broken
  /\ t.data = [s.data EXCEPT ![v] = dt] /\ t.isSet = [s.isSet EXCEPT ![v] = st]
  /\ t.index = IF Discrete[v] THEN [s.index EXCEPT ![v] = dt] ELSE s.index
  /\ t.exprs = [s.exprs EXCEPT ![v] = ex] /\ t.active = [s.active EXCEPT ![v] = act]
  /\ t.exists = (s.exists \ Range(s.exprs[v])) \cup Range(ex)
  /\ t.values = [i \in Items |-> IF i \in Range(ex) THEN IF i \in Range(s.exprs[v]) THEN s.values[i] ELSE << Null >>
                                 ELSE IF i \in Range(s.exprs[v]) THEN << >> ELSE s.values[i]]
  /\ t.refs = RefsOf(t.values)

\* What they may become.
MayRebuild(s, v, dt, st, ex, act, n) ==
  /\ n \in Nat /\ n <= MaxLen /\ act \in Values
  /\ dt \in [1 .. n -> Valid[v] \cup {None}] /\ st \in [1 .. n -> BOOLEAN]
  /\ ex \in [1 .. (IF Allows[v] THEN n ELSE 0) -> Pool]
  /\ \A e, f \in DOMAIN ex : ex[e] = ex[f] => e = f
  /\ \A e \in DOMAIN ex : ex[e] \in Range(s.exprs[v]) \/ ex[e] \notin s.exists
  /\ Discrete[v] => \A e \in 1 .. n : st[e] => dt[e] # None
  /\ IF Extensible[v] THEN WithinLimits(v, n) ELSE n = AtLeast[v]
  /\ Discrete[v] /\ ~Extensible[v] /\ AtLeast[v] > 0 => act = dt[1]

\* Vectors built anew in an allowed way, from a state in order.
Rebuild(s, t, v, dt, st, ex, act, n, L, S) ==
  /\ L \in SUBSET Attributes /\ Sound(s, L, S) /\ v \in ValueItems
  /\ MayRebuild(s, v, dt, st, ex, act, n) /\ Rebuilt(s, t, v, dt, st, ex, act)

\* The vectors agree after they were built anew.
LEMMA RebuiltVectors ==
  ASSUME NEW s, NEW t, NEW v, NEW dt, NEW st, NEW ex, NEW act, NEW n, NEW L, NEW S,
         Rebuild(s, t, v, dt, st, ex, act, n, L, S)
  PROVE  /\ Size(t, v) = n /\ ItemGood(t, v) /\ Tables(t) /\ Fitting(t, v)
         /\ t.data[v] = dt /\ t.isSet[v] = st /\ t.exprs[v] = ex
         /\ \A w \in ValueItems \ {v} : Kept(s, t, w)
<1> /\ L \in SUBSET Attributes /\ Sound(s, L, S) /\ v \in ValueItems
    /\ MayRebuild(s, v, dt, st, ex, act, n) /\ Rebuilt(s, t, v, dt, st, ex, act)
  BY DEF Rebuild
<1>1. Tables(s) /\ ItemGood(s, v)
  BY DEF Sound
<1>2. /\ t.data[v] = dt /\ t.isSet[v] = st /\ t.exprs[v] = ex /\ t.active[v] = act
      /\ t.index[v] = IF Discrete[v] THEN dt ELSE s.index[v]
      /\ \A w \in ValueItems \ {v} : Kept(s, t, w)
      /\ Tables(t)
  BY <1>1 DEF Rebuilt, Tables, Kept
<1>3. /\ n \in Nat /\ n <= MaxLen /\ act \in Values
      /\ dt \in [1 .. n -> Valid[v] \cup {None}] /\ st \in [1 .. n -> BOOLEAN]
      /\ ex \in [1 .. (IF Allows[v] THEN n ELSE 0) -> Pool]
  BY DEF MayRebuild
<1>4. Size(t, v) = n
  BY <1>2, <1>3, TableIsSeq DEF Size
<1>5. t.index[v] \in [1 .. (IF Discrete[v] THEN n ELSE 0) -> Valid[v] \cup {None}]
  <2>1. CASE Discrete[v]
    BY <1>2, <1>3, <2>1
  <2>2. CASE ~Discrete[v]
    BY <1>1, <1>2, <2>2 DEF ItemGood
  <2>3. QED
    BY <2>1, <2>2
<1>6. Discrete[v] => \A e \in 1 .. n : /\ t.index[v][e] = t.data[v][e]
                                       /\ t.isSet[v][e] => t.data[v][e] # None
  BY <1>2 DEF MayRebuild
<1>7. ItemGood(t, v)
  BY <1>2, <1>3, <1>4, <1>5, <1>6 DEF ItemGood
<1>8. Fitting(t, v)
  BY <1>2, <1>4 DEF Fitting, Follows, MayRebuild
<1>9. QED
  BY <1>2, <1>4, <1>7, <1>8

\* The references are in order after vectors were built anew: RefItems that are
\* kept have what they had, new ones hold nothing.
LEMMA RebuiltRefs ==
  ASSUME NEW s, NEW t, NEW v, NEW dt, NEW st, NEW ex, NEW act, NEW n, NEW L, NEW S,
         Rebuild(s, t, v, dt, st, ex, act, n, L, S)
  PROVE  /\ RefsGood(t, L) /\ Owns(t)
         /\ \A e \in DOMAIN ex : t.values[ex[e]] = IF ex[e] \in Range(s.exprs[v]) THEN s.values[ex[e]] ELSE << Null >>
         /\ \A w \in ValueItems \ {v} : \A e \in DOMAIN s.exprs[w] :
              t.values[s.exprs[w][e]] = s.values[s.exprs[w][e]]
<1> /\ L \in SUBSET Attributes /\ Sound(s, L, S) /\ v \in ValueItems
    /\ MayRebuild(s, v, dt, st, ex, act, n) /\ Rebuilt(s, t, v, dt, st, ex, act)
  BY DEF Rebuild
<1> DEFINE old == Range(s.exprs[v])
           now == Range(ex)
<1>1. RefsGood(s, L) /\ Owns(s)
  BY DEF Sound
<1>2. /\ \A w \in ValueItems : \A e \in DOMAIN s.exprs[w] : s.exprs[w][e] \in Pool
      /\ \A e \in DOMAIN ex : ex[e] \in Pool
  <2>1. \A w \in ValueItems : \A e \in DOMAIN s.exprs[w] : s.exprs[w][e] \in Pool
    BY DEF Sound, ItemGood
  <2>2. \A e \in DOMAIN ex : ex[e] \in Pool
    BY DEF MayRebuild
  <2>3. QED
    BY <2>1, <2>2
<1>3. now \subseteq Pool /\ old \subseteq Pool /\ old \subseteq s.exists
  BY <1>1, <1>2 DEF Owns, Range
<1>4. \A x \in now : x \in old \/ x \notin s.exists
  BY DEF MayRebuild, Range
<1>5. \A w \in ValueItems \ {v} : \A e \in DOMAIN s.exprs[w] :
        s.exprs[w][e] \in s.exists /\ s.exprs[w][e] \notin old
  BY <1>1, <1>2 DEF Owns, Range
<1>6. t.exprs[v] = ex /\ \A w \in ValueItems \ {v} : t.exprs[w] = s.exprs[w]
  BY RebuiltVectors DEF Kept
<1>7. t.exists = (s.exists \ old) \cup now
  BY DEF Rebuilt
<1>8. Owns(t)
  <2>1. ASSUME NEW u \in ValueItems, NEW w \in ValueItems,
               NEW e \in DOMAIN t.exprs[u], NEW f \in DOMAIN t.exprs[w], t.exprs[u][e] = t.exprs[w][f]
        PROVE  u = w /\ e = f
    <3>1. CASE u = v /\ w = v
      BY <1>6, <2>1, <3>1 DEF MayRebuild
    <3>2. CASE u # v /\ w # v
      BY <1>1, <1>6, <2>1, <3>2 DEF Owns
    <3>3. ASSUME NEW k \in ValueItems \ {v}, NEW g \in DOMAIN s.exprs[k], NEW h \in DOMAIN ex
          PROVE  s.exprs[k][g] # ex[h]
      BY <1>4, <1>5 DEF Range
    <3>4. QED
      BY <1>6, <2>1, <3>1, <3>2, <3>3
  <2>2. ASSUME NEW x \in Pool
        PROVE  x \in t.exists <=> \E w \in ValueItems : \E e \in DOMAIN t.exprs[w] : t.exprs[w][e] = x
    <3>1. x \in now <=> \E e \in DOMAIN t.exprs[v] : t.exprs[v][e] = x
      BY <1>6 DEF Range
    <3>2. x \in s.exists \ old <=> \E w \in ValueItems \ {v} : \E e \in DOMAIN t.exprs[w] : t.exprs[w][e] = x
      <4>1. x \in s.exists <=> \E w \in ValueItems : \E e \in DOMAIN s.exprs[w] : s.exprs[w][e] = x
        BY <1>1 DEF Owns
      <4>2. x \in old <=> \E e \in DOMAIN s.exprs[v] : s.exprs[v][e] = x
        BY DEF Range
      <4>3. QED
        BY <1>5, <1>6, <4>1, <4>2
    <3>3. QED
      BY <1>7, <3>1, <3>2
  <2>3. QED
    BY <2>1, <2>2 DEF Owns
<1> HIDE DEF old, now
<1>9. /\ DOMAIN t.values = Items /\ t.values = [i \in Items |-> t.values[i]]
      /\ \A i \in Items : t.values[i] = IF i \in now THEN IF i \in old THEN s.values[i] ELSE << Null >>
                                        ELSE IF i \in old THEN << >> ELSE s.values[i]
  BY DEF Rebuilt, old, now
<1>10. RefsGood(t, L)
  <2>1. << Null >> \in Seq(Slots) /\ << >> \in Seq(Slots) /\ Null \in L \cup {Null}
        /\ DOMAIN << Null >> = 1 .. 1 /\ << Null >>[1] = Null /\ DOMAIN << >> = {}
    BY EmptySeq DEF Slots
  <2>2. \A i \in Items : s.values[i] \in Seq(Slots)
    BY <1>1 DEF RefsGood
  <2>3. t.values \in [Items -> Seq(Slots)]
    BY <1>9, <2>1, <2>2
  <2>4. ASSUME NEW i \in Items, i \notin t.exists PROVE t.values[i] = << >>
    BY <1>1, <1>7, <1>9, <2>4 DEF RefsGood
  <2>5. ASSUME NEW i \in t.exists, Owner[i] # Null PROVE Owner[i] \in L
    BY <1>1, <1>3, <1>7, <2>5, PoolItems DEF RefsGood
  <2>6. ASSUME NEW i \in Items, NEW p \in DOMAIN t.values[i] PROVE t.values[i][p] \in L \cup {Null}
    <3>1. t.values[i] = s.values[i] \/ t.values[i] = << >> \/ t.values[i] = << Null >>
      BY <1>9
    <3>2. CASE t.values[i] = s.values[i]
      BY <1>1, <2>6, <3>2 DEF RefsGood
    <3>3. CASE t.values[i] = << >>
      BY <2>1, <2>6, <3>3
    <3>4. CASE t.values[i] = << Null >>
      BY <2>1, <2>6, <3>4
    <3>5. QED
      BY <3>1, <3>2, <3>3, <3>4
  <2>7. ASSUME NEW x \in Pool \cap t.exists
        PROVE  \E c \in Possible(L) \cup {Null} : t.values[x] = << c >>
    <3>1. x \in Items
      BY PoolItems
    <3>2. CASE x \in now /\ x \notin old
      BY <1>9, <3>1, <3>2
    <3>3. CASE ~(x \in now /\ x \notin old)
      <4>1. t.values[x] = s.values[x] /\ x \in s.exists
        BY <1>3, <1>7, <1>9, <3>1, <3>3
      <4>2. QED
        BY <1>1, <4>1 DEF RefsGood
    <3>4. QED
      BY <3>2, <3>3
  <2>8. t.refs = RefsOf(t.values) /\ t.broken = FALSE /\ t.exists \subseteq Items
    BY <1>1, <1>3, <1>7, PoolItems DEF Rebuilt, RefsGood
  <2>9. QED
    BY <2>3, <2>4, <2>5, <2>6, <2>7, <2>8 DEF RefsGood
<1>11. ASSUME NEW e \in DOMAIN ex
       PROVE  t.values[ex[e]] = IF ex[e] \in old THEN s.values[ex[e]] ELSE << Null >>
  <2>1. ex[e] \in now /\ ex[e] \in Items
    BY <1>2, PoolItems DEF now, Range
  <2>2. QED
    BY <1>9, <2>1
<1>12. ASSUME NEW w \in ValueItems \ {v}, NEW e \in DOMAIN s.exprs[w]
       PROVE  t.values[s.exprs[w][e]] = s.values[s.exprs[w][e]]
  <2>1. s.exprs[w][e] \in Items /\ s.exprs[w][e] \notin old /\ s.exprs[w][e] \notin now
    BY <1>2, <1>4, <1>5, PoolItems DEF old
  <2>2. QED
    BY <1>9, <2>1
<1>13. QED
  BY <1>8, <1>10, <1>11, <1>12 DEF old

\* What has its RefItem still has its expression, what is new has none.
ExprsKept(s, t, v, ex, n) ==
  /\ \A f \in 1 .. n, g \in 1 .. Size(s, v) :
       (Allows[v] => ex[f] = s.exprs[v][g]) => Attr(t, v, f) = Attr(s, v, g)
  /\ \A f \in 1 .. n : (Allows[v] => ex[f] \notin s.exists) => Attr(t, v, f) = Null

\* All is in order after vectors were built anew.
LEMMA RebuiltGood ==
  ASSUME NEW s, NEW t, NEW v, NEW dt, NEW st, NEW ex, NEW act, NEW n, NEW L, NEW S,
         Rebuild(s, t, v, dt, st, ex, act, n, L, S)
  PROVE  /\ Sound(t, L, S \cup {v}) /\ Apart(s, t, v) /\ Size(t, v) = n
         /\ t.data[v] = dt /\ t.isSet[v] = st /\ t.exprs[v] = ex
         /\ ExprsKept(s, t, v, ex, n)
<1> /\ L \in SUBSET Attributes /\ Sound(s, L, S) /\ v \in ValueItems
    /\ MayRebuild(s, v, dt, st, ex, act, n) /\ Rebuilt(s, t, v, dt, st, ex, act)
  BY DEF Rebuild
<1>1. /\ Size(t, v) = n /\ ItemGood(t, v) /\ Tables(t) /\ Fitting(t, v)
      /\ t.data[v] = dt /\ t.isSet[v] = st /\ t.exprs[v] = ex
      /\ \A w \in ValueItems \ {v} : Kept(s, t, w)
  BY RebuiltVectors
<1>2. /\ RefsGood(t, L) /\ Owns(t)
      /\ \A e \in DOMAIN ex : t.values[ex[e]] = IF ex[e] \in Range(s.exprs[v]) THEN s.values[ex[e]] ELSE << Null >>
      /\ \A w \in ValueItems \ {v} : \A e \in DOMAIN s.exprs[w] :
           t.values[s.exprs[w][e]] = s.values[s.exprs[w][e]]
  BY RebuiltRefs
<1>3. Apart(s, t, v)
  BY <1>1, <1>2 DEF Apart
<1>4. Sound(t, L, S \cup {v})
  <2>1. ASSUME NEW w \in ValueItems \ {v}
        PROVE  ItemGood(t, w) /\ Size(t, w) = Size(s, w) /\ (Fitting(s, w) => Fitting(t, w))
    BY <1>1, KeptGood DEF Sound
  <2>2. \A w \in ValueItems : ItemGood(t, w)
    BY <1>1, <2>1
  <2>3. \A w \in S \cup {v} : Fitting(t, w)
    BY <1>1, <2>1 DEF Sound
  <2>4. \A w \in ValueItems \ (S \cup {v}) : Size(t, w) = 0
    BY <2>1 DEF Sound
  <2>5. Shape(t) /\ t.ok \in BOOLEAN /\ S \cup {v} \subseteq ValueItems
    BY DEF Rebuilt, Sound
  <2>6. QED
    BY <1>1, <1>2, <2>2, <2>3, <2>4, <2>5 DEF Sound
<1>5. /\ Allows[v] => DOMAIN ex = 1 .. n /\ DOMAIN s.exprs[v] = 1 .. Size(s, v)
      /\ \A g \in DOMAIN s.exprs[v] : s.exprs[v][g] \in s.exists /\ s.exprs[v][g] \in Range(s.exprs[v])
      /\ \A e \in DOMAIN ex : ex[e] \in Range(s.exprs[v]) => ex[e] \in s.exists
  <2>1. Owns(s) /\ ItemGood(s, v)
    BY DEF Sound
  <2>2. \A g \in DOMAIN s.exprs[v] : s.exprs[v][g] \in Pool
    BY <2>1 DEF ItemGood
  <2>3. \A g \in DOMAIN s.exprs[v] : s.exprs[v][g] \in s.exists /\ s.exprs[v][g] \in Range(s.exprs[v])
    BY <2>1, <2>2 DEF Owns, Range
  <2>4. \A x \in Range(s.exprs[v]) : x \in s.exists
    BY <2>3 DEF Range
  <2>5. QED
    BY <2>1, <2>3, <2>4 DEF ItemGood, MayRebuild
<1>6. ASSUME NEW f \in 1 .. n, NEW g \in 1 .. Size(s, v), Allows[v] => ex[f] = s.exprs[v][g]
      PROVE  Attr(t, v, f) = Attr(s, v, g)
  <2>1. CASE ~Allows[v]
    BY <2>1 DEF Attr
  <2>2. CASE Allows[v]
    <3>1. f \in DOMAIN ex /\ ex[f] = s.exprs[v][g] /\ ex[f] \in Range(s.exprs[v])
      BY <1>5, <1>6, <2>2
    <3>2. t.values[ex[f]] = s.values[ex[f]]
      BY <1>2, <3>1
    <3>3. QED
      BY <1>1, <2>2, <3>1, <3>2 DEF Attr
  <2>3. QED
    BY <2>1, <2>2
<1>7. ASSUME NEW f \in 1 .. n, Allows[v] => ex[f] \notin s.exists
      PROVE  Attr(t, v, f) = Null
  <2>1. Allows[v] => t.values[ex[f]] = << Null >>
    BY <1>2, <1>5, <1>7
  <2>2. QED
    BY <1>1, <2>1 DEF Attr
<1>8. ExprsKept(s, t, v, ex, n)
  BY <1>6, <1>7 DEF ExprsKept
<1>9. QED
  BY <1>1, <1>3, <1>4, <1>8

-----------------------------------------------------------------------------
(* Sequences                                                                 *)

\* The sequence r is q of m elements in T made as long as n, without element e,
\* and with one more.
IsFilled(r, q, m, n, x, T) ==
  r \in [1 .. n -> T] /\ \A e \in 1 .. n : r[e] = IF e <= m THEN q[e] ELSE x

\* r is q without its element e.
IsWithout(r, q, m, e, T) ==
  r \in [1 .. m - 1 -> T] /\ \A i \in 1 .. m - 1 : r[i] = IF i < e THEN q[i] ELSE q[i + 1]

\* r is q with x behind it.
IsLonger(r, q, m, x, T) ==
  r \in [1 .. m + 1 -> T] /\ \A e \in 1 .. m + 1 : r[e] = IF e <= m THEN q[e] ELSE x

\* What resizing a vector does.
LEMMA FilledFacts ==
  ASSUME NEW T, NEW m \in Nat, NEW n \in Nat, NEW q \in [1 .. m -> T], NEW x \in T
  PROVE  IsFilled(Filled(q, n, x), q, m, n, x, T)
<1> USE DEF IsFilled
<1>1. q \in Seq(T) /\ Len(q) = m
  BY TableIsSeq
<1>2. CASE n <= m
  <2>1. \A i \in 1 .. n : q[i] \in T
    BY <1>2
  <2>2. /\ SubSeq(q, 1, n) \in Seq(T) /\ Len(SubSeq(q, 1, n)) = n
        /\ \A i \in 1 .. n : SubSeq(q, 1, n)[i] = q[i]
    BY <2>1, SubSeqProperties
  <2>3. Filled(q, n, x) = SubSeq(q, 1, n)
    BY <1>1, <1>2 DEF Filled
  <2>4. SubSeq(q, 1, n) \in [1 .. n -> T]
    BY <2>2, LenProperties
  <2>5. QED
    BY <1>2, <2>2, <2>3, <2>4
<1>3. CASE n > m
  <2> DEFINE r == [e \in 1 .. n - m |-> x]
  <2>1. r \in Seq(T) /\ Len(r) = n - m
    BY <1>3, TableIsSeq
  <2>2. \A e \in 1 .. n - m : r[e] = x
    OBVIOUS
  <2>3. Filled(q, n, x) = q \o r
    BY <1>1, <1>3 DEF Filled
  <2> HIDE DEF r
  <2>4. /\ q \o r \in Seq(T) /\ Len(q \o r) = n
        /\ \A i \in 1 .. n : (q \o r)[i] = IF i <= m THEN q[i] ELSE r[i - m]
    BY <1>1, <1>3, <2>1, ConcatProperties
  <2>5. \A i \in 1 .. n : (q \o r)[i] = IF i <= m THEN q[i] ELSE x
    BY <1>3, <2>2, <2>4
  <2>6. q \o r \in [1 .. n -> T]
    BY <2>4, LenProperties
  <2>7. QED
    BY <2>3, <2>5, <2>6
<1>4. QED
  BY <1>2, <1>3

\* What erasing from a vector does.
LEMMA RemoveAtFacts ==
  ASSUME NEW T, NEW m \in Nat, NEW q \in [1 .. m -> T], NEW e \in 1 .. m
  PROVE  IsWithout(RemoveAt(q, e), q, m, e, T)
<1> USE DEF IsWithout
<1> DEFINE front == SubSeq(q, 1, e - 1)
           back  == SubSeq(q, e + 1, m)
<1>1. Len(q) = m
  BY TableIsSeq
<1>2. /\ front \in Seq(T) /\ Len(front) = e - 1
      /\ \A i \in 1 .. e - 1 : front[i] = q[i]
  <2>1. \A i \in 1 .. e - 1 : q[i] \in T
    OBVIOUS
  <2>2. QED
    BY <2>1, SubSeqProperties
<1>3. /\ back \in Seq(T) /\ Len(back) = m - e
      /\ \A i \in 1 .. m - e : back[i] = q[e + i]
  <2>1. \A i \in e + 1 .. m : q[i] \in T
    OBVIOUS
  <2>2. /\ back \in Seq(T) /\ Len(back) = IF e + 1 <= m THEN m - (e + 1) + 1 ELSE 0
        /\ \A i \in 1 .. m - (e + 1) + 1 : back[i] = q[(e + 1) + i - 1]
    BY <2>1, SubSeqProperties
  <2>3. QED
    BY <2>2
<1>4. RemoveAt(q, e) = front \o back
  BY <1>1 DEF RemoveAt
<1> HIDE DEF front, back
<1>5. /\ front \o back \in Seq(T) /\ Len(front \o back) = m - 1
      /\ \A i \in 1 .. m - 1 : (front \o back)[i] = IF i <= e - 1 THEN front[i] ELSE back[i - (e - 1)]
  BY <1>2, <1>3, ConcatProperties
<1>6. front \o back \in [1 .. m - 1 -> T]
  BY <1>5, LenProperties
<1>7. ASSUME NEW i \in 1 .. m - 1
      PROVE  (front \o back)[i] = IF i < e THEN q[i] ELSE q[i + 1]
  <2>1. CASE i < e
    BY <1>2, <1>5, <2>1
  <2>2. CASE i >= e
    <3>1. i - (e - 1) \in 1 .. m - e /\ e + (i - (e - 1)) = i + 1
      BY <2>2
    <3>2. back[i - (e - 1)] = q[i + 1]
      BY <1>3, <3>1
    <3>3. QED
      BY <1>5, <2>2, <3>2
  <2>3. i < e \/ i >= e
    OBVIOUS
  <2>4. QED
    BY <2>1, <2>2, <2>3
<1>8. QED
  BY <1>4, <1>6, <1>7

\* What push_back does.
LEMMA AppendFacts ==
  ASSUME NEW T, NEW m \in Nat, NEW q \in [1 .. m -> T], NEW x \in T
  PROVE  IsLonger(Append(q, x), q, m, x, T)
<1> USE DEF IsLonger
<1>1. q \in Seq(T) /\ Len(q) = m
  BY TableIsSeq
<1>2. /\ Append(q, x) \in Seq(T) /\ Len(Append(q, x)) = m + 1
      /\ \A e \in 1 .. m : Append(q, x)[e] = q[e]
      /\ Append(q, x)[m + 1] = x
  BY <1>1, AppendProperties
<1>3. Append(q, x) \in [1 .. m + 1 -> T]
  BY <1>2, LenProperties
<1>4. QED
  BY <1>2, <1>3

-----------------------------------------------------------------------------
(* RefItems for new elements                                                 *)

\* The RefItems that buildExpressionItem makes.
Fresh(s, k) == CHOOSE f \in [1 .. k -> Pool \ s.exists] : IsInjective(f)

\* There are as many RefItems left as elements an item may get.
LEMMA EnoughLeft ==
  ASSUME NEW s, NEW L, NEW S, Sound(s, L, S), NEW v \in ValueItems, Allows[v],
         NEW k \in Nat, Size(s, v) + k <= MaxLen
  PROVE  IsFiniteSet(Pool \ s.exists) /\ k <= Cardinality(Pool \ s.exists)
<1> DEFINE A == {w \in ValueItems : Allows[w]}
           P == (1 .. MaxLen) \X A
           D == {p \in P : p[1] \in DOMAIN s.exprs[p[2]]}
           n == Size(s, v)
           E == {<< e, v >> : e \in n + 1 .. n + k}
           used == Pool \cap s.exists
<1>1. n \in Nat /\ MaxLen \in Nat /\ Owns(s)
  BY RefConstantsOK DEF Sound, ItemGood
<1>2. \A w \in A : \A e \in DOMAIN s.exprs[w] : e \in 1 .. MaxLen /\ s.exprs[w][e] \in Pool
  BY <1>1 DEF Sound, ItemGood
<1>3. \A w \in ValueItems : \A e \in DOMAIN s.exprs[w] : w \in A
  BY DEF Sound, ItemGood
<1>4. DOMAIN s.exprs[v] = 1 .. n
  BY DEF Sound, ItemGood
<1>5. IsFiniteSet(P) /\ Cardinality(P) <= Cardinality(Pool) /\ Cardinality(P) \in Nat
  <2>1. IsFiniteSet(A) /\ IsFiniteSet(1 .. MaxLen) /\ Cardinality(1 .. MaxLen) = MaxLen
    <3>1. IsFiniteSet(A)
      BY PoolSuffices, FS_Subset
    <3>2. QED
      BY <1>1, <3>1, FS_Interval
  <2>2. MaxLen * Cardinality(A) <= Cardinality(Pool)
    BY PoolSuffices
  <2> HIDE DEF A
  <2>3. IsFiniteSet(P) /\ Cardinality(P) = MaxLen * Cardinality(A)
    BY <2>1, FS_Product
  <2> HIDE DEF P
  <2>4. QED
    BY <2>2, <2>3, FS_CardinalityType
<1>6. IsFiniteSet(D) /\ Cardinality(D) \in Nat
  <2>1. D \in SUBSET P
    OBVIOUS
  <2> HIDE DEF D, P
  <2>2. QED
    BY <1>5, <2>1, FS_Subset, FS_CardinalityType
<1>7. IsFiniteSet(E) /\ Cardinality(E) = k
  <2> DEFINE f == [e \in 1 .. k |-> << n + e, v >>]
  <2>1. f \in Injection(1 .. k, E)
    <3>1. \A e \in 1 .. k : n + e \in n + 1 .. n + k
      BY <1>1
    <3>2. f \in [1 .. k -> E]
      BY <3>1
    <3>3. \A e, g \in 1 .. k : f[e] = f[g] => e = g
      BY <1>1
    <3>4. QED
      BY <3>2, <3>3 DEF Injection, IsInjective
  <2>2. f \in Surjection(1 .. k, E)
    <3>1. \A y \in E : \E e \in 1 .. k : f[e] = y
      <4>1. ASSUME NEW e \in n + 1 .. n + k PROVE \E g \in 1 .. k : f[g] = << e, v >>
        <5>1. e - n \in 1 .. k /\ n + (e - n) = e
          BY <1>1
        <5>2. QED
          BY <5>1
      <4>2. QED
        BY <4>1
    <3>2. QED
      BY <2>1, <3>1 DEF Injection, Surjection
  <2> HIDE DEF f, E
  <2>3. IsFiniteSet(1 .. k) /\ Cardinality(1 .. k) = k
    BY FS_Interval
  <2>4. QED
    BY <2>1, <2>2, <2>3, FS_Surjection
<1>8. IsFiniteSet(D \cup E) /\ Cardinality(D \cup E) = Cardinality(D) + k
  <2>1. D \cap E = {}
    BY <1>1, <1>4
  <2> HIDE DEF D, E
  <2>2. Cardinality(D \cap E) = 0
    BY <2>1, FS_EmptySet
  <2>3. /\ IsFiniteSet(D \cup E)
        /\ Cardinality(D \cup E) = Cardinality(D) + Cardinality(E) - Cardinality(D \cap E)
    BY <1>6, <1>7, FS_Union
  <2>4. QED
    BY <1>6, <1>7, <2>2, <2>3
<1>9. Cardinality(D) + k <= Cardinality(P)
  <2>1. D \cup E \in SUBSET P
    BY <1>1
  <2> HIDE DEF D, E, P
  <2>2. QED
    BY <1>5, <1>8, <2>1, FS_Subset
<1>10. Cardinality(used) <= Cardinality(D)
  <2> DEFINE f == [p \in D |-> s.exprs[p[2]][p[1]]]
  <2>1. \A p \in D : s.exprs[p[2]][p[1]] \in used
    <3>1. ASSUME NEW p \in D PROVE s.exprs[p[2]][p[1]] \in used
      <4>1. p[2] \in A /\ p[2] \in ValueItems /\ p[1] \in DOMAIN s.exprs[p[2]]
        OBVIOUS
      <4>2. s.exprs[p[2]][p[1]] \in Pool
        BY <1>2, <4>1
      <4>3. QED
        BY <1>1, <4>1, <4>2 DEF Owns
    <3>2. QED
      BY <3>1
  <2>2. \A x \in used : \E p \in D : f[p] = x
    <3>1. ASSUME NEW x \in used PROVE \E p \in D : f[p] = x
      <4>1. PICK w \in ValueItems : \E e \in DOMAIN s.exprs[w] : s.exprs[w][e] = x
        BY <1>1 DEF Owns
      <4>2. PICK e \in DOMAIN s.exprs[w] : s.exprs[w][e] = x
        BY <4>1
      <4>3. w \in A /\ e \in 1 .. MaxLen
        BY <1>2, <1>3
      <4>4. << e, w >> \in D
        BY <4>3
      <4>5. f[<< e, w >>] = x
        BY <4>2, <4>4
      <4>6. QED
        BY <4>4, <4>5
    <3>2. QED
      BY <3>1
  <2>3. f \in Surjection(D, used)
    BY <2>1, <2>2 DEF Surjection
  <2> HIDE DEF f, D, used
  <2>4. QED
    BY <1>6, <2>3, FS_Surjection
<1>11. IsFiniteSet(Pool) /\ Cardinality(Pool) \in Nat
  BY PoolSuffices, FS_CardinalityType
<1>12. IsFiniteSet(Pool \ s.exists) /\ Cardinality(Pool \ s.exists) = Cardinality(Pool) - Cardinality(used)
  BY <1>11, FS_Difference
<1>13. Cardinality(used) \in Nat
  <2>1. IsFiniteSet(used)
    BY <1>11, FS_Intersection
  <2>2. QED
    BY <2>1, FS_CardinalityType
<1> HIDE DEF used, D, P
<1>14. QED
  BY <1>5, <1>6, <1>9, <1>10, <1>11, <1>12, <1>13

\* There are RefItems for new elements, a different one for each.
LEMMA FreshFacts ==
  ASSUME NEW s, NEW L, NEW S, Sound(s, L, S), NEW v \in ValueItems, Allows[v],
         NEW k \in Nat, Size(s, v) + k <= MaxLen
  PROVE  /\ Fresh(s, k) \in [1 .. k -> Pool \ s.exists]
         /\ \A e, f \in 1 .. k : Fresh(s, k)[e] = Fresh(s, k)[f] => e = f
<1> DEFINE left == Pool \ s.exists
           m == Cardinality(left)
<1>1. IsFiniteSet(left) /\ k <= m
  BY EnoughLeft
<1>2. m \in Nat /\ ExistsBijection(1 .. m, left)
  BY <1>1, FS_CardinalityType
<1> HIDE DEF left, m
<1>3. PICK b \in Bijection(1 .. m, left) : TRUE
  BY <1>2 DEF ExistsBijection
<1>4. b \in [1 .. m -> left] /\ \A e, f \in 1 .. m : b[e] = b[f] => e = f
  BY <1>3 DEF Bijection, Injection, IsInjective
<1> DEFINE c == [e \in 1 .. k |-> b[e]]
<1>5. \A e \in 1 .. k : e \in 1 .. m
  BY <1>1, <1>2
<1>6. c \in [1 .. k -> left] /\ IsInjective(c)
  BY <1>4, <1>5 DEF IsInjective
<1> HIDE DEF c
<1>7. \E f \in [1 .. k -> left] : IsInjective(f)
  BY <1>6
<1>8. Fresh(s, k) \in [1 .. k -> left] /\ IsInjective(Fresh(s, k))
  BY <1>7 DEF Fresh, left
<1>9. QED
  BY <1>8 DEF IsInjective, left

-----------------------------------------------------------------------------
(* The RefItems of an item replaced                                          *)

\* The RefItems of item v of u become ex in t.
NewExprs(u, t, v, ex) ==
  /\ Shape(t) /\ t.ok = u.ok /\ t.broken = u.broken /\ t.active = u.active
  /\ t.data = u.data /\ t.isSet = u.isSet /\ t.index = u.index
  /\ t.exprs = [u.exprs EXCEPT ![v] = ex]
  /\ t.exists = (u.exists \ Range(u.exprs[v])) \cup Range(ex)
  /\ t.values = [i \in Items |-> IF i \in Range(ex) THEN IF i \in Range(u.exprs[v]) THEN u.values[i] ELSE << Null >>
                                 ELSE IF i \in Range(u.exprs[v]) THEN << >> ELSE u.values[i]]
  /\ t.refs = RefsOf(t.values)

\* States that differ only in data.
SameRefs(s, u) ==
  /\ Shape(u) /\ u.ok = s.ok /\ u.broken = s.broken /\ u.active = s.active
  /\ u.values = s.values /\ u.refs = s.refs /\ u.exists = s.exists /\ u.exprs = s.exprs

\* RefItems for n elements of item v of s, of which the first are those it has.
ExprsFor(s, v, ex, n) ==
  /\ ex \in [1 .. (IF Allows[v] THEN n ELSE 0) -> Pool]
  /\ \A e, f \in DOMAIN ex : ex[e] = ex[f] => e = f
  /\ \A e \in DOMAIN ex : IF e <= Size(s, v) THEN ex[e] = s.exprs[v][e] ELSE ex[e] \notin s.exists

\* No attribute has anything of a RefItem that is not there.
LEMMA NoRefs ==
  ASSUME NEW s, NEW L, RefsGood(s, L), NEW x \in Items, x \notin s.exists, NEW a \in Attributes
  PROVE  s.refs[a][x] = {}
<1>1. s.values[x] = << >> /\ s.refs = RefsOf(s.values)
  BY DEF RefsGood
<1>2. QED
  BY <1>1 DEF RefsOf

\* Lists with the right entries are the right lists.
LEMMA RefsAre ==
  ASSUME NEW r, NEW vals, r = [a \in Attributes |-> [i \in Items |-> r[a][i]]],
         \A a \in Attributes, i \in Items : r[a][i] = {p \in DOMAIN vals[i] : vals[i][p] = a}
  PROVE  r = RefsOf(vals)
BY DEF RefsOf

\* A new RefItem of an expression holds no attribute.
LEMMA BlankOne == Blank(1) = << Null >>
BY DEF Blank

\* Elements are added: their RefItems are new.
LEMMA Grown ==
  ASSUME NEW L \in SUBSET Attributes, NEW s, NEW S, Sound(s, L, S), NEW v \in ValueItems, Allows[v],
         NEW k \in Nat, Size(s, v) + k <= MaxLen, NEW u, SameRefs(s, u)
  PROVE  /\ NewExprs(u, BuildExpressions(u, v, k), v, s.exprs[v] \o Fresh(s, k))
         /\ ExprsFor(s, v, s.exprs[v] \o Fresh(s, k), Size(s, v) + k)
<1> DEFINE n == Size(s, v)
           old == s.exprs[v]
           new == Fresh(s, k)
           ex == old \o new
           t == BuildExpressions(u, v, k)
<1>1. n \in Nat /\ old \in [1 .. n -> Pool] /\ RefsGood(s, L) /\ Owns(s)
  BY DEF Sound, ItemGood
<1>2. new \in [1 .. k -> Pool \ s.exists] /\ \A e, f \in 1 .. k : new[e] = new[f] => e = f
  BY FreshFacts
<1>3. \A e \in 1 .. n : old[e] \in s.exists /\ old[e] \in Pool
  BY <1>1 DEF Owns
<1>4. \A e, f \in 1 .. n : old[e] = old[f] => e = f
  BY <1>1 DEF Owns
<1>5. new = CHOOSE f \in [1 .. k -> Pool \ u.exists] : IsInjective(f)
  BY DEF Fresh, SameRefs
<1>6. t = [u EXCEPT !.exprs[v] = u.exprs[v] \o new, !.exists = u.exists \cup Range(new),
                    !.values = [i \in Items |-> IF i \in Range(new) THEN Blank(1) ELSE u.values[i]]]
  BY <1>5 DEF BuildExpressions
<1> HIDE DEF new, t, n, old
<1>7. /\ ex \in [1 .. n + k -> Pool]
      /\ \A e \in 1 .. n + k : ex[e] = IF e <= n THEN old[e] ELSE new[e - n]
  <2>1. new \in [1 .. k -> Pool]
    BY <1>2
  <2>2. n \in Nat /\ old \in [1 .. n -> Pool]
    BY <1>1
  <2>3. old \in Seq(Pool) /\ Len(old) = n /\ new \in Seq(Pool) /\ Len(new) = k
    BY <2>1, <2>2, TableIsSeq
  <2>4. /\ ex \in Seq(Pool) /\ Len(ex) = n + k
        /\ \A e \in 1 .. n + k : ex[e] = IF e <= n THEN old[e] ELSE new[e - n]
    BY <2>2, <2>3, ConcatProperties
  <2>5. ex \in [1 .. n + k -> Pool]
    BY <2>4, LenProperties
  <2>6. QED
    BY <2>4, <2>5
<1> HIDE DEF ex
<1>8. \A e \in n + 1 .. n + k : e - n \in 1 .. k /\ ex[e] = new[e - n]
  BY <1>1, <1>7
<1>9. ASSUME NEW e \in 1 .. n + k, NEW f \in 1 .. n + k, ex[e] = ex[f] PROVE e = f
  <2>1. CASE e <= n /\ f <= n
    BY <1>1, <1>4, <1>7, <1>9, <2>1
  <2>2. CASE e > n /\ f > n
    <3>1. e - n \in 1 .. k /\ f - n \in 1 .. k /\ new[e - n] = new[f - n]
      BY <1>1, <1>8, <1>9, <2>2
    <3>2. QED
      BY <1>1, <1>2, <3>1
  <2>3. ASSUME NEW c \in 1 .. n, NEW d \in n + 1 .. n + k PROVE ex[c] # ex[d]
    <3>1. ex[c] = old[c]
      BY <1>1, <1>7
    <3>2. QED
      BY <1>2, <1>3, <1>8, <3>1
  <2>4. QED
    BY <1>1, <1>9, <2>1, <2>2, <2>3
<1>10. \A e \in 1 .. n + k : IF e <= n THEN ex[e] = old[e] ELSE ex[e] \notin s.exists
  BY <1>1, <1>2, <1>7, <1>8
<1>11. ExprsFor(s, v, ex, n + k)
  BY <1>7, <1>9, <1>10 DEF ExprsFor, n, old
<1>12. Range(ex) = Range(old) \cup Range(new)
  <2>1. \A e \in 1 .. n : e \in 1 .. n + k /\ ex[e] = old[e]
    BY <1>1, <1>7
  <2>2. \A e \in 1 .. k : n + e \in 1 .. n + k /\ (n + e) - n = e /\ ex[n + e] = new[e]
    BY <1>1, <1>7
  <2>3. \A e \in 1 .. n + k : ex[e] \in Range(old) \cup Range(new)
    BY <1>1, <1>2, <1>7, <1>8 DEF Range
  <2>4. DOMAIN old = 1 .. n /\ DOMAIN new = 1 .. k /\ DOMAIN ex = 1 .. n + k
    BY <1>1, <1>2, <1>7
  <2>5. QED
    BY <2>1, <2>2, <2>3, <2>4 DEF Range
<1>13. /\ Range(old) \subseteq s.exists /\ Range(new) \cap s.exists = {}
       /\ Range(old) \subseteq Items /\ Range(new) \subseteq Items
  BY <1>1, <1>2, <1>3, PoolItems DEF Range
<1>14. /\ Shape(t) /\ t.ok = u.ok /\ t.broken = u.broken /\ t.active = u.active
       /\ t.data = u.data /\ t.isSet = u.isSet /\ t.index = u.index /\ t.refs = u.refs
       /\ t.exprs = [u.exprs EXCEPT ![v] = u.exprs[v] \o new] /\ t.exists = u.exists \cup Range(new)
       /\ t.values = [i \in Items |-> IF i \in Range(new) THEN Blank(1) ELSE u.values[i]]
  BY <1>6 DEF SameRefs, Shape, Fields
<1>15. u.exprs[v] = old /\ u.exists = s.exists /\ u.values = s.values /\ u.refs = s.refs
  BY DEF SameRefs, old
<1>16. t.refs = RefsOf(t.values)
  <2>1. t.refs = [a \in Attributes |-> [i \in Items |-> t.refs[a][i]]]
    BY <1>1, <1>14, <1>15 DEF RefsGood, RefsOf
  <2>2. ASSUME NEW a \in Attributes, NEW i \in Items
        PROVE  t.refs[a][i] = {p \in DOMAIN t.values[i] : t.values[i][p] = a}
    <3>1. CASE i \in Range(new)
      <4>1. t.values[i] = << Null >> /\ t.refs[a][i] = {}
        BY <1>1, <1>13, <1>14, <1>15, <3>1, BlankOne, NoRefs
      <4>2. QED
        BY <4>1, RefConstantsOK
    <3>2. CASE i \notin Range(new)
      BY <1>1, <1>14, <1>15, <3>2 DEF RefsGood, RefsOf
    <3>3. QED
      BY <3>1, <3>2
  <2>3. QED
    BY <2>1, <2>2, RefsAre
<1>17. t.values = [i \in Items |->
                     IF i \in Range(ex) THEN IF i \in Range(old) THEN u.values[i] ELSE << Null >>
                     ELSE IF i \in Range(old) THEN << >> ELSE u.values[i]]
  BY <1>12, <1>13, <1>14, BlankOne
<1>18. t.exists = (u.exists \ Range(old)) \cup Range(ex)
  BY <1>12, <1>13, <1>14, <1>15
<1>19. NewExprs(u, t, v, ex)
  BY <1>14, <1>15, <1>16, <1>17, <1>18 DEF NewExprs, ex
<1>20. QED
  BY <1>11, <1>19 DEF ex, t, n, old, new

\* Elements are taken out: their RefItems are destroyed.
LEMMA Dropped ==
  ASSUME NEW L \in SUBSET Attributes, NEW s, NEW S, Sound(s, L, S), NEW v \in ValueItems,
         NEW kept, Range(kept) \subseteq Range(s.exprs[v]), NEW u, SameRefs(s, u)
  PROVE  NewExprs(u, DropExpressions(u, v, kept), v, kept)
<1> DEFINE old == s.exprs[v]
           gone == Range(u.exprs[v]) \ Range(kept)
           t == DropExpressions(u, v, kept)
           vals == [i \in Items |-> IF i \in gone THEN << >> ELSE u.values[i]]
           r == [b \in Attributes |-> [i \in Items |->
                   IF i \in gone /\ b \in Range(u.values[i]) THEN {} ELSE u.refs[b][i]]]
<1>1. RefsGood(s, L) /\ Owns(s) /\ \A e \in DOMAIN old : old[e] \in Pool
  BY DEF Sound, ItemGood
<1>2. u.exprs[v] = old /\ u.exists = s.exists /\ u.values = s.values /\ u.refs = s.refs
  BY DEF SameRefs
<1>3. t = [u EXCEPT !.values = vals, !.refs = r, !.exprs[v] = kept, !.exists = u.exists \ gone]
  BY DEF DropExpressions, DestroyItems, SameRefs, Shape, Fields
<1> HIDE DEF t, vals, r, gone, old
<1>4. /\ Shape(t) /\ t.ok = u.ok /\ t.broken = u.broken /\ t.active = u.active
      /\ t.data = u.data /\ t.isSet = u.isSet /\ t.index = u.index /\ t.refs = r
      /\ t.exprs = [u.exprs EXCEPT ![v] = kept] /\ t.exists = u.exists \ gone /\ t.values = vals
  BY <1>3 DEF SameRefs, Shape, Fields
<1>5. Range(kept) \subseteq Range(old) /\ Range(old) \subseteq Items /\ Range(old) \subseteq s.exists
  <2>1. \A e \in DOMAIN old : old[e] \in s.exists
    BY <1>1 DEF Owns, old
  <2>2. QED
    BY <1>1, <2>1, PoolItems DEF Range, old
<1>6. gone = Range(old) \ Range(kept)
  BY <1>2 DEF gone
<1>7. t.refs = RefsOf(t.values)
  <2>1. t.refs = [a \in Attributes |-> [i \in Items |-> t.refs[a][i]]]
    BY <1>4 DEF r
  <2>2. ASSUME NEW a \in Attributes, NEW i \in Items
        PROVE  r[a][i] = {p \in DOMAIN vals[i] : vals[i][p] = a}
    <3>1. u.refs[a][i] = {p \in DOMAIN u.values[i] : u.values[i][p] = a}
      BY <1>1, <1>2 DEF RefsGood, RefsOf
    <3>2. CASE i \in gone
      <4>1. vals[i] = << >>
        BY <3>2 DEF vals
      <4>2. r[a][i] = {}
        BY <3>1, <3>2 DEF r, Range
      <4>3. QED
        BY <4>1, <4>2
    <3>3. CASE i \notin gone
      BY <3>1, <3>3 DEF r, vals
    <3>4. QED
      BY <3>2, <3>3
  <2>3. QED
    BY <1>4, <2>1, <2>2, RefsAre
<1>8. t.values = [i \in Items |->
                    IF i \in Range(kept) THEN IF i \in Range(old) THEN u.values[i] ELSE << Null >>
                    ELSE IF i \in Range(old) THEN << >> ELSE u.values[i]]
  BY <1>4, <1>5, <1>6 DEF vals
<1>9. t.exists = (u.exists \ Range(old)) \cup Range(kept)
  BY <1>2, <1>4, <1>5, <1>6
<1>10. NewExprs(u, t, v, kept)
  BY <1>2, <1>4, <1>7, <1>8, <1>9 DEF NewExprs
<1>11. QED
  BY <1>10 DEF t

-----------------------------------------------------------------------------
(* The size of an item                                                       *)

\* The indices of a discrete item are its values.
LEMMA IndexIsData ==
  ASSUME NEW L, NEW s, NEW S, Sound(s, L, S), NEW v \in ValueItems, Discrete[v]
  PROVE  s.index[v] = s.data[v]
<1> DEFINE n == Size(s, v)
<1>1. /\ s.data[v] \in [1 .. n -> Valid[v] \cup {None}] /\ s.index[v] \in [1 .. n -> Valid[v] \cup {None}]
      /\ \A e \in 1 .. n : s.index[v][e] = s.data[v][e]
  BY DEF Sound, ItemGood
<1> HIDE DEF n
<1>2. /\ s.data[v] = [e \in 1 .. n |-> s.data[v][e]] /\ s.index[v] = [e \in 1 .. n |-> s.index[v][e]]
  BY <1>1
<1>3. QED
  BY <1>1, <1>2

\* The RefItems of the first elements of an item are some of its RefItems.
LEMMA FirstRefs ==
  ASSUME NEW L, NEW s, NEW S, Sound(s, L, S), NEW v \in ValueItems, Allows[v],
         NEW n \in Nat, n <= Size(s, v)
  PROVE  /\ ExprsFor(s, v, SubSeq(s.exprs[v], 1, n), n)
         /\ Range(SubSeq(s.exprs[v], 1, n)) \subseteq Range(s.exprs[v])
<1> DEFINE m == Size(s, v)
           old == s.exprs[v]
           ex == SubSeq(old, 1, n)
<1>1. m \in Nat /\ old \in [1 .. m -> Pool] /\ \A e, f \in 1 .. m : old[e] = old[f] => e = f
  <2>1. m \in Nat /\ old \in [1 .. m -> Pool]
    BY DEF Sound, ItemGood
  <2>2. QED
    BY <2>1 DEF Sound, Owns
<1> HIDE DEF m, old
<1>2. /\ ex \in Seq(Pool) /\ Len(ex) = n /\ \A e \in 1 .. n : ex[e] = old[e]
  <2>1. \A i \in 1 .. n : old[i] \in Pool
    BY <1>1 DEF m
  <2>2. QED
    BY <2>1, SubSeqProperties
<1> HIDE DEF ex
<1>3. ex \in [1 .. n -> Pool]
  BY <1>2, LenProperties
<1>4. \A e \in 1 .. n : e \in 1 .. m /\ e <= m
  BY <1>1 DEF m
<1>5. ExprsFor(s, v, ex, n)
  BY <1>1, <1>2, <1>3, <1>4 DEF ExprsFor, m, old
<1>6. Range(ex) \subseteq Range(old)
  BY <1>1, <1>2, <1>3, <1>4 DEF Range
<1>7. QED
  BY <1>5, <1>6 DEF ex, old

\* An item without expressions has no RefItems to be replaced.
LEMMA ExprsStay ==
  ASSUME NEW L \in SUBSET Attributes, NEW s, NEW S, Sound(s, L, S), NEW v \in ValueItems, ~Allows[v],
         NEW u, SameRefs(s, u)
  PROVE  NewExprs(u, u, v, s.exprs[v]) /\ s.exprs[v] \in [1 .. 0 -> Pool]
<1> DEFINE old == s.exprs[v]
<1>1. RefsGood(s, L) /\ Tables(s) /\ old \in [1 .. 0 -> Pool]
  BY DEF Sound, ItemGood
<1>2. DOMAIN old = {} /\ Range(old) = {}
  BY <1>1 DEF Range
<1>3. u.exprs[v] = old /\ Shape(u) /\ u.exprs = s.exprs /\ u.values = s.values /\ u.refs = s.refs
  BY DEF SameRefs
<1> HIDE DEF old
<1>4. u.exprs = [u.exprs EXCEPT ![v] = old]
  BY <1>1, <1>3 DEF Tables, old
<1>5. u.exists = (u.exists \ Range(u.exprs[v])) \cup Range(old)
  BY <1>2, <1>3
<1>6. u.refs = RefsOf(u.values) /\ u.values = [i \in Items |-> u.values[i]]
  BY <1>1, <1>3 DEF RefsGood
<1>7. u.values = [i \in Items |->
                    IF i \in Range(old) THEN IF i \in Range(u.exprs[v]) THEN u.values[i] ELSE << Null >>
                    ELSE IF i \in Range(u.exprs[v]) THEN << >> ELSE u.values[i]]
  BY <1>2, <1>3, <1>6
<1>8. NewExprs(u, u, v, old)
  BY <1>3, <1>4, <1>5, <1>6, <1>7 DEF NewExprs
<1>9. QED
  BY <1>1, <1>8 DEF old

\* What resizing does to an item.
LEMMA ResizedIs ==
  ASSUME NEW L \in SUBSET Attributes, NEW s, NEW S, Sound(s, L, S), NEW v \in ValueItems,
         NEW n \in 0 .. MaxLen
  PROVE  \E ex : /\ Rebuilt(s, Resized4(s, v, n), v, Filled(s.data[v], n, Default[v]),
                            Filled(s.isSet[v], n, HasDefault(v)), ex, s.active[v])
                 /\ ExprsFor(s, v, ex, n)
<1> DEFINE m == Size(s, v)
           dt == Filled(s.data[v], n, Default[v])
           st == Filled(s.isSet[v], n, HasDefault(v))
           ix == IF Discrete[v] THEN Filled(s.index[v], n, Default[v]) ELSE s.index[v]
           u == [s EXCEPT !.data[v] = dt, !.isSet[v] = st, !.index[v] = ix]
           t == Resized4(s, v, n)
           old == s.exprs[v]
<1>1. /\ n \in Nat /\ n <= MaxLen /\ m \in Nat /\ MaxLen \in Nat
      /\ Shape(s) /\ s.ok \in BOOLEAN /\ Tables(s) /\ RefsGood(s, L)
  BY RefConstantsOK DEF Sound, ItemGood
<1>2. t = IF n - m >= 0 THEN BuildExpressions(u, v, n - m)
          ELSE IF Allows[v] THEN DropExpressions(u, v, SubSeq(old, 1, n)) ELSE u
  BY DEF Resized4
<1>3. Discrete[v] => ix = dt
  BY IndexIsData
<1> HIDE DEF t, dt, st, ix, m
<1>4. /\ SameRefs(s, u)
      /\ u.data = [s.data EXCEPT ![v] = dt] /\ u.isSet = [s.isSet EXCEPT ![v] = st]
      /\ u.index = [s.index EXCEPT ![v] = ix]
  BY <1>1 DEF SameRefs, Shape, Fields
<1>5. u.index = IF Discrete[v] THEN [s.index EXCEPT ![v] = dt] ELSE s.index
  BY <1>1, <1>3, <1>4 DEF Tables, ix
<1> HIDE DEF u
<1>6. ASSUME NEW ex, NewExprs(u, t, v, ex) PROVE Rebuilt(s, t, v, dt, st, ex, s.active[v])
  <2>1. t.active = [s.active EXCEPT ![v] = s.active[v]]
    BY <1>1, <1>4, <1>6 DEF NewExprs, SameRefs, Tables
  <2>2. t.exprs = [s.exprs EXCEPT ![v] = ex] /\ t.data = u.data /\ t.isSet = u.isSet /\ t.index = u.index
    BY <1>4, <1>6 DEF NewExprs, SameRefs
  <2>3. /\ Shape(t) /\ t.ok \in BOOLEAN /\ t.broken = s.broken
        /\ t.exists = (s.exists \ Range(s.exprs[v])) \cup Range(ex)
        /\ t.values = [i \in Items |->
                         IF i \in Range(ex) THEN IF i \in Range(s.exprs[v]) THEN s.values[i] ELSE << Null >>
                         ELSE IF i \in Range(s.exprs[v]) THEN << >> ELSE s.values[i]]
        /\ t.refs = RefsOf(t.values)
    BY <1>1, <1>4, <1>6 DEF NewExprs, SameRefs
  <2>4. QED
    BY <1>4, <1>5, <2>1, <2>2, <2>3 DEF Rebuilt
<1>7. CASE ~Allows[v]
  <2>1. t = u
    BY <1>2, <1>7 DEF BuildExpressions
  <2>2. NewExprs(u, u, v, old) /\ old \in [1 .. 0 -> Pool]
    BY <1>4, <1>7, ExprsStay
  <2>3. DOMAIN old = {}
    BY <2>2
  <2>4. NewExprs(u, t, v, old)
    BY <2>1, <2>2
  <2>5. ExprsFor(s, v, old, n)
    BY <1>7, <2>2, <2>3 DEF ExprsFor
  <2>6. QED
    BY <1>6, <2>4, <2>5 DEF t, dt, st
<1>8. CASE Allows[v] /\ n >= m
  <2> DEFINE k == n - m
             ex == old \o Fresh(s, k)
  <2>1. k \in Nat /\ m + k <= MaxLen /\ m + k = n
    BY <1>1, <1>8
  <2>2. t = BuildExpressions(u, v, k)
    BY <1>1, <1>2, <1>8
  <2> HIDE DEF k
  <2>3. NewExprs(u, BuildExpressions(u, v, k), v, ex) /\ ExprsFor(s, v, ex, m + k)
    BY <1>4, <1>8, <2>1, Grown DEF m
  <2> HIDE DEF ex
  <2>4. NewExprs(u, t, v, ex) /\ ExprsFor(s, v, ex, n)
    BY <2>1, <2>2, <2>3
  <2>5. QED
    BY <1>6, <2>4 DEF t, dt, st
<1>9. CASE Allows[v] /\ n < m
  <2> DEFINE ex == SubSeq(old, 1, n)
  <2>1. t = DropExpressions(u, v, ex)
    BY <1>1, <1>2, <1>9
  <2>2. ExprsFor(s, v, ex, n) /\ Range(ex) \subseteq Range(old)
    BY <1>1, <1>9, FirstRefs DEF m
  <2> HIDE DEF ex
  <2>3. NewExprs(u, t, v, ex)
    BY <1>4, <2>1, <2>2, Dropped
  <2>4. QED
    BY <1>6, <2>2, <2>3 DEF t, dt, st
<1>10. QED
  BY <1>1, <1>7, <1>8, <1>9

\* What a new element is for clients.
Fill(v) == IF HasDefault(v) THEN Default[v] ELSE NotSet

\* Item v of s has n elements in t: the first ones it had, others are filled.
Sized(s, t, v, n, L, S) ==
  /\ Sound(t, L, S \cup {v}) /\ Apart(s, t, v) /\ Size(t, v) = n
  /\ \A e \in 1 .. n : Element(t, v, e) = IF e <= Size(s, v) THEN Element(s, v, e) ELSE Fill(v)

\* A default is a value the definition admits.
LEMMA DefaultIs == \A v \in ValueItems : Default[v] \in Valid[v] \cup {None}
BY ValueConstantsOK

\* Vectors filled or cut are those of an item of the new size.
LEMMA SizedGood ==
  ASSUME NEW L \in SUBSET Attributes, NEW s, NEW S, Sound(s, L, S), NEW v \in ValueItems,
         NEW n \in 0 .. MaxLen, NEW t, NEW ex, NEW act \in Values,
         Rebuilt(s, t, v, Filled(s.data[v], n, Default[v]), Filled(s.isSet[v], n, HasDefault(v)), ex, act),
         ExprsFor(s, v, ex, n),
         IF Extensible[v] THEN WithinLimits(v, n) ELSE n = AtLeast[v],
         Discrete[v] /\ ~Extensible[v] /\ AtLeast[v] > 0 => act = Filled(s.data[v], n, Default[v])[1]
  PROVE  Sized(s, t, v, n, L, S)
<1> DEFINE m == Size(s, v)
           dt == Filled(s.data[v], n, Default[v])
           st == Filled(s.isSet[v], n, HasDefault(v))
           old == s.exprs[v]
<1>1. /\ m \in Nat /\ MaxLen \in Nat /\ n \in Nat /\ n <= MaxLen
      /\ s.data[v] \in [1 .. m -> Valid[v] \cup {None}] /\ s.isSet[v] \in [1 .. m -> BOOLEAN]
      /\ old \in [1 .. (IF Allows[v] THEN m ELSE 0) -> Pool]
      /\ Discrete[v] => \A e \in 1 .. m : s.isSet[v][e] => s.data[v][e] # None
  BY RefConstantsOK DEF Sound, ItemGood
<1>2. HasDefault(v) \in BOOLEAN
  BY DEF HasDefault
<1> HIDE DEF m
<1>3. /\ dt \in [1 .. n -> Valid[v] \cup {None}]
      /\ \A e \in 1 .. n : dt[e] = IF e <= m THEN s.data[v][e] ELSE Default[v]
  <2>1. IsFilled(dt, s.data[v], m, n, Default[v], Valid[v] \cup {None})
    BY <1>1, DefaultIs, FilledFacts
  <2> HIDE DEF dt
  <2>2. QED
    BY <2>1 DEF IsFilled
<1>4. /\ st \in [1 .. n -> BOOLEAN]
      /\ \A e \in 1 .. n : st[e] = IF e <= m THEN s.isSet[v][e] ELSE HasDefault(v)
  <2>1. IsFilled(st, s.isSet[v], m, n, HasDefault(v), BOOLEAN)
    BY <1>1, <1>2, FilledFacts
  <2> HIDE DEF st
  <2>2. QED
    BY <2>1 DEF IsFilled
<1> HIDE DEF dt, st
<1>5. Discrete[v] => \A e \in 1 .. n : st[e] => dt[e] # None
  BY <1>1, <1>3, <1>4 DEF HasDefault
<1>6. \A e \in DOMAIN ex : ex[e] \in Range(old) \/ ex[e] \notin s.exists
  <2>1. ASSUME NEW e \in DOMAIN ex, e <= m PROVE ex[e] \in Range(old)
    <3>1. e \in DOMAIN old
      BY <1>1, <2>1 DEF ExprsFor
    <3>2. ex[e] = old[e]
      BY <2>1 DEF ExprsFor, m
    <3>3. QED
      BY <3>1, <3>2 DEF Range
  <2>2. QED
    BY <2>1 DEF ExprsFor, m
<1>7. Rebuild(s, t, v, dt, st, ex, act, n, L, S)
  <2>1. MayRebuild(s, v, dt, st, ex, act, n)
    BY <1>1, <1>3, <1>4, <1>5, <1>6 DEF MayRebuild, ExprsFor, dt
  <2>2. QED
    BY <2>1 DEF Rebuild, dt, st
<1>8. /\ Sound(t, L, S \cup {v}) /\ Apart(s, t, v) /\ Size(t, v) = n
      /\ t.data[v] = dt /\ t.isSet[v] = st /\ ExprsKept(s, t, v, ex, n)
  BY <1>7, RebuiltGood
<1>9. ASSUME NEW e \in 1 .. n
      PROVE  Element(t, v, e) = IF e <= m THEN Element(s, v, e) ELSE Fill(v)
  <2>1. Allows[v] => IF e <= m THEN ex[e] = s.exprs[v][e] ELSE ex[e] \notin s.exists
    BY DEF ExprsFor, m
  <2>2. CASE e <= m
    <3>1. e \in 1 .. m
      BY <1>1, <2>2
    <3>2. Attr(t, v, e) = Attr(s, v, e)
      BY <1>8, <2>1, <2>2, <3>1 DEF ExprsKept, m
    <3>3. QED
      BY <1>3, <1>4, <1>8, <2>2, <3>2, ElementSeen
  <2>3. CASE ~(e <= m)
    <3>1. Attr(t, v, e) = Null
      BY <1>8, <2>1, <2>3 DEF ExprsKept
    <3>2. t.data[v][e] = Default[v] /\ t.isSet[v][e] = HasDefault(v)
      BY <1>3, <1>4, <1>8, <2>3
    <3>3. QED
      BY <2>3, <3>1, <3>2, ElementSeen DEF Seen, Fill
  <2>4. QED
    BY <2>2, <2>3
<1>10. QED
  BY <1>8, <1>9 DEF Sized, m

\* The answer is part of no condition but its own.
LEMMA AnswerGood ==
  ASSUME NEW s, NEW b \in BOOLEAN, Shape(s)
  PROVE  LET t == Answer(s, b) IN
         /\ \A L, S : Sound(s, L, S) => Sound(t, L, S)
         /\ t.ok = b /\ t.values = s.values /\ t.exprs = s.exprs /\ t.data = s.data
         /\ t.isSet = s.isSet /\ t.index = s.index /\ t.active = s.active /\ t.refs = s.refs
         /\ t.exists = s.exists /\ t.broken = s.broken /\ Shape(t)
<1> DEFINE t == Answer(s, b)
<1>1. /\ t.ok = b /\ t.values = s.values /\ t.exprs = s.exprs /\ t.data = s.data
      /\ t.isSet = s.isSet /\ t.index = s.index /\ t.active = s.active /\ t.refs = s.refs
      /\ t.exists = s.exists /\ t.broken = s.broken /\ Shape(t)
  BY DEF Answer, Shape, Fields
<1> HIDE DEF t
<1>2. ASSUME NEW L, NEW S, Sound(s, L, S) PROVE Sound(t, L, S)
  <2>1. RefsGood(t, L) /\ Tables(t) /\ Owns(t)
    BY <1>1, <1>2 DEF Sound, RefsGood, Tables, Owns
  <2>2. \A v \in ValueItems : Size(t, v) = Size(s, v)
    BY <1>1 DEF Size
  <2>3. \A v \in ValueItems : ItemGood(s, v) => ItemGood(t, v)
    BY <1>1, <2>2 DEF ItemGood
  <2>4. \A v \in ValueItems : Fitting(s, v) => Fitting(t, v)
    BY <1>1, <2>2 DEF Fitting, Follows
  <2>5. QED
    BY <1>1, <1>2, <2>1, <2>2, <2>3, <2>4 DEF Sound
<1>3. QED
  BY <1>1, <1>2 DEF t

-----------------------------------------------------------------------------
(* One element                                                               *)

\* The RefItem i of u holds x in t.
NewValue(u, t, i, x) ==
  /\ Shape(t) /\ t.ok = u.ok /\ t.broken = u.broken /\ t.active = u.active /\ t.exists = u.exists
  /\ t.data = u.data /\ t.isSet = u.isSet /\ t.index = u.index /\ t.exprs = u.exprs
  /\ t.values = [u.values EXCEPT ![i] = << x >>] /\ t.refs = RefsOf(t.values)

\* A RefItem of one value holds what is put there.
LEMMA OneChanges ==
  ASSUME NEW c, NEW x
  PROVE  [<< c >> EXCEPT ![1] = x] = << x >>
OBVIOUS

\* The RefItem of an expression holds one attribute that fits, or none.
LEMMA PoolValue ==
  ASSUME NEW s, NEW L, RefsGood(s, L), NEW i \in Pool \cap s.exists
  PROVE  /\ i \in Items /\ s.values \in [Items -> Seq(Slots)] /\ s.values[i] = << s.values[i][1] >>
         /\ s.values[i][1] \in Possible(L) \cup {Null}
         /\ s.refs = RefsOf(s.values)
<1>1. PICK c \in Possible(L) \cup {Null} : s.values[i] = << c >>
  BY DEF RefsGood
<1>2. << c >>[1] = c
  OBVIOUS
<1>3. QED
  BY <1>1, <1>2, PoolItems DEF RefsGood

\* What the attributes have of all items; of item i as in q nothing; of item i
\* that a has it at position 1.
Lists2(r) == r = [b \in Attributes |-> [j \in Items |-> r[b][j]]]

\* The lists of q are those of r but for item i, of which they have nothing.
ListsBut(q, r, i) == \A b \in Attributes, j \in Items : q[b][j] = IF j = i THEN {} ELSE r[b][j]

\* The lists of q are those of r, and of item i only a has anything: position 1.
ListsOne(q, r, i, a) ==
  \A b \in Attributes, j \in Items : q[b][j] = IF j = i THEN IF b = a THEN {1} ELSE {} ELSE r[b][j]

\* The positions of an attribute in a RefItem of one value.
LEMMA OneHolds ==
  ASSUME NEW c, NEW b
  PROVE  {p \in DOMAIN << c >> : << c >>[p] = b} = IF b = c THEN {1} ELSE {}
<1>1. DOMAIN << c >> = {1} /\ << c >>[1] = c
  OBVIOUS
<1>2. QED
  BY <1>1

\* An attribute that forgets an item has nothing of it, others are not changed.
LEMMA ForgetOne ==
  ASSUME NEW r, Lists2(r), NEW i \in Items, NEW c \in Attributes \cup {Null}, ListsOne(r, r, i, c)
  PROVE  Lists2(Forget(r, c, i, 1)) /\ ListsBut(Forget(r, c, i, 1), r, i)
<1> USE DEF Lists2, ListsBut, ListsOne
<1> DEFINE q == Forget(r, c, i, 1)
<1>1. CASE c = Null
  <2>1. q = r
    BY <1>1 DEF Forget
  <2>2. \A b \in Attributes : b # c
    BY <1>1, RefConstantsOK
  <2>3. QED
    BY <2>1, <2>2
<1>2. CASE c # Null
  <2>1. c \in Attributes /\ q = [r EXCEPT ![c] = [r[c] EXCEPT ![i] = r[c][i] \ {1}]]
    BY <1>2 DEF Forget
  <2> HIDE DEF q
  <2>2. \A b \in Attributes : q[b] = IF b = c THEN [r[c] EXCEPT ![i] = r[c][i] \ {1}] ELSE r[b]
    BY <2>1
  <2>3. q = [b \in Attributes |-> q[b]]
    BY <2>1
  <2>4. \A b \in Attributes : r[b] = [j \in Items |-> r[b][j]]
    OBVIOUS
  <2>5. \A b \in Attributes, j \in Items : q[b][j] = IF j = i THEN {} ELSE r[b][j]
    BY <2>2, <2>4, ZenonT(60)
  <2>6. \A b \in Attributes : q[b] = [j \in Items |-> q[b][j]]
    BY <2>2, <2>4
  <2>7. QED
    BY <2>3, <2>5, <2>6 DEF q
<1>3. QED
  BY <1>1, <1>2

\* An attribute that notes an item has its one position.
LEMMA NoteOne ==
  ASSUME NEW r, NEW q, NEW i \in Items, NEW a \in Attributes, Lists2(q), ListsBut(q, r, i)
  PROVE  Lists2(Note(q, a, i, 1)) /\ ListsOne(Note(q, a, i, 1), r, i, a)
<1> USE DEF Lists2, ListsBut, ListsOne
<1> DEFINE t == Note(q, a, i, 1)
<1>1. t = [q EXCEPT ![a] = [q[a] EXCEPT ![i] = q[a][i] \cup {1}]]
  BY DEF Note
<1> HIDE DEF t
<1>2. \A b \in Attributes : t[b] = IF b = a THEN [q[a] EXCEPT ![i] = q[a][i] \cup {1}] ELSE q[b]
  BY <1>1
<1>3. t = [b \in Attributes |-> t[b]] /\ \A b \in Attributes : q[b] = [j \in Items |-> q[b][j]]
  BY <1>1
<1>4. ASSUME NEW b \in Attributes, NEW j \in Items
      PROVE  t[b][j] = IF j = i THEN IF b = a THEN {1} ELSE {} ELSE r[b][j]
  <2>1. q[b][j] = IF j = i THEN {} ELSE r[b][j]
    OBVIOUS
  <2>2. CASE b = a
    <3>1. t[b] = [q[b] EXCEPT ![i] = q[b][i] \cup {1}] /\ q[b] = [k \in Items |-> q[b][k]]
      BY <1>2, <1>3, <2>2
    <3>2. t[b][j] = IF j = i THEN q[b][j] \cup {1} ELSE q[b][j]
      BY <3>1
    <3>3. QED
      BY <2>1, <2>2, <3>2
  <2>3. CASE b # a
    BY <1>2, <2>1, <2>3
  <2>4. QED
    BY <2>2, <2>3
<1>5. \A b \in Attributes : t[b] = [j \in Items |-> t[b][j]]
  BY <1>2, <1>3
<1>6. QED
  BY <1>3, <1>4, <1>5 DEF t

\* What items hold after that.
HoldNow(s, t, i, x) == t.values[i] = << x >> /\ \A j \in Items : j # i => t.values[j] = s.values[j]

\* If the lists have of one item what it holds now, both ends agree again.
LEMMA HoldsOne ==
  ASSUME NEW s, NEW t, s.refs = RefsOf(s.values), Lists2(t.refs), NEW i, NEW x,
         ListsOne(t.refs, s.refs, i, x) \/ (x = Null /\ ListsBut(t.refs, s.refs, i)), HoldNow(s, t, i, x)
  PROVE  t.refs = RefsOf(t.values)
<1> USE DEF HoldNow
<1>1. ASSUME NEW b \in Attributes, NEW j \in Items
      PROVE  t.refs[b][j] = {p \in DOMAIN t.values[j] : t.values[j][p] = b}
  <2>1. CASE j = i
    <3>1. t.refs[b][j] = IF b = x THEN {1} ELSE {}
      BY <2>1, RefConstantsOK DEF ListsOne, ListsBut
    <3>2. QED
      BY <2>1, <3>1, OneHolds
  <2>2. CASE j # i
    <3>1. t.refs[b][j] = s.refs[b][j]
      BY <2>2 DEF ListsOne, ListsBut
    <3>2. QED
      BY <2>2, <3>1 DEF RefsOf
  <2>3. QED
    BY <2>1, <2>2
<1>2. QED
  BY <1>1, RefsAre DEF Lists2

\* What the lists have of an item of one value.
LEMMA ListsFirst ==
  ASSUME NEW s, s.refs = RefsOf(s.values), NEW i \in Items, NEW c, s.values[i] = << c >>
  PROVE  Lists2(s.refs) /\ ListsOne(s.refs, s.refs, i, c)
<1>1. \A b \in Attributes, j \in Items : s.refs[b][j] = {p \in DOMAIN s.values[j] : s.values[j][p] = b}
  BY DEF RefsOf
<1>2. ASSUME NEW b \in Attributes PROVE s.refs[b][i] = IF b = c THEN {1} ELSE {}
  <2>1. s.refs[b][i] = {p \in DOMAIN << c >> : << c >>[p] = b}
    BY <1>1
  <2>2. QED
    BY <2>1, OneHolds
<1>3. QED
  BY <1>2 DEF ListsOne, Lists2, RefsOf

\* RefItem::setValue
LEMMA SetValueIs ==
  ASSUME NEW L \in SUBSET Attributes, NEW s, RefsGood(s, L), NEW i \in Pool \cap s.exists,
         NEW u, SameRefs(s, u), NEW a \in Attributes, a \in Fits[i]
  PROVE  NewValue(u, SetValue(u, i, 1, a), i, a)
<1> DEFINE c == s.values[i][1]
           t == SetValue(u, i, 1, a)
           r == Note(Forget(s.refs, c, i, 1), a, i, 1)
<1>1. /\ i \in Items /\ s.values \in [Items -> Seq(Slots)] /\ s.values[i] = << c >>
      /\ c \in Attributes \cup {Null} /\ s.refs = RefsOf(s.values)
  BY PoolValue DEF Possible
<1>2. u.values = s.values /\ u.refs = s.refs
  BY DEF SameRefs
<1> HIDE DEF c
<1>3. t = [u EXCEPT !.values[i][1] = a, !.refs = r]
  BY <1>2 DEF SetValue, c, SameRefs, Shape, Fields
<1> HIDE DEF r, t
<1>4. /\ Shape(t) /\ t.ok = u.ok /\ t.broken = u.broken /\ t.active = u.active /\ t.exists = u.exists
      /\ t.data = u.data /\ t.isSet = u.isSet /\ t.index = u.index /\ t.exprs = u.exprs
      /\ t.values = [u.values EXCEPT ![i] = [u.values[i] EXCEPT ![1] = a]] /\ t.refs = r
  BY <1>3 DEF SameRefs, Shape, Fields
<1>5. t.values = [u.values EXCEPT ![i] = << a >>]
  BY <1>1, <1>2, <1>4, OneChanges
<1>6. HoldNow(s, t, i, a)
  BY <1>1, <1>2, <1>5 DEF HoldNow
<1>7. Lists2(s.refs) /\ ListsOne(s.refs, s.refs, i, c)
  BY <1>1, ListsFirst
<1>8. LET q == Forget(s.refs, c, i, 1) IN Lists2(q) /\ ListsBut(q, s.refs, i)
  BY <1>1, <1>7, ForgetOne
<1>9. Lists2(r) /\ ListsOne(r, s.refs, i, a)
  BY <1>1, <1>8, NoteOne DEF r
<1>10. t.refs = RefsOf(t.values)
  BY <1>1, <1>4, <1>6, <1>9, HoldsOne
<1>11. NewValue(u, t, i, a)
  BY <1>4, <1>5, <1>10 DEF NewValue
<1>12. QED
  BY <1>11 DEF t

\* RefItem::unset
LEMMA UnsetIs ==
  ASSUME NEW L \in SUBSET Attributes, NEW s, RefsGood(s, L), NEW i \in Pool \cap s.exists,
         NEW u, SameRefs(s, u)
  PROVE  NewValue(u, Unset(u, i, 1), i, Null)
<1> DEFINE c == s.values[i][1]
           t == Unset(u, i, 1)
           r == Forget(s.refs, c, i, 1)
<1>1. /\ i \in Items /\ s.values \in [Items -> Seq(Slots)] /\ s.values[i] = << c >>
      /\ c \in Attributes \cup {Null} /\ s.refs = RefsOf(s.values)
  BY PoolValue DEF Possible
<1>2. u.values = s.values /\ u.refs = s.refs
  BY DEF SameRefs
<1> HIDE DEF c
<1>3. t = [u EXCEPT !.values[i][1] = Null, !.refs = r]
  BY <1>2 DEF Unset, c, SameRefs, Shape, Fields
<1> HIDE DEF r, t
<1>4. /\ Shape(t) /\ t.ok = u.ok /\ t.broken = u.broken /\ t.active = u.active /\ t.exists = u.exists
      /\ t.data = u.data /\ t.isSet = u.isSet /\ t.index = u.index /\ t.exprs = u.exprs
      /\ t.values = [u.values EXCEPT ![i] = [u.values[i] EXCEPT ![1] = Null]] /\ t.refs = r
  BY <1>3 DEF SameRefs, Shape, Fields
<1>5. t.values = [u.values EXCEPT ![i] = << Null >>]
  BY <1>1, <1>2, <1>4, OneChanges
<1>6. HoldNow(s, t, i, Null)
  BY <1>1, <1>2, <1>5 DEF HoldNow
<1>7. Lists2(s.refs) /\ ListsOne(s.refs, s.refs, i, c)
  BY <1>1, ListsFirst
<1>8. Lists2(r) /\ ListsBut(r, s.refs, i)
  BY <1>1, <1>7, ForgetOne DEF r
<1>9. t.refs = RefsOf(t.values)
  BY <1>1, <1>4, <1>6, <1>8, HoldsOne
<1>10. NewValue(u, t, i, Null)
  BY <1>4, <1>5, <1>9 DEF NewValue
<1>11. QED
  BY <1>10 DEF t

-----------------------------------------------------------------------------
(* Calls on one element                                                      *)

\* In a state as good as s only element e of item v is another: y.
Turned(s, t, v, e, y, L, S) ==
  /\ Sound(t, L, S) /\ Apart(s, t, v) /\ Size(t, v) = Size(s, v) /\ Element(t, v, e) = y
  /\ \A f \in 1 .. Size(s, v) : f # e => Element(t, v, f) = Element(s, v, f)

\* In a state as good as s all elements are as they were.
Stays(s, t, v, L, S) ==
  /\ Sound(t, L, S) /\ Apart(s, t, v) /\ Size(t, v) = Size(s, v)
  /\ \A f \in 1 .. Size(s, v) : Element(t, v, f) = Element(s, v, f)

\* The element that calls are about.
Aimed(s, v, e, L, S) ==
  L \in SUBSET Attributes /\ Sound(s, L, S) /\ v \in S /\ e \in 1 .. Size(s, v)

\* What is known of an element that a call is about.
LEMMA AimedAt ==
  ASSUME NEW s, NEW v, NEW e, NEW L, NEW S, Aimed(s, v, e, L, S)
  PROVE  /\ v \in ValueItems /\ Shape(s) /\ s.ok \in BOOLEAN /\ Tables(s)
         /\ s.data[v][e] \in Valid[v] \cup {None} /\ s.isSet[v][e] \in BOOLEAN
         /\ s.active[v] \in Values /\ Attr(s, v, e) \in Possible(L) \cup {Null}
         /\ s.values \in [Items -> Seq(Slots)] /\ RefsGood(s, L)
         /\ Allows[v] => /\ s.exprs[v][e] \in Pool \cap s.exists
                         /\ s.values[s.exprs[v][e]] = << Attr(s, v, e) >>
         /\ Discrete[v] => /\ s.index[v] = s.data[v] /\ ~Allows[v]
                           /\ s.isSet[v][e] => s.data[v][e] # None
         /\ Discrete[v] /\ ~Extensible[v] /\ AtLeast[v] > 0 => s.active[v] = s.index[v][1]
<1> DEFINE n == Size(s, v)
<1>1. /\ v \in ValueItems /\ Shape(s) /\ s.ok \in BOOLEAN /\ RefsGood(s, L) /\ Tables(s) /\ Owns(s)
      /\ ItemGood(s, v) /\ Fitting(s, v) /\ e \in 1 .. n
  BY DEF Aimed, Sound
<1>2. /\ s.data[v][e] \in Valid[v] \cup {None} /\ s.isSet[v][e] \in BOOLEAN /\ s.active[v] \in Values
      /\ Discrete[v] /\ s.isSet[v][e] => s.data[v][e] # None
  BY <1>1 DEF ItemGood
<1>3. ASSUME Allows[v]
      PROVE  /\ s.exprs[v][e] \in Pool \cap s.exists /\ s.values[s.exprs[v][e]] = << Attr(s, v, e) >>
             /\ Attr(s, v, e) \in Possible(L) \cup {Null}
  <2>1. e \in DOMAIN s.exprs[v] /\ s.exprs[v][e] \in Pool
    BY <1>1, <1>3 DEF ItemGood
  <2>2. s.exprs[v][e] \in Pool \cap s.exists
    BY <1>1, <2>1 DEF Owns
  <2>3. QED
    BY <1>1, <1>3, <2>2, PoolValue DEF Attr
<1>4. Discrete[v] => s.index[v] = s.data[v] /\ ~Allows[v]
  BY <1>1, IndexIsData, ValueConstantsOK DEF Aimed
<1>5. Discrete[v] /\ ~Extensible[v] /\ AtLeast[v] > 0 => s.active[v] = s.index[v][1]
  BY <1>1 DEF Fitting, Follows
<1>6. Attr(s, v, e) \in Possible(L) \cup {Null}
  BY <1>3 DEF Attr
<1>7. QED
  BY <1>1, <1>2, <1>3, <1>4, <1>5, <1>6 DEF RefsGood

\* A change of one element makes it show what it became.
LEMMA ChangeTurns ==
  ASSUME NEW s, NEW t, NEW v, NEW e, NEW d, NEW b, NEW x, NEW act, NEW L, NEW S,
         Aimed(s, v, e, L, S), MayBecome(s, v, e, d, b, x, act, L), Became(s, t, v, e, d, b, x, act)
  PROVE  Turned(s, t, v, e, Seen(b, x, d), L, S)
<1>1. Change(s, t, v, e, d, b, x, act, L, S)
  BY AimedAt DEF Change, Aimed
<1>2. QED
  BY <1>1, BecameGood DEF Turned

\* The answer of a call is what it was answered with.
LEMMA AnswerOk ==
  ASSUME NEW s, NEW b, Shape(s)
  PROVE  Answer(s, b).ok = b
BY DEF Answer, Shape, Fields

\* Clients see the same with any answer.
LEMMA AnswerSame ==
  ASSUME NEW s, Shape(s), NEW b \in BOOLEAN, NEW r, NEW v
  PROVE  /\ \A L, D : Sound(s, L, D) => Sound(Answer(s, b), L, D)
         /\ Apart(r, s, v) => Apart(r, Answer(s, b), v)
         /\ \A w : Size(Answer(s, b), w) = Size(s, w) /\ \A e : Element(Answer(s, b), w, e) = Element(s, w, e)
<1> DEFINE t == Answer(s, b)
<1>1. /\ \A L, D : Sound(s, L, D) => Sound(t, L, D)
      /\ t.values = s.values /\ t.exprs = s.exprs /\ t.data = s.data
      /\ t.isSet = s.isSet /\ t.index = s.index /\ t.active = s.active
  BY AnswerGood
<1> HIDE DEF t
<1>2. Apart(r, s, v) => Apart(r, t, v)
  BY <1>1 DEF Apart, Kept
<1>3. \A w : Size(t, w) = Size(s, w) /\ \A e : Element(t, w, e) = Element(s, w, e)
  BY <1>1 DEF Size, Element
<1>4. QED
  BY <1>1, <1>2, <1>3 DEF t

\* What a call did it did with any answer.
LEMMA AnswerStays ==
  ASSUME NEW s, NEW v, NEW L, NEW S, NEW r, NEW b \in BOOLEAN
  PROVE  /\ Stays(r, s, v, L, S) => Stays(r, Answer(s, b), v, L, S)
         /\ \A e, y : Turned(r, s, v, e, y, L, S) => Turned(r, Answer(s, b), v, e, y, L, S)
         /\ \A n : Sized(r, s, v, n, L, S) => Sized(r, Answer(s, b), v, n, L, S)
<1> DEFINE t == Answer(s, b)
<1>1. ASSUME NEW D, Sound(s, L, D) PROVE Shape(s)
  BY <1>1 DEF Sound
<1>2. ASSUME Shape(s)
      PROVE  /\ \A D : Sound(s, L, D) => Sound(t, L, D)
             /\ Apart(r, s, v) => Apart(r, t, v)
             /\ \A w : Size(t, w) = Size(s, w) /\ \A e : Element(t, w, e) = Element(s, w, e)
  BY <1>2, AnswerSame
<1> HIDE DEF t
<1>3. Stays(r, s, v, L, S) => Stays(r, t, v, L, S)
  BY <1>1, <1>2 DEF Stays
<1>4. \A e, y : Turned(r, s, v, e, y, L, S) => Turned(r, t, v, e, y, L, S)
  BY <1>1, <1>2 DEF Turned
<1>5. \A n : Sized(r, s, v, n, L, S) => Sized(r, t, v, n, L, S)
  BY <1>1, <1>2 DEF Sized
<1>6. QED
  BY <1>3, <1>4, <1>5 DEF t

\* Doing nothing leaves all as it is.
LEMMA SelfStays ==
  ASSUME NEW s, NEW v, NEW L, NEW S, Sound(s, L, S)
  PROVE  Stays(s, s, v, L, S)
BY DEF Stays, Apart, Kept

\* Element e of item v of s has d and b in u.
Put(s, u, v, e, d, b) ==
  /\ u.data = [s.data EXCEPT ![v] = [s.data[v] EXCEPT ![e] = d]]
  /\ u.isSet = [s.isSet EXCEPT ![v] = [s.isSet[v] EXCEPT ![e] = b]]
  /\ u.index = IF Discrete[v] THEN [s.index EXCEPT ![v] = [s.index[v] EXCEPT ![e] = d]] ELSE s.index

\* A value is put, the expression stays what it is.
LEMMA ValuePut ==
  ASSUME NEW s, NEW t, NEW v, NEW e, NEW d, NEW b, NEW act, NEW L, NEW S, Aimed(s, v, e, L, S),
         MayBecome(s, v, e, d, b, Attr(s, v, e), act, L), Put(s, t, v, e, d, b),
         Shape(t), t.ok \in BOOLEAN, t.broken = s.broken, t.values = s.values, t.refs = s.refs,
         t.exists = s.exists, t.exprs = s.exprs, t.active = [s.active EXCEPT ![v] = act]
  PROVE  Turned(s, t, v, e, Seen(b, Attr(s, v, e), d), L, S)
<1> DEFINE x == Attr(s, v, e)
<1>1. s.values = IF Allows[v] THEN [s.values EXCEPT ![s.exprs[v][e]] = << x >>] ELSE s.values
  <2>1. CASE Allows[v]
    <3> DEFINE i == s.exprs[v][e]
    <3>1. s.values[i] = << x >> /\ s.values \in [Items -> Seq(Slots)]
      BY <2>1, AimedAt
    <3> HIDE DEF i, x
    <3>2. s.values = [s.values EXCEPT ![i] = << x >>]
      BY <3>1
    <3>3. QED
      BY <2>1, <3>2 DEF i
  <2>2. CASE ~Allows[v]
    BY <2>2
  <2>3. QED
    BY <2>1, <2>2
<1>2. t.refs = RefsOf(t.values)
  <2>1. RefsGood(s, L)
    BY AimedAt
  <2>2. s.refs = RefsOf(s.values)
    BY <2>1 DEF RefsGood
  <2>3. QED
    BY <2>2
<1> HIDE DEF x
<1>3. Became(s, t, v, e, d, b, x, act)
  BY <1>1, <1>2 DEF Became, Put
<1>4. QED
  BY <1>3, ChangeTurns DEF x

\* A value is put, and the expression becomes x.
LEMMA ExpressionPut ==
  ASSUME NEW s, NEW u, NEW t, NEW v, NEW e, NEW d, NEW b, NEW x, NEW L, NEW S, Aimed(s, v, e, L, S),
         Allows[v], d \in Valid[v] \cup {None}, b \in BOOLEAN, x \in Possible(L) \cup {Null},
         SameRefs(s, u), Put(s, u, v, e, d, b), NewValue(u, t, s.exprs[v][e], x)
  PROVE  Turned(s, t, v, e, Seen(b, x, d), L, S)
<1>1. ~Discrete[v] /\ s.active[v] \in Values /\ s.ok \in BOOLEAN /\ Tables(s) /\ v \in ValueItems
  BY AimedAt
<1>2. MayBecome(s, v, e, d, b, x, s.active[v], L)
  BY <1>1 DEF MayBecome
<1>3. /\ Shape(t) /\ t.ok \in BOOLEAN /\ t.broken = s.broken /\ t.exists = s.exists /\ t.exprs = s.exprs
      /\ t.values = [s.values EXCEPT ![s.exprs[v][e]] = << x >>] /\ t.refs = RefsOf(t.values)
      /\ t.active = s.active /\ Put(s, t, v, e, d, b)
  BY <1>1 DEF SameRefs, NewValue, Put
<1>4. t.active = [s.active EXCEPT ![v] = s.active[v]]
  BY <1>1, <1>3 DEF Tables
<1>5. Became(s, t, v, e, d, b, x, s.active[v])
  BY <1>3, <1>4 DEF Became, Put
<1>6. QED
  BY <1>2, <1>5, ChangeTurns

\* An element that is unset shows that it is not set.
LEMMA UnsetElementTurns ==
  ASSUME NEW s, NEW v, NEW e, NEW L, NEW S, Aimed(s, v, e, L, S)
  PROVE  Turned(s, UnsetElement(s, v, e), v, e, NotSet, L, S)
<1> DEFINE t == UnsetElement(s, v, e)
           d == s.data[v][e]
           x == Attr(s, v, e)
<1>1. /\ v \in ValueItems /\ Shape(s) /\ s.ok \in BOOLEAN /\ Tables(s) /\ d \in Valid[v] \cup {None}
      /\ s.active[v] \in Values /\ x \in Possible(L) \cup {Null}
      /\ Discrete[v] => s.index[v] = s.data[v]
      /\ Discrete[v] /\ ~Extensible[v] /\ AtLeast[v] > 0 => s.active[v] = s.index[v][1]
  BY AimedAt
<1>2. Put(s, t, v, e, d, FALSE)
  <2>1. /\ t.data = s.data /\ t.index = s.index
        /\ t.isSet = [s.isSet EXCEPT ![v] = [s.isSet[v] EXCEPT ![e] = FALSE]]
    BY <1>1 DEF UnsetElement, Shape, Fields
  <2>2. s.data[v] = [s.data[v] EXCEPT ![e] = s.data[v][e]]
    <3>1. s.data[v] \in [1 .. Size(s, v) -> Valid[v] \cup {None}]
      BY <1>1 DEF Aimed, Sound, ItemGood
    <3>2. QED
      BY <3>1
  <2>3. s.data = [s.data EXCEPT ![v] = s.data[v]] /\ s.index = [s.index EXCEPT ![v] = s.index[v]]
    BY <1>1 DEF Tables
  <2>4. QED
    BY <1>1, <2>1, <2>2, <2>3 DEF Put
<1>3. /\ Shape(t) /\ t.ok \in BOOLEAN /\ t.broken = s.broken /\ t.values = s.values /\ t.refs = s.refs
      /\ t.exists = s.exists /\ t.exprs = s.exprs /\ t.active = s.active
  BY <1>1 DEF UnsetElement, Shape, Fields
<1> HIDE DEF t
<1>4. t.active = [s.active EXCEPT ![v] = s.active[v]]
  BY <1>1, <1>3 DEF Tables
<1>5. MayBecome(s, v, e, d, FALSE, x, s.active[v], L)
  BY <1>1 DEF MayBecome, Attr
<1>6. Turned(s, t, v, e, Seen(FALSE, x, d), L, S)
  BY <1>2, <1>3, <1>4, <1>5, ValuePut
<1>7. QED
  BY <1>6 DEF Seen, t

\* The index and the value of a discrete item are put.
LEMMA IndexPut ==
  ASSUME NEW s, NEW t, NEW v, NEW e, NEW k \in Valid[v], NEW act \in Values, NEW L, NEW S,
         Aimed(s, v, e, L, S), Discrete[v], Put(s, t, v, e, k, TRUE),
         Shape(t), t.ok \in BOOLEAN, t.broken = s.broken, t.values = s.values, t.refs = s.refs,
         t.exists = s.exists, t.exprs = s.exprs, t.active = [s.active EXCEPT ![v] = act],
         ~Extensible[v] /\ AtLeast[v] > 0 => act = IF e = 1 THEN k ELSE s.index[v][1]
  PROVE  Turned(s, t, v, e, k, L, S)
<1>1. v \in ValueItems /\ ~Allows[v] /\ Attr(s, v, e) = Null
  BY AimedAt DEF Attr
<1>2. Valid[v] \subseteq Data /\ None \notin Data
  BY <1>1, ValueConstantsOK
<1>3. MayBecome(s, v, e, k, TRUE, Attr(s, v, e), act, L)
  BY <1>1, <1>2 DEF MayBecome
<1>4. Turned(s, t, v, e, Seen(TRUE, Attr(s, v, e), k), L, S)
  BY <1>3, ValuePut
<1>5. QED
  BY <1>1, <1>4 DEF Seen

\* setDiscreteIndex puts a value that is enumerated and refuses all others.
LEMMA PutIndexTurns ==
  ASSUME NEW s, NEW v, NEW e, NEW k, NEW L, NEW S, Aimed(s, v, e, L, S)
  PROVE  LET t == PutIndex(s, v, e, k) IN
         IF Discrete[v] /\ k \in Valid[v] THEN t.ok = TRUE /\ Turned(s, t, v, e, k, L, S)
                                          ELSE t.ok = FALSE /\ Stays(s, t, v, L, S)
<1> DEFINE t == PutIndex(s, v, e, k)
<1>1. /\ v \in ValueItems /\ Shape(s) /\ s.ok \in BOOLEAN /\ Tables(s)
      /\ Discrete[v] => s.index[v] = s.data[v] /\ ~Allows[v]
  BY AimedAt
<1>2. Sound(s, L, S) /\ Stays(s, s, v, L, S)
  BY SelfStays DEF Aimed
<1> HIDE DEF t
<1>3. CASE ~(Discrete[v] /\ k \in Valid[v])
  <2>1. t = Answer(s, FALSE)
    BY <1>3 DEF PutIndex, t
  <2>2. t.ok = FALSE /\ Stays(s, t, v, L, S)
    BY <1>1, <1>2, <2>1, AnswerStays, AnswerOk
  <2>3. QED
    BY <1>3, <2>2 DEF t
<1>4. CASE Discrete[v] /\ k \in Valid[v] /\ s.isSet[v][e] /\ s.index[v][e] = k
  <2>1. t = Answer(s, TRUE)
    BY <1>4 DEF PutIndex, t
  <2>2. Element(s, v, e) = k
    BY <1>1, <1>4, ElementSeen DEF Attr, Seen
  <2>3. Turned(s, s, v, e, k, L, S)
    BY <1>2, <2>2 DEF Stays, Turned
  <2>4. t.ok = TRUE /\ Turned(s, t, v, e, k, L, S)
    BY <1>1, <2>1, <2>3, AnswerStays, AnswerOk
  <2>5. QED
    BY <1>4, <2>4 DEF t
<1>5. CASE Discrete[v] /\ k \in Valid[v] /\ ~(s.isSet[v][e] /\ s.index[v][e] = k)
  <2> DEFINE p == [s EXCEPT !.index[v][e] = k, !.isSet[v][e] = TRUE, !.data[v][e] = k]
             u == UpdateChildren(p, v)
             act == IF e = 1 THEN k ELSE s.index[v][1]
  <2>1. t = Answer(u, TRUE)
    BY <1>5 DEF PutIndex, t
  <2>2. /\ Shape(p) /\ p.ok = s.ok /\ p.broken = s.broken /\ p.values = s.values /\ p.refs = s.refs
        /\ p.exists = s.exists /\ p.exprs = s.exprs /\ p.active = s.active /\ Put(s, p, v, e, k, TRUE)
    BY <1>1, <1>5 DEF Shape, Fields, Put
  <2>3. u = [p EXCEPT !.active = [p.active EXCEPT ![v] = p.index[v][1]]]
    BY DEF UpdateChildren
  <2> HIDE DEF p, u
  <2>4. /\ Shape(u) /\ u.ok = s.ok /\ u.broken = s.broken /\ u.values = s.values /\ u.refs = s.refs
        /\ u.exists = s.exists /\ u.exprs = s.exprs /\ Put(s, u, v, e, k, TRUE)
        /\ u.active = [s.active EXCEPT ![v] = p.index[v][1]]
    BY <2>2, <2>3 DEF Shape, Fields, Put
  <2>5. p.index[v][1] = act /\ act \in Values
    <3> DEFINE n == Size(s, v)
    <3>1. /\ s.index[v] \in [1 .. n -> Valid[v] \cup {None}] /\ e \in 1 .. n /\ n \in Nat
          /\ p.index[v] = [s.index[v] EXCEPT ![e] = k]
      <4>1. s.index[v] \in [1 .. n -> Valid[v] \cup {None}] /\ e \in 1 .. n /\ n \in Nat
        BY <1>1, <1>2, <1>5 DEF Aimed, Sound, ItemGood
      <4>2. p.index = [s.index EXCEPT ![v] = [s.index[v] EXCEPT ![e] = k]]
        BY <1>5, <2>2 DEF Put
      <4>3. QED
        BY <1>1, <4>1, <4>2 DEF Tables
    <3>2. Valid[v] \cup {None} \subseteq Values
      BY <1>1, ValueConstantsOK DEF Values
    <3> HIDE DEF n
    <3>3. 1 \in 1 .. n
      BY <3>1
    <3>4. QED
      BY <1>5, <3>1, <3>2, <3>3
  <2> HIDE DEF act
  <2>6. Turned(s, u, v, e, k, L, S)
    BY <1>1, <1>5, <2>4, <2>5, IndexPut DEF act
  <2>7. t.ok = TRUE /\ Turned(s, t, v, e, k, L, S)
    BY <2>1, <2>4, <2>6, AnswerStays, AnswerOk
  <2>8. QED
    BY <1>5, <2>7 DEF t
<1>6. QED
  BY <1>3, <1>4, <1>5

\* An element whose expression is taken away shows its value.
LEMMA UnsetExpressionTurns ==
  ASSUME NEW s, NEW u, NEW v, NEW e, NEW d, NEW b, NEW L, NEW S, Aimed(s, v, e, L, S),
         d \in Valid[v] \cup {None}, b \in BOOLEAN, ~Discrete[v], SameRefs(s, u), Put(s, u, v, e, d, b)
  PROVE  Turned(s, UnsetExpression(u, v, e), v, e, Seen(b, Null, d), L, S)
<1> DEFINE t == UnsetExpression(u, v, e)
<1>1. /\ v \in ValueItems /\ Shape(s) /\ s.ok \in BOOLEAN /\ Tables(s) /\ s.active[v] \in Values
      /\ RefsGood(s, L) /\ L \in SUBSET Attributes
      /\ Allows[v] => s.exprs[v][e] \in Pool \cap s.exists
  BY AimedAt DEF Aimed
<1>2. CASE Allows[v]
  <2>1. t = Unset(u, s.exprs[v][e], 1)
    BY <1>2 DEF UnsetExpression, SameRefs
  <2> DEFINE i == s.exprs[v][e]
  <2>2. i \in Pool \cap s.exists
    BY <1>1, <1>2
  <2> HIDE DEF i
  <2>3. NewValue(u, Unset(u, i, 1), i, Null)
    BY <1>1, <2>2, UnsetIs
  <2>4. NewValue(u, t, s.exprs[v][e], Null)
    BY <2>1, <2>3 DEF i
  <2>5. QED
    BY <1>2, <2>4, ExpressionPut
<1>3. CASE ~Allows[v]
  <2>1. t = u /\ Attr(s, v, e) = Null
    BY <1>3 DEF UnsetExpression, Attr
  <2>2. MayBecome(s, v, e, d, b, Attr(s, v, e), s.active[v], L)
    BY <1>1, <2>1 DEF MayBecome
  <2>3. u.active = [s.active EXCEPT ![v] = s.active[v]]
    BY <1>1 DEF SameRefs, Tables
  <2>4. Turned(s, u, v, e, Seen(b, Attr(s, v, e), d), L, S)
    BY <1>1, <2>2, <2>3, ValuePut DEF SameRefs
  <2>5. QED
    BY <2>1, <2>4
<1>4. QED
  BY <1>2, <1>3

\* A state as good as s of which all but item v is the same.
Near(s, t, v, L, S) == Sound(t, L, S) /\ Apart(s, t, v) /\ Size(t, v) = Size(s, v)

\* Calls that change one element at most keep all in order.
LEMMA NearFacts ==
  ASSUME NEW s, NEW t, NEW v, NEW L, NEW S
  PROVE  /\ Stays(s, t, v, L, S) => Near(s, t, v, L, S)
         /\ \A e, y : Turned(s, t, v, e, y, L, S) => Near(s, t, v, L, S)
BY DEF Near, Stays, Turned

\* setValue of a discrete item keeps all in order (its answer is another matter).
LEMMA PutDiscreteNear ==
  ASSUME NEW s, NEW v, NEW e, NEW d, NEW L, NEW S, Aimed(s, v, e, L, S), Discrete[v]
  PROVE  Near(s, PutDiscrete(s, v, e, d), v, L, S)
<1> DEFINE t == PutDiscrete(s, v, e, d)
           k == IF d \in Valid[v] THEN d ELSE None
<1>1. /\ v \in ValueItems /\ Shape(s) /\ s.ok \in BOOLEAN /\ Tables(s) /\ s.active[v] \in Values
      /\ ~Extensible[v] /\ AtLeast[v] > 0 => s.active[v] = s.index[v][1]
  BY AimedAt
<1>2. Sound(s, L, S) /\ Stays(s, s, v, L, S)
  BY SelfStays DEF Aimed
<1> HIDE DEF t
<1>3. CASE k = s.index[v][e] \/ k = None
  <2>1. PICK b \in BOOLEAN : t = Answer(s, b)
    BY <1>3 DEF PutDiscrete, t
  <2>2. Stays(s, t, v, L, S)
    BY <1>2, <2>1, AnswerStays
  <2>3. QED
    BY <2>2, NearFacts DEF t
<1>4. CASE k # s.index[v][e] /\ k # None
  <2> DEFINE p == [s EXCEPT !.index[v][e] = d, !.data[v][e] = d, !.isSet[v][e] = TRUE]
             u == IF e = 1 THEN UpdateChildren(p, v) ELSE p
             act == IF e = 1 THEN p.index[v][1] ELSE s.active[v]
  <2>1. d \in Valid[v] /\ k = d
    BY <1>4
  <2>2. t = Answer(u, TRUE)
    BY <1>4, <2>1 DEF PutDiscrete, t
  <2>3. /\ Shape(p) /\ p.ok = s.ok /\ p.broken = s.broken /\ p.values = s.values /\ p.refs = s.refs
        /\ p.exists = s.exists /\ p.exprs = s.exprs /\ p.active = s.active /\ Put(s, p, v, e, d, TRUE)
    BY <1>1 DEF Shape, Fields, Put
  <2>4. p.active = [s.active EXCEPT ![v] = s.active[v]]
    BY <1>1, <2>3 DEF Tables
  <2> HIDE DEF p
  <2>5. /\ Shape(u) /\ u.ok = s.ok /\ u.broken = s.broken /\ u.values = s.values /\ u.refs = s.refs
        /\ u.exists = s.exists /\ u.exprs = s.exprs /\ Put(s, u, v, e, d, TRUE)
        /\ u.active = [s.active EXCEPT ![v] = act]
    <3>1. CASE e = 1
      <4>1. u = [p EXCEPT !.active = [p.active EXCEPT ![v] = p.index[v][1]]]
        BY <3>1 DEF UpdateChildren
      <4>2. act = p.index[v][1]
        BY <3>1
      <4> HIDE DEF u, act
      <4>3. QED
        BY <2>3, <4>1, <4>2 DEF Shape, Fields, Put
    <3>2. CASE e # 1
      BY <2>3, <2>4, <3>2
    <3>3. QED
      BY <3>1, <3>2
  <2>6. e = 1 => p.index[v][1] = d
    <3> DEFINE n == Size(s, v)
    <3>1. /\ s.index[v] \in [1 .. n -> Valid[v] \cup {None}] /\ e \in 1 .. n
          /\ p.index = [s.index EXCEPT ![v] = [s.index[v] EXCEPT ![e] = d]]
      BY <1>1, <1>2, <2>3 DEF Aimed, Sound, ItemGood, Put
    <3> HIDE DEF n
    <3>2. p.index[v] = [s.index[v] EXCEPT ![e] = d]
      BY <1>1, <3>1 DEF Tables
    <3>3. QED
      BY <3>1, <3>2
  <2>7. act \in Values /\ (~Extensible[v] /\ AtLeast[v] > 0 => act = IF e = 1 THEN d ELSE s.index[v][1])
    <3>1. Valid[v] \subseteq Values
      BY <1>1, ValueConstantsOK DEF Values
    <3>2. QED
      BY <1>1, <2>1, <2>6, <3>1
  <2> HIDE DEF u, act
  <2>8. Turned(s, u, v, e, d, L, S)
    BY <1>1, <2>1, <2>5, <2>7, IndexPut
  <2>9. Turned(s, t, v, e, d, L, S)
    BY <2>2, <2>8, AnswerStays
  <2>10. QED
    BY <2>9, NearFacts DEF t
<1>5. QED
  BY <1>3, <1>4

\* setValue puts a value the definition admits and refuses all others.
LEMMA PutValueTurns ==
  ASSUME NEW s, NEW v, NEW e, NEW d, NEW L, NEW S, Aimed(s, v, e, L, S), ~Discrete[v]
  PROVE  LET t == PutValue(s, v, e, d) IN
         IF d \in Valid[v] THEN t.ok = TRUE /\ Turned(s, t, v, e, d, L, S)
                           ELSE t.ok = FALSE /\ Stays(s, t, v, L, S)
<1> DEFINE t == PutValue(s, v, e, d)
<1>1. v \in ValueItems /\ Shape(s) /\ Tables(s)
  BY AimedAt
<1>2. Sound(s, L, S) /\ Stays(s, s, v, L, S)
  BY SelfStays DEF Aimed
<1> HIDE DEF t
<1>3. CASE d \notin Valid[v]
  <2>1. t = Answer(s, FALSE)
    BY <1>3 DEF PutValue, t
  <2>2. t.ok = FALSE /\ Stays(s, t, v, L, S)
    BY <1>1, <1>2, <2>1, AnswerStays, AnswerOk
  <2>3. QED
    BY <1>3, <2>2 DEF t
<1>4. CASE d \in Valid[v]
  <2> DEFINE u == [s EXCEPT !.data[v][e] = d, !.isSet[v][e] = TRUE]
             r == UnsetExpression(u, v, e)
  <2>1. t = Answer(r, TRUE)
    BY <1>4 DEF PutValue, t
  <2>2. SameRefs(s, u) /\ Put(s, u, v, e, d, TRUE)
    BY <1>1 DEF SameRefs, Shape, Fields, Put
  <2> HIDE DEF u
  <2>3. Turned(s, r, v, e, Seen(TRUE, Null, d), L, S)
    BY <1>4, <2>2, UnsetExpressionTurns
  <2> HIDE DEF r
  <2>4. Turned(s, r, v, e, d, L, S) /\ Shape(r)
    BY <2>3 DEF Seen, Turned, Sound
  <2>5. t.ok = TRUE /\ Turned(s, t, v, e, d, L, S)
    BY <2>1, <2>4, AnswerStays, AnswerOk
  <2>6. QED
    BY <1>4, <2>5 DEF t
<1>5. QED
  BY <1>3, <1>4

\* What setExpression makes of an element y.
Expressed(y, a) == IF a # Null THEN a ELSE IF y \in Attributes THEN NotSet ELSE y

\* Values, attributes and nothing can be told apart.
LEMMA ValuesApart ==
  /\ NotSet \notin Attributes \cup Values /\ Attributes \cap Values = {} /\ Null \notin Attributes
  /\ \A v \in ValueItems : Valid[v] \subseteq Data /\ Valid[v] \cup {None} \subseteq Values /\ None \notin Valid[v]
BY ValueConstantsOK, RefConstantsOK DEF Values

\* What an element shows when its expression is taken away.
LEMMA SeenFacts ==
  ASSUME NEW b \in BOOLEAN, NEW x \in Attributes \cup {Null}, NEW d \in Values
  PROVE  /\ x = Null => Expressed(Seen(b, x, d), Null) = Seen(b, x, d)
         /\ x # Null => Expressed(Seen(b, x, d), Null) = NotSet
BY ValuesApart DEF Seen, Expressed

\* setExpression puts what is an expression for the definition, or answers no.
LEMMA PutExpressionTurns ==
  ASSUME NEW s, NEW v, NEW e, NEW L, NEW S, Aimed(s, v, e, L, S), NEW a \in L \cup {Null}
  PROVE  LET t == PutExpression(s, v, e, a) IN
         /\ \/ t.ok = TRUE /\ Turned(s, t, v, e, Expressed(Element(s, v, e), a), L, S)
            \/ t.ok = FALSE /\ Stays(s, t, v, L, S)
         /\ a # Null /\ IsExpression(v, a) => t.ok = TRUE
<1> DEFINE t == PutExpression(s, v, e, a)
           x == Attr(s, v, e)
           d == s.data[v][e]
           b == s.isSet[v][e]
           y == Expressed(Element(s, v, e), a)
<1>1. /\ v \in ValueItems /\ Shape(s) /\ Tables(s) /\ RefsGood(s, L) /\ L \in SUBSET Attributes
      /\ d \in Valid[v] \cup {None} /\ b \in BOOLEAN /\ x \in Possible(L) \cup {Null}
      /\ Discrete[v] => ~Allows[v]
      /\ Allows[v] => s.exprs[v][e] \in Pool \cap s.exists
  BY AimedAt DEF Aimed
<1>2. Sound(s, L, S) /\ Stays(s, s, v, L, S)
  BY SelfStays DEF Aimed
<1>3. Element(s, v, e) = Seen(b, x, d)
  BY ElementSeen
<1>4. x \in Attributes \cup {Null} /\ d \in Values /\ a \in Attributes \cup {Null}
  BY <1>1, ValuesApart DEF Possible
<1> HIDE DEF t
<1>5. CASE a = Null /\ Allows[v]
  <2>1. y = Expressed(Seen(b, x, d), Null)
    BY <1>3, <1>5
  <2>2. t = IF x = Null THEN Answer(s, TRUE)
            ELSE Answer(UnsetExpression([s EXCEPT !.isSet[v][e] = FALSE], v, e), TRUE)
    BY <1>5 DEF PutExpression, t, Attr
  <2> HIDE DEF x, y
  <2>3. CASE x = Null
    <3>1. y = Element(s, v, e)
      BY <1>1, <1>3, <1>4, <2>1, <2>3, SeenFacts
    <3>2. Turned(s, s, v, e, y, L, S)
      BY <1>2, <3>1 DEF Stays, Turned
    <3>3. t.ok = TRUE /\ Turned(s, t, v, e, y, L, S)
      BY <1>1, <2>2, <2>3, <3>2, AnswerStays, AnswerOk
    <3>4. QED
      BY <1>5, <3>3 DEF t, y
  <2>4. CASE x # Null
    <3> DEFINE u == [s EXCEPT !.isSet[v][e] = FALSE]
               r == UnsetExpression(u, v, e)
    <3>1. y = NotSet
      BY <1>1, <1>4, <2>1, <2>4, SeenFacts
    <3>2. SameRefs(s, u) /\ Put(s, u, v, e, d, FALSE)
      <4>1. /\ SameRefs(s, u) /\ u.data = s.data /\ u.index = s.index
            /\ u.isSet = [s.isSet EXCEPT ![v] = [s.isSet[v] EXCEPT ![e] = FALSE]]
        BY <1>1, <1>2 DEF SameRefs, Shape, Fields
      <4>2. s.data[v] = [s.data[v] EXCEPT ![e] = d]
        <5>1. s.data[v] \in [1 .. Size(s, v) -> Valid[v] \cup {None}]
          BY <1>1, <1>2 DEF Sound, ItemGood
        <5>2. QED
          BY <5>1
      <4>3. s.data = [s.data EXCEPT ![v] = s.data[v]]
        BY <1>1 DEF Tables
      <4>4. QED
        BY <1>1, <1>5, <4>1, <4>2, <4>3 DEF Put
    <3> HIDE DEF u
    <3>3. Turned(s, r, v, e, Seen(FALSE, Null, d), L, S)
      BY <1>1, <1>5, <3>2, UnsetExpressionTurns
    <3>4. t = Answer(r, TRUE)
      BY <2>2, <2>4 DEF u
    <3> HIDE DEF r
    <3>5. Turned(s, r, v, e, y, L, S) /\ Shape(r)
      BY <3>1, <3>3 DEF Seen, Turned, Sound
    <3>6. t.ok = TRUE /\ Turned(s, t, v, e, y, L, S)
      BY <3>4, <3>5, AnswerStays, AnswerOk
    <3>7. QED
      BY <1>5, <3>6 DEF t, y
  <2>5. QED
    BY <2>3, <2>4
<1>6. CASE a # Null /\ IsExpression(v, a)
  <2> DEFINE u == [s EXCEPT !.isSet[v][e] = TRUE]
             i == s.exprs[v][e]
             r == SetValue(u, i, 1, a)
  <2>1. y = a /\ a \in Possible(L) /\ a \in Attributes /\ Allows[v]
    BY <1>1, <1>4, <1>6 DEF Expressed, Possible, IsExpression
  <2>2. SameRefs(s, u) /\ Put(s, u, v, e, d, TRUE)
    <3>1. /\ SameRefs(s, u) /\ u.data = s.data /\ u.index = s.index
          /\ u.isSet = [s.isSet EXCEPT ![v] = [s.isSet[v] EXCEPT ![e] = TRUE]]
      BY <1>1, <1>2 DEF SameRefs, Shape, Fields
    <3>2. s.data[v] = [s.data[v] EXCEPT ![e] = d]
      <4>1. s.data[v] \in [1 .. Size(s, v) -> Valid[v] \cup {None}]
        BY <1>1, <1>2 DEF Sound, ItemGood
      <4>2. QED
        BY <4>1
    <3>3. s.data = [s.data EXCEPT ![v] = s.data[v]]
      BY <1>1 DEF Tables
    <3>4. QED
      BY <1>1, <2>1, <3>1, <3>2, <3>3 DEF Put
  <2>3. t = Answer(r, TRUE)
    BY <1>6 DEF PutExpression, t
  <2>4. i \in Pool \cap s.exists /\ a \in Fits[i]
    BY <1>1, <1>6, <2>1 DEF IsExpression
  <2> HIDE DEF u, i, y
  <2>5. NewValue(u, r, i, a)
    BY <1>1, <2>1, <2>2, <2>4, SetValueIs
  <2> HIDE DEF r
  <2>6. Turned(s, r, v, e, Seen(TRUE, a, d), L, S)
    BY <1>1, <2>1, <2>2, <2>5, ExpressionPut DEF i
  <2>7. Turned(s, r, v, e, y, L, S) /\ Shape(r)
    BY <1>6, <2>1, <2>6 DEF Seen, Turned, Sound
  <2>8. t.ok = TRUE /\ Turned(s, t, v, e, y, L, S)
    BY <2>3, <2>7, AnswerStays, AnswerOk
  <2>9. QED
    BY <2>8 DEF t, y
<1>7. CASE ~(a = Null /\ Allows[v]) /\ ~(a # Null /\ IsExpression(v, a))
  <2>1. t = Answer(s, FALSE)
    BY <1>7 DEF PutExpression, t
  <2>2. t.ok = FALSE /\ Stays(s, t, v, L, S)
    BY <1>1, <1>2, <2>1, AnswerStays, AnswerOk
  <2>3. QED
    BY <1>7, <2>2 DEF t
<1>8. QED
  BY <1>5, <1>6, <1>7

-----------------------------------------------------------------------------
(* Calls on the elements of an item: its size                                *)

\* setNumberOfValues resizes within the limits of the definition, or answers no.
LEMMA SetSizeGood ==
  ASSUME NEW L \in SUBSET Attributes, NEW s, NEW S, Sound(s, L, S), NEW v \in S, NEW n \in 0 .. MaxLen
  PROVE  LET t == SetSize(s, v, n) IN
         /\ \/ t.ok = TRUE /\ Sized(s, t, v, n, L, S)
            \/ t.ok = FALSE /\ Stays(s, t, v, L, S)
         /\ n = Size(s, v) \/ (Extensible[v] /\ WithinLimits(v, n)) => t.ok = TRUE
<1> DEFINE t == SetSize(s, v, n)
<1>1. v \in ValueItems /\ Shape(s) /\ s.active[v] \in Values /\ S \cup {v} = S /\ S \subseteq ValueItems
  BY DEF Sound, ItemGood
<1>2. Stays(s, s, v, L, S)
  BY SelfStays
<1> HIDE DEF t
<1>3. CASE n = Size(s, v)
  <2>1. t = Answer(s, TRUE)
    BY <1>3 DEF SetSize, t
  <2>2. Sized(s, s, v, n, L, S)
    BY <1>1, <1>2, <1>3 DEF Stays, Sized
  <2>3. t.ok = TRUE /\ Sized(s, t, v, n, L, S)
    BY <1>1, <2>1, <2>2, AnswerStays, AnswerOk
  <2>4. QED
    BY <2>3 DEF t
<1>4. CASE n # Size(s, v) /\ (~Extensible[v] \/ ~WithinLimits(v, n))
  <2>1. t = Answer(s, FALSE)
    BY <1>4 DEF SetSize, t
  <2>2. t.ok = FALSE /\ Stays(s, t, v, L, S)
    BY <1>1, <1>2, <2>1, AnswerStays, AnswerOk
  <2>3. QED
    BY <1>4, <2>2 DEF t
<1>5. CASE n # Size(s, v) /\ Extensible[v] /\ WithinLimits(v, n)
  <2> DEFINE r == Resized4(s, v, n)
  <2>1. t = Answer(r, TRUE)
    BY <1>5 DEF SetSize, t
  <2>2. PICK ex : /\ Rebuilt(s, r, v, Filled(s.data[v], n, Default[v]),
                             Filled(s.isSet[v], n, HasDefault(v)), ex, s.active[v])
                  /\ ExprsFor(s, v, ex, n)
    BY <1>1, ResizedIs
  <2> HIDE DEF r
  <2>3. Sized(s, r, v, n, L, S) /\ Shape(r)
    BY <1>1, <1>5, <2>2, SizedGood DEF Rebuilt
  <2>4. t.ok = TRUE /\ Sized(s, t, v, n, L, S)
    BY <2>1, <2>3, AnswerStays, AnswerOk
  <2>5. QED
    BY <2>4 DEF t
<1>6. QED
  BY <1>3, <1>4, <1>5

\* The vectors of an item, and its RefItems, replaced.
LEMMA RebuiltFrom ==
  ASSUME NEW L \in SUBSET Attributes, NEW s, NEW S, Sound(s, L, S), NEW v \in ValueItems,
         NEW k, NEW ex, NewExprs(s, k, v, ex), NEW t, NEW dt, NEW st,
         Shape(t), t.ok = k.ok, t.broken = k.broken, t.values = k.values, t.refs = k.refs,
         t.exists = k.exists, t.exprs = k.exprs, t.active = k.active,
         t.data = [k.data EXCEPT ![v] = dt], t.isSet = [k.isSet EXCEPT ![v] = st],
         t.index = IF Discrete[v] THEN [k.index EXCEPT ![v] = dt] ELSE k.index
  PROVE  Rebuilt(s, t, v, dt, st, ex, s.active[v])
<1>1. Tables(s) /\ s.ok \in BOOLEAN
  BY DEF Sound
<1>2. t.active = [s.active EXCEPT ![v] = s.active[v]]
  BY <1>1 DEF NewExprs, Tables
<1>3. QED
  BY <1>1, <1>2 DEF Rebuilt, NewExprs

\* A state has the references it has.
LEMMA SelfSame ==
  ASSUME NEW L, NEW s, NEW S, Sound(s, L, S)
  PROVE  SameRefs(s, s)
BY DEF Sound, SameRefs

\* Item v of s has one more element in t, which is y.
Pushed(s, t, v, y, L, S) ==
  /\ Sound(t, L, S) /\ Apart(s, t, v) /\ Size(t, v) = Size(s, v) + 1
  /\ \A e \in 1 .. Size(s, v) + 1 : Element(t, v, e) = IF e <= Size(s, v) THEN Element(s, v, e) ELSE y

\* What was appended is, with any answer.
LEMMA AnswerPushed ==
  ASSUME NEW r, NEW s, NEW v, NEW y, NEW L, NEW S, Pushed(r, s, v, y, L, S), NEW b \in BOOLEAN
  PROVE  Pushed(r, Answer(s, b), v, y, L, S)
<1>1. Shape(s)
  BY DEF Pushed, Sound
<1>2. QED
  BY <1>1, AnswerSame DEF Pushed

\* There is room for an element of item v.
Room(s, v, L, S) ==
  L \in SUBSET Attributes /\ Sound(s, L, S) /\ v \in S /\ Size(s, v) < MaxLen /\ HasRoom(s, v)

\* What is known of an item that has room for one more.
LEMMA RoomFacts ==
  ASSUME NEW s, NEW v, NEW L, NEW S, Room(s, v, L, S)
  PROVE  /\ v \in ValueItems /\ Size(s, v) \in Nat /\ Size(s, v) + 1 \in Nat /\ Size(s, v) + 1 <= MaxLen
         /\ Extensible[v] /\ WithinLimits(v, Size(s, v) + 1) /\ S \cup {v} = S /\ S \subseteq ValueItems
         /\ s.active[v] \in Values /\ Shape(s) /\ (Discrete[v] => ~Allows[v])
         /\ s.data[v] \in [1 .. Size(s, v) -> Valid[v] \cup {None}]
         /\ s.isSet[v] \in [1 .. Size(s, v) -> BOOLEAN]
<1>1. /\ v \in ValueItems /\ Sound(s, L, S) /\ ItemGood(s, v) /\ Fitting(s, v) /\ Shape(s)
      /\ S \cup {v} = S /\ S \subseteq ValueItems
  BY DEF Room, Sound
<1>2. MaxLen \in Nat /\ AtMost[v] \in Nat /\ AtLeast[v] \in Nat /\ (Discrete[v] => ~Allows[v])
  BY <1>1, RefConstantsOK, ValueConstantsOK
<1>3. Size(s, v) \in Nat /\ Size(s, v) < MaxLen /\ HasRoom(s, v)
  BY <1>1 DEF ItemGood, Room
<1>4. WithinLimits(v, Size(s, v) + 1)
  BY <1>1, <1>2, <1>3 DEF WithinLimits, HasRoom, Fitting
<1>5. QED
  BY <1>1, <1>2, <1>3, <1>4 DEF ItemGood, HasRoom

\* Vectors with one more are those of an item with one more element.
LEMMA OneMore ==
  ASSUME NEW s, NEW v, NEW L, NEW S, Room(s, v, L, S), NEW d \in Valid[v] \cup {None},
         Discrete[v] => d # None, NEW t, NEW ex, ExprsFor(s, v, ex, Size(s, v) + 1),
         Rebuilt(s, t, v, Append(s.data[v], d), Append(s.isSet[v], TRUE), ex, s.active[v])
  PROVE  Pushed(s, t, v, d, L, S)
<1> DEFINE m == Size(s, v)
           dt == Append(s.data[v], d)
           st == Append(s.isSet[v], TRUE)
           old == s.exprs[v]
<1>1. /\ v \in ValueItems /\ m \in Nat /\ m + 1 \in Nat /\ m + 1 <= MaxLen
      /\ Extensible[v] /\ WithinLimits(v, m + 1) /\ S \cup {v} = S /\ s.active[v] \in Values
      /\ s.data[v] \in [1 .. m -> Valid[v] \cup {None}] /\ s.isSet[v] \in [1 .. m -> BOOLEAN]
  BY RoomFacts
<1>2. /\ L \in SUBSET Attributes /\ Sound(s, L, S)
      /\ Discrete[v] => \A e \in 1 .. m : s.isSet[v][e] => s.data[v][e] # None
      /\ old \in [1 .. (IF Allows[v] THEN m ELSE 0) -> Pool]
  BY <1>1 DEF Room, Sound, ItemGood
<1> HIDE DEF m
<1>3. /\ dt \in [1 .. m + 1 -> Valid[v] \cup {None}]
      /\ \A e \in 1 .. m + 1 : dt[e] = IF e <= m THEN s.data[v][e] ELSE d
  <2>1. IsLonger(dt, s.data[v], m, d, Valid[v] \cup {None})
    BY <1>1, AppendFacts
  <2>2. QED
    BY <2>1 DEF IsLonger
<1>4. /\ st \in [1 .. m + 1 -> BOOLEAN]
      /\ \A e \in 1 .. m + 1 : st[e] = IF e <= m THEN s.isSet[v][e] ELSE TRUE
  <2>1. IsLonger(st, s.isSet[v], m, TRUE, BOOLEAN)
    BY <1>1, AppendFacts
  <2>2. QED
    BY <2>1 DEF IsLonger
<1> HIDE DEF dt, st
<1>5. Discrete[v] => \A e \in 1 .. m + 1 : st[e] => dt[e] # None
  <2>1. ASSUME NEW e \in 1 .. m + 1 PROVE e <= m => e \in 1 .. m
    BY <1>1
  <2>2. QED
    BY <1>2, <1>3, <1>4, <2>1
<1>6. \A e \in DOMAIN ex : ex[e] \in Range(old) \/ ex[e] \notin s.exists
  <2>1. ASSUME NEW e \in DOMAIN ex, e <= m PROVE ex[e] \in Range(old)
    <3>1. e \in DOMAIN old
      BY <1>1, <1>2, <2>1 DEF ExprsFor, m
    <3>2. ex[e] = old[e]
      BY <2>1 DEF ExprsFor, m
    <3>3. QED
      BY <3>1, <3>2 DEF Range
  <2>2. QED
    BY <2>1 DEF ExprsFor, m
<1>7. Rebuild(s, t, v, dt, st, ex, s.active[v], m + 1, L, S)
  <2>1. MayRebuild(s, v, dt, st, ex, s.active[v], m + 1)
    BY <1>1, <1>3, <1>4, <1>5, <1>6 DEF MayRebuild, ExprsFor, m
  <2>2. QED
    BY <1>1, <1>2, <2>1 DEF Rebuild, dt, st
<1>8. /\ Sound(t, L, S \cup {v}) /\ Apart(s, t, v) /\ Size(t, v) = m + 1
      /\ t.data[v] = dt /\ t.isSet[v] = st /\ ExprsKept(s, t, v, ex, m + 1)
  BY <1>7, RebuiltGood, SMTT(30)
<1>9. ASSUME NEW e \in 1 .. m + 1
      PROVE  Element(t, v, e) = IF e <= m THEN Element(s, v, e) ELSE d
  <2>1. Allows[v] => IF e <= m THEN ex[e] = s.exprs[v][e] ELSE ex[e] \notin s.exists
    BY DEF ExprsFor, m
  <2>2. CASE e <= m
    <3>1. e \in 1 .. m
      BY <1>1, <2>2
    <3>2. Attr(t, v, e) = Attr(s, v, e)
      BY <1>8, <2>1, <2>2, <3>1 DEF ExprsKept, m
    <3>3. QED
      BY <1>3, <1>4, <1>8, <2>2, <3>2, ElementSeen
  <2>3. CASE ~(e <= m)
    <3>1. Attr(t, v, e) = Null
      BY <1>8, <2>1, <2>3 DEF ExprsKept
    <3>2. t.data[v][e] = d /\ t.isSet[v][e] = TRUE
      BY <1>3, <1>4, <1>8, <2>3
    <3>3. QED
      BY <2>3, <3>1, <3>2, ElementSeen DEF Seen
  <2>4. QED
    BY <2>2, <2>3
<1>10. QED
  BY <1>1, <1>8, <1>9 DEF Pushed, m

\* appendValue appends a value the definition admits, or answers no.
LEMMA PushValueGood ==
  ASSUME NEW s, NEW v, NEW L, NEW S, L \in SUBSET Attributes, Sound(s, L, S), NEW d, v \in S, Size(s, v) < MaxLen
  PROVE  LET t == PushValue(s, v, d) IN
         \/ t.ok = TRUE /\ Pushed(s, t, v, d, L, S)
         \/ t.ok = FALSE /\ Stays(s, t, v, L, S)
<1> DEFINE t == PushValue(s, v, d)
<1> HIDE DEF t
<1>1. CASE HasRoom(s, v) /\ d \in Valid[v]
  <2> DEFINE k == BuildExpressions(s, v, 1)
             r == [k EXCEPT !.data[v] = Append(k.data[v], d), !.isSet[v] = Append(k.isSet[v], TRUE),
                            !.index[v] = IF Discrete[v] THEN Append(k.index[v], d) ELSE k.index[v]]
             dt == Append(s.data[v], d)
             st == Append(s.isSet[v], TRUE)
  <2>1. Room(s, v, L, S)
    BY <1>1 DEF Room
  <2>2. /\ v \in ValueItems /\ Shape(s) /\ Size(s, v) + 1 <= MaxLen /\ s.ok \in BOOLEAN
        /\ d # None /\ Tables(s)
    BY <1>1, <2>1, RoomFacts, ValuesApart DEF Sound
  <2>3. t = Answer(r, TRUE)
    BY <1>1 DEF PushValue, t
  <2>4. \E ex : NewExprs(s, k, v, ex) /\ ExprsFor(s, v, ex, Size(s, v) + 1)
    <3>1. SameRefs(s, s)
      BY SelfSame
    <3>2. CASE Allows[v]
      BY <2>2, <3>1, <3>2, Grown
    <3>3. CASE ~Allows[v]
      <4>1. k = s
        BY <3>3 DEF BuildExpressions
      <4>2. NewExprs(s, s, v, s.exprs[v]) /\ s.exprs[v] \in [1 .. 0 -> Pool]
        BY <2>2, <3>1, <3>3, ExprsStay
      <4>3. DOMAIN s.exprs[v] = {}
        BY <4>2
      <4>4. ExprsFor(s, v, s.exprs[v], Size(s, v) + 1)
        BY <3>3, <4>2, <4>3 DEF ExprsFor
      <4>5. QED
        BY <4>1, <4>2, <4>4
    <3>4. QED
      BY <3>2, <3>3
  <2>5. PICK ex : NewExprs(s, k, v, ex) /\ ExprsFor(s, v, ex, Size(s, v) + 1)
    BY <2>4
  <2>6. Shape(k) /\ k.data = s.data /\ k.isSet = s.isSet /\ k.index = s.index
    BY <2>5 DEF NewExprs
  <2> HIDE DEF k
  <2>7. /\ Shape(r) /\ r.ok = k.ok /\ r.broken = k.broken /\ r.values = k.values /\ r.refs = k.refs
        /\ r.exists = k.exists /\ r.exprs = k.exprs /\ r.active = k.active
        /\ r.data = [k.data EXCEPT ![v] = dt] /\ r.isSet = [k.isSet EXCEPT ![v] = st]
        /\ r.index = [k.index EXCEPT ![v] = IF Discrete[v] THEN Append(k.index[v], d) ELSE k.index[v]]
    BY <2>6 DEF Shape, Fields
  <2>8. r.index = IF Discrete[v] THEN [k.index EXCEPT ![v] = dt] ELSE k.index
    <3>1. Discrete[v] => s.index[v] = s.data[v]
      BY <2>2, IndexIsData
    <3>2. s.index = [s.index EXCEPT ![v] = s.index[v]]
      BY <2>2 DEF Tables
    <3> HIDE DEF r
    <3>3. QED
      BY <2>6, <2>7, <3>1, <3>2
  <2> HIDE DEF r, dt, st
  <2>9. Rebuilt(s, r, v, dt, st, ex, s.active[v])
    BY <2>2, <2>5, <2>7, <2>8, RebuiltFrom
  <2>10. Pushed(s, r, v, d, L, S)
    BY <1>1, <2>1, <2>2, <2>5, <2>9, OneMore DEF dt, st
  <2>11. t.ok = TRUE /\ Pushed(s, t, v, d, L, S)
    BY <2>3, <2>7, <2>10, AnswerPushed, AnswerOk
  <2>12. QED
    BY <2>11 DEF t
<1>2. CASE ~(HasRoom(s, v) /\ d \in Valid[v])
  <2>1. t = Answer(s, FALSE)
    BY <1>2 DEF PushValue, t
  <2>2. Stays(s, s, v, L, S) /\ Shape(s)
    BY SelfStays DEF Sound
  <2>3. t.ok = FALSE /\ Stays(s, t, v, L, S)
    BY <2>1, <2>2, AnswerStays, AnswerOk
  <2>4. QED
    BY <2>3 DEF t
<1>3. QED
  BY <1>1, <1>2

\* appendExpression appends an expression, or answers no.
LEMMA PushExpressionGood ==
  ASSUME NEW s, NEW v, NEW L, NEW S, L \in SUBSET Attributes, Sound(s, L, S), NEW a \in L, v \in S,
         Size(s, v) < MaxLen
  PROVE  LET t == PushExpression(s, v, a) IN
         \/ t.ok = TRUE /\ Pushed(s, t, v, a, L, S)
         \/ t.ok = FALSE /\ Stays(s, t, v, L, S)
<1> DEFINE t == PushExpression(s, v, a)
           m == Size(s, v)
<1> HIDE DEF t
<1>1. CASE HasRoom(s, v) /\ IsExpression(v, a)
  <2> DEFINE k == BuildExpressions(s, v, 1)
             c == SetValue(k, Last(k.exprs[v]), 1, a)
             r == [k EXCEPT !.data[v] = Append(k.data[v], None), !.isSet[v] = Append(k.isSet[v], TRUE)]
             w == [c EXCEPT !.isSet[v] = Append(c.isSet[v], TRUE), !.data[v] = Append(c.data[v], None)]
             dt == Append(s.data[v], None)
             st == Append(s.isSet[v], TRUE)
             ex == s.exprs[v] \o Fresh(s, 1)
             i == ex[m + 1]
  <2>1. Room(s, v, L, S)
    BY <1>1 DEF Room
  <2>2. /\ v \in ValueItems /\ Shape(s) /\ m \in Nat /\ m + 1 <= MaxLen /\ s.ok \in BOOLEAN
        /\ Allows[v] /\ ~Discrete[v] /\ Tables(s)
    BY <1>1, <2>1, RoomFacts DEF Sound, IsExpression
  <2>3. t = Answer(w, TRUE)
    BY <1>1 DEF PushExpression, t
  <2>4. NewExprs(s, k, v, ex) /\ ExprsFor(s, v, ex, m + 1)
    BY <2>2, SelfSame, Grown
  <2> HIDE DEF k, ex, m
  <2>5. Shape(k) /\ k.data = s.data /\ k.isSet = s.isSet /\ k.index = s.index
        /\ k.exprs = [s.exprs EXCEPT ![v] = ex]
    BY <2>4 DEF NewExprs
  <2>6. k.exprs[v] = ex /\ ex \in [1 .. m + 1 -> Pool]
    BY <2>2, <2>4, <2>5 DEF Tables, ExprsFor
  <2>7. Last(k.exprs[v]) = i /\ i \in Pool
    <3>1. Len(ex) = m + 1
      BY <2>2, <2>6, TableIsSeq
    <3>2. QED
      BY <2>2, <2>6, <3>1 DEF Last
  <2> HIDE DEF i
  <2>8. /\ Shape(r) /\ r.ok = k.ok /\ r.broken = k.broken /\ r.values = k.values /\ r.refs = k.refs
        /\ r.exists = k.exists /\ r.exprs = k.exprs /\ r.active = k.active /\ r.index = k.index
        /\ r.data = [k.data EXCEPT ![v] = dt] /\ r.isSet = [k.isSet EXCEPT ![v] = st]
    BY <2>5 DEF Shape, Fields
  <2> HIDE DEF r, dt, st
  <2>9. Rebuilt(s, r, v, dt, st, ex, s.active[v])
    BY <2>2, <2>4, <2>8, RebuiltFrom
  <2>10. Pushed(s, r, v, None, L, S)
    BY <2>1, <2>2, <2>4, <2>9, OneMore DEF dt, st, m
  <2>11. Aimed(r, v, m + 1, L, S)
    BY <2>2, <2>10 DEF Aimed, Pushed, m
  <2>12. a \in Possible(L) /\ a \in Attributes /\ a \in Fits[i]
    BY <1>1, <2>7 DEF IsExpression, Possible
  <2>13. i \in Pool \cap r.exists
    <3>1. m + 1 \in 1 .. m + 1
      BY <2>2
    <3>2. r.exprs[v][m + 1] = i /\ m + 1 \in DOMAIN r.exprs[v] /\ Owns(r)
      BY <2>6, <2>8, <2>10, <3>1 DEF i, Pushed, Sound
    <3>3. QED
      BY <2>2, <2>7, <3>2 DEF Owns
  <2>14. NewValue(r, SetValue(r, i, 1, a), i, a)
    <3>1. RefsGood(r, L) /\ SameRefs(r, r)
      BY <2>10, SelfSame DEF Pushed, Sound
    <3>2. QED
      BY <2>12, <2>13, <3>1, SetValueIs
  <2>15. /\ w.values = SetValue(r, i, 1, a).values /\ w.refs = SetValue(r, i, 1, a).refs
         /\ Shape(w) /\ w.ok = r.ok /\ w.broken = r.broken /\ w.active = r.active /\ w.exists = r.exists
         /\ w.data = r.data /\ w.isSet = r.isSet /\ w.index = r.index /\ w.exprs = r.exprs
    <3>1. c = [k EXCEPT !.values[i][1] = a, !.refs = Note(Forget(k.refs, k.values[i][1], i, 1), a, i, 1)]
      BY <2>7, <2>12 DEF SetValue
    <3> DEFINE vals == [k.values EXCEPT ![i] = [k.values[i] EXCEPT ![1] = a]]
               rs == Note(Forget(k.refs, k.values[i][1], i, 1), a, i, 1)
    <3>2. SetValue(r, i, 1, a).values = vals /\ SetValue(r, i, 1, a).refs = rs
      BY <2>8, <2>12 DEF SetValue, Shape, Fields
    <3> HIDE DEF c
    <3>3. /\ Shape(c) /\ c.ok = k.ok /\ c.broken = k.broken /\ c.active = k.active /\ c.exists = k.exists
          /\ c.data = k.data /\ c.isSet = k.isSet /\ c.index = k.index /\ c.exprs = k.exprs
          /\ c.values = vals /\ c.refs = rs
      BY <2>5, <3>1 DEF Shape, Fields
    <3> HIDE DEF vals, rs
    <3>4. /\ Shape(w) /\ w.ok = c.ok /\ w.broken = c.broken /\ w.active = c.active /\ w.exists = c.exists
          /\ w.index = c.index /\ w.exprs = c.exprs /\ w.values = c.values /\ w.refs = c.refs
          /\ w.data = [c.data EXCEPT ![v] = Append(c.data[v], None)]
          /\ w.isSet = [c.isSet EXCEPT ![v] = Append(c.isSet[v], TRUE)]
      BY <3>3 DEF Shape, Fields
    <3>5. w.data = r.data /\ w.isSet = r.isSet
      BY <2>5, <2>8, <3>3, <3>4 DEF dt, st
    <3>6. QED
      BY <2>8, <3>2, <3>3, <3>4, <3>5
  <2> HIDE DEF w
  <2>16. NewValue(r, w, r.exprs[v][m + 1], a)
    <3>1. r.exprs[v][m + 1] = i
      BY <2>6, <2>8 DEF i
    <3>2. QED
      BY <2>14, <2>15, <3>1 DEF NewValue
  <2>17. Put(r, r, v, m + 1, None, TRUE)
    <3>1. r.data[v] = dt /\ r.isSet[v] = st
      BY <2>2, <2>5, <2>8 DEF Tables
    <3>2. /\ dt \in [1 .. m + 1 -> Valid[v] \cup {None}] /\ st \in [1 .. m + 1 -> BOOLEAN]
          /\ dt[m + 1] = None /\ st[m + 1] = TRUE
      <4>1. /\ s.data[v] \in [1 .. m -> Valid[v] \cup {None}] /\ s.isSet[v] \in [1 .. m -> BOOLEAN]
        BY <2>1, RoomFacts DEF m
      <4>2. IsLonger(dt, s.data[v], m, None, Valid[v] \cup {None})
        BY <2>2, <4>1, AppendFacts DEF dt
      <4>3. IsLonger(st, s.isSet[v], m, TRUE, BOOLEAN)
        BY <2>2, <4>1, AppendFacts DEF st
      <4>4. m + 1 \in 1 .. m + 1 /\ ~(m + 1 <= m)
        BY <2>2
      <4>5. QED
        BY <4>2, <4>3, <4>4 DEF IsLonger
    <3>3. dt = [dt EXCEPT ![m + 1] = None] /\ st = [st EXCEPT ![m + 1] = TRUE]
      BY <3>2
    <3>4. Tables(r)
      BY <2>10 DEF Pushed, Sound
    <3>5. QED
      BY <2>2, <3>1, <3>3, <3>4, ZenonT(60) DEF Put, Tables
  <2>18. Turned(r, w, v, m + 1, Seen(TRUE, a, None), L, S)
    <3>1. SameRefs(r, r)
      BY <2>10, SelfSame DEF Pushed
    <3>2. QED
      BY <2>2, <2>11, <2>12, <2>16, <2>17, <3>1, ExpressionPut
  <2>19. Pushed(s, w, v, a, L, S)
    <3>1. Seen(TRUE, a, None) = a
      BY <2>12, RefConstantsOK DEF Seen
    <3>2. /\ Sound(w, L, S) /\ Apart(s, w, v) /\ Size(w, v) = m + 1
      BY <2>10, <2>18, ApartTwice DEF Pushed, Turned, m
    <3>3. ASSUME NEW e \in 1 .. m + 1
          PROVE  Element(w, v, e) = IF e <= m THEN Element(s, v, e) ELSE a
      <4>1. CASE e = m + 1
        <5>1. Element(w, v, m + 1) = a
          BY <2>18, <3>1 DEF Turned
        <5>2. ~(e <= m)
          BY <2>2, <4>1
        <5>3. QED
          BY <4>1, <5>1, <5>2
      <4>2. CASE e # m + 1
        <5>1. Element(w, v, e) = Element(r, v, e)
          BY <2>10, <2>18, <4>2 DEF Turned, Pushed, m
        <5>2. e <= m /\ e \in 1 .. m + 1
          BY <2>2, <4>2
        <5>3. QED
          BY <2>10, <5>1, <5>2 DEF Pushed, m
      <4>3. QED
        BY <4>1, <4>2
    <3>4. QED
      BY <3>2, <3>3 DEF Pushed, m
  <2>20. t.ok = TRUE /\ Pushed(s, t, v, a, L, S)
    BY <2>3, <2>15, <2>19, AnswerPushed, AnswerOk
  <2>21. QED
    BY <2>20 DEF t
<1>2. CASE ~(HasRoom(s, v) /\ IsExpression(v, a))
  <2>1. t = Answer(s, FALSE)
    BY <1>2 DEF PushExpression, t
  <2>2. Stays(s, s, v, L, S) /\ Shape(s)
    BY SelfStays DEF Sound
  <2>3. t.ok = FALSE /\ Stays(s, t, v, L, S)
    BY <2>1, <2>2, AnswerStays, AnswerOk
  <2>4. QED
    BY <2>3 DEF t
<1>3. QED
  BY <1>1, <1>2

\* Item v of s is without element e in t.
Taken(s, t, v, e, L, S) ==
  /\ Sound(t, L, S) /\ Apart(s, t, v) /\ Size(t, v) = Size(s, v) - 1
  /\ \A f \in 1 .. Size(s, v) - 1 : Element(t, v, f) = Element(s, v, IF f < e THEN f ELSE f + 1)

\* The RefItems without the one of element e.
LEMMA ExprsWithout ==
  ASSUME NEW s, NEW v, NEW e, NEW L, NEW S, Aimed(s, v, e, L, S), Allows[v]
  PROVE  LET ex == RemoveAt(s.exprs[v], e) IN
         /\ IsWithout(ex, s.exprs[v], Size(s, v), e, Pool)
         /\ \A f, g \in DOMAIN ex : ex[f] = ex[g] => f = g
         /\ Range(ex) \subseteq Range(s.exprs[v])
<1> DEFINE old == s.exprs[v]
           ex == RemoveAt(old, e)
           m == Size(s, v)
           from(f) == IF f < e THEN f ELSE f + 1
<1>1. /\ v \in ValueItems /\ m \in Nat /\ old \in [1 .. m -> Pool] /\ e \in 1 .. m
      /\ \A f, g \in 1 .. m : old[f] = old[g] => f = g
  <2>1. /\ v \in ValueItems /\ m \in Nat /\ old \in [1 .. m -> Pool] /\ e \in 1 .. m /\ Owns(s)
    BY DEF Aimed, Sound, ItemGood
  <2>2. QED
    BY <2>1 DEF Owns
<1> HIDE DEF old, m, ex
<1>2. IsWithout(ex, old, m, e, Pool)
  BY <1>1, RemoveAtFacts DEF ex
<1>3. DOMAIN ex = 1 .. m - 1 /\ \A f \in 1 .. m - 1 : ex[f] = old[from(f)]
  BY <1>2 DEF IsWithout
<1>4. \A f \in 1 .. m - 1 : from(f) \in 1 .. m
  BY <1>1
<1>5. \A f, g \in 1 .. m - 1 : from(f) = from(g) => f = g
  BY <1>1
<1> HIDE DEF from
<1>6. \A f, g \in DOMAIN ex : ex[f] = ex[g] => f = g
  BY <1>1, <1>3, <1>4, <1>5
<1>7. Range(ex) \subseteq Range(old)
  BY <1>1, <1>3, <1>4 DEF Range
<1>8. QED
  BY <1>2, <1>6, <1>7 DEF ex, old, m

\* removeValue takes out the element with its RefItem, or answers no.
LEMMA TakeElementGood ==
  ASSUME NEW s, NEW v, NEW e, NEW L, NEW S, Aimed(s, v, e, L, S)
  PROVE  LET t == TakeElement(s, v, e) IN
         \/ t.ok = TRUE /\ Taken(s, t, v, e, L, S)
         \/ t.ok = FALSE /\ Stays(s, t, v, L, S)
<1> DEFINE t == TakeElement(s, v, e)
           m == Size(s, v)
           from(f) == IF f < e THEN f ELSE f + 1
<1> HIDE DEF t
<1>1. CASE Extensible[v] /\ m > AtLeast[v]
  <2> DEFINE ex == IF Allows[v] THEN RemoveAt(s.exprs[v], e) ELSE s.exprs[v]
             k == IF Allows[v] THEN DropExpressions(s, v, RemoveAt(s.exprs[v], e)) ELSE s
             r == [k EXCEPT !.data[v] = RemoveAt(k.data[v], e), !.isSet[v] = RemoveAt(k.isSet[v], e),
                            !.index[v] = IF Discrete[v] THEN RemoveAt(k.index[v], e) ELSE k.index[v]]
             dt == RemoveAt(s.data[v], e)
             st == RemoveAt(s.isSet[v], e)
             old == s.exprs[v]
  <2>1. /\ L \in SUBSET Attributes /\ Sound(s, L, S) /\ v \in ValueItems /\ e \in 1 .. m /\ m \in Nat
        /\ m <= MaxLen /\ MaxLen \in Nat /\ Shape(s) /\ Tables(s) /\ s.active[v] \in Values /\ S \cup {v} = S
        /\ s.data[v] \in [1 .. m -> Valid[v] \cup {None}] /\ s.isSet[v] \in [1 .. m -> BOOLEAN]
        /\ (Discrete[v] => \A f \in 1 .. m : s.isSet[v][f] => s.data[v][f] # None)
        /\ WithinLimits(v, m) /\ Extensible[v]
    BY <1>1, RefConstantsOK DEF Aimed, Sound, ItemGood, Fitting
  <2>2. t = Answer(r, TRUE)
    BY <1>1 DEF TakeElement, t
  <2>3. SameRefs(s, s)
    BY <2>1, SelfSame
  <2>4. NewExprs(s, k, v, ex)
    BY <2>1, <2>3, ExprsWithout, Dropped, ExprsStay
  <2>5. Shape(k) /\ k.data = s.data /\ k.isSet = s.isSet /\ k.index = s.index
    BY <2>4 DEF NewExprs
  <2> HIDE DEF k, m
  <2>6. /\ Shape(r) /\ r.ok = k.ok /\ r.broken = k.broken /\ r.values = k.values /\ r.refs = k.refs
        /\ r.exists = k.exists /\ r.exprs = k.exprs /\ r.active = k.active
        /\ r.data = [k.data EXCEPT ![v] = dt] /\ r.isSet = [k.isSet EXCEPT ![v] = st]
        /\ r.index = [k.index EXCEPT ![v] = IF Discrete[v] THEN RemoveAt(k.index[v], e) ELSE k.index[v]]
    BY <2>5 DEF Shape, Fields
  <2>7. r.index = IF Discrete[v] THEN [k.index EXCEPT ![v] = dt] ELSE k.index
    <3>1. Discrete[v] => s.index[v] = s.data[v]
      BY <2>1, IndexIsData
    <3>2. s.index = [s.index EXCEPT ![v] = s.index[v]]
      BY <2>1 DEF Tables
    <3> HIDE DEF r
    <3>3. QED
      BY <2>5, <2>6, <3>1, <3>2
  <2> HIDE DEF r
  <2>8. /\ dt \in [1 .. m - 1 -> Valid[v] \cup {None}]
        /\ \A f \in 1 .. m - 1 : dt[f] = s.data[v][from(f)]
    <3>1. IsWithout(dt, s.data[v], m, e, Valid[v] \cup {None})
      BY <2>1, RemoveAtFacts
    <3> HIDE DEF dt
    <3>2. QED
      BY <3>1 DEF IsWithout
  <2>9. /\ st \in [1 .. m - 1 -> BOOLEAN]
        /\ \A f \in 1 .. m - 1 : st[f] = s.isSet[v][from(f)]
    <3>1. IsWithout(st, s.isSet[v], m, e, BOOLEAN)
      BY <2>1, RemoveAtFacts
    <3> HIDE DEF st
    <3>2. QED
      BY <3>1 DEF IsWithout
  <2> HIDE DEF dt, st, ex, old
  <2>10. \A f \in 1 .. m - 1 : from(f) \in 1 .. m
    BY <2>1
  <2> HIDE DEF from
  <2>11. Rebuilt(s, r, v, dt, st, ex, s.active[v])
    BY <2>1, <2>4, <2>6, <2>7, RebuiltFrom
  <2>12. /\ ex \in [1 .. (IF Allows[v] THEN m - 1 ELSE 0) -> Pool]
         /\ \A f, g \in DOMAIN ex : ex[f] = ex[g] => f = g
         /\ Range(ex) \subseteq Range(old)
         /\ Allows[v] => \A f \in 1 .. m - 1 : ex[f] = old[from(f)]
    <3>1. CASE Allows[v]
      <4>1. /\ IsWithout(ex, old, m, e, Pool)
            /\ \A f, g \in DOMAIN ex : ex[f] = ex[g] => f = g
            /\ Range(ex) \subseteq Range(old)
        BY <3>1, ExprsWithout DEF ex, old, m
      <4>2. QED
        BY <3>1, <4>1 DEF IsWithout, from
    <3>2. CASE ~Allows[v]
      <4>1. ex = old /\ old \in [1 .. 0 -> Pool]
        BY <2>1, <3>2 DEF ex, old, Sound, ItemGood
      <4>2. DOMAIN ex = {}
        BY <4>1
      <4>3. QED
        BY <3>2, <4>1, <4>2
    <3>3. QED
      BY <3>1, <3>2
  <2>13. WithinLimits(v, m - 1) /\ m - 1 \in Nat /\ m - 1 <= MaxLen
    <3>1. AtLeast[v] \in Nat /\ AtMost[v] \in Nat
      BY <2>1, ValueConstantsOK
    <3>2. QED
      BY <1>1, <2>1, <3>1 DEF WithinLimits, m
  <2>14. Rebuild(s, r, v, dt, st, ex, s.active[v], m - 1, L, S)
    <3>1. \A f \in DOMAIN ex : ex[f] \in Range(old) \/ ex[f] \notin s.exists
      BY <2>12 DEF Range
    <3>2. Discrete[v] => \A f \in 1 .. m - 1 : st[f] => dt[f] # None
      BY <2>1, <2>8, <2>9, <2>10
    <3>3. MayRebuild(s, v, dt, st, ex, s.active[v], m - 1)
      BY <2>1, <2>8, <2>9, <2>12, <2>13, <3>1, <3>2 DEF MayRebuild, old
    <3>4. QED
      BY <2>1, <2>11, <3>3 DEF Rebuild
  <2>15. /\ Sound(r, L, S) /\ Apart(s, r, v) /\ Size(r, v) = m - 1
         /\ r.data[v] = dt /\ r.isSet[v] = st /\ ExprsKept(s, r, v, ex, m - 1)
    <3>1. /\ Sound(r, L, S \cup {v}) /\ Apart(s, r, v) /\ Size(r, v) = m - 1
          /\ r.data[v] = dt /\ r.isSet[v] = st /\ ExprsKept(s, r, v, ex, m - 1)
      BY <2>14, RebuiltGood
    <3>2. QED
      BY <2>1, <3>1
  <2>16. ASSUME NEW f \in 1 .. m - 1
         PROVE  Element(r, v, f) = Element(s, v, from(f))
    <3>1. from(f) \in 1 .. Size(s, v)
      BY <2>10 DEF m
    <3>2. Attr(r, v, f) = Attr(s, v, from(f))
      BY <2>12, <2>15, <3>1 DEF ExprsKept, old
    <3>3. QED
      BY <2>8, <2>9, <2>15, <3>2, ElementSeen
  <2>17. Taken(s, r, v, e, L, S)
    BY <2>15, <2>16 DEF Taken, m, from
  <2>18. t.ok = TRUE /\ Taken(s, t, v, e, L, S)
    <3>1. /\ Sound(t, L, S) /\ Apart(s, t, v) /\ Size(t, v) = Size(r, v)
          /\ \A f : Element(t, v, f) = Element(r, v, f)
      <4>1. Shape(r) /\ TRUE \in BOOLEAN /\ t = Answer(r, TRUE)
        BY <2>2, <2>6
      <4>2. \A w : Size(Answer(r, TRUE), w) = Size(r, w) /\ \A f : Element(Answer(r, TRUE), w, f) = Element(r, w, f)
        BY <4>1, AnswerSame
      <4>3. Sound(Answer(r, TRUE), L, S)
        BY <2>15, <4>1, AnswerSame
      <4>4. Apart(s, Answer(r, TRUE), v)
        BY <2>15, <4>1, AnswerSame
      <4>5. QED
        BY <4>1, <4>2, <4>3, <4>4
    <3>2. Taken(s, t, v, e, L, S)
      BY <2>17, <3>1 DEF Taken
    <3>3. QED
      BY <2>2, <2>6, <3>2, AnswerOk
  <2>19. QED
    BY <2>18 DEF t
<1>2. CASE ~(Extensible[v] /\ m > AtLeast[v])
  <2>1. t = Answer(s, FALSE)
    BY <1>2 DEF TakeElement, t
  <2>2. Stays(s, s, v, L, S) /\ Shape(s)
    BY SelfStays DEF Aimed, Sound
  <2>3. t.ok = FALSE /\ Stays(s, t, v, L, S)
    BY <2>1, <2>2, AnswerStays, AnswerOk
  <2>4. QED
    BY <2>3 DEF t
<1>3. QED
  BY <1>1, <1>2

-----------------------------------------------------------------------------
(* Calls on all elements                                                     *)

\* What a state is made of.
StateSet ==
  [values : [Items -> Seq(Slots)], refs : [Attributes -> [Items -> SUBSET Nat]], broken : BOOLEAN,
   exists : SUBSET Items, data : [ValueItems -> Seq(Values)], isSet : [ValueItems -> Seq(BOOLEAN)],
   index : [ValueItems -> Seq(Values)], exprs : [ValueItems -> Seq(Pool)],
   active : [ValueItems -> Values], ok : BOOLEAN]

\* The vectors of an item are sequences.
LEMMA ItemIn ==
  ASSUME NEW s, NEW v \in ValueItems, ItemGood(s, v)
  PROVE  /\ s.data[v] \in Seq(Values) /\ s.isSet[v] \in Seq(BOOLEAN) /\ s.index[v] \in Seq(Values)
         /\ s.exprs[v] \in Seq(Pool) /\ s.active[v] \in Values
<1> DEFINE n == Size(s, v)
           k == IF Discrete[v] THEN n ELSE 0
           m == IF Allows[v] THEN n ELSE 0
<1>1. n \in Nat /\ k \in Nat /\ m \in Nat
  BY DEF ItemGood
<1>2. /\ s.isSet[v] \in [1 .. n -> BOOLEAN] /\ s.data[v] \in [1 .. n -> Values]
      /\ s.index[v] \in [1 .. k -> Values] /\ s.exprs[v] \in [1 .. m -> Pool] /\ s.active[v] \in Values
  BY ValuesApart DEF ItemGood
<1> HIDE DEF n, k, m
<1>3. QED
  BY <1>1, <1>2, TableIsSeq

\* A state in which all is in order is in a set of states, as a fold needs.
LEMMA SoundIn ==
  ASSUME NEW s, NEW L, NEW S, Sound(s, L, S)
  PROVE  s \in StateSet
<1>1. Shape(s) /\ s.ok \in BOOLEAN /\ RefsGood(s, L) /\ Tables(s)
  BY DEF Sound
<1>2. \A v \in ValueItems :
        /\ s.data[v] \in Seq(Values) /\ s.isSet[v] \in Seq(BOOLEAN) /\ s.index[v] \in Seq(Values)
        /\ s.exprs[v] \in Seq(Pool) /\ s.active[v] \in Values
  BY ItemIn DEF Sound
<1>3. /\ s.data \in [ValueItems -> Seq(Values)] /\ s.isSet \in [ValueItems -> Seq(BOOLEAN)]
      /\ s.index \in [ValueItems -> Seq(Values)] /\ s.exprs \in [ValueItems -> Seq(Pool)]
      /\ s.active \in [ValueItems -> Values]
  BY <1>1, <1>2 DEF Tables
<1>4. /\ s.values \in [Items -> Seq(Slots)] /\ s.exists \in SUBSET Items /\ s.broken \in BOOLEAN
      /\ s.refs = RefsOf(s.values)
  BY <1>1 DEF RefsGood
<1>5. s.refs \in [Attributes -> [Items -> SUBSET Nat]]
  <2>1. \A i \in Items : DOMAIN s.values[i] \in SUBSET Nat
    BY <1>4, LenProperties
  <2>2. QED
    BY <1>4, <2>1 DEF RefsOf
<1>6. QED
  BY <1>1, <1>3, <1>4, <1>5 DEF Shape, Fields, StateSet

\* The states of a loop over the elements of item v from s: elements in E are
\* what y says, and the answer is one of oks.
Reach(s, v, y, E, oks, L, S) ==
  {t \in StateSet : Near(s, t, v, L, S) /\ t.ok \in oks /\ \A e \in E : Element(t, v, e) = y[e]}

\* A step of a loop, that does those in D.
LoopStep(s, t, v, i, y, D, oks, L, S) ==
  t.ok \in oks /\ \E z : Turned(s, t, v, i, z, L, S) /\ (i \in D => z = y[i])

\* Item v of s0, and what a loop over its n elements does with it.
Loop(s0, v, n, y, D, E, oks, L, S) ==
  /\ Sound(s0, L, S) /\ n \in Nat /\ n = Size(s0, v) /\ D \subseteq 1 .. n /\ E \subseteq D
  /\ s0.ok \in oks /\ \A e \in E : Element(s0, v, e) = y[e]

\* A loop starts where it is.
LEMMA LoopStart ==
  ASSUME NEW s0, NEW v, NEW n, NEW y, NEW D, NEW E, NEW oks, NEW L, NEW S,
         Loop(s0, v, n, y, D, E, oks, L, S)
  PROVE  s0 \in Reach(s0, v, y, E, oks, L, S) /\ n \in Nat
<1>1. Near(s0, s0, v, L, S)
  BY SelfStays, NearFacts DEF Loop
<1>2. QED
  BY <1>1, SoundIn DEF Loop, Reach

\* A pass of a loop that does its part at one element goes on within reach.
LEMMA LoopGoesOn ==
  ASSUME NEW s0, NEW v, NEW n, NEW y, NEW D, NEW E, NEW oks, NEW L, NEW S,
         Loop(s0, v, n, y, D, E, oks, L, S), NEW s \in Reach(s0, v, y, E, oks, L, S), NEW i \in 1 .. n,
         NEW t, LoopStep(s, t, v, i, y, D, oks, L, S)
  PROVE  t \in Reach(s0, v, y, E, oks, L, S)
<1>1. PICK z : Turned(s, t, v, i, z, L, S) /\ (i \in D => z = y[i])
  BY DEF LoopStep
<1>2. /\ Sound(t, L, S) /\ Apart(s, t, v) /\ Size(t, v) = Size(s, v) /\ Element(t, v, i) = z
      /\ \A f \in 1 .. Size(s, v) : f # i => Element(t, v, f) = Element(s, v, f)
  BY <1>1 DEF Turned
<1>3. /\ Apart(s0, s, v) /\ Size(s, v) = n /\ n = Size(s0, v) /\ E \subseteq 1 .. n /\ E \subseteq D
      /\ \A e \in E : Element(s, v, e) = y[e]
  BY DEF Reach, Near, Loop
<1>4. Apart(s0, t, v)
  BY <1>2, <1>3, ApartTwice
<1>5. Near(s0, t, v, L, S)
  BY <1>2, <1>3, <1>4 DEF Near
<1>6. \A e \in E : Element(t, v, e) = y[e]
  BY <1>1, <1>2, <1>3
<1>7. t \in StateSet /\ t.ok \in oks
  BY <1>2, SoundIn DEF LoopStep
<1>8. QED
  BY <1>5, <1>6, <1>7 DEF Reach

\* A function F that does the steps.
LoopDoes(F, s0, v, n, y, D, E, oks, L, S) ==
  /\ F = [p \in Reach(s0, v, y, E, oks, L, S) \X (1 .. n) |-> F[p]]
  /\ \A s \in Reach(s0, v, y, E, oks, L, S), i \in 1 .. n : LoopStep(s, F[<< s, i >>], v, i, y, D, oks, L, S)

\* A body that does its part at each element is a step of a fold.
LEMMA LoopSteps ==
  ASSUME NEW s0, NEW v, NEW n, NEW y, NEW D, NEW E, NEW oks, NEW L, NEW S, NEW F,
         Loop(s0, v, n, y, D, E, oks, L, S), LoopDoes(F, s0, v, n, y, D, E, oks, L, S)
  PROVE  F \in FoldSteps(n, Reach(s0, v, y, E, oks, L, S))
<1> DEFINE T == Reach(s0, v, y, E, oks, L, S)
<1>1. ASSUME NEW s \in T, NEW i \in 1 .. n PROVE F[<< s, i >>] \in T
  <2> DEFINE t == F[<< s, i >>]
  <2>1. LoopStep(s, t, v, i, y, D, oks, L, S)
    BY DEF LoopDoes
  <2> HIDE DEF t
  <2>2. t \in T
    BY <2>1, LoopGoesOn
  <2>3. QED
    BY <2>2 DEF t
<1>2. F = [p \in T \X (1 .. n) |-> F[p]]
  BY DEF LoopDoes
<1> HIDE DEF T
<1>3. QED
  BY <1>1, <1>2 DEF FoldSteps, T

\* In the end all elements in D are what y says.
LEMMA LoopEnds ==
  ASSUME NEW s0, NEW v, NEW n, NEW y, NEW D, NEW E, NEW oks, NEW L, NEW S, NEW F, NEW g,
         Loop(s0, v, n, y, D, E, oks, L, S), LoopDoes(F, s0, v, n, y, D, E, oks, L, S),
         FoldsWithin(g, n, Reach(s0, v, y, E, oks, L, S), s0, F)
  PROVE  g[1 .. n] \in Reach(s0, v, y, D, oks, L, S)
<1> DEFINE T == Reach(s0, v, y, E, oks, L, S)
           R == {p \in T \X (1 .. n) : p[2] \in D => Element(p[1], v, p[2]) = y[p[2]]}
           last == g[1 .. n]
<1>1. n \in Nat /\ s0 \in T /\ F \in FoldSteps(n, T)
  BY LoopStart, LoopSteps
<1>2. ASSUME NEW s \in T, NEW i \in 1 .. n
      PROVE  /\ << F[<< s, i >>], i >> \in R
             /\ \A j \in 1 .. n : << s, j >> \in R => << F[<< s, i >>], j >> \in R
  <2> DEFINE t == F[<< s, i >>]
  <2>1. LoopStep(s, t, v, i, y, D, oks, L, S)
    BY DEF LoopDoes
  <2>2. t \in T
    BY <2>1, LoopGoesOn
  <2>3. PICK z : Turned(s, t, v, i, z, L, S) /\ (i \in D => z = y[i])
    BY <2>1 DEF LoopStep
  <2>4. Element(t, v, i) = z /\ \A f \in 1 .. n : f # i => Element(t, v, f) = Element(s, v, f)
    BY <2>3 DEF Turned, Reach, Near, Loop
  <2> HIDE DEF t, T
  <2>5. << t, i >> \in R
    BY <2>2, <2>3, <2>4
  <2>6. ASSUME NEW j \in 1 .. n, << s, j >> \in R PROVE << t, j >> \in R
    BY <2>2, <2>3, <2>4, <2>6
  <2>7. QED
    BY <2>5, <2>6 DEF t
<1>3. Achieves(R, n, T, F)
  <2> HIDE DEF R, T
  <2>1. QED
    BY <1>2 DEF Achieves
<1>4. last \in T /\ \A i \in 1 .. n : << last, i >> \in R
  <2> HIDE DEF R, T, last
  <2>1. QED
    BY <1>1, <1>3, FoldAchieves DEF T, last
<1>5. D \subseteq 1 .. n
  BY DEF Loop
<1>6. \A i \in D : Element(last, v, i) = y[i]
  <2> HIDE DEF T, last
  <2>1. QED
    BY <1>4, <1>5
<1>7. QED
  BY <1>4, <1>6 DEF Reach

-----------------------------------------------------------------------------
(* The loops of ResetValues and AssignValues                                 *)

\* What a pass of a loop may rely on.
LEMMA InReach ==
  ASSUME NEW s0, NEW v, NEW n, NEW y, NEW D, NEW E, NEW oks, NEW L, NEW S, Loop(s0, v, n, y, D, E, oks, L, S),
         L \in SUBSET Attributes, v \in S, NEW s \in Reach(s0, v, y, E, oks, L, S), NEW i \in 1 .. n
  PROVE  /\ Aimed(s, v, i, L, S) /\ s.ok \in oks /\ Shape(s) /\ Sound(s, L, S)
         /\ i \in E => Element(s, v, i) = y[i]
BY DEF Loop, Reach, Near, Aimed, Sound

\* An element nothing is done to shows what it did.
LEMMA Unchanged ==
  ASSUME NEW s, NEW t, NEW v, NEW e, NEW L, NEW S, Stays(s, t, v, L, S), e \in 1 .. Size(s, v)
  PROVE  Turned(s, t, v, e, Element(s, v, e), L, S)
BY DEF Stays, Turned

\* An element has what it has.
LEMMA SelfPut ==
  ASSUME NEW s, NEW v, NEW e, NEW L, NEW S, Aimed(s, v, e, L, S), ~Discrete[v]
  PROVE  Put(s, s, v, e, s.data[v][e], s.isSet[v][e])
<1> DEFINE n == Size(s, v)
<1>1. /\ s.data[v] \in [1 .. n -> Valid[v] \cup {None}] /\ s.isSet[v] \in [1 .. n -> BOOLEAN] /\ Tables(s)
      /\ v \in ValueItems
  BY DEF Aimed, Sound, ItemGood
<1> HIDE DEF n
<1>2. /\ s.data[v] = [s.data[v] EXCEPT ![e] = s.data[v][e]]
      /\ s.isSet[v] = [s.isSet[v] EXCEPT ![e] = s.isSet[v][e]]
  BY <1>1
<1>3. s.data = [s.data EXCEPT ![v] = s.data[v]] /\ s.isSet = [s.isSet EXCEPT ![v] = s.isSet[v]]
  BY <1>1 DEF Tables
<1>4. QED
  BY <1>2, <1>3 DEF Put

\* Taking away the expression of an element touches nothing else.
LEMMA ExpressionCleared ==
  ASSUME NEW s, NEW v, NEW e, NEW L, NEW S, Aimed(s, v, e, L, S)
  PROVE  /\ \E z : Turned(s, UnsetExpression(s, v, e), v, e, z, L, S)
         /\ UnsetExpression(s, v, e).ok = s.ok
<1>1. /\ v \in ValueItems /\ Shape(s) /\ s.data[v][e] \in Valid[v] \cup {None} /\ s.isSet[v][e] \in BOOLEAN
      /\ Discrete[v] => ~Allows[v]
  BY AimedAt
<1>2. UnsetExpression(s, v, e).ok = s.ok
  BY <1>1 DEF UnsetExpression, Unset, Shape, Fields
<1>3. CASE Discrete[v]
  <2>1. UnsetExpression(s, v, e) = s
    BY <1>1, <1>3 DEF UnsetExpression
  <2>2. Turned(s, s, v, e, Element(s, v, e), L, S)
    BY SelfStays, Unchanged DEF Aimed
  <2>3. QED
    BY <1>2, <2>1, <2>2
<1>4. CASE ~Discrete[v]
  <2>1. SameRefs(s, s)
    BY SelfSame DEF Aimed
  <2>2. Put(s, s, v, e, s.data[v][e], s.isSet[v][e])
    BY <1>4, SelfPut
  <2>3. QED
    BY <1>1, <1>2, <1>4, <2>1, <2>2, UnsetExpressionTurns
<1>5. QED
  BY <1>3, <1>4

\* The expressions of all elements are taken away.
ClearAll(s0, v) == Each(s0, v, LAMBDA s, e : UnsetExpression(s, v, e))

\* The loop of reset that takes away the expressions.
LEMMA ClearAllDone ==
  ASSUME NEW s0, NEW v, NEW n, NEW y, NEW D, NEW E, NEW oks, NEW L, NEW S,
         Loop(s0, v, n, y, D, E, oks, L, S), L \in SUBSET Attributes, v \in S,
         D = {}
  PROVE  ClearAll(s0, v) \in Reach(s0, v, y, D, oks, L, S)
<1> DEFINE q == [e \in 1 .. n |-> e]
           T == Reach(s0, v, y, E, oks, L, S)
           Step(s, i) == UnsetExpression(s, v, q[i])
           F == [p \in T \X (1 .. n) |-> Step(p[1], p[2])]
           Is(h) == h = [s \in SUBSET (1 .. n) |->
                           IF s = {} THEN s0 ELSE Step(h[s \ {Max(s)}], Max(s))]
           g == CHOOSE k : Is(k)
           all == ClearAll(s0, v)
<1>1. n \in Nat /\ s0 \in T
  BY LoopStart
<1>2. ASSUME NEW s \in T, NEW i \in 1 .. n
      PROVE  LoopStep(s, Step(s, i), v, i, y, D, oks, L, S)
  <2>1. Aimed(s, v, i, L, S) /\ s.ok \in oks
    BY InReach
  <2>2. UnsetExpression(s, v, i).ok = s.ok /\ \E z : Turned(s, UnsetExpression(s, v, i), v, i, z, L, S)
    BY <2>1, ExpressionCleared
  <2>3. QED
    BY <2>1, <2>2 DEF LoopStep
<1>3. LoopDoes(F, s0, v, n, y, D, E, oks, L, S)
  <2> HIDE DEF T, Step
  <2>1. F = [p \in T \X (1 .. n) |-> F[p]]
    OBVIOUS
  <2>2. \A s \in T, i \in 1 .. n : LoopStep(s, F[<< s, i >>], v, i, y, D, oks, L, S)
    BY <1>2
  <2>3. QED
    BY <2>1, <2>2 DEF LoopDoes, T
<1>4. Is(g)
  <2> HIDE DEF T, q, Step
  <2>1. PICK h : Folds(h, n, T, s0, F)
    <3> HIDE DEF F
    <3>1. F \in FoldSteps(n, T)
      BY <1>3, LoopSteps DEF T
    <3>2. QED
      BY <1>1, <3>1, FoldSolved
  <2>2. Is(h)
    BY <2>1 DEF Folds
  <2> HIDE DEF Is
  <2>3. QED
    BY <2>2
<1>5. all = g[1 .. n]
  <2>1. Size(s0, v) = n /\ DOMAIN q = 1 .. n
    BY DEF Loop
  <2>2. QED
    BY <2>1 DEF ClearAll, Each, FoldLeft, MapThenFoldSet
<1>6. FoldsWithin(g, n, T, s0, F)
  <2> HIDE DEF g, q, T, Step
  <2>1. QED
    BY <1>4 DEF FoldsWithin
<1>7. QED
  <2> HIDE DEF g, F, T, all
  <2>1. QED
    BY <1>3, <1>5, <1>6, LoopEnds DEF T, all

\* All elements are unset.
UnsetEach(s0, v) == Each(s0, v, LAMBDA s, e : UnsetElement(s, v, e))

\* The loop of reset that unsets, without a default.
LEMMA UnsetEachDone ==
  ASSUME NEW s0, NEW v, NEW n, NEW y, NEW D, NEW E, NEW oks, NEW L, NEW S,
         Loop(s0, v, n, y, D, E, oks, L, S), L \in SUBSET Attributes, v \in S,
         \A e \in 1 .. n : y[e] = NotSet
  PROVE  UnsetEach(s0, v) \in Reach(s0, v, y, D, oks, L, S)
<1> DEFINE q == [e \in 1 .. n |-> e]
           T == Reach(s0, v, y, E, oks, L, S)
           Step(s, i) == UnsetElement(s, v, q[i])
           F == [p \in T \X (1 .. n) |-> Step(p[1], p[2])]
           Is(h) == h = [s \in SUBSET (1 .. n) |->
                           IF s = {} THEN s0 ELSE Step(h[s \ {Max(s)}], Max(s))]
           g == CHOOSE k : Is(k)
           all == UnsetEach(s0, v)
<1>1. n \in Nat /\ s0 \in T
  BY LoopStart
<1>2. ASSUME NEW s \in T, NEW i \in 1 .. n
      PROVE  LoopStep(s, Step(s, i), v, i, y, D, oks, L, S)
  <2>1. Aimed(s, v, i, L, S) /\ s.ok \in oks /\ Shape(s)
    BY InReach
  <2>2. Turned(s, UnsetElement(s, v, i), v, i, NotSet, L, S)
    BY <2>1, UnsetElementTurns
  <2>3. UnsetElement(s, v, i).ok = s.ok
    BY <2>1 DEF UnsetElement, Shape, Fields
  <2>4. QED
    BY <2>1, <2>2, <2>3 DEF LoopStep
<1>3. LoopDoes(F, s0, v, n, y, D, E, oks, L, S)
  <2> HIDE DEF T, Step
  <2>1. F = [p \in T \X (1 .. n) |-> F[p]]
    OBVIOUS
  <2>2. \A s \in T, i \in 1 .. n : LoopStep(s, F[<< s, i >>], v, i, y, D, oks, L, S)
    BY <1>2
  <2>3. QED
    BY <2>1, <2>2 DEF LoopDoes, T
<1>4. Is(g)
  <2> HIDE DEF T, q, Step
  <2>1. PICK h : Folds(h, n, T, s0, F)
    <3> HIDE DEF F
    <3>1. F \in FoldSteps(n, T)
      BY <1>3, LoopSteps DEF T
    <3>2. QED
      BY <1>1, <3>1, FoldSolved
  <2>2. Is(h)
    BY <2>1 DEF Folds
  <2> HIDE DEF Is
  <2>3. QED
    BY <2>2
<1>5. all = g[1 .. n]
  <2>1. Size(s0, v) = n /\ DOMAIN q = 1 .. n
    BY DEF Loop
  <2>2. QED
    BY <2>1 DEF UnsetEach, Each, FoldLeft, MapThenFoldSet
<1>6. FoldsWithin(g, n, T, s0, F)
  <2> HIDE DEF g, q, T, Step
  <2>1. QED
    BY <1>4 DEF FoldsWithin
<1>7. QED
  <2> HIDE DEF g, F, T, all
  <2>1. QED
    BY <1>3, <1>5, <1>6, LoopEnds DEF T, all

\* The default value is put everywhere.
PutDefaults(s0, v) == Each(s0, v, LAMBDA s, e : IF Discrete[v] THEN PutIndex(s, v, e, Default[v]) ELSE PutValue(s, v, e, Default[v]))

\* The loop of reset that puts the default.
LEMMA PutDefaultsDone ==
  ASSUME NEW s0, NEW v, NEW n, NEW y, NEW D, NEW E, NEW oks, NEW L, NEW S,
         Loop(s0, v, n, y, D, E, oks, L, S), L \in SUBSET Attributes, v \in S,
         TRUE \in oks, HasDefault(v), v \in ValueItems, \A e \in 1 .. n : y[e] = Default[v]
  PROVE  PutDefaults(s0, v) \in Reach(s0, v, y, D, oks, L, S)
<1> DEFINE q == [e \in 1 .. n |-> e]
           T == Reach(s0, v, y, E, oks, L, S)
           Step(s, i) == IF Discrete[v] THEN PutIndex(s, v, q[i], Default[v]) ELSE PutValue(s, v, q[i], Default[v])
           F == [p \in T \X (1 .. n) |-> Step(p[1], p[2])]
           Is(h) == h = [s \in SUBSET (1 .. n) |->
                           IF s = {} THEN s0 ELSE Step(h[s \ {Max(s)}], Max(s))]
           g == CHOOSE k : Is(k)
           all == PutDefaults(s0, v)
<1>1. n \in Nat /\ s0 \in T
  BY LoopStart
<1>2. ASSUME NEW s \in T, NEW i \in 1 .. n
      PROVE  LoopStep(s, Step(s, i), v, i, y, D, oks, L, S)
  <2> DEFINE t == IF Discrete[v] THEN PutIndex(s, v, i, Default[v]) ELSE PutValue(s, v, i, Default[v])
  <2>1. Aimed(s, v, i, L, S)
    BY InReach
  <2>2. Default[v] \in Valid[v]
    BY DefaultIs DEF HasDefault
  <2>3. t.ok = TRUE /\ Turned(s, t, v, i, Default[v], L, S)
    <3>1. CASE Discrete[v]
      BY <2>1, <2>2, <3>1, PutIndexTurns
    <3>2. CASE ~Discrete[v]
      BY <2>1, <2>2, <3>2, PutValueTurns
    <3>3. QED
      BY <3>1, <3>2
  <2>4. Step(s, i) = t
    OBVIOUS
  <2> HIDE DEF t, Step
  <2>5. QED
    BY <2>3, <2>4 DEF LoopStep
<1>3. LoopDoes(F, s0, v, n, y, D, E, oks, L, S)
  <2> HIDE DEF T, Step
  <2>1. F = [p \in T \X (1 .. n) |-> F[p]]
    OBVIOUS
  <2>2. \A s \in T, i \in 1 .. n : LoopStep(s, F[<< s, i >>], v, i, y, D, oks, L, S)
    BY <1>2
  <2>3. QED
    BY <2>1, <2>2 DEF LoopDoes, T
<1>4. Is(g)
  <2> HIDE DEF T, q, Step
  <2>1. PICK h : Folds(h, n, T, s0, F)
    <3> HIDE DEF F
    <3>1. F \in FoldSteps(n, T)
      BY <1>3, LoopSteps DEF T
    <3>2. QED
      BY <1>1, <3>1, FoldSolved
  <2>2. Is(h)
    BY <2>1 DEF Folds
  <2> HIDE DEF Is
  <2>3. QED
    BY <2>2
<1>5. all = g[1 .. n]
  <2>1. Size(s0, v) = n /\ DOMAIN q = 1 .. n
    BY DEF Loop
  <2>2. QED
    BY <2>1 DEF PutDefaults, Each, FoldLeft, MapThenFoldSet
<1>6. FoldsWithin(g, n, T, s0, F)
  <2> HIDE DEF g, q, T, Step
  <2>1. QED
    BY <1>4 DEF FoldsWithin
<1>7. QED
  <2> HIDE DEF g, F, T, all
  <2>1. QED
    BY <1>3, <1>5, <1>6, LoopEnds DEF T, all

\* The elements src of an item like v, and its indices ix.
Source(src, ix, v, n, L) ==
  \A e \in 1 .. n :
    /\ src[e] \in {NotSet} \cup Attributes \cup Valid[v] \cup {None}
    /\ src[e] \in Attributes => src[e] \in L /\ IsExpression(v, src[e])
    /\ Discrete[v] /\ src[e] \notin {NotSet} \cup Attributes => ix[e] = src[e] /\ src[e] \in Valid[v]

\* ValueItem::assign: what is not set, expressions and indices.
AssignRough(s0, v, src, ix) == Each(s0, v, LAMBDA s, e : IF src[e] = NotSet THEN UnsetElement(s, v, e)
    ELSE IF src[e] \in Attributes THEN PutExpression(s, v, e, src[e])
    ELSE IF Discrete[v] THEN PutIndex(s, v, e, ix[e])
    ELSE s)

\* The loop of ValueItem::assign: what is unset, an expression or discrete.
LEMMA AssignRoughDone ==
  ASSUME NEW s0, NEW v, NEW n, NEW y, NEW D, NEW E, NEW oks, NEW L, NEW S, NEW src, NEW ix,
         Loop(s0, v, n, y, D, E, oks, L, S), L \in SUBSET Attributes, v \in S,
         src = y, oks = BOOLEAN, Source(src, ix, v, n, L), D = {e \in 1 .. n : src[e] \in {NotSet} \cup Attributes \/ Discrete[v]}
  PROVE  AssignRough(s0, v, src, ix) \in Reach(s0, v, y, D, oks, L, S)
<1> DEFINE q == [e \in 1 .. n |-> e]
           T == Reach(s0, v, y, E, oks, L, S)
           Step(s, i) == IF src[q[i]] = NotSet THEN UnsetElement(s, v, q[i])
    ELSE IF src[q[i]] \in Attributes THEN PutExpression(s, v, q[i], src[q[i]])
    ELSE IF Discrete[v] THEN PutIndex(s, v, q[i], ix[q[i]])
    ELSE s
           F == [p \in T \X (1 .. n) |-> Step(p[1], p[2])]
           Is(h) == h = [s \in SUBSET (1 .. n) |->
                           IF s = {} THEN s0 ELSE Step(h[s \ {Max(s)}], Max(s))]
           g == CHOOSE k : Is(k)
           all == AssignRough(s0, v, src, ix)
<1>1. n \in Nat /\ s0 \in T
  BY LoopStart
<1>2. ASSUME NEW s \in T, NEW i \in 1 .. n
      PROVE  LoopStep(s, Step(s, i), v, i, y, D, oks, L, S)
  <2> DEFINE t == IF src[i] = NotSet THEN UnsetElement(s, v, i)
                  ELSE IF src[i] \in Attributes THEN PutExpression(s, v, i, src[i])
                  ELSE IF Discrete[v] THEN PutIndex(s, v, i, ix[i])
                  ELSE s
  <2>1. Aimed(s, v, i, L, S) /\ Sound(s, L, S)
    BY InReach
  <2>2. \E z : Turned(s, t, v, i, z, L, S) /\ (i \in D => z = src[i])
    <3>1. CASE src[i] = NotSet
      BY <2>1, <3>1, UnsetElementTurns
    <3>2. CASE src[i] # NotSet /\ src[i] \in Attributes
      <4>1. src[i] \in L /\ src[i] # Null /\ IsExpression(v, src[i])
        BY <3>2, RefConstantsOK DEF Source
      <4>2. Turned(s, PutExpression(s, v, i, src[i]), v, i, Expressed(Element(s, v, i), src[i]), L, S)
        BY <2>1, <4>1, PutExpressionTurns
      <4>3. QED
        BY <3>2, <4>1, <4>2 DEF Expressed
    <3>3. CASE src[i] # NotSet /\ src[i] \notin Attributes /\ Discrete[v]
      <4>1. ix[i] = src[i] /\ src[i] \in Valid[v]
        BY <3>3 DEF Source
      <4>2. QED
        BY <2>1, <3>3, <4>1, PutIndexTurns
    <3>4. CASE src[i] # NotSet /\ src[i] \notin Attributes /\ ~Discrete[v]
      <4>1. Turned(s, s, v, i, Element(s, v, i), L, S)
        BY <2>1, SelfStays, Unchanged DEF Aimed
      <4>2. QED
        BY <3>4, <4>1
    <3>5. QED
      BY <3>1, <3>2, <3>3, <3>4
  <2>3. Step(s, i) = t
    OBVIOUS
  <2> HIDE DEF t, Step
  <2>4. t.ok \in oks
    BY <2>2 DEF Turned, Sound
  <2>5. QED
    BY <2>2, <2>3, <2>4 DEF LoopStep
<1>3. LoopDoes(F, s0, v, n, y, D, E, oks, L, S)
  <2> HIDE DEF T, Step
  <2>1. F = [p \in T \X (1 .. n) |-> F[p]]
    OBVIOUS
  <2>2. \A s \in T, i \in 1 .. n : LoopStep(s, F[<< s, i >>], v, i, y, D, oks, L, S)
    BY <1>2
  <2>3. QED
    BY <2>1, <2>2 DEF LoopDoes, T
<1>4. Is(g)
  <2> HIDE DEF T, q, Step
  <2>1. PICK h : Folds(h, n, T, s0, F)
    <3> HIDE DEF F
    <3>1. F \in FoldSteps(n, T)
      BY <1>3, LoopSteps DEF T
    <3>2. QED
      BY <1>1, <3>1, FoldSolved
  <2>2. Is(h)
    BY <2>1 DEF Folds
  <2> HIDE DEF Is
  <2>3. QED
    BY <2>2
<1>5. all = g[1 .. n]
  <2>1. Size(s0, v) = n /\ DOMAIN q = 1 .. n
    BY DEF Loop
  <2>2. QED
    BY <2>1 DEF AssignRough, Each, FoldLeft, MapThenFoldSet
<1>6. FoldsWithin(g, n, T, s0, F)
  <2> HIDE DEF g, q, T, Step
  <2>1. QED
    BY <1>4 DEF FoldsWithin
<1>7. QED
  <2> HIDE DEF g, F, T, all
  <2>1. QED
    BY <1>3, <1>5, <1>6, LoopEnds DEF T, all

\* ValueItemTemplate::assign: values.
AssignFine(s0, v, src) == Each(s0, v, LAMBDA s, e : IF src[e] \in Data \cup {None} /\ ~Discrete[v] THEN PutValue(s, v, e, src[e]) ELSE s)

\* The loop of the template's assign: the values.
LEMMA AssignFineDone ==
  ASSUME NEW s0, NEW v, NEW n, NEW y, NEW D, NEW E, NEW oks, NEW L, NEW S, NEW src,
         Loop(s0, v, n, y, D, E, oks, L, S), L \in SUBSET Attributes, v \in S,
         src = y, oks = BOOLEAN, D = E \cup {e \in 1 .. n : src[e] \in Valid[v] /\ ~Discrete[v]},
         \A e \in E : src[e] \notin Data \cup {None} \/ Discrete[v]
  PROVE  AssignFine(s0, v, src) \in Reach(s0, v, y, D, oks, L, S)
<1> DEFINE q == [e \in 1 .. n |-> e]
           T == Reach(s0, v, y, E, oks, L, S)
           Step(s, i) == IF src[q[i]] \in Data \cup {None} /\ ~Discrete[v] THEN PutValue(s, v, q[i], src[q[i]]) ELSE s
           F == [p \in T \X (1 .. n) |-> Step(p[1], p[2])]
           Is(h) == h = [s \in SUBSET (1 .. n) |->
                           IF s = {} THEN s0 ELSE Step(h[s \ {Max(s)}], Max(s))]
           g == CHOOSE k : Is(k)
           all == AssignFine(s0, v, src)
<1>1. n \in Nat /\ s0 \in T
  BY LoopStart
<1>2. ASSUME NEW s \in T, NEW i \in 1 .. n
      PROVE  LoopStep(s, Step(s, i), v, i, y, D, oks, L, S)
  <2> DEFINE t == IF src[i] \in Data \cup {None} /\ ~Discrete[v] THEN PutValue(s, v, i, src[i]) ELSE s
  <2>1. Aimed(s, v, i, L, S) /\ Sound(s, L, S) /\ (i \in E => Element(s, v, i) = src[i])
    BY InReach
  <2>2. i \in 1 .. Size(s, v) /\ v \in ValueItems
    BY <2>1 DEF Aimed, Sound
  <2>3. Turned(s, s, v, i, Element(s, v, i), L, S)
    BY <2>1, <2>2, SelfStays, Unchanged
  <2>4. \E z : Turned(s, t, v, i, z, L, S) /\ (i \in D => z = src[i])
    <3>1. CASE ~(src[i] \in Data \cup {None} /\ ~Discrete[v])
      <4>1. i \in D => i \in E
        BY <2>2, <3>1, ValuesApart
      <4>2. QED
        BY <2>1, <2>3, <3>1, <4>1
    <3>2. CASE src[i] \in Valid[v] /\ ~Discrete[v]
      <4>1. src[i] \in Data
        BY <2>2, <3>2, ValuesApart
      <4>2. Turned(s, PutValue(s, v, i, src[i]), v, i, src[i], L, S)
        BY <2>1, <3>2, PutValueTurns
      <4>3. QED
        BY <3>2, <4>1, <4>2
    <3>3. CASE src[i] \in Data \cup {None} /\ ~Discrete[v] /\ src[i] \notin Valid[v]
      <4>1. Stays(s, PutValue(s, v, i, src[i]), v, L, S)
        BY <2>1, <3>3, PutValueTurns
      <4>2. Turned(s, PutValue(s, v, i, src[i]), v, i, Element(s, v, i), L, S)
        BY <2>2, <4>1, Unchanged
      <4>3. i \notin D
        BY <3>3
      <4>4. QED
        BY <3>3, <4>2, <4>3
    <3>4. QED
      BY <3>1, <3>2, <3>3
  <2>5. Step(s, i) = t
    OBVIOUS
  <2> HIDE DEF t, Step
  <2>6. t.ok \in oks
    BY <2>4 DEF Turned, Sound
  <2>7. QED
    BY <2>4, <2>5, <2>6 DEF LoopStep
<1>3. LoopDoes(F, s0, v, n, y, D, E, oks, L, S)
  <2> HIDE DEF T, Step
  <2>1. F = [p \in T \X (1 .. n) |-> F[p]]
    OBVIOUS
  <2>2. \A s \in T, i \in 1 .. n : LoopStep(s, F[<< s, i >>], v, i, y, D, oks, L, S)
    BY <1>2
  <2>3. QED
    BY <2>1, <2>2 DEF LoopDoes, T
<1>4. Is(g)
  <2> HIDE DEF T, q, Step
  <2>1. PICK h : Folds(h, n, T, s0, F)
    <3> HIDE DEF F
    <3>1. F \in FoldSteps(n, T)
      BY <1>3, LoopSteps DEF T
    <3>2. QED
      BY <1>1, <3>1, FoldSolved
  <2>2. Is(h)
    BY <2>1 DEF Folds
  <2> HIDE DEF Is
  <2>3. QED
    BY <2>2
<1>5. all = g[1 .. n]
  <2>1. Size(s0, v) = n /\ DOMAIN q = 1 .. n
    BY DEF Loop
  <2>2. QED
    BY <2>1 DEF AssignFine, Each, FoldLeft, MapThenFoldSet
<1>6. FoldsWithin(g, n, T, s0, F)
  <2> HIDE DEF g, q, T, Step
  <2>1. QED
    BY <1>4 DEF FoldsWithin
<1>7. QED
  <2> HIDE DEF g, F, T, all
  <2>1. QED
    BY <1>3, <1>5, <1>6, LoopEnds DEF T, all

\* Item v of s is what its definition says in t.
Resets(s, t, v, L, S) ==
  /\ Sound(t, L, S) /\ Apart(s, t, v) /\ t.ok = TRUE /\ Size(t, v) = AtLeast[v]
  /\ \A e \in 1 .. AtLeast[v] : Element(t, v, e) = Fill(v)

\* The elements in E of item v are what y says.
Shows(t, v, y, E) == \A e \in E : Element(t, v, e) = y[e]

\* What a loop that is over has done.
LEMMA InEnd ==
  ASSUME NEW s0, NEW v, NEW y, NEW E, NEW oks, NEW L, NEW S, NEW t \in Reach(s0, v, y, E, oks, L, S)
  PROVE  /\ Sound(t, L, S) /\ Apart(s0, t, v) /\ Size(t, v) = Size(s0, v) /\ t.ok \in oks
         /\ Shows(t, v, y, E)
BY DEF Reach, Near, Shows

Yes == {TRUE}

\* The answer of a loop that never refuses.
LEMMA OnlyTrue == TRUE \in Yes /\ \A b \in Yes : b = TRUE
BY DEF Yes

\* The size a definition asks for is within its limits and the bound.
LEMMA SizesOK ==
  \A v \in ValueItems : /\ AtLeast[v] \in 0 .. MaxLen /\ WithinLimits(v, AtLeast[v])
                        /\ AtMost[v] \in Nat
BY ValueConstantsOK, PoolSuffices, RefConstantsOK DEF WithinLimits

\* reset as a size and two loops.
LEMMA ResetIs ==
  ASSUME NEW s, NEW v
  PROVE  ResetValues(s, v) =
           LET clear == ClearAll(SetSize(s, v, AtLeast[v]), v)
           IN  IF HasDefault(v) THEN PutDefaults(clear, v) ELSE UnsetEach(clear, v)
BY DEF ResetValues, ClearAll, PutDefaults, UnsetEach

\* reset makes an item what its definition says.
LEMMA ResetGood ==
  ASSUME NEW L \in SUBSET Attributes, NEW s, NEW S, Sound(s, L, S), NEW v \in S
  PROVE  Resets(s, ResetValues(s, v), v, L, S)
<1> DEFINE n == AtLeast[v]
           u == SetSize(s, v, n)
           c == ClearAll(u, v)
           y == [e \in 1 .. n |-> Fill(v)]
           t == IF HasDefault(v) THEN PutDefaults(c, v) ELSE UnsetEach(c, v)
<1>1. v \in ValueItems /\ n \in 0 .. MaxLen /\ n \in Nat /\ S \cup {v} = S
  BY SizesOK DEF Sound
<1>2. n = Size(s, v) \/ (Extensible[v] /\ WithinLimits(v, n))
  BY <1>1, SizesOK DEF Sound, Fitting
<1>3. u.ok = TRUE /\ Sized(s, u, v, n, L, S)
  <2> HIDE DEF n
  <2>1. QED
    BY <1>1, <1>2, SetSizeGood
<1> HIDE DEF n, u
<1>4. Sound(u, L, S) /\ Apart(s, u, v) /\ Size(u, v) = n
  BY <1>1, <1>3 DEF Sized
<1>5. Loop(u, v, n, y, {}, {}, Yes, L, S)
  BY <1>1, <1>3, <1>4, OnlyTrue DEF Loop
<1>6. c \in Reach(u, v, y, {}, Yes, L, S)
  BY <1>5, ClearAllDone
<1> HIDE DEF c
<1>7. Sound(c, L, S) /\ Apart(u, c, v) /\ Size(c, v) = n /\ c.ok = TRUE
  <2>1. Sound(c, L, S) /\ Apart(u, c, v) /\ Size(c, v) = n /\ c.ok \in Yes
    BY <1>4, <1>6, InEnd
  <2>2. QED
    BY <2>1, OnlyTrue
<1>8. Loop(c, v, n, y, 1 .. n, {}, Yes, L, S)
  BY <1>1, <1>7, OnlyTrue DEF Loop
<1>9. \A e \in 1 .. n : y[e] = Fill(v)
  OBVIOUS
<1> HIDE DEF y
<1>10. t \in Reach(c, v, y, 1 .. n, Yes, L, S)
  <2>1. CASE HasDefault(v)
    BY <1>1, <1>8, <1>9, <2>1, OnlyTrue, PutDefaultsDone DEF Fill
  <2>2. CASE ~HasDefault(v)
    BY <1>1, <1>8, <1>9, <2>2, UnsetEachDone DEF Fill
  <2>3. QED
    BY <2>1, <2>2
<1>11. t = ResetValues(s, v)
  BY ResetIs DEF c, u, n
<1> HIDE DEF t
<1>12. Sound(t, L, S) /\ Apart(c, t, v) /\ Size(t, v) = n /\ t.ok = TRUE
       /\ \A e \in 1 .. n : Element(t, v, e) = Fill(v)
  <2>1. /\ Sound(t, L, S) /\ Apart(c, t, v) /\ Size(t, v) = Size(c, v) /\ t.ok \in Yes
        /\ Shows(t, v, y, 1 .. n)
    BY <1>10, InEnd
  <2>2. QED
    BY <1>7, <1>9, <2>1, OnlyTrue DEF Shows
<1>13. Apart(s, t, v)
  BY <1>4, <1>7, <1>12, ApartTwice
<1>14. QED
  BY <1>11, <1>12, <1>13 DEF Resets, n

\* Item v of s has the elements of item w in t, but for rests of expressions.
Assigned(s, t, v, w, L, S) ==
  /\ Sound(t, L, S) /\ Apart(s, t, v) /\ t.ok = TRUE /\ Size(t, v) = Size(s, w)
  /\ \A e \in 1 .. Size(s, w) : Element(s, w, e) # None => Element(t, v, e) = Element(s, w, e)

\* assign as a size and two loops.
LEMMA AssignIs ==
  ASSUME NEW s, NEW v, NEW w
  PROVE  AssignValues(s, v, w) =
           LET src == Shown(s, w)
           IN  Answer(AssignFine(AssignRough(SetSize(s, v, Len(src)), v, src, s.index[w]), v, src), TRUE)
BY DEF AssignValues, AssignFine, AssignRough

\* Items of the same definition have the same rules.
LEMMA SameDefinition ==
  ASSUME NEW v, NEW w, Definition(v) = Definition(w)
  PROVE  /\ Valid[v] = Valid[w] /\ Discrete[v] = Discrete[w] /\ Allows[v] = Allows[w]
         /\ Default[v] = Default[w] /\ Extensible[v] = Extensible[w]
         /\ AtLeast[v] = AtLeast[w] /\ AtMost[v] = AtMost[w]
BY DEF Definition

\* What clients see of an item has its size.
LEMMA ShownIs ==
  ASSUME NEW s, NEW L, NEW S, Sound(s, L, S), NEW w \in ValueItems
  PROVE  /\ Len(Shown(s, w)) = Size(s, w) /\ Size(s, w) \in 0 .. MaxLen /\ Size(s, w) \in Nat
         /\ Shown(s, w) = [e \in 1 .. Size(s, w) |-> Element(s, w, e)]
<1>1. Size(s, w) \in Nat /\ Size(s, w) <= MaxLen
  BY DEF Sound, ItemGood
<1>2. Shown(s, w) = [e \in 1 .. Size(s, w) |-> Element(s, w, e)]
  BY DEF Shown
<1>3. Len(Shown(s, w)) = Size(s, w)
  <2> DEFINE n == Size(s, w)
             T == {Element(s, w, e) : e \in 1 .. n}
  <2>1. Shown(s, w) \in [1 .. n -> T]
    BY <1>2
  <2> HIDE DEF T, n
  <2>2. Len(Shown(s, w)) = n
    BY <1>1, <2>1, TableIsSeq DEF n
  <2>3. QED
    BY <2>2 DEF n
<1>4. QED
  BY <1>1, <1>2, <1>3

\* An item of the same definition is a source for assign.
LEMMA SourceIs ==
  ASSUME NEW s, NEW L \in SUBSET Attributes, NEW S, Sound(s, L, S), NEW w \in S, NEW v \in S,
         Definition(v) = Definition(w)
  PROVE  Source(Shown(s, w), s.index[w], v, Size(s, w), L)
<1> DEFINE src == Shown(s, w)
<1>1. /\ Valid[v] = Valid[w] /\ Discrete[v] = Discrete[w] /\ Allows[v] = Allows[w]
  BY SameDefinition
<1>2. w \in ValueItems /\ v \in ValueItems
  BY DEF Sound
<1>3. SUFFICES ASSUME NEW e \in 1 .. Size(s, w)
      PROVE  /\ src[e] \in {NotSet} \cup Attributes \cup Valid[v] \cup {None}
             /\ src[e] \in Attributes => src[e] \in L /\ IsExpression(v, src[e])
             /\ Discrete[v] /\ src[e] \notin {NotSet} \cup Attributes =>
                  s.index[w][e] = src[e] /\ src[e] \in Valid[v]
  BY DEF Source
<1> DEFINE a == Attr(s, w, e)
           d == s.data[w][e]
           b == s.isSet[w][e]
<1>4. Aimed(s, w, e, L, S)
  BY DEF Aimed
<1>5. src[e] = Seen(b, a, d)
  BY <1>2, ShownIs, ElementSeen
<1>6. /\ d \in Valid[v] \cup {None} /\ b \in BOOLEAN /\ a \in Possible(L) \cup {Null}
      /\ (a # Null => Allows[v])
      /\ Discrete[v] => s.index[w] = s.data[w] /\ (b => d # None) /\ a = Null
  BY <1>1, <1>4, AimedAt DEF Attr
<1> HIDE DEF src, a, b, d
<1>7. a # Null => a \in L /\ IsExpression(v, a) /\ a \in Attributes
  BY <1>6 DEF Possible, IsExpression
<1>8. NotSet \notin Attributes /\ d \notin Attributes
  BY <1>2, <1>6, ValuesApart
<1>9. CASE ~b
  BY <1>5, <1>8, <1>9 DEF Seen
<1>10. CASE b /\ a # Null
  BY <1>5, <1>7, <1>10 DEF Seen
<1>11. CASE b /\ a = Null
  <2>1. src[e] = d
    BY <1>5, <1>11 DEF Seen
  <2>2. Discrete[v] => s.index[w][e] = d /\ d \in Valid[v]
    BY <1>6, <1>11 DEF d
  <2>3. QED
    BY <1>6, <1>8, <2>1, <2>2
<1>12. QED
  BY <1>6, <1>9, <1>10, <1>11

\* An item can have the size of another one of its definition.
LEMMA AssignSizes ==
  ASSUME NEW s, NEW L \in SUBSET Attributes, NEW S, Sound(s, L, S), NEW w \in S, NEW v \in S,
         Definition(v) = Definition(w)
  PROVE  SetSize(s, v, Size(s, w)).ok = TRUE /\ Sized(s, SetSize(s, v, Size(s, w)), v, Size(s, w), L, S)
<1> DEFINE n == Size(s, w)
<1>1. w \in ValueItems /\ v \in ValueItems /\ n \in 0 .. MaxLen
  BY ShownIs DEF Sound
<1>2. n = Size(s, v) \/ (Extensible[v] /\ WithinLimits(v, n))
  BY SameDefinition DEF Sound, Fitting, WithinLimits
<1> HIDE DEF n
<1>3. SetSize(s, v, n).ok = TRUE /\ Sized(s, SetSize(s, v, n), v, n, L, S)
  BY <1>1, <1>2, SetSizeGood
<1>4. QED
  BY <1>3 DEF n

\* assign makes an item show what its source does.
LEMMA AssignGood ==
  ASSUME NEW s, NEW L \in SUBSET Attributes, NEW S, Sound(s, L, S), NEW w \in S, NEW v \in S,
         Definition(v) = Definition(w)
  PROVE  Assigned(s, AssignValues(s, v, w), v, w, L, S)
<1> DEFINE n == Size(s, w)
           y == Shown(s, w)
           ix == s.index[w]
           u == SetSize(s, v, n)
           D == {e \in 1 .. n : y[e] \in {NotSet} \cup Attributes \/ Discrete[v]}
           G == D \cup {e \in 1 .. n : y[e] \in Valid[v] /\ ~Discrete[v]}
           r == AssignRough(u, v, y, ix)
           t == AssignFine(r, v, y)
<1>1. /\ w \in ValueItems /\ v \in ValueItems /\ n \in Nat /\ S \cup {v} = S /\ Len(y) = n
      /\ y = [e \in 1 .. n |-> Element(s, w, e)]
  BY ShownIs DEF Sound
<1>2. u.ok = TRUE /\ Sized(s, u, v, n, L, S)
  BY AssignSizes
<1>3. Source(y, ix, v, n, L)
  BY SourceIs
<1> HIDE DEF n, u, y, ix
<1>4. Sound(u, L, S) /\ Apart(s, u, v) /\ Size(u, v) = n /\ u.ok \in BOOLEAN
  BY <1>1, <1>2 DEF Sized
<1>5. Loop(u, v, n, y, D, {}, BOOLEAN, L, S)
  BY <1>1, <1>4 DEF Loop
<1>6. r \in Reach(u, v, y, D, BOOLEAN, L, S)
  <2> HIDE DEF r
  <2> DEFINE B == BOOLEAN
  <2>1. D = {e \in 1 .. n : y[e] \in {NotSet} \cup Attributes \/ Discrete[v]} /\ B = BOOLEAN /\ y = y
        /\ Loop(u, v, n, y, D, {}, B, L, S)
    BY <1>5
  <2> HIDE DEF D, B
  <2>2. AssignRough(u, v, y, ix) \in Reach(u, v, y, D, B, L, S)
    BY <1>3, <2>1, AssignRoughDone
  <2>3. QED
    BY <2>2 DEF r, B
<1> HIDE DEF r
<1>7. Sound(r, L, S) /\ Apart(u, r, v) /\ Size(r, v) = n /\ r.ok \in BOOLEAN /\ Shows(r, v, y, D)
  BY <1>4, <1>6, InEnd
<1>8. Loop(r, v, n, y, G, D, BOOLEAN, L, S)
  BY <1>1, <1>7 DEF Loop, Shows
<1>9. t \in Reach(r, v, y, G, BOOLEAN, L, S)
  <2> DEFINE B == BOOLEAN
  <2>1. B = BOOLEAN /\ y = y /\ Loop(r, v, n, y, G, D, B, L, S)
        /\ G = D \cup {e \in 1 .. n : y[e] \in Valid[v] /\ ~Discrete[v]}
    BY <1>8
  <2>2. \A e \in D : y[e] \notin Data \cup {None} \/ Discrete[v]
    BY ValuesApart DEF Values
  <2> HIDE DEF D, G, B, t
  <2>3. AssignFine(r, v, y) \in Reach(r, v, y, G, B, L, S)
    BY <2>1, <2>2, AssignFineDone
  <2>4. QED
    BY <2>3 DEF t, B
<1>10. AssignValues(s, v, w) = Answer(t, TRUE)
  BY <1>1, AssignIs DEF t, r, u, y, ix
<1> HIDE DEF t
<1>11. Sound(t, L, S) /\ Apart(r, t, v) /\ Size(t, v) = n /\ Shows(t, v, y, G)
  BY <1>7, <1>9, InEnd
<1>12. Apart(s, t, v)
  BY <1>4, <1>7, <1>11, ApartTwice
<1>13. ASSUME NEW e \in 1 .. n, Element(s, w, e) # None
       PROVE  Element(t, v, e) = Element(s, w, e)
  <2>1. y[e] \in {NotSet} \cup Attributes \cup Valid[v] \cup {None} /\ y[e] = Element(s, w, e)
    BY <1>1, <1>3 DEF Source
  <2>2. e \in G
    BY <1>13, <2>1
  <2>3. QED
    BY <1>11, <2>1, <2>2 DEF Shows
<1> DEFINE z == Answer(t, TRUE)
<1>14. Shape(t)
  BY <1>11 DEF Sound
<1>15. /\ Sound(z, L, S) /\ Apart(s, z, v) /\ Size(z, v) = n
       /\ \A e : Element(z, v, e) = Element(t, v, e)
  <2>1. TRUE \in BOOLEAN
    OBVIOUS
  <2>2. QED
    BY <1>11, <1>12, <1>14, <2>1, AnswerSame
<1>16. z.ok = TRUE
  BY <1>14, AnswerOk
<1>17. \A e \in 1 .. n : Element(s, w, e) # None => Element(z, v, e) = Element(s, w, e)
  BY <1>13, <1>15
<1>18. QED
  BY <1>10, <1>15, <1>16, <1>17 DEF Assigned, n

-----------------------------------------------------------------------------
(* What clients see of an item after a call                                  *)

\* The sequence of elements is f.
LEMMA TheyShow ==
  ASSUME NEW t, NEW v, NEW n, Size(t, v) = n, NEW f, NEW T, f \in [1 .. n -> T],
         \A e \in 1 .. n : Element(t, v, e) = f[e]
  PROVE  Shown(t, v) = f
<1>1. Shown(t, v) = [e \in 1 .. n |-> Element(t, v, e)]
  BY DEF Shown
<1>2. f = [e \in 1 .. n |-> f[e]]
  OBVIOUS
<1>3. QED
  BY <1>1, <1>2

\* The elements of an item, and one that may be added.
Elements(s, v, x) == {Element(s, v, e) : e \in 1 .. Size(s, v)} \cup {x}

\* What clients see of an item is a sequence.
LEMMA ShownIn ==
  ASSUME NEW s, NEW L, NEW S, Sound(s, L, S), NEW v \in ValueItems, NEW x
  PROVE  /\ Shown(s, v) \in [1 .. Size(s, v) -> Elements(s, v, x)]
         /\ x \in Elements(s, v, x) /\ Size(s, v) \in Nat
         /\ \A e \in 1 .. Size(s, v) : Shown(s, v)[e] = Element(s, v, e)
<1>1. Shown(s, v) = [e \in 1 .. Size(s, v) |-> Element(s, v, e)] /\ Size(s, v) \in Nat
  BY ShownIs
<1>2. \A e \in 1 .. Size(s, v) : Element(s, v, e) \in Elements(s, v, x)
  BY DEF Elements
<1>3. QED
  BY <1>1, <1>2 DEF Elements

\* What clients see of an item that was resized.
LEMMA SizedShows ==
  ASSUME NEW s, NEW t, NEW v \in ValueItems, NEW n \in Nat, NEW L, NEW S, Sound(s, L, S), Sized(s, t, v, n, L, S)
  PROVE  Shown(t, v) = Filled(Shown(s, v), n, Fill(v))
<1> DEFINE T == Elements(s, v, Fill(v))
           q == Shown(s, v)
           m == Size(s, v)
           f == Filled(q, n, Fill(v))
<1>1. q \in [1 .. m -> T] /\ Fill(v) \in T /\ m \in Nat /\ \A e \in 1 .. m : q[e] = Element(s, v, e)
  BY ShownIn
<1> HIDE DEF T, q
<1>2. f \in [1 .. n -> T] /\ \A e \in 1 .. n : f[e] = IF e <= m THEN q[e] ELSE Fill(v)
  <2> HIDE DEF m
  <2>1. IsFilled(Filled(q, n, Fill(v)), q, m, n, Fill(v), T)
    BY <1>1, FilledFacts
  <2>2. QED
    BY <2>1 DEF IsFilled
<1>3. Size(t, v) = n /\ \A e \in 1 .. n : Element(t, v, e) = IF e <= m THEN Element(s, v, e) ELSE Fill(v)
  BY DEF Sized
<1> HIDE DEF f, m
<1>4. \A e \in 1 .. n : Element(t, v, e) = f[e]
  BY <1>1, <1>2, <1>3
<1>5. Shown(t, v) = f
  BY <1>2, <1>3, <1>4, TheyShow
<1>6. QED
  BY <1>5 DEF f, q

\* What clients see of an item with one more element.
LEMMA PushedShows ==
  ASSUME NEW s, NEW t, NEW v \in ValueItems, NEW y, NEW L, NEW S, Sound(s, L, S), Pushed(s, t, v, y, L, S)
  PROVE  Shown(t, v) = Append(Shown(s, v), y)
<1> DEFINE T == Elements(s, v, y)
           q == Shown(s, v)
           m == Size(s, v)
           f == Append(q, y)
<1>1. q \in [1 .. m -> T] /\ y \in T /\ m \in Nat /\ \A e \in 1 .. m : q[e] = Element(s, v, e)
  BY ShownIn
<1> HIDE DEF T, q
<1>2. f \in [1 .. m + 1 -> T] /\ \A e \in 1 .. m + 1 : f[e] = IF e <= m THEN q[e] ELSE y
  <2> HIDE DEF m
  <2>1. QED
    BY <1>1, AppendFacts DEF IsLonger
<1>3. Size(t, v) = m + 1 /\ \A e \in 1 .. m + 1 : Element(t, v, e) = IF e <= m THEN Element(s, v, e) ELSE y
  BY DEF Pushed
<1> HIDE DEF f, m
<1>4. \A e \in 1 .. m + 1 : Element(t, v, e) = f[e]
  BY <1>1, <1>2, <1>3
<1>5. Shown(t, v) = f
  <2> DEFINE k == m + 1
  <2>1. f \in [1 .. k -> T] /\ Size(t, v) = k /\ \A i \in 1 .. k : Element(t, v, i) = f[i]
    BY <1>2, <1>3, <1>4
  <2> HIDE DEF k
  <2>2. Shown(t, v) = [i \in 1 .. k |-> Element(t, v, i)] /\ f = [i \in 1 .. k |-> f[i]]
    BY <2>1 DEF Shown
  <2>3. QED
    BY <2>1, <2>2
<1>6. QED
  BY <1>5 DEF f, q

\* What clients see of an item with one element less.
LEMMA TakenShows ==
  ASSUME NEW s, NEW t, NEW v, NEW e, NEW L, NEW S, Aimed(s, v, e, L, S), Taken(s, t, v, e, L, S)
  PROVE  Shown(t, v) = RemoveAt(Shown(s, v), e)
<1> DEFINE T == Elements(s, v, Null)
           q == Shown(s, v)
           m == Size(s, v)
           f == RemoveAt(q, e)
<1>1. q \in [1 .. m -> T] /\ m \in Nat /\ e \in 1 .. m /\ \A i \in 1 .. m : q[i] = Element(s, v, i)
  BY ShownIn DEF Aimed, Sound
<1> HIDE DEF T, q
<1>2. f \in [1 .. m - 1 -> T] /\ \A i \in 1 .. m - 1 : f[i] = IF i < e THEN q[i] ELSE q[i + 1]
  <2> HIDE DEF m
  <2>1. IsWithout(RemoveAt(q, e), q, m, e, T)
    BY <1>1, RemoveAtFacts
  <2>2. QED
    BY <2>1 DEF IsWithout
<1>3. Size(t, v) = m - 1
      /\ \A i \in 1 .. m - 1 : Element(t, v, i) = Element(s, v, IF i < e THEN i ELSE i + 1)
  BY DEF Taken
<1> HIDE DEF f, m
<1>4. \A i \in 1 .. m - 1 : Element(t, v, i) = f[i]
  BY <1>1, <1>2, <1>3
<1>5. Shown(t, v) = f
  <2> DEFINE k == m - 1
  <2>1. f \in [1 .. k -> T] /\ Size(t, v) = k /\ \A i \in 1 .. k : Element(t, v, i) = f[i]
    BY <1>2, <1>3, <1>4
  <2> HIDE DEF k
  <2>2. Shown(t, v) = [i \in 1 .. k |-> Element(t, v, i)] /\ f = [i \in 1 .. k |-> f[i]]
    BY <2>1 DEF Shown
  <2>3. QED
    BY <2>1, <2>2
<1>6. QED
  BY <1>5 DEF f, q

\* What clients see of an item one element of which was changed.
LEMMA TurnedShows ==
  ASSUME NEW s, NEW t, NEW v, NEW e, NEW y, NEW L, NEW S, Aimed(s, v, e, L, S), Turned(s, t, v, e, y, L, S)
  PROVE  Shown(t, v) = [Shown(s, v) EXCEPT ![e] = y]
<1> DEFINE T == Elements(s, v, y)
           q == Shown(s, v)
           m == Size(s, v)
           f == [q EXCEPT ![e] = y]
<1>1. q \in [1 .. m -> T] /\ y \in T /\ e \in 1 .. m /\ \A i \in 1 .. m : q[i] = Element(s, v, i)
  BY ShownIn DEF Aimed, Sound
<1> HIDE DEF T, q
<1>2. f \in [1 .. m -> T] /\ \A i \in 1 .. m : f[i] = IF i = e THEN y ELSE q[i]
  BY <1>1
<1>3. /\ Size(t, v) = m /\ Element(t, v, e) = y
      /\ \A i \in 1 .. m : i # e => Element(t, v, i) = Element(s, v, i)
  BY DEF Turned
<1> HIDE DEF f, m
<1>4. \A i \in 1 .. m : Element(t, v, i) = f[i]
  BY <1>1, <1>2, <1>3
<1>5. Shown(t, v) = f
  <2>1. f \in [1 .. m -> T] /\ Size(t, v) = m
    BY <1>2, <1>3
  <2>2. Shown(t, v) = [i \in 1 .. m |-> Element(t, v, i)] /\ f = [i \in 1 .. m |-> f[i]]
    BY <2>1 DEF Shown
  <2>3. QED
    BY <1>4, <2>2
<1>6. QED
  BY <1>5 DEF f, q

\* What clients see of an item after a call that did nothing.
LEMMA StaysShows ==
  ASSUME NEW s, NEW t, NEW v, NEW L, NEW S, Stays(s, t, v, L, S)
  PROVE  Shown(t, v) = Shown(s, v)
BY DEF Stays, Shown

-----------------------------------------------------------------------------
(* What calls do and answer                                                  *)

\* The call op on item v of s, about element e and with argument x, made t: what
\* it leaves alone, and what clients see of the item if it tells the truth.
CallSafe(s, t, v, L, S) == Sound(t, L, S) /\ Apart(s, t, v)

\* What clients asked for by call op on item v, with what it showed before.
AskedOf(s, v, op, e, x) ==
  LET q == Shown(s, v)
  IN  CASE op = "put"     -> [q EXCEPT ![e] = x]
        [] op = "express" -> [q EXCEPT ![e] = Expressed(q[e], x)]
        [] op = "unset"   -> [q EXCEPT ![e] = NotSet]
        [] op = "take"    -> RemoveAt(q, e)
        [] op = "push"    -> Append(q, x)
        [] op = "resize"  -> Filled(q, x, Fill(v))
        [] op = "reset"   -> [f \in 1 .. AtLeast[v] |-> Fill(v)]
        [] op = "assign"  -> Shown(s, x)

\* A call shows what clients asked for if it answers yes, and nothing new if no.
CallTrue(s, t, v, op, e, x) ==
  \/ t.ok = TRUE /\ Shown(t, v) = AskedOf(s, v, op, e, x)
  \/ t.ok = FALSE /\ Shown(t, v) = Shown(s, v)

\* Whatever a call did, all is in order.
LEMMA SafeCalls ==
  ASSUME NEW s, NEW t, NEW v, NEW L, NEW S
  PROVE  /\ Stays(s, t, v, L, S) => CallSafe(s, t, v, L, S)
         /\ Near(s, t, v, L, S) => CallSafe(s, t, v, L, S)
         /\ \A e, y : Turned(s, t, v, e, y, L, S) => CallSafe(s, t, v, L, S)
         /\ \A y : Pushed(s, t, v, y, L, S) => CallSafe(s, t, v, L, S)
         /\ \A e : Taken(s, t, v, e, L, S) => CallSafe(s, t, v, L, S)
         /\ \A n : Sized(s, t, v, n, L, S) /\ v \in S => CallSafe(s, t, v, L, S)
<1>1. v \in S => S \cup {v} = S
  OBVIOUS
<1>2. QED
  BY <1>1 DEF CallSafe, Stays, Near, Turned, Pushed, Taken, Sized

\* setValue answers truly unless the item is discrete.
LEMMA PutCalls ==
  ASSUME NEW s, NEW v, NEW e, NEW L, NEW S, Aimed(s, v, e, L, S), NEW d
  PROVE  /\ CallSafe(s, PutValue(s, v, e, d), v, L, S)
         /\ ~Discrete[v] => CallTrue(s, PutValue(s, v, e, d), v, "put", e, d)
<1> DEFINE t == PutValue(s, v, e, d)
<1>1. CASE Discrete[v]
  BY <1>1, PutDiscreteNear, SafeCalls DEF PutValue
<1>2. CASE ~Discrete[v]
  <2>1. \/ t.ok = TRUE /\ Turned(s, t, v, e, d, L, S)
        \/ t.ok = FALSE /\ Stays(s, t, v, L, S)
    BY <1>2, PutValueTurns
  <2> HIDE DEF t
  <2>2. CallSafe(s, t, v, L, S)
    BY <2>1, SafeCalls
  <2>3. CallTrue(s, t, v, "put", e, d)
    BY <2>1, TurnedShows, StaysShows DEF CallTrue, AskedOf
  <2>4. QED
    BY <2>2, <2>3 DEF t
<1>3. QED
  BY <1>1, <1>2

\* setDiscreteIndex answers truly.
LEMMA IndexCalls ==
  ASSUME NEW s, NEW v, NEW e, NEW L, NEW S, Aimed(s, v, e, L, S), NEW d
  PROVE  /\ CallSafe(s, PutIndex(s, v, e, d), v, L, S)
         /\ CallTrue(s, PutIndex(s, v, e, d), v, "put", e, d)
<1> DEFINE t == PutIndex(s, v, e, d)
<1>1. \/ t.ok = TRUE /\ Turned(s, t, v, e, d, L, S)
      \/ t.ok = FALSE /\ Stays(s, t, v, L, S)
  BY PutIndexTurns
<1> HIDE DEF t
<1>2. CallSafe(s, t, v, L, S)
  BY <1>1, SafeCalls
<1>3. CallTrue(s, t, v, "put", e, d)
  BY <1>1, TurnedShows, StaysShows DEF CallTrue, AskedOf
<1>4. QED
  BY <1>2, <1>3 DEF t

\* setExpression answers truly.
LEMMA ExpressCalls ==
  ASSUME NEW s, NEW v, NEW e, NEW L, NEW S, Aimed(s, v, e, L, S), NEW a \in L \cup {Null}
  PROVE  /\ CallSafe(s, PutExpression(s, v, e, a), v, L, S)
         /\ CallTrue(s, PutExpression(s, v, e, a), v, "express", e, a)
<1> DEFINE t == PutExpression(s, v, e, a)
           y == Expressed(Element(s, v, e), a)
<1>1. \/ t.ok = TRUE /\ Turned(s, t, v, e, y, L, S)
      \/ t.ok = FALSE /\ Stays(s, t, v, L, S)
  BY PutExpressionTurns
<1>2. Shown(s, v)[e] = Element(s, v, e)
  BY ShownIn DEF Aimed, Sound
<1> HIDE DEF t
<1>3. CallSafe(s, t, v, L, S)
  BY <1>1, SafeCalls
<1>4. CallTrue(s, t, v, "express", e, a)
  BY <1>1, <1>2, TurnedShows, StaysShows DEF CallTrue, AskedOf
<1>5. QED
  BY <1>3, <1>4 DEF t

\* unset does what it is asked for.
LEMMA UnsetCalls ==
  ASSUME NEW s, NEW v, NEW e, NEW L, NEW S, Aimed(s, v, e, L, S)
  PROVE  /\ CallSafe(s, Answer(UnsetElement(s, v, e), TRUE), v, L, S)
         /\ CallTrue(s, Answer(UnsetElement(s, v, e), TRUE), v, "unset", e, Null)
<1> DEFINE u == UnsetElement(s, v, e)
           t == Answer(u, TRUE)
<1>1. Turned(s, u, v, e, NotSet, L, S)
  BY UnsetElementTurns
<1> HIDE DEF u
<1>2. Shape(u) /\ TRUE \in BOOLEAN
  BY <1>1 DEF Turned, Sound
<1>3. Turned(s, t, v, e, NotSet, L, S) /\ t.ok = TRUE
  BY <1>1, <1>2, AnswerStays, AnswerOk
<1> HIDE DEF t
<1>4. CallSafe(s, t, v, L, S)
  BY <1>3, SafeCalls
<1>5. CallTrue(s, t, v, "unset", e, Null)
  BY <1>3, TurnedShows DEF CallTrue, AskedOf
<1>6. QED
  BY <1>4, <1>5 DEF t, u

\* removeValue answers truly.
LEMMA TakeCalls ==
  ASSUME NEW s, NEW v, NEW e, NEW L, NEW S, Aimed(s, v, e, L, S)
  PROVE  /\ CallSafe(s, TakeElement(s, v, e), v, L, S)
         /\ CallTrue(s, TakeElement(s, v, e), v, "take", e, Null)
<1> DEFINE t == TakeElement(s, v, e)
<1>1. \/ t.ok = TRUE /\ Taken(s, t, v, e, L, S)
      \/ t.ok = FALSE /\ Stays(s, t, v, L, S)
  BY TakeElementGood
<1> HIDE DEF t
<1>2. CallSafe(s, t, v, L, S)
  BY <1>1, SafeCalls
<1>3. CallTrue(s, t, v, "take", e, Null)
  BY <1>1, TakenShows, StaysShows DEF CallTrue, AskedOf
<1>4. QED
  BY <1>2, <1>3 DEF t

\* The attributes in L are alive, and item v is part of one.
Called(s, v, L, S) == L \in SUBSET Attributes /\ Sound(s, L, S) /\ v \in S

\* appendValue and appendExpression answer truly.
LEMMA PushCalls ==
  ASSUME NEW s, NEW v, NEW L, NEW S, Called(s, v, L, S), Size(s, v) < MaxLen, NEW d
  PROVE  /\ CallSafe(s, PushValue(s, v, d), v, L, S) /\ CallTrue(s, PushValue(s, v, d), v, "push", 0, d)
         /\ \A a \in L : /\ CallSafe(s, PushExpression(s, v, a), v, L, S)
                         /\ CallTrue(s, PushExpression(s, v, a), v, "push", 0, a)
<1>1. ASSUME NEW t, NEW x, (t.ok = TRUE /\ Pushed(s, t, v, x, L, S)) \/ (t.ok = FALSE /\ Stays(s, t, v, L, S))
      PROVE  CallSafe(s, t, v, L, S) /\ CallTrue(s, t, v, "push", 0, x)
  <2>1. CallSafe(s, t, v, L, S)
    BY <1>1, SafeCalls
  <2>2. v \in ValueItems /\ Sound(s, L, S)
    BY DEF Called, Sound
  <2>3. CallTrue(s, t, v, "push", 0, x)
    BY <1>1, <2>2, PushedShows, StaysShows DEF CallTrue, AskedOf
  <2>4. QED
    BY <2>1, <2>3
<1>2. CallSafe(s, PushValue(s, v, d), v, L, S) /\ CallTrue(s, PushValue(s, v, d), v, "push", 0, d)
  <2> DEFINE p == PushValue(s, v, d)
  <2>1. (p.ok = TRUE /\ Pushed(s, p, v, d, L, S)) \/ (p.ok = FALSE /\ Stays(s, p, v, L, S))
    BY PushValueGood DEF Called
  <2> HIDE DEF p
  <2>2. CallSafe(s, p, v, L, S) /\ CallTrue(s, p, v, "push", 0, d)
    BY <1>1, <2>1
  <2>3. QED
    BY <2>2 DEF p
<1>3. ASSUME NEW a \in L
      PROVE  CallSafe(s, PushExpression(s, v, a), v, L, S) /\ CallTrue(s, PushExpression(s, v, a), v, "push", 0, a)
  <2> DEFINE p == PushExpression(s, v, a)
  <2>1. (p.ok = TRUE /\ Pushed(s, p, v, a, L, S)) \/ (p.ok = FALSE /\ Stays(s, p, v, L, S))
    BY PushExpressionGood DEF Called
  <2> HIDE DEF p
  <2>2. CallSafe(s, p, v, L, S) /\ CallTrue(s, p, v, "push", 0, a)
    BY <1>1, <2>1
  <2>3. QED
    BY <2>2 DEF p
<1>4. QED
  BY <1>2, <1>3

\* setNumberOfValues answers truly.
LEMMA ResizeCalls ==
  ASSUME NEW s, NEW v, NEW L, NEW S, Called(s, v, L, S), NEW n \in 0 .. MaxLen
  PROVE  /\ CallSafe(s, SetSize(s, v, n), v, L, S)
         /\ CallTrue(s, SetSize(s, v, n), v, "resize", 0, n)
<1> DEFINE t == SetSize(s, v, n)
<1>1. (t.ok = TRUE /\ Sized(s, t, v, n, L, S)) \/ (t.ok = FALSE /\ Stays(s, t, v, L, S))
  BY SetSizeGood DEF Called
<1>2. v \in ValueItems /\ Sound(s, L, S) /\ v \in S /\ n \in Nat
  BY RefConstantsOK DEF Called, Sound
<1> HIDE DEF t
<1>3. CallSafe(s, t, v, L, S)
  BY <1>1, <1>2, SafeCalls
<1>4. CallTrue(s, t, v, "resize", 0, n)
  <2>1. t.ok = TRUE /\ Sized(s, t, v, n, L, S) => Shown(t, v) = Filled(Shown(s, v), n, Fill(v))
    BY <1>2, SizedShows
  <2>2. AskedOf(s, v, "resize", 0, n) = Filled(Shown(s, v), n, Fill(v))
    BY DEF AskedOf
  <2>3. QED
    BY <1>1, <2>1, <2>2, StaysShows DEF CallTrue
<1>5. QED
  BY <1>3, <1>4 DEF t

\* reset does what it is asked for.
LEMMA ResetCalls ==
  ASSUME NEW s, NEW v, NEW L, NEW S, Called(s, v, L, S)
  PROVE  /\ CallSafe(s, ResetValues(s, v), v, L, S)
         /\ CallTrue(s, ResetValues(s, v), v, "reset", 0, Null)
<1> DEFINE t == ResetValues(s, v)
           n == AtLeast[v]
<1>1. Resets(s, t, v, L, S)
  BY ResetGood DEF Called
<1> HIDE DEF t
<1>2. Shown(t, v) = [e \in 1 .. n |-> Fill(v)]
  BY <1>1 DEF Resets, Shown
<1>3. AskedOf(s, v, "reset", 0, Null) = [e \in 1 .. n |-> Fill(v)]
  BY DEF AskedOf
<1>4. CallTrue(s, t, v, "reset", 0, Null)
  BY <1>1, <1>2, <1>3 DEF Resets, CallTrue
<1>5. CallSafe(s, t, v, L, S)
  BY <1>1 DEF Resets, CallSafe
<1>6. QED
  BY <1>4, <1>5 DEF t

\* assign answers truly if every element of the source shows something.
LEMMA AssignCalls ==
  ASSUME NEW s, NEW v, NEW L, NEW S, Called(s, v, L, S), NEW w \in S, Definition(v) = Definition(w)
  PROVE  /\ CallSafe(s, AssignValues(s, v, w), v, L, S)
         /\ (\A e \in 1 .. Size(s, w) : Element(s, w, e) # None) =>
              CallTrue(s, AssignValues(s, v, w), v, "assign", 0, w)
<1> DEFINE t == AssignValues(s, v, w)
           n == Size(s, w)
<1>1. Assigned(s, t, v, w, L, S)
  BY AssignGood DEF Called
<1> HIDE DEF t
<1>2. CallSafe(s, t, v, L, S)
  BY <1>1 DEF Assigned, CallSafe
<1>3. ASSUME \A e \in 1 .. n : Element(s, w, e) # None
      PROVE  CallTrue(s, t, v, "assign", 0, w)
  <2>1. /\ Size(t, v) = n /\ t.ok = TRUE
        /\ \A e \in 1 .. n : Element(t, v, e) = Element(s, w, e)
    BY <1>1, <1>3 DEF Assigned
  <2> HIDE DEF n
  <2>2. Shown(t, v) = [e \in 1 .. n |-> Element(t, v, e)] /\ Shown(s, w) = [e \in 1 .. n |-> Element(s, w, e)]
    BY <2>1 DEF Shown, n
  <2>3. Shown(t, v) = Shown(s, w)
    BY <2>1, <2>2
  <2>4. AskedOf(s, v, "assign", 0, w) = Shown(s, w)
    BY DEF AskedOf
  <2>5. QED
    BY <2>1, <2>3, <2>4 DEF CallTrue
<1>4. QED
  BY <1>2, <1>3 DEF t

-----------------------------------------------------------------------------
(* A step that is a call                                                     *)

\* The inductive invariant.
ValueInv == alive \subseteq Attributes /\ Sound(All, alive, SizedItems)

\* What AnswersTrue says of an item.
Truth(v) ==
  Holder[v] \in alive' /\ ~FromNothing =>
    Shown(All, v)' = IF lastCall'.item = v /\ lastCall'.ok THEN Asked(v)
                     ELSE [e \in DOMAIN isSet[v] |->
                             IF Element(All, v, e) \in alive \ alive' THEN data[v][e]
                                                                      ELSE Element(All, v, e)]

\* The state of the program as a record.
LEMMA AllFields ==
  /\ All.values = values /\ All.refs = refs /\ All.broken = broken /\ All.exists = exists
  /\ All.data = data /\ All.isSet = isSet /\ All.index = index /\ All.exprs = exprs
  /\ All.active = active /\ All.ok = FALSE
BY DEF All

\* A call that is over has left its record behind.
LEMMA DidIs ==
  ASSUME NEW op, NEW v, NEW e, NEW x, NEW now, Shape(now), Did(op, v, e, x, now)
  PROVE  /\ All' = Answer(now, FALSE)
         /\ lastCall'.op = op /\ lastCall'.item = v /\ lastCall'.elem = e /\ lastCall'.arg = x /\ lastCall'.ok = now.ok
<1>1. All' = [values |-> now.values, refs |-> now.refs, broken |-> now.broken, exists |-> now.exists,
              data |-> now.data, isSet |-> now.isSet, index |-> now.index, exprs |-> now.exprs,
              active |-> now.active, ok |-> FALSE]
  BY DEF Did, All
<1>2. Answer(now, FALSE) = [f \in Fields |-> IF f = "ok" THEN FALSE ELSE now[f]]
  BY DEF Answer, Shape, Fields
<1>3. All' = Answer(now, FALSE)
  BY <1>1, <1>2 DEF Fields
<1>4. QED
  BY <1>3 DEF Did

\* What clients see after a step.
LEMMA ShownThen ==
  ASSUME NEW v
  PROVE  Shown(All, v)' = Shown(All', v)
BY DEF Shown, Size, Element

\* Where no attribute goes no element turns into a value by itself.
LEMMA ShownNow ==
  ASSUME ValueInv, alive \subseteq alive', NEW v \in ValueItems
  PROVE  Shown(All, v) = [e \in DOMAIN isSet[v] |->
                            IF Element(All, v, e) \in alive \ alive' THEN data[v][e] ELSE Element(All, v, e)]
<1>1. DOMAIN isSet[v] = 1 .. Size(All, v)
  BY AllFields DEF ValueInv, Sound, ItemGood
<1>2. Shown(All, v) = [e \in 1 .. Size(All, v) |-> Element(All, v, e)]
  BY DEF Shown
<1>3. QED
  BY <1>1, <1>2

\* What clients asked for, of the call that is recorded.
LEMMA AskedIs ==
  ASSUME NEW v
  PROVE  Asked(v) = AskedOf(All, v, lastCall'.op, lastCall'.elem, lastCall'.arg)
BY DEF Asked, AskedOf, Fill, Expressed

\* A step that is a call on item v: all is in order after it, and the truth of
\* its answer is that of the step.
LEMMA CallStep ==
  ASSUME ValueInv, alive' = alive, NEW v \in SizedItems, NEW op, NEW e, NEW x, NEW now,
         Did(op, v, e, x, now), CallSafe(All, now, v, alive, SizedItems)
  PROVE  /\ ValueInv'
         /\ (~FromNothing => CallTrue(All, now, v, op, e, x)) => \A w \in SizedItems : Truth(w)
<1>1. Sound(now, alive, SizedItems) /\ Apart(All, now, v) /\ Shape(now)
  BY DEF CallSafe, Sound
<1>2. /\ All' = Answer(now, FALSE)
      /\ lastCall'.op = op /\ lastCall'.item = v /\ lastCall'.elem = e /\ lastCall'.arg = x /\ lastCall'.ok = now.ok
  BY <1>1, DidIs
<1>3. SizedItems' = SizedItems /\ SizedItems \subseteq ValueItems
  BY DEF SizedItems
<1>4. FALSE \in BOOLEAN
  OBVIOUS
<1>5. /\ Sound(All', alive, SizedItems) /\ Apart(All, All', v)
      /\ \A w : Size(All', w) = Size(now, w) /\ \A f : Element(All', w, f) = Element(now, w, f)
  BY <1>1, <1>2, <1>4, AnswerSame
<1>6. ValueInv'
  BY <1>3, <1>5 DEF ValueInv
<1>7. Shown(All', v) = Shown(now, v)
  BY <1>5 DEF Shown
<1>8. ASSUME ~FromNothing => CallTrue(All, now, v, op, e, x), NEW w \in SizedItems
      PROVE  Truth(w)
  <2> SUFFICES ASSUME ~FromNothing
               PROVE  Shown(All, w)' = IF lastCall'.item = w /\ lastCall'.ok THEN Asked(w)
                        ELSE [f \in DOMAIN isSet[w] |->
                                IF Element(All, w, f) \in alive \ alive' THEN data[w][f] ELSE Element(All, w, f)]
    BY DEF Truth
  <2>1. Shown(All, w)' = Shown(All', w)
    BY ShownThen
  <2>2. w \in ValueItems /\ v \in ValueItems
    BY <1>3
  <2>3. Shown(All, w) = [f \in DOMAIN isSet[w] |->
                           IF Element(All, w, f) \in alive \ alive' THEN data[w][f] ELSE Element(All, w, f)]
    BY <2>2, ShownNow
  <2>4. CASE w # v
    <3>1. ItemGood(All, w)
      BY <2>2 DEF ValueInv, Sound
    <3>2. Shown(All', w) = Shown(All, w)
      BY <1>5, <2>2, <2>4, <3>1, ApartShows
    <3>3. QED
      BY <1>2, <2>1, <2>3, <2>4, <3>2
  <2>5. CASE w = v
    <3>1. Asked(v) = AskedOf(All, v, op, e, x)
      BY <1>2, AskedIs
    <3>2. \/ now.ok = TRUE /\ Shown(now, v) = AskedOf(All, v, op, e, x)
          \/ now.ok = FALSE /\ Shown(now, v) = Shown(All, v)
      BY <1>8 DEF CallTrue
    <3>3. QED
      BY <1>2, <1>7, <2>1, <2>3, <2>5, <3>1, <3>2
  <2>6. QED
    BY <2>4, <2>5
<1>9. QED
  BY <1>6, <1>8

\* A call that leaves all sound; clients see what they asked for if h holds.
Told(h) == ValueInv' /\ (h => \A w \in SizedItems : Truth(w))

\* Calls about one element.
LEMMA OnElementStep ==
  ASSUME ValueInv, NEW v \in SizedItems, NEW e \in DOMAIN isSet[v], OnElement(v, e)
  PROVE  Told(~Careless)
<1> DEFINE L == alive
           S == SizedItems
<1>1. alive' = alive /\ L \in SUBSET Attributes /\ Sound(All, L, S)
  BY DEF OnElement, ValueInv
<1>2. Aimed(All, v, e, L, S)
  <2>1. v \in ValueItems
    BY DEF SizedItems
  <2>2. DOMAIN isSet[v] = 1 .. Size(All, v)
    BY <1>1, <2>1, AllFields DEF Sound, ItemGood
  <2>3. QED
    BY <1>1, <2>2 DEF Aimed
<1> HIDE DEF L, S
<1>3. ASSUME NEW op, NEW x, NEW now, Did(op, v, e, x, now), CallSafe(All, now, v, L, S), NEW h,
             h => CallTrue(All, now, v, op, e, x)
      PROVE  Told(h)
  BY <1>1, <1>3, CallStep DEF Told, L, S
<1>4. ASSUME NEW d \in Data, Discrete[v] => Careless, Did("put", v, e, d, PutValue(All, v, e, d))
      PROVE  Told(~Careless)
  BY <1>2, <1>3, <1>4, PutCalls
<1>5. ASSUME NEW d \in Data, Did("put", v, e, d, PutIndex(All, v, e, d))
      PROVE  Told(~Careless)
  BY <1>2, <1>3, <1>5, IndexCalls
<1>6. ASSUME NEW a \in L \cup {Null}, Did("express", v, e, a, PutExpression(All, v, e, a))
      PROVE  Told(~Careless)
  BY <1>2, <1>3, <1>6, ExpressCalls
<1>7. ASSUME Did("unset", v, e, Null, Answer(UnsetElement(All, v, e), TRUE))
      PROVE  Told(~Careless)
  BY <1>2, <1>3, <1>7, UnsetCalls
<1>8. ASSUME Did("take", v, e, Null, TakeElement(All, v, e))
      PROVE  Told(~Careless)
  BY <1>2, <1>3, <1>8, TakeCalls
<1>9. QED
  BY <1>4, <1>5, <1>6, <1>7, <1>8 DEF OnElement, L

\* Calls about all elements.
LEMMA OnValuesStep ==
  ASSUME ValueInv, NEW v \in SizedItems, OnValues(v)
  PROVE  Told(~Careless)
<1> DEFINE L == alive
           S == SizedItems
<1>1. alive' = alive /\ L \in SUBSET Attributes /\ Sound(All, L, S) /\ v \in ValueItems
  BY DEF OnValues, ValueInv, SizedItems
<1>2. Called(All, v, L, S)
  BY <1>1 DEF Called
<1>3. Size(All, v) = Len(isSet[v])
  BY AllFields DEF Size
<1> HIDE DEF L, S
<1>4. ASSUME NEW op, NEW x, NEW now, Did(op, v, 0, x, now), CallSafe(All, now, v, L, S),
             ~FromNothing => CallTrue(All, now, v, op, 0, x)
      PROVE  Told(~Careless)
  BY <1>1, <1>4, CallStep DEF Told, L, S
<1>5. ASSUME NEW d \in Data, Len(isSet[v]) < MaxLen, Did("push", v, 0, d, PushValue(All, v, d))
      PROVE  Told(~Careless)
  BY <1>2, <1>3, <1>4, <1>5, PushCalls
<1>6. ASSUME NEW a \in L, Len(isSet[v]) < MaxLen, Did("push", v, 0, a, PushExpression(All, v, a))
      PROVE  Told(~Careless)
  BY <1>2, <1>3, <1>4, <1>6, PushCalls
<1>7. ASSUME NEW n \in 0 .. MaxLen, Did("resize", v, 0, n, SetSize(All, v, n))
      PROVE  Told(~Careless)
  BY <1>2, <1>4, <1>7, ResizeCalls
<1>8. ASSUME Did("reset", v, 0, Null, ResetValues(All, v))
      PROVE  Told(~Careless)
  BY <1>2, <1>4, <1>8, ResetCalls
<1>9. ASSUME NEW w \in S, Definition(v) = Definition(w), Did("assign", v, 0, w, AssignValues(All, v, w))
      PROVE  Told(~Careless)
  <2> DEFINE t == AssignValues(All, v, w)
  <2>1. w \in ValueItems /\ DOMAIN isSet[w] = 1 .. Size(All, w)
    BY <1>1, AllFields DEF Sound, ItemGood, S
  <2>2. /\ CallSafe(All, t, v, L, S)
        /\ (\A e \in DOMAIN isSet[w] : Element(All, w, e) # None) => CallTrue(All, t, v, "assign", 0, w)
    BY <1>2, <1>9, <2>1, AssignCalls
  <2>3. lastCall'.op = "assign" /\ lastCall'.arg = w
    BY <1>9 DEF Did
  <2>4. ~FromNothing => CallTrue(All, t, v, "assign", 0, w)
    BY <2>2, <2>3 DEF FromNothing
  <2> HIDE DEF t
  <2>5. QED
    BY <1>4, <1>9, <2>2, <2>4 DEF t
<1>10. QED
  BY <1>5, <1>6, <1>7, <1>8, <1>9 DEF OnValues, L, S

-----------------------------------------------------------------------------
(* An attribute comes                                                        *)

\* The items of an attribute are built one after the other.
BuildAll(born, mine) == FoldSet(LAMBDA v, s : Build(s, v), born, mine)

\* The item of a set that is built last.
FirstOf(s) == CHOOSE v \in s : TRUE

\* The states in between: h[s] when those in s are built.
BuildSteps(h, born, mine) ==
  /\ h[{}] = born
  /\ \A s \in SUBSET mine : s # {} => h[s] = Build(h[s \ {FirstOf(s)}], FirstOf(s))

\* Building the items of an attribute, one after the other.
LEMMA BuildAllSteps ==
  ASSUME NEW born, NEW mine, IsFiniteSet(mine)
  PROVE  \E h : BuildAll(born, mine) = h[mine] /\ BuildSteps(h, born, mine)
<1> DEFINE Value(h, s) == IF s = {} THEN born ELSE Build(h[s \ {FirstOf(s)}], FirstOf(s))
           UpTo_(h, m) == h = [s \in PartsUpTo(mine, m) |-> Value(h, s)]
           Is(h) == h = [s \in SUBSET mine |-> Value(h, s)]
           G == {m \in Nat : \E h : UpTo_(h, m)}
           all == CHOOSE h : Is(h)
<1>1. ASSUME NEW s \in SUBSET mine, s # {} PROVE FirstOf(s) \in s
  BY <1>1 DEF FirstOf
<1>2. 0 \in G
  <2>1. PartsUpTo(mine, 0) = {{}}
    BY PartsAre
  <2> DEFINE h == [s \in PartsUpTo(mine, 0) |-> born]
  <2>2. UpTo_(h, 0)
    BY <2>1
  <2> HIDE DEF UpTo_
  <2>3. QED
    BY <2>2
<1>3. ASSUME NEW m \in Nat, m < Cardinality(mine), m \in G PROVE m + 1 \in G
  <2>1. PICK h : UpTo_(h, m)
    BY <1>3
  <2> DEFINE g == [s \in PartsUpTo(mine, m + 1) |-> IF Cardinality(s) = m + 1 THEN Value(h, s) ELSE h[s]]
  <2>2. ASSUME NEW s \in PartsUpTo(mine, m + 1) PROVE g[s] = Value(g, s)
    <3>1. CASE s = {}
      <4>1. {} \in PartsUpTo(mine, m) /\ Cardinality({}) # m + 1
        BY PartsAre
      <4>2. QED
        BY <2>1, <3>1, <4>1
    <3>2. CASE s # {}
      <4> DEFINE x == FirstOf(s)
      <4>1. x \in s
        BY <1>1, <3>2 DEF PartsUpTo
      <4> HIDE DEF x
      <4>2. /\ s \ {x} \in PartsUpTo(mine, m) \cap PartsUpTo(mine, m + 1)
            /\ Cardinality(s \ {x}) # m + 1
            /\ Cardinality(s) # m + 1 => s \in PartsUpTo(mine, m)
        BY <4>1, PartGrows
      <4>3. g[s \ {x}] = h[s \ {x}]
        BY <4>2
      <4>4. g[s] = Value(h, s)
        BY <2>1, <4>2
      <4> HIDE DEF g
      <4>5. QED
        BY <3>2, <4>3, <4>4 DEF x
    <3>3. QED
      BY <3>1, <3>2
  <2>3. g = [s \in PartsUpTo(mine, m + 1) |-> g[s]]
    OBVIOUS
  <2> HIDE DEF g, Value
  <2>4. UpTo_(g, m + 1)
    BY <2>2, <2>3
  <2> HIDE DEF UpTo_
  <2>5. QED
    BY <2>4
<1>4. \E h : Is(h)
  <2>1. Cardinality(mine) \in Nat /\ PartsUpTo(mine, Cardinality(mine)) = SUBSET mine
    BY PartsAre
  <2> HIDE DEF G
  <2>2. 0 .. Cardinality(mine) \subseteq G
    BY <1>2, <1>3, <2>1, UpTo
  <2>3. Cardinality(mine) \in G
    BY <2>1, <2>2
  <2> HIDE DEF Value, UpTo_
  <2>4. PICK h : UpTo_(h, Cardinality(mine))
    BY <2>3 DEF G
  <2>5. Is(h)
    BY <2>1, <2>4 DEF UpTo_
  <2> HIDE DEF Is
  <2>6. QED
    BY <2>5
<1>5. Is(all)
  <2> HIDE DEF Is
  <2>1. QED
    BY <1>4
<1>6. BuildAll(born, mine) = all[mine]
  BY DEF BuildAll, FoldSet, MapThenFoldSet, FirstOf
<1> HIDE DEF all
<1>7. BuildSteps(all, born, mine)
  <2>1. all[{}] = born
    BY <1>5
  <2>2. ASSUME NEW s \in SUBSET mine, s # {}
        PROVE  all[s] = Build(all[s \ {FirstOf(s)}], FirstOf(s))
    BY <1>5, <2>2
  <2>3. QED
    BY <2>1, <2>2 DEF BuildSteps
<1>8. QED
  BY <1>6, <1>7

\* A new item is of the size its definition asks for.
LEMMA BuildGood ==
  ASSUME NEW L \in SUBSET Attributes, NEW s, NEW S, Sound(s, L, S), NEW v \in ValueItems
  PROVE  Sound(Build(s, v), L, S \cup {v}) /\ Apart(s, Build(s, v), v)
<1> DEFINE n == AtLeast[v]
           r == Resized4(s, v, n)
           dt == Filled(s.data[v], n, Default[v])
           st == Filled(s.isSet[v], n, HasDefault(v))
           t == Build(s, v)
           b == Discrete[v] /\ n > 0
<1>1. n \in 0 .. MaxLen /\ n \in Nat /\ WithinLimits(v, n)
  BY SizesOK
<1>2. PICK ex : Rebuilt(s, r, v, dt, st, ex, s.active[v]) /\ ExprsFor(s, v, ex, n)
  BY <1>1, ResizedIs
<1>3. s.active[v] \in Values /\ v \in ValueItems /\ Tables(s) /\ s.data[v] \in [1 .. Size(s, v) -> Valid[v] \cup {None}]
      /\ Size(s, v) \in Nat
  BY DEF Sound, ItemGood
<1>4. dt \in [1 .. n -> Valid[v] \cup {None}]
  <2>1. IsFilled(dt, s.data[v], Size(s, v), n, Default[v], Valid[v] \cup {None})
    BY <1>1, <1>3, DefaultIs, FilledFacts
  <2> HIDE DEF dt
  <2>2. QED
    BY <2>1 DEF IsFilled
<1> HIDE DEF dt, st, r, n
<1>5. t = IF b THEN [r EXCEPT !.active[v] = r.index[v][1]] ELSE r
  BY DEF Build, UpdateChildren, r, n
<1> DEFINE act == IF b THEN dt[1] ELSE s.active[v]
<1>6. act \in Values
  BY <1>1, <1>3, <1>4, ValuesApart
<1>7. Rebuilt(s, t, v, dt, st, ex, act)
  <2>1. CASE ~b
    BY <1>2, <1>5, <2>1
  <2>2. CASE b
    <3>1. /\ Shape(r) /\ r.active = [s.active EXCEPT ![v] = s.active[v]]
          /\ r.index = [s.index EXCEPT ![v] = dt]
      BY <1>2, <2>2 DEF Rebuilt
    <3>2. r.index[v] = dt /\ [r.active EXCEPT ![v] = dt[1]] = [s.active EXCEPT ![v] = dt[1]]
      BY <1>3, <3>1 DEF Tables
    <3>3. t = [r EXCEPT !.active[v] = dt[1]] /\ act = dt[1]
      BY <1>5, <2>2, <3>2
    <3> HIDE DEF t, act
    <3>4. /\ Shape(t) /\ t.ok = r.ok /\ t.broken = r.broken /\ t.data = r.data /\ t.isSet = r.isSet
          /\ t.index = r.index /\ t.exprs = r.exprs /\ t.exists = r.exists /\ t.values = r.values
          /\ t.refs = r.refs /\ t.active = [s.active EXCEPT ![v] = act]
      BY <3>1, <3>2, <3>3 DEF Shape, Fields
    <3>5. QED
      BY <1>2, <3>4 DEF Rebuilt
  <2>3. QED
    BY <2>1, <2>2
<1>8. IF Extensible[v] THEN WithinLimits(v, n) ELSE n = AtLeast[v]
  BY <1>1 DEF n
<1>9. Discrete[v] /\ ~Extensible[v] /\ AtLeast[v] > 0 => act = dt[1]
  BY DEF n
<1> HIDE DEF t, act
<1>10. Sized(s, t, v, n, L, S)
  BY <1>1, <1>2, <1>6, <1>7, <1>8, <1>9, SizedGood DEF dt, st
<1>11. QED
  BY <1>10 DEF Sized, t

\* All is in order when the items of an attribute are built, in any order.
LEMMA BuildAllGood ==
  ASSUME NEW L \in SUBSET Attributes, NEW born, NEW S, Sound(born, L, S), NEW mine \in SUBSET ValueItems
  PROVE  /\ Sound(BuildAll(born, mine), L, S \cup mine)
         /\ \A w \in ValueItems \ mine : Shown(BuildAll(born, mine), w) = Shown(born, w)
<1>1. IsFiniteSet(mine) /\ Cardinality(mine) \in Nat
  BY PoolSuffices, FS_Subset, FS_CardinalityType
<1>2. PICK h : BuildAll(born, mine) = h[mine] /\ BuildSteps(h, born, mine)
  BY <1>1, BuildAllSteps
<1> DEFINE P(s) == /\ Sound(h[s], L, S \cup s)
                   /\ \A w \in ValueItems \ mine : Shown(h[s], w) = Shown(born, w)
           G == {m \in Nat : \A s \in PartsUpTo(mine, m) : P(s)}
<1>3. P({})
  <2>1. h[{}] = born /\ S \cup {} = S
    BY <1>2 DEF BuildSteps
  <2>2. QED
    BY <2>1
<1>4. ASSUME NEW s \in SUBSET mine, s # {}, P(s \ {FirstOf(s)}) PROVE P(s)
  <2> DEFINE v == FirstOf(s)
             b == h[s \ {v}]
  <2>1. v \in s
    BY <1>4 DEF FirstOf
  <2>2. h[s] = Build(b, v)
    BY <1>2, <1>4 DEF BuildSteps
  <2>3. Sound(b, L, S \cup (s \ {v})) /\ \A w \in ValueItems \ mine : Shown(b, w) = Shown(born, w)
    BY <1>4
  <2> HIDE DEF b, v
  <2>4. v \in ValueItems /\ (S \cup (s \ {v})) \cup {v} = S \cup s
    BY <2>1
  <2>5. Sound(h[s], L, S \cup s) /\ Apart(b, h[s], v)
    BY <2>2, <2>3, <2>4, BuildGood
  <2>6. ASSUME NEW w \in ValueItems \ mine PROVE Shown(h[s], w) = Shown(born, w)
    <3>1. w \in ValueItems \ {v} /\ ItemGood(b, w)
      BY <2>1, <2>3 DEF Sound
    <3>2. Shown(h[s], w) = Shown(b, w)
      BY <2>5, <3>1, ApartShows
    <3>3. QED
      BY <2>3, <3>2
  <2>7. QED
    BY <2>5, <2>6
<1> HIDE DEF P
<1>5. 0 \in G
  BY <1>1, <1>3, PartsAre
<1>6. ASSUME NEW m \in Nat, m < Cardinality(mine), m \in G PROVE m + 1 \in G
  <2> SUFFICES ASSUME NEW s \in PartsUpTo(mine, m + 1) PROVE P(s)
    OBVIOUS
  <2>1. CASE s = {}
    BY <1>3, <2>1
  <2>2. CASE s # {}
    <3> DEFINE v == FirstOf(s)
    <3>1. v \in s /\ s \in SUBSET mine
      BY <2>2 DEF FirstOf, PartsUpTo
    <3> HIDE DEF v
    <3>2. s \ {v} \in PartsUpTo(mine, m)
      BY <1>1, <3>1, PartGrows
    <3>3. P(s \ {v})
      BY <1>6, <3>2
    <3>4. QED
      BY <1>4, <2>2, <3>1, <3>3 DEF v
  <2>3. QED
    BY <2>1, <2>2
<1>7. PartsUpTo(mine, Cardinality(mine)) = SUBSET mine
  BY <1>1, PartsAre
<1>8. Cardinality(mine) \in G
  <2> HIDE DEF G
  <2>1. 0 .. Cardinality(mine) \subseteq G
    BY <1>1, <1>5, <1>6, UpTo
  <2>2. QED
    BY <1>1, <2>1
<1>9. P(mine)
  BY <1>7, <1>8
<1>10. QED
  BY <1>2, <1>9 DEF P

\* The state once the references of an attribute are there.
Made(a) == [All EXCEPT !.exists = @ \cup Owned(a),
                       !.values = [i \in Items |-> IF i \in Owned(a) THEN Blank(Required[i]) ELSE @[i]]]

\* A new item refers to nothing.
LEMMA BlankIs ==
  ASSUME NEW n \in Nat
  PROVE  Blank(n) \in Seq(Slots) /\ \A p \in DOMAIN Blank(n) : Blank(n)[p] = Null
<1>1. Blank(n) \in [1 .. n -> Slots]
  BY DEF Blank, Slots
<1>2. Blank(n) \in Seq(Slots)
  BY <1>1, TableIsSeq
<1>3. \A p \in DOMAIN Blank(n) : Blank(n)[p] = Null
  BY DEF Blank
<1>4. QED
  BY <1>2, <1>3

\* The attribute before its items of values are built.
LEMMA MadeFields ==
  ASSUME NEW a
  PROVE  /\ Shape(Made(a)) /\ Made(a).ok = FALSE /\ Made(a).refs = refs /\ Made(a).broken = broken
         /\ Made(a).data = data /\ Made(a).isSet = isSet /\ Made(a).index = index
         /\ Made(a).exprs = exprs /\ Made(a).active = active /\ Made(a).exists = exists \cup Owned(a)
         /\ Made(a).values = [i \in Items |-> IF i \in Owned(a) THEN Blank(Required[i]) ELSE values[i]]
BY DEF Made, All, Shape, Fields

\* The references are in order when an attribute comes.
LEMMA MadeRefs ==
  ASSUME ValueInv, NEW a \in Attributes, a \notin alive
  PROVE  /\ RefsGood(Made(a), alive \cup {a}) /\ Owns(Made(a))
         /\ \A x \in Pool : Made(a).values[x] = values[x]
<1> DEFINE t == Made(a)
           L == alive \cup {a}
<1>1. RefsGood(All, alive) /\ Owns(All)
  BY DEF ValueInv, Sound
<1>2. /\ t.refs = refs /\ t.broken = broken /\ t.exists = exists \cup Owned(a) /\ t.exprs = exprs
      /\ t.values = [i \in Items |-> IF i \in Owned(a) THEN Blank(Required[i]) ELSE values[i]]
  BY MadeFields
<1>3. /\ values \in [Items -> Seq(Slots)] /\ exists \subseteq Items /\ refs = RefsOf(values) /\ broken = FALSE
      /\ \A i \in Items : i \notin exists => values[i] = << >>
      /\ \A i \in exists : Owner[i] # Null => Owner[i] \in alive
      /\ \A i \in Items : \A p \in DOMAIN values[i] : values[i][p] \in alive \cup {Null}
      /\ \A x \in Pool \cap exists : \E c \in Possible(alive) \cup {Null} : values[x] = << c >>
  BY <1>1, AllFields DEF RefsGood
<1>4. /\ Owned(a) \subseteq Items /\ \A i \in Owned(a) : Owner[i] = a /\ a # Null
      /\ \A i \in Owned(a) : i \notin exists /\ values[i] = << >> /\ Required[i] \in Nat
  BY <1>3, RefConstantsOK DEF Owned
<1>5. \A x \in Pool : x \notin Owned(a) /\ x \in Items
  BY <1>4, PoolItems
<1> HIDE DEF t
<1>6. \A x \in Pool : t.values[x] = values[x]
  BY <1>2, <1>5
<1>7. \A i \in Items : t.values[i] \in Seq(Slots)
  BY <1>2, <1>3, <1>4, BlankIs
<1>8. t.values \in [Items -> Seq(Slots)]
  BY <1>2, <1>7
<1>9. t.refs = RefsOf(t.values)
  <2>1. ASSUME NEW b \in Attributes, NEW i \in Items
        PROVE  {p \in DOMAIN t.values[i] : t.values[i][p] = b} = {p \in DOMAIN values[i] : values[i][p] = b}
    <3>1. CASE i \in Owned(a)
      <4>1. t.values[i] = Blank(Required[i]) /\ values[i] = << >> /\ b # Null
        BY <1>2, <1>4, <3>1, RefConstantsOK
      <4>2. {p \in DOMAIN t.values[i] : t.values[i][p] = b} = {}
        BY <1>4, <3>1, <4>1, BlankIs
      <4>3. {p \in DOMAIN values[i] : values[i][p] = b} = {}
        BY <4>1
      <4>4. QED
        BY <4>2, <4>3
    <3>2. CASE i \notin Owned(a)
      BY <1>2, <3>2
    <3>3. QED
      BY <3>1, <3>2
  <2>2. RefsOf(t.values) = RefsOf(values)
    BY <2>1 DEF RefsOf
  <2>3. QED
    BY <1>2, <1>3, <2>2
<1>10. ASSUME NEW i \in Items, i \notin t.exists PROVE t.values[i] = << >>
  BY <1>2, <1>3, <1>10
<1>11. ASSUME NEW i \in t.exists, Owner[i] # Null PROVE Owner[i] \in L
  BY <1>2, <1>3, <1>4, <1>11
<1>12. ASSUME NEW i \in Items, NEW p \in DOMAIN t.values[i] PROVE t.values[i][p] \in L \cup {Null}
  <2>1. CASE i \in Owned(a)
    BY <1>2, <1>4, <1>12, <2>1, BlankIs
  <2>2. CASE i \notin Owned(a)
    BY <1>2, <1>3, <1>12, <2>2
  <2>3. QED
    BY <2>1, <2>2
<1>13. ASSUME NEW x \in Pool \cap t.exists
       PROVE  \E c \in Possible(L) \cup {Null} : t.values[x] = << c >>
  <2>1. Possible(alive) \subseteq Possible(L)
    BY DEF Possible
  <2>2. QED
    BY <1>2, <1>3, <1>5, <1>6, <2>1, ZenonT(60)
<1>14. t.broken = FALSE /\ t.exists \subseteq Items
  BY <1>2, <1>3, <1>4
<1>15. RefsGood(t, L)
  BY <1>8, <1>9, <1>10, <1>11, <1>12, <1>13, <1>14 DEF RefsGood
<1>16. Owns(t)
  <2>1. \A x \in Pool : x \in t.exists <=> x \in exists
    BY <1>2, <1>5
  <2>2. QED
    BY <1>1, <1>2, <2>1, AllFields DEF Owns
<1>17. QED
  BY <1>6, <1>15, <1>16 DEF t

\* All is in order before the items of values are built.
LEMMA MadeGood ==
  ASSUME ValueInv, NEW a \in Attributes, a \notin alive
  PROVE  /\ Sound(Made(a), alive \cup {a}, SizedItems)
         /\ \A w \in ValueItems : Shown(Made(a), w) = Shown(All, w)
<1> DEFINE t == Made(a)
           L == alive \cup {a}
           S == SizedItems
<1>1. Sound(All, alive, S)
  BY DEF ValueInv
<1>2. RefsGood(t, L) /\ Owns(t) /\ \A x \in Pool : t.values[x] = values[x]
  BY MadeRefs
<1>3. /\ t.data = All.data /\ t.isSet = All.isSet /\ t.index = All.index /\ t.exprs = All.exprs
      /\ t.active = All.active /\ t.ok \in BOOLEAN /\ Shape(t)
  BY MadeFields, AllFields
<1> HIDE DEF t, L, S
<1>4. \A w \in ValueItems : Kept(All, t, w)
  BY <1>3 DEF Kept
<1>5. \A w \in ValueItems : /\ Size(t, w) = Size(All, w) /\ (ItemGood(All, w) => ItemGood(t, w))
                           /\ (Fitting(All, w) => Fitting(t, w))
  BY <1>4, KeptGood
<1>6. Tables(t)
  <2>1. Tables(All)
    BY <1>1 DEF Sound
  <2>2. QED
    BY <1>3, <2>1 DEF Tables
<1>7. Sound(t, L, S)
  BY <1>1, <1>2, <1>3, <1>5, <1>6 DEF Sound
<1>8. ASSUME NEW w \in ValueItems PROVE Shown(t, w) = Shown(All, w)
  <2>1. ASSUME NEW e \in 1 .. Size(All, w) PROVE Element(t, w, e) = Element(All, w, e)
    <3>1. Allows[w] => All.exprs[w][e] \in Pool
      BY <1>1 DEF Sound, ItemGood
    <3>2. Attr(t, w, e) = Attr(All, w, e)
      BY <1>2, <1>3, <3>1, AllFields DEF Attr
    <3>3. QED
      BY <1>3, <3>2, ElementSeen
  <2> DEFINE n == Size(All, w)
  <2>2. Size(t, w) = n
    BY <1>5
  <2> HIDE DEF n
  <2>3. Shown(t, w) = [e \in 1 .. n |-> Element(t, w, e)] /\ Shown(All, w) = [e \in 1 .. n |-> Element(All, w, e)]
    BY <2>2 DEF Shown, n
  <2>4. QED
    BY <2>1, <2>3 DEF n
<1>9. QED
  BY <1>7, <1>8 DEF t, L, S

\* An attribute comes with its items.
LEMMA BuildHolderStep ==
  ASSUME ValueInv, NEW a \in Attributes, BuildHolder(a)
  PROVE  Told(TRUE)
<1> DEFINE mine == {v \in ValueItems : Holder[v] = a}
           t == BuildAll(Made(a), mine)
           u == Answer(t, TRUE)
           L == alive \cup {a}
<1>1. a \notin alive /\ alive' = L
  BY DEF BuildHolder, FoldSet, MapThenFoldSet
<1>2. Did("other", Null, 0, Null, u)
  BY DEF BuildHolder, BuildAll, Made, FoldSet, MapThenFoldSet
<1>3. Sound(Made(a), L, SizedItems) /\ \A w \in ValueItems : Shown(Made(a), w) = Shown(All, w)
  BY <1>1, MadeGood
<1>4. L \in SUBSET Attributes /\ mine \in SUBSET ValueItems /\ SizedItems' = SizedItems \cup mine
      /\ SizedItems \subseteq ValueItems \ mine
  BY <1>1 DEF ValueInv, SizedItems
<1> DEFINE S == SizedItems'
<1>5. Sound(t, L, S) /\ \A w \in ValueItems \ mine : Shown(t, w) = Shown(Made(a), w)
  <2> HIDE DEF mine, L
  <2>1. QED
    BY <1>3, <1>4, BuildAllGood
<1> HIDE DEF t, L, mine, S
<1>6. Shape(t) /\ TRUE \in BOOLEAN /\ FALSE \in BOOLEAN
  BY <1>5 DEF Sound
<1>7. Sound(u, L, S) /\ Shape(u)
      /\ \A w : Size(u, w) = Size(t, w) /\ \A e : Element(u, w, e) = Element(t, w, e)
  <2>1. Sound(u, L, S) /\ \A w : Size(u, w) = Size(t, w) /\ \A e : Element(u, w, e) = Element(t, w, e)
    BY <1>5, <1>6, AnswerSame
  <2>2. QED
    BY <2>1 DEF Sound
<1> HIDE DEF u
<1>8. All' = Answer(u, FALSE) /\ lastCall'.item = Null
  BY <1>2, <1>7, DidIs
<1>9. Sound(All', L, S)
      /\ \A w : Size(All', w) = Size(u, w) /\ \A e : Element(All', w, e) = Element(u, w, e)
  BY <1>6, <1>7, <1>8, AnswerSame, ZenonT(60)
<1>10. ValueInv'
  BY <1>1, <1>4, <1>9 DEF ValueInv, S
<1>11. ASSUME NEW w \in SizedItems PROVE Truth(w)
  <2>1. w \in ValueItems /\ w \in ValueItems \ mine /\ w # Null
    BY <1>4, ValueConstantsOK
  <2>2. Shown(All, w)' = Shown(All', w)
    BY ShownThen
  <2>3. Shown(All', w) = Shown(t, w)
    BY <1>7, <1>9 DEF Shown
  <2>4. Shown(t, w) = Shown(All, w)
    BY <1>3, <1>5, <2>1
  <2>5. Shown(All, w) = [f \in DOMAIN isSet[w] |->
                           IF Element(All, w, f) \in alive \ alive' THEN data[w][f] ELSE Element(All, w, f)]
    BY <1>1, <2>1, ShownNow DEF L
  <2>6. QED
    BY <1>8, <2>1, <2>2, <2>3, <2>4, <2>5 DEF Truth
<1>12. QED
  BY <1>10, <1>11 DEF Told

-----------------------------------------------------------------------------
(* An attribute goes                                                         *)

\* What the items of values rely on is what references keep.
LEMMA ValuesRefInv ==
  ASSUME ValueInv
  PROVE  RefInv
<1>1. /\ values \in [Items -> Seq(Slots)] /\ exists \subseteq Items /\ refs = RefsOf(values) /\ broken = FALSE
      /\ \A i \in Items : i \notin exists => values[i] = << >>
      /\ \A i \in exists : Owner[i] # Null => Owner[i] \in alive
      /\ \A i \in Items : \A p \in DOMAIN values[i] : values[i][p] \in alive \cup {Null}
      /\ alive \subseteq Attributes
  BY AllFields DEF ValueInv, Sound, RefsGood
<1>2. \A i \in Items : DOMAIN values[i] \subseteq Nat \ {0}
  <2>1. ASSUME NEW i \in Items PROVE DOMAIN values[i] \subseteq Nat \ {0}
    <3>1. values[i] \in Seq(Slots)
      BY <1>1
    <3>2. DOMAIN values[i] = 1 .. Len(values[i]) /\ Len(values[i]) \in Nat
      BY <3>1, LenProperties
    <3>3. QED
      BY <3>2
  <2>2. QED
    BY <2>1
<1>3. \A b \in Attributes, i \in Items : refs[b][i] = {p \in DOMAIN values[i] : values[i][p] = b}
  BY <1>1 DEF RefsOf
<1>4. \A b \in Attributes, i \in Items : refs[b][i] \subseteq Nat \ {0}
  BY <1>2, <1>3
<1>5. refs = [b \in Attributes |-> [i \in Items |-> refs[b][i]]]
  BY <1>1 DEF RefsOf
<1>6. refs \in [Attributes -> [Items -> SUBSET (Nat \ {0})]]
  <2> DEFINE T == SUBSET (Nat \ {0})
  <2>1. \A b \in Attributes, i \in Items : refs[b][i] \in T
    BY <1>4
  <2> HIDE DEF T
  <2>2. refs \in [Attributes -> [Items -> T]]
    BY <1>5, <2>1
  <2>3. QED
    BY <2>2 DEF T
<1>7. RefTypeOK
  BY <1>1, <1>6 DEF RefTypeOK, Slots
<1>8. QED
  BY <1>1, <1>3, <1>7 DEF RefInv, EndsAgree, AssertionsHold, LifeTimes

\* The items of an attribute.
Mine(a) == {v \in ValueItems : Holder[v] = a}

\* The items that go with attribute a.
Gone(a) == Owned(a) \cup UNION {Range(exprs[v]) : v \in Mine(a)}

\* The RefItems that go with an attribute are those of its elements.
LEMMA GoneIs ==
  ASSUME ValueInv, NEW a \in Attributes
  PROVE  /\ \A x \in Pool : x \in Gone(a) <=> \E v \in Mine(a) : \E e \in DOMAIN exprs[v] : exprs[v][e] = x
         /\ \A w \in ValueItems \ Mine(a) : \A e \in DOMAIN exprs[w] :
              exprs[w][e] \in Pool /\ exprs[w][e] \notin Gone(a) /\ exprs[w][e] \in exists
         /\ Owned(a) \subseteq Gone(a)
<1>1. /\ \A v, w \in ValueItems : \A e \in DOMAIN exprs[v], f \in DOMAIN exprs[w] :
           exprs[v][e] = exprs[w][f] => v = w /\ e = f
      /\ \A x \in Pool : x \in exists <=> \E v \in ValueItems : \E e \in DOMAIN exprs[v] : exprs[v][e] = x
      /\ \A v \in ValueItems : \A e \in DOMAIN exprs[v] : exprs[v][e] \in Pool
  BY AllFields, SMTT(30) DEF ValueInv, Sound, Owns, ItemGood
<1>2. \A x \in Pool : x \notin Owned(a)
  BY PoolItems, RefConstantsOK DEF Owned
<1>3. \A x \in Pool : x \in Gone(a) <=> \E v \in Mine(a) : \E e \in DOMAIN exprs[v] : exprs[v][e] = x
  BY <1>2 DEF Gone, Range
<1>4. Mine(a) \subseteq ValueItems
  BY DEF Mine
<1>5. QED
  BY <1>1, <1>3, <1>4 DEF Gone

\* What the destructor of an attribute leaves behind.
LEMMA HolderGone ==
  ASSUME ValueInv, NEW a \in Attributes, DestroyHolder(a)
  PROVE  /\ a \in alive /\ alive' = alive \ {a} /\ exists' = exists \ Gone(a) /\ lastCall'.item = Null
         /\ values' = [i \in Items |-> IF i \in Gone(a) THEN << >> ELSE Left(a, i)]
         /\ RefInv'
         /\ data' = [v \in ValueItems |-> IF v \in Mine(a) THEN << >> ELSE data[v]]
         /\ isSet' = [v \in ValueItems |-> IF v \in Mine(a) THEN << >> ELSE isSet[v]]
         /\ index' = [v \in ValueItems |-> IF v \in Mine(a) THEN << >> ELSE index[v]]
         /\ exprs' = [v \in ValueItems |-> IF v \in Mine(a) THEN << >> ELSE exprs[v]]
         /\ active' = [v \in ValueItems |-> IF v \in Mine(a) THEN None ELSE active[v]]
<1>1. RefInv
  BY ValuesRefInv
<1>2. Destroy(a, Gone(a))
  BY DEF DestroyHolder, Gone, Mine
<1>3. Owned(a) \subseteq Gone(a)
  BY DEF Gone
<1>4. RefInv'
  BY <1>1, <1>2, <1>3, DestroyKeeps
<1>5. /\ values' = [i \in Items |-> IF i \in Gone(a) THEN << >> ELSE Left(a, i)]
      /\ alive' = alive \ {a} /\ exists' = exists \ Gone(a)
  BY <1>1, <1>2, AfterDestruction
<1>6. a \in alive
  BY <1>2 DEF Destroy
<1>7. /\ data' = [v \in ValueItems |-> IF v \in Mine(a) THEN << >> ELSE data[v]]
      /\ isSet' = [v \in ValueItems |-> IF v \in Mine(a) THEN << >> ELSE isSet[v]]
      /\ index' = [v \in ValueItems |-> IF v \in Mine(a) THEN << >> ELSE index[v]]
      /\ exprs' = [v \in ValueItems |-> IF v \in Mine(a) THEN << >> ELSE exprs[v]]
      /\ active' = [v \in ValueItems |-> IF v \in Mine(a) THEN None ELSE active[v]]
      /\ lastCall'.item = Null
  BY DEF DestroyHolder, Mine, Other
<1>8. QED
  BY <1>4, <1>5, <1>6, <1>7

\* What is left of the expression of an element.
LEMMA ExpressionLeft ==
  ASSUME ValueInv, NEW a \in Attributes, NEW x \in Pool, x \in exists
  PROVE  \E c \in Possible(alive) \cup {Null} : /\ values[x] = << c >>
                                                /\ Left(a, x) = << IF c = a THEN Null ELSE c >>
<1>1. PICK c \in Possible(alive) \cup {Null} : values[x] = << c >>
  BY AllFields DEF ValueInv, Sound, RefsGood
<1>2. Left(a, x) = << IF c = a THEN Null ELSE c >>
  BY <1>1 DEF Left
<1>3. QED
  BY <1>1, <1>2

\* The references are in order when an attribute is gone.
LEMMA HolderGoneRefs ==
  ASSUME ValueInv, NEW a \in Attributes, DestroyHolder(a)
  PROVE  RefsGood(All', alive') /\ Owns(All')
<1>1. /\ a \in alive /\ alive' = alive \ {a} /\ exists' = exists \ Gone(a)
      /\ values' = [i \in Items |-> IF i \in Gone(a) THEN << >> ELSE Left(a, i)]
      /\ RefInv'
      /\ exprs' = [v \in ValueItems |-> IF v \in Mine(a) THEN << >> ELSE exprs[v]]
  BY HolderGone
<1>2. /\ All'.values = values' /\ All'.refs = refs' /\ All'.broken = broken' /\ All'.exists = exists'
      /\ All'.exprs = exprs'
  BY DEF All
<1>3. /\ values' \in [Items -> Seq(Slots)] /\ exists' \subseteq Items /\ broken' = FALSE
      /\ \A i \in Items : i \notin exists' => values'[i] = << >>
      /\ \A i \in exists' : Owner[i] # Null => Owner[i] \in alive'
      /\ \A i \in Items : \A p \in DOMAIN values'[i] : values'[i][p] \in alive' \cup {Null}
  BY <1>1 DEF RefInv, RefTypeOK, AssertionsHold, LifeTimes, Slots
<1>4. refs' = RefsOf(values')
  <2>1. refs' = [b \in Attributes |-> [i \in Items |-> refs'[b][i]]]
    BY <1>1 DEF RefInv, RefTypeOK
  <2>2. \A b \in Attributes, i \in Items : refs'[b][i] = {p \in DOMAIN values'[i] : values'[i][p] = b}
    BY <1>1 DEF RefInv, EndsAgree
  <2>3. QED
    BY <2>1, <2>2, RefsAre
<1>5. ASSUME NEW x \in Pool \cap exists'
      PROVE  \E c \in Possible(alive') \cup {Null} : values'[x] = << c >>
  <2>1. x \in exists /\ x \notin Gone(a) /\ x \in Items
    BY <1>1, PoolItems
  <2>2. PICK c \in Possible(alive) \cup {Null} : Left(a, x) = << IF c = a THEN Null ELSE c >>
    BY <2>1, ExpressionLeft
  <2> DEFINE d == IF c = a THEN Null ELSE c
  <2>3. d \in Possible(alive') \cup {Null}
    BY <1>1 DEF Possible
  <2>4. values'[x] = << d >>
    BY <1>1, <2>1, <2>2
  <2> HIDE DEF d
  <2>5. QED
    BY <2>3, <2>4
<1>6. RefsGood(All', alive')
  BY <1>2, <1>3, <1>4, <1>5 DEF RefsGood
<1>7. Owns(All')
  <2>1. /\ \A v, w \in ValueItems : \A e \in DOMAIN exprs[v], f \in DOMAIN exprs[w] :
             exprs[v][e] = exprs[w][f] => v = w /\ e = f
        /\ \A x \in Pool : x \in exists <=> \E v \in ValueItems : \E e \in DOMAIN exprs[v] : exprs[v][e] = x
    BY AllFields DEF ValueInv, Sound, Owns
  <2>2. \A v \in ValueItems : /\ v \in Mine(a) => exprs'[v] = << >> /\ DOMAIN exprs'[v] = {}
                              /\ v \notin Mine(a) => exprs'[v] = exprs[v]
    BY <1>1
  <2>3. ASSUME NEW v \in ValueItems, NEW w \in ValueItems, NEW e \in DOMAIN exprs'[v], NEW f \in DOMAIN exprs'[w],
               exprs'[v][e] = exprs'[w][f]
        PROVE  v = w /\ e = f
    BY <2>1, <2>2, <2>3
  <2>4. ASSUME NEW x \in Pool
        PROVE  x \in exists' <=> \E v \in ValueItems : \E e \in DOMAIN exprs'[v] : exprs'[v][e] = x
    <3>1. x \in Gone(a) <=> \E v \in Mine(a) : \E e \in DOMAIN exprs[v] : exprs[v][e] = x
      BY GoneIs
    <3>2. \A w \in ValueItems \ Mine(a) : \A e \in DOMAIN exprs[w] : exprs[w][e] \notin Gone(a)
      BY GoneIs
    <3>3. x \in exists' <=> \E v \in ValueItems \ Mine(a) : \E e \in DOMAIN exprs[v] : exprs[v][e] = x
      BY <1>1, <2>1, <3>1, <3>2
    <3>4. QED
      BY <2>2, <3>3
  <2>5. QED
    BY <1>2, <2>3, <2>4 DEF Owns
<1>8. QED
  BY <1>6, <1>7

\* An item that is not there has no elements.
LEMMA NothingGood ==
  ASSUME NEW t, NEW v \in ValueItems, t.data[v] = << >>, t.isSet[v] = << >>, t.index[v] = << >>,
         t.exprs[v] = << >>, t.active[v] = None
  PROVE  ItemGood(t, v) /\ Size(t, v) = 0
<1>1. \A T : << >> \in [1 .. 0 -> T]
  OBVIOUS
<1>2. Size(t, v) = 0
  BY DEF Size
<1>3. /\ (IF Discrete[v] THEN 0 ELSE 0) = 0 /\ (IF Allows[v] THEN 0 ELSE 0) = 0 /\ None \in Values
      /\ 0 \in Nat /\ 0 <= MaxLen
  BY RefConstantsOK DEF Values
<1>4. QED
  BY <1>1, <1>2, <1>3 DEF ItemGood

\* All is in order when an attribute is gone.
LEMMA HolderGoneItems ==
  ASSUME ValueInv, NEW a \in Attributes, DestroyHolder(a)
  PROVE  /\ ValueInv'
         /\ \A w \in ValueItems \ Mine(a) : Kept(All, All', w) /\ Size(All', w) = Size(All, w)
<1>1. /\ a \in alive /\ alive' = alive \ {a}
      /\ data' = [v \in ValueItems |-> IF v \in Mine(a) THEN << >> ELSE data[v]]
      /\ isSet' = [v \in ValueItems |-> IF v \in Mine(a) THEN << >> ELSE isSet[v]]
      /\ index' = [v \in ValueItems |-> IF v \in Mine(a) THEN << >> ELSE index[v]]
      /\ exprs' = [v \in ValueItems |-> IF v \in Mine(a) THEN << >> ELSE exprs[v]]
      /\ active' = [v \in ValueItems |-> IF v \in Mine(a) THEN None ELSE active[v]]
  BY HolderGone
<1>2. /\ All'.data = data' /\ All'.isSet = isSet' /\ All'.index = index' /\ All'.exprs = exprs'
      /\ All'.active = active' /\ All'.ok = FALSE /\ Shape(All')
  BY DEF All, Shape, Fields
<1>3. RefsGood(All', alive') /\ Owns(All')
  BY HolderGoneRefs
<1>4. Tables(All')
  BY <1>1, <1>2 DEF Tables
<1>5. \A w \in ValueItems \ Mine(a) : Kept(All, All', w)
  BY <1>1, <1>2, AllFields DEF Kept
<1>6. \A w \in ValueItems \ Mine(a) :
        /\ Size(All', w) = Size(All, w) /\ (ItemGood(All, w) => ItemGood(All', w))
        /\ (Fitting(All, w) => Fitting(All', w))
  BY <1>5, KeptGood
<1>7. \A v \in Mine(a) : v \in ValueItems /\ ItemGood(All', v) /\ Size(All', v) = 0
  BY <1>1, <1>2, NothingGood DEF Mine
<1>8. /\ SizedItems' = SizedItems \ Mine(a) /\ SizedItems \subseteq ValueItems
      /\ Sound(All, alive, SizedItems) /\ alive \subseteq Attributes
  BY <1>1 DEF SizedItems, Mine, ValueInv
<1>9. Sound(All', alive', SizedItems')
  <2> DEFINE t == All'
             S == SizedItems'
             K == alive'
  <2>1. S \subseteq ValueItems /\ Shape(t) /\ t.ok \in BOOLEAN /\ RefsGood(t, K) /\ Tables(t) /\ Owns(t)
    BY <1>2, <1>3, <1>4, <1>8
  <2>2. \A v \in ValueItems : ItemGood(t, v)
    BY <1>6, <1>7, <1>8 DEF Sound
  <2>3. \A v \in S : Fitting(t, v)
    BY <1>6, <1>8 DEF Sound
  <2>4. \A v \in ValueItems \ S : Size(t, v) = 0
    BY <1>6, <1>7, <1>8 DEF Sound
  <2> HIDE DEF t, S, K
  <2>5. Sound(t, K, S)
    BY <2>1, <2>2, <2>3, <2>4 DEF Sound
  <2>6. QED
    BY <2>5 DEF t, S, K
<1>10. ValueInv'
  BY <1>1, <1>8, <1>9 DEF ValueInv
<1>11. QED
  BY <1>5, <1>6, <1>10

\* An attribute goes with its items.
LEMMA DestroyHolderStep ==
  ASSUME ValueInv, NEW a \in Attributes, DestroyHolder(a)
  PROVE  Told(TRUE)
<1>1. /\ a \in alive /\ alive' = alive \ {a} /\ lastCall'.item = Null
      /\ values' = [i \in Items |-> IF i \in Gone(a) THEN << >> ELSE Left(a, i)]
  BY HolderGone
<1>2. ValueInv' /\ \A w \in ValueItems \ Mine(a) : Kept(All, All', w) /\ Size(All', w) = Size(All, w)
  BY HolderGoneItems
<1>3. ASSUME NEW w \in SizedItems, Holder[w] \in alive'
      PROVE  Shown(All, w)' = IF lastCall'.item = w /\ lastCall'.ok THEN Asked(w)
               ELSE [f \in DOMAIN isSet[w] |->
                       IF Element(All, w, f) \in alive \ alive' THEN data[w][f] ELSE Element(All, w, f)]
  <2> DEFINE n == Size(All, w)
             y == [f \in 1 .. n |-> IF Element(All, w, f) \in alive \ alive' THEN data[w][f] ELSE Element(All, w, f)]
  <2>1. w \in ValueItems \ Mine(a) /\ w # Null
    BY <1>1, <1>3, ValueConstantsOK DEF SizedItems, Mine
  <2>2. ItemGood(All, w) /\ Sound(All, alive, SizedItems) /\ alive \subseteq Attributes
    BY <2>1 DEF ValueInv, Sound
  <2>3. DOMAIN isSet[w] = 1 .. n
    BY <2>2, AllFields DEF ItemGood
  <2>4. ASSUME NEW f \in 1 .. n PROVE Element(All', w, f) = y[f]
    <3> DEFINE b == isSet[w][f]
               d == data[w][f]
               x == Attr(All, w, f)
               z == Attr(All', w, f)
    <3>1. /\ All'.isSet[w][f] = b /\ All'.data[w][f] = d /\ All'.exprs[w] = exprs[w]
      BY <1>2, <2>1, AllFields DEF Kept
    <3>2. Aimed(All, w, f, alive, SizedItems)
      BY <1>3, <2>2 DEF Aimed
    <3>3. d \in Values /\ x \in Attributes \cup {Null} /\ b \in BOOLEAN
          /\ (Allows[w] => f \in DOMAIN exprs[w] /\ exprs[w][f] \in Pool \cap exists)
      <4>1. d \in Valid[w] \cup {None} /\ b \in BOOLEAN /\ x \in Possible(alive) \cup {Null}
            /\ (Allows[w] => exprs[w][f] \in Pool \cap exists)
        BY <3>2, AimedAt, AllFields
      <4>2. Allows[w] => f \in DOMAIN exprs[w]
        BY <2>2, AllFields DEF ItemGood
      <4>3. QED
        BY <2>1, <2>2, <4>1, <4>2, ValuesApart DEF Possible
    <3>4. z = IF x = a THEN Null ELSE x
      <4>1. CASE ~Allows[w]
        BY <4>1, RefConstantsOK DEF Attr
      <4>2. CASE Allows[w]
        <5> DEFINE i == exprs[w][f]
        <5>1. i \in Pool /\ i \in exists /\ i \notin Gone(a) /\ i \in Items
          BY <2>1, <3>3, <4>2, GoneIs, PoolItems
        <5> HIDE DEF i
        <5>2. PICK c : values[i] = << c >> /\ Left(a, i) = << IF c = a THEN Null ELSE c >>
          BY <5>1, ExpressionLeft
        <5>3. values'[i] = Left(a, i)
          BY <1>1, <5>1
        <5>4. x = values[i][1] /\ z = values'[i][1]
          <6>1. All'.values = values'
            BY DEF All
          <6>2. QED
            BY <3>1, <4>2, <6>1, AllFields DEF Attr, i
        <5>5. QED
          BY <5>2, <5>3, <5>4
      <4>3. QED
        BY <4>1, <4>2
    <3>5. Element(All, w, f) = Seen(b, x, d) /\ Element(All', w, f) = Seen(b, z, d)
      BY <3>1, ElementSeen, AllFields
    <3>6. y[f] = IF Seen(b, x, d) = a THEN d ELSE Seen(b, x, d)
      BY <1>1, <3>5
    <3> HIDE DEF b, d, x, y, z
    <3>7. Seen(b, z, d) = IF Seen(b, x, d) = a THEN d ELSE Seen(b, x, d)
      BY <3>3, <3>4, ValuesApart DEF Seen
    <3>8. QED
      BY <3>5, <3>6, <3>7
  <2>5. Shown(All', w) = y
    <3>1. Shown(All', w) = [f \in 1 .. n |-> Element(All', w, f)] /\ y = [f \in 1 .. n |-> y[f]]
      BY <1>2, <2>1 DEF Shown
    <3> HIDE DEF y, n
    <3>2. QED
      BY <2>4, <3>1
  <2>6. Shown(All, w)' = Shown(All', w)
    BY ShownThen
  <2>7. QED
    BY <1>1, <2>1, <2>3, <2>5, <2>6
<1>4. \A w \in SizedItems : Truth(w)
  BY <1>3 DEF Truth
<1>5. QED
  BY <1>2, <1>4 DEF Told

-----------------------------------------------------------------------------
(* The specification                                                         *)

\* In the beginning nothing is there.
LEMMA ValuesStart ==
  ASSUME ValueInit
  PROVE  ValueInv
<1>1. /\ alive = {} /\ exists = {} /\ values = [i \in Items |-> << >>] /\ broken = FALSE
      /\ refs = [b \in Attributes |-> [i \in Items |-> {}]]
      /\ data = [v \in ValueItems |-> << >>] /\ isSet = [v \in ValueItems |-> << >>]
      /\ index = [v \in ValueItems |-> << >>] /\ exprs = [v \in ValueItems |-> << >>]
      /\ active = [v \in ValueItems |-> None]
  BY DEF ValueInit, RefInit
<1>2. SizedItems = {}
  BY <1>1 DEF SizedItems
<1>3. Shape(All) /\ All.ok \in BOOLEAN
  BY DEF All, Shape, Fields
<1>4. RefsGood(All, {})
  <2>1. values \in [Items -> Seq(Slots)]
    BY <1>1, EmptySeq
  <2>2. refs = RefsOf(values)
    <3>1. \A i \in Items, b \in Attributes : {p \in DOMAIN values[i] : values[i][p] = b} = {}
      BY <1>1
    <3>2. QED
      BY <1>1, <3>1 DEF RefsOf
  <2>3. QED
    BY <1>1, <2>1, <2>2, AllFields DEF RefsGood
<1>5. Tables(All)
  BY <1>1, AllFields DEF Tables
<1>6. Owns(All)
  BY <1>1, AllFields DEF Owns
<1>7. \A v \in ValueItems : ItemGood(All, v) /\ Size(All, v) = 0
  BY <1>1, AllFields, NothingGood
<1>8. Sound(All, {}, {})
  BY <1>3, <1>4, <1>5, <1>6, <1>7 DEF Sound
<1>9. QED
  BY <1>1, <1>2, <1>8 DEF ValueInv

\* The invariant is one of the variables of the module.
LEMMA ValueStays ==
  ASSUME ValueInv, UNCHANGED itemVars
  PROVE  ValueInv'
<1>1. All' = All /\ alive' = alive
  BY DEF itemVars, refVars, valueVars, All
<1>2. SizedItems' = SizedItems
  BY <1>1 DEF SizedItems
<1>3. QED
  BY <1>1, <1>2 DEF ValueInv

\* A step keeps all in order and is true, if clients are careful.
LEMMA ValueNextStep ==
  ASSUME ValueInv, ValueNext
  PROVE  Told(~Careless)
<1>1. ASSUME NEW a \in Attributes, BuildHolder(a) PROVE Told(~Careless)
  BY <1>1, BuildHolderStep DEF Told
<1>2. ASSUME NEW a \in Attributes, DestroyHolder(a) PROVE Told(~Careless)
  BY <1>2, DestroyHolderStep DEF Told
<1>3. ASSUME NEW v \in SizedItems, OnValues(v) PROVE Told(~Careless)
  BY <1>3, OnValuesStep
<1>4. ASSUME NEW v \in SizedItems, NEW e \in DOMAIN isSet[v], OnElement(v, e) PROVE Told(~Careless)
  BY <1>4, OnElementStep
<1>5. QED
  BY <1>1, <1>2, <1>3, <1>4 DEF ValueNext

\* The invariant of the items of values, whatever clients do.
LEMMA ValueAlways == ValueSpec => []ValueInv
<1>1. ValueInv /\ [ValueNext]_itemVars => ValueInv'
  BY ValueNextStep, ValueStays DEF Told
<1>2. QED
  BY <1>1, ValuesStart, PTL DEF ValueSpec

\* The invariant has the types.
LEMMA ValueTypes ==
  ASSUME ValueInv
  PROVE  ValueTypeOK
<1>1. Sound(All, alive, SizedItems)
  BY DEF ValueInv
<1>2. RefTypeOK
  BY ValuesRefInv DEF RefInv
<1>3. ASSUME NEW v \in ValueItems
      PROVE  /\ data[v] \in Seq(Values) /\ isSet[v] \in Seq(BOOLEAN) /\ index[v] \in Seq(Values)
             /\ exprs[v] \in Seq(Pool) /\ active[v] \in Values
  <2>1. ItemGood(All, v)
    BY <1>1 DEF Sound
  <2>2. QED
    BY <2>1, ItemIn, AllFields
<1>4. /\ data = [v \in ValueItems |-> data[v]] /\ isSet = [v \in ValueItems |-> isSet[v]]
      /\ index = [v \in ValueItems |-> index[v]] /\ exprs = [v \in ValueItems |-> exprs[v]]
      /\ active = [v \in ValueItems |-> active[v]]
  BY <1>1, AllFields DEF Sound, Tables
<1>5. /\ data \in [ValueItems -> Seq(Values)] /\ isSet \in [ValueItems -> Seq(BOOLEAN)]
      /\ index \in [ValueItems -> Seq(Values)] /\ exprs \in [ValueItems -> Seq(Pool)]
      /\ active \in [ValueItems -> Values]
  BY <1>3, <1>4
<1>6. VectorsAgree
  <2> SUFFICES ASSUME NEW v \in SizedItems
               PROVE  LET n == Len(isSet[v])
                      IN  /\ Len(data[v]) = n
                          /\ Len(index[v]) = IF Discrete[v] THEN n ELSE 0
                          /\ Len(exprs[v]) = IF Allows[v] THEN n ELSE 0
                          /\ IF Extensible[v] THEN WithinLimits(v, n) ELSE n = AtLeast[v]
    BY DEF VectorsAgree
  <2> DEFINE n == Size(All, v)
  <2>1. ItemGood(All, v) /\ Fitting(All, v) /\ n = Len(isSet[v])
    BY <1>1, AllFields DEF Sound, Size
  <2>2. /\ n \in Nat /\ data[v] \in [1 .. n -> Valid[v] \cup {None}]
        /\ index[v] \in [1 .. (IF Discrete[v] THEN n ELSE 0) -> Valid[v] \cup {None}]
        /\ exprs[v] \in [1 .. (IF Allows[v] THEN n ELSE 0) -> Pool]
    BY <2>1, AllFields DEF ItemGood
  <2>3. IF Extensible[v] THEN WithinLimits(v, n) ELSE n = AtLeast[v]
    BY <2>1 DEF Fitting
  <2> HIDE DEF n
  <2>4. Len(data[v]) = n
    BY <2>2, TableIsSeq
  <2>5. Len(index[v]) = IF Discrete[v] THEN n ELSE 0
    BY <2>2, TableIsSeq
  <2>6. Len(exprs[v]) = IF Allows[v] THEN n ELSE 0
    BY <2>2, TableIsSeq
  <2>7. QED
    BY <2>1, <2>3, <2>4, <2>5, <2>6
<1>7. QED
  BY <1>2, <1>5, <1>6 DEF ValueTypeOK, Values

\* The vectors of an item are as long as each other, and as its definition
\* allows, after any sequence of calls.
THEOREM ValuesTyped == ValueSpec => []ValueTypeOK
<1>1. ValueInv => ValueTypeOK
  BY ValueTypes
<1>2. QED
  BY <1>1, ValueAlways, PTL

\* Every element has a RefItem of its own, and those no element has any more
\* are gone.
THEOREM ExpressionsSafe == ValueSpec => []ExpressionsOwned
<1>1. ValueInv => ExpressionsOwned
  <2> SUFFICES ASSUME ValueInv PROVE ExpressionsOwned
    OBVIOUS
  <2>1. /\ \A v, w \in ValueItems : \A e \in DOMAIN exprs[v], f \in DOMAIN exprs[w] :
             exprs[v][e] = exprs[w][f] => v = w /\ e = f
        /\ \A x \in Pool : x \in exists <=> \E v \in ValueItems : \E e \in DOMAIN exprs[v] : exprs[v][e] = x
    BY AllFields DEF ValueInv, Sound, Owns
  <2>2. \A v \in ValueItems : \A e \in DOMAIN exprs[v] : exprs[v][e] \in Pool
    BY AllFields DEF ValueInv, Sound, ItemGood
  <2>3. UNION {Range(exprs[v]) : v \in ValueItems} = exists \cap Pool
    BY <2>1, <2>2 DEF Range
  <2>4. QED
    BY <2>1, <2>3 DEF ExpressionsOwned
<1>2. QED
  BY <1>1, ValueAlways, PTL

\* The children items of a discrete item of fixed size are those of its value.
THEOREM ChildrenSafe == ValueSpec => []ChildrenFollow
<1>1. ValueInv => ChildrenFollow
  BY AllFields DEF ValueInv, Sound, Fitting, Follows, ChildrenFollow
<1>2. QED
  BY <1>1, ValueAlways, PTL

\* What clients see of an item changes as they asked for, and only then, if
\* they put the values of discrete items by index.
THEOREM AnswersSafe ==
  ASSUME ~Careless
  PROVE  ValueSpec => AnswersTrue
<1> DEFINE Truths ==
      \A v \in SizedItems :
        Holder[v] \in alive' /\ ~FromNothing =>
          Shown(All, v)' = IF lastCall'.item = v /\ lastCall'.ok THEN Asked(v)
                           ELSE [e \in DOMAIN isSet[v] |->
                                   IF Element(All, v, e) \in alive \ alive' THEN data[v][e]
                                                                            ELSE Element(All, v, e)]
<1>1. ValueInv /\ [ValueNext]_itemVars => [Truths]_itemVars
  BY ValueNextStep DEF Told, Truth
<1> HIDE DEF Truths
<1>2. ValueSpec => [][Truths]_itemVars
  BY <1>1, ValueAlways, PTL DEF ValueSpec
<1>3. QED
  BY <1>2, PTL DEF AnswersTrue, Truths
================================================================================
