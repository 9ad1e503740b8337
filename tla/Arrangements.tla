----------------------------- MODULE Arrangements -----------------------------
(***************************************************************************)
(* How the entities of a model are related (smtk::model::Entity and        *)
(* smtk::model::Manager).  An entity keeps an array of the ids of entities *)
(* it is related to, and for every kind of arrangement an array of indices *)
(* into the first one.  The entity at the other end keeps the dual of each *)
(* arrangement in the same way.  An index must go on to mean what it       *)
(* means: what is taken out of the array of relations leaves a hole, and   *)
(* some of the calls that add relations fill the first hole they know of.  *)
(*                                                                         *)
(* Modelled are the arrangements of one index: inclusions, sets and        *)
(* instances.  Positions count from 1, and 0 stands for -1.                *)
(***************************************************************************)
EXTENDS Integers, SequencesExt

CONSTANTS
  Entities,       \* ids of entities, each inserted once at most
  Null,           \* the null id
  Type,           \* entityFlags() & ENTITY_MASK of an entity
  Ways,           \* << a, k, b >> when clients may arrange a and b as k
  Raw,            \* << a, b >> when clients may relate a to b with no arrangement
  MaxRelations    \* bound on the relations of an entity

Embeds(a, b) == << Type[a], Type[b] >> \in ({"model"} \X {"model", "cell"}) \cup {<< "cell", "cell" >>}

Collects(a, b) == Type[a] = "group" \/ << Type[a], Type[b] >> \in {"model"} \X {"model", "group"}

\* Clients arrange a pair in one way only: indices are shared between kinds, so
\* that unarranging a pair in one way would break the other.
ASSUME ArrangementConstantsOK ==
  /\ Null \notin Entities
  /\ Type \in [Entities -> {"model", "group", "cell", "instance"}]
  /\ Ways \subseteq Entities \X {"INCLUDES", "SUPERSET_OF", "INSTANCE_OF"} \X Entities
  /\ \A w \in Ways : /\ w[1] # w[3]
                     /\ w[2] = "INCLUDES" => Embeds(w[1], w[3])
                     /\ w[2] = "SUPERSET_OF" => Collects(w[1], w[3])
                     /\ w[2] = "INSTANCE_OF" => Type[w[1]] = "instance" /\ Type[w[3]] # "instance"
  /\ \A v, w \in Ways : {v[1], v[3]} = {w[1], w[3]} => v = w
  /\ Raw \subseteq Entities \X Entities
  /\ \A r \in Raw : r[1] # r[2]
  /\ MaxRelations \in Nat

VARIABLES
  fresh,       \* ids not used yet
  there,       \* Manager::m_topology
  relations,   \* Entity::m_relations
  arranged,    \* Entity::m_arrangements
  hole         \* Entity::m_firstInvalid

vars == << fresh, there, relations, arranged, hole >>

\* In the order in which erase goes through them.
Kinds == << "INCLUDES", "EMBEDDED_IN", "SUBSET_OF", "SUPERSET_OF", "INSTANCE_OF", "INSTANCED_BY" >>

Kind == Range(Kinds)

Dual == [INCLUDES    |-> "EMBEDDED_IN", EMBEDDED_IN  |-> "INCLUDES",
         SUBSET_OF   |-> "SUPERSET_OF", SUPERSET_OF  |-> "SUBSET_OF",
         INSTANCE_OF |-> "INSTANCED_BY", INSTANCED_BY |-> "INSTANCE_OF"]

Now == [relations |-> relations, arranged |-> arranged, hole |-> hole]

Effect(now) ==
  /\ relations' = now.relations
  /\ arranged' = now.arranged
  /\ hole' = now.hole

-----------------------------------------------------------------------------
(* Relations *)

\* The first element of s at or behind position p that is e, 0 if there is none.
From(s, p, e) ==
  LET at == {n \in p .. Len(s) : s[n] = e}
  IN  IF at = {} THEN 0 ELSE CHOOSE n \in at : \A q \in at : n <= q

\* Entity::findOrAppendRelation: never fills a hole.
FindOrAppend(now, e, b) ==
  IF b \in Range(now.relations[e]) THEN now ELSE [now EXCEPT !.relations[e] = Append(@, b)]

\* A plausible bug: the hole stays the first one once it is filled.
AppendAgain(now, e, b) ==
  IF now.hole[e] = 0
  THEN [now EXCEPT !.relations[e] = Append(@, b)]
  ELSE [now EXCEPT !.relations[e][now.hole[e]] = b]

\* Entity::appendRelation: fills the first hole it knows of and looks for the next.
AppendRelation(now, e, b) ==
  IF now.hole[e] = 0
  THEN [now EXCEPT !.relations[e] = Append(@, b)]
  ELSE [now EXCEPT !.relations[e][now.hole[e]] = b,
                   !.hole[e] = From(now.relations[e], @ + 1, Null)]

\* Entity::invalidateRelationByIndex.
Invalidate(now, e, p) ==
  IF p \in DOMAIN now.relations[e]
  THEN [now EXCEPT !.relations[e][p] = Null,
                   !.hole[e] = IF @ = 0 \/ p < @ THEN p ELSE @]
  ELSE now

\* Entity::invalidateRelation.
InvalidateEntity(now, e, b) == Invalidate(now, e, From(now.relations[e], 1, b))

-----------------------------------------------------------------------------
(* Arrangements *)

\* The entity that the i-th arrangement of a kind relates e to.
Related(now, e, k, i) == now.relations[e][now.arranged[e][k][i]]

\* The first arrangement of a kind that relates e to b, 0 if there is none.
Find(now, e, k, b) == From([i \in DOMAIN now.arranged[e][k] |-> Related(now, e, k, i)], 1, b)

\* EntityRefArrangementOps::findOrAddSimpleRelationship.
FindOrAdd(now, e, k, b) ==
  LET with == FindOrAppend(now, e, b)
  IN  IF Find(now, e, k, b) # 0 THEN now
      ELSE [with EXCEPT !.arranged[e][k] = Append(@, From(with.relations[e], 1, b))]

\* Both ends.
AddBoth(now, a, k, b) == FindOrAdd(FindOrAdd(now, a, k, b), b, Dual[k], a)

\* What unarrange does to the entity itself.
TakeOut(now, e, k, i) ==
  [Invalidate(now, e, now.arranged[e][k][i]) EXCEPT !.arranged[e][k] = RemoveAt(@, i)]

\* A plausible bug: only one end is unarranged.
UnarrangeOneEnd(now, e, k, i) == TakeOut(now, e, k, i)

\* A plausible bug: the dual is taken to have the same index.
UnarrangeSameIndex(now, e, k, i) ==
  LET b    == Related(now, e, k, i)
      gone == TakeOut(now, e, k, i)
  IN  IF b \in there /\ i \in DOMAIN gone.arranged[b][Dual[k]] THEN TakeOut(gone, b, Dual[k], i) ELSE gone

\* Entity::unarrange.  The dual is unarranged in the same way, by when it has no
\* dual any more.
Unarrange(now, e, k, i) ==
  LET b    == Related(now, e, k, i)
      j    == IF b \in there THEN Find(now, b, Dual[k], e) ELSE 0
      gone == TakeOut(now, e, k, i)
  IN  IF j = 0 THEN gone ELSE TakeOut(gone, b, Dual[k], j)

\* unarrange from the last arrangement of a kind to the first, for every kind.
UnarrangeAll(now, e) ==
  FoldLeft(LAMBDA n, k : FoldRight(LAMBDA i, m : Unarrange(m, e, k, i),
                                   [i \in DOMAIN now.arranged[e][k] |-> i], n),
           now, Kinds)

\* Manager::elideEntityReferences: the holes this leaves are not noted.
Elide(now, e) ==
  [now EXCEPT !.relations = [b \in Entities |->
     IF b \in there /\ b \in Range(now.relations[e])
     THEN [p \in DOMAIN @[b] |-> IF @[b][p] = e THEN Null ELSE @[b][p]]
     ELSE @[b]]]

-----------------------------------------------------------------------------
(* Calls *)

Bare == [k \in Kind |-> << >>]

Init ==
  /\ fresh = Entities
  /\ there = {}
  /\ relations = [e \in Entities |-> << >>]
  /\ arranged = [e \in Entities |-> Bare]
  /\ hole = [e \in Entities |-> 0]

Add(e) == fresh' = fresh \ {e} /\ there' = there \cup {e}

Keep == UNCHANGED << fresh, there >>

\* The bound on relations.
Within(now) == \A e \in Entities : Len(now.relations[e]) <= MaxRelations

Insert(e) ==
  /\ e \in fresh /\ Type[e] # "instance"
  /\ Add(e)
  /\ UNCHANGED << relations, arranged, hole >>

\* embedEntity, addGroup, addMemberEntity and, for a group, addEntity.
Relate(a, k, b) ==
  /\ {a, b} \subseteq there /\ k # "INSTANCE_OF"
  /\ LET now == IF Type[a] = "group" /\ Find(Now, a, k, b) # 0 THEN Now ELSE AddBoth(Now, a, k, b)
     IN  Within(now) /\ Effect(now)
  /\ Keep

\* unembedEntity, removeGroup, removeSubmodel and Group::removeEntity.
Unrelate(a, k, b) ==
  /\ a \in there /\ Find(Now, a, k, b) # 0
  /\ Effect(Unarrange(Now, a, k, Find(Now, a, k, b)))
  /\ Keep

\* Model::removeCell: unembedEntity, and one reference more at either end.
RemoveCell(m, c) ==
  /\ {m, c} \subseteq there /\ Type[m] = "model" /\ Type[c] = "cell"
  /\ LET i   == Find(Now, m, "INCLUDES", c)
         now == IF i = 0 THEN Now ELSE Unarrange(Now, m, "INCLUDES", i)
     IN  Effect(InvalidateEntity(InvalidateEntity(now, m, c), c, m))
  /\ Keep

\* EntityRef::removeArrangement, from whichever end.
RemoveArrangement(e, k, i) ==
  /\ e \in there /\ i \in DOMAIN arranged[e][k]
  /\ Effect(Unarrange(Now, e, k, i))
  /\ Keep

\* Manager::addInstance.
AddInstance(i, o) ==
  /\ i \in fresh /\ o \in there
  /\ LET related == FindOrAppend(FindOrAppend(Now, o, i), i, o)
     IN  /\ Within(related)
         /\ Effect([related EXCEPT
              !.arranged[i]["INSTANCE_OF"] = Append(@, From(related.relations[i], 1, o)),
              !.arranged[o]["INSTANCED_BY"] = Append(@, From(related.relations[o], 1, i))])
  /\ Add(i)

\* EntityRef::findOrAddRawRelation.
RelateRaw(a, b) ==
  /\ {a, b} \subseteq there
  /\ b \notin Range(relations[a])
  /\ LET now == AppendRelation(Now, a, b) IN Within(now) /\ Effect(now)
  /\ Keep

\* EntityRef::elideRawRelation, where no arrangement uses the relation.
ElideRaw(a, b) ==
  /\ {a, b} \subseteq there
  /\ \A k \in Kind : Find(Now, a, k, b) = 0
  /\ Effect(InvalidateEntity(Now, a, b))
  /\ Keep

\* Manager::erase.
Erase(e) ==
  /\ e \in there
  /\ LET now == Elide(UnarrangeAll(Now, e), e)
     IN  Effect([now EXCEPT !.relations[e] = << >>, !.arranged[e] = Bare, !.hole[e] = 0])
  /\ there' = there \ {e}
  /\ UNCHANGED fresh

Next ==
  \/ \E e \in Entities : Insert(e) \/ Erase(e)
  \/ \E w \in Ways : Relate(w[1], w[2], w[3]) \/ Unrelate(w[1], w[2], w[3])
  \/ \E w \in Ways : w[2] = "INSTANCE_OF" /\ AddInstance(w[1], w[3])
  \/ \E m, c \in Entities : RemoveCell(m, c)
  \/ \E e \in Entities, k \in Kind, i \in 1 .. MaxRelations : RemoveArrangement(e, k, i)
  \/ \E r \in Raw : RelateRaw(r[1], r[2]) \/ ElideRaw(r[1], r[2])

Spec == Init /\ [][Next]_vars

-----------------------------------------------------------------------------
(* Properties *)

\* Types; and the hole an entity knows of is one: what fills it (consumeInvalidIndex)
\* asks nothing.
TypeOK ==
  /\ fresh \subseteq Entities /\ there \subseteq Entities \ fresh
  /\ \A e \in Entities :
       /\ relations[e] \in Seq(Entities \cup {Null})
       /\ DOMAIN arranged[e] = Kind
       /\ \A k \in Kind : arranged[e][k] \in Seq(DOMAIN relations[e])
       /\ hole[e] # 0 => hole[e] \in DOMAIN relations[e] /\ relations[e][hole[e]] = Null

\* The arrangements by which a is related to b.
Arrangements(a, k, b) == {i \in DOMAIN arranged[a][k] : Related(Now, a, k, i) = b}

\* Whatever is arranged, unarranged, related without an arrangement, elided and
\* erased in whatever order: arrangements relate to entities that are there, and an
\* entity is related to another as often as that is, by the dual, to it.
DualsAgree ==
  /\ \A e \in there, k \in Kind : \A i \in DOMAIN arranged[e][k] : Related(Now, e, k, i) \in there
  /\ \A a, b \in there, k \in Kind :
       Cardinality(Arrangements(a, k, b)) = Cardinality(Arrangements(b, Dual[k], a))

Arranged == {t \in Entities \X Kind \X Entities : Arrangements(t[1], t[2], t[3]) # {}}

\* A call arranges or unarranges one pair, erase all pairs of one entity: no index of
\* another arrangement ever comes to mean another entity, although all share the array
\* of relations, the holes in it are filled again and duals are found by their index.
ChangesAreLocal ==
  [][LET changed == (Arranged \ Arranged') \cup (Arranged' \ Arranged)
         pairs   == {{t[1], t[3]} : t \in changed}
     IN  \/ \A p, q \in pairs : p = q
         \/ \E e \in there \ there' : \A p \in pairs : e \in p]_vars
===============================================================================
