----------------------------- MODULE Associations -----------------------------
(***************************************************************************)
(* The association of attributes with model entities, which two components *)
(* keep a copy of each: an attribute has an item with the entities         *)
(* (smtk::attribute::Attribute and ModelEntityItem), and a model manager   *)
(* has the ids of the attributes of each entity (smtk::model::Manager).    *)
(* Each side calls the other to stay in step, and model sessions move      *)
(* associations when entities are split and merged.                        *)
(*                                                                         *)
(* One action is one public call with the calls it makes on the other      *)
(* side.  Operators that stand for calls inside calls take and return the  *)
(* state `now`: both copies, the attributes the collection finds, and `ok`, *)
(* what the last call answered.                                            *)
(***************************************************************************)
EXTENDS Integers, FiniteSets, Sequences, SequencesExt

CONSTANTS
  Managers,     \* model::Manager instances
  Entities,     \* UUIDs of model entities
  Null,         \* the null UUID
  Attributes,   \* attributes of one collection
  Extensible,   \* may the association item of an attribute grow and shrink?
  Required,     \* the number of slots it has when it is made
  Limit,          \* the largest number of slots, 0 for any
  Fits,         \* the entities the membership mask of an attribute admits
  MaxMade,      \* bound on the attributes made
  Nil,          \* no manager
  Foreign       \* may clients change the collection's model manager, or
                \* associate entities of another one?

Refs  == (Managers \cup {Nil}) \X (Entities \cup {Null})   \* EntityRef
Unset == << Nil, Null >>                                   \* EntityRef()

ASSUME ConstantsOK ==
  /\ Nil \notin Managers /\ Null \notin Entities
  /\ Extensible \in [Attributes -> BOOLEAN]
  /\ Required \in [Attributes -> Nat] /\ Limit \in [Attributes -> Nat]
  /\ \A a \in Attributes : Limit[a] = 0 \/ Required[a] <= Limit[a]
  /\ Fits \in [Attributes -> SUBSET Entities]
  /\ MaxMade \in Nat
  /\ Foreign \in BOOLEAN

ASSUME ConstantsFinite == IsFiniteSet(Entities) /\ IsFiniteSet(Attributes)

VARIABLES
  ref,          \* Collection::m_refModelMgr
  made,         \* the attributes constructed so far
  collection,   \* the attributes the collection finds
  values,       \* the slots of each attribute's association item
  assigned,     \* Manager::m_attributeAssignments: entity -> attributes
  known,        \* managers with this collection in m_attributeCollections
  model,        \* Manager::m_topology: the entities each manager has
  erased,       \* entities whose assignments a manager dropped by itself
  call          \* the call that just returned

vars == << ref, made, collection, values, assigned, known, model, erased, call >>

Now == [values |-> values, assigned |-> assigned, known |-> known, here |-> collection, ok |-> "yes"]

Idle == [op |-> "none", ok |-> "yes", mgr |-> Nil, from |-> {}, to |-> {}]

\* The end of a call: what it did to both sides.
Effect(now) ==
  /\ values' = now.values /\ assigned' = now.assigned /\ known' = now.known
  /\ collection' = now.here

\* The answer of a call on one entity is not kept, except that there is none.
Done(now) ==
  /\ Effect(now)
  /\ call' = [Idle EXCEPT !.ok = IF now.ok = "never" THEN now.ok ELSE @]

-----------------------------------------------------------------------------
(* The association item of an attribute *)

Holds(vals, e) == \E i \in DOMAIN vals : vals[i][2] = e

Blank(a) == [i \in 1 .. Required[a] |-> Unset]

\* Any reference that is not valid (no manager, or no such entity there) is a
\* permitted value.
IsValueValid(a, r) ==
  (r[1] # Nil /\ r[2] # Null /\ r[2] \in model[r[1]]) => r[2] \in Fits[a]

Full(a, vals) ==
  IF Extensible[a] THEN Limit[a] # 0 /\ Len(vals) >= Limit[a] ELSE Len(vals) >= Required[a]

\* A plausible bug: the limit tested as if the new value were in already.
AppendPastLimit(a, vals, r) ==
  LET empty == {i \in DOMAIN vals : vals[i][2] = Null}
  IN  IF r[2] # Null /\ Holds(vals, r[2]) THEN vals
      ELSE IF empty # {} THEN [vals EXCEPT ![CHOOSE i \in empty : \A j \in empty : j <= i] = r]
      ELSE IF Extensible[a] /\ Limit[a] # 0 /\ Len(vals) > Limit[a] THEN vals
      ELSE Append(vals, r)

\* appendValue: the entity is there already (whatever its manager), or takes
\* the last empty slot, or a new one.  A full item stays as it is.
AppendValue(a, vals, r) ==
  LET empty == {i \in DOMAIN vals : vals[i][2] = Null}
  IN  IF r[2] # Null /\ Holds(vals, r[2]) THEN vals
      ELSE IF empty # {} THEN [vals EXCEPT ![CHOOSE i \in empty : \A j \in empty : j <= i] = r]
      ELSE IF Full(a, vals) THEN vals
      ELSE Append(vals, r)

\* removeValue: items of a fixed size keep the slot.
RemoveValue(a, vals, i) ==
  IF Extensible[a] THEN RemoveAt(vals, i) ELSE [vals EXCEPT ![i] = Unset]

First(vals, Matches(_)) ==
  CHOOSE i \in DOMAIN vals : Matches(vals[i]) /\ \A j \in 1 .. i - 1 : ~Matches(vals[j])

-----------------------------------------------------------------------------
(* Associating *)

\* The second half of Manager::associateAttribute: the collection is
\* remembered, and the assignment made if the attribute's answer allows it.
Recorded(now, m, a, e, answer) ==
  [now EXCEPT !.known = @ \cup {m},
              !.assigned[m][e] = IF answer = "yes" THEN @ \cup {a} ELSE @,
              !.ok = answer]

\* A manager that is told of the association of a with e calls
\* a.associateEntity(e) back, now that a holds e.  It answers at once if it
\* holds the entity of its own manager.  Otherwise appendValue has nothing to
\* do and the collection's manager is told again, for ever.
CallBack(now, a, e) ==
  IF a \notin now.here THEN "no"
  ELSE IF \E i \in DOMAIN now.values[a] : now.values[a][i] = << ref, e >> THEN "yes"
  ELSE IF ~IsValueValid(a, << ref, e >>) THEN "no"
  ELSE IF ref = Nil THEN "yes" ELSE "never"

\* Attribute::associateEntity(EntityRef)
AttributeAssociates(now, a, r) ==
  LET vals  == IF IsValueValid(a, r) THEN AppendValue(a, now.values[a], r) ELSE now.values[a]
      mgr   == IF ref # Nil THEN ref ELSE r[1]
      taken == [now EXCEPT !.values[a] = vals]
  IN  IF \E i \in DOMAIN now.values[a] : now.values[a][i] = r THEN [now EXCEPT !.ok = "yes"]
      ELSE IF ~IsValueValid(a, r) \/ ~Holds(vals, r[2]) THEN [now EXCEPT !.ok = "no"]
      ELSE IF mgr = Nil THEN [taken EXCEPT !.ok = "yes"]
      ELSE Recorded(taken, mgr, a, r[2], CallBack(taken, a, r[2]))

\* Manager::associateAttribute with the attribute's collection.
ManagerAssociates(now, m, a, e) ==
  LET told == AttributeAssociates(now, a, << ref, e >>)
  IN  IF a \in now.here THEN Recorded(told, m, a, e, told.ok)
                          ELSE Recorded(now, m, a, e, "no")

-----------------------------------------------------------------------------
(* Disassociating *)

ManagerForgets(now, m, a, e) == [now EXCEPT !.assigned[m][e] = @ \ {a}]

\* Attribute::disassociateEntity(UUID, false)
AttributeForgets(now, a, e) ==
  IF Holds(now.values[a], e)
  THEN [now EXCEPT !.values[a] = RemoveValue(a, @, First(@, LAMBDA r : r[2] = e))]
  ELSE now

\* Attribute::disassociateEntity(UUID): only the collection's manager is told.
DisassociateId(now, a, e) ==
  IF Holds(now.values[a], e) /\ ref # Nil
  THEN ManagerForgets(AttributeForgets(now, a, e), ref, a, e)
  ELSE AttributeForgets(now, a, e)

\* Attribute::disassociateEntity(EntityRef): its own manager is told.
DisassociateRef(now, a, r) ==
  IF \E i \in DOMAIN now.values[a] : now.values[a][i] = r
  THEN ManagerForgets([now EXCEPT !.values[a] = RemoveValue(a, @, First(@, LAMBDA x : x = r))],
                      r[1], a, r[2])
  ELSE now

\* Manager::disassociateAttribute
ManagerDisassociates(now, m, a, e) ==
  IF a \in now.assigned[m][e]
  THEN LET rest == ManagerForgets(now, m, a, e)
           both == IF a \in now.here THEN AttributeForgets(rest, a, e) ELSE rest
       IN  [both EXCEPT !.ok = "yes"]
  ELSE [now EXCEPT !.ok = "no"]

-----------------------------------------------------------------------------
(* Several calls in a row *)

Both(x, y) == IF "never" \in {x, y} THEN "never" ELSE IF x = y THEN x ELSE "no"

\* `ok &= ...` over a sequence of calls.
Each(now, steps, Step(_, _)) ==
  FoldLeft(LAMBDA s, x : LET n == Step(s, x) IN [n EXCEPT !.ok = Both(s.ok, @)], now, steps)

\* insertEntityAssociations: attributes of the collections the manager knows.
Found(now, m, e) == IF m \in now.known THEN now.assigned[m][e] \cap now.here ELSE {}

\* EntityRef::disassociateAttributes: "no" unless one of them was removed.
DisassociateAny(now, m, e, attrs) ==
  LET gone == FoldLeft(LAMBDA s, a : ManagerDisassociates(s, m, a, e), now, SetToSeq(attrs))
  IN  [gone EXCEPT !.ok = IF \E a \in attrs : a \in now.assigned[m][e] THEN "yes" ELSE "no"]

\* A plausible bug: the answer of the last association is the answer.
SplitAnsweringLast(m, from, to, attrs) ==
  LET cut == IF from \notin Range(to)
             THEN DisassociateAny(Now, m, from, Range(attrs))
             ELSE Now
  IN  FoldLeft(LAMBDA s, a :
                 FoldLeft(LAMBDA t, e : ManagerAssociates(t, m, a, e),
                          s, SelectSeq(to, LAMBDA e : e # from /\ e \in model[m])),
               cut, attrs)

\* Session::splitAttributes: from is replaced by the entities of to.
SplitAttributes(m, from, to, attrs) ==
  LET cut == IF from \notin Range(to)
             THEN DisassociateAny(Now, m, from, Range(attrs))
             ELSE Now
  IN  FoldLeft(LAMBDA s, a :
                 Each(s, to, LAMBDA t, e : IF e # from /\ e \in model[m]
                                           THEN ManagerAssociates(t, m, a, e) ELSE t),
               cut, attrs)

\* Session::mergeAttributes gathers the attributes of the sources one by one:
\* the attributes of earlier sources are removed from later ones, too.
Gathered(m, from, to) ==
  FoldLeft(LAMBDA s, e :
             IF e = to \/ e \notin model[m] THEN s
             ELSE LET attrs == s.attrs \cup Found(s.now, m, e)
                      cut   == DisassociateAny(s.now, m, e, attrs)
                  IN  [attrs |-> attrs, now |-> [cut EXCEPT !.ok = Both(s.now.ok, @)]],
           [attrs |-> {}, now |-> Now], from)

MergeAttributes(m, from, to) ==
  LET sum == Gathered(m, from, to)
  IN  Each(sum.now, SetToSeq(sum.attrs), LAMBDA s, a : ManagerAssociates(s, m, a, to))

-----------------------------------------------------------------------------
(* The calls of clients *)

Running == call.ok # "never"

\* The managers whose entities clients associate.
Own == IF Foreign THEN Managers ELSE {ref} \ {Nil}

\* The model manager is set while nothing is associated (as operators, readers
\* and unitAttributeAssociation do).
SetRefModelManager(m) ==
  /\ Foreign \/ \A a \in made, e \in Entities : ~Holds(values[a], e)
  /\ ref' = m
  /\ Done(Now)
  /\ UNCHANGED << made, model, erased >>

InsertEntity(m, e) ==
  /\ model' = [model EXCEPT ![m] = @ \cup {e}]
  /\ Done(Now)
  /\ UNCHANGED << ref, made, erased >>

\* Manager::erase, with or without SESSION_ATTRIBUTE_ASSOCIATIONS: no
\* attribute is told.
Erase(m, e, also) ==
  /\ model' = [model EXCEPT ![m] = @ \ {e}]
  /\ Done(IF also THEN [Now EXCEPT !.assigned[m][e] = {}] ELSE Now)
  /\ erased' = IF also /\ assigned[m][e] # {} THEN erased \cup {e} ELSE erased
  /\ UNCHANGED << ref, made >>

Make(a) ==
  /\ a \notin made /\ Cardinality(made) < MaxMade
  /\ made' = made \cup {a}

Create(a) ==
  /\ Make(a)
  /\ Done([Now EXCEPT !.values[a] = Blank(a), !.here = @ \cup {a}])
  /\ UNCHANGED << ref, model, erased >>

\* Collection::removeAttribute tells no manager.
RemoveAttribute(a) ==
  /\ a \in collection
  /\ Done([Now EXCEPT !.here = @ \ {a}])
  /\ UNCHANGED << ref, made, model, erased >>

\* A reader fills the item of a new attribute, and has the manager note the
\* assignments without a collection: also that of the null UUID, for a slot
\* the file leaves empty.
ReadAttribute(a, slots) ==
  /\ Make(a)
  /\ LET vals == [i \in DOMAIN slots |-> IF slots[i] = Null THEN Unset ELSE << ref, slots[i] >>]
         noted == [e \in Entities \cup {Null} |->
                     IF Holds(vals, e) THEN assigned[ref][e] \cup {a} ELSE assigned[ref][e]]
         kept  == [Now EXCEPT !.values[a] = vals, !.here = @ \cup {a}]
     IN  Done(IF ref = Nil THEN kept ELSE [kept EXCEPT !.assigned[ref] = noted])
  /\ UNCHANGED << ref, model, erased >>

\* What a file may hold for the item.
Slots(a) ==
  IF Extensible[a]
  THEN {s \in UNION {SetToSeqs(S) : S \in SUBSET Fits[a]} : Limit[a] = 0 \/ Len(s) <= Limit[a]}
  ELSE {s \in [1 .. Required[a] -> Fits[a] \cup {Null}] :
          \A i, j \in 1 .. Required[a] : s[i] = s[j] => i = j \/ s[i] = Null}

\* copyAttribute with COPY_MODEL_ASSOCIATIONS: a new attribute of the same
\* definition is associated with the same UUIDs, the null one first.  The copy
\* is returned whether or not all of them could be.
CopyAttribute(a, b) ==
  /\ a \in made /\ Make(b)
  /\ Extensible[a] = Extensible[b] /\ Required[a] = Required[b] /\ Limit[a] = Limit[b] /\ Fits[a] = Fits[b]
  /\ \E order \in SetToSeqs({e \in Entities : Holds(values[a], e)}) :
       LET ids   == IF Holds(values[a], Null) THEN << Null >> \o order ELSE order
           fresh == [Now EXCEPT !.values[b] = Blank(b), !.here = @ \cup {b}]
       IN  Done(Each(fresh, ids, LAMBDA s, e : AttributeAssociates(s, b, << ref, e >>)))
  /\ UNCHANGED << ref, model, erased >>

\* Calls on one attribute and one entity, from either side.
Associate(now) ==
  /\ Done(now)
  /\ UNCHANGED << ref, made, model, erased >>

AssociateId(a, e)     == Associate(AttributeAssociates(Now, a, << ref, e >>))
AssociateRef(a, m, e) == Associate(AttributeAssociates(Now, a, << m, e >>))
AssociateFrom(m, a, e) == Associate(ManagerAssociates(Now, m, a, e))
DropId(a, e)          == Associate(DisassociateId(Now, a, e))
DropRef(a, m, e)      == Associate(DisassociateRef(Now, a, << m, e >>))
DropFrom(m, a, e)     == Associate(ManagerDisassociates(Now, m, a, e))

\* EntityRef::disassociateAllAttributes
DropAllOf(m, e) ==
  Associate(Each(Now, SetToSeq(assigned[m][e]), LAMBDA s, a : ManagerDisassociates(s, m, a, e)))

\* A plausible bug: the manager is not told of the reset.
RemoveAllAlone(a) == Associate([Now EXCEPT !.values[a] = Blank(a)])

\* Attribute::removeAllAssociations
RemoveAll(a) ==
  LET blank == [Now EXCEPT !.values[a] = Blank(a)]
      freed == [e \in Entities \cup {Null} |->
                  IF Holds(values[a], e) THEN assigned[ref][e] \ {a} ELSE assigned[ref][e]]
  IN  Associate(IF ref = Nil THEN blank ELSE [blank EXCEPT !.assigned[ref] = freed])

\* A call that moves associations, of the entities that take part.  It changes
\* nothing when it finds no attribute.
Moved(op, m, from, to, now) ==
  /\ Effect(now)
  /\ call' = [op |-> op, ok |-> now.ok, mgr |-> m, from |-> from, to |-> to]

\* Session::splitAttributes and mergeAttributes, with entities in any order.
Split(m, from, to) ==
  /\ Found(Now, m, from) # {}
  /\ \E attrs \in SetToSeqs(Found(Now, m, from)) :
       Moved("split", m, {from}, Range(to) \cap model[m], SplitAttributes(m, from, to, attrs))
  /\ UNCHANGED << ref, made, model, erased >>

Merge(m, from, to) ==
  /\ \E e \in Range(from) \cap model[m] : e # to /\ Found(Now, m, e) # {}
  /\ Moved("merge", m, Range(from) \cap model[m], {to}, MergeAttributes(m, from, to))
  /\ UNCHANGED << ref, made, model, erased >>

-----------------------------------------------------------------------------
Init ==
  /\ ref = Nil /\ made = {} /\ collection = {}
  /\ values = [a \in Attributes |-> << >>]
  /\ assigned = [m \in Managers |-> [e \in Entities \cup {Null} |-> {}]]
  /\ known = {}
  /\ model = [m \in Managers |-> {}]
  /\ erased = {}
  /\ call = Idle

\* One or two entities, in any order.
Lists == UNION {SetToSeqs({e, f}) : e, f \in Entities}

Next ==
  /\ Running
  /\ \/ \E m \in Managers \cup {Nil} : SetRefModelManager(m)
     \/ \E m \in Managers, e \in Entities : InsertEntity(m, e) \/ (\E also \in BOOLEAN : Erase(m, e, also))
     \/ \E a \in Attributes : Create(a) \/ RemoveAttribute(a) \/ (\E s \in Slots(a) : ReadAttribute(a, s))
     \/ \E a, b \in Attributes : CopyAttribute(a, b)
     \/ \E a \in made : RemoveAll(a)
     \/ \E a \in made, e \in Entities : AssociateId(a, e) \/ DropId(a, e)
     \/ \E m \in Own, a \in made, e \in Entities : AssociateRef(a, m, e) \/ AssociateFrom(m, a, e)
     \/ \E m \in Managers, a \in made, e \in Entities : DropRef(a, m, e) \/ DropFrom(m, a, e)
     \/ \E m \in Managers, e \in Entities : DropAllOf(m, e)
     \/ \E m \in Own, e \in Entities, l \in Lists : Split(m, e, l) \/ Merge(m, l, e)

Spec == Init /\ [][Next]_vars

-----------------------------------------------------------------------------
(* Properties *)

\* An association item keeps to its definition whatever fills it (associating
\* on either side, copying, reading, splitting, merging): as many slots as are
\* allowed, and no entity in two of them.
ItemsKeepToRules ==
  \A a \in made :
    /\ IF Extensible[a] THEN Limit[a] = 0 \/ Len(values[a]) <= Limit[a]
                        ELSE Len(values[a]) = Required[a]
    /\ \A i, j \in DOMAIN values[a] :
         values[a][i][2] = values[a][j][2] => i = j \/ values[a][i][2] = Null

TypeOK ==
  /\ ref \in Managers \cup {Nil}
  /\ collection \subseteq made /\ made \subseteq Attributes
  /\ values \in [Attributes -> Seq(Refs)]
  /\ assigned \in [Managers -> [Entities \cup {Null} -> SUBSET made]]
  /\ known \subseteq Managers
  /\ model \in [Managers -> SUBSET Entities]
  /\ erased \subseteq Entities
  /\ call.ok \in {"yes", "no", "never"}
  /\ ItemsKeepToRules

\* Whichever side a call came in on, and however it failed: what a manager has
\* assigned, the attribute holds, and what the attribute holds, the
\* collection's manager has assigned, unless it erased the entity since.
LinksAgree ==
  \A a \in collection, e \in Entities :
    /\ \A m \in Managers : a \in assigned[m][e] => m = ref /\ Holds(values[a], e)
    /\ Holds(values[a], e) /\ ref # Nil /\ e \notin erased => a \in assigned[ref][e]

\* Sessions that split or merge entities are told if an attribute the manager
\* knew of did not make it to every entity it should be on now (entities that
\* do not exist take no part).
NoSilentLoss ==
  [][call'.op \in {"split", "merge"} /\ call'.ok = "yes" =>
       \A s \in call'.from, t \in call'.to :
         \A a \in Found(Now, call'.mgr, s) : Holds(values'[a], t)]_vars

\* Attribute.cxx on associateEntity: "This function returns true when the
\* association is valid and successful. It may return false if the association
\* is prohibited."
AssociateAnswers == call.ok # "never"
=============================================================================
