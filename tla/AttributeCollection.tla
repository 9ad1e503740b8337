-------------------------- MODULE AttributeCollection --------------------------
(***************************************************************************)
(* smtk::attribute::Collection: the definitions of a collection with their *)
(* derivation tree, and its attributes under three indices - by name, by   *)
(* id and by type.                                                         *)
(*                                                                         *)
(* Clients hold shared pointers: an attribute or a definition outlives its *)
(* removal and still takes the collection for its own.  Calls are atomic.  *)
(***************************************************************************)
EXTENDS Naturals, Sequences, FiniteSets

CONSTANTS
  Defs,       \* Definition objects the program may ever create
  Types,      \* type names
  DefType,    \* the type name of each Definition object
  Abstract,   \* the definitions set to be abstract
  Atts,       \* Attribute objects
  Names,      \* attribute names
  Series,     \* the names "root-0", "root-1", ... of a type, in that order
  Ids,        \* UUIDs
  Nil,        \* null pointer / no such entry
  Careful     \* do clients leave alone what was removed, and read no id twice?

ASSUME ConstantsOK ==
  /\ DefType \in [Defs -> Types]
  /\ Abstract \subseteq Defs
  /\ Series \in [Types -> Seq(Names)]
  /\ Careful \in BOOLEAN

ASSUME DefsFinite == IsFiniteSet(Defs)

ASSUME NilIsNothing == Nil \notin Defs \cup Types \cup Atts \cup Names \cup Ids

VARIABLES
  made,          \* the definitions created so far
  base,          \* Definition::m_baseDefinition
  definitions,   \* m_definitions: type -> definition
  derived,       \* m_derivedDefInfo: definition -> its derived definitions
  def,           \* Attribute::m_definition; Nil while the object does not exist
  name,          \* Attribute::m_name
  id,            \* Attribute::m_id
  byName,        \* m_attributes
  byId,          \* m_attributeIdMap
  clusters,      \* m_attributeClusters
  call           \* the last change to an attribute: what was asked, and of which

defVars   == << made, base, definitions, derived >>
objVars   == << def, name, id >>
indexVars == << byName, byId, clusters >>
vars      == << defVars, objVars, indexVars, call >>

Exists(a)     == def[a] # Nil
TypeOf(a)     == DefType[def[a]]
Registered(d) == d \in Defs /\ definitions[DefType[d]] = d

\* What an index still holds.
Indexed(a) ==
  \/ \E n \in Names : byName[n] = a
  \/ \E i \in Ids : byId[i] = a
  \/ \E t \in Types : a \in clusters[t]

\* What clients may use: by the pointer alone, or if they are careful only
\* while the collection has it.
UsableAtt(a) == Exists(a) /\ (Careful => \E n \in Names : byName[n] = a)
UsableDef(d) == d \in made /\ (Careful => Registered(d))

-----------------------------------------------------------------------------
(* Definitions *)

Enter(d, b) ==
  /\ made' = made \cup {d}
  /\ base' = [base EXCEPT ![d] = b]
  /\ definitions' = [definitions EXCEPT ![DefType[d]] = d]

\* A plausible bug: the base is not told of its new derived definition.
EnterAlone(d, b) ==
  /\ Enter(d, b)
  /\ UNCHANGED derived

EnterBelow(d, b) ==
  /\ Enter(d, b)
  /\ derived' = IF b = Nil THEN derived ELSE [derived EXCEPT ![b] = @ \cup {d}]

\* createDefinition(type, base): the type is new; the base is none, one found
\* by its type, or one the client has a pointer to.
CreateDefinition(d, b) ==
  /\ d \notin made /\ definitions[DefType[d]] = Nil
  /\ b = Nil \/ UsableDef(b)
  /\ EnterBelow(d, b)
  /\ UNCHANGED << objVars, indexVars, call >>

\* A plausible bug: no check for derived definitions.
RemoveDefinitionWithAny(d) ==
  /\ UsableDef(d)
  /\ Careful => clusters[DefType[d]] = {}
  /\ derived' = [b \in Defs |-> IF b = d THEN {} ELSE derived[b] \ {d}]
  /\ definitions' = [definitions EXCEPT ![DefType[d]] = Nil]
  /\ UNCHANGED << made, base, objVars, indexVars, call >>

\* removeDefinition(): refused while others derive from it.  The entry goes by
\* type name; attributes of the definition stay.
RemoveDefinition(d) ==
  /\ UsableDef(d)
  /\ Careful => clusters[DefType[d]] = {}
  /\ derived[d] = {}
  /\ derived' = IF base[d] = Nil THEN derived ELSE [derived EXCEPT ![base[d]] = @ \ {d}]
  /\ definitions' = [definitions EXCEPT ![DefType[d]] = Nil]
  /\ UNCHANGED << made, base, objVars, indexVars, call >>

\* The last pointer to a definition goes away.
ReleaseDefinition(d) ==
  /\ d \in made /\ ~Registered(d) /\ derived[d] = {}
  /\ \A a \in Atts : def[a] # d
  /\ \A c \in made : base[c] # d
  /\ made' = made \ {d}
  /\ base' = [base EXCEPT ![d] = Nil]
  /\ UNCHANGED << definitions, derived, objVars, indexVars, call >>

-----------------------------------------------------------------------------
(* Attributes *)

\* A plausible bug: an attribute object without its id.
NewWithoutId(a, n, d, i) ==
  /\ ~Exists(a) /\ ~Indexed(a)
  /\ def' = [def EXCEPT ![a] = d]
  /\ name' = [name EXCEPT ![a] = n]
  /\ UNCHANGED id

\* Attribute::New(name, definition, id)
New(a, n, d, i) ==
  /\ ~Exists(a) /\ ~Indexed(a)
  /\ def' = [def EXCEPT ![a] = d]
  /\ name' = [name EXCEPT ![a] = n]
  /\ id' = [id EXCEPT ![a] = i]

Index(a, n, d, i) ==
  /\ byName' = [byName EXCEPT ![n] = a]
  /\ byId' = [byId EXCEPT ![i] = a]
  /\ clusters' = [clusters EXCEPT ![DefType[d]] = @ \cup {a}]

\* createAttribute(name, definition): refused for an abstract definition and a
\* name in use; a random id.
CreateAttribute(a, n, d) ==
  /\ UsableDef(d) /\ d \notin Abstract
  /\ byName[n] = Nil
  /\ \E i \in Ids :
       /\ \A b \in Atts : Exists(b) => id[b] # i
       /\ New(a, n, d, i)
       /\ Index(a, n, d, i)
  /\ call' = << "create", a >>
  /\ UNCHANGED defVars

\* createUniqueName(): the first free name of the series.
FirstFree(t, n) ==
  \E k \in DOMAIN Series[t] :
    /\ Series[t][k] = n /\ byName[n] = Nil
    /\ \A j \in 1 .. k - 1 : byName[Series[t][j]] # Nil

CreateUnique(a, d) ==
  \E n \in Names : FirstFree(DefType[d], n) /\ CreateAttribute(a, n, d)

\* createAttribute(name, definition, id), for readers, who look up the
\* definition and check that it is not abstract themselves.
ReadAttribute(a, n, d, i) ==
  /\ Registered(d) /\ d \notin Abstract
  /\ byName[n] = Nil
  /\ Careful => byId[i] = Nil
  /\ New(a, n, d, i)
  /\ Index(a, n, d, i)
  /\ call' = << "create", a >>
  /\ UNCHANGED defVars

\* removeAttribute(): for any attribute whose definition takes this collection
\* for its own; the entries go by name, id and type.
RemoveAttribute(a) ==
  /\ UsableAtt(a)
  /\ byName' = [byName EXCEPT ![name[a]] = Nil]
  /\ byId' = [byId EXCEPT ![id[a]] = Nil]
  /\ clusters' = [clusters EXCEPT ![TypeOf(a)] = @ \ {a}]
  /\ call' = << "remove", a >>
  /\ UNCHANGED << defVars, objVars >>

\* A plausible bug: the old name stays in the index.
RenameKeeping(a, n) ==
  /\ UsableAtt(a) /\ byName[n] = Nil
  /\ byName' = [byName EXCEPT ![n] = a]
  /\ name' = [name EXCEPT ![a] = n]
  /\ call' = << "rename", a >>
  /\ UNCHANGED << defVars, def, id, byId, clusters >>

\* rename(): refused for a name in use.
Rename(a, n) ==
  /\ UsableAtt(a) /\ byName[n] = Nil
  /\ byName' = [byName EXCEPT ![name[a]] = Nil, ![n] = a]
  /\ name' = [name EXCEPT ![a] = n]
  /\ call' = << "rename", a >>
  /\ UNCHANGED << defVars, def, id, byId, clusters >>

\* The last pointer to an attribute that no index holds goes away.
Release(a) ==
  /\ Exists(a) /\ ~Indexed(a)
  /\ def' = [def EXCEPT ![a] = Nil]
  /\ name' = [name EXCEPT ![a] = Nil]
  /\ id' = [id EXCEPT ![a] = Nil]
  /\ call' = << "release", a >>
  /\ UNCHANGED << defVars, indexVars >>

-----------------------------------------------------------------------------
(* Lookups *)

\* What a definition brings: the attributes of its type, unless it is abstract.
OwnAtts(d) == IF d \in Abstract THEN {} ELSE clusters[DefType[d]]

\* internalFindAttributes(): down the derivation tree, which is no deeper than
\* there are definitions.
Found[n \in 0 .. Cardinality(Defs)] ==
  [d \in Defs |->
     OwnAtts(d) \cup (IF n = 0 THEN {} ELSE UNION {Found[n-1][c] : c \in derived[d]})]

\* findAttributes(definition)
FindAttributes(d) == Found[Cardinality(Defs)][d]

\* Definition::isA(): up the chain of bases.
Climb[n \in 0 .. Cardinality(Defs)] ==
  [d \in Defs |-> {d} \cup (IF n = 0 \/ base[d] = Nil THEN {} ELSE Climb[n-1][base[d]])]

Bases == Climb[Cardinality(Defs)]

-----------------------------------------------------------------------------
Init ==
  /\ made = {} /\ base = [d \in Defs |-> Nil]
  /\ definitions = [t \in Types |-> Nil]
  /\ derived = [d \in Defs |-> {}]
  /\ def = [a \in Atts |-> Nil] /\ name = [a \in Atts |-> Nil] /\ id = [a \in Atts |-> Nil]
  /\ byName = [n \in Names |-> Nil] /\ byId = [i \in Ids |-> Nil]
  /\ clusters = [t \in Types |-> {}]
  /\ call = << "none", Nil >>

Next ==
  \/ \E d \in Defs, b \in Defs \cup {Nil} : CreateDefinition(d, b)
  \/ \E d \in Defs : RemoveDefinition(d) \/ ReleaseDefinition(d)
  \/ \E a \in Atts, n \in Names, d \in Defs : CreateAttribute(a, n, d)
  \/ \E a \in Atts, d \in Defs : CreateUnique(a, d)
  \/ \E a \in Atts, n \in Names, d \in Defs, i \in Ids : ReadAttribute(a, n, d, i)
  \/ \E a \in Atts : RemoveAttribute(a) \/ Release(a)
  \/ \E a \in Atts, n \in Names : Rename(a, n)

Spec == Init /\ [][Next]_vars

-----------------------------------------------------------------------------
(* Type invariant *)

TypeOK ==
  /\ made \subseteq Defs /\ base \in [Defs -> Defs \cup {Nil}]
  /\ definitions \in [Types -> made \cup {Nil}]
  /\ \A t \in Types : definitions[t] # Nil => DefType[definitions[t]] = t
  /\ derived \in [Defs -> SUBSET Defs]
  /\ def \in [Atts -> Defs \cup {Nil}]
  /\ name \in [Atts -> Names \cup {Nil}] /\ id \in [Atts -> Ids \cup {Nil}]
  /\ \A a \in Atts : Exists(a) => def[a] \in made /\ name[a] # Nil /\ id[a] # Nil
  /\ byName \in [Names -> Atts \cup {Nil}]
  /\ byId \in [Ids -> Atts \cup {Nil}]
  /\ clusters \in [Types -> SUBSET Atts]

-----------------------------------------------------------------------------
(* Safety, for careful clients *)

\* The three indices hold the same attributes, each under the key it carries.
IndicesAgree ==
  \A a \in Atts :
    /\ \A n \in Names : byName[n] = a => /\ Exists(a) /\ name[a] = n
                                         /\ byId[id[a]] = a /\ a \in clusters[TypeOf(a)]
    /\ \A i \in Ids : byId[i] = a => Exists(a) /\ id[a] = i /\ byName[name[a]] = a
    /\ \A t \in Types : a \in clusters[t] => Exists(a) /\ TypeOf(a) = t /\ byName[name[a]] = a

\* The derivation tree is closed: bases and derived definitions of what is in
\* the collection are in it, and each knows of the other.
TreeClosed ==
  \A d \in Defs :
    /\ Registered(d) /\ base[d] # Nil => Registered(base[d]) /\ d \in derived[base[d]]
    /\ \A c \in derived[d] : Registered(c) /\ base[c] = d

\* What findAttributes() gathers down the tree are the attributes of the
\* collection that are of that definition or of one derived from it.
FindsExactly ==
  \A d \in Defs : Registered(d) =>
    FindAttributes(d) = {a \in Atts : (\E n \in Names : byName[n] = a) /\ d \in Bases[def[a]]}
=============================================================================
