------------------------------ MODULE References ------------------------------
(***************************************************************************)
(* References between attributes (smtk::attribute::RefItem and             *)
(* smtk::attribute::Attribute).  An item has a vector of weak pointers to  *)
(* the attributes it refers to, and every attribute keeps, for each item   *)
(* that refers to it, the positions at which it does: m_references, by     *)
(* which the destructor of an attribute clears what refers to it, and by   *)
(* which the user interface lists it.                                      *)
(*                                                                         *)
(* Calls are operators on `now`, the two ends of all references, so that   *)
(* other modules can make them in their own steps.  Positions count from   *)
(* 1.  A weak pointer to an attribute that is gone equals a null one.      *)
(***************************************************************************)
EXTENDS Integers, Sequences, SequencesExt

CONSTANTS
  Attributes,   \* attributes
  Items,        \* RefItem objects
  Null,         \* no attribute
  Owner,        \* the attribute an item is made with, Null for items others make
  Required,     \* numberOfRequiredValues, 0 for an item of any size
  Fits,         \* the attributes of the definition an item refers to
  MaxLen,       \* bound on the values of an item
  Careless      \* do clients remove values before others, drop values that are
                \* set, or copy items whose first value only is not set?

ASSUME RefConstantsOK ==
  /\ Null \notin Attributes
  /\ Owner \in [Items -> Attributes \cup {Null}]
  /\ Required \in [Items -> Nat]
  /\ Fits \in [Items -> SUBSET Attributes]
  /\ MaxLen \in Nat
  /\ Careless \in BOOLEAN

VARIABLES
  alive,     \* the attributes there are
  exists,    \* the items there are
  values,    \* RefItem::m_values
  refs,      \* Attribute::m_references
  broken     \* has an assertion failed, or a pointer to nothing been followed?

refVars == << alive, exists, values, refs, broken >>

Now == [values |-> values, refs |-> refs, broken |-> broken]

Effect(now) == values' = now.values /\ refs' = now.refs /\ broken' = now.broken

Blank(n) == [p \in 1 .. n |-> Null]

-----------------------------------------------------------------------------
(* Calls of an item *)

\* Attribute::removeReference(item, position) on what a weak pointer locks to.
Forget(r, a, i, p) == IF a = Null THEN r ELSE [r EXCEPT ![a][i] = @ \ {p}]

\* Attribute::addReference(item, position).
Note(r, a, i, p) == [r EXCEPT ![a][i] = @ \cup {p}]

\* A plausible bug: the attribute that was there is not told.
SetValueOnly(now, i, p, a) ==
  IF a \in Fits[i]
  THEN [now EXCEPT !.values[i][p] = a, !.refs = Note(@, a, i, p)]
  ELSE now

SetValue(now, i, p, a) ==
  IF a \in Fits[i]
  THEN [now EXCEPT !.values[i][p] = a,
                   !.refs = Note(Forget(@, now.values[i][p], i, p), a, i, p)]
  ELSE now

\* A plausible bug: the position is taken before the value is there.
AppendBefore(now, i, a) ==
  IF Required[i] = 0 /\ a \in Fits[i]
  THEN [now EXCEPT !.values[i] = Append(@, a), !.refs = Note(@, a, i, Len(now.values[i]))]
  ELSE now

AppendValue(now, i, a) ==
  IF Required[i] = 0 /\ a \in Fits[i]
  THEN [now EXCEPT !.values[i] = Append(@, a), !.refs = Note(@, a, i, Len(now.values[i]) + 1)]
  ELSE now

\* The values behind the removed one move up, their attributes are not told.
RemoveValue(now, i, p) ==
  IF Required[i] = 0
  THEN [now EXCEPT !.values[i] = RemoveAt(@, p), !.refs = Forget(@, now.values[i][p], i, p)]
  ELSE now

Unset(now, i, p) ==
  [now EXCEPT !.values[i][p] = Null, !.refs = Forget(@, now.values[i][p], i, p)]

\* resize() of a vector of pointers
Resized(s, n) == [p \in 1 .. n |-> IF p <= Len(s) THEN s[p] ELSE Null]

\* setNumberOfValues compares the new size with the required number, which is
\* 0 by then: no attribute is told of a dropped value.
SetNumberOfValues(now, i, n) ==
  IF Required[i] = 0 THEN [now EXCEPT !.values[i] = Resized(@, n)] ELSE now

\* A plausible bug: the attributes are not told.
KeepAllReferences(now, i) == now

\* clearAllReferences
ClearAllReferences(now, i) ==
  [now EXCEPT !.refs =
     [a \in Attributes |-> IF a \in Range(now.values[i]) THEN [now.refs[a] EXCEPT ![i] = {}]
                                                         ELSE now.refs[a]]]

\* reset: an item of fixed size unsets its values one by one.
ResetItem(now, i) ==
  IF Required[i] = 0
  THEN [ClearAllReferences(now, i) EXCEPT !.values[i] = << >>]
  ELSE [now EXCEPT
          !.values[i] = Blank(Len(@)),
          !.refs = [a \in Attributes |->
                      [now.refs[a] EXCEPT ![i] = @ \ {p \in DOMAIN now.values[i] : now.values[i][p] = a}]]]

\* assign, with a source in the same collection, whose attributes are found by
\* name: each value that is set in the source is set to the FIRST value of the
\* source.
AssignItem(now, i, j) ==
  LET src == now.values[j]
      old == Resized(now.values[i], Len(src))
      set == {p \in DOMAIN src : src[p] # Null}
  IN  [now EXCEPT
         !.values[i] = [p \in DOMAIN src |-> IF p \in set THEN src[1] ELSE Null],
         !.refs = [a \in Attributes |->
                     [now.refs[a] EXCEPT ![i] = (@ \ {p \in DOMAIN src : old[p] = a})
                                           \cup {p \in set : src[1] = a}]],
         !.broken = @ \/ (set # {} /\ src[1] = Null)]

\* The item is built, or destroyed.
MakeItem(now, i)    == [now EXCEPT !.values[i] = Blank(Required[i])]
DestroyItem(now, i) == [ClearAllReferences(now, i) EXCEPT !.values[i] = << >>]

-----------------------------------------------------------------------------
(* The end of an attribute *)

\* Weak pointers to the attribute expire before its destructor runs.
Expired(now, a) ==
  [now EXCEPT !.values =
     [i \in Items |-> [p \in DOMAIN @[i] |-> IF @[i][p] = a THEN Null ELSE @[i][p]]]]

\* A plausible bug: every value of an item that refers to it is unset.
UnsetAllOf(now, a) ==
  LET hit(i) == now.refs[a][i] # {}
  IN  [now EXCEPT
         !.values = [i \in Items |-> IF hit(i) THEN Blank(Len(now.values[i])) ELSE now.values[i]],
         !.refs = [b \in Attributes |-> [i \in Items |->
                     IF b = a \/ hit(i) THEN {} ELSE now.refs[b][i]]]]

\* The loop of ~Attribute over m_references: RefItem::unset at each position,
\* which only has an effect on the values of others.
UnsetAll(now, a) ==
  LET hit(i, p) == p \in now.refs[a][i] /\ now.values[i][p] # Null
  IN  [now EXCEPT
         !.values = [i \in Items |-> [p \in DOMAIN @[i] |-> IF hit(i, p) THEN Null ELSE @[i][p]]],
         !.refs   = [b \in Attributes |-> [i \in Items |->
                       IF b = a THEN {}
                       ELSE @[b][i] \ {p \in DOMAIN now.values[i] :
                                         hit(i, p) /\ now.values[i][p] = b}]],
         !.broken = \/ @
                    \/ \E i \in Items : \E p \in now.refs[a][i] :
                         i \notin exists \/ p \notin DOMAIN now.values[i]]

\* Then its own items go, with the references they make.
DestroyItems(now, gone) ==
  [now EXCEPT
     !.values = [i \in Items |-> IF i \in gone THEN << >> ELSE @[i]],
     !.refs   = [b \in Attributes |-> [i \in Items |->
                   IF i \in gone /\ b \in Range(now.values[i]) THEN {} ELSE @[b][i]]]]

Destroyed(now, a, gone) == DestroyItems(UnsetAll(Expired(now, a), a), gone)

-----------------------------------------------------------------------------
(* The calls of clients *)

Call(now) == Effect(now) /\ UNCHANGED << alive, exists >>

Owned(a) == {i \in Items : Owner[i] = a}

BuildAttribute(a) ==
  /\ a \notin alive
  /\ alive' = alive \cup {a}
  /\ exists' = exists \cup Owned(a)
  /\ values' = [i \in Items |-> IF i \in Owned(a) THEN Blank(Required[i]) ELSE values[i]]
  /\ UNCHANGED << refs, broken >>

\* The last pointer to an attribute goes, and with it the items in gone.
Destroy(a, gone) ==
  /\ a \in alive
  /\ Effect(Destroyed(Now, a, gone))
  /\ alive' = alive \ {a}
  /\ exists' = exists \ gone

DestroyAttribute(a) == Destroy(a, Owned(a))

Set(i, p, a) == Call(SetValue(Now, i, p, a))

Add(i, a) == Len(values[i]) < MaxLen /\ Call(AppendValue(Now, i, a))

\* What careful clients ask of the items: see Careless.
DropsNothing(i, n) == \A p \in n + 1 .. Len(values[i]) : values[i][p] = Null

TakeOut(i, p) ==
  /\ ~Careless => p = Len(values[i])
  /\ Call(RemoveValue(Now, i, p))

Resize(i, n) ==
  /\ ~Careless => DropsNothing(i, n)
  /\ Call(SetNumberOfValues(Now, i, n))

Clear(i, p) == Call(Unset(Now, i, p))

Reset(i) == Call(ResetItem(Now, i))

\* Items of the same definition.
Assign(i, j) ==
  /\ i # j /\ Required[i] = Required[j] /\ Fits[i] = Fits[j]
  /\ ~Careless => /\ DropsNothing(i, Len(values[j]))
                  /\ \A p \in DOMAIN values[j] : values[j][p] # Null => values[j][1] # Null
  /\ Call(AssignItem(Now, i, j))

\* An item that is part of another one (a group) is made or given up.
Make(i) ==
  /\ i \notin exists
  /\ exists' = exists \cup {i}
  /\ Effect(MakeItem(Now, i))
  /\ UNCHANGED alive

Drop(i) ==
  /\ exists' = exists \ {i}
  /\ Effect(DestroyItem(Now, i))
  /\ UNCHANGED alive

RefInit ==
  /\ alive = {} /\ exists = {}
  /\ values = [i \in Items |-> << >>]
  /\ refs = [a \in Attributes |-> [i \in Items |-> {}]]
  /\ broken = FALSE

\* The calls on one item that clients can reach.
OnItem(i) ==
  \/ \E a \in alive : Add(i, a) \/ (\E p \in DOMAIN values[i] : Set(i, p, a))
  \/ \E p \in DOMAIN values[i] : Clear(i, p) \/ TakeOut(i, p)
  \/ \E n \in 0 .. MaxLen : Resize(i, n)
  \/ Reset(i)
  \/ \E j \in exists : Assign(i, j)

RefNext ==
  /\ ~broken
  /\ \/ \E a \in Attributes : BuildAttribute(a) \/ DestroyAttribute(a)
     \/ \E i \in Items : Owner[i] = Null /\ Make(i)
     \/ \E i \in exists : OnItem(i) \/ (Owner[i] = Null /\ Drop(i))

RefSpec == RefInit /\ [][RefNext]_refVars

-----------------------------------------------------------------------------
(* Properties *)

RefTypeOK ==
  /\ alive \subseteq Attributes /\ exists \subseteq Items
  /\ values \in [Items -> Seq(Attributes \cup {Null})]
  /\ refs \in [Attributes -> [Items -> SUBSET (Nat \ {0})]]
  /\ broken \in BOOLEAN

\* An attribute is listed by an item at a position (RefItem::value) exactly if
\* the item is listed by the attribute with that position
\* (Attribute::references, ~Attribute); nothing refers to what is gone.
EndsAgree ==
  \A a \in Attributes, i \in Items :
    refs[a][i] = {p \in DOMAIN values[i] : values[i][p] = a}

\* "assert(this->m_values.size() > element)" in RefItem::unset holds when a
\* destructor calls it, and it is called on items that are there.
AssertionsHold == ~broken

\* Destroying an attribute takes no reference to another attribute away from
\* an item that stays.
DestructionIsLocal ==
  [][\A i \in exists \cap exists' :
       alive' \subseteq alive /\ alive' # alive =>
         \A p \in DOMAIN values[i] :
           values[i][p] \in alive' => p \in DOMAIN values'[i] /\ values'[i][p] = values[i][p]]_refVars
=============================================================================
