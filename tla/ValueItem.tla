------------------------------ MODULE ValueItem -------------------------------
(***************************************************************************)
(* Items that hold values (smtk::attribute::ValueItem and the template the *)
(* items of integers, reals and strings are made from).  An element of     *)
(* such an item is a value, an expression (another attribute) or not set,  *)
(* and is kept in up to four parallel vectors: values, flags, indices of   *)
(* discrete values, and one RefItem for the expression of each element.    *)
(* The module composes these with the references of module References.     *)
(*                                                                         *)
(* Calls are operators on `now`: the state of References, the vectors, and *)
(* `ok`, the answer.                                                       *)
(***************************************************************************)
EXTENDS References, FiniteSets

CONSTANTS
  ValueItems,   \* items of values
  Holder,       \* the attribute each is part of
  Pool,         \* RefItems that expressions are made from
  Data,         \* values
  None,         \* what a vector is filled with without a default; index -1
  NotSet,       \* an element that is not set
  Valid,        \* the values the definition admits, or enumerates if discrete
  Discrete,     \* is the item discrete?
  Allows,       \* does it allow expressions?
  Default,      \* its default value or None
  Extensible, AtLeast, AtMost   \* its size; AtMost = 0 is no limit

\* A discrete item knows its values by index; here the index is the value.
\* No definition is discrete and allows expressions (appendExpression extends
\* no index).
ASSUME ValueConstantsOK ==
  /\ Holder \in [ValueItems -> Attributes]
  /\ Null \notin ValueItems
  /\ Pool \subseteq Items
  /\ \A x \in Pool : Required[x] = 1 /\ Owner[x] = Null
  /\ None \notin Data /\ NotSet \notin Data \cup {None} \cup Attributes
  /\ Attributes \cap (Data \cup {None}) = {}
  /\ Valid \in [ValueItems -> SUBSET Data]
  /\ Discrete \in [ValueItems -> BOOLEAN] /\ Allows \in [ValueItems -> BOOLEAN]
  /\ Extensible \in [ValueItems -> BOOLEAN]
  /\ AtLeast \in [ValueItems -> Nat] /\ AtMost \in [ValueItems -> Nat]
  /\ \A v \in ValueItems :
       /\ Default[v] \in Valid[v] \cup {None}
       /\ ~(Discrete[v] /\ Allows[v])
       /\ AtMost[v] = 0 \/ AtLeast[v] <= AtMost[v]

\* The bound on the size of an item lets it have what its definition asks for,
\* and the program is never out of RefItems.
ASSUME PoolSuffices ==
  /\ IsFiniteSet(ValueItems) /\ IsFiniteSet(Pool)
  /\ \A v \in ValueItems : AtLeast[v] <= MaxLen
  /\ MaxLen * Cardinality({v \in ValueItems : Allows[v]}) <= Cardinality(Pool)

VARIABLES
  data,     \* ValueItemTemplate::m_values
  isSet,    \* m_isSet
  index,    \* m_discreteIndices
  exprs,    \* m_expressions
  active,   \* the discrete value whose children items are active
  lastCall  \* the call that just returned

valueVars == << data, isSet, index, exprs, active >>
itemVars == << refVars, valueVars, lastCall >>

All == [values |-> values, refs |-> refs, broken |-> broken, exists |-> exists,
         data |-> data, isSet |-> isSet, index |-> index, exprs |-> exprs, active |-> active,
         ok |-> FALSE]

Size(now, v) == Len(now.isSet[v])

Answer(now, b) == [now EXCEPT !.ok = b]

-----------------------------------------------------------------------------
(* Expressions *)

\* buildExpressionItem for n more elements
BuildExpressions(now, v, n) ==
  LET fresh == CHOOSE f \in [1 .. n -> Pool \ now.exists] : IsInjective(f)
  IN  IF Allows[v]
      THEN [now EXCEPT !.exprs[v] = @ \o fresh,
                       !.exists   = @ \cup Range(fresh),
                       !.values   = [i \in Items |-> IF i \in Range(fresh) THEN Blank(1) ELSE @[i]]]
      ELSE now

\* A plausible bug: the RefItems that are not kept stay.
LeaveExpressions(now, v, kept) == [now EXCEPT !.exprs[v] = kept]

\* The RefItems that are not kept are destroyed.
DropExpressions(now, v, kept) ==
  LET gone == Range(now.exprs[v]) \ Range(kept)
  IN  [DestroyItems(now, gone) EXCEPT !.exprs[v] = kept, !.exists = @ \ gone]

UnsetExpression(now, v, e) == IF Allows[v] THEN Unset(now, now.exprs[v][e], 1) ELSE now

-----------------------------------------------------------------------------
(* The size of an item *)

HasDefault(v) == Default[v] # None

Filled(s, n, x) == IF n <= Len(s) THEN SubSeq(s, 1, n) ELSE s \o [e \in 1 .. n - Len(s) |-> x]

\* The vectors resized to n elements, new ones filled from the definition.
Resized4(now, v, n) ==
  LET sized == [now EXCEPT !.data[v]  = Filled(@, n, Default[v]),
                           !.isSet[v] = Filled(@, n, HasDefault(v)),
                           !.index[v] = IF Discrete[v] THEN Filled(@, n, Default[v]) ELSE @]
      more  == n - Size(now, v)
  IN  IF more >= 0 THEN BuildExpressions(sized, v, more)
      ELSE IF Allows[v] THEN DropExpressions(sized, v, SubSeq(now.exprs[v], 1, n))
      ELSE sized

WithinLimits(v, n) == n >= AtLeast[v] /\ (AtMost[v] = 0 \/ n <= AtMost[v])

SetSize(now, v, n) ==
  IF n = Size(now, v) THEN Answer(now, TRUE)
  ELSE IF ~Extensible[v] \/ ~WithinLimits(v, n) THEN Answer(now, FALSE)
  ELSE Answer(Resized4(now, v, n), TRUE)

HasRoom(now, v) == Extensible[v] /\ (AtMost[v] = 0 \/ Size(now, v) < AtMost[v])

\* A plausible bug: the RefItem for the expression is left out.
PushValueAlone(now, v, d) ==
  IF HasRoom(now, v) /\ d \in Valid[v]
  THEN Answer([now EXCEPT !.data[v] = Append(@, d), !.isSet[v] = Append(@, TRUE),
                          !.index[v] = IF Discrete[v] THEN Append(@, d) ELSE @], TRUE)
  ELSE Answer(now, FALSE)

\* appendValue
PushValue(now, v, d) ==
  IF HasRoom(now, v) /\ d \in Valid[v]
  THEN Answer([BuildExpressions(now, v, 1) EXCEPT
                 !.data[v] = Append(@, d), !.isSet[v] = Append(@, TRUE),
                 !.index[v] = IF Discrete[v] THEN Append(@, d) ELSE @], TRUE)
  ELSE Answer(now, FALSE)

IsExpression(v, a) == Allows[v] /\ \A x \in Pool : a \in Fits[x]

\* appendExpression
PushExpression(now, v, a) ==
  IF HasRoom(now, v) /\ IsExpression(v, a)
  THEN LET built == BuildExpressions(now, v, 1)
           set   == SetValue(built, Last(built.exprs[v]), 1, a)
       IN  Answer([set EXCEPT !.isSet[v] = Append(@, TRUE), !.data[v] = Append(@, None)], TRUE)
  ELSE Answer(now, FALSE)

\* removeValue
TakeElement(now, v, e) ==
  IF Extensible[v] /\ Size(now, v) > AtLeast[v]
  THEN LET kept == IF Allows[v] THEN DropExpressions(now, v, RemoveAt(now.exprs[v], e)) ELSE now
       IN  Answer([kept EXCEPT !.data[v] = RemoveAt(@, e), !.isSet[v] = RemoveAt(@, e),
                               !.index[v] = IF Discrete[v] THEN RemoveAt(@, e) ELSE @], TRUE)
  ELSE Answer(now, FALSE)

-----------------------------------------------------------------------------
(* One element *)

\* updateActiveChildrenItems looks at the first element.
UpdateChildren(now, v) == [now EXCEPT !.active[v] = now.index[v][1]]

\* A plausible bug: the children items are left as they are.
PutIndexQuietly(now, v, e, k) ==
  IF ~Discrete[v] \/ k \notin Valid[v] THEN Answer(now, FALSE)
  ELSE Answer([now EXCEPT !.index[v][e] = k, !.isSet[v][e] = TRUE, !.data[v][e] = k], TRUE)

\* setDiscreteIndex
PutIndex(now, v, e, k) ==
  IF ~Discrete[v] \/ k \notin Valid[v] THEN Answer(now, FALSE)
  ELSE IF now.isSet[v][e] /\ now.index[v][e] = k THEN Answer(now, TRUE)
  ELSE Answer(UpdateChildren([now EXCEPT !.index[v][e] = k, !.isSet[v][e] = TRUE,
                                         !.data[v][e] = k], v), TRUE)

\* setValue.  For a discrete item a value that has the current index, or none
\* like an element that never had one, is taken for set.
PutDiscrete(now, v, e, d) ==
  LET k == IF d \in Valid[v] THEN d ELSE None
      put == [now EXCEPT !.index[v][e] = k, !.data[v][e] = d, !.isSet[v][e] = TRUE]
  IN  IF k = now.index[v][e] THEN Answer(now, TRUE)
      ELSE IF k = None THEN Answer(now, FALSE)
      ELSE Answer(IF e = 1 THEN UpdateChildren(put, v) ELSE put, TRUE)

\* A plausible bug: the expression stays.
PutValueOver(now, v, e, d) ==
  IF Discrete[v] THEN PutDiscrete(now, v, e, d)
  ELSE IF d \in Valid[v] THEN Answer([now EXCEPT !.data[v][e] = d, !.isSet[v][e] = TRUE], TRUE)
  ELSE Answer(now, FALSE)

PutValue(now, v, e, d) ==
  IF Discrete[v] THEN PutDiscrete(now, v, e, d)
  ELSE IF d \in Valid[v]
  THEN Answer(UnsetExpression([now EXCEPT !.data[v][e] = d, !.isSet[v][e] = TRUE], v, e), TRUE)
  ELSE Answer(now, FALSE)

\* setExpression
PutExpression(now, v, e, a) ==
  CASE a = Null /\ Allows[v] ->
         IF now.values[now.exprs[v][e]][1] = Null THEN Answer(now, TRUE)
         ELSE Answer(UnsetExpression([now EXCEPT !.isSet[v][e] = FALSE], v, e), TRUE)
    [] a # Null /\ IsExpression(v, a) ->
         Answer(SetValue([now EXCEPT !.isSet[v][e] = TRUE], now.exprs[v][e], 1, a), TRUE)
    [] OTHER -> Answer(now, FALSE)

\* unset: neither the index nor the expression is touched.
UnsetElement(now, v, e) == [now EXCEPT !.isSet[v][e] = FALSE]

-----------------------------------------------------------------------------
(* All elements *)

Each(now, v, Step(_, _)) == FoldLeft(Step, now, [e \in 1 .. Size(now, v) |-> e])

\* reset
ResetValues(now, v) ==
  LET sized == SetSize(now, v, AtLeast[v])
      clear == Each(sized, v, LAMBDA s, e : UnsetExpression(s, v, e))
      put(s, e) == IF Discrete[v] THEN PutIndex(s, v, e, Default[v]) ELSE PutValue(s, v, e, Default[v])
  IN  IF HasDefault(v) THEN Each(clear, v, put)
                       ELSE Each(clear, v, LAMBDA s, e : UnsetElement(s, v, e))

\* What an element is for clients: isSet, isExpression and value.
Element(now, v, e) ==
  LET attr == IF Allows[v] THEN now.values[now.exprs[v][e]][1] ELSE Null
  IN  IF ~now.isSet[v][e] THEN NotSet ELSE IF attr # Null THEN attr ELSE now.data[v][e]

Shown(now, v) == [e \in 1 .. Size(now, v) |-> Element(now, v, e)]

\* assign, first ValueItem::assign and then that of the template, with a source
\* of the same definition in the same collection.
AssignValues(now, v, w) ==
  LET src == Shown(now, w)
      rough(s, e) == IF src[e] = NotSet THEN UnsetElement(s, v, e)
                     ELSE IF src[e] \in Attributes THEN PutExpression(s, v, e, src[e])
                     ELSE IF Discrete[v] THEN PutIndex(s, v, e, now.index[w][e])
                     ELSE s
      fine(s, e)  == IF src[e] \in Data \cup {None} /\ ~Discrete[v] THEN PutValue(s, v, e, src[e]) ELSE s
  IN  Answer(Each(Each(SetSize(now, v, Len(src)), v, rough), v, fine), TRUE)

-----------------------------------------------------------------------------
(* The calls of clients *)

\* A call on item v: what it did, and what it answered.
Did(op, v, e, arg, now) ==
  /\ values' = now.values /\ refs' = now.refs /\ broken' = now.broken /\ exists' = now.exists
  /\ data' = now.data /\ isSet' = now.isSet /\ index' = now.index
  /\ exprs' = now.exprs /\ active' = now.active
  /\ lastCall' = [op |-> op, item |-> v, elem |-> e, arg |-> arg, ok |-> now.ok]

Other == [op |-> "other", item |-> Null, elem |-> 0, arg |-> Null, ok |-> TRUE]

Definition(v) ==
  << Valid[v], Discrete[v], Allows[v], Default[v], Extensible[v], AtLeast[v], AtMost[v] >>

SizedItems == {v \in ValueItems : Holder[v] \in alive}

OnElement(v, e) ==
  /\ UNCHANGED alive
  /\ \/ \E d \in Data : (Discrete[v] => Careless) /\ Did("put", v, e, d, PutValue(All, v, e, d))
     \/ \E d \in Data : Discrete[v] /\ Did("put", v, e, d, PutIndex(All, v, e, d))
     \/ \E a \in alive \cup {Null} : Did("express", v, e, a, PutExpression(All, v, e, a))
     \/ Did("unset", v, e, Null, Answer(UnsetElement(All, v, e), TRUE))
     \/ Did("take", v, e, Null, TakeElement(All, v, e))

OnValues(v) ==
  /\ UNCHANGED alive
  /\ \/ \E d \in Data : Len(isSet[v]) < MaxLen /\ Did("push", v, 0, d, PushValue(All, v, d))
     \/ \E a \in alive : Len(isSet[v]) < MaxLen /\ Did("push", v, 0, a, PushExpression(All, v, a))
     \/ \E n \in 0 .. MaxLen : Did("resize", v, 0, n, SetSize(All, v, n))
     \/ Did("reset", v, 0, Null, ResetValues(All, v))
     \/ \E w \in SizedItems \ {v} :
          /\ Definition(v) = Definition(w)
          /\ Did("assign", v, 0, w, AssignValues(All, v, w))

\* An attribute comes with its items: setDefinition sizes them.
Build(now, v) ==
  LET sized == Resized4(now, v, AtLeast[v])
  IN  IF Discrete[v] /\ AtLeast[v] > 0 THEN UpdateChildren(sized, v) ELSE sized

BuildHolder(a) ==
  LET made == [All EXCEPT !.exists = @ \cup Owned(a),
                          !.values = [i \in Items |-> IF i \in Owned(a) THEN Blank(Required[i]) ELSE @[i]]]
  IN  /\ a \notin alive
      /\ alive' = alive \cup {a}
      /\ Did("other", Null, 0, Null,
             Answer(FoldSet(LAMBDA v, s : Build(s, v), made, {v \in ValueItems : Holder[v] = a}), TRUE))

\* Its items go with it, and their RefItems with them.
DestroyHolder(a) ==
  LET mine == {v \in ValueItems : Holder[v] = a}
      gone == Owned(a) \cup UNION {Range(exprs[v]) : v \in mine}
      empty(f) == [v \in ValueItems |-> IF v \in mine THEN << >> ELSE f[v]]
  IN  /\ Destroy(a, gone)
      /\ data' = empty(data) /\ isSet' = empty(isSet) /\ index' = empty(index)
      /\ exprs' = empty(exprs)
      /\ active' = [v \in ValueItems |-> IF v \in mine THEN None ELSE active[v]]
      /\ lastCall' = Other

ValueInit ==
  /\ RefInit
  /\ data = [v \in ValueItems |-> << >>] /\ isSet = [v \in ValueItems |-> << >>]
  /\ index = [v \in ValueItems |-> << >>] /\ exprs = [v \in ValueItems |-> << >>]
  /\ active = [v \in ValueItems |-> None]
  /\ lastCall = Other

ValueNext ==
  /\ ~broken
  /\ \/ \E a \in Attributes : BuildHolder(a) \/ DestroyHolder(a)
     \/ \E v \in SizedItems : OnValues(v) \/ (\E e \in DOMAIN isSet[v] : OnElement(v, e))

ValueSpec == ValueInit /\ [][ValueNext]_itemVars

-----------------------------------------------------------------------------
(* Properties *)

\* The vectors of an item are as long as each other, those it has no use for
\* are empty, and as long as its definition allows: the asserts in setValue,
\* setExpression, expression and isValid.
VectorsAgree ==
  \A v \in SizedItems :
    LET n == Len(isSet[v])
    IN  /\ Len(data[v]) = n
        /\ Len(index[v]) = IF Discrete[v] THEN n ELSE 0
        /\ Len(exprs[v]) = IF Allows[v] THEN n ELSE 0
        /\ IF Extensible[v] THEN WithinLimits(v, n) ELSE n = AtLeast[v]

ValueTypeOK ==
  /\ RefTypeOK
  /\ data \in [ValueItems -> Seq(Data \cup {None})] /\ isSet \in [ValueItems -> Seq(BOOLEAN)]
  /\ index \in [ValueItems -> Seq(Data \cup {None})] /\ exprs \in [ValueItems -> Seq(Pool)]
  /\ active \in [ValueItems -> Data \cup {None}]
  /\ VectorsAgree

\* Every element has a RefItem of its own, and RefItems that no element has any
\* more are gone.
ExpressionsOwned ==
  /\ \A v, w \in ValueItems : \A e \in DOMAIN exprs[v], f \in DOMAIN exprs[w] :
       exprs[v][e] = exprs[w][f] => v = w /\ e = f
  /\ UNION {Range(exprs[v]) : v \in ValueItems} = exists \cap Pool

\* The children items of a discrete item of fixed size are those of the value
\* it has, or had before it was unset.
ChildrenFollow ==
  \A v \in SizedItems :
    Discrete[v] /\ ~Extensible[v] /\ AtLeast[v] > 0 => active[v] = index[v][1]

\* A sequence of elements as clients see it changes as they asked for if the
\* answer is yes and not at all if it is no; no other element changes, except
\* that one whose expression is destroyed becomes a value.
Asked(v) ==
  LET s == Shown(All, v)
      fill == IF HasDefault(v) THEN Default[v] ELSE NotSet
      e == lastCall'.elem
      x == lastCall'.arg
  IN  CASE lastCall'.op = "put"     -> [s EXCEPT ![e] = x]
        [] lastCall'.op = "express" -> [s EXCEPT ![e] = IF x # Null THEN x
                                                    ELSE IF @ \in Attributes THEN NotSet ELSE @]
        [] lastCall'.op = "unset"   -> [s EXCEPT ![e] = NotSet]
        [] lastCall'.op = "take"    -> RemoveAt(s, e)
        [] lastCall'.op = "push"    -> Append(s, x)
        [] lastCall'.op = "resize"  -> Filled(s, x, fill)
        [] lastCall'.op = "reset"   -> [f \in 1 .. AtLeast[v] |-> fill]
        [] lastCall'.op = "assign"  -> Shown(All, x)

\* A source with an element that is the rest of an expression appended to it
\* and destroyed since, which may not be a value for its definition.
FromNothing ==
  lastCall'.op = "assign" /\ \E e \in DOMAIN isSet[lastCall'.arg] : Element(All, lastCall'.arg, e) = None

AnswersTrue ==
  [][\A v \in SizedItems :
       Holder[v] \in alive' /\ ~FromNothing =>
         Shown(All, v)' = IF lastCall'.item = v /\ lastCall'.ok THEN Asked(v)
                          ELSE [e \in DOMAIN isSet[v] |->
                                  IF Element(All, v, e) \in alive \ alive' THEN data[v][e]
                                                                           ELSE Element(All, v, e)]]_itemVars
=============================================================================
