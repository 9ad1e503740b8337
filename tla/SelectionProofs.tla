---------------------------- MODULE SelectionProofs ----------------------------
(***************************************************************************)
(* What listeners of the selection are told, and that the panel shows what *)
(* is selected, for any number of components, filters and listeners: by    *)
(* what each change is, what a loop still owes to whom, and an induction   *)
(* over the components a change goes through.                              *)
(***************************************************************************)
EXTENDS Selection, FiniteSetTheorems, SequenceTheorems, Inductions

-----------------------------------------------------------------------------
(* The inductive invariant                                                   *)

Maps       == [Components -> Values \cup {0}]
Changes    == [sel : Maps, mod : BOOLEAN]
Hearings   == [sel : Maps, called : BOOLEAN]
Sources    == {Panel, Paraview, "manager"}
LoopFrames == [source : Sources, at : -1 .. MaxHandle]

\* A change that is not noted is none.
Noted(s, sel) == s \in Changes /\ (~s.mod => s.sel = sel)

StateTyped ==
  /\ selection \in Maps
  /\ filter \in Filters /\ mode \in Actions
  /\ rows \subseteq Rows
  /\ told \in [Listeners -> Hearings]

\* A listener has one handle, a handle one listener, and the panel stays.
ListenersGood ==
  /\ listeners \subseteq (0 .. MaxHandle) \X Listeners
  /\ << 1, Panel >> \in listeners
  /\ \A k, l \in listeners : k[1] = l[1] \/ k[2] = l[2] => k = l

\* The last loop still has this handle before it.
Awaits(handle, stack) == stack # << >> /\ handle > Last(stack).at

\* Whoever was called last with another selection than that of now, or was not
\* called and joined another, will be called by the last loop.
HearsInTime(who, heard, sel, stack) ==
  \A l \in who : heard[l[2]].sel = sel \/ Awaits(l[1], stack)

\* If the rows are not those of the selection, the panel will be called by a loop
\* that it did not begin itself.
MirrorsInTime(shown, sel, stack) ==
  shown = Selected(sel) \cap Rows \/ (Awaits(1, stack) /\ Last(stack).source # Panel)

SelectionInv ==
  /\ StateTyped
  /\ ListenersGood
  /\ loops \in Seq(LoopFrames)
  /\ HearsInTime(listeners, told, selection, loops)
  /\ MirrorsInTime(rows, selection, loops)

-----------------------------------------------------------------------------
(* One change                                                                *)

LEMMA PutAllNoted ==
  ASSUME NEW sel \in Maps, NEW s, Noted(s, sel), NEW new,
         \A c \in DOMAIN new : c \in Components => new[c] \in Values \cup {0}
  PROVE  /\ Noted(PutAll(s, new), sel)
         /\ \A c \in Components : PutAll(s, new).sel[c] = IF c \in DOMAIN new THEN new[c] ELSE s.sel[c]
<1> DEFINE put == [c \in Components |-> IF c \in DOMAIN new THEN new[c] ELSE s.sel[c]]
<1>1. s.sel \in Maps /\ s.mod \in BOOLEAN /\ (~s.mod => s.sel = sel)
  BY DEF Noted, Changes
<1>2. put \in Maps
  BY <1>1 DEF Maps
<1>3. PutAll(s, new) = [sel |-> put, mod |-> s.mod \/ put # s.sel]
  BY DEF PutAll
<1>4. (s.mod \/ put # s.sel) \in BOOLEAN
  OBVIOUS
<1>5. \A c \in Components : put[c] = IF c \in DOMAIN new THEN new[c] ELSE s.sel[c]
  OBVIOUS
<1> HIDE DEF put
<1>6. PutAll(s, new).sel = put /\ PutAll(s, new).mod = (s.mod \/ put # s.sel)
  BY <1>3
<1>7. PutAll(s, new) \in Changes
  BY <1>2, <1>3, <1>4 DEF Changes
<1>8. QED
  BY <1>1, <1>5, <1>6, <1>7 DEF Noted

\* What a filter suggests, as entries.
LEMMA SuggestionsAre ==
  ASSUME filter \in Filters, NEW c \in Components, NEW v
  PROVE  LET f == Filter[filter][c]
         IN  /\ f.takes \in BOOLEAN /\ f.adds \subseteq Components /\ f.drops \subseteq Components
             /\ DOMAIN Suggestions(c, v) = f.adds \cup f.drops
             /\ \A d \in f.adds \cup f.drops : Suggestions(c, v)[d] = IF d \in f.adds THEN v ELSE 0
<1>1. Filter[filter] \in [Components ->
         [takes : BOOLEAN, adds : SUBSET Components, drops : SUBSET Components]]
  BY SelectionConstantsOK
<1>2. Filter[filter][c] \in [takes : BOOLEAN, adds : SUBSET Components, drops : SUBSET Components]
  BY <1>1
<1>3. QED
  BY <1>2 DEF Suggestions

\* performAction, by what it makes of each component.
LEMMA PerformActionExact ==
  ASSUME filter \in Filters, NEW sel \in Maps, NEW s, Noted(s, sel),
         NEW c \in Components, NEW v \in Values, NEW action \in Actions
  PROVE  LET f     == Filter[filter][c]
             takes == f.takes \/ ~action.filtered
             adds  == IF action.filtered THEN f.adds ELSE {}
             drops == IF action.filtered THEN f.drops ELSE {}
             done  == PerformAction(s, c, v, action)
         IN  /\ Noted(done, sel)
             /\ \A d \in Components :
                  done.sel[d] =
                    IF action.kind = "subtract" /\ takes
                    THEN IF d = c \/ d \in drops THEN 0 ELSE s.sel[d]
                    ELSE IF d \in adds THEN v
                    ELSE IF d \in drops THEN 0
                    ELSE IF d = c /\ takes THEN v ELSE s.sel[d]
<1> DEFINE f     == Filter[filter][c]
           takes == f.takes \/ ~action.filtered
           adds  == IF action.filtered THEN f.adds ELSE {}
           drops == IF action.filtered THEN f.drops ELSE {}
           done  == PerformAction(s, c, v, action)
           hints == IF action.filtered THEN Suggestions(c, v) ELSE << >>
           none  == [d \in {c} \cup (IF action.filtered THEN f.drops ELSE {}) |-> 0]
           one   == [d \in {c} |-> v]
<1> SUFFICES /\ Noted(done, sel)
             /\ \A d \in Components :
                  done.sel[d] =
                    IF action.kind = "subtract" /\ takes
                    THEN IF d = c \/ d \in drops THEN 0 ELSE s.sel[d]
                    ELSE IF d \in adds THEN v
                    ELSE IF d \in drops THEN 0
                    ELSE IF d = c /\ takes THEN v ELSE s.sel[d]
  OBVIOUS
<1>1. /\ f.takes \in BOOLEAN /\ f.adds \subseteq Components /\ f.drops \subseteq Components
      /\ action.filtered \in BOOLEAN
  BY SuggestionsAre DEF Actions
<1>2. /\ DOMAIN hints = adds \cup drops
      /\ \A d \in adds \cup drops : hints[d] = IF d \in adds THEN v ELSE 0
  <2>1. CASE action.filtered
    BY <2>1, SuggestionsAre
  <2>2. CASE ~action.filtered
    BY <2>2
  <2>3. QED
    BY <2>1, <2>2
<1>3. done = IF ~takes THEN PutAll(s, hints)
             ELSE IF action.kind = "subtract" THEN PutAll(s, none)
             ELSE PutAll(PutAll(s, one), hints)
  BY <1>1 DEF PerformAction
<1>4. DOMAIN none = {c} \cup drops /\ \A d \in {c} \cup drops : none[d] = 0
  OBVIOUS
<1>5. DOMAIN one = {c} /\ one[c] = v
  OBVIOUS
<1>6. \A d \in DOMAIN hints : hints[d] \in Values \cup {0}
  BY <1>2
<1> HIDE DEF hints, none, one, takes, adds, drops, done, f
<1>7. CASE ~takes
  <2>1. done = PutAll(s, hints)
    BY <1>3, <1>7
  <2>2. QED
    BY <1>2, <1>6, <1>7, <2>1, PutAllNoted
<1>8. CASE takes /\ action.kind = "subtract"
  <2>1. done = PutAll(s, none)
    BY <1>3, <1>8
  <2>2. \A d \in DOMAIN none : none[d] \in Values \cup {0}
    BY <1>4
  <2>3. QED
    BY <1>4, <1>8, <2>1, <2>2, PutAllNoted
<1>9. CASE takes /\ action.kind # "subtract"
  <2>1. done = PutAll(PutAll(s, one), hints)
    BY <1>3, <1>9
  <2>2. /\ Noted(PutAll(s, one), sel)
        /\ \A d \in Components : PutAll(s, one).sel[d] = IF d = c THEN v ELSE s.sel[d]
    BY <1>5, PutAllNoted
  <2>3. /\ Noted(done, sel)
        /\ \A d \in Components :
             done.sel[d] = IF d \in DOMAIN hints THEN hints[d] ELSE PutAll(s, one).sel[d]
    BY <1>6, <2>1, <2>2, PutAllNoted
  <2>4. QED
    BY <1>2, <1>9, <2>2, <2>3
<1>10. QED
  BY <1>7, <1>8, <1>9

-----------------------------------------------------------------------------
(* All changes of a call                                                     *)

\* SetToSeqs lists each element of a set.
LEMMA OrderLists ==
  ASSUME NEW S \in SUBSET Components, NEW order \in SetToSeqs(S)
  PROVE  \E n \in Nat : /\ order \in [1 .. n -> S] /\ DOMAIN order = 1 .. n
                        /\ \A c \in S : \E i \in 1 .. n : order[i] = c
<1> DEFINE n == Cardinality(S)
<1>1. IsFiniteSet(S)
  BY FS_Subset, SelectionConstantsOK
<1>2. n \in Nat
  BY <1>1, FS_CardinalityType
<1>3. order \in [1 .. n -> S] /\ \A i, j \in 1 .. n : i # j => order[i] # order[j]
  BY DEF SetToSeqs
<1> HIDE DEF n
<1>4. order \in Injection(1 .. n, S)
  BY <1>3 DEF Injection, IsInjective
<1>5. Cardinality(1 .. n) = n
  <2>1. 1 \in Int /\ n \in Int
    BY <1>2
  <2>2. Cardinality(1 .. n) = IF 1 > n THEN 0 ELSE n - 1 + 1
    BY <2>1, FS_Interval
  <2>3. QED
    BY <1>2, <2>2
<1>6. order \in Surjection(1 .. n, S)
  BY <1>1, <1>4, <1>5, FS_Injection DEF n
<1>7. \A c \in S : \E i \in 1 .. n : order[i] = c
  BY <1>6 DEF Surjection
<1>8. QED
  BY <1>2, <1>3, <1>7

\* What modifySelection starts from.
LEMMA StartNoted ==
  ASSUME selection \in Maps, NEW action \in Actions
  PROVE  /\ Noted(Start(action), selection)
         /\ \A c \in Components :
              Start(action).sel[c] = IF action.kind = "replace" THEN 0 ELSE selection[c]
<1> DEFINE none == [c \in Components |-> 0]
<1>1. none \in Maps /\ \A c \in Components : none[c] = 0
  BY DEF Maps
<1>2. Selected(selection) = {} => none = selection
  <2> SUFFICES ASSUME Selected(selection) = {} PROVE none = selection
    OBVIOUS
  <2>1. \A c \in Components : selection[c] = 0
    BY DEF Selected
  <2>2. selection = [c \in Components |-> selection[c]]
    BY DEF Maps
  <2>3. QED
    BY <2>1, <2>2
<1>4. CASE action.kind = "replace"
  <2> DEFINE some == Selected(selection) # {}
  <2>1. Start(action) = [sel |-> none, mod |-> some]
    BY <1>4 DEF Start
  <2>2. some \in BOOLEAN /\ (~some => none = selection)
    BY <1>2
  <2> HIDE DEF none, some
  <2>3. QED
    BY <1>1, <1>4, <2>1, <2>2 DEF Noted, Changes
<1>5. CASE action.kind # "replace"
  <2>1. Start(action) = [sel |-> selection, mod |-> FALSE]
    BY <1>5 DEF Start
  <2>2. QED
    BY <1>5, <2>1 DEF Noted, Changes
<1>6. QED
  BY <1>4, <1>5

\* modifySelection, as what it has made of the components gone through: for
\* none of them what it starts from, for more what performAction makes of the
\* last one.
Unfolds(h, n, order, v, action) ==
  /\ h[{}] = Start(action)
  /\ \A s \in SUBSET (1 .. n) : s # {} =>
       h[s] = PerformAction(h[s \ {Max(s)}], order[Max(s)], v, action)
  /\ h[1 .. n] = Modified(order, v, action)

\* The loop of modifySelection has such an account.
LEMMA ModifiedUnfolds ==
  ASSUME selection \in Maps, filter \in Filters,
         NEW n \in Nat, NEW order \in [1 .. n -> Components],
         NEW v \in Values, NEW action \in Actions
  PROVE  \E h : Unfolds(h, n, order, v, action)
<1> DEFINE T == {s \in Changes : Noted(s, selection)}
           F == [p \in T \X (1 .. n) |-> PerformAction(p[1], order[p[2]], v, action)]
           Is(h) == h = [s \in SUBSET (1 .. n) |->
                           IF s = {} THEN Start(action)
                           ELSE PerformAction(h[s \ {Max(s)}], order[Max(s)], v, action)]
<1>1. Start(action) \in T
  BY StartNoted DEF Noted
<1>2. F \in FoldSteps(n, T)
  <2>1. ASSUME NEW s \in T, NEW i \in 1 .. n PROVE PerformAction(s, order[i], v, action) \in T
    <3>1. Noted(s, selection) /\ order[i] \in Components
      OBVIOUS
    <3>2. Noted(PerformAction(s, order[i], v, action), selection)
      BY <3>1, PerformActionExact
    <3>3. QED
      BY <3>2 DEF Noted
  <2> HIDE DEF T
  <2>2. QED
    BY <2>1 DEF FoldSteps
<1>3. PICK h : IsFold(h, n, T, Start(action), F)
  <2> HIDE DEF T, F
  <2>1. QED
    BY <1>1, <1>2, FoldExists
<1>4. ASSUME NEW s \in SUBSET (1 .. n), s # {}
      PROVE  h[s] = PerformAction(h[s \ {Max(s)}], order[Max(s)], v, action)
  <2>1. Max(s) \in 1 .. n /\ s \ {Max(s)} \in SUBSET (1 .. n)
    BY <1>4, LastOfPart
  <2>2. h[s \ {Max(s)}] \in T /\ h[s] = F[<< h[s \ {Max(s)}], Max(s) >>]
    <3> HIDE DEF T, F
    <3>1. QED
      BY <1>3, <1>4, <2>1 DEF IsFold
  <2> HIDE DEF T
  <2>3. QED
    BY <2>1, <2>2
<1>5. Is(h)
  <2> HIDE DEF T, F
  <2>1. \A s \in SUBSET (1 .. n) :
          h[s] = IF s = {} THEN Start(action)
                 ELSE PerformAction(h[s \ {Max(s)}], order[Max(s)], v, action)
    BY <1>3, <1>4 DEF IsFold
  <2>2. h = [s \in SUBSET (1 .. n) |-> h[s]]
    BY <1>3 DEF IsFold
  <2>3. QED
    BY <2>1, <2>2
<1> DEFINE g == CHOOSE k : Is(k)
<1>6. Is(g)
  <2> HIDE DEF Is
  <2>1. QED
    BY <1>5
<1>7. Modified(order, v, action) = g[1 .. n]
  <2>1. DOMAIN order = 1 .. n
    OBVIOUS
  <2>2. QED
    BY <2>1 DEF Modified, FoldLeft, MapThenFoldSet
<1> HIDE DEF g
<1>8. /\ g[{}] = Start(action)
      /\ \A s \in SUBSET (1 .. n) : s # {} =>
           g[s] = PerformAction(g[s \ {Max(s)}], order[Max(s)], v, action)
  BY <1>6
<1>9. QED
  BY <1>7, <1>8 DEF Unfolds

\* The suggestions of a filter do not contradict each other: what it wants
\* dropped for one component it neither takes nor wants added for another.
FiltersAgree ==
  \A f \in Filters : \A c, d \in Components :
    d \in Filter[f][c].drops =>
      ~Filter[f][d].takes /\ \A e \in Components : d \notin Filter[f][e].adds

Coherent(comps, action) == (action.filtered => FiltersAgree) /\ Selects(comps, action)

Takes(comps, action) == {c \in comps : Filter[filter][c].takes \/ ~action.filtered}
Adds(comps, action)  == IF action.filtered THEN UNION {Filter[filter][c].adds : c \in comps} ELSE {}
Drops(comps, action) == IF action.filtered THEN UNION {Filter[filter][c].drops : c \in comps} ELSE {}

\* What a call is to make of each component.
LEMMA WantedIs ==
  ASSUME selection \in Maps, filter \in Filters,
         NEW comps \in SUBSET Components, NEW v \in Values, NEW action \in Actions
  PROVE  /\ Wanted(comps, v, action) \in Maps
         /\ \A d \in Components :
              Wanted(comps, v, action)[d] =
                IF action.kind = "subtract"
                THEN IF d \in Takes(comps, action) \/ d \in Drops(comps, action) THEN 0 ELSE selection[d]
                ELSE IF d \in Drops(comps, action) THEN 0
                ELSE IF d \in Takes(comps, action) \/ d \in Adds(comps, action) THEN v
                ELSE IF action.kind = "replace" THEN 0 ELSE selection[d]
<1>1. Wanted(comps, v, action) =
        IF action.kind = "subtract"
        THEN [c \in Components |-> IF c \in Takes(comps, action) \cup Drops(comps, action)
                                   THEN 0 ELSE IF action.kind = "replace" THEN 0 ELSE selection[c]]
        ELSE [c \in Components |->
                IF c \in Drops(comps, action) THEN 0
                ELSE IF c \in Takes(comps, action) \cup Adds(comps, action) THEN v
                ELSE IF action.kind = "replace" THEN 0 ELSE selection[c]]
  BY DEF Wanted, Takes, Adds, Drops
<1>2. \A c \in Components : selection[c] \in Values \cup {0}
  BY DEF Maps
<1>3. QED
  BY <1>1, <1>2 DEF Maps

\* One component more.
LEMMA OneMore ==
  ASSUME filter \in Filters, NEW comps \in SUBSET Components, NEW c \in Components,
         NEW action \in Actions, NEW d \in Components
  PROVE  LET f == Filter[filter][c]
         IN  /\ d \in Takes(comps \cup {c}, action) <=>
                  d \in Takes(comps, action) \/ (d = c /\ (f.takes \/ ~action.filtered))
             /\ d \in Adds(comps \cup {c}, action) <=>
                  d \in Adds(comps, action) \/ (action.filtered /\ d \in f.adds)
             /\ d \in Drops(comps \cup {c}, action) <=>
                  d \in Drops(comps, action) \/ (action.filtered /\ d \in f.drops)
BY DEF Takes, Adds, Drops

\* What is dropped is neither taken nor added, if filters agree.
LEMMA DroppedOnly ==
  ASSUME filter \in Filters, NEW comps \in SUBSET Components, NEW action \in Actions,
         Coherent(comps, action), NEW d \in Components, d \in Drops(comps, action)
  PROVE  d \notin Takes(comps, action) /\ d \notin Adds(comps, action)
<1>1. action.filtered /\ FiltersAgree
  BY DEF Drops, Coherent
<1>2. PICK c \in comps : d \in Filter[filter][c].drops
  BY <1>1 DEF Drops
<1>3. ~Filter[filter][d].takes /\ \A e \in Components : d \notin Filter[filter][e].adds
  BY <1>1, <1>2 DEF FiltersAgree
<1>4. QED
  BY <1>1, <1>3 DEF Takes, Adds

\* performAction takes what is wanted for some components to what is wanted with
\* one more.
LEMMA WantedStep ==
  ASSUME selection \in Maps, filter \in Filters,
         NEW comps \in SUBSET Components, NEW c \in Components,
         NEW v \in Values, NEW action \in Actions, Coherent(comps \cup {c}, action),
         NEW s, Noted(s, selection), s.sel = Wanted(comps, v, action)
  PROVE  PerformAction(s, c, v, action).sel = Wanted(comps \cup {c}, v, action)
<1> DEFINE f     == Filter[filter][c]
           takes == f.takes \/ ~action.filtered
           adds  == IF action.filtered THEN f.adds ELSE {}
           drops == IF action.filtered THEN f.drops ELSE {}
           done  == PerformAction(s, c, v, action)
           more  == comps \cup {c}
<1>1. /\ Noted(done, selection)
      /\ \A d \in Components :
           done.sel[d] =
             IF action.kind = "subtract" /\ takes
             THEN IF d = c \/ d \in drops THEN 0 ELSE s.sel[d]
             ELSE IF d \in adds THEN v
             ELSE IF d \in drops THEN 0
             ELSE IF d = c /\ takes THEN v ELSE s.sel[d]
  BY PerformActionExact
<1>2. \A d \in Components :
        /\ d \in Takes(more, action) <=> d \in Takes(comps, action) \/ (d = c /\ takes)
        /\ d \in Adds(more, action) <=> d \in Adds(comps, action) \/ d \in adds
        /\ d \in Drops(more, action) <=> d \in Drops(comps, action) \/ d \in drops
  BY OneMore
<1>3. \A d \in Components : d \in Drops(more, action) =>
        d \notin Takes(more, action) /\ d \notin Adds(more, action)
  BY DroppedOnly
<1>4. action.kind = "subtract" => adds = {}
  BY DEF Coherent, Selects
<1>5. more \in SUBSET Components
  OBVIOUS
<1> HIDE DEF f, takes, adds, drops, done, more
<1>6. ASSUME NEW d \in Components PROVE done.sel[d] = Wanted(more, v, action)[d]
  <2>1. CASE action.kind = "subtract"
    <3>1. Wanted(more, v, action)[d] =
            IF d \in Takes(more, action) \/ d \in Drops(more, action) THEN 0 ELSE selection[d]
      BY <1>5, <2>1, WantedIs
    <3>2. s.sel[d] =
            IF d \in Takes(comps, action) \/ d \in Drops(comps, action) THEN 0 ELSE selection[d]
      BY <2>1, WantedIs
    <3>3. QED
      BY <1>1, <1>2, <1>4, <2>1, <3>1, <3>2
  <2>2. CASE action.kind # "subtract"
    <3>1. Wanted(more, v, action)[d] =
            IF d \in Drops(more, action) THEN 0
            ELSE IF d \in Takes(more, action) \/ d \in Adds(more, action) THEN v
            ELSE IF action.kind = "replace" THEN 0 ELSE selection[d]
      BY <1>5, <2>2, WantedIs
    <3>2. s.sel[d] =
            IF d \in Drops(comps, action) THEN 0
            ELSE IF d \in Takes(comps, action) \/ d \in Adds(comps, action) THEN v
            ELSE IF action.kind = "replace" THEN 0 ELSE selection[d]
      BY <2>2, WantedIs
    <3>3. QED
      BY <1>1, <1>2, <1>3, <2>2, <3>1, <3>2
  <2>3. QED
    BY <2>1, <2>2
<1>7. done.sel \in Maps /\ Wanted(more, v, action) \in Maps
  BY <1>1, <1>5, WantedIs DEF Noted, Changes
<1>8. QED
  BY <1>6, <1>7 DEF Maps, done, more

\* Whatever filters suggest, a change that modifySelection does not note is none.
LEMMA ModifiedNoted ==
  ASSUME selection \in Maps, filter \in Filters,
         NEW n \in Nat, NEW order \in [1 .. n -> Components],
         NEW v \in Values, NEW action \in Actions
  PROVE  Noted(Modified(order, v, action), selection)
<1>0. PICK h : Unfolds(h, n, order, v, action)
  BY ModifiedUnfolds
<1>1. /\ h[{}] = Start(action)
      /\ \A s \in SUBSET (1 .. n) : s # {} =>
           h[s] = PerformAction(h[s \ {Max(s)}], order[Max(s)], v, action)
      /\ h[1 .. n] = Modified(order, v, action)
  BY <1>0 DEF Unfolds
<1> DEFINE G == {s \in SUBSET (1 .. n) : Noted(h[s], selection)}
<1>2. {} \in G
  BY <1>1, StartNoted
<1>3. ASSUME NEW s \in SUBSET (1 .. n), s # {}, s \ {Max(s)} \in G PROVE s \in G
  <2>1. order[Max(s)] \in Components
    BY <1>3, LastOfPart
  <2>2. Noted(h[s \ {Max(s)}], selection)
    BY <1>3
  <2>3. Noted(PerformAction(h[s \ {Max(s)}], order[Max(s)], v, action), selection)
    BY <2>1, <2>2, PerformActionExact
  <2>4. QED
    BY <1>1, <1>3, <2>3
<1>4. SUBSET (1 .. n) \subseteq G
  <2> HIDE DEF G
  <2>1. QED
    BY <1>2, <1>3, OverParts
<1>5. QED
  BY <1>1, <1>4

\* modifySelection makes of the selection what is wanted, in any order, if the
\* filter is coherent.
LEMMA ModifiedWanted ==
  ASSUME selection \in Maps, filter \in Filters,
         NEW n \in Nat, NEW comps \in SUBSET Components, NEW order \in [1 .. n -> comps],
         \A c \in comps : \E i \in 1 .. n : order[i] = c,
         NEW v \in Values, NEW action \in Actions, Coherent(comps, action)
  PROVE  Modified(order, v, action).sel = Wanted(comps, v, action)
<1>1. order \in [1 .. n -> Components]
  OBVIOUS
<1>0. PICK h : Unfolds(h, n, order, v, action)
  BY <1>1, ModifiedUnfolds
<1>2. /\ h[{}] = Start(action)
      /\ \A s \in SUBSET (1 .. n) : s # {} =>
           h[s] = PerformAction(h[s \ {Max(s)}], order[Max(s)], v, action)
      /\ h[1 .. n] = Modified(order, v, action)
  BY <1>0 DEF Unfolds
<1> DEFINE Those(s) == {order[i] : i \in s}
           G == {s \in SUBSET (1 .. n) : /\ Noted(h[s], selection)
                                         /\ h[s].sel = Wanted(Those(s), v, action)}
<1>3. {} \in G
  <2>1. Those({}) = {} /\ {} \in SUBSET Components
    OBVIOUS
  <2>2. /\ Start(action).sel \in Maps /\ Wanted({}, v, action) \in Maps
        /\ Noted(Start(action), selection)
    BY <2>1, StartNoted, WantedIs DEF Noted, Changes
  <2>3. \A d : d \notin Takes({}, action) /\ d \notin Adds({}, action) /\ d \notin Drops({}, action)
    BY DEF Takes, Adds, Drops
  <2>4. \A d \in Components : Wanted({}, v, action)[d] = Start(action).sel[d]
    BY <2>1, <2>3, StartNoted, WantedIs
  <2>5. Wanted({}, v, action) = Start(action).sel
    BY <2>2, <2>4 DEF Maps
  <2>6. QED
    BY <1>2, <2>1, <2>2, <2>5
<1>4. ASSUME NEW s \in SUBSET (1 .. n), s # {}, s \ {Max(s)} \in G PROVE s \in G
  <2> DEFINE last == Max(s)
             rest == Those(s \ {last})
             c == order[last]
  <2>1. last \in s
    BY <1>4, LastOfPart
  <2>2. c \in comps /\ rest \in SUBSET Components /\ Those(s) = rest \cup {c} /\ Those(s) \subseteq comps
    BY <2>1
  <2>3. Coherent(rest \cup {c}, action)
    BY <2>2 DEF Coherent, Selects
  <2>4. Noted(h[s \ {last}], selection) /\ h[s \ {last}].sel = Wanted(rest, v, action)
    BY <1>4
  <2>5. h[s] = PerformAction(h[s \ {last}], c, v, action)
    BY <1>2, <1>4
  <2> HIDE DEF last, rest, c, Those
  <2>6. c \in Components
    BY <2>2
  <2>7. h[s].sel = Wanted(rest \cup {c}, v, action)
    BY <2>2, <2>3, <2>4, <2>5, <2>6, WantedStep
  <2>8. Noted(h[s], selection)
    BY <2>4, <2>5, <2>6, PerformActionExact
  <2>9. QED
    BY <2>2, <2>7, <2>8
<1>5. SUBSET (1 .. n) \subseteq G
  <2> HIDE DEF G
  <2>1. QED
    BY <1>3, <1>4, OverParts
<1>6. 1 .. n \in G
  BY <1>5
<1>7. Those(1 .. n) = comps
  OBVIOUS
<1>8. QED
  BY <1>2, <1>6, <1>7

\* What the panel makes of its rows: they are selected, and nothing else is.
LEMMA RowsAreSelected ==
  ASSUME selection \in Maps, filter \in Filters,
         NEW n \in Nat, NEW now \in SUBSET Components, NEW order \in [1 .. n -> now],
         \A c \in now : \E i \in 1 .. n : order[i] = c
  PROVE  LET s == Modified(order, Picked, [kind |-> "replace", filtered |-> FALSE])
         IN  Noted(s, selection) /\ Selected(s.sel) = now
<1> DEFINE action == [kind |-> "replace", filtered |-> FALSE]
           s == Modified(order, Picked, action)
<1>1. action \in Actions /\ action.kind = "replace" /\ action.filtered = FALSE
  BY DEF Actions, Kinds
<1>2. Picked \in Values /\ Picked # 0 /\ order \in [1 .. n -> Components]
  BY SelectionConstantsOK
<1>3. Coherent(now, action)
  BY <1>1 DEF Coherent, Selects
<1> HIDE DEF action
<1>4. Noted(s, selection)
  BY <1>1, <1>2, ModifiedNoted
<1>5. s.sel = Wanted(now, Picked, action)
  BY <1>1, <1>2, <1>3, ModifiedWanted
<1>6. \A d \in Components : s.sel[d] = IF d \in now THEN Picked ELSE 0
  <2>1. Takes(now, action) = now /\ Adds(now, action) = {} /\ Drops(now, action) = {}
    BY <1>1 DEF Takes, Adds, Drops
  <2>2. QED
    BY <1>1, <1>2, <1>5, <2>1, WantedIs
<1>7. Selected(s.sel) = now
  BY <1>2, <1>6 DEF Selected
<1>8. QED
  BY <1>4, <1>7 DEF action

\* Neither is a change that refilter does not note.
LEMMA RefilteredNoted ==
  ASSUME selection \in Maps, NEW n \in Nat, NEW order \in [1 .. n -> Components]
  PROVE  Noted(Refiltered(order), selection)
<1> DEFINE offers(i) == Filter[filter'][order[i]]
           firsts(d) == {i \in DOMAIN order : d \in offers(i).adds \cup offers(i).drops}
           first(d)  == CHOOSE i \in firsts(d) : \A k \in firsts(d) : i <= k
           hints == [d \in {e \in Components : firsts(e) # {}} |->
                       IF d \in offers(first(d)).adds THEN selection[order[first(d)]] ELSE 0]
           refused == {order[i] : i \in {k \in DOMAIN order : ~offers(k).takes}}
           none == [c \in refused |-> 0]
           now == [sel |-> selection, mod |-> FALSE]
<1>1. Noted(now, selection)
  BY DEF Noted, Changes
<1>2. \A d \in DOMAIN hints : hints[d] \in Values \cup {0}
  <2>1. ASSUME NEW d \in DOMAIN hints PROVE first(d) \in 1 .. n
    <3>1. firsts(d) # {} /\ firsts(d) \in SUBSET Nat /\ firsts(d) \subseteq 1 .. n
      OBVIOUS
    <3>2. \E i \in firsts(d) : \A k \in firsts(d) : i <= k
      <4> HIDE DEF firsts
      <4>1. QED
        BY <3>1, SmallestNumber
    <3> HIDE DEF firsts
    <3>3. first(d) \in firsts(d)
      BY <3>2
    <3>4. QED
      BY <3>1, <3>3
  <2> HIDE DEF first
  <2>2. \A d \in DOMAIN hints : selection[order[first(d)]] \in Values \cup {0}
    BY <2>1 DEF Maps
  <2>3. QED
    BY <2>2
<1>3. \A c \in DOMAIN none : none[c] \in Values \cup {0}
  OBVIOUS
<1>4. Refiltered(order) = PutAll(PutAll(now, none), hints)
  BY DEF Refiltered
<1> HIDE DEF now, none, hints
<1>5. QED
  BY <1>1, <1>2, <1>3, <1>4, PutAllNoted

-----------------------------------------------------------------------------
(* Loops                                                                     *)

LEMMA LastFrame ==
  ASSUME NEW stack \in Seq(LoopFrames), stack # << >>
  PROVE  /\ Len(stack) \in Nat \ {0} /\ Last(stack) = stack[Len(stack)] /\ Last(stack) \in LoopFrames
         /\ Last(stack).at \in -1 .. MaxHandle /\ Last(stack).source \in Sources
<1>1. Len(stack) \in Nat \ {0} /\ Len(stack) \in 1 .. Len(stack)
  BY EmptySeq, LenProperties
<1>2. stack[Len(stack)] \in LoopFrames
  BY <1>1, ElementOfSeq
<1>3. QED
  BY <1>1, <1>2 DEF Last, LoopFrames

\* A change that is told begins a loop that has everybody before it, and one
\* that is not told is none.
LEMMA SettleStep ==
  ASSUME NEW stack \in Seq(LoopFrames), NEW s, Noted(s, selection), NEW source \in Sources,
         Settle(s, source, stack)
  PROVE  /\ selection' = s.sel /\ selection' \in Maps /\ loops' \in Seq(LoopFrames)
         /\ \/ loops' = stack /\ selection' = selection
            \/ loops' # << >> /\ Last(loops').at = -1 /\ Last(loops').source = source
<1>1. selection' = s.sel /\ s.sel \in Maps
  BY DEF Settle, Noted, Changes
<1>2. CASE s.mod
  <2> DEFINE f == Frame(source)
  <2>1. f \in LoopFrames /\ f.at = -1 /\ f.source = source
    BY SelectionConstantsOK DEF Frame, LoopFrames
  <2>2. loops' = Append(stack, f)
    BY <1>2 DEF Settle
  <2> HIDE DEF f
  <2>3. loops' \in Seq(LoopFrames) /\ Len(loops') = Len(stack) + 1 /\ loops'[Len(stack) + 1] = f
    BY <2>1, <2>2, AppendProperties
  <2>4. Len(stack) \in Nat
    BY LenProperties
  <2>5. loops' # << >> /\ Last(loops') = f
    BY <2>3, <2>4, EmptySeq DEF Last
  <2>6. QED
    BY <1>1, <2>1, <2>3, <2>5
<1>3. CASE ~s.mod
  BY <1>1, <1>3 DEF Settle, Noted
<1>4. QED
  BY <1>2, <1>3

\* A loop that begins calls everybody.
LEMMA BeginsWithAll ==
  ASSUME ListenersGood, NEW stack, stack # << >>, Last(stack).at = -1, NEW heard, NEW sel
  PROVE  HearsInTime(listeners, heard, sel, stack) /\ Awaits(1, stack)
<1>1. \A l \in listeners : l[1] \in Nat
  BY DEF ListenersGood
<1>2. \A n \in Nat : n > -1
  OBVIOUS
<1>3. QED
  BY <1>1, <1>2 DEF HearsInTime, Awaits

\* What a call from outside the loops has to show: its change is noted, and if it
\* changed rows or is told by the panel then rows are those of the selection.
LEMMA CallStep ==
  ASSUME SelectionInv, Idle, NEW s, Noted(s, selection), NEW source \in Sources,
         Settle(s, source, loops), UNCHANGED << listeners, told >>,
         filter' \in Filters, mode' = mode, rows' \subseteq Rows,
         (rows' = rows /\ source # Panel) \/ rows' = Selected(selection') \cap Rows
  PROVE  SelectionInv'
<1>1. /\ selection' \in Maps /\ loops' \in Seq(LoopFrames)
      /\ \/ loops' = loops /\ selection' = selection
         \/ loops' # << >> /\ Last(loops').at = -1 /\ Last(loops').source = source
  BY SettleStep DEF SelectionInv
<1>2. StateTyped'
  BY <1>1 DEF SelectionInv, StateTyped
<1>3. ListenersGood'
  BY DEF SelectionInv, ListenersGood
<1>4. CASE loops' = loops /\ selection' = selection
  <2>1. HearsInTime(listeners', told', selection', loops')
    BY <1>4 DEF SelectionInv
  <2>2. MirrorsInTime(rows', selection', loops')
    BY <1>4 DEF SelectionInv, MirrorsInTime
  <2>3. QED
    BY <1>1, <1>2, <1>3, <2>1, <2>2 DEF SelectionInv
<1>5. CASE loops' # << >> /\ Last(loops').at = -1 /\ Last(loops').source = source
  <2>1. HearsInTime(listeners', told', selection', loops') /\ Awaits(1, loops')
    BY <1>5, BeginsWithAll DEF SelectionInv
  <2>2. MirrorsInTime(rows', selection', loops')
    BY <1>5, <2>1 DEF MirrorsInTime
  <2>3. QED
    BY <1>1, <1>2, <1>3, <2>1, <2>2 DEF SelectionInv
<1>6. QED
  BY <1>1, <1>4, <1>5

-----------------------------------------------------------------------------
(* Each action                                                               *)

LEMMA ModifyStep ==
  ASSUME SelectionInv, NEW comps \in SUBSET Components, NEW v \in Values,
         NEW action \in Actions, Modify(comps, v, action)
  PROVE  SelectionInv'
<1>1. selection \in Maps /\ filter \in Filters /\ rows \subseteq Rows
  BY DEF SelectionInv, StateTyped
<1>2. PICK order \in SetToSeqs(comps) : Settle(Modified(order, v, action), Paraview, loops)
  BY DEF Modify
<1>3. PICK n \in Nat : order \in [1 .. n -> comps]
  BY OrderLists
<1>4. order \in [1 .. n -> Components]
  BY <1>3
<1>5. Noted(Modified(order, v, action), selection)
  BY <1>1, <1>4, ModifiedNoted
<1>6. Paraview \in Sources /\ Paraview # Panel
  BY DEF Sources, Paraview, Panel
<1>7. Idle /\ UNCHANGED << filter, mode, listeners, rows, told >>
  BY DEF Modify
<1>8. QED
  BY <1>1, <1>2, <1>5, <1>6, <1>7, CallStep

LEMMA SelectRowsStep ==
  ASSUME SelectionInv, NEW now \in SUBSET Rows, SelectRows(now)
  PROVE  SelectionInv'
<1> DEFINE action == [kind |-> "replace", filtered |-> FALSE]
<1>1. selection \in Maps /\ filter \in Filters /\ now \in SUBSET Components
  BY SelectionConstantsOK DEF SelectionInv, StateTyped
<1>2. PICK order \in SetToSeqs(now) : Settle(Modified(order, Picked, action), Panel, loops)
  BY DEF SelectRows
<1>3. PICK n \in Nat : order \in [1 .. n -> now] /\ \A c \in now : \E i \in 1 .. n : order[i] = c
  BY <1>1, OrderLists
<1>4. Noted(Modified(order, Picked, action), selection)
      /\ Selected(Modified(order, Picked, action).sel) = now
  BY <1>1, <1>3, RowsAreSelected
<1>5. Idle /\ rows' = now /\ UNCHANGED << filter, mode, listeners, told >>
  BY DEF SelectRows
<1> DEFINE s == Modified(order, Picked, action)
<1> HIDE DEF action, s
<1>6. selection' = s.sel
  BY <1>2 DEF Settle, s
<1>7. Panel \in Sources /\ rows' = Selected(selection') \cap Rows
  BY <1>4, <1>5, <1>6 DEF Sources, s
<1>8. QED
  BY <1>1, <1>2, <1>4, <1>5, <1>7, CallStep

LEMMA SetFilterStep ==
  ASSUME SelectionInv, NEW f \in Filters, NEW refilter \in BOOLEAN, SetFilter(f, refilter)
  PROVE  SelectionInv'
<1>1. selection \in Maps /\ rows \subseteq Rows
  BY DEF SelectionInv, StateTyped
<1>2. Idle /\ filter' = f /\ UNCHANGED << mode, listeners, rows, told >>
  BY DEF SetFilter
<1>3. CASE refilter /\ f # Everything
  <2>1. PICK order \in SetToSeqs(Selected(selection)) : Settle(Refiltered(order), "manager", loops)
    BY <1>3 DEF SetFilter
  <2>2. Selected(selection) \in SUBSET Components
    BY DEF Selected
  <2>3. PICK n \in Nat : order \in [1 .. n -> Selected(selection)]
    BY <2>2, OrderLists
  <2>4. order \in [1 .. n -> Components]
    BY <2>2, <2>3
  <2>5. Noted(Refiltered(order), selection)
    BY <1>1, <2>4, RefilteredNoted
  <2>6. "manager" \in Sources /\ "manager" # Panel
    BY DEF Sources, Panel
  <2>7. QED
    BY <1>1, <1>2, <2>1, <2>5, <2>6, CallStep
<1>4. CASE ~(refilter /\ f # Everything)
  <2>1. UNCHANGED << selection, loops >>
    BY <1>4 DEF SetFilter
  <2>2. QED
    BY <1>2, <2>1 DEF SelectionInv, StateTyped, ListenersGood
<1>5. QED
  BY <1>3, <1>4

\* observe() never hands out a handle that is in use.
LEMMA NextHandleIsNew ==
  ASSUME ListenersGood
  PROVE  NextHandle \in Nat /\ NextHandle \notin Handles
<1> DEFINE top == CHOOSE h \in Handles : \A k \in Handles : k <= h
<1>1. Handles \in SUBSET (0 .. MaxHandle) /\ Handles # {}
  BY DEF ListenersGood, Handles
<1>2. \E h \in Handles : \A k \in Handles : k <= h
  BY <1>1, LargestNumber, SelectionConstantsOK
<1>3. top \in Handles /\ \A k \in Handles : k <= top
  BY <1>2
<1>4. NextHandle = top + 1
  BY <1>1 DEF NextHandle
<1> HIDE DEF top
<1>5. \A k \in Handles : k \in Nat
  BY <1>1, SelectionConstantsOK
<1>6. top \in Nat /\ \A k \in Handles : k # top + 1
  BY <1>3, <1>5
<1>7. QED
  BY <1>4, <1>6

LEMMA HearingsGood ==
  \A sel \in Maps : /\ Heard(sel) \in Hearings /\ Heard(sel).sel = sel
                    /\ Unheard(sel) \in Hearings /\ Unheard(sel).sel = sel
BY DEF Heard, Unheard, Hearings

LEMMA ObserveStep ==
  ASSUME SelectionInv, NEW r \in Readers, NEW immediatelyNotify \in BOOLEAN,
         Observe(r, immediatelyNotify)
  PROVE  SelectionInv'
<1> DEFINE new   == << NextHandle, r >>
           heard == IF immediatelyNotify THEN Heard(selection) ELSE Unheard(selection)
<1>1. /\ NextHandle \in 0 .. MaxHandle /\ NextHandle \notin Handles /\ r \in Listeners
      /\ r # Panel /\ \A l \in listeners : l[2] # r
  BY NextHandleIsNew, SelectionConstantsOK DEF SelectionInv, Observe, Listeners
<1>2. /\ listeners' = listeners \cup {new} /\ told' = [told EXCEPT ![r] = heard]
      /\ UNCHANGED << selection, filter, mode, rows, loops >>
  BY DEF Observe
<1>3. StateTyped'
  <2>1. heard \in Hearings
    BY HearingsGood DEF SelectionInv, StateTyped
  <2> HIDE DEF heard
  <2>2. told' \in [Listeners -> Hearings]
    BY <1>1, <1>2, <2>1 DEF SelectionInv, StateTyped
  <2>3. QED
    BY <1>2, <2>2 DEF SelectionInv, StateTyped
<1>4. ListenersGood'
  <2>1. \A l \in listeners : l[1] \in Handles
    BY DEF Handles
  <2>2. new \in (0 .. MaxHandle) \X Listeners
    BY <1>1
  <2>3. \A l \in listeners : l[1] # new[1] /\ l[2] # new[2]
    BY <1>1, <2>1
  <2> HIDE DEF new
  <2>4. QED
    BY <1>2, <2>2, <2>3 DEF SelectionInv, ListenersGood
<1>5. HearsInTime(listeners', told', selection', loops')
  <2>1. heard.sel = selection
    BY HearingsGood DEF SelectionInv, StateTyped
  <2> HIDE DEF heard
  <2>2. told'[r] = heard /\ \A w \in Listeners : w # r => told'[w] = told[w]
    BY <1>1, <1>2 DEF SelectionInv, StateTyped
  <2>3. \A l \in listeners : l[2] \in Listeners
    BY DEF SelectionInv, ListenersGood
  <2>4. QED
    BY <1>1, <1>2, <2>1, <2>2, <2>3 DEF SelectionInv, HearsInTime
<1>6. QED
  BY <1>2, <1>3, <1>4, <1>5 DEF SelectionInv

LEMMA UnobserveStep ==
  ASSUME SelectionInv, NEW r \in Readers, Unobserve(r)
  PROVE  SelectionInv'
<1>1. PICK l \in listeners : l[2] = r /\ listeners' = listeners \ {l}
  BY DEF Unobserve
<1>2. /\ told' = [told EXCEPT ![r] = Unheard([c \in Components |-> 0])]
      /\ UNCHANGED << selection, filter, mode, rows, loops >>
  BY DEF Unobserve
<1>3. r \in Listeners /\ r # Panel
  BY SelectionConstantsOK DEF Listeners
<1>4. StateTyped'
  <2>1. [c \in Components |-> 0] \in Maps
    BY DEF Maps
  <2>2. told' \in [Listeners -> Hearings]
    BY <1>2, <2>1, HearingsGood DEF SelectionInv, StateTyped
  <2>3. QED
    BY <1>2, <2>2 DEF SelectionInv, StateTyped
<1>5. ListenersGood'
  <2>1. << 1, Panel >> # l
    BY <1>1, <1>3
  <2>2. QED
    BY <1>1, <2>1 DEF SelectionInv, ListenersGood
<1>6. HearsInTime(listeners', told', selection', loops')
  <2>1. \A k \in listeners' : k \in listeners /\ k[2] \in Listeners /\ k[2] # r
    BY <1>1 DEF SelectionInv, ListenersGood
  <2>2. \A w \in Listeners : w # r => told'[w] = told[w]
    BY <1>2 DEF SelectionInv, StateTyped
  <2>3. QED
    BY <1>2, <2>1, <2>2 DEF SelectionInv, HearsInTime
<1>7. QED
  BY <1>2, <1>4, <1>5, <1>6 DEF SelectionInv

\* The last loop moves on to a handle.
LEMMA MovesOn ==
  ASSUME loops \in Seq(LoopFrames), ~Idle, NEW handle \in 0 .. MaxHandle
  PROVE  LET past == [loops EXCEPT ![Len(loops)].at = handle]
         IN  /\ past \in Seq(LoopFrames) /\ past # << >>
             /\ Last(past).at = handle /\ Last(past).source = Last(loops).source
<1> DEFINE f == [loops[Len(loops)] EXCEPT !.at = handle]
           past == [loops EXCEPT ![Len(loops)].at = handle]
<1>1. /\ Len(loops) \in Nat \ {0} /\ loops[Len(loops)] \in LoopFrames
      /\ Last(loops) = loops[Len(loops)]
  BY LastFrame DEF Idle
<1>2. f \in LoopFrames /\ f.at = handle /\ f.source = Last(loops).source
  BY <1>1, SelectionConstantsOK DEF LoopFrames
<1>3. past = [loops EXCEPT ![Len(loops)] = f] /\ Len(loops) \in 1 .. Len(loops)
  BY <1>1
<1> HIDE DEF f, past
<1>4. past \in Seq(LoopFrames) /\ Len(past) = Len(loops) /\ past[Len(loops)] = f
  BY <1>2, <1>3, ExceptSeq
<1>5. past # << >> /\ Last(past) = f
  BY <1>1, <1>4, EmptySeq DEF Last
<1>6. QED
  BY <1>2, <1>4, <1>5 DEF past

LEMMA TellStep ==
  ASSUME SelectionInv, Tell
  PROVE  SelectionInv'
<1> DEFINE top  == Last(loops)
           next == {l \in listeners : l[1] > top.at}
           l    == CHOOSE x \in next : \A y \in next : x[1] <= y[1]
           past == [loops EXCEPT ![Len(loops)].at = l[1]]
           now  == Selected(selection) \cap Rows
           s(order) == Modified(order, Picked, [kind |-> "replace", filtered |-> FALSE])
           answers == l[2] = Panel /\ Answers(top.source, now)
<1>1. /\ ~Idle /\ next # {} /\ told' = [told EXCEPT ![l[2]] = Heard(selection)]
      /\ UNCHANGED << filter, mode, listeners >>
      /\ answers => rows' = now /\ \E order \in SetToSeqs(now) : Settle(s(order), Panel, past)
      /\ ~answers => loops' = past /\ UNCHANGED << selection, rows >>
  BY DEF Tell
<1>2. /\ top.at \in -1 .. MaxHandle /\ loops \in Seq(LoopFrames) /\ loops # << >>
      /\ \A k \in listeners : k[1] \in 0 .. MaxHandle /\ k[2] \in Listeners
      /\ StateTyped /\ ListenersGood
  BY <1>1, LastFrame DEF SelectionInv, Idle, ListenersGood
<1>3. l \in next /\ \A y \in next : l[1] <= y[1]
  <2> DEFINE D == {x[1] : x \in next}
  <2>1. D \in SUBSET Nat /\ D # {}
    BY <1>1, <1>2, SelectionConstantsOK
  <2>2. \E k \in D : \A j \in D : k <= j
    <3> HIDE DEF D
    <3>1. QED
      BY <2>1, SmallestNumber
  <2>3. \E x \in next : \A y \in next : x[1] <= y[1]
    <3>1. PICK k \in D : \A j \in D : k <= j
      BY <2>2
    <3>2. PICK x \in next : k = x[1]
      OBVIOUS
    <3>3. \A y \in next : y[1] \in D
      OBVIOUS
    <3> HIDE DEF D, next
    <3>4. QED
      BY <3>1, <3>2, <3>3
  <2> HIDE DEF next
  <2>4. QED
    BY <2>3
<1>4. l \in listeners /\ l[1] > top.at /\ \A m \in listeners : m[1] > top.at => l[1] <= m[1]
  BY <1>3
<1> HIDE DEF l, next
<1>5. /\ past \in Seq(LoopFrames) /\ past # << >>
      /\ Last(past).at = l[1] /\ Last(past).source = top.source
  BY <1>1, <1>2, <1>4, MovesOn
<1> HIDE DEF past, now
<1>6. /\ told' \in [Listeners -> Hearings] /\ told'[l[2]].sel = selection
      /\ \A w \in Listeners : w # l[2] => told'[w] = told[w]
  <2> DEFINE heard == Heard(selection)
  <2>1. heard \in Hearings /\ heard.sel = selection
    BY <1>2, HearingsGood DEF StateTyped
  <2>2. told' = [told EXCEPT ![l[2]] = heard]
    BY <1>1
  <2> HIDE DEF heard
  <2>3. QED
    BY <1>2, <1>4, <2>1, <2>2 DEF StateTyped
<1>7. HearsInTime(listeners, told', selection, past)
  <2>1. ASSUME NEW m \in listeners, told'[m[2]].sel # selection PROVE m[1] > l[1]
    <3>1. m[2] # l[2] /\ told[m[2]].sel # selection
      BY <1>2, <1>6, <2>1
    <3>2. m[1] > top.at
      BY <3>1 DEF SelectionInv, HearsInTime, Awaits
    <3>3. l[1] <= m[1] /\ l[1] # m[1]
      BY <1>4, <3>1, <3>2 DEF SelectionInv, ListenersGood
    <3>4. QED
      BY <1>2, <1>4, <3>3, SelectionConstantsOK
  <2>2. QED
    BY <1>5, <2>1 DEF HearsInTime, Awaits
<1>8. ListenersGood'
  BY <1>1, <1>2 DEF ListenersGood
<1>9. CASE ~answers
  <2>1. loops' = past /\ UNCHANGED << selection, rows >>
    BY <1>1, <1>9
  <2>2. ASSUME rows # now PROVE Awaits(1, past) /\ Last(past).source # Panel
    <3>1. 1 > top.at /\ top.source # Panel
      BY <2>2 DEF SelectionInv, MirrorsInTime, Awaits, now
    <3>2. l[1] <= 1
      BY <1>2, <1>4, <3>1 DEF ListenersGood
    <3>3. l[2] # Panel
      BY <1>9, <2>2, <3>1 DEF Answers
    <3>4. l[1] # 1
      BY <1>2, <1>4, <3>3 DEF ListenersGood
    <3>5. l[1] \in 0 .. MaxHandle
      BY <1>2, <1>4
    <3>6. 1 > l[1]
      BY <3>2, <3>4, <3>5, SelectionConstantsOK
    <3>7. QED
      BY <1>5, <3>1, <3>6 DEF Awaits
  <2>3. MirrorsInTime(rows', selection', loops')
    BY <2>1, <2>2 DEF MirrorsInTime, now
  <2>4. StateTyped'
    BY <1>1, <1>2, <1>6, <2>1 DEF StateTyped
  <2>5. HearsInTime(listeners', told', selection', loops')
    BY <1>1, <1>7, <2>1
  <2>6. QED
    BY <1>5, <1>8, <2>1, <2>3, <2>4, <2>5 DEF SelectionInv
<1>10. CASE answers
  <2>1. rows' = now
    BY <1>1, <1>10
  <2>2. PICK order \in SetToSeqs(now) : Settle(s(order), Panel, past)
    BY <1>1, <1>10
  <2>3. now \in SUBSET Components /\ now \in SUBSET Rows
    BY SelectionConstantsOK DEF now
  <2>4. PICK n \in Nat : order \in [1 .. n -> now] /\ \A c \in now : \E i \in 1 .. n : order[i] = c
    BY <2>3, OrderLists
  <2>5. Noted(s(order), selection) /\ Selected(s(order).sel) = now
    BY <1>2, <2>3, <2>4, RowsAreSelected DEF StateTyped
  <2> DEFINE made == s(order)
  <2>6. Noted(made, selection) /\ Selected(made.sel) = now /\ Settle(made, Panel, past)
    BY <2>2, <2>5
  <2> HIDE DEF made
  <2>7. Panel \in Sources
    BY DEF Sources
  <2>8. /\ selection' = made.sel /\ selection' \in Maps /\ loops' \in Seq(LoopFrames)
        /\ \/ loops' = past /\ selection' = selection
           \/ loops' # << >> /\ Last(loops').at = -1 /\ Last(loops').source = Panel
    BY <1>5, <2>6, <2>7, SettleStep
  <2>9. MirrorsInTime(rows', selection', loops')
    BY <2>1, <2>3, <2>6, <2>8 DEF MirrorsInTime
  <2>10. StateTyped'
    BY <1>1, <1>2, <1>6, <2>1, <2>3, <2>8 DEF StateTyped
  <2>11. HearsInTime(listeners', told', selection', loops')
    BY <1>1, <1>2, <1>7, <2>8, BeginsWithAll
  <2>12. QED
    BY <1>8, <2>8, <2>9, <2>10, <2>11 DEF SelectionInv
<1>11. QED
  BY <1>9, <1>10

AllHeard(who, heard, sel) == \A l \in who : heard[l[2]].sel = sel

\* When a loop is over, everybody has heard, and the panel shows the selection.
LEMMA LoopIsOver ==
  ASSUME ListenersGood, NEW stack \in Seq(LoopFrames), NEW sel, NEW heard, NEW shown,
         stack = << >> \/ \A l \in listeners : l[1] <= Last(stack).at,
         HearsInTime(listeners, heard, sel, stack), MirrorsInTime(shown, sel, stack)
  PROVE  AllHeard(listeners, heard, sel) /\ shown = Selected(sel) \cap Rows
<1>1. \A l \in listeners : ~Awaits(l[1], stack)
  <2>1. CASE stack = << >>
    BY <2>1 DEF Awaits
  <2>2. CASE stack # << >> /\ \A l \in listeners : l[1] <= Last(stack).at
    <3>1. \A l \in listeners : l[1] \in 0 .. MaxHandle
      BY DEF ListenersGood
    <3>2. Last(stack).at \in -1 .. MaxHandle
      BY <2>2, LastFrame
    <3>3. QED
      BY <2>2, <3>1, <3>2, SelectionConstantsOK DEF Awaits
  <2>3. QED
    BY <2>1, <2>2
<1>2. ~Awaits(1, stack)
  BY <1>1 DEF ListenersGood
<1>3. QED
  BY <1>1, <1>2 DEF HearsInTime, MirrorsInTime, AllHeard

LEMMA ToldStep ==
  ASSUME SelectionInv, Told
  PROVE  SelectionInv'
<1>1. /\ loops # << >> /\ \A l \in listeners : l[1] <= Last(loops).at
      /\ loops' = SubSeq(loops, 1, Len(loops) - 1)
      /\ UNCHANGED << selection, filter, mode, listeners, rows, told >>
  BY DEF Told, Idle, Front
<1>2. AllHeard(listeners, told, selection) /\ rows = Selected(selection) \cap Rows
  BY <1>1, LoopIsOver DEF SelectionInv
<1>3. loops' \in Seq(LoopFrames)
  <2>1. loops \in Seq(LoopFrames) /\ Len(loops) \in Nat /\ DOMAIN loops = 1 .. Len(loops)
    BY LenProperties DEF SelectionInv
  <2>2. 1 \in Int /\ Len(loops) - 1 \in Int /\ 1 .. Len(loops) - 1 \subseteq DOMAIN loops
    BY <2>1
  <2>3. \A i \in 1 .. Len(loops) - 1 : loops[i] \in LoopFrames
    BY <2>1, <2>2, ElementOfSeq
  <2>4. QED
    BY <1>1, <2>1, <2>2, <2>3, SubSeqProperties
<1>4. HearsInTime(listeners', told', selection', loops')
  BY <1>1, <1>2 DEF HearsInTime, AllHeard
<1>5. MirrorsInTime(rows', selection', loops')
  BY <1>1, <1>2 DEF MirrorsInTime
<1>6. QED
  BY <1>1, <1>3, <1>4, <1>5 DEF SelectionInv, StateTyped, ListenersGood

-----------------------------------------------------------------------------
(* The invariant *)

LEMMA InitSelectionInv == Init => SelectionInv
<1> SUFFICES ASSUME Init PROVE SelectionInv
  OBVIOUS
<1> DEFINE none == [c \in Components |-> 0]
<1>1. /\ selection = none /\ told = [l \in Listeners |-> Unheard(none)] /\ none \in Maps
      /\ Selected(none) = {}
  BY DEF Init, Maps, Selected
<1>2. StateTyped
  <2>1. Filtered("replace") \in Actions
    BY DEF Filtered, Actions, Kinds
  <2> HIDE DEF none
  <2>2. QED
    BY <1>1, <2>1, HearingsGood, SelectionConstantsOK DEF Init, StateTyped
<1>3. ListenersGood
  <2>1. Wrapper \in Listeners /\ Panel \in Listeners /\ Wrapper # Panel
    BY DEF Listeners, Wrapper, Panel
  <2>2. 0 \in 0 .. MaxHandle /\ 1 \in 0 .. MaxHandle
    BY SelectionConstantsOK
  <2>3. QED
    BY <2>1, <2>2 DEF Init, ListenersGood
<1>4. loops \in Seq(LoopFrames)
  BY EmptySeq DEF Init
<1> HIDE DEF none
<1>5. \A l \in listeners : told[l[2]].sel = selection
  BY <1>1, <1>3, HearingsGood DEF ListenersGood
<1>6. rows = Selected(selection) \cap Rows
  BY <1>1 DEF Init
<1>7. QED
  BY <1>2, <1>3, <1>4, <1>5, <1>6 DEF SelectionInv, HearsInTime, MirrorsInTime

LEMMA NextSelectionInv == SelectionInv /\ [Next]_vars => SelectionInv'
<1> SUFFICES ASSUME SelectionInv, [Next]_vars PROVE SelectionInv'
  OBVIOUS
<1>1. CASE UNCHANGED vars
  BY <1>1 DEF SelectionInv, StateTyped, ListenersGood, vars
<1>2. ASSUME NEW comps \in SUBSET Components, NEW v \in Values,
             Modify(comps, v, mode) \/ (\E k \in Kinds : Modify(comps, v, [kind |-> k, filtered |-> FALSE]))
      PROVE  SelectionInv'
  <2>1. mode \in Actions
    BY DEF SelectionInv, StateTyped
  <2>2. \A k \in Kinds : [kind |-> k, filtered |-> FALSE] \in Actions
    BY DEF Actions
  <2>3. QED
    BY <1>2, <2>1, <2>2, ModifyStep
<1>3. ASSUME NEW k \in Kinds, SetDefaultAction(Filtered(k)) PROVE SelectionInv'
  <2>1. Filtered(k) \in Actions
    BY DEF Filtered, Actions
  <2>2. QED
    BY <1>3, <2>1 DEF SetDefaultAction, SelectionInv, StateTyped, ListenersGood
<1>4. QED
  BY <1>1, <1>2, <1>3, TellStep, ToldStep, SelectRowsStep, SetFilterStep, ObserveStep, UnobserveStep
     DEF Next

\* The inductive invariant holds in every state: changes that go untold are none,
\* and whoever is behind will still be called.
THEOREM SelectionInvariance == Spec => []SelectionInv
<1>1. QED
  BY InitSelectionInv, NextSelectionInv, PTL DEF Spec

\* Every variable of the selection keeps its type, with loops inside loops and
\* handles within their bound.
THEOREM SelectionTypeOK == Spec => []TypeOK
<1>1. SelectionInv => TypeOK
  BY DEF SelectionInv, StateTyped, ListenersGood, TypeOK, Maps, LoopFrames, Sources, Hearings
<1>2. QED
  BY <1>1, SelectionInvariance, PTL

\* When a call has returned, every listener was called last with the selection of
\* now, or has not been called since it joined that selection, although the panel
\* replaces the selection from inside the loop.
THEOREM ToldSafe == Spec => []ToldInTheEnd
<1>1. ASSUME SelectionInv, Idle PROVE AllHeard(listeners, told, selection)
  BY <1>1, LoopIsOver DEF SelectionInv, Idle
<1>2. SelectionInv => ToldInTheEnd
  BY <1>1 DEF AllHeard, ToldInTheEnd
<1>3. QED
  BY <1>2, SelectionInvariance, PTL

\* When a call has returned, the rows selected in the panel are those of the
\* selected components, whoever changed the selection and how.
THEOREM MirrorSafe == Spec => []PanelMirrors
<1>1. SelectionInv => PanelMirrors
  BY LoopIsOver DEF SelectionInv, PanelMirrors, Idle
<1>2. QED
  BY <1>1, SelectionInvariance, PTL

\* If what filters suggest does not contradict itself, modifySelection gives the
\* same selection in whatever order it goes through the components.
THEOREM OrderSafe ==
  ASSUME FiltersAgree
  PROVE  Spec => OrderDoesNotMatter
<1>1. ASSUME SelectionInv, NEW comps \in SUBSET Components, NEW v \in Values, NEW action \in Actions,
             Modify(comps, v, action), Selects(comps, action)
      PROVE  selection' = Wanted(comps, v, action)
  <2>1. selection \in Maps /\ filter \in Filters /\ Coherent(comps, action)
    BY <1>1 DEF SelectionInv, StateTyped, Coherent
  <2>2. PICK order \in SetToSeqs(comps) : Settle(Modified(order, v, action), Paraview, loops)
    BY <1>1 DEF Modify
  <2>3. PICK n \in Nat : order \in [1 .. n -> comps] /\ \A c \in comps : \E i \in 1 .. n : order[i] = c
    BY <2>2, OrderLists
  <2>4. Modified(order, v, action).sel = Wanted(comps, v, action)
    BY <2>1, <2>3, ModifiedWanted
  <2>5. QED
    BY <2>2, <2>4 DEF Settle
<1>2. SelectionInv /\ [Next]_vars =>
        [\A comps \in SUBSET Components, v \in Values, action \in Actions :
           Modify(comps, v, action) /\ Selects(comps, action) => selection' = Wanted(comps, v, action)]_vars
  BY <1>1
<1>3. QED
  BY <1>2, SelectionInvariance, PTL DEF Spec, OrderDoesNotMatter
=============================================================================
