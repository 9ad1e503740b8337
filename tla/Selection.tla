------------------------------ MODULE Selection -------------------------------
(***************************************************************************)
(* The selection of an application (smtk::view::Selection): components with *)
(* a value each, changed through a filter that may refuse a component and  *)
(* suggest others, and listeners called in a loop over the live map of     *)
(* listeners.  One listener is the resource panel (pqSMTKResourcePanel):   *)
(* it copies the selection to the rows of its tree, and Qt answers a       *)
(* change of the rows by having it replace the selection with them, from   *)
(* inside the loop.  Others (pqSMTKModelRepresentation) read the selection.*)
(*                                                                         *)
(* One thread: a loop is a frame of `loops`, and only the last one runs.   *)
(***************************************************************************)
EXTENDS Integers, Sequences, SequencesExt, FiniteSets

CONSTANTS
  Components,
  Rows,         \* the components that have a row in the panel
  Readers,      \* listeners that come and go
  Filters,      \* filters, and Everything, the default one
  Everything,
  Filter,       \* what each makes of a component, see below
  Values,       \* the values registered with the selection, none is 0
  Picked,       \* the value the panel selects with
  MaxHandle,    \* bound on the handles of listeners
  MaxDepth      \* bound on loops inside loops

\* The listeners of the application: the panel, and the wrapper that makes the
\* selection.
Panel == "panel"
Wrapper == "wrapper"

Listeners == Readers \cup {Panel, Wrapper}

\* The function of a filter answers whether it takes a component, and suggests
\* some to be selected with the value asked for and some not to be.
ASSUME SelectionConstantsOK ==
  /\ IsFiniteSet(Components) /\ Rows \subseteq Components
  /\ Panel \notin Readers /\ Wrapper \notin Readers
  /\ 0 \notin Values /\ Picked \in Values
  /\ Everything \in Filters
  /\ Filter \in [Filters -> [Components ->
                  [takes : BOOLEAN, adds : SUBSET Components, drops : SUBSET Components]]]
  /\ Filter[Everything] = [c \in Components |-> [takes |-> TRUE, adds |-> {}, drops |-> {}]]
  /\ MaxHandle \in Nat \ {0} /\ MaxDepth \in Nat

Paraview == "paraview"

Kinds == {"replace", "add", "subtract"}

Actions == [kind : Kinds, filtered : BOOLEAN]

VARIABLES
  selection,  \* m_selection, 0 for a component that is not in the map
  filter,     \* m_filter
  mode,       \* m_defaultAction
  listeners,  \* m_listeners, as pairs of handle and listener
  rows,       \* the rows selected in the panel
  loops,      \* the loops of notifyListeners that run, the last one innermost
  told        \* the selection each listener was called with last or, before any
              \* call, joined; and whether it has been called

vars == << selection, filter, mode, listeners, rows, loops, told >>

Idle == loops = << >>

-----------------------------------------------------------------------------
(* Changing the selection: operators on [sel, mod], the map and whether a    *)
(* change was noted                                                          *)

Selected(sel) == {c \in Components : sel[c] # 0}

\* A plausible bug: replaced values are not noted.
PutAllQuietly(s, new) ==
  LET sel == [c \in Components |-> IF c \in DOMAIN new THEN new[c] ELSE s.sel[c]]
  IN  [sel |-> sel, mod |-> s.mod \/ Selected(sel) # Selected(s.sel)]

\* A plausible bug: values are taken for bits of a mask.
PutAllBits(s, new) ==
  LET sel == [c \in Components |-> IF c \in DOMAIN new /\ new[c] # 0 /\ new[c] # s.sel[c]
                                  THEN s.sel[c] + new[c] ELSE IF c \in DOMAIN new THEN new[c] ELSE s.sel[c]]
  IN  [sel |-> sel, mod |-> s.mod \/ sel # s.sel]

\* Entries are inserted, changed or, for 0, erased; a change is noted.
PutAll(s, new) ==
  LET sel == [c \in Components |-> IF c \in DOMAIN new THEN new[c] ELSE s.sel[c]]
  IN  [sel |-> sel, mod |-> s.mod \/ sel # s.sel]

Suggestions(c, v) ==
  LET f == Filter[filter][c]
  IN  [d \in f.adds \cup f.drops |-> IF d \in f.adds THEN v ELSE 0]

\* A plausible bug: a component that is refused is not selected any more.
PerformActionOr(s, c, v, action) ==
  LET drops == Filter[filter][c].drops
      hints == IF action.filtered THEN Suggestions(c, v) ELSE << >>
  IN  IF action.filtered /\ ~Filter[filter][c].takes THEN PutAll(PutAll(s, [d \in {c} |-> 0]), hints)
      ELSE IF action.kind = "subtract"
           THEN PutAll(s, [d \in {c} \cup (IF action.filtered THEN drops ELSE {}) |-> 0])
           ELSE PutAll(PutAll(s, [d \in {c} |-> v]), hints)

\* performAction
PerformAction(s, c, v, action) ==
  LET drops == Filter[filter][c].drops
      hints == IF action.filtered THEN Suggestions(c, v) ELSE << >>
  IN  IF action.filtered /\ ~Filter[filter][c].takes THEN PutAll(s, hints)
      ELSE IF action.kind = "subtract"
           THEN PutAll(s, [d \in {c} \cup (IF action.filtered THEN drops ELSE {}) |-> 0])
           ELSE PutAll(PutAll(s, [d \in {c} |-> v]), hints)

\* What modifySelection starts from.
Start(action) ==
  IF action.kind = "replace"
  THEN [sel |-> [c \in Components |-> 0], mod |-> Selected(selection) # {}]
  ELSE [sel |-> selection, mod |-> FALSE]

\* modifySelection, which goes through the components in the order of their
\* addresses.
Modified(order, v, action) ==
  FoldLeft(LAMBDA s, c : PerformAction(s, c, v, action), Start(action), order)

\* refilter goes through the selection in that order as well: what is refused
\* is erased, and of the suggestions for a component the first counts.
Refiltered(order) ==
  LET offers(n) == Filter[filter'][order[n]]
      firsts(d) == {n \in DOMAIN order : d \in offers(n).adds \cup offers(n).drops}
      first(d)  == CHOOSE n \in firsts(d) : \A k \in firsts(d) : n <= k
      hints == [d \in {e \in Components : firsts(e) # {}} |->
                  IF d \in offers(first(d)).adds THEN selection[order[first(d)]] ELSE 0]
      refused == {order[n] : n \in {k \in DOMAIN order : ~offers(k).takes}}
  IN  PutAll(PutAll([sel |-> selection, mod |-> FALSE], [c \in refused |-> 0]), hints)

-----------------------------------------------------------------------------
(* Telling the listeners *)

Frame(source) == [source |-> source, at |-> -1]

Heard(sel)   == [sel |-> sel, called |-> TRUE]
Unheard(sel) == [sel |-> sel, called |-> FALSE]

\* A change that was noted is told.
Settle(s, source, stack) ==
  /\ selection' = s.sel
  /\ loops' = IF s.mod THEN Append(stack, Frame(source)) ELSE stack

\* A plausible bug: the panel minds neither where a change comes from nor
\* whether its rows change.
AlwaysAnswers(source, now) == TRUE

\* A plausible bug: the panel hears of the changes of users only.
AnswersUsers(source, now) == source = Paraview /\ now # rows

\* Does Qt tell of the rows, and does the panel pass it on?
Answers(source, now) == source # Panel /\ now # rows

\* The last loop calls the next listener of the map.
Tell ==
  LET top  == Last(loops)
      next == {l \in listeners : l[1] > top.at}
      l    == CHOOSE x \in next : \A y \in next : x[1] <= y[1]
      past == [loops EXCEPT ![Len(loops)].at = l[1]]
      now  == Selected(selection) \cap Rows
  IN  /\ ~Idle /\ next # {}
      /\ told' = [told EXCEPT ![l[2]] = Heard(selection)]
      /\ IF l[2] = Panel /\ Answers(top.source, now)
         THEN /\ Len(loops) < MaxDepth
              /\ rows' = now
              /\ \E order \in SetToSeqs(now) :
                   Settle(Modified(order, Picked, [kind |-> "replace", filtered |-> FALSE]), Panel, past)
         ELSE loops' = past /\ UNCHANGED << selection, rows >>
      /\ UNCHANGED << filter, mode, listeners >>

Told ==
  /\ ~Idle /\ \A l \in listeners : l[1] <= Last(loops).at
  /\ loops' = Front(loops)
  /\ UNCHANGED << selection, filter, mode, listeners, rows, told >>

-----------------------------------------------------------------------------
(* What users and applications do *)

\* A selection in the render view, or by an operator.
Modify(comps, v, action) ==
  /\ Idle
  /\ \E order \in SetToSeqs(comps) : Settle(Modified(order, v, action), Paraview, loops)
  /\ UNCHANGED << filter, mode, listeners, rows, told >>

\* The user selects rows of the panel.
SelectRows(now) ==
  LET action == [kind |-> "replace", filtered |-> FALSE]
  IN  /\ Idle /\ now # rows
      /\ rows' = now
      /\ \E order \in SetToSeqs(now) : Settle(Modified(order, Picked, action), Panel, loops)
      /\ UNCHANGED << filter, mode, listeners, told >>

\* Without a function, the default filter is set and not run.
SetFilter(f, refilter) ==
  /\ Idle
  /\ filter' = f
  /\ IF refilter /\ f # Everything
     THEN \E order \in SetToSeqs(Selected(selection)) : Settle(Refiltered(order), "manager", loops)
     ELSE UNCHANGED << selection, loops >>
  /\ UNCHANGED << mode, listeners, rows, told >>

\* Users choose between the filtered actions.
SetDefaultAction(action) ==
  /\ Idle
  /\ mode' = action
  /\ UNCHANGED << selection, filter, listeners, rows, loops, told >>

Handles == {l[1] : l \in listeners}

NextHandle == IF Handles = {} THEN 0 ELSE (CHOOSE h \in Handles : \A k \in Handles : k <= h) + 1

\* Without immediatelyNotify, the default, the listener is not called: what is
\* selected when it joins it is not told of.
Observe(r, immediatelyNotify) ==
  /\ Idle /\ NextHandle <= MaxHandle
  /\ \A l \in listeners : l[2] # r
  /\ listeners' = listeners \cup {<< NextHandle, r >>}
  /\ told' = [told EXCEPT ![r] = IF immediatelyNotify THEN Heard(selection) ELSE Unheard(selection)]
  /\ UNCHANGED << selection, filter, mode, rows, loops >>

Unobserve(r) ==
  /\ Idle
  /\ \E l \in listeners : l[2] = r /\ listeners' = listeners \ {l}
  /\ told' = [told EXCEPT ![r] = Unheard([c \in Components |-> 0])]
  /\ UNCHANGED << selection, filter, mode, rows, loops >>

Filtered(k) == [kind |-> k, filtered |-> TRUE]

\* The wrapper that makes the selection observes it, then the panel does.
Init ==
  /\ selection = [c \in Components |-> 0]
  /\ filter = Everything
  /\ mode = Filtered("replace")
  /\ listeners = {<< 0, Wrapper >>, << 1, Panel >>}
  /\ rows = {}
  /\ loops = << >>
  /\ told = [l \in Listeners |-> Unheard(selection)]

Next ==
  \/ Tell
  \/ Told
  \/ \E comps \in SUBSET Components, v \in Values :
       Modify(comps, v, mode) \/ (\E k \in Kinds : Modify(comps, v, [kind |-> k, filtered |-> FALSE]))
  \/ \E now \in SUBSET Rows : SelectRows(now)
  \/ \E f \in Filters, refilter \in BOOLEAN : SetFilter(f, refilter)
  \/ \E k \in Kinds : SetDefaultAction(Filtered(k))
  \/ \E r \in Readers, immediatelyNotify \in BOOLEAN : Observe(r, immediatelyNotify)
  \/ \E r \in Readers : Unobserve(r)

Spec == Init /\ [][Next]_vars

\* Listeners return.
FairSpec == Spec /\ WF_vars(Tell) /\ WF_vars(Told)

-----------------------------------------------------------------------------
(* Properties *)

TypeOK ==
  /\ selection \in [Components -> Values \cup {0}]
  /\ filter \in Filters /\ mode \in Actions
  /\ listeners \subseteq (0 .. MaxHandle) \X Listeners
  /\ rows \subseteq Rows
  /\ loops \in Seq([source : {Panel, Paraview, "manager"}, at : -1 .. MaxHandle])
  /\ told \in [Listeners -> [sel : [Components -> Values \cup {0}], called : BOOLEAN]]

\* When a call has returned, a listener was called last with the selection there
\* is now, or it has not been called and the selection is what it was when it
\* joined: no change since then goes untold, whichever listener changes the
\* selection again while the others wait for their call.
ToldInTheEnd ==
  Idle => \A l \in listeners : told[l[2]].sel = selection

\* When a call has returned, the rows that are selected in the panel are those
\* of the selected components.
PanelMirrors ==
  Idle => rows = Selected(selection) \cap Rows

\* "replace the selection, be added to it, or be removed from it": what a call
\* makes of the selection does not depend on the order of the components, and
\* suggestions are "unconditionally included in the action"
\* (Selection::modifySelection, SelectionFilter).  A subtraction that
\* brings suggestions, which it selects, is left out (Selects).
Wanted(comps, v, action) ==
  LET f    == Filter[filter]
      take == {c \in comps : f[c].takes \/ ~action.filtered}
      add  == IF action.filtered THEN UNION {f[c].adds : c \in comps} ELSE {}
      drop == IF action.filtered THEN UNION {f[c].drops : c \in comps} ELSE {}
      old(c) == IF action.kind = "replace" THEN 0 ELSE selection[c]
  IN  IF action.kind = "subtract"
      THEN [c \in Components |-> IF c \in take \cup drop THEN 0 ELSE old(c)]
      ELSE [c \in Components |-> IF c \in drop THEN 0 ELSE IF c \in take \cup add THEN v ELSE old(c)]

Selects(comps, action) ==
  action.kind # "subtract" \/ ~action.filtered \/ \A c \in comps : Filter[filter][c].adds = {}

OrderDoesNotMatter ==
  [][\A comps \in SUBSET Components, v \in Values, action \in Actions :
       Modify(comps, v, action) /\ Selects(comps, action) => selection' = Wanted(comps, v, action)]_vars

\* Every call returns: the panel's answers come to an end.
CallsReturn == ~Idle ~> Idle
=============================================================================
