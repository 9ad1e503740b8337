------------------------------ MODULE PhraseModel ------------------------------
(***************************************************************************)
(* smtk::view::PhraseModel and ResourcePhraseModel: the tree of phrases a  *)
(* panel shows of the resources of its sources - one row per resource, its *)
(* components below it - and the views that follow the tree from events.   *)
(*                                                                         *)
(* One thread, so the calls in progress form a stack.  A "deliver" frame   *)
(* is a resource manager or an operation telling the model of resources;   *)
(* an "update" frame is an updateChildren() with the events it still has   *)
(* to send, in the middle of whose loops views run and call back.          *)
(***************************************************************************)
EXTENDS Integers, Sequences, FiniteSets, SequencesExt

CONSTANTS
  Managers,       \* resource::Manager instances
  OperManagers,   \* operation::Manager instances
  Rsrcs,          \* resources; each names its phrase too
  Titles,         \* what the rows are sorted by: locations, as numbers
  Parts,          \* phrases of components
  Generated,      \* the phrases the subphrase generator makes for a resource
  NewLists,       \* what a client may want the children of a row to be
  Root,           \* the root phrase
  Silent,         \* the rows whose generator has no model to tell the views
  NoPhrase,       \* what a view shows of a row that it was told of and that is none
  Views,          \* observers of the model
  MaxHandle,      \* bound on their handles
  MaxSources,     \* bound on the sources of the model
  Nil,            \* no handle
  BuildInLoops    \* may a view ask a new row for its children while it is announced?

ASSUME ConstantsOK ==
  /\ Titles \subseteq Nat /\ Titles # {}
  /\ Generated \in [Rsrcs -> Seq(Parts)] /\ \A r \in Rsrcs : IsInjective(Generated[r])
  /\ NewLists \subseteq Seq(Parts) /\ \A l \in NewLists : IsInjective(l)
  /\ Managers \cap OperManagers = {}
  /\ Root \notin Rsrcs \cup Parts /\ Rsrcs \cap Parts = {}
  /\ Silent \subseteq Rsrcs /\ NoPhrase \notin {Root} \cup Rsrcs \cup Parts
  /\ MaxHandle \in Nat /\ MaxSources \in Nat /\ Nil \notin Nat
  /\ BuildInLoops \in BOOLEAN

VARIABLES
  managed,     \* the resources of each resource manager
  title,       \* location of each resource
  sources,     \* m_sources
  resources,   \* m_resources
  rows,        \* m_subphrases of the root and of each resource's phrase
  built,       \* the phrases that have m_subphrasesBuilt: the root, resources
  observers,   \* m_observers: handle -> view
  handle,      \* the handle each view holds
  shown,       \* the rows each view concludes from the events it was sent
  stack        \* the calls in progress, innermost last

worldVars == << managed, title >>
modelVars == << sources, resources, rows, built >>
viewVars  == << observers, handle, shown >>
vars      == << worldVars, modelVars, viewVars, stack >>

Parents  == {Root} \cup Rsrcs
Handles  == 0 .. MaxHandle
Top      == stack[Len(stack)]
Rest     == SubSeq(stack, 1, Len(stack) - 1)
Idle     == stack = << >>
Live(p)  == p = Root \/ p \in ToSet(rows[Root])

Update(f)  == f.kind = "update"
Sending(f) == Update(f) /\ f.todo # << >> /\ Head(f.todo).type # "check"
ABOUT      == {"aboutRemove", "aboutInsert", "aboutTell"}

\* Client code runs: the application, or a view inside a loop.
ViewRuns   == ~Idle /\ Update(Top) /\ Top.calling
ClientRuns == Idle \/ ViewRuns

-----------------------------------------------------------------------------
(* What updateChildren() works out *)

\* Maximal runs of consecutive numbers.
RunsOf(S) ==
  {b \in S \X S : b[1] <= b[2] /\ b[1] .. b[2] \subseteq S /\ b[1] - 1 \notin S /\ b[2] + 1 \notin S}

\* Rows as the code counts them, from 0.
Unused(orig, next) == {i \in 0 .. Len(orig) - 1 : orig[i + 1] \notin ToSet(next)}
Fresh(orig, next)  == {i \in 0 .. Len(next) - 1 : next[i + 1] \notin ToSet(orig)}

\* Unused rows go in batches, from the back; new ones come from the front.
LastRun(S)  == CHOOSE b \in RunsOf(S) : \A i \in S : i <= b[2]
FirstRun(S) == CHOOSE b \in RunsOf(S) : \A i \in S : b[1] <= i

\* A plausible bug: the end of a closed range left in place.
WithoutHalfOpen(seq, lo, hi) == SubSeq(seq, 1, lo) \o SubSeq(seq, hi + 1, Len(seq))

\* A plausible bug: an insertion one row early.
WithEarly(seq, lo, batch) ==
  LET at == IF lo = 0 THEN 0 ELSE lo - 1
  IN  SubSeq(seq, 1, at) \o batch \o SubSeq(seq, at + 1, Len(seq))

\* The closed ranges of events, applied to a list.
Without(seq, lo, hi)    == SubSeq(seq, 1, lo) \o SubSeq(seq, hi + 2, Len(seq))
With(seq, lo, batch)    == SubSeq(seq, 1, lo) \o batch \o SubSeq(seq, lo + 1, Len(seq))
Range2(seq, lo, hi)     == SubSeq(seq, lo + 1, hi + 1)

Event(type, p, lo, hi) == [type |-> type, at |-> p, lo |-> lo, hi |-> hi]

\* Two events around each change.
Pair(f, batch, before, after) ==
  << Event(before, f.parent, batch[1], batch[2]), Event(after, f.parent, batch[1], batch[2]) >>

\* The loops take up their next batch.  Past a batch of new rows the iterator
\* is advanced once more, and the next of them is lost.
NextBatch(f) ==
  LET last == LastRun(f.unused)  first == FirstRun(f.insert)
  IN  IF f.unused # {}
      THEN [f EXCEPT !.unused = @ \ (last[1] .. last[2]),
                     !.todo = Pair(f, last, "aboutRemove", "removed")]
      ELSE IF f.insert # {}
      THEN [f EXCEPT !.insert = {i \in @ : \E j \in @ : first[2] < j /\ j < i},
                     !.todo = Pair(f, first, "aboutInsert", "inserted")]
      ELSE f

KeepsOrder(orig, next) ==
  \A i, j \in DOMAIN orig : \A k, l \in DOMAIN next :
    orig[i] = next[k] /\ orig[j] = next[l] /\ i < j => k < l

InOnePlace(S) == \A i, j \in S : i .. j \subseteq S

\* A frame, with what its properties need to remember: the list asked for,
\* whether the rows that stay keep their order, and whether the new ones are
\* in one place.
UpdateFrame(p, next) ==
  NextBatch([kind |-> "update", parent |-> p, goal |-> next,
             keeps |-> KeepsOrder(rows[p], next), onePlace |-> InOnePlace(Fresh(rows[p], next)),
             unused |-> Unused(rows[p], next), insert |-> Fresh(rows[p], next),
             todo |-> << >>, cursor |-> -1, calling |-> FALSE])

-----------------------------------------------------------------------------
(* Resource managers and operations tell the model *)

DeliverFrame(adding, queue, effect, m, r) ==
  [kind |-> "deliver", adding |-> adding, queue |-> queue, effect |-> effect, mgr |-> m, rsrc |-> r]

\* The resource once for every source that has manager x.
ToSources(x, r) == [i \in 1 .. Cardinality({j \in DOMAIN sources : x \in ToSet(sources[j])}) |-> r]

Watched(m) == \E i \in DOMAIN sources : sources[i][1] = m

\* add(): into the container, then the events.  A resource is in one manager.
AddResource(m, r) ==
  /\ Idle /\ \A n \in Managers : r \notin managed[n]
  /\ managed' = [managed EXCEPT ![m] = @ \cup {r}]
  /\ stack' = << DeliverFrame(TRUE, ToSources(m, r), "none", m, r) >>
  /\ UNCHANGED << title, modelVars, viewVars >>

\* remove(): the events, then the container.
RemoveResource(m, r) ==
  /\ Idle /\ r \in managed[m]
  /\ stack' = << DeliverFrame(FALSE, ToSources(m, r), "erase", m, r) >>
  /\ UNCHANGED << worldVars, modelVars, viewVars >>

\* DID_OPERATE with created components of r, which need not be managed yet.
Operated(x, r) ==
  /\ Idle
  /\ stack' = << DeliverFrame(TRUE, ToSources(x, r), "none", Nil, r) >>
  /\ UNCHANGED << worldVars, modelVars, viewVars >>

\* setLocation() of a resource: no event.
Relocate(r, t) ==
  /\ Idle /\ title[r] # t
  /\ title' = [title EXCEPT ![r] = t]
  /\ UNCHANGED << managed, modelVars, viewVars, stack >>

\* A plausible bug: a source joined without being told of what is there.
AddSourceSilently(m, x) ==
  /\ Idle /\ Len(sources) < MaxSources
  /\ << m, x >> \notin ToSet(sources)
  /\ stack' = << DeliverFrame(TRUE, << >>, "source", m, x) >>
  /\ UNCHANGED << worldVars, modelVars, viewVars >>

\* A plausible bug: the same source twice.
AddSourceTwice(m, x) ==
  /\ Idle /\ Len(sources) < MaxSources
  /\ \E queue \in SetToSeqs(managed[m]) :
       stack' = << DeliverFrame(TRUE, queue, "source", m, x) >>
  /\ UNCHANGED << worldVars, modelVars, viewVars >>

\* addSource(): refused if it is there; observing the resource manager tells
\* of what it has; then the source is appended.
AddSource(m, x) ==
  /\ Idle /\ Len(sources) < MaxSources
  /\ << m, x >> \notin ToSet(sources)
  /\ \E queue \in SetToSeqs(managed[m]) :
       stack' = << DeliverFrame(TRUE, queue, "source", m, x) >>
  /\ UNCHANGED << worldVars, modelVars, viewVars >>

\* removeSource() and resetSources(): no rows go.
RemoveSource(m, x) ==
  /\ Idle /\ << m, x >> \in ToSet(sources)
  /\ sources' = RemoveFirst(sources, << m, x >>)
  /\ UNCHANGED << worldVars, resources, rows, built, viewVars, stack >>

ResetSources ==
  /\ Idle /\ sources # << >>
  /\ sources' = << >>
  /\ UNCHANGED << worldVars, resources, rows, built, viewVars, stack >>

\* All orders std::sort may leave a list in: equal locations in any order.
Sorted(list) ==
  {s \in {[i \in DOMAIN list |-> list[f[i]]] : f \in {g \in [DOMAIN list -> DOMAIN list] : IsInjective(g)}} :
     \A i, j \in DOMAIN list : i < j => title[s[i]] <= title[s[j]]}

\* A plausible bug: a removal that takes the row and leaves the resource.
ProcessKeeping(stk, r, adding) ==
  IF adding = (r \in resources)
  THEN stack' = stk /\ UNCHANGED << resources, built >>
  ELSE /\ built' = built \cup {Root}
       /\ IF adding
          THEN /\ resources' = resources \cup {r}
               /\ \E next \in Sorted(Append(rows[Root], r)) : stack' = Append(stk, UpdateFrame(Root, next))
          ELSE /\ UNCHANGED resources
               /\ stack' = Append(stk, UpdateFrame(Root, RemoveFirst(rows[Root], r)))

\* processResource(): nothing if the resource has its row, or has none.  It
\* asks the root for its rows.  A resource has one row, so that remove_if takes
\* one.
Process(stk, r, adding) ==
  IF adding = (r \in resources)
  THEN stack' = stk /\ UNCHANGED << resources, built >>
  ELSE /\ built' = built \cup {Root}
       /\ IF adding
          THEN /\ resources' = resources \cup {r}
               /\ \E next \in Sorted(Append(rows[Root], r)) : stack' = Append(stk, UpdateFrame(Root, next))
          ELSE /\ resources' = resources \ {r}
               /\ stack' = Append(stk, UpdateFrame(Root, RemoveFirst(rows[Root], r)))

Delivering == ~Idle /\ Top.kind = "deliver"

Deliver ==
  /\ Delivering /\ Top.queue # << >>
  /\ Process(Append(Rest, [Top EXCEPT !.queue = Tail(@)]), Head(Top.queue), Top.adding)
  /\ UNCHANGED << worldVars, sources, rows, viewVars >>

\* The last observer returned, and add(), remove() or addSource() goes on.
Delivered ==
  /\ Delivering /\ Top.queue = << >>
  /\ managed' = IF Top.effect = "erase" THEN [managed EXCEPT ![Top.mgr] = @ \ {Top.rsrc}] ELSE managed
  /\ sources' = IF Top.effect = "source" THEN Append(sources, << Top.mgr, Top.rsrc >>) ELSE sources
  /\ stack' = Rest
  /\ UNCHANGED << title, resources, rows, built, viewVars >>

-----------------------------------------------------------------------------
(* Views *)

\* A plausible bug: the number of observers as the next handle.
NextHandleBySize == Cardinality(DOMAIN observers)

NextHandle ==
  IF DOMAIN observers = {} THEN 0
  ELSE 1 + CHOOSE h \in DOMAIN observers : \A g \in DOMAIN observers : g <= h

NoRows == [p \in Parents |-> << >>]

\* A plausible bug: the new observer is told of the root's rows and not of
\* those below them.
TreeToldShallow == [NoRows EXCEPT ![Root] = IF Root \in built THEN Append(rows[Root], NoPhrase) ELSE << >>]

\* notifyRecursive(): one pair of events for every phrase with built
\* subphrases.  The range of all other events is closed; this one ends one past
\* the last row, and a view is told of a row that is none.
TreeTold ==
  [p \in Parents |-> IF Live(p) /\ p \in built THEN Append(rows[p], NoPhrase) ELSE << >>]

\* With immediatelyNotify, the default.  A view does not join while views are
\* told of what it would be told of again: after rows changed and before the
\* loop for it is over.
Observe(v) ==
  /\ ClientRuns
  /\ \A i \in DOMAIN stack : Sending(stack[i]) => Head(stack[i].todo).type \in {"aboutRemove", "aboutInsert"}
  /\ handle[v] = Nil /\ NextHandle <= MaxHandle
  /\ observers' = [h \in DOMAIN observers \cup {NextHandle} |->
                     IF h = NextHandle THEN v ELSE observers[h]]
  /\ handle' = [handle EXCEPT ![v] = NextHandle]
  /\ shown' = [shown EXCEPT ![v] = TreeTold]
  /\ UNCHANGED << worldVars, modelVars, stack >>

\* No view erases the element of the map a loop stands on.
Unobserve(v) ==
  /\ ClientRuns
  /\ handle[v] # Nil
  /\ \A i \in DOMAIN stack : Update(stack[i]) /\ stack[i].calling => stack[i].cursor # handle[v]
  /\ observers' = [h \in DOMAIN observers \ {handle[v]} |-> observers[h]]
  /\ handle' = [handle EXCEPT ![v] = Nil]
  /\ shown' = [shown EXCEPT ![v] = NoRows]
  /\ UNCHANGED << worldVars, modelVars, stack >>

\* subphrases() of a row for the first time: the generator's phrases, by way
\* of updateChildren() if the generator has a model, and without a word if not.
Build(r) ==
  /\ Idle \/ (ViewRuns /\ BuildInLoops)
  /\ Live(r) /\ r \notin built
  /\ built' = built \cup {r}
  /\ IF r \in Silent
     THEN rows' = [rows EXCEPT ![r] = Generated[r]] /\ UNCHANGED stack
     ELSE stack' = Append(stack, UpdateFrame(r, Generated[r])) /\ UNCHANGED rows
  /\ UNCHANGED << worldVars, sources, resources, viewVars >>

\* subphrases() of the root before it has rows: generators make none for it, so
\* that there is nothing to tell either way.
BuildRoot ==
  /\ ClientRuns /\ Root \notin built
  /\ built' = built \cup {Root}
  /\ UNCHANGED << worldVars, sources, resources, rows, viewVars, stack >>

\* updateChildren() called by a client that has a new list for a row, one whose
\* children views were told of.
UpdateChildren(r, next) ==
  /\ Idle /\ Live(r) /\ r \in built \ Silent
  /\ stack' = << UpdateFrame(r, next) >>
  /\ UNCHANGED << worldVars, modelVars, viewVars >>

-----------------------------------------------------------------------------
(* updateChildren() and trigger() *)

\* What a view makes of an event.
Replay(tree, e) ==
  IF e.type = "removed"
  THEN [p \in Parents |-> IF p = e.at THEN Without(tree[p], e.lo, e.hi)
                          ELSE IF p \in ToSet(Range2(tree[e.at], e.lo, e.hi)) THEN << >>
                          ELSE tree[p]]
  ELSE IF e.type \in {"inserted", "told"}
  THEN [tree EXCEPT ![e.at] = With(@, e.lo, Range2(rows[e.at], e.lo, e.hi))]
  ELSE tree

Ahead(f) == {h \in DOMAIN observers : h > f.cursor}

InLoop(types) ==
  ~Idle /\ Sending(Top) /\ ~Top.calling /\ Head(Top.todo).type \in types

Become(frame) == stack' = Append(Rest, frame)
NextEvent(more) ==
  LET next == [Top EXCEPT !.todo = more \o Tail(@), !.cursor = -1]
  IN  Become(IF next.todo = << >> THEN NextBatch(next) ELSE next)

Visit ==
  /\ InLoop(ABOUT \cup {"removed", "inserted", "told"}) /\ Ahead(Top) # {}
  /\ LET h == CHOOSE h \in Ahead(Top) : \A g \in Ahead(Top) : h <= g
     IN  /\ Become([Top EXCEPT !.cursor = h, !.calling = TRUE])
         /\ shown' = [shown EXCEPT ![observers[h]] = Replay(@, Head(Top.todo))]
  /\ UNCHANGED << worldVars, modelVars, observers, handle >>

Return ==
  /\ ViewRuns
  /\ Become([Top EXCEPT !.calling = FALSE])
  /\ UNCHANGED << worldVars, modelVars, viewVars >>

LoopEnds(types) == InLoop(types) /\ Ahead(Top) = {}

\* The rows go; the phrases that hung below them go with them.
Erase ==
  /\ LoopEnds({"aboutRemove"})
  /\ LET e    == Head(Top.todo)
         gone == ToSet(Range2(rows[e.at], e.lo, e.hi))
     IN  /\ rows' = [p \in Parents |-> IF p = e.at THEN Without(rows[p], e.lo, e.hi)
                                       ELSE IF p \in gone THEN << >> ELSE rows[p]]
         /\ built' = built \ gone
  /\ NextEvent(<< >>)
  /\ UNCHANGED << worldVars, sources, resources, viewVars >>

\* Lost rows may leave the list too short for the next batch: past the end an
\* insertion is undefined, and the model stops.
Insert ==
  /\ LoopEnds({"aboutInsert"})
  /\ LET e == Head(Top.todo)
     IN  /\ e.lo <= Len(rows[e.at])
         /\ rows' = [rows EXCEPT ![e.at] = With(@, e.lo, Range2(Top.goal, e.lo, e.hi))]
  /\ NextEvent(<< >>)
  /\ UNCHANGED << worldVars, sources, resources, built, viewVars >>

\* Past an insertion the new rows are looked at one by one.
Inserted ==
  /\ LoopEnds({"inserted"})
  /\ LET e   == Head(Top.todo)
         new == IF e.at = Root THEN Range2(rows[Root], e.lo, e.hi) ELSE << >>
     IN  NextEvent([i \in DOMAIN new |-> Event("check", new[i], 0, 0)])
  /\ UNCHANGED << worldVars, modelVars, viewVars >>

\* A new row that has children by now: they are announced.
Check ==
  /\ ~Idle /\ Update(Top) /\ Top.todo # << >> /\ Head(Top.todo).type = "check"
  /\ LET p    == Head(Top.todo).at
         last == Len(rows[p]) - 1
     IN  NextEvent(IF p \in built /\ rows[p] # << >>
                   THEN << Event("aboutTell", p, 0, last), Event("told", p, 0, last) >>
                   ELSE << >>)
  /\ UNCHANGED << worldVars, modelVars, viewVars >>

Passed ==
  /\ LoopEnds({"removed", "aboutTell", "told"})
  /\ NextEvent(<< >>)
  /\ UNCHANGED << worldVars, modelVars, viewVars >>

UpdateReturns == ~Idle /\ Update(Top) /\ Top.todo = << >>

Leave ==
  /\ UpdateReturns
  /\ stack' = Rest
  /\ UNCHANGED << worldVars, modelVars, viewVars >>

-----------------------------------------------------------------------------
Init ==
  /\ managed = [m \in Managers |-> {}]
  /\ title \in {[r \in Rsrcs |-> t] : t \in Titles}
  /\ sources = << >> /\ resources = {} /\ built = {}
  /\ rows = NoRows
  /\ observers = << >> /\ handle = [v \in Views |-> Nil]
  /\ shown = [v \in Views |-> NoRows]
  /\ stack = << >>

Next ==
  \/ \E m \in Managers, r \in Rsrcs : AddResource(m, r) \/ RemoveResource(m, r)
  \/ \E x \in OperManagers, r \in Rsrcs : Operated(x, r)
  \/ \E r \in Rsrcs, t \in Titles : Relocate(r, t)
  \/ \E m \in Managers, x \in OperManagers : AddSource(m, x) \/ RemoveSource(m, x)
  \/ ResetSources
  \/ \E v \in Views : Observe(v) \/ Unobserve(v)
  \/ BuildRoot
  \/ \E r \in Rsrcs : Build(r) \/ \E next \in NewLists : UpdateChildren(r, next)
  \/ Deliver \/ Delivered \/ Visit \/ Return
  \/ Erase \/ Insert \/ Inserted \/ Check \/ Passed \/ Leave

Spec == Init /\ [][Next]_vars

-----------------------------------------------------------------------------
(* Type invariant *)

TypeOK ==
  /\ managed \in [Managers -> SUBSET Rsrcs] /\ title \in [Rsrcs -> Titles]
  /\ sources \in Seq(Managers \X OperManagers) /\ IsInjective(sources)
  /\ resources \subseteq Rsrcs /\ built \subseteq Parents
  /\ rows[Root] \in Seq(Rsrcs) /\ \A r \in Rsrcs : rows[r] \in Seq(Parts)
  /\ DOMAIN observers \subseteq Handles
  /\ \A v \in Views : handle[v] # Nil => handle[v] \in DOMAIN observers /\ observers[handle[v]] = v
  /\ \A i \in DOMAIN stack : Update(stack[i]) \/ i = 1

-----------------------------------------------------------------------------
(* Safety *)

Exact(list, p)      == list = rows[p]
OneTooMany(list, p) == p \in built /\ list = Append(rows[p], NoPhrase)
Untold(list, p)     == p \in Silent /\ list = << >>

\* Between calls the rows a view has put together from its events are the rows
\* of the model, at every phrase whose children it may ask for, whenever it
\* joined and in whatever batches rows went and came - but for one row too many
\* at the end, which only the first notification announces, and for children
\* that were built without telling it, of which it has none.
ViewsMirrorRows ==
  Idle => \A v \in Views, p \in Parents :
            LET list == shown[v][p]
            IN  handle[v] # Nil /\ Live(p) => Exact(list, p) \/ OneTooMany(list, p) \/ Untold(list, p)

\* Between calls the root has one row for each resource of m_resources,
\* however many sources tell of the same resource.
RowsAreResources ==
  Idle => /\ ToSet(rows[Root]) = resources
          /\ IsInjective(rows[Root])

\* Between calls every resource of a watched manager is shown, whether it came
\* before or after the source or was created by an operation first.
ResourcesShown ==
  Idle => \A m \in Managers : Watched(m) => managed[m] \subseteq ToSet(rows[Root])

\* Once a watched manager has let a resource go, its row is gone.
RemovedDisappear ==
  [][\A m \in Managers : Watched(m) =>
       (managed[m] \ managed'[m]) \cap ToSet(rows'[Root]) = {}]_vars

\* An update that keeps the order of the rows that stay and adds new ones in
\* one place leaves the list it was given.
OrderlyUpdateDone ==
  UpdateReturns /\ Top.keeps /\ Top.onePlace => rows[Top.parent] = Top.goal

-----------------------------------------------------------------------------
(* What the headers and comments say, and the code does not do *)

\* PhraseModel.h on updateChildren(): "Infer changes between sets of
\* subphrases; affect these changes; and notify observers" - here of updates
\* that move no row, in how many places they ever insert.
UpdateDone == UpdateReturns /\ Top.keeps => rows[Top.parent] = Top.goal
=============================================================================
