# A verification model of SMTK

SMTK (the Simulation Modeling Tool Kit) is a C++ library for preparing
simulations: geometric models, meshes, attributes describing the physics,
operations that change them, and the views a desktop application shows of them.
This directory holds TLA+ modules translated from `src/smtk`, TLC
configurations that check them on small instances, and TLAPS proofs.

## How the program runs

SMTK runs on the application's thread. Only the Qt networking of
`smtk/extension` has threads of its own, and it shares no state with the rest.
What makes the code hard is therefore not preemption but

* *re-entrancy*: managers notify observers in a loop over a live
  `std::map<int, Observer>`, and an observer may call back into the manager, start
  another operation, change the selection or change the observers;
* *state kept twice*: a resource has a weak pointer to its manager and sits in
  its container under three keys; an attribute sits in three indices of its
  collection; attributes and model managers each have a copy of what is
  associated with what; a reference between attributes and an arrangement between
  entities have two ends, both with positions in arrays; a phrase model mirrors the
  resources of its sources, a view the rows of the phrase model, a panel the
  selection;
* *protocol sequences*: long runs of legal calls (rename after removal, add of a
  second object with an id, an operator made by a manager that never imported
  its specification, a value removed in front of others) reach states no unit
  test visits.

## Inventory

| Component | State it keeps | Operations | Interacts with | What makes it correct |
|---|---|---|---|---|
| `resource::Manager` | `m_resources` (by id, type, location), `m_observers`, static `s_metadata` | register, create, read, write, add, remove, get, find, observe, unobserve | `Resource` back pointers; observers (phrase models, panels) | ids unique, back pointers and containers agree, indices never stale, observers see exactly the content |
| `resource::Resource` | `m_id`, `m_location`, weak `m_manager` | `setId`, `setLocation` | re-keys its manager's container | changes only itself, no lookup misses |
| `resource::Set` | id → resource or unread info, order of ids | add, addInfo, remove | readers of resource sets | order and map hold the same ids |
| `operation::Manager` | static dictionary and observers, per-manager collection of specifications | register, create, observe, trigger | attribute collection, operators, phrase models | an operator that was created can run |
| `operation::Operator` | specification, weak manager, per-operator observers | operate (WILL, run or cancel, log, DID) | everything an operation changes | WILL and DID come in pairs, cancel is honoured, the result has the log of its own run |
| `attribute::Collection` | definitions, attributes by name, by id and by type, derived definitions | create, remove and rename attributes and definitions | operators' specifications, readers, views | the three indices agree |
| `attribute::Attribute`, `RefItem` | values (weak pointers), `m_references` | set, append, remove, resize, unset, reset, assign, destruction | other attributes | both ends agree, destructors clear what is theirs and no more |
| `attribute::ValueItem` | values, flags, discrete indices, expressions, in parallel vectors; active children | set, append, remove, resize, unset, reset, assign, expressions | `RefItem` | the vectors stay parallel, children are those of the value, answers are true |
| `attribute::ModelEntityItem` and associations | slots of entities; `m_attributeAssignments` of the model manager | associate and disassociate on either side, erase, copy, read, split, merge | model manager, sessions | both copies agree, nothing is lost without a word |
| `model::Entity`, `Arrangement` | relations, arrangements that index them, the first hole | embed, group, instance, their removal, raw relations, erase | model manager | duals agree, an index goes on to mean the same |
| `model::Session` and bridges | dangling entities, operators | transcribe, export, import | kernels (CGM, Discrete, remote) | nothing transcribed twice |
| `mesh::Collection`, MOAB interface | MOAB sets, reverse classification | create, merge, associate | model entities | sets partition as promised |
| `view::PhraseModel`, `ResourcePhraseModel` | sources, handles, rows of phrases, `m_resources` | addSource, removeSource, updateChildren, observe | both managers; Qt models | the rows an observer follows are the model's rows |
| `view::Selection` | object → value, filter, listeners | modify, refilter, setFilter, observe, unobserve | resource panel, representations | listeners end with the selection, order does not matter |
| `common` | generators, weak-pointer registries, union-find, range detection | | | the algorithms compute what they promise |
| `io`, `simulation`, `extension` | files, exporters, Qt/ParaView panels | | | I/O and user interface, not modelled |

`PROJECT.json` gives the status of each, the hazards with their lines, and the
lines every definition stands for.

## The modules

| Module | Component | What it is |
|---|---|---|
| `Registry` | `resource::Manager` | the abstract specification: a table of resources under ids for each manager |
| `ResourceManager` | `resource::Manager`, `Resource`, `Metadata` | registry under three keys, observers, files; implements `Registry` |
| `ResourceManagerProofs` | | theorems about it, the refinement included |
| `Operation` | `operation::Manager`, `Operator` | registration, life of `operate()`, a stack of nested calls |
| `OperationProofs` | | theorems about it |
| `PhraseModel` | `view::PhraseModel`, `ResourcePhraseModel`, the Qt model as a view | sources, rows, event loops, views that replay events |
| `PhraseModelProofs` | | theorems about it |
| `Selection` | `view::Selection`, the resource panel | six actions with filters, loops of listeners of which one answers |
| `SelectionProofs` | | theorems about it |
| `AttributeCollection` | `attribute::Collection` | definitions and their tree, attributes under three indices |
| `References` | `attribute::RefItem`, `Attribute` | both ends of references between attributes, destructors |
| `AttributeProofs` | | theorems about `AttributeCollection`, `References` and `ValueItem` |
| `ValueItem` | `attribute::ValueItem` and its template | composed with `References`: every element has a `RefItem` for an expression |
| `Associations` | `attribute::Attribute`, `ModelEntityItem`, `model::Manager`, `model::Session` | the two copies of what is associated, calls in both directions |
| `AssociationsProofs` | | theorems about it |
| `Arrangements` | `model::Entity`, `model::Manager` | relations, arrangements and their duals |
| `ArrangementsProofs` | | theorems about it |
| `Inductions` | | lemmas the proofs share: least and greatest elements, induction over sets of numbers, finite sets and folds |
| `MC...` | | values for the constants of one small instance |

The component modules treat time in two ways, because their hazards differ. In most
of them a call is one step: what can go wrong comes from the order of
whole calls. In `Operation`, `PhraseModel` and `Selection` a call is a *frame of a
stack*, and a loop over observers is a frame with a cursor: between two steps of
the innermost frame client code runs and may call anything the code would let it
call. In `References`, `ValueItem`, `Associations` and `Arrangements`, where one call
makes several others that change state, those are operators on a record `now`, so
that the module that composes them (and a call inside a call) can use them too.

Definitions whose comment begins "A plausible bug" are variants of a definition
of the code that no behaviour uses. They show that the property they belong to can
fail: put in place of the definition, the property is violated.

### ResourceManager and Registry

State: `registered` is `s_metadata`; `resources[m]` is `m_resources` of manager
`m`; `manager`, `id`, `location` are the members of each `Resource`; `observers`
is `m_observers`, a map from `int` handles; `disk` is what the urls hold.
`stale` says which elements of a container had a key changed other than through
`modify()`: boost's `multi_index_container` is a set of search trees, and a
search through a tree with a wrong key may miss, so `FindId` and `FindUrl` may
return nothing there.

| Action | Code |
|---|---|
| `Register` | `registerResource`, refused by index or unique name |
| `New`, `Construct` | constructors of `Resource` |
| `CreateWithId`, `Create` | `create(index, uuid)`, `create(index)` |
| `Add`, `AddEffect` | `add`: by id, link, insert, ADDED events |
| `Remove` | `remove`: by id, REMOVED events, erase, unlink |
| `SetId`, `Rekey` | `Resource::setId` and the functor that modifies the id |
| `SetLocation`, `Relocate` | `Resource::setLocation` |
| `Read`, `Write`, `WriteTo` | `read`, both forms of `write` |
| `Observe`, `Unobserve` | `observe` with and without the current state |
| `DestroyManager` | the last reference to a manager goes; back pointers expire |

`handle`, `seen` and `call` belong to the clients: the handle they were given,
the tally they keep from events (`TestResourceManager` counts the same way), and
what the last call returned.

`Registry` says what a session relies on: each manager has a table from ids to
resources and a resource has one line in all of them. A step enters, withdraws or
renumbers one line, or closes a manager. `Entries` maps a state of
`ResourceManager` to the lines; `ImplementsRegistry` is `Registry`'s specification
under that mapping.

### Operation

A frame has the operator, the phase (`will`, `willOwn`, `run`, `did`, `didOwn`,
or `created`), the key its iterator stands on, whether an observer is being
called, the status the answers are or-ed into, the length of the log at the
beginning, and the records its result took from it. `Visit` calls the next observer, `Return` is its answer, `NextLoop`
goes from the manager's observers to the operator's own, `Run`, `Cancel`,
`Finish` and `Leave` are the rest of `Operator::operate()`. `Operate` begins it,
with the specification made on demand; `Refuse` is a call that
`ableToOperate()` turns down. `crashed` names the null pointer that was
dereferenced: in `ableToOperate()` for a missing specification, in
`generateSummary()` for a missing result.

`log` is the one logger that operators share (the model manager's). A record stands
for the number of calls that had begun when it was written, so that one can say which
calls it is of; when a call returns, what was written in it is left to its caller.
`Note` is an `operateInternal()` that logs, `Reset` one that reads XML with the shared
logger, as `ImportPythonOperator` does: `AttributeReader::readContents` empties it,
under all calls that have read its length already. `Conclude` writes the summary and
puts `RecordsOf` the call into its result, as `operate()` does.

`Definition(op)` is the condition under which a specification or a result can be
created: manager alive, type in the static dictionary, XML imported by that
manager.

### PhraseModel

`sources` and `resources` are `m_sources` and `m_resources`; `rows[p]` is
`m_subphrases` of the root or of a resource's phrase; `built` is
`m_subphrasesBuilt` of either. `Build` is the first `subphrases()` of a row: an update
if its generator has a model, and no event at all if it has none (`Silent`;
`DescriptivePhrase.cxx:370`). `BuildRoot` is that of the root, which has nothing to set.
`updateChildren()` compares two lists and sends pairs of
events around batches of removals and insertions. A frame has the rows still to
remove and to insert (`unused`, `insert`); `NextBatch` takes up the next run of
them, from the back for removals and from the front for insertions (with the row
it loses, see the findings), `todo` are the events still to send, `Erase` and
`Insert` the changes between them. After lost rows an insertion may lie past the
end of the list, which is undefined; `Insert` is not enabled there.
`Check` is the look at rows that were just inserted. A `deliver` frame is a
resource manager (or an operation that created components) telling the model of
resources, with `managed` changing after the events for a removal and before them
for an addition, as in `resource::Manager`. Views (the Qt model) follow the
events: `Replay` is what one of them makes of an event. `shown` is what it
believes. One that joins is told of each list with a range that ends one past the last
row (`TreeTold`, `PhraseModel.cxx:149`); it takes the range as closed, as those of all
other events are, and shows one more row, `NoPhrase`, than there is.

### Selection

`selection` has a value for every component (0: not in the map). `PerformAction`
is the loop of `modifySelection` for one component: what the filter makes of it,
and what it suggests (`PutAll`). `Modified` and `Refiltered` are what is selected in
the end, with the components in an order that nothing fixes (`std::set` of
pointers). `loops` are the loops of `notifyListeners`, each with the handle it
stands on; `Tell` calls the next listener, which for the panel means: copy the
selection to the rows, and, unless the panel is the source of the change, Qt's
signal has it `modifySelection` again from there (`Answers`), which starts a loop
inside the loop. `told` is the selection a listener was called with last or, if it was
not called yet, joined: `Observe` takes `immediatelyNotify` both ways, since its default
is not to call (`Selection.h:339`) and the panel and the representations leave it there.

### AttributeCollection

`definitions`, `derived`, `byName`, `byId` and `clusters` are `m_definitions`,
`m_derivedDefInfo`, `m_attributes`, `m_attributeIdMap` and
`m_attributeClusters`; `def`, `name`, `id` are the attribute's own members.
Objects are held by shared pointers, so `RemoveAttribute` and `RemoveDefinition`
leave them usable and `Release` and `ReleaseDefinition` are their deaths.
`FindAttributes` is `internalFindAttributes()`: what it collects down to a depth is the
recursive function `Found`. `Bases` is the chain behind `Definition::isA()`, climbed
a base at a time by `Climb`. Both go as deep as there are definitions.

### References

`values` is `m_values` of each item, `refs[a][i]` the positions that attribute `a`
keeps for item `i` (`m_references`). `SetValue`, `AppendValue`, `RemoveValue`,
`SetNumberOfValues`, `Unset`, `ResetItem` and `AssignItem` are the item's methods with
what each tells the attributes. `DestroyItems` is the destructor of an item.
`DestroyAttribute` is that of an attribute: every item in `m_references` unsets
the positions noted there, by which time weak pointers to the attribute have
expired, and then its own items go. `broken` says that an assertion failed or
a pointer to nothing was followed.

### ValueItem

`data`, `isSet`, `index` and `exprs` are the parallel vectors `m_values`, `m_isSet`,
`m_discreteIndices` and `m_expressions`. What an element holds for a client
(`Shown`) is a value, an attribute that is its expression, or nothing. The
references behind `exprs` are those of `References`, so that the death of an
attribute reaches the elements it was the expression of. `active` is the discrete
value whose children items are active. The calls are the item's methods, with
the answer in `lastCall.ok`. New `RefItem`s are any of the pool that are not in use, one
for each element (`BuildExpressions`). `reset` and `assign` are loops over the elements
(`Each`), and `BuildHolder` goes through the items of an attribute.

### Associations

`values` are the slots of each attribute's association item, `assigned` what the
manager has for each entity. `AttributeAssociates`,
`ManagerAssociates`, `AttributeForgets`, `ManagerForgets` and the operators next to
them are the methods of `Attribute`, `EntityRef` and `model::Manager` that call each
other: an operator for each direction. `Split` and `Merge` are
`Session::splitAttributes` and `mergeAttributes`. `erased` notes the entities
whose assignments a manager dropped when it erased them, of which attributes are not
told. `call.ok` is `"never"` for a call that never returns.

### Arrangements

`relations`, `arranged` and `hole` are `m_relations`, `m_arrangements` and
`m_firstInvalid` of each entity. Positions in the code count from 0 and -1 is none;
here they count from 1 and 0 is none. `AppendRelation` fills the first hole and
looks for the next (`consumeInvalidIndex`), `FindOrAppend` does not;
`Invalidate` leaves a hole and notes it, `Elide` (erasing) leaves holes that
nobody notes. `Unarrange` finds the dual first, takes out its own arrangement
and then the dual. The code makes the inner call the same way; it finds no dual any
more, so two levels are all.

## What is assumed of clients

These are switches of the modules, assumptions on constants, or guards with a
comment. They say what callers do, not what the code checks; where a run or a
section below shows what happens otherwise, it is named.

* `ResourceManager`, `AllowReparent = FALSE`: nobody adds a resource to a second
  manager. The code allows it and leaves the resource in both.
* `Operation`, `LateRegistration = FALSE`: operators are registered by static
  initialisers before managers exist, as the operator macros do. `EarlyRelease =
  FALSE`: a manager outlives its operators. Both together are what
  `OperationsComplete` needs.
* `PhraseModel`, `BuildInLoops = FALSE`: a view does not ask a new row for its
  children while it is announced. Views change no resource and no source from
  inside a notification, do not join in the loop that tells of an insertion or a
  removal that has already happened, and each resource has one phrase. They join with
  `immediatelyNotify`, which is the default (`PhraseModel.h:125`) and what the one
  caller in the repository passes (`qtDescriptivePhraseModel.cxx:141`). Clients call
  `updateChildren()` for a row whose children were announced, not for one in `Silent`.
* `AttributeCollection`, `Careful = TRUE`: what was removed from a collection is left
  alone, definitions are removed when they have no attributes, and a reader does not
  read an id twice.
* `References`, `Careless = FALSE`: values are taken out from the end only,
  shrinking drops unset values only, an item is not copied onto another when only
  its first value is unset (run `reference_removed` is the first of these).
* `ValueItem`: no definition is discrete and allows expressions; no call passes a
  null attribute where the code dereferences it. `AnswersTrue` is asked with
  `Careless = FALSE`: the value of a discrete item is put by its index, not by
  `setValue` (see the disagreements). `PoolSuffices` is about the model's bounds:
  they have room for the size a definition asks for, and there are as many
  `RefItem`s as elements that may need one. `new` in the code does not fail.
* `Associations`, `Foreign = FALSE`: the collection keeps its model manager, and
  entities of no other one are associated (run `association_foreign`).
* `Selection`: one panel; the value 0 is not registered (it means "not selected");
  no listener other than the panel modifies the selection from inside the loop.
* `Arrangements`, `ArrangementConstantsOK`: a pair of entities is arranged in one way
  only, and an instance is not instanced. A raw relation is elided
  only where no arrangement uses it.
* Everywhere: an observer does not erase the map element its own loop stands on.
  That is undefined behaviour of `std::map` for which no outcome can be modelled.

## The runs

| Run | Question | Result |
|---|---|---|
| `resource_manager` | do registry, indices and observers agree, and is all of it the table of `Registry`? | holds, 394,109 states |
| `operation` | events in pairs, cancel honoured, a result's log its own, no null pointer, calls return | holds, 223,929 states |
| `phrase_model` | do rows and views follow resources and events? | holds, 1,070,828 states |
| `phrase_update_children` | does an update leave the list it was given? (`PhraseModel.h:130`) | violated |
| `attribute_collection` | do the three indices and the tree agree? | holds, 207,149 states |
| `associations` | do attribute and manager agree whoever is called first, and do sessions hear of what is lost? | holds, 352,490 states |
| `association_foreign` | does `associateEntity` answer? (`Attribute.cxx:434`) | violated |
| `references` | do both ends agree, and do destructors clear what is theirs only? | holds, 6,821 states |
| `reference_removed` | does the assertion at `RefItem.cxx:242` hold after `removeValue`? | violated |
| `values` | do the vectors stay parallel, and are the answers of calls true? | holds, 11,754 states |
| `selection` | does no change go by a listener, do rows and selection agree, does order not matter, do calls return? | holds, 71,907 states |
| `arrangements` | do both ends agree, and does no call change what another arrangement means? | holds, 87,931 states |

`PROJECT.json` lists the properties of each; a comment above each property in its
module says what it is about. Each is paired there with a plausible bug that
violates it.

### Bounds, and why they are enough

* `resource_manager`: two resources of two types (one derived from the other), two
  managers, three ids (two in use and one to move to), two urls (none and one),
  two observers with handles 0 and 1. Collisions need two resources, wrong managers
  two managers, reuse of handles two observers of one manager.
* `operation`: one operator whose calls nest (`MaxDepth` 2: an operation run by
  an observer or by the operation itself), two observers of the manager, of
  which one also observes the operator, so that every loop can change under its
  iterator; handles go to 2, so that both observers can join, the first one leave and
  join again in one loop; `MaxLog` 3 leaves room for the summaries of both levels and
  a note of one. A
  second operator adds nothing to a stack of two: frames refer to an operator
  only for its specification and its own observers.
* `phrase_model`: two sources with one resource manager (the case in which the
  model is told of everything twice), two resources with two locations, lists of up
  to three components so that rows go and come in two batches, and two views. The
  children of one resource are announced, those of the other are set without an event.
* `attribute_collection`: three types, one with two definitions that replace each
  other (the first is abstract), so that a chain of three definitions, a fork and a
  replaced base occur; two attributes, three names that two types draw
  overlapping series from, and two ids.
* `associations`: two attributes that take two entities and one that takes one, of
  which two are made (`MaxMade`); three entities, of which one does not fit the
  small one. Full items, empty slots in the middle, refusals and merges of two into
  one need no more.
* `references`: two attributes that may refer to themselves and to each other, an item
  of any size, one of two values and one that lives and dies apart from any
  attribute; `MaxLen` 3 has a value with one on either side.
* `values`: an extensible item, a second one it is assigned to and from, a discrete
  one of fixed size with a default, and four `RefItem`s: one for each element that
  allows an expression.
* `selection`: a component without a row, a filter that refuses, one that suggests and
  one that replaces, two values. Loops nest no deeper than `MaxDepth`: the run
  would stop in a deadlock if they did.
* `arrangements`: `MaxRelations` 3, so that there are holes at the front, in the
  middle and at the end, and none; entities with two arrangements of a kind and of
  three kinds; raw relations that share a place with an arrangement and that fill
  its hole. Ids are inserted once: when all were erased nothing is left to do, and
  this run alone does not check for deadlock.
* The violation runs have the smallest instance that shows the disagreement.

Symmetry is used for safety and action properties only, over sets whose members are
told apart by nothing (managers, ids, clients; views and operation managers;
attributes, entities and ids). Observers of `Operation` are numbers, since a
`std::set<std::pair<Fn, void*>>` visits them in the order of addresses, and that
run uses no symmetry, nor does `selection`, which checks liveness. `values` has a
view as well: which `RefItem` an element has makes no difference, so states that
differ by the numbers of `RefItem`s only, or by what the last call was, count as one.
No property reads the call of the state a step starts from.

### Fairness

`operation` and `selection` check liveness. The program has one thread and
nothing preempts it, so the steps of a loop are weakly fair. In `Operation`,
`Return` and `Finish` stand for client code that returns in the end, at whatever depth
of the stack it runs; they are strongly fair, for each depth, because a nested call
disables them for a while. In `Selection` the listeners return (`Tell`, `Told`). Nothing
is assumed of the clients' choices to leave, to nest or to log, nor that the panel's
answers come to an end: that these cannot keep a call from returning comes from the
finite depth of calls, from the order of handles in the loop, which only moves forward,
and, for the panel, from rows that agree with the selection after one answer.

`OperateReturns` has a premise: from some time on nobody joins. The loops go over the
live map, a new handle is larger than all others and so lies ahead of the iterator, and
an observer that joins from every callback (or two that leave and join for each
other) would keep the loop of `Manager.cxx:195` going for ever although every callback
returns. `MaxHandle` would hide that, so the property does not rely on it: it asks only
for the runs in which joining ends, and there shows that cancelling, leaving, nesting
and the loops following one another let every call return.

## What is proved

All theorems hold for any number of managers, resources, types, clients, attributes,
items and so on, from the assumptions on constants in the modules.

**ResourceManagerProofs** (`RegistrySafe`, `LookupsSafe`, `AgreementSafe`). Assumption:
`~AllowReparent`. The inductive invariant is `RegistryInv`: types of the part of
the state behind the indices, `LinkIffManaged`, `UniqueIds`, and that managed
resources are alive. The part `IndexTypeOK` has the key: no index is ever
stale. Neither of the properties is inductive alone. `UniqueIds` under `setId`
needs that the search for the old id finds this resource, which needs
`LinkIffManaged` and that the index is not stale; that it is not stale after
`setId` needs that no *other* container holds the resource, `LinkIffManaged`
again. `FindIdExact` states what a search returns, and each call has a lemma.

The same module, about observers and `setId` (`RegistryTypeOK`, `EventsMirrorContent`,
`HandlesSafe`, `SetIdSafe`): on top of `RegistryInv`, `ObserverInv` adds that a client's handle is in the map under its name, that every entry of
the map belongs to a client that holds it (`NoForgottenObserver`), and
`ObserversMirror`. That a new handle is new rests on
`LargestHandle`: a nonempty set of naturals below a bound has a largest element.
That an event changes every tally the right way rests on the fact that it reaches
exactly those whose handle is for this manager, and that `add` and `remove` act on a
resource that is, respectively, not in and in the container.

The refinement (`RegistryRefined`, there too): every behaviour of
`ResourceManager` is one of `Registry` under `Entries`. The initial states map to the
empty table. For a step, one lemma for each way in which containers and ids can
change says which step of the table it is, and `RegistryInv` supplies what the
table asks: a resource that enters has no line since its back pointer would say so,
and the id is free since the search for it misses nothing.

**OperationProofs** (`OperationTypeOK`, `WillDidSafe`, `CancelSafe`, `LogSafe`,
`OperationsCompleteSafe`). The invariant `OperationInv` says of every frame of the
stack, not only of the innermost one, what it needs when control comes back to it:

* `StayHere`: whoever is promised both events is still in the map or the set the
  loop goes through (that observers may leave is why `stay` shrinks with them);
* `ToldSoFar`: a loop has told everybody at or before its cursor, and the
  operator's own observers come after all those of the manager. At the end of a
  loop nobody is ahead of the cursor, which is `WillDidPaired`. It survives
  observers that join because a new handle is larger than all others, and it
  survives a nested operation since that has a frame of its own;
* `VetoKnown`: the status of a loop is what was answered so far;
* `LogKnown`: of a call that is not concluded, the records behind the length it has read
  are those of it and of the calls inside it, unless the log was reset since: then all
  records are. So what it takes, wherever the log was cut, is never older than itself;
  that it is all of it when nobody reset the log (`ResultWhole`) is counted in
  `TakesItsRecords`. `NoneDeeper` says that a record of a call that returned is its
  caller's. `RoomLeft`: every call that is not concluded finds room in the bounded log
  for its summary.

`OperationsCompleteSafe` assumes `~LateRegistration`, `~EarlyRelease` and that every
type has a description: `DefinitionsComplete` adds that every manager has imported
every registered type, which registration after the fact and types without
description break (both are listed below as disagreements).

**PhraseModelProofs** (`PhraseTypeOK`, `MirrorRowsSafe`, `RowsSafe`, `ShownSafe`,
`RemovedSafe`, `OrderlySafe`). Assumption: `~BuildInLoops`. The invariant is
`PhraseInv`:

* `Stacked`: the stack is a delivery with at most one update of the root's rows above
  it, or one update of a row below the root. Each update is `UpdateGood`: the rows
  its frame has left to remove, with the batch that is announced, are exactly the
  rows not asked for (`WorkKnown`), and its events are those of one of six phases
  (`Shaped`). That a batch taken out of the list leaves the places of the others
  right is `EraseData`, which needs that batches go from the back; `InsertData` is the
  same for insertions, and needs that the rows in front of the place are those of
  the new list already, which is true of the first batch only. That is why
  `OrderlyUpdateDone` asks for one place, and where the lost rows of the findings
  come from;
* `Rooted`: the rows of the root are `m_resources`, or they will be when the update
  in progress returns; an update by `processResource` adds one row at most, so it is
  always in one place (`OneFresh`);
* `Watchful`: what a watched resource manager has is known or waits in the queue of
  the delivery, what is about to leave it is not known or waits there. This relates
  three pieces of state in the middle of `add`, `remove` and `addSource`, and is what
  `ResourcesShown` and `RemovedDisappear` follow from;
* `Tree`: only rows of the root that were asked for children have any, so that
  `trigger` finds nothing to announce below a new row. This is what
  `BuildInLoops` would break;
* `Mirror`: a view shows the rows (`Shows`), or it is ahead of the cursor of the loop
  that tells of a change, and replaying that event will make it show them. To show
  the rows of a phrase is one of three things (`ListShown`): to have them, to have them
  and one more at the end, which a removal or an insertion in front of it leaves there,
  or to have none where the children were set without an event. That updates concern
  lists a view knows of is part of `Stacked`.

**SelectionProofs** (`SelectionTypeOK`, `ToldSafe`, `MirrorSafe`, `OrderSafe`). The
invariant `SelectionInv`: a listener was last called with the selection of now, or joined it, or the
innermost loop has it before it (`HearsInTime`), and the rows are those of the
selection or a loop that the panel did not begin will call it (`MirrorsInTime`). Both
hold since a change that happens inside a loop begins a loop of its own, and need
that a change which is not noted as one is none (`Noted`). `OrderSafe` is about
the fold of `PerformAction` over any number of components: `Inductions` lifts what holds
of one component to all orders of a set. It assumes `FiltersAgree`: no two
components suggest different things for a third. The filters of the repository's
panel meet it, as do those of the run.

**AttributeProofs**, about `AttributeCollection` (`CollectionTypeOK`, `IndicesSafe`,
`TreeSafe`, `LookupSafe`). `CollectionTypeOK` holds whatever clients do.
`IndicesSafe`, `TreeSafe` and `LookupSafe` assume `Careful`; the invariant is `TypeOK`,
`IndicesAgree`, `TreeClosed` and `ClustersKnown` (only definitions of the
collection have clusters) together. `IndicesAgree` survives `RemoveDefinition` only
since no attribute of it is left, and `TreeClosed` survives it only since nothing
derives from it. `LookupSafe` states `FindsExactly`: going down the derived
definitions finds the attributes whose definition reaches the asked one going up the
bases. The two walks are functions of a depth; an induction over it shows that what the
one finds within some depth the other one reaches in as many steps, and no walk is
longer than the finite number of definitions.

The same module, about `References` (`ReferencesTyped`, `ReferencesSafe`,
`DestructorsSafe`, `DestructionSafe`). Assumption: `~Careless`. The invariant `RefInv` is
`RefTypeOK`, `EndsAgree`, `AssertionsHold` and `LifeTimes` (an item of an attribute
exists only as long as the attribute does, an item that does not exist holds no values,
and a value of an item is an attribute that is alive or none). `EndsAgree` alone is lost in the destructor of an attribute, which clears
items by what is noted: that these positions exist and hold what is destroyed is
`EndsAgree`, and that the items exist is `LifeTimes`. A lemma says once for all calls
on one item which new values and new notes preserve the invariant, so that each
call has only to show that it makes such a pair; the destructor is the rest.

The same module, about `ValueItem` (`ValuesTyped`, `ExpressionsSafe`, `ChildrenSafe`,
`AnswersSafe`). The invariant `ValueInv` says that the record of the variables is
`Sound`; it is stated of records, since a call makes several of them before it
returns. The first three theorems hold whatever clients do, the last assumes
`~Careless`. `Sound` is

* `RefsGood`: what attributes have of `RefItem`s is computed from what these hold
  (`RefsOf`), one that is not there holds nothing, and one that is there for an
  expression holds one attribute that fits, or none;
* `Owns`: every element has a `RefItem` of its own, and the others of the pool are
  not there. `ExpressionsOwned` alone is lost as soon as a vector is cut or an
  item dies, since what dies with them has to be of no other element;
* `ItemGood`, of each item: the vectors are of one length, within the bound, and of a
  discrete item the values are those of the indices. That is why an element that is set
  shows a value, which `AnswersTrue` needs;
* `Fitting`, of each item whose attribute is alive: the size is one the
  definition allows, and the active children are those of the value. All other items
  have no elements.

A call changes one element (`Turned`) or makes the vectors of one item anew (`Sized`,
`Pushed`, `Taken`), and two lemmas, `BecameGood` and `RebuiltGood`, say once what
keeps `Sound` and leaves every other item as clients see it (`Apart`). The loops of `reset`
and `assign` are folds of such calls: `LoopEnds` says that a loop which does its part
at each element ends in a state in which every element is what its pass made it,
no later pass having undone it; the induction is that of `Inductions`. The second loop
of `assign` has to leave alone what the first has put, so its elements are told apart by
what the source shows (`AssignFineDone`). From these each call has a lemma that it
answers truly (`PutCalls` to `AssignCalls`). Building the items of a new attribute is a
fold over a set in an order nobody knows (`BuildAllSteps`). The
destructor is that of `References`: `ValuesRefInv` says that `ValueInv` implies its
invariant, so that the lemmas about the destructor are used as they are, and
`ExpressionLeft` what is left of an element whose expression goes.

**AssociationsProofs** (`AssociationTypes`, `AssociationsAgree`,
`AssociationsAnswer`, `NothingLostSilently`). Assumption: `~Foreign`. Calls go to and fro between an attribute
and a manager, so that the invariant has to hold in the middle of a call, too: `Good`
is about the state within a call, and there is one lemma per operator that it is given
a good state and makes a good one, down to `AppendValue` and `RemoveValue`. It says

* of an item, its rules and that the entities in it are those of the
  collection's manager (`ItemGood`). That is why a manager which is called back finds
  the reference it was called with, and answers: the theorem `AssociationsAnswer` is
  what the run `association_foreign` refutes when clients associate entities of
  others;
* of an attribute of the collection, that both copies agree (`LinksGood`); of an
  attribute that was removed from it they need not, and `CallBack` keeps such an
  attribute from being noted again.

Split, merge, copy and `disassociateAllAttributes` are folds of such calls over
sequences of any length; `FoldStays` of `Inductions` takes an invariant through them. `NothingLostSilently`
states `NoSilentLoss` and needs more of the loops than an invariant: what the step at
one position achieves (an attribute answered yes and holds the entity, a source's attributes
are gathered) no later step undoes (`FoldAchieves`). Associating takes nothing
away (`Keeps`), disassociating spares all but the source (`Spares`), and
what a later source had when the call began is still gathered, although it was
removed from earlier ones in between (`Sifted`).

**ArrangementsProofs** (`ArrangementTypes`, `ArrangementsAreMutual`, `CallsAreLocal`).
Nothing is assumed but `ArrangementConstantsOK`. `DualsAgree` is not inductive: an
index that is out of range, or two arrangements that share a relation, would agree until
one of them is taken out. The invariant `ArrInv` is

* `GoodEnd`, of each entity: its arrangements index relations to entities it may be
  arranged with, no two of one kind relate to the same entity, and the noted hole is
  one. Since a pair is arranged in one way only, two arrangements never share a
  relation (`UsedOnce`): the hole that taking one out leaves was used by no other;
* `Mutual`: an arrangement of one entity with another has its dual there;
* `Present`: only entities that are there have arrangements or are in them.

One lemma for each operator says what it does to the pairs that are arranged:
`FindOrAddFacts` adds one end and keeps all others, `TakeOutFacts` takes one out
(although the indices after it move down) and keeps all others. Both ends
together are `Joins` and `Parts`, which keep the invariant. Erasing is a fold of
`Unarrange` over kinds and, from the last, positions: `UnarrangeAllFacts` shows
that nothing is left after it, which is why the relations may be elided. `CallsAreLocal` follows since a step joins or
parts pairs its call names only.

**What the proofs changed.** The properties were checked by TLC before they were proved,
and yet proofs stopped at what no small instance has. In `ValueItem`: vectors of an
item without expressions were cut although it has none (`Resized4` now asks
`Allows`, as the code asks `allowsExpressions`); `ChildrenFollow` spoke of the first index of
a discrete item of size 0; the pool of `RefItem`s could be exhausted
(`PoolSuffices`); and the numbers by which new ones were chosen said more than the code
does.

**Model-checked only.** The liveness properties `OperateReturns` and
`CallsReturn`: fairness and `ENABLED` are beyond the prover. Every invariant and every
action property of the passing runs is a theorem. An induction with an
operator as its parameter cannot be given to the prover; `Inductions` states it for sets
of numbers instead, which is what the walks over the lists and components above use.

## Where code and words disagree

Three disagreements have a run; `PROJECT.json` quotes both sides of each. The
others were met while modelling or reading; what the assumptions above leave out is
marked so.

Resources and operations:

* `resource/Manager.h:126`: a resource added to a second manager stays in the first
  one, which goes on to hold it under a key that `setId` no longer follows
  (`AllowReparent`).
* `resource/Resource.cxx:122`: `setLocation` looks for its own resource by the old
  location and changes the first one it finds, which may be another.
* `resource/Manager.cxx:230`: `read` hands what the reader returns to `add` and never
  to its own variable, so that it always answers null, whatever it has added, and the
  assignment of the location below it is never reached.
* `resource/Manager.h:125` says `add` returns true if the resource was added or
  is already there; it returns true as well when another object with the same id is
  there and this one is not added. `remove` (`:138`) removes whatever
  has the id of its argument.
* `resource/Manager.h:106`: `find(index)` misses a managed resource whose dynamic
  type has no metadata, although it was added as one of its ancestors.
* `operation/Manager.cxx:147`: an operator registered after a manager was made is
  created by that manager without a specification, which `Operator.cxx:244` makes
  "on demand", and is dereferenced as a null pointer (`LateRegistration`).
* `operation/Operator.h:65` allows a null description of an operator's
  parameters, with which no result can be created.
* `operation/Operator.cxx:213` says a null pointer is returned without a manager;
  its callers do not look.
* `operation/Operator.cxx:112`: "Now grab all log messages and serialize them into the
  result", but `ImportPythonOperator.cxx:122` has the reader reset the log that is
  shared: of what was logged before the last reset nothing is in the result, nor in that
  of any call around it, and of what comes after it only what lies behind the old
  length (`ResultLogIsOwn` asks for completeness only without a reset).

Views:

* `view/PhraseModel.cxx:466`: rows whose children were built in a listener are told
  of a second time (`BuildInLoops`).
* `view/PhraseModel.cxx:149`: the range of the first notification ends one past the
  last row, all others end at it, and `qtDescriptivePhraseModel.cxx:706` takes all of them
  as closed; `PhraseModel.cxx:473` says "Qt expects range to be closed" and subtracts
  one. A view that joins shows one row too many below each phrase that was asked for
  its children, and `ViewsMirrorRows` promises it no better.
* `view/ResourcePhraseModel.cxx:40`: the generator a model makes for itself has no model,
  so that the children of a row are set without an event (`DescriptivePhrase.cxx:372`)
  and a view that joined before has none of them. `ViewsMirrorRows` allows that too.
* `extension/qt/qtDescriptivePhraseModel.cxx:648`: rebuilding the root clears its rows
  while `m_resources` keeps the resources, and none comes back.
* `view/Selection.cxx:203`: suggestions for a component the filter refuses are
  applied in the same way for every action; a filtered subtraction may select
  (`Selection.cxx:289`: "should we really allow additions during a subtract? Not
  going to for now"). `OrderDoesNotMatter` leaves these subtractions out (`Selects`).
* `view/Selection.h:339`: a listener that joins is not called unless it asks for it, and
  neither the panel (`pqSMTKResourcePanel.cxx:313`) nor a representation
  (`pqSMTKModelRepresentation.cxx:36`) asks: one that joins while something is selected
  knows of it after the next change only. `ToldInTheEnd` promises it no more.
* The panel's answer from inside the loop replaces the selection with its rows: what
  was selected and has no row is dropped.
* `extension/paraview/appcomponents/pqSMTKSelectionFilterBehavior.cxx:268`: the filter
  for volumes suggests the volumes of a face and refuses volumes, so that installing it
  again drops what it suggested.

Attributes:

* `attribute/Collection.cxx:271`: removing or renaming an attribute that was removed
  before takes another one out of the indices if it has its name or id (`Careful`).
* `attribute/Collection.cxx:98`: a definition may be created below a base that was
  removed.
* `attribute/RefItem.cxx:222`: shrinking tells no attribute of the values it drops
  (`Careless`). `RefItem::assign` passes the value at position 0 for every position,
  and follows it if it is unset.
* `attribute/ValueItemTemplate.h`: `setValue` of a discrete item with the index it
  has answers true after an `unset` and sets nothing; `unset` keeps the
  reference to the expression; an element whose expression was destroyed shows the value
  it had before; growing an item to the size of a vector default overwrites all its
  values; `appendExpression` extends no discrete index; `setValue(null)` and
  `appendValue(null)` dereference the null pointer.

Model:

* `model/Session.cxx:468`: "No attributes on any entity in \a from == success", but an
  entity without attributes has made the answer false four lines above, since
  `disassociateAttributes` of no attribute answers that it removed none.
* Removing an attribute from its collection leaves its assignments in the manager;
  what a reader associates is found by sessions only when somebody associates by way
  of the manager.
* `model/Manager.cxx:2720`: `findOrAddInclusionToCellOrModel` takes the number of
  relations before `appendRelation` for the index it returns, although that fills a
  hole if there is one (`Entity.cxx:217`: "This returns the index of \a b in the
  entity's list of relations"); the inclusion then points past the relations.
  `createIncludedShell` (`:2529`) and `findOrAddUseToShell` (`:2625`) do the same.
  These calls are not modelled.
* `model/Loop.cxx:126` fills relations again by itself without a word to
  `m_firstInvalid`, so that the next `appendRelation` overwrites a use
  (`Entity.cxx:220`: "replaces the first invalid relation").
* `Entity::unarrange` invalidates a relation that another arrangement of the same pair
  may share, since `findOrAppendRelation` has kinds share indices: a pair that is
  related in two ways is left with one dual that points to nothing.
* `EntityRef::removeMemberEntity` (`EntityRef.cxx:1724`) asks for the type of
  the *embedding* relation and does nothing for members that cannot be embedded, such
  as groups of a model.

## What is not modelled

* Files. `read` and `write` of a type either work or fail; what readers do to a
  collection is `ReadAttribute`.
* Geometry kernels, MOAB, VTK, and the bridges to them: their state is outside this
  code. The remote bridge runs jobs on workers of a job server that is not part of the
  repository; see the plan.
* Shells, uses and loops, whose arrangements hold senses and ranges of indices.
* User interface beyond the Qt model's bookkeeping of events and the panel's rows.
* Items that only keep values of their own (group, void, file, mesh, component).
* Destructors that run while a loop is on the stack (an operator deleted by its
  own observer, a manager destroyed in its loop): undefined behaviour.
* Threads: nothing here is called from a second one.
* The part of an attribute collection that copies definitions between collections,
  and categories, views and units: see the plan for the first, the rest only
  stores what it is given.

## Plan

Done, in this order: `ResourceManager` and its proofs, `Operation`,
`PhraseModel`, `AttributeCollection` and its proofs, `Registry` and the refinement,
`Associations`, `References` and its proofs, `ValueItem`, `Selection`,
`Arrangements`, the proofs of `Operation`, `Selection`, `PhraseModel`, `Associations`, `Arrangements`
and `ValueItem`, and of `FindsExactly`. To come:

1. **CopyDefinition.** `copyDefinition` between two collections as a step
   machine: bases first, then item definitions, expressions and targets of
   references, recursively; ends although definitions refer to each other; when it
   succeeds no copied reference is without its target.
2. **Re-entrant notification of resources**: the frames of `PhraseModel` for
   `resource::Manager`, observers that add, remove and observe in the loop; shown to
   implement `ResourceManager` for observers that do not.
3. **RemoteSession**: `RemusConnection` and `RemusRPCWorker` as a client and workers
   that fail, with the job server as an external queue: notifications overtaken by
   requests, sessions lost with their worker, a request that reaches another worker
   of its kind (the tag that would tie it to a session is commented out).
4. **Pure algorithms**: union-find against the partition it stands for, and range
   detection against maximal runs, over all inputs of a bounded size.
5. Uses and shells in `Arrangements`, with the calls named above, once the index they
   arrange is the one `appendRelation` returned.
