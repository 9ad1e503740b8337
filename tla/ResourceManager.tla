--------------------------- MODULE ResourceManager ---------------------------
(***************************************************************************)
(* smtk::resource::Manager, Resource and Metadata: the registry that       *)
(* tracks the resources (attribute collections, models, meshes) loaded in  *)
(* a session, keyed by UUID, type index and location.                      *)
(*                                                                         *)
(* One action is one public call, from entry to return.  The calls run on  *)
(* the application's thread and do not overlap; observers only record what *)
(* they are told.                                                          *)
(***************************************************************************)
EXTENDS Naturals, FiniteSets

CONSTANTS
  Managers,       \* resource::Manager instances
  Rsrcs,          \* Resource objects the program may ever allocate
  Ids,            \* UUIDs
  Urls,           \* locations
  NoUrl,          \* the empty location a resource is constructed with
  Types,          \* Resource::Index values
  Names,          \* unique names of metadata
  TypeOf,         \* dynamic type of each resource object
  Ancestors,      \* associated indices of a type: itself and its ParentResources
  NameOf,         \* the unique name each type's metadata carries
  Clients,        \* callers that observe a manager
  MaxHandle,      \* bound on observer handles
  Nil,            \* null pointer / nothing on disk / no handle
  AllowReparent   \* may clients add a resource another manager tracks?

ASSUME ConstantsOK ==
  /\ NoUrl \in Urls
  /\ TypeOf \in [Rsrcs -> Types]
  /\ Ancestors \in [Types -> SUBSET Types]
  /\ \A t \in Types : t \in Ancestors[t]
  /\ NameOf \in [Types -> Names]
  /\ MaxHandle \in Nat
  /\ AllowReparent \in BOOLEAN

ASSUME NilIsNothing ==
  /\ Nil \notin Managers \cup Rsrcs \cup Ids
  /\ Nil \notin Managers \X (0 .. MaxHandle)

VARIABLES
  registered,     \* s_metadata: the types with a metadata entry
  alive,          \* the resource objects allocated so far
  id,             \* Resource::m_id
  location,       \* Resource::m_location
  manager,        \* Resource::m_manager
  resources,      \* Manager::m_resources
  stale,          \* elements of m_resources whose key changed behind its indices
  disk,           \* what each url holds: the id saved there
  observers,      \* Manager::m_observers: handle -> client
  handle,         \* <<manager, handle>> each client was given and still holds
  seen,           \* ADDED minus REMOVED events each client was told, per resource
  call            \* the call that just returned: its arguments and result

rsrcVars == << alive, id, location, manager, resources, stale >>
obsVars  == << observers, handle, seen >>
vars     == << registered, rsrcVars, disk, obsVars, call >>

Handles == 0 .. MaxHandle

Call(op, m, r, url, ret) ==
  call' = [op |-> op, mgr |-> m, rsrc |-> r, url |-> url, ret |-> ret]

-----------------------------------------------------------------------------
(* The indices of m_resources *)

\* What find(key) can return.  The indices are search trees: once an element's
\* key has changed without modify(), a search may miss what it looks for.
FindId(m, i) ==
  LET hits == {r \in resources[m] : id[r] = i}
  IN  hits \cup (IF hits = {} \/ stale[m] # {} THEN {Nil} ELSE {})

\* The location index is not unique: any element with the key may be returned.
FindUrl(m, u) ==
  LET hits == {r \in resources[m] : location[r] = u}
  IN  hits \cup (IF hits = {} \/ stale[m] # {} THEN {Nil} ELSE {})

\* find(index): the managed resources whose registered dynamic type has the
\* index among its associated indices.
FindType(m, t) ==
  {r \in resources[m] : TypeOf[r] \in registered /\ t \in Ancestors[TypeOf[r]]}

\* Every container that holds r and is not told of a change of its keys.
StaleAfterChange(r, told) ==
  [m \in Managers |-> IF r \in resources[m] /\ m # told THEN stale[m] \cup {r}
                                                        ELSE stale[m]]

-----------------------------------------------------------------------------
(* Events *)

Watchers(m) == {observers[m][h] : h \in DOMAIN observers[m]}

Told(m, r, delta) ==
  seen' = [c \in Clients |->
             IF c \in Watchers(m) THEN [seen[c] EXCEPT ![r] = delta[@]]
                                  ELSE seen[c]]

\* What a client concludes of one resource from the events it is told
\* (TestResourceManager keeps such a tally in numResources).  "unknown" until
\* the first event when it did not ask to be notified of the current state.
Tallies == {"unknown", "absent", "present", "wrong"}
Added   == [unknown |-> "present", absent |-> "present", present |-> "wrong", wrong |-> "wrong"]
Removed == [unknown |-> "absent", absent |-> "wrong", present |-> "absent", wrong |-> "wrong"]

-----------------------------------------------------------------------------
(* Metadata *)

\* registerResource: refused for an index already there, and by the unique
\* name index of the container.
Register(t) ==
  LET ok == t \notin registered /\ \A u \in registered : NameOf[u] # NameOf[t]
  IN  /\ registered' = IF ok THEN registered \cup {t} ELSE registered
      /\ Call("register", Nil, Nil, NoUrl, ok)
      /\ UNCHANGED << rsrcVars, disk, obsVars >>

-----------------------------------------------------------------------------
(* Adding and creating *)

\* A plausible bug: a constructor that leaves the id unset.
ConstructUnset(r, i) ==
  /\ r \notin alive
  /\ alive' = alive \cup {r}
  /\ location' = [location EXCEPT ![r] = NoUrl]
  /\ UNCHANGED id

\* A Resource constructor: a fresh object with the given id, no location, no
\* manager.
Construct(r, i) ==
  /\ r \notin alive
  /\ alive' = alive \cup {r}
  /\ id' = [id EXCEPT ![r] = i]
  /\ location' = [location EXCEPT ![r] = NoUrl]

\* A plausible bug: the addition announced before the check for the id.
AddAnnouncingFirst(m, t, r, i) ==
  \E found \in FindId(m, i) :
    IF t \in registered
    THEN /\ Told(m, r, Added)
         /\ IF found = Nil
            THEN /\ manager' = [manager EXCEPT ![r] = m]
                 /\ resources' = [resources EXCEPT ![m] = @ \cup {r}]
            ELSE UNCHANGED << manager, resources >>
    ELSE UNCHANGED << manager, resources, seen >>

\* A plausible bug: the resource already there under the id is replaced.
AddReplacing(m, t, r, i) ==
  \E found \in FindId(m, i) :
    IF t \in registered
    THEN /\ manager' = [q \in Rsrcs |-> IF q = r THEN m ELSE IF q = found THEN Nil ELSE manager[q]]
         /\ resources' = [resources EXCEPT ![m] = (@ \ {found}) \cup {r}]
         /\ Told(m, r, Added)
    ELSE UNCHANGED << manager, resources, seen >>

\* add(t, r) where r carries id i: a resource with that id is already there
\* and the call is done, or r is linked, inserted and announced.
AddEffect(m, t, r, i) ==
  \E found \in FindId(m, i) :
    IF t \in registered /\ found = Nil
    THEN /\ manager' = [manager EXCEPT ![r] = m]
         /\ resources' = [resources EXCEPT ![m] = @ \cup {r}]
         /\ Told(m, r, Added)
    ELSE UNCHANGED << manager, resources, seen >>

Add(m, t, r) ==
  /\ r \in alive
  /\ t \in Ancestors[TypeOf[r]]
  /\ AllowReparent \/ manager[r] \in {m, Nil}
  /\ AddEffect(m, t, r, id[r])
  /\ Call("add", m, r, NoUrl, t \in registered)
  /\ UNCHANGED << registered, alive, id, location, stale, disk, observers, handle >>

\* The application allocates a resource itself, outside any manager.
New(r, i) ==
  /\ Construct(r, i)
  /\ Call("new", Nil, r, NoUrl, TRUE)
  /\ UNCHANGED << registered, manager, resources, stale, disk, obsVars >>

\* create(index, uuid): the metadata's create function makes the object (the
\* ones in the repository ignore the uuid and draw an id of their own).
CreateWithId(m, t, r, uuid) ==
  /\ TypeOf[r] = t
  /\ IF t \in registered
     THEN \E i \in {uuid} \cup (Ids \ {id[q] : q \in alive}) :
            /\ Construct(r, i)
            /\ AddEffect(m, t, r, i)
            /\ Call("create", m, r, NoUrl, TRUE)
     ELSE /\ Call("create", m, Nil, NoUrl, FALSE)
          /\ UNCHANGED << alive, id, location, manager, resources, seen >>
  /\ UNCHANGED << registered, stale, disk, observers, handle >>

\* create(index): draws random ids until one is free in this manager.
Create(m, t, r) ==
  \E uuid \in Ids : Nil \in FindId(m, uuid) /\ CreateWithId(m, t, r, uuid)

-----------------------------------------------------------------------------
(* Removing *)

\* remove(r) looks r's id up and removes what it finds: observers first, then
\* the container, then the back pointer.
Remove(m, r) ==
  /\ r \in alive
  /\ \E found \in FindId(m, id[r]) :
       /\ Call("remove", m, r, NoUrl, found # Nil)
       /\ IF found = Nil
          THEN UNCHANGED << resources, stale, manager, seen >>
          ELSE /\ Told(m, found, Removed)
               /\ resources' = [resources EXCEPT ![m] = @ \ {found}]
               /\ stale' = [stale EXCEPT ![m] = @ \ {found}]
               /\ manager' = [manager EXCEPT ![found] = Nil]
  /\ UNCHANGED << registered, alive, id, location, disk, observers, handle >>

\* The last reference to a manager nobody observes goes away: no event is
\* sent and the weak back pointers expire.  m then names a new, empty manager.
DestroyManager(m) ==
  /\ Watchers(m) = {}
  /\ resources' = [resources EXCEPT ![m] = {}]
  /\ stale' = [stale EXCEPT ![m] = {}]
  /\ manager' = [r \in Rsrcs |-> IF manager[r] = m THEN Nil ELSE manager[r]]
  /\ Call("destroy", m, Nil, NoUrl, TRUE)
  /\ UNCHANGED << registered, alive, id, location, disk, obsVars >>

-----------------------------------------------------------------------------
(* Changing the keys of a resource *)

\* A plausible bug: the id assigned whether or not a manager indexes it.
RekeyDirect(r, i) ==
  /\ id' = [id EXCEPT ![r] = i]
  /\ stale' = StaleAfterChange(r, Nil)

\* setId.  Unmanaged: an assignment.  Managed: the element found under the
\* old id is modified, and restored on a collision.  modify() on a failed
\* search is undefined behaviour: no step (LookupNeverMisses rules it out).
Rekey(r, i) ==
  IF manager[r] = Nil
  THEN /\ id' = [id EXCEPT ![r] = i]
       /\ stale' = StaleAfterChange(r, Nil)
  ELSE \E found \in FindId(manager[r], id[r]) \ {Nil} :
         IF \E q \in resources[manager[r]] \ {found} : id[q] = i
         THEN UNCHANGED << id, stale >>
         ELSE /\ id' = [id EXCEPT ![found] = i]
              /\ stale' = StaleAfterChange(found, manager[r])

SetId(r, i) ==
  /\ r \in alive
  /\ Rekey(r, i)
  /\ Call("setId", manager[r], r, NoUrl, id'[r] = i)
  /\ UNCHANGED << registered, alive, location, manager, resources, disk, obsVars >>

\* setLocation.  Managed: the element found under the old LOCATION is
\* modified, which need not be this one.
Relocate(r, u) ==
  IF manager[r] = Nil
  THEN /\ location' = [location EXCEPT ![r] = u]
       /\ stale' = StaleAfterChange(r, Nil)
  ELSE \E found \in FindUrl(manager[r], location[r]) \ {Nil} :
         /\ location' = [location EXCEPT ![found] = u]
         /\ stale' = StaleAfterChange(found, manager[r])

SetLocation(r, u) ==
  /\ r \in alive
  /\ Relocate(r, u)
  /\ Call("setLocation", manager[r], r, u, location'[r] = u)
  /\ UNCHANGED << registered, alive, id, manager, resources, disk, obsVars >>

-----------------------------------------------------------------------------
(* Reading and writing *)

\* metadata->write(r): the type's write function saves r at its own location,
\* or fails.
Save(r, url) ==
  \/ /\ TypeOf[r] \in registered /\ location'[r] # NoUrl
     /\ disk' = [disk EXCEPT ![location'[r]] = id[r]]
     /\ Call("write", Nil, r, url, TRUE)
  \/ /\ UNCHANGED disk
     /\ Call("write", Nil, r, url, FALSE)

\* write(r)
Write(r) ==
  /\ r \in alive
  /\ UNCHANGED << location, stale >>
  /\ Save(r, location[r])
  /\ UNCHANGED << registered, alive, id, manager, resources, obsVars >>

\* write(r, url): set the location, then write(r).
WriteTo(r, url) ==
  /\ r \in alive
  /\ Relocate(r, url)
  /\ Save(r, url)
  /\ UNCHANGED << registered, alive, id, manager, resources, obsVars >>

\* read(t, url): the type's read function makes an object with the saved id,
\* which is added.  The local pointer that should hold it is never assigned,
\* so its location is not set and null is returned.
Read(m, t, url, r) ==
  /\ t \in registered /\ TypeOf[r] = t
  /\ disk[url] # Nil
  /\ Construct(r, disk[url])
  /\ AddEffect(m, t, r, disk[url])
  /\ Call("read", m, r, url, FALSE)
  /\ UNCHANGED << registered, stale, disk, observers, handle >>

-----------------------------------------------------------------------------
(* Observing *)

\* A plausible bug: the number of observers as the next handle.
NextHandleBySize(m) == Cardinality(DOMAIN observers[m])

\* One past the largest handle in use, 0 when there is none.
NextHandle(m) ==
  IF DOMAIN observers[m] = {} THEN 0
  ELSE 1 + CHOOSE h \in DOMAIN observers[m] : \A g \in DOMAIN observers[m] : g <= h

Observe(m, c, notify) ==
  LET h == NextHandle(m)
  IN  /\ handle[c] = Nil /\ h <= MaxHandle
      /\ observers' = [observers EXCEPT ![m] =
                          [g \in DOMAIN @ \cup {h} |-> IF g = h THEN c ELSE @[g]]]
      /\ handle' = [handle EXCEPT ![c] = << m, h >>]
      /\ seen' = [seen EXCEPT ![c] =
                     [r \in Rsrcs |-> IF ~notify THEN "unknown"
                                      ELSE IF r \in resources[m] THEN Added["absent"]
                                      ELSE "absent"]]
      /\ Call("observe", m, Nil, NoUrl, TRUE)
      /\ UNCHANGED << registered, rsrcVars, disk >>

\* A client gives its handle back once (PhraseModel::removeSource).
Unobserve(c) ==
  /\ handle[c] # Nil
  /\ LET m == handle[c][1]
         h == handle[c][2]
     IN  /\ observers' = [observers EXCEPT ![m] = [g \in DOMAIN @ \ {h} |-> @[g]]]
         /\ Call("unobserve", m, Nil, NoUrl, h \in DOMAIN observers[m])
  /\ handle' = [handle EXCEPT ![c] = Nil]
  /\ seen' = [seen EXCEPT ![c] = [r \in Rsrcs |-> "unknown"]]
  /\ UNCHANGED << registered, rsrcVars, disk >>

-----------------------------------------------------------------------------
Init ==
  /\ registered = {}
  /\ alive = {}
  /\ id = [r \in Rsrcs |-> Nil]
  /\ location = [r \in Rsrcs |-> NoUrl]
  /\ manager = [r \in Rsrcs |-> Nil]
  /\ resources = [m \in Managers |-> {}]
  /\ stale = [m \in Managers |-> {}]
  /\ disk = [u \in Urls |-> Nil]
  /\ observers = [m \in Managers |-> << >>]
  /\ handle = [c \in Clients |-> Nil]
  /\ seen = [c \in Clients |-> [r \in Rsrcs |-> "unknown"]]
  /\ call = [op |-> "none", mgr |-> Nil, rsrc |-> Nil, url |-> NoUrl, ret |-> TRUE]

Next ==
  \/ \E t \in Types : Register(t)
  \/ \E r \in Rsrcs, i \in Ids : New(r, i) \/ SetId(r, i)
  \/ \E r \in Rsrcs, u \in Urls : SetLocation(r, u) \/ WriteTo(r, u)
  \/ \E r \in Rsrcs : Write(r)
  \/ \E m \in Managers, t \in Types, r \in Rsrcs :
       Add(m, t, r) \/ Create(m, t, r) \/ (\E i \in Ids : CreateWithId(m, t, r, i))
  \/ \E m \in Managers, r \in Rsrcs : Remove(m, r)
  \/ \E m \in Managers, t \in Types, u \in Urls, r \in Rsrcs : Read(m, t, u, r)
  \/ \E m \in Managers : DestroyManager(m)
  \/ \E m \in Managers, c \in Clients, b \in BOOLEAN : Observe(m, c, b)
  \/ \E c \in Clients : Unobserve(c)

Spec == Init /\ [][Next]_vars

-----------------------------------------------------------------------------
(* Type invariant *)

TypeOK ==
  /\ registered \subseteq Types
  /\ alive \subseteq Rsrcs
  /\ id \in [Rsrcs -> Ids \cup {Nil}]
  /\ \A r \in alive : id[r] \in Ids
  /\ location \in [Rsrcs -> Urls]
  /\ manager \in [Rsrcs -> Managers \cup {Nil}]
  /\ resources \in [Managers -> SUBSET Rsrcs]
  /\ stale \in [Managers -> SUBSET Rsrcs]
  /\ disk \in [Urls -> Ids \cup {Nil}]
  /\ \A m \in Managers : /\ DOMAIN observers[m] \subseteq Handles
                         /\ observers[m] \in [DOMAIN observers[m] -> Clients]
  /\ DOMAIN observers = Managers
  /\ handle \in [Clients -> (Managers \X Handles) \cup {Nil}]
  /\ seen \in [Clients -> [Rsrcs -> Tallies]]

-----------------------------------------------------------------------------
(* Safety, for clients that do not move a resource between managers *)

\* The back pointer of a resource and the containers agree: a resource is in
\* the container of the manager it points to and in no other (add, remove, the
\* expiry of a manager, failed insertions of a duplicate id).
LinkIffManaged ==
  \A r \in Rsrcs, m \in Managers : r \in resources[m] <=> manager[r] = m

\* No two resources of one manager carry the same id, whatever mix of add,
\* create, read and setId put the ids there.
UniqueIds ==
  \A m \in Managers : \A r, q \in resources[m] : id[r] = id[q] => r = q

\* The lookups inside setId, setLocation and remove find the resource they are
\* made for: no search through a stale index, no modify() of end().
LookupNeverMisses ==
  \A r \in Rsrcs : manager[r] # Nil =>
    /\ FindId(manager[r], id[r]) = {r}
    /\ Nil \notin FindUrl(manager[r], location[r])

\* The three together: what the calls of a manager take for granted.
RegistryAgrees == LinkIffManaged /\ UniqueIds /\ LookupNeverMisses

\* What an observer gathers from its events is the content of the manager:
\* never told twice of one addition, never of a removal of what it was not
\* told of, and nothing missed.
ObserversMirror ==
  \A c \in Clients : handle[c] # Nil => \A r \in Rsrcs :
    \/ seen[c][r] = "unknown"
    \/ seen[c][r] = IF r \in resources[handle[c][1]] THEN "present" ELSE "absent"

\* A client that has not given its handle back is still observing under it:
\* no later observe() or unobserve() of another client takes it over.
HandleStaysMine ==
  \A c \in Clients : handle[c] # Nil =>
    /\ handle[c][2] \in DOMAIN observers[handle[c][1]]
    /\ observers[handle[c][1]][handle[c][2]] = c

\* setId changes the id of the resource it is called on or no id at all, and
\* it reports which of the two happened.
SetIdIsLocal ==
  [][call'.op = "setId" =>
       /\ \A q \in Rsrcs \ {call'.rsrc} : id'[q] = id[q]
       /\ ~call'.ret => id' = id]_vars

-----------------------------------------------------------------------------
(* What the registry promises *)

\* The lines of the abstract table: what the containers hold, under the id the
\* resource itself has.
Entries ==
  {<< h[1], id[h[2]], h[2] >> : h \in {g \in Managers \X Rsrcs : g[2] \in resources[g[1]]}}

Abstract == INSTANCE Registry WITH entries <- Entries

\* Every call is one change of one line of the table, or none at all: a
\* resource enters under a free id, leaves, or moves to a free id, whichever
\* of create, add, read, remove and setId the call was and however it failed.
ImplementsRegistry == Abstract!Spec
=============================================================================
