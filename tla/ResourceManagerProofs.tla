------------------------ MODULE ResourceManagerProofs ------------------------
(***************************************************************************)
(* What holds of the registry for any number of managers, resources, ids,  *)
(* locations and clients, as long as no client moves a resource between    *)
(* managers; that it implements Registry; and what an observer may rely    *)
(* on: its handle, and that the events it is told add up to the content of *)
(* the manager.                                                            *)
(***************************************************************************)
EXTENDS ResourceManager, Inductions

\* The part of the state the lookups depend on.
IndexTypeOK ==
  /\ alive \subseteq Rsrcs
  /\ id \in [Rsrcs -> Ids \cup {Nil}]
  /\ \A r \in alive : id[r] \in Ids
  /\ location \in [Rsrcs -> Urls]
  /\ manager \in [Rsrcs -> Managers \cup {Nil}]
  /\ resources \in [Managers -> SUBSET Rsrcs]
  /\ stale = [m \in Managers |-> {}]
  /\ disk \in [Urls -> Ids \cup {Nil}]

\* The inductive invariant: no index is ever stale, because a resource that
\* has a manager is in that manager's container only, and managed resources
\* have been constructed.
RegistryInv ==
  /\ IndexTypeOK
  /\ LinkIffManaged
  /\ UniqueIds
  /\ \A m \in Managers : resources[m] \subseteq alive

\* A search by id in an index that is not stale returns exactly the element
\* with that id, or nothing when there is none.
LEMMA FindIdExact ==
  ASSUME RegistryInv, NEW m \in Managers, NEW i \in Ids, NEW found \in FindId(m, i)
  PROVE  \/ found = Nil /\ \A r \in resources[m] : id[r] # i
         \/ found \in resources[m] /\ id[found] = i
BY NilIsNothing DEF FindId, RegistryInv, IndexTypeOK

\* setId and remove look up a resource under its own id: in its own manager
\* they get that resource.
LEMMA FindIdSelf ==
  ASSUME RegistryInv, NEW r \in Rsrcs, manager[r] # Nil
  PROVE  /\ manager[r] \in Managers
         /\ r \in resources[manager[r]]
         /\ FindId(manager[r], id[r]) = {r}
<1>1. manager[r] \in Managers /\ r \in resources[manager[r]]
  BY DEF RegistryInv, IndexTypeOK, LinkIffManaged
<1>2. {q \in resources[manager[r]] : id[q] = id[r]} = {r}
  BY <1>1 DEF RegistryInv, UniqueIds
<1>3. stale[manager[r]] = {}
  BY <1>1 DEF RegistryInv, IndexTypeOK
<1>4. QED
  BY <1>1, <1>2, <1>3 DEF FindId

-----------------------------------------------------------------------------
(* Each call preserves the invariant *)

LEMMA InitRegistryInv == Init => RegistryInv
<1> SUFFICES ASSUME Init PROVE RegistryInv
  OBVIOUS
<1>1. IndexTypeOK
  BY ConstantsOK DEF Init, IndexTypeOK
<1>2. LinkIffManaged
  BY NilIsNothing DEF Init, LinkIffManaged
<1>3. QED
  BY <1>1, <1>2 DEF Init, RegistryInv, UniqueIds

\* Every insertion, of a resource that was there or that the same call
\* constructs.
LEMMA InsertStep ==
  ASSUME RegistryInv,
         NEW m \in Managers, NEW t \in Types, NEW r \in Rsrcs, NEW i \in Ids,
         manager[r] \in {m, Nil},
         r \in alive => id[r] = i,
         alive' = alive \cup {r},
         id' = [id EXCEPT ![r] = i],
         location' \in [Rsrcs -> Urls],
         AddEffect(m, t, r, i),
         stale' = stale,
         disk' = disk
  PROVE  RegistryInv'
<1>1. PICK found \in FindId(m, i) :
        IF t \in registered /\ found = Nil
        THEN /\ manager' = [manager EXCEPT ![r] = m]
             /\ resources' = [resources EXCEPT ![m] = @ \cup {r}]
        ELSE manager' = manager /\ resources' = resources
  BY DEF AddEffect
<1>2. \A q \in Rsrcs : q # r => id'[q] = id[q]
  BY DEF RegistryInv, IndexTypeOK
<1>3. id'[r] = i
  BY DEF RegistryInv, IndexTypeOK
<1>4. CASE manager' = manager /\ resources' = resources
  <2>1. \A n \in Managers : r \in resources[n] => id[r] = i
    BY DEF RegistryInv
  <2>2. \A n \in Managers : \A q \in resources[n] : id'[q] = id[q]
    BY <1>2, <1>3, <2>1 DEF RegistryInv, IndexTypeOK
  <2>3. UniqueIds'
    BY <1>4, <2>2 DEF RegistryInv, UniqueIds
  <2>4. IndexTypeOK'
    BY <1>2, <1>3, <1>4 DEF RegistryInv, IndexTypeOK
  <2>5. QED
    BY <1>4, <2>3, <2>4 DEF RegistryInv, LinkIffManaged
<1>5. CASE /\ found = Nil
           /\ manager' = [manager EXCEPT ![r] = m]
           /\ resources' = [resources EXCEPT ![m] = @ \cup {r}]
  <2>1. \A q \in resources[m] : id[q] # i
    BY <1>5, FindIdExact, NilIsNothing DEF RegistryInv, IndexTypeOK
  <2>2. IndexTypeOK'
    BY <1>2, <1>3, <1>5 DEF RegistryInv, IndexTypeOK
  <2>3. LinkIffManaged'
    BY <1>5, NilIsNothing DEF RegistryInv, IndexTypeOK, LinkIffManaged
  <2>4. \A n \in Managers : r \in resources[n] => n = m
    BY NilIsNothing DEF RegistryInv, IndexTypeOK, LinkIffManaged
  <2>5. \A n \in Managers : resources'[n] = IF n = m THEN resources[m] \cup {r} ELSE resources[n]
    BY <1>5 DEF RegistryInv, IndexTypeOK
  <2>6. UniqueIds'
    <3> SUFFICES ASSUME NEW n \in Managers, NEW q1 \in resources'[n], NEW q2 \in resources'[n],
                        id'[q1] = id'[q2]
                 PROVE  q1 = q2
      BY DEF UniqueIds
    <3>1. q1 \in Rsrcs /\ q2 \in Rsrcs
      BY <2>2 DEF IndexTypeOK
    <3>2. CASE n = m
      BY <1>2, <1>3, <2>1, <2>5, <3>1, <3>2 DEF RegistryInv, UniqueIds
    <3>3. CASE n # m
      BY <1>2, <2>4, <2>5, <3>1, <3>3 DEF RegistryInv, UniqueIds
    <3>4. QED
      BY <3>2, <3>3
  <2>7. \A n \in Managers : resources'[n] \subseteq alive'
    BY <2>5 DEF RegistryInv
  <2>8. QED
    BY <2>2, <2>3, <2>6, <2>7 DEF RegistryInv
<1>6. QED
  BY <1>1, <1>4, <1>5

LEMMA NewStep ==
  ASSUME RegistryInv, NEW r \in Rsrcs, NEW i \in Ids, New(r, i)
  PROVE  RegistryInv'
<1>1. /\ r \notin alive
      /\ alive' = alive \cup {r}
      /\ id' = [id EXCEPT ![r] = i]
      /\ location' = [location EXCEPT ![r] = NoUrl]
      /\ manager' = manager /\ resources' = resources /\ stale' = stale /\ disk' = disk
  BY DEF New, Construct
<1>2. \A n \in Managers : r \notin resources[n]
  BY <1>1 DEF RegistryInv
<1>3. IndexTypeOK'
  BY <1>1, ConstantsOK DEF RegistryInv, IndexTypeOK
<1>4. \A n \in Managers : \A q \in resources[n] : id'[q] = id[q]
  BY <1>1, <1>2 DEF RegistryInv, IndexTypeOK
<1>5. UniqueIds'
  BY <1>1, <1>4 DEF RegistryInv, UniqueIds
<1>6. QED
  BY <1>1, <1>3, <1>5 DEF RegistryInv, LinkIffManaged

LEMMA AddStep ==
  ASSUME RegistryInv, ~AllowReparent,
         NEW m \in Managers, NEW t \in Types, NEW r \in Rsrcs, Add(m, t, r)
  PROVE  RegistryInv'
<1>1. /\ r \in alive /\ manager[r] \in {m, Nil}
      /\ AddEffect(m, t, r, id[r])
      /\ alive' = alive /\ id' = id /\ location' = location /\ stale' = stale /\ disk' = disk
  BY DEF Add
<1>2. id[r] \in Ids
  BY <1>1 DEF RegistryInv, IndexTypeOK
<1>3. alive' = alive \cup {r} /\ id' = [id EXCEPT ![r] = id[r]] /\ location' \in [Rsrcs -> Urls]
  BY <1>1 DEF RegistryInv, IndexTypeOK
<1>4. QED
  BY <1>1, <1>2, <1>3, InsertStep

LEMMA FreshIsUnmanaged ==
  ASSUME RegistryInv, NEW r \in Rsrcs, r \notin alive
  PROVE  manager[r] = Nil
BY DEF RegistryInv, IndexTypeOK, LinkIffManaged

LEMMA CreateStep ==
  ASSUME RegistryInv,
         NEW m \in Managers, NEW t \in Types, NEW r \in Rsrcs, NEW uuid \in Ids,
         CreateWithId(m, t, r, uuid)
  PROVE  RegistryInv'
<1>1. stale' = stale /\ disk' = disk
  BY DEF CreateWithId
<1>2. CASE t \in registered
  <2>1. PICK i \in {uuid} \cup (Ids \ {id[q] : q \in alive}) : Construct(r, i) /\ AddEffect(m, t, r, i)
    BY <1>2 DEF CreateWithId
  <2>2. i \in Ids
    OBVIOUS
  <2>3. manager[r] = Nil /\ r \notin alive
    BY <2>1, FreshIsUnmanaged DEF Construct
  <2>4. /\ alive' = alive \cup {r} /\ id' = [id EXCEPT ![r] = i]
        /\ location' \in [Rsrcs -> Urls]
    BY <2>1, ConstantsOK DEF Construct, RegistryInv, IndexTypeOK
  <2>5. QED
    BY <1>1, <2>1, <2>2, <2>3, <2>4, InsertStep
<1>3. CASE t \notin registered
  BY <1>1, <1>3 DEF CreateWithId, RegistryInv, IndexTypeOK, LinkIffManaged, UniqueIds
<1>4. QED
  BY <1>2, <1>3

LEMMA ReadStep ==
  ASSUME RegistryInv,
         NEW m \in Managers, NEW t \in Types, NEW u \in Urls, NEW r \in Rsrcs, Read(m, t, u, r)
  PROVE  RegistryInv'
<1>1. /\ disk[u] # Nil /\ Construct(r, disk[u]) /\ AddEffect(m, t, r, disk[u])
      /\ stale' = stale /\ disk' = disk
  BY DEF Read
<1>2. disk[u] \in Ids
  BY <1>1 DEF RegistryInv, IndexTypeOK
<1>3. manager[r] = Nil /\ r \notin alive
  BY <1>1, FreshIsUnmanaged DEF Construct
<1>4. /\ alive' = alive \cup {r} /\ id' = [id EXCEPT ![r] = disk[u]]
      /\ location' \in [Rsrcs -> Urls]
  BY <1>1, ConstantsOK DEF Construct, RegistryInv, IndexTypeOK
<1>5. QED
  BY <1>1, <1>2, <1>3, <1>4, InsertStep

LEMMA RemoveStep ==
  ASSUME RegistryInv, NEW m \in Managers, NEW r \in Rsrcs, Remove(m, r)
  PROVE  RegistryInv'
<1>1. r \in alive /\ alive' = alive /\ id' = id /\ location' = location /\ disk' = disk
  BY DEF Remove
<1>2. PICK found \in FindId(m, id[r]) :
        IF found = Nil
        THEN resources' = resources /\ stale' = stale /\ manager' = manager
        ELSE /\ resources' = [resources EXCEPT ![m] = @ \ {found}]
             /\ stale' = [stale EXCEPT ![m] = @ \ {found}]
             /\ manager' = [manager EXCEPT ![found] = Nil]
  BY DEF Remove
<1>3. CASE found = Nil
  BY <1>1, <1>2, <1>3 DEF RegistryInv, IndexTypeOK, LinkIffManaged, UniqueIds
<1>4. CASE found # Nil
  <2>1. id[r] \in Ids
    BY <1>1 DEF RegistryInv, IndexTypeOK
  <2>2. found \in resources[m] /\ found \in Rsrcs /\ manager[found] = m
    BY <1>4, <2>1, FindIdExact DEF RegistryInv, IndexTypeOK, LinkIffManaged
  <2>3. IndexTypeOK'
    <3>1. stale' = [n \in Managers |-> {}]
      BY <1>2, <1>4 DEF RegistryInv, IndexTypeOK
    <3>2. /\ resources' \in [Managers -> SUBSET Rsrcs]
          /\ manager' \in [Rsrcs -> Managers \cup {Nil}]
      BY <1>2, <1>4, <2>2 DEF RegistryInv, IndexTypeOK
    <3>3. QED
      BY <1>1, <3>1, <3>2 DEF RegistryInv, IndexTypeOK
  <2>4. LinkIffManaged'
    BY <1>2, <1>4, <2>2, NilIsNothing DEF RegistryInv, IndexTypeOK, LinkIffManaged
  <2>5. \A n \in Managers : resources'[n] \subseteq resources[n]
    BY <1>2, <1>4 DEF RegistryInv, IndexTypeOK
  <2>6. UniqueIds'
    BY <1>1, <2>5 DEF RegistryInv, UniqueIds
  <2>7. QED
    BY <1>1, <2>3, <2>4, <2>5, <2>6 DEF RegistryInv
<1>5. QED
  BY <1>3, <1>4

LEMMA DestroyStep ==
  ASSUME RegistryInv, NEW m \in Managers, DestroyManager(m)
  PROVE  RegistryInv'
<1>1. /\ resources' = [resources EXCEPT ![m] = {}]
      /\ stale' = [stale EXCEPT ![m] = {}]
      /\ manager' = [r \in Rsrcs |-> IF manager[r] = m THEN Nil ELSE manager[r]]
      /\ alive' = alive /\ id' = id /\ location' = location /\ disk' = disk
  BY DEF DestroyManager
<1>2. IndexTypeOK'
  BY <1>1 DEF RegistryInv, IndexTypeOK
<1>3. LinkIffManaged'
  BY <1>1, NilIsNothing DEF RegistryInv, IndexTypeOK, LinkIffManaged
<1>4. UniqueIds' /\ \A n \in Managers : resources'[n] \subseteq alive'
  BY <1>1 DEF RegistryInv, IndexTypeOK, UniqueIds
<1>5. QED
  BY <1>2, <1>3, <1>4 DEF RegistryInv

\* A change of keys made through a resource's own manager (or of a resource
\* that has none) leaves every index in order.
LEMMA NothingGoesStale ==
  ASSUME RegistryInv, NEW r \in Rsrcs
  PROVE  StaleAfterChange(r, manager[r]) = stale
BY DEF StaleAfterChange, RegistryInv, IndexTypeOK, LinkIffManaged

\* Only location and disk change: nothing the invariant depends on but types.
LEMMA LocationStep ==
  ASSUME RegistryInv,
         alive' = alive, id' = id, manager' = manager, resources' = resources,
         stale' = stale,
         location' \in [Rsrcs -> Urls], disk' \in [Urls -> Ids \cup {Nil}]
  PROVE  RegistryInv'
BY DEF RegistryInv, IndexTypeOK, LinkIffManaged, UniqueIds

LEMMA SetIdStep ==
  ASSUME RegistryInv, NEW r \in Rsrcs, NEW i \in Ids, SetId(r, i)
  PROVE  RegistryInv'
<1>1. /\ r \in alive /\ Rekey(r, i)
      /\ alive' = alive /\ location' = location /\ manager' = manager
      /\ resources' = resources /\ disk' = disk
  BY DEF SetId
<1>2. CASE UNCHANGED << id, stale >>
  BY <1>1, <1>2, LocationStep DEF RegistryInv, IndexTypeOK
<1>3. CASE /\ id' = [id EXCEPT ![r] = i]
           /\ stale' = stale
           /\ \A n \in Managers : r \in resources[n] => \A q \in resources[n] \ {r} : id[q] # i
  <2>1. IndexTypeOK'
    BY <1>1, <1>3 DEF RegistryInv, IndexTypeOK
  <2>2. \A q \in Rsrcs : id'[q] = IF q = r THEN i ELSE id[q]
    BY <1>3 DEF RegistryInv, IndexTypeOK
  <2>3. \A n \in Managers : resources[n] \subseteq Rsrcs
    BY DEF RegistryInv, IndexTypeOK
  <2>4. UniqueIds'
    BY <1>1, <1>3, <2>2, <2>3 DEF RegistryInv, UniqueIds
  <2>5. QED
    BY <1>1, <2>1, <2>4 DEF RegistryInv, LinkIffManaged
<1>4. CASE manager[r] = Nil
  <2>1. \A n \in Managers : r \notin resources[n]
    BY <1>4, NilIsNothing DEF RegistryInv, LinkIffManaged
  <2>2. stale' = stale /\ id' = [id EXCEPT ![r] = i]
    BY <1>1, <1>4, NothingGoesStale DEF Rekey
  <2>3. QED
    BY <1>3, <2>1, <2>2
<1>5. CASE manager[r] # Nil
  <2>1. FindId(manager[r], id[r]) = {r}
    BY <1>5, FindIdSelf
  <2>2. \A n \in Managers : r \in resources[n] => n = manager[r]
    BY DEF RegistryInv, LinkIffManaged
  <2>3. PICK found \in {r} :
          IF \E q \in resources[manager[r]] \ {found} : id[q] = i
          THEN UNCHANGED << id, stale >>
          ELSE /\ id' = [id EXCEPT ![found] = i]
               /\ stale' = StaleAfterChange(found, manager[r])
    BY <1>1, <1>5, <2>1 DEF Rekey
  <2>4. QED
    BY <1>2, <1>3, <2>2, <2>3, NothingGoesStale
<1>6. QED
  BY <1>4, <1>5

\* Whichever resource of the manager setLocation finds, no index goes stale.
LEMMA RelocateKeepsIndices ==
  ASSUME RegistryInv, NEW r \in Rsrcs, NEW u \in Urls, Relocate(r, u)
  PROVE  stale' = stale /\ location' \in [Rsrcs -> Urls]
<1>1. CASE manager[r] = Nil
  BY <1>1, NothingGoesStale DEF Relocate, RegistryInv, IndexTypeOK
<1>2. CASE manager[r] # Nil
  <2>1. manager[r] \in Managers
    BY <1>2 DEF RegistryInv, IndexTypeOK
  <2>2. PICK found \in FindUrl(manager[r], location[r]) \ {Nil} :
          /\ location' = [location EXCEPT ![found] = u]
          /\ stale' = StaleAfterChange(found, manager[r])
    BY <1>2 DEF Relocate
  <2>3. found \in resources[manager[r]]
    BY <2>2 DEF FindUrl
  <2>4. found \in Rsrcs /\ manager[found] = manager[r]
    BY <2>1, <2>3 DEF RegistryInv, IndexTypeOK, LinkIffManaged
  <2>5. stale' = stale
    BY <2>2, <2>4, NothingGoesStale
  <2>6. QED
    BY <2>2, <2>5 DEF RegistryInv, IndexTypeOK
<1>3. QED
  BY <1>1, <1>2

LEMMA SetLocationStep ==
  ASSUME RegistryInv, NEW r \in Rsrcs, NEW u \in Urls, SetLocation(r, u)
  PROVE  RegistryInv'
<1>1. Relocate(r, u) /\ UNCHANGED << alive, id, manager, resources, disk >>
  BY DEF SetLocation
<1>2. QED
  BY <1>1, RelocateKeepsIndices, LocationStep DEF RegistryInv, IndexTypeOK

\* What Save puts on disk is the id of a constructed resource.
LEMMA SaveTyped ==
  ASSUME RegistryInv, NEW r \in Rsrcs, r \in alive, NEW u \in Urls, Save(r, u)
  PROVE  disk' \in [Urls -> Ids \cup {Nil}]
<1>1. id[r] \in Ids
  BY DEF RegistryInv, IndexTypeOK
<1>2. QED
  BY <1>1 DEF Save, RegistryInv, IndexTypeOK

LEMMA WriteStep ==
  ASSUME RegistryInv, NEW r \in Rsrcs, Write(r)
  PROVE  RegistryInv'
<1>1. r \in alive /\ Save(r, location[r]) /\ UNCHANGED << alive, id, location, manager, resources, stale >>
  BY DEF Write
<1>2. location[r] \in Urls
  BY DEF RegistryInv, IndexTypeOK
<1>3. QED
  BY <1>1, <1>2, SaveTyped, LocationStep DEF RegistryInv, IndexTypeOK

LEMMA WriteToStep ==
  ASSUME RegistryInv, NEW r \in Rsrcs, NEW u \in Urls, WriteTo(r, u)
  PROVE  RegistryInv'
<1>1. r \in alive /\ Relocate(r, u) /\ Save(r, u) /\ UNCHANGED << alive, id, manager, resources >>
  BY DEF WriteTo
<1>2. QED
  BY <1>1, SaveTyped, RelocateKeepsIndices, LocationStep

\* Registering metadata and observing do not touch the containers.
LEMMA ObserverStep ==
  ASSUME RegistryInv,
         \/ \E t \in Types : Register(t)
         \/ \E m \in Managers, c \in Clients, b \in BOOLEAN : Observe(m, c, b)
         \/ \E c \in Clients : Unobserve(c)
         \/ UNCHANGED vars
  PROVE  RegistryInv'
<1>1. UNCHANGED << rsrcVars, disk >>
  BY DEF Register, Observe, Unobserve, vars
<1>2. QED
  BY <1>1, LocationStep DEF rsrcVars, RegistryInv, IndexTypeOK

LEMMA NextRegistryInv ==
  ASSUME RegistryInv, ~AllowReparent, [Next]_vars
  PROVE  RegistryInv'
<1>1. ASSUME NEW r \in Rsrcs, NEW i \in Ids, New(r, i) \/ SetId(r, i)
      PROVE  RegistryInv'
  BY <1>1, NewStep, SetIdStep
<1>2. ASSUME NEW r \in Rsrcs, NEW u \in Urls, SetLocation(r, u) \/ WriteTo(r, u)
      PROVE  RegistryInv'
  BY <1>2, SetLocationStep, WriteToStep
<1>3. ASSUME NEW r \in Rsrcs, Write(r)
      PROVE  RegistryInv'
  BY <1>3, WriteStep
<1>4. ASSUME NEW m \in Managers, NEW t \in Types, NEW r \in Rsrcs,
             Add(m, t, r) \/ Create(m, t, r) \/ (\E i \in Ids : CreateWithId(m, t, r, i))
      PROVE  RegistryInv'
  BY <1>4, AddStep, CreateStep DEF Create
<1>5. ASSUME NEW m \in Managers, NEW r \in Rsrcs, Remove(m, r)
      PROVE  RegistryInv'
  BY <1>5, RemoveStep
<1>6. ASSUME NEW m \in Managers, NEW t \in Types, NEW u \in Urls, NEW r \in Rsrcs, Read(m, t, u, r)
      PROVE  RegistryInv'
  BY <1>6, ReadStep
<1>7. ASSUME NEW m \in Managers, DestroyManager(m)
      PROVE  RegistryInv'
  BY <1>7, DestroyStep
<1>8. QED
  BY <1>1, <1>2, <1>3, <1>4, <1>5, <1>6, <1>7, ObserverStep DEF Next

-----------------------------------------------------------------------------
(* The theorems *)

LEMMA RegistryInvariance ==
  ASSUME ~AllowReparent
  PROVE  Spec => []RegistryInv
<1>1. RegistryInv /\ [Next]_vars => RegistryInv'
  BY NextRegistryInv
<1>2. QED
  BY <1>1, InitRegistryInv, PTL DEF Spec

\* Whatever the clients call, as long as they leave a resource in its manager:
\* back pointers and containers agree, and the ids of a manager are unique
\* (Manager::add, create, read, remove, Resource::setId).
THEOREM RegistrySafe ==
  ASSUME ~AllowReparent
  PROVE  Spec => [](LinkIffManaged /\ UniqueIds)
<1>1. RegistryInv => LinkIffManaged /\ UniqueIds
  BY DEF RegistryInv
<1>2. QED
  BY <1>1, RegistryInvariance, PTL

\* setId, setLocation and remove never run a search that can miss: modify() is
\* never called on end(), under the same assumption.
THEOREM LookupsSafe ==
  ASSUME ~AllowReparent
  PROVE  Spec => []LookupNeverMisses
<1>1. ASSUME RegistryInv, NEW r \in Rsrcs, manager[r] # Nil
      PROVE  Nil \notin FindUrl(manager[r], location[r])
  <2>1. r \in resources[manager[r]] /\ manager[r] \in Managers
    BY <1>1, FindIdSelf
  <2>2. stale[manager[r]] = {} /\ Nil \notin resources[manager[r]]
    BY <1>1, <2>1, NilIsNothing DEF RegistryInv, IndexTypeOK
  <2>3. QED
    BY <2>1, <2>2 DEF FindUrl
<1>2. RegistryInv => LookupNeverMisses
  BY <1>1, FindIdSelf DEF LookupNeverMisses
<1>3. QED
  BY <1>2, RegistryInvariance, PTL

\* Both together: all that add, remove, setId and setLocation take for granted
\* of the registry they find, under the same assumption.
THEOREM AgreementSafe ==
  ASSUME ~AllowReparent
  PROVE  Spec => []RegistryAgrees
<1>1. LinkIffManaged /\ UniqueIds /\ LookupNeverMisses <=> RegistryAgrees
  BY DEF RegistryAgrees
<1>2. QED
  BY <1>1, RegistrySafe, LookupsSafe, PTL
-----------------------------------------------------------------------------
(* The table of Registry                                                     *)
(*                                                                           *)
(* The detailed registry implements the abstract one, for any number of      *)
(* managers, resources, ids, locations and clients, as long as no client     *)
(* moves a resource between managers.                                        *)

\* A line of the table, read from the containers.
LEMMA EntryFacts ==
  /\ \A m \in Managers, r \in Rsrcs : r \in resources[m] => << m, id[r], r >> \in Entries
  /\ \A e \in Entries : /\ e[1] \in Managers /\ e[3] \in Rsrcs
                        /\ e[3] \in resources[e[1]] /\ e[2] = id[e[3]]
                        /\ e = << e[1], e[2], e[3] >>
<1>1. ASSUME NEW m \in Managers, NEW r \in Rsrcs, r \in resources[m]
      PROVE  << m, id[r], r >> \in Entries
  <2>1. << m, r >> \in {g \in Managers \X Rsrcs : g[2] \in resources[g[1]]}
    BY <1>1
  <2>2. << m, r >>[1] = m /\ << m, r >>[2] = r
    OBVIOUS
  <2>3. QED
    BY <2>1, <2>2 DEF Entries
<1>2. ASSUME NEW e \in Entries
      PROVE  /\ e[1] \in Managers /\ e[3] \in Rsrcs
             /\ e[3] \in resources[e[1]] /\ e[2] = id[e[3]]
             /\ e = << e[1], e[2], e[3] >>
  BY DEF Entries
<1>3. QED
  BY <1>1, <1>2

\* Calls that leave containers and the ids in them alone are stuttering steps
\* of the table.
LEMMA SameEntries ==
  ASSUME resources' = resources,
         \A m \in Managers : \A q \in resources[m] : id'[q] = id[q]
  PROVE  Entries' = Entries
BY DEF Entries

\* A resource that enters the container of m, with an id that m has free.
LEMMA EnterRefines ==
  ASSUME RegistryInv, RegistryInv',
         NEW m \in Managers, NEW r \in Rsrcs, NEW i \in Ids,
         \A n \in Managers : r \notin resources[n],
         \A q \in resources[m] : id[q] # i,
         resources' = [resources EXCEPT ![m] = @ \cup {r}],
         id' = [id EXCEPT ![r] = i]
  PROVE  Abstract!Next
<1>1. /\ \A n \in Managers : resources'[n] = IF n = m THEN resources[m] \cup {r} ELSE resources[n]
      /\ \A q \in Rsrcs : id'[q] = IF q = r THEN i ELSE id[q]
  BY DEF RegistryInv, IndexTypeOK
<1>2. Entries' = Entries \cup {<< m, i, r >>}
  <2>1. Entries' \subseteq Entries \cup {<< m, i, r >>}
    BY <1>1 DEF Entries
  <2>2. Entries \subseteq Entries'
    BY <1>1 DEF Entries
  <2>3. << m, i, r >> \in Entries'
    <3>1. << m, r >> \in {g \in Managers \X Rsrcs : g[2] \in resources'[g[1]]}
      BY <1>1
    <3>2. << m, r >>[1] = m /\ << m, r >>[2] = r /\ id'[r] = i
      BY <1>1
    <3>3. QED
      BY <3>1, <3>2 DEF Entries
  <2>4. QED
    BY <2>1, <2>2, <2>3
<1>3. ~Abstract!Listed(r)
  BY EntryFacts DEF Abstract!Listed
<1>4. ~Abstract!Taken(m, i)
  BY EntryFacts DEF Abstract!Taken
<1>5. << m, i, r >> \notin Entries
  BY <1>3 DEF Abstract!Listed
<1>6. QED
  BY <1>2, <1>3, <1>4, <1>5 DEF Abstract!Next, Abstract!Enter

\* Every insertion, of a resource that was there or that the same call
\* constructs (the conditions of InsertStep).
LEMMA InsertRefines ==
  ASSUME RegistryInv, RegistryInv',
         NEW m \in Managers, NEW t \in Types, NEW r \in Rsrcs, NEW i \in Ids,
         manager[r] \in {m, Nil},
         r \in alive => id[r] = i,
         id' = [id EXCEPT ![r] = i],
         AddEffect(m, t, r, i)
  PROVE  [Abstract!Next]_Entries
<1>1. PICK found \in FindId(m, i) :
        IF t \in registered /\ found = Nil
        THEN resources' = [resources EXCEPT ![m] = @ \cup {r}]
        ELSE resources' = resources
  BY DEF AddEffect
<1>2. CASE resources' = resources
  <2>1. \A n \in Managers : \A q \in resources[n] : id'[q] = id[q]
    BY DEF RegistryInv, IndexTypeOK
  <2>2. QED
    BY <1>2, <2>1, SameEntries
<1>3. CASE found = Nil /\ resources' = [resources EXCEPT ![m] = @ \cup {r}]
  <2>1. \A q \in resources[m] : id[q] # i
    BY <1>3, FindIdExact, NilIsNothing DEF RegistryInv, IndexTypeOK
  <2>2. \A n \in Managers : r \in resources[n] => n = m /\ id[r] = i
    BY NilIsNothing DEF RegistryInv, LinkIffManaged
  <2>3. \A n \in Managers : r \notin resources[n]
    BY <2>1, <2>2
  <2>4. QED
    BY <1>3, <2>1, <2>3, EnterRefines
<1>4. QED
  BY <1>1, <1>2, <1>3

LEMMA RemoveRefines ==
  ASSUME RegistryInv, NEW m \in Managers, NEW r \in Rsrcs, Remove(m, r)
  PROVE  [Abstract!Next]_Entries
<1>1. r \in alive /\ id' = id
  BY DEF Remove
<1>2. PICK found \in FindId(m, id[r]) :
        IF found = Nil THEN resources' = resources
                       ELSE resources' = [resources EXCEPT ![m] = @ \ {found}]
  BY DEF Remove
<1>3. CASE found = Nil
  BY <1>1, <1>2, <1>3, SameEntries
<1>4. CASE found # Nil
  <2>1. id[r] \in Ids
    BY <1>1 DEF RegistryInv, IndexTypeOK
  <2>2. found \in resources[m] /\ found \in Rsrcs
    BY <1>4, <2>1, FindIdExact DEF RegistryInv, IndexTypeOK
  <2>3. \A n \in Managers : resources'[n] = IF n = m THEN resources[m] \ {found} ELSE resources[n]
    BY <1>2, <1>4 DEF RegistryInv, IndexTypeOK
  <2>4. << m, id[found], found >> \in Entries
    BY <2>2, EntryFacts
  <2>5. Entries' = Entries \ {<< m, id[found], found >>}
    <3>1. Entries' \subseteq Entries
      BY <1>1, <2>3 DEF Entries
    <3>2. << m, id[found], found >> \notin Entries'
      BY <1>1, <2>3 DEF Entries
    <3>3. ASSUME NEW e \in Entries, e # << m, id[found], found >> PROVE e \in Entries'
      BY <1>1, <2>3, <3>3 DEF Entries
    <3>4. QED
      BY <3>1, <3>2, <3>3
  <2>6. QED
    BY <2>4, <2>5 DEF Abstract!Next, Abstract!Withdraw
<1>5. QED
  BY <1>3, <1>4

LEMMA DestroyRefines ==
  ASSUME RegistryInv, NEW m \in Managers, DestroyManager(m)
  PROVE  [Abstract!Next]_Entries
<1>1. /\ \A n \in Managers : resources'[n] = IF n = m THEN {} ELSE resources[n]
      /\ id' = id
  BY DEF DestroyManager, RegistryInv, IndexTypeOK
<1>2. Entries' = {e \in Entries : e[1] # m}
  BY <1>1 DEF Entries
<1>3. QED
  BY <1>2 DEF Abstract!Next, Abstract!Close

\* setId: the search finds the resource itself (FindIdSelf), and a collision
\* leaves its line as it was.
LEMMA SetIdRefines ==
  ASSUME RegistryInv, NEW r \in Rsrcs, NEW i \in Ids, SetId(r, i)
  PROVE  [Abstract!Next]_Entries
<1>1. Rekey(r, i) /\ resources' = resources
  BY DEF SetId
<1>2. CASE id' = id
  BY <1>1, <1>2, SameEntries
<1>3. CASE manager[r] = Nil
  <2>1. \A n \in Managers : r \notin resources[n]
    BY <1>3, NilIsNothing DEF RegistryInv, LinkIffManaged
  <2>2. id' = [id EXCEPT ![r] = i]
    BY <1>1, <1>3 DEF Rekey
  <2>3. \A n \in Managers : \A q \in resources[n] : id'[q] = id[q]
    BY <2>1, <2>2 DEF RegistryInv, IndexTypeOK
  <2>4. QED
    BY <1>1, <2>3, SameEntries
<1>4. CASE manager[r] # Nil /\ id' # id
  <2> DEFINE m == manager[r]
  <2>1. m \in Managers /\ r \in resources[m] /\ FindId(m, id[r]) = {r}
    BY <1>4, FindIdSelf
  <2>2. /\ \A q \in resources[m] \ {r} : id[q] # i
        /\ id' = [id EXCEPT ![r] = i]
    <3>1. PICK found \in {r} :
            IF \E q \in resources[m] \ {found} : id[q] = i
            THEN id' = id
            ELSE id' = [id EXCEPT ![found] = i]
      BY <1>1, <1>4, <2>1 DEF Rekey
    <3>2. QED
      BY <1>4, <3>1
  <2>3. \A q \in Rsrcs : id'[q] = IF q = r THEN i ELSE id[q]
    BY <2>2 DEF RegistryInv, IndexTypeOK
  <2>4. id[r] # i
    BY <1>4, <2>2 DEF RegistryInv, IndexTypeOK
  <2>5. \A n \in Managers : r \in resources[n] => n = m
    BY DEF RegistryInv, LinkIffManaged
  <2>6. << m, id[r], r >> \in Entries
    BY <2>1, EntryFacts
  <2>7. ~Abstract!Taken(m, i)
    BY <2>2, <2>4, EntryFacts DEF Abstract!Taken
  <2>8. Entries' = (Entries \ {<< m, id[r], r >>}) \cup {<< m, i, r >>}
    <3>1. << m, i, r >> \in Entries'
      <4>1. << m, r >> \in {g \in Managers \X Rsrcs : g[2] \in resources'[g[1]]}
        BY <1>1, <2>1
      <4>2. << m, r >>[1] = m /\ << m, r >>[2] = r /\ id'[r] = i
        BY <2>3
      <4>3. QED
        BY <4>1, <4>2 DEF Entries
    <3>2. << m, id[r], r >> \notin Entries'
      BY <2>3, <2>4 DEF Entries
    <3>3. ASSUME NEW e \in Entries', e # << m, i, r >> PROVE e \in Entries
      BY <1>1, <2>3, <2>5, <3>3 DEF Entries
    <3>4. ASSUME NEW e \in Entries, e # << m, id[r], r >> PROVE e \in Entries'
      BY <1>1, <2>3, <2>5, <3>4 DEF Entries
    <3>5. QED
      BY <3>1, <3>2, <3>3, <3>4
  <2>9. Entries' # Entries
    BY <2>6, <2>8, <2>4
  <2>10. << m, id[r], r >>[1] = m /\ << m, id[r], r >>[3] = r
    OBVIOUS
  <2>11. Abstract!Renumber(<< m, id[r], r >>, i)
    BY <2>7, <2>8, <2>10 DEF Abstract!Renumber
  <2>12. QED
    BY <2>6, <2>9, <2>11 DEF Abstract!Next
<1>5. QED
  BY <1>2, <1>3, <1>4

-----------------------------------------------------------------------------
\* One call is one line of the table, or none.
LEMMA NextRefines ==
  ASSUME RegistryInv, RegistryInv', ~AllowReparent, [Next]_vars
  PROVE  [Abstract!Next]_Entries
<1>1. ASSUME NEW r \in Rsrcs, NEW i \in Ids, New(r, i)
      PROVE  [Abstract!Next]_Entries
  <2>1. r \notin alive /\ id' = [id EXCEPT ![r] = i] /\ resources' = resources
    BY <1>1 DEF New, Construct
  <2>2. \A n \in Managers : \A q \in resources[n] : id'[q] = id[q]
    BY <2>1 DEF RegistryInv, IndexTypeOK
  <2>3. QED
    BY <2>1, <2>2, SameEntries
<1>2. ASSUME NEW r \in Rsrcs, Write(r) \/ \E u \in Urls : SetLocation(r, u) \/ WriteTo(r, u)
      PROVE  [Abstract!Next]_Entries
  BY <1>2, SameEntries DEF SetLocation, WriteTo, Write
<1>3. ASSUME NEW m \in Managers, NEW t \in Types, NEW r \in Rsrcs, Add(m, t, r)
      PROVE  [Abstract!Next]_Entries
  <2>1. r \in alive /\ manager[r] \in {m, Nil} /\ AddEffect(m, t, r, id[r]) /\ id' = id
    BY <1>3 DEF Add
  <2>2. id[r] \in Ids /\ id' = [id EXCEPT ![r] = id[r]]
    BY <2>1 DEF RegistryInv, IndexTypeOK
  <2>3. QED
    BY <2>1, <2>2, InsertRefines
<1>4. ASSUME NEW m \in Managers, NEW t \in Types, NEW r \in Rsrcs, NEW uuid \in Ids,
             CreateWithId(m, t, r, uuid)
      PROVE  [Abstract!Next]_Entries
  <2>1. CASE t \in registered
    <3>1. PICK i \in {uuid} \cup (Ids \ {id[q] : q \in alive}) : Construct(r, i) /\ AddEffect(m, t, r, i)
      BY <1>4, <2>1 DEF CreateWithId
    <3>2. i \in Ids /\ manager[r] = Nil /\ r \notin alive /\ id' = [id EXCEPT ![r] = i]
      BY <3>1, FreshIsUnmanaged DEF Construct
    <3>3. QED
      BY <3>1, <3>2, InsertRefines
  <2>2. CASE t \notin registered
    BY <1>4, <2>2, SameEntries DEF CreateWithId
  <2>3. QED
    BY <2>1, <2>2
<1>5. ASSUME NEW m \in Managers, NEW t \in Types, NEW u \in Urls, NEW r \in Rsrcs, Read(m, t, u, r)
      PROVE  [Abstract!Next]_Entries
  <2>1. disk[u] # Nil /\ Construct(r, disk[u]) /\ AddEffect(m, t, r, disk[u])
    BY <1>5 DEF Read
  <2>2. disk[u] \in Ids /\ manager[r] = Nil /\ r \notin alive /\ id' = [id EXCEPT ![r] = disk[u]]
    BY <2>1, FreshIsUnmanaged DEF Construct, RegistryInv, IndexTypeOK
  <2>3. QED
    BY <2>1, <2>2, InsertRefines
<1>6. ASSUME \/ \E t \in Types : Register(t)
             \/ \E m \in Managers, c \in Clients, b \in BOOLEAN : Observe(m, c, b)
             \/ \E c \in Clients : Unobserve(c)
             \/ UNCHANGED vars
      PROVE  [Abstract!Next]_Entries
  <2>1. UNCHANGED rsrcVars
    BY <1>6 DEF Register, Observe, Unobserve, vars
  <2>2. QED
    BY <2>1, SameEntries DEF rsrcVars
<1>7. QED
  BY <1>1, <1>2, <1>3, <1>4, <1>5, <1>6, SetIdRefines, RemoveRefines, DestroyRefines DEF Next, Create

LEMMA InitRefines == Init => Abstract!Init
BY DEF Init, Entries, Abstract!Init

\* The registry keeps its promise for any instance: seen through the lines of
\* the containers, every call of Manager and Resource enters, withdraws or
\* renumbers one resource, closes a manager or changes nothing.
THEOREM RegistryRefined ==
  ASSUME ~AllowReparent
  PROVE  Spec => ImplementsRegistry
<1>1. RegistryInv /\ RegistryInv' /\ [Next]_vars => [Abstract!Next]_Entries
  BY NextRefines
<1>2. Spec => []RegistryInv
  BY RegistryInvariance
<1>3. QED
  BY <1>1, <1>2, InitRefines, PTL DEF Spec, ImplementsRegistry, Abstract!Spec
-----------------------------------------------------------------------------
(* Observers *)

\* The types of what observers have.
ObserverTypeOK ==
  /\ registered \subseteq Types
  /\ DOMAIN observers = Managers
  /\ \A m \in Managers : /\ DOMAIN observers[m] \subseteq Handles
                         /\ observers[m] \in [DOMAIN observers[m] -> Clients]
  /\ handle \in [Clients -> (Managers \X Handles) \cup {Nil}]
  /\ seen \in [Clients -> [Rsrcs -> Tallies]]

\* Nobody observes but under the handle it holds: HandleStaysMine read the
\* other way round.
NoForgottenObserver ==
  \A m \in Managers : \A h \in DOMAIN observers[m] :
    handle[observers[m][h]] = << m, h >>

\* The handles: given to one client each, and only to those that observe.
HandleInv == ObserverTypeOK /\ HandleStaysMine /\ NoForgottenObserver

-----------------------------------------------------------------------------
(* Handles *)

\* A set of handles that is not empty has a largest element.
LEMMA LargestHandle ==
  ASSUME NEW D \in SUBSET Handles, D # {}
  PROVE  \E h \in D : \A g \in D : g <= h
  BY ConstantsOK, LargestNumber DEF Handles

\* observe() never hands out a handle that is in use.
LEMMA NextHandleIsNew ==
  ASSUME ObserverTypeOK, NEW m \in Managers
  PROVE  NextHandle(m) \in Nat /\ NextHandle(m) \notin DOMAIN observers[m]
<1>1. DOMAIN observers[m] \in SUBSET Handles
  BY DEF ObserverTypeOK
<1>2. CASE DOMAIN observers[m] = {}
  BY <1>2 DEF NextHandle
<1>3. CASE DOMAIN observers[m] # {}
  <2> DEFINE top == CHOOSE h \in DOMAIN observers[m] : \A g \in DOMAIN observers[m] : g <= h
  <2>1. top \in DOMAIN observers[m] /\ \A g \in DOMAIN observers[m] : g <= top
    BY <1>1, <1>3, LargestHandle
  <2>2. NextHandle(m) = 1 + top
    BY <1>3 DEF NextHandle
  <2>3. top \in Nat
    BY <1>1, <2>1 DEF Handles
  <2> HIDE DEF top
  <2>4. QED
    BY <2>1, <2>2, <2>3
<1>4. QED
  BY <1>2, <1>3

\* The observers of a manager are the clients that hold a handle of it.
LEMMA WatchersHoldHandles ==
  ASSUME HandleInv, NEW m \in Managers, NEW c \in Clients
  PROVE  c \in Watchers(m) <=> handle[c] # Nil /\ handle[c][1] = m
<1>1. ASSUME c \in Watchers(m)
      PROVE  handle[c] # Nil /\ handle[c][1] = m
  <2>1. PICK h \in DOMAIN observers[m] : observers[m][h] = c
    BY <1>1 DEF Watchers
  <2>2. handle[c] = << m, h >> /\ h \in Handles
    BY <2>1 DEF HandleInv, NoForgottenObserver, ObserverTypeOK
  <2>3. handle[c] # Nil
    BY <2>2, NilIsNothing DEF Handles
  <2>4. QED
    BY <2>2, <2>3
<1>2. ASSUME handle[c] # Nil, handle[c][1] = m
      PROVE  c \in Watchers(m)
  BY <1>2 DEF HandleInv, HandleStaysMine, Watchers
<1>3. QED
  BY <1>1, <1>2

\* Handles are untouched by whatever leaves the observers alone.
LEMMA HandlesUntouched ==
  ASSUME HandleInv, observers' = observers, handle' = handle,
         registered' \subseteq Types, seen' \in [Clients -> [Rsrcs -> Tallies]]
  PROVE  HandleInv'
BY DEF HandleInv, ObserverTypeOK, HandleStaysMine, NoForgottenObserver

\* observe(): the new client gets an entry of its own.
LEMMA ObserveHandles ==
  ASSUME HandleInv, NEW m \in Managers, NEW c \in Clients, NEW b \in BOOLEAN, Observe(m, c, b)
  PROVE  HandleInv'
<1> DEFINE h == NextHandle(m)
<1>1. /\ handle[c] = Nil /\ h <= MaxHandle
      /\ observers' = [observers EXCEPT ![m] =
                          [g \in DOMAIN @ \cup {h} |-> IF g = h THEN c ELSE @[g]]]
      /\ handle' = [handle EXCEPT ![c] = << m, h >>]
      /\ registered' = registered
      /\ seen' = [seen EXCEPT ![c] =
                     [r \in Rsrcs |-> IF ~b THEN "unknown"
                                      ELSE IF r \in resources[m] THEN Added["absent"]
                                      ELSE "absent"]]
  BY DEF Observe
<1>2. h \in Handles /\ h \notin DOMAIN observers[m]
  BY <1>1, NextHandleIsNew, ConstantsOK DEF HandleInv, Handles
<1> HIDE DEF h
<1>3. /\ DOMAIN observers' = Managers
      /\ observers'[m] = [g \in DOMAIN observers[m] \cup {h} |-> IF g = h THEN c ELSE observers[m][g]]
      /\ \A n \in Managers : n # m => observers'[n] = observers[n]
  BY <1>1 DEF HandleInv, ObserverTypeOK
<1>4. seen' \in [Clients -> [Rsrcs -> Tallies]]
  BY <1>1 DEF HandleInv, ObserverTypeOK, Added, Tallies
<1>5. handle' \in [Clients -> (Managers \X Handles) \cup {Nil}]
  BY <1>1, <1>2 DEF HandleInv, ObserverTypeOK
<1>6. ObserverTypeOK'
  <2>1. \A n \in Managers : /\ DOMAIN observers'[n] \subseteq Handles
                            /\ observers'[n] \in [DOMAIN observers'[n] -> Clients]
    BY <1>2, <1>3 DEF HandleInv, ObserverTypeOK
  <2>2. QED
    BY <1>1, <1>3, <1>4, <1>5, <2>1 DEF HandleInv, ObserverTypeOK
<1>7. handle'[c] = << m, h >> /\ \A d \in Clients : d # c => handle'[d] = handle[d]
  BY <1>1 DEF HandleInv, ObserverTypeOK
<1>8. HandleStaysMine'
  <2>1. ASSUME NEW d \in Clients, handle'[d] # Nil
        PROVE  /\ handle'[d][2] \in DOMAIN observers'[handle'[d][1]]
               /\ observers'[handle'[d][1]][handle'[d][2]] = d
    <3>1. CASE d = c
      BY <1>3, <1>7, <3>1
    <3>2. CASE d # c
      <4>1. /\ handle'[d] = handle[d] /\ handle[d][1] \in Managers
            /\ handle[d][2] \in DOMAIN observers[handle[d][1]]
            /\ observers[handle[d][1]][handle[d][2]] = d
        BY <1>7, <2>1, <3>2 DEF HandleInv, ObserverTypeOK, HandleStaysMine
      <4>2. QED
        BY <1>2, <1>3, <4>1
    <3>3. QED
      BY <3>1, <3>2
  <2>2. QED
    BY <2>1 DEF HandleStaysMine
<1>9. NoForgottenObserver'
  <2>1. ASSUME NEW n \in Managers, NEW g \in DOMAIN observers'[n]
        PROVE  handle'[observers'[n][g]] = << n, g >>
    <3>1. CASE n = m /\ g = h
      BY <1>3, <1>7, <3>1
    <3>2. CASE ~(n = m /\ g = h)
      <4>1. g \in DOMAIN observers[n] /\ observers'[n][g] = observers[n][g]
        BY <1>3, <2>1, <3>2
      <4>2. observers[n][g] \in Clients /\ handle[observers[n][g]] = << n, g >>
        BY <4>1 DEF HandleInv, ObserverTypeOK, NoForgottenObserver
      <4>3. observers[n][g] # c
        <5>1. << n, g >> # Nil
          BY <4>1, NilIsNothing DEF HandleInv, ObserverTypeOK, Handles
        <5>2. QED
          BY <1>1, <4>2, <5>1
      <4>4. QED
        BY <1>7, <4>1, <4>2, <4>3
    <3>3. QED
      BY <3>1, <3>2
  <2>2. QED
    BY <2>1 DEF NoForgottenObserver
<1>10. QED
  BY <1>6, <1>8, <1>9 DEF HandleInv

\* unobserve(): the entry of that client goes, and no other.
LEMMA UnobserveHandles ==
  ASSUME HandleInv, NEW c \in Clients, Unobserve(c)
  PROVE  HandleInv'
<1> DEFINE m == handle[c][1]
           h == handle[c][2]
<1>1. /\ handle[c] # Nil /\ registered' = registered
      /\ observers' = [observers EXCEPT ![m] = [g \in DOMAIN @ \ {h} |-> @[g]]]
      /\ handle' = [handle EXCEPT ![c] = Nil]
      /\ seen' = [seen EXCEPT ![c] = [r \in Rsrcs |-> "unknown"]]
  BY DEF Unobserve
<1>2. m \in Managers /\ h \in Handles /\ handle[c] = << m, h >> /\ observers[m][h] = c
  BY <1>1 DEF HandleInv, ObserverTypeOK, HandleStaysMine
<1> HIDE DEF m, h
<1>3. /\ DOMAIN observers' = Managers
      /\ observers'[m] = [g \in DOMAIN observers[m] \ {h} |-> observers[m][g]]
      /\ \A n \in Managers : n # m => observers'[n] = observers[n]
  BY <1>1, <1>2 DEF HandleInv, ObserverTypeOK
<1>4. seen' \in [Clients -> [Rsrcs -> Tallies]]
  BY <1>1 DEF HandleInv, ObserverTypeOK, Tallies
<1>5. ObserverTypeOK'
  <2>1. \A n \in Managers : /\ DOMAIN observers'[n] \subseteq Handles
                            /\ observers'[n] \in [DOMAIN observers'[n] -> Clients]
    BY <1>3 DEF HandleInv, ObserverTypeOK
  <2>2. handle' \in [Clients -> (Managers \X Handles) \cup {Nil}]
    BY <1>1 DEF HandleInv, ObserverTypeOK
  <2>3. QED
    BY <1>1, <1>3, <1>4, <2>1, <2>2 DEF HandleInv, ObserverTypeOK
<1>6. handle'[c] = Nil /\ \A d \in Clients : d # c => handle'[d] = handle[d]
  BY <1>1 DEF HandleInv, ObserverTypeOK
<1>7. HandleStaysMine'
  <2>1. ASSUME NEW d \in Clients, handle'[d] # Nil
        PROVE  /\ handle'[d][2] \in DOMAIN observers'[handle'[d][1]]
               /\ observers'[handle'[d][1]][handle'[d][2]] = d
    <3>1. d # c /\ handle'[d] = handle[d]
      BY <1>6, <2>1
    <3>2. /\ handle[d][1] \in Managers
          /\ handle[d][2] \in DOMAIN observers[handle[d][1]]
          /\ observers[handle[d][1]][handle[d][2]] = d
      BY <2>1, <3>1 DEF HandleInv, ObserverTypeOK, HandleStaysMine
    <3>3. ~(handle[d][1] = m /\ handle[d][2] = h)
      BY <1>2, <3>1, <3>2
    <3>4. QED
      BY <1>3, <3>1, <3>2, <3>3
  <2>2. QED
    BY <2>1 DEF HandleStaysMine
<1>8. NoForgottenObserver'
  <2>1. ASSUME NEW n \in Managers, NEW g \in DOMAIN observers'[n]
        PROVE  handle'[observers'[n][g]] = << n, g >>
    <3>1. g \in DOMAIN observers[n] /\ observers'[n][g] = observers[n][g] /\ ~(n = m /\ g = h)
      BY <1>3, <2>1
    <3>2. observers[n][g] \in Clients /\ handle[observers[n][g]] = << n, g >>
      BY <3>1 DEF HandleInv, ObserverTypeOK, NoForgottenObserver
    <3>3. observers[n][g] # c
      BY <1>2, <3>1, <3>2
    <3>4. QED
      BY <1>6, <3>1, <3>2, <3>3
  <2>2. QED
    BY <2>1 DEF NoForgottenObserver
<1>9. QED
  BY <1>5, <1>7, <1>8 DEF HandleInv

-----------------------------------------------------------------------------
(* Events *)

\* The whole invariant of the observers of a manager.
ObserverInv == HandleInv /\ ObserversMirror

\* An event reaches the observers of the manager and counts for one resource.
LEMMA ToldExactly ==
  ASSUME HandleInv, NEW m \in Managers, NEW r \in Rsrcs, NEW delta \in {Added, Removed},
         Told(m, r, delta)
  PROVE  /\ seen' \in [Clients -> [Rsrcs -> Tallies]]
         /\ \A c \in Clients, q \in Rsrcs :
              seen'[c][q] = IF c \in Watchers(m) /\ q = r THEN delta[seen[c][q]] ELSE seen[c][q]
<1>1. seen \in [Clients -> [Rsrcs -> Tallies]]
  BY DEF HandleInv, ObserverTypeOK
<1>2. \A t \in Tallies : delta[t] \in Tallies
  BY DEF Added, Removed, Tallies
<1>3. seen' = [c \in Clients |-> IF c \in Watchers(m) THEN [seen[c] EXCEPT ![r] = delta[@]]
                                                      ELSE seen[c]]
  BY DEF Told
<1>4. QED
  BY <1>1, <1>2, <1>3

\* An insertion: the resource was not in the manager, and all its observers
\* are told; or nothing happens.
LEMMA InsertMirrored ==
  ASSUME RegistryInv, ObserverInv,
         NEW m \in Managers, NEW t \in Types, NEW r \in Rsrcs, NEW i \in Ids,
         r \in alive => id[r] = i,
         AddEffect(m, t, r, i),
         registered' = registered, observers' = observers, handle' = handle
  PROVE  ObserverInv'
<1>1. PICK found \in FindId(m, i) :
        IF t \in registered /\ found = Nil
        THEN /\ resources' = [resources EXCEPT ![m] = @ \cup {r}]
             /\ Told(m, r, Added)
        ELSE resources' = resources /\ seen' = seen
  BY DEF AddEffect
<1>2. CASE resources' = resources /\ seen' = seen
  BY <1>2, HandlesUntouched DEF ObserverInv, HandleInv, ObserverTypeOK, ObserversMirror
<1>3. CASE /\ found = Nil
           /\ resources' = [resources EXCEPT ![m] = @ \cup {r}]
           /\ Told(m, r, Added)
  <2>1. r \notin resources[m]
    <3>1. \A q \in resources[m] : id[q] # i
      BY <1>3, FindIdExact, NilIsNothing DEF RegistryInv, IndexTypeOK
    <3>2. QED
      BY <3>1 DEF RegistryInv
  <2>2. /\ seen' \in [Clients -> [Rsrcs -> Tallies]]
        /\ \A c \in Clients, q \in Rsrcs :
             seen'[c][q] = IF c \in Watchers(m) /\ q = r THEN Added[seen[c][q]] ELSE seen[c][q]
    BY <1>3, ToldExactly DEF ObserverInv
  <2>3. HandleInv'
    BY <2>2, HandlesUntouched DEF ObserverInv, HandleInv, ObserverTypeOK
  <2>4. ASSUME NEW c \in Clients, handle[c] # Nil, NEW q \in Rsrcs
        PROVE  \/ seen'[c][q] = "unknown"
               \/ seen'[c][q] = IF q \in resources'[handle[c][1]] THEN "present" ELSE "absent"
    <3>1. handle[c][1] \in Managers
      BY <2>4 DEF ObserverInv, HandleInv, ObserverTypeOK
    <3>2. \/ seen[c][q] = "unknown"
          \/ seen[c][q] = IF q \in resources[handle[c][1]] THEN "present" ELSE "absent"
      BY <2>4 DEF ObserverInv, ObserversMirror
    <3>3. CASE handle[c][1] = m /\ q = r
      <4>1. seen'[c][q] = Added[seen[c][q]]
        BY <2>2, <2>4, <3>3, WatchersHoldHandles DEF ObserverInv
      <4>2. q \in resources'[handle[c][1]]
        BY <1>3, <3>3 DEF RegistryInv, IndexTypeOK
      <4>3. QED
        BY <2>1, <3>2, <3>3, <4>1, <4>2 DEF Added
    <3>4. CASE ~(handle[c][1] = m /\ q = r)
      <4>1. seen'[c][q] = seen[c][q]
        BY <2>2, <2>4, <3>4, WatchersHoldHandles DEF ObserverInv
      <4>2. q \in resources'[handle[c][1]] <=> q \in resources[handle[c][1]]
        BY <1>3, <3>1, <3>4 DEF RegistryInv, IndexTypeOK
      <4>3. QED
        BY <3>2, <4>1, <4>2
    <3>5. QED
      BY <3>3, <3>4
  <2>5. ObserversMirror'
    BY <2>4 DEF ObserversMirror
  <2>6. QED
    BY <2>3, <2>5 DEF ObserverInv
<1>4. QED
  BY <1>1, <1>2, <1>3

\* A removal: what is found was in the manager, and all its observers are told.
LEMMA RemoveMirrored ==
  ASSUME RegistryInv, ObserverInv, NEW m \in Managers, NEW r \in Rsrcs, Remove(m, r)
  PROVE  ObserverInv'
<1>1. r \in alive /\ registered' = registered /\ observers' = observers /\ handle' = handle
  BY DEF Remove
<1>2. PICK found \in FindId(m, id[r]) :
        IF found = Nil
        THEN resources' = resources /\ seen' = seen
        ELSE /\ Told(m, found, Removed)
             /\ resources' = [resources EXCEPT ![m] = @ \ {found}]
  BY DEF Remove
<1>3. CASE found = Nil
  BY <1>1, <1>2, <1>3, HandlesUntouched DEF ObserverInv, HandleInv, ObserverTypeOK, ObserversMirror
<1>4. CASE found # Nil
  <2>1. found \in resources[m] /\ found \in Rsrcs
    <3>1. id[r] \in Ids
      BY <1>1 DEF RegistryInv, IndexTypeOK
    <3>2. QED
      BY <1>4, <3>1, FindIdExact DEF RegistryInv, IndexTypeOK
  <2>2. /\ seen' \in [Clients -> [Rsrcs -> Tallies]]
        /\ \A c \in Clients, q \in Rsrcs :
             seen'[c][q] = IF c \in Watchers(m) /\ q = found THEN Removed[seen[c][q]] ELSE seen[c][q]
    BY <1>2, <1>4, <2>1, ToldExactly DEF ObserverInv
  <2>3. HandleInv'
    BY <1>1, <2>2, HandlesUntouched DEF ObserverInv, HandleInv, ObserverTypeOK
  <2>4. ASSUME NEW c \in Clients, handle[c] # Nil, NEW q \in Rsrcs
        PROVE  \/ seen'[c][q] = "unknown"
               \/ seen'[c][q] = IF q \in resources'[handle[c][1]] THEN "present" ELSE "absent"
    <3>1. handle[c][1] \in Managers
      BY <2>4 DEF ObserverInv, HandleInv, ObserverTypeOK
    <3>2. \/ seen[c][q] = "unknown"
          \/ seen[c][q] = IF q \in resources[handle[c][1]] THEN "present" ELSE "absent"
      BY <2>4 DEF ObserverInv, ObserversMirror
    <3>3. CASE handle[c][1] = m /\ q = found
      <4>1. seen'[c][q] = Removed[seen[c][q]]
        BY <2>2, <2>4, <3>3, WatchersHoldHandles DEF ObserverInv
      <4>2. q \notin resources'[handle[c][1]]
        BY <1>2, <1>4, <3>3 DEF RegistryInv, IndexTypeOK
      <4>3. QED
        BY <2>1, <3>2, <3>3, <4>1, <4>2 DEF Removed
    <3>4. CASE ~(handle[c][1] = m /\ q = found)
      <4>1. seen'[c][q] = seen[c][q]
        BY <2>2, <2>4, <3>4, WatchersHoldHandles DEF ObserverInv
      <4>2. q \in resources'[handle[c][1]] <=> q \in resources[handle[c][1]]
        BY <1>2, <1>4, <3>1, <3>4 DEF RegistryInv, IndexTypeOK
      <4>3. QED
        BY <3>2, <4>1, <4>2
    <3>5. QED
      BY <3>3, <3>4
  <2>5. ObserversMirror'
    BY <1>1, <2>4 DEF ObserversMirror
  <2>6. QED
    BY <2>3, <2>5 DEF ObserverInv
<1>5. QED
  BY <1>3, <1>4

\* A manager nobody observes goes away: no observer has to be told.
LEMMA DestroyMirrored ==
  ASSUME RegistryInv, ObserverInv, NEW m \in Managers, DestroyManager(m)
  PROVE  ObserverInv'
<1>1. /\ Watchers(m) = {} /\ resources' = [resources EXCEPT ![m] = {}]
      /\ registered' = registered /\ observers' = observers /\ handle' = handle /\ seen' = seen
  BY DEF DestroyManager, obsVars
<1>2. HandleInv'
  BY <1>1, HandlesUntouched DEF ObserverInv, HandleInv, ObserverTypeOK
<1>3. \A c \in Clients : handle[c] # Nil => resources'[handle[c][1]] = resources[handle[c][1]]
  <2>1. \A c \in Clients : handle[c] # Nil => handle[c][1] \in Managers /\ handle[c][1] # m
    BY <1>1, WatchersHoldHandles DEF ObserverInv, HandleInv, ObserverTypeOK
  <2>2. QED
    BY <1>1, <2>1 DEF RegistryInv, IndexTypeOK
<1>4. ObserversMirror'
  BY <1>1, <1>3 DEF ObserverInv, ObserversMirror
<1>5. QED
  BY <1>2, <1>4 DEF ObserverInv

\* Who observes from now on is told of the content, or knows nothing.
LEMMA ObserveMirrored ==
  ASSUME ObserverInv, NEW m \in Managers, NEW c \in Clients, NEW b \in BOOLEAN, Observe(m, c, b)
  PROVE  ObserverInv'
<1>1. HandleInv'
  BY ObserveHandles DEF ObserverInv
<1>2. /\ resources' = resources
      /\ handle' = [handle EXCEPT ![c] = << m, NextHandle(m) >>]
      /\ seen' = [seen EXCEPT ![c] =
                     [r \in Rsrcs |-> IF ~b THEN "unknown"
                                      ELSE IF r \in resources[m] THEN Added["absent"]
                                      ELSE "absent"]]
  BY DEF Observe, rsrcVars
<1>3. ASSUME NEW d \in Clients, handle'[d] # Nil, NEW q \in Rsrcs
      PROVE  \/ seen'[d][q] = "unknown"
             \/ seen'[d][q] = IF q \in resources[handle'[d][1]] THEN "present" ELSE "absent"
  <2>1. CASE d = c
    <3>1. handle'[d][1] = m
      BY <1>2, <2>1 DEF ObserverInv, HandleInv, ObserverTypeOK
    <3>2. seen'[d][q] = IF ~b THEN "unknown" ELSE IF q \in resources[m] THEN Added["absent"] ELSE "absent"
      BY <1>2, <2>1 DEF ObserverInv, HandleInv, ObserverTypeOK
    <3>3. QED
      BY <3>1, <3>2 DEF Added
  <2>2. CASE d # c
    BY <1>2, <1>3, <2>2 DEF ObserverInv, HandleInv, ObserverTypeOK, ObserversMirror
  <2>3. QED
    BY <2>1, <2>2
<1>4. ObserversMirror'
  BY <1>2, <1>3 DEF ObserversMirror
<1>5. QED
  BY <1>1, <1>4 DEF ObserverInv

LEMMA UnobserveMirrored ==
  ASSUME ObserverInv, NEW c \in Clients, Unobserve(c)
  PROVE  ObserverInv'
<1>1. HandleInv'
  BY UnobserveHandles DEF ObserverInv
<1>2. /\ resources' = resources
      /\ handle' = [handle EXCEPT ![c] = Nil]
      /\ seen' = [seen EXCEPT ![c] = [r \in Rsrcs |-> "unknown"]]
  BY DEF Unobserve, rsrcVars
<1>3. \A d \in Clients : d # c => handle'[d] = handle[d] /\ seen'[d] = seen[d]
  BY <1>2 DEF ObserverInv, HandleInv, ObserverTypeOK
<1>4. handle'[c] = Nil
  BY <1>2 DEF ObserverInv, HandleInv, ObserverTypeOK
<1>5. ObserversMirror'
  BY <1>2, <1>3, <1>4 DEF ObserverInv, ObserversMirror
<1>6. QED
  BY <1>1, <1>5 DEF ObserverInv

\* Calls that neither change what a manager contains nor who observes it.
LEMMA ObserversUnconcerned ==
  ASSUME ObserverInv, resources' = resources, registered' \subseteq Types,
         observers' = observers, handle' = handle, seen' = seen
  PROVE  ObserverInv'
<1>1. HandleInv'
  BY HandlesUntouched DEF ObserverInv, HandleInv, ObserverTypeOK
<1>2. ObserversMirror'
  BY DEF ObserverInv, ObserversMirror
<1>3. QED
  BY <1>1, <1>2 DEF ObserverInv

LEMMA NextObserverInv ==
  ASSUME RegistryInv, ObserverInv, [Next]_vars
  PROVE  ObserverInv'
<1>0. registered \subseteq Types
  BY DEF ObserverInv, HandleInv, ObserverTypeOK
<1>1. ASSUME NEW t \in Types, Register(t)
      PROVE  ObserverInv'
  <2>1. registered' \subseteq Types /\ resources' = resources
    BY <1>0, <1>1 DEF Register, rsrcVars
  <2>2. observers' = observers /\ handle' = handle /\ seen' = seen
    BY <1>1 DEF Register, obsVars
  <2>3. QED
    BY <2>1, <2>2, ObserversUnconcerned
<1>2. ASSUME NEW r \in Rsrcs, NEW i \in Ids, New(r, i) \/ SetId(r, i)
      PROVE  ObserverInv'
  BY <1>0, <1>2, ObserversUnconcerned DEF New, SetId, obsVars
<1>3. ASSUME NEW r \in Rsrcs, NEW u \in Urls, SetLocation(r, u) \/ WriteTo(r, u)
      PROVE  ObserverInv'
  BY <1>0, <1>3, ObserversUnconcerned DEF SetLocation, WriteTo, obsVars
<1>4. ASSUME NEW r \in Rsrcs, Write(r)
      PROVE  ObserverInv'
  BY <1>0, <1>4, ObserversUnconcerned DEF Write, obsVars
<1>5. ASSUME NEW m \in Managers, NEW t \in Types, NEW r \in Rsrcs, Add(m, t, r)
      PROVE  ObserverInv'
  <2>1. r \in alive /\ AddEffect(m, t, r, id[r])
    BY <1>5 DEF Add
  <2>2. registered' = registered /\ observers' = observers /\ handle' = handle
    BY <1>5 DEF Add
  <2>3. id[r] \in Ids
    BY <2>1 DEF RegistryInv, IndexTypeOK
  <2>4. QED
    BY <2>1, <2>2, <2>3, InsertMirrored
<1>6. ASSUME NEW m \in Managers, NEW t \in Types, NEW r \in Rsrcs, NEW uuid \in Ids,
             CreateWithId(m, t, r, uuid)
      PROVE  ObserverInv'
  <2>1. registered' = registered /\ observers' = observers /\ handle' = handle
    BY <1>6 DEF CreateWithId
  <2>2. CASE t \in registered
    <3>1. PICK i \in {uuid} \cup (Ids \ {id[q] : q \in alive}) : Construct(r, i) /\ AddEffect(m, t, r, i)
      BY <1>6, <2>2 DEF CreateWithId
    <3>2. r \notin alive /\ i \in Ids
      BY <3>1 DEF Construct
    <3>3. QED
      BY <2>1, <3>1, <3>2, InsertMirrored
  <2>3. CASE t \notin registered
    <3>1. resources' = resources /\ seen' = seen
      BY <1>6, <2>3 DEF CreateWithId
    <3>2. QED
      BY <1>0, <2>1, <3>1, ObserversUnconcerned
  <2>4. QED
    BY <2>2, <2>3
<1>7. ASSUME NEW m \in Managers, NEW t \in Types, NEW r \in Rsrcs, Create(m, t, r)
      PROVE  ObserverInv'
  BY <1>6, <1>7 DEF Create
<1>8. ASSUME NEW m \in Managers, NEW r \in Rsrcs, Remove(m, r)
      PROVE  ObserverInv'
  BY <1>8, RemoveMirrored
<1>9. ASSUME NEW m \in Managers, NEW t \in Types, NEW u \in Urls, NEW r \in Rsrcs, Read(m, t, u, r)
      PROVE  ObserverInv'
  <2>1. disk[u] # Nil /\ Construct(r, disk[u]) /\ AddEffect(m, t, r, disk[u])
    BY <1>9 DEF Read
  <2>2. registered' = registered /\ observers' = observers /\ handle' = handle
    BY <1>9 DEF Read
  <2>3. r \notin alive /\ disk[u] \in Ids
    BY <2>1 DEF Construct, RegistryInv, IndexTypeOK
  <2>4. QED
    BY <2>1, <2>2, <2>3, InsertMirrored
<1>10. ASSUME NEW m \in Managers, DestroyManager(m)
       PROVE  ObserverInv'
  BY <1>10, DestroyMirrored
<1>11. ASSUME NEW m \in Managers, NEW c \in Clients, NEW b \in BOOLEAN, Observe(m, c, b)
       PROVE  ObserverInv'
  BY <1>11, ObserveMirrored
<1>12. ASSUME NEW c \in Clients, Unobserve(c)
       PROVE  ObserverInv'
  BY <1>12, UnobserveMirrored
<1>13. ASSUME UNCHANGED vars
       PROVE  ObserverInv'
  BY <1>0, <1>13, ObserversUnconcerned DEF vars, rsrcVars, obsVars
<1>14. QED
  BY <1>1, <1>2, <1>3, <1>4, <1>5, <1>6, <1>7, <1>8, <1>9, <1>10, <1>11, <1>12, <1>13 DEF Next

LEMMA InitObserverInv == Init => ObserverInv
<1> SUFFICES ASSUME Init PROVE ObserverInv
  OBVIOUS
<1>1. ObserverTypeOK
  <2>1. \A m \in Managers : DOMAIN observers[m] = {}
    BY DEF Init
  <2>2. \A m \in Managers : observers[m] \in [DOMAIN observers[m] -> Clients]
    BY DEF Init
  <2>3. QED
    BY <2>1, <2>2 DEF Init, ObserverTypeOK, Tallies
<1>2. \A c \in Clients : handle[c] = Nil
  BY DEF Init
<1>3. \A m \in Managers : DOMAIN observers[m] = {}
  BY DEF Init
<1>4. QED
  BY <1>1, <1>2, <1>3 DEF ObserverInv, HandleInv, HandleStaysMine, NoForgottenObserver, ObserversMirror

-----------------------------------------------------------------------------
(* setId *)

\* Of the calls, only setId says that it is setId.
LEMMA OnlySetIdSaysSo ==
  ASSUME Next, call'.op = "setId"
  PROVE  \E r \in Rsrcs, i \in Ids : SetId(r, i)
<1>1. ASSUME NEW t \in Types, Register(t)
      PROVE  call'.op # "setId"
  BY <1>1 DEF Register, Call
<1>2. ASSUME NEW r \in Rsrcs, NEW i \in Ids, New(r, i)
      PROVE  call'.op # "setId"
  BY <1>2 DEF New, Call
<1>3. ASSUME NEW r \in Rsrcs, NEW u \in Urls, Save(r, u) \/ SetLocation(r, u)
      PROVE  call'.op # "setId"
  BY <1>3 DEF Save, SetLocation, Call
<1>4. ASSUME NEW r \in Rsrcs, Write(r)
      PROVE  call'.op # "setId"
  BY <1>4 DEF Write, Save, Call
<1>5. ASSUME NEW r \in Rsrcs, NEW u \in Urls, WriteTo(r, u)
      PROVE  call'.op # "setId"
  BY <1>3, <1>5 DEF WriteTo
<1>6. ASSUME NEW m \in Managers, NEW t \in Types, NEW r \in Rsrcs, Add(m, t, r)
      PROVE  call'.op # "setId"
  BY <1>6 DEF Add, Call
<1>7. ASSUME NEW m \in Managers, NEW t \in Types, NEW r \in Rsrcs, NEW i \in Ids, CreateWithId(m, t, r, i)
      PROVE  call'.op # "setId"
  BY <1>7 DEF CreateWithId, Call
<1>8. ASSUME NEW m \in Managers, NEW t \in Types, NEW r \in Rsrcs, Create(m, t, r)
      PROVE  call'.op # "setId"
  BY <1>7, <1>8 DEF Create
<1>9. ASSUME NEW m \in Managers, NEW r \in Rsrcs, Remove(m, r)
      PROVE  call'.op # "setId"
  BY <1>9 DEF Remove, Call
<1>10. ASSUME NEW m \in Managers, NEW t \in Types, NEW u \in Urls, NEW r \in Rsrcs, Read(m, t, u, r)
       PROVE  call'.op # "setId"
  BY <1>10 DEF Read, Call
<1>11. ASSUME NEW m \in Managers, DestroyManager(m)
       PROVE  call'.op # "setId"
  BY <1>11 DEF DestroyManager, Call
<1>12. ASSUME NEW m \in Managers, NEW c \in Clients, NEW b \in BOOLEAN, Observe(m, c, b)
       PROVE  call'.op # "setId"
  BY <1>12 DEF Observe, Call
<1>13. ASSUME NEW c \in Clients, Unobserve(c)
       PROVE  call'.op # "setId"
  BY <1>13 DEF Unobserve, Call
<1>14. QED
  BY <1>1, <1>2, <1>3, <1>4, <1>5, <1>6, <1>7, <1>8, <1>9, <1>10, <1>11, <1>12, <1>13 DEF Next

\* Managed or not, setId changes the id of its own resource, or none.
LEMMA SetIdChangesItsOwn ==
  ASSUME RegistryInv, NEW r \in Rsrcs, NEW i \in Ids, SetId(r, i)
  PROVE  /\ \A q \in Rsrcs \ {call'.rsrc} : id'[q] = id[q]
         /\ ~call'.ret => id' = id
<1>1. Rekey(r, i) /\ call'.rsrc = r /\ call'.ret = (id'[r] = i)
  BY DEF SetId, Call
<1>2. id' = id \/ id' = [id EXCEPT ![r] = i]
  <2>1. CASE manager[r] = Nil
    BY <1>1, <2>1 DEF Rekey
  <2>2. CASE manager[r] # Nil
    BY <1>1, <2>2, FindIdSelf DEF Rekey
  <2>3. QED
    BY <2>1, <2>2
<1>3. CASE id' = id
  BY <1>3
<1>4. CASE id' = [id EXCEPT ![r] = i]
  BY <1>1, <1>4 DEF RegistryInv, IndexTypeOK
<1>5. QED
  BY <1>2, <1>3, <1>4

-----------------------------------------------------------------------------
(* The theorems *)

LEMMA ObserverInvariance ==
  ASSUME ~AllowReparent
  PROVE  Spec => [](RegistryInv /\ ObserverInv)
<1>1. RegistryInv /\ ObserverInv /\ [Next]_vars => (RegistryInv /\ ObserverInv)'
  BY NextRegistryInv, NextObserverInv
<1>2. Init => RegistryInv /\ ObserverInv
  BY InitRegistryInv, InitObserverInv
<1>3. QED
  BY <1>1, <1>2, PTL DEF Spec

\* The state of the registry and of its observers stays well typed, for
\* clients that leave a resource in its manager (all operations of Manager.cxx
\* and Resource.cxx).
THEOREM RegistryTypeOK ==
  ASSUME ~AllowReparent
  PROVE  Spec => []TypeOK
<1>1. RegistryInv /\ ObserverInv => TypeOK
  <2> SUFFICES ASSUME RegistryInv, ObserverInv PROVE TypeOK
    OBVIOUS
  <2>1. stale \in [Managers -> SUBSET Rsrcs]
    BY DEF RegistryInv, IndexTypeOK
  <2>2. QED
    BY <2>1 DEF RegistryInv, IndexTypeOK, ObserverInv, HandleInv, ObserverTypeOK, TypeOK
<1>2. QED
  BY <1>1, ObserverInvariance, PTL

\* The events a client was told since it observes add up to the content of
\* the manager (Manager::add, create, read, remove, observe).
THEOREM EventsMirrorContent ==
  ASSUME ~AllowReparent
  PROVE  Spec => []ObserversMirror
<1>1. ObserverInv => ObserversMirror
  BY DEF ObserverInv
<1>2. QED
  BY <1>1, ObserverInvariance, PTL

\* A handle belongs to the client it was given to until that client gives it
\* back (Manager::observe, unobserve).
THEOREM HandlesSafe ==
  ASSUME ~AllowReparent
  PROVE  Spec => []HandleStaysMine
<1>1. ObserverInv => HandleStaysMine
  BY DEF ObserverInv, HandleInv
<1>2. QED
  BY <1>1, ObserverInvariance, PTL

\* setId changes its own resource or nothing, and says which
\* (Resource::setId).
THEOREM SetIdSafe ==
  ASSUME ~AllowReparent
  PROVE  Spec => SetIdIsLocal
<1>1. RegistryInv /\ [Next]_vars =>
        [call'.op = "setId" => /\ \A q \in Rsrcs \ {call'.rsrc} : id'[q] = id[q]
                               /\ ~call'.ret => id' = id]_vars
  BY OnlySetIdSaysSo, SetIdChangesItsOwn
<1>2. QED
  BY <1>1, RegistryInvariance, PTL DEF Spec, SetIdIsLocal
=============================================================================
