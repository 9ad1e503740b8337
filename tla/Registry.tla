------------------------------- MODULE Registry -------------------------------
(***************************************************************************)
(* What a session relies on when it keeps its resources in managers        *)
(* (smtk/resource/Manager.h): a table from ids to resources for each       *)
(* manager, in which a resource has one line at most.  There is no object, *)
(* no back pointer, no index and no observer here; ResourceManager         *)
(* implements this with all of them.                                       *)
(***************************************************************************)
CONSTANTS
  Managers,   \* resource::Manager instances
  Ids,        \* UUIDs
  Rsrcs       \* resources

VARIABLE entries   \* the lines << manager, id, resource >> of the tables

Init == entries = {}

Taken(m, i) == \E e \in entries : e[1] = m /\ e[2] = i

Listed(r) == \E e \in entries : e[3] = r

\* A resource without a line gets one under an id its manager has free.
Enter(m, i, r) ==
  /\ ~Taken(m, i)
  /\ entries' = entries \cup {<< m, i, r >>}

Withdraw(e) == entries' = entries \ {e}

\* The same resource, in the same manager, under another free id.
Renumber(e, i) ==
  /\ ~Taken(e[1], i)
  /\ entries' = (entries \ {e}) \cup {<< e[1], i, e[3] >>}

\* A manager goes away with all its lines.
Close(m) == entries' = {e \in entries : e[1] # m}

\* Steps that leave the table alone are stuttering steps.
Next ==
  /\ entries' # entries
  /\ \/ \E r \in Rsrcs : ~Listed(r) /\ \E m \in Managers, i \in Ids : Enter(m, i, r)
     \/ \E e \in entries : Withdraw(e) \/ (\E i \in Ids : Renumber(e, i))
     \/ \E m \in Managers : Close(m)

Spec == Init /\ [][Next]_entries
===============================================================================
