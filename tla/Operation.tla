------------------------------ MODULE Operation ------------------------------
(***************************************************************************)
(* smtk::operation::Manager and Operator: the registration of operators,   *)
(* their creation, and the life of an operate() call - WILL_OPERATE, the   *)
(* operation or its cancellation, the log, DID_OPERATE.                    *)
(*                                                                         *)
(* Everything runs on one thread, so the calls in progress form a stack.   *)
(* A frame of the stack is an operate() (or the notification of a create)  *)
(* that has not returned; client code - an observer called in a loop over  *)
(* the live observer map, or operateInternal() - may call anything, which  *)
(* pushes further frames or changes the map under the loop.                *)
(***************************************************************************)
EXTENDS Integers, Sequences, FiniteSets

CONSTANTS
  Managers,          \* operation::Manager instances
  Ops,               \* Operator objects the program may ever create
  Types,             \* Operator::Index values
  OpType,            \* the type of each operator object
  Described,         \* the types registered with an XML description
  Clients,           \* callers with an observer function; the numbers are their addresses
  OwnClients,        \* those of them that observe single operators too
  MaxHandle,         \* bound on observer handles
  MaxDepth,          \* bound on calls in progress
  MaxLog,            \* bound on log records
  Nil,               \* null pointer / no handle
  LateRegistration,  \* may registration change while other managers exist?
  EarlyRelease       \* may a manager be released while its operators live?

ASSUME ConstantsOK ==
  /\ OpType \in [Ops -> Types]
  /\ "all" \notin Ops
  /\ Described \subseteq Types
  /\ Clients \subseteq Nat /\ OwnClients \subseteq Clients
  /\ MaxHandle \in Nat /\ MaxDepth \in Nat /\ MaxLog \in Nat \ {0}
  /\ LateRegistration \in BOOLEAN /\ EarlyRelease \in BOOLEAN
  /\ Nil \notin Managers \cup Nat

VARIABLES
  dictionary,    \* Manager::s_dictionary, static: the registered types
  managers,      \* the managers that exist
  definitions,   \* m_operatorCollection: the types whose XML each manager imported
  manager,       \* Operator::m_manager of the operators created so far, Nil for others
  specified,     \* the operators with a non-null m_specification
  observers,     \* Manager::s_observers, static: handle -> client
  handle,        \* the handle each client holds
  own,           \* m_willOperateTriggers and m_didOperateTriggers of each operator
  log,           \* the records of the logger the operators share: for each, how many of
                 \* the calls in progress had begun when it was written
  stack,         \* the calls in progress, innermost last
  crashed        \* "no", or the null pointer that was dereferenced

regVars  == << dictionary, managers, definitions >>
opVars   == << manager, specified >>
obsVars  == << observers, handle, own >>
vars     == << regVars, opVars, obsVars, log, stack, crashed >>

Handles == 0 .. MaxHandle
Top     == stack[Len(stack)]

ManagerLoops == {"created", "will", "did"}
OwnLoops     == {"willOwn", "didOwn"}
AfterRun     == {"did", "didOwn"}

\* Client code is executing: the application itself, an observer, or the
\* operateInternal() of an operator.
ClientRuns ==
  /\ crashed = "no"
  /\ stack # << >> => Top.calling \/ Top.phase = "run"

\* There is room for what the frames on the stack have to add to the log.
LogHasRoom == Len(log) + Len(stack) < MaxLog

-----------------------------------------------------------------------------
(* Registration *)

\* Static initialisation registers before any manager exists; a manager that
\* registers a type for itself is alone.
RegistrationAllowed(others) == LateRegistration \/ others = {}

\* A plausible bug: a new manager that leaves the types registered so far out.
NewManagerEmpty(m) ==
  /\ ClientRuns
  /\ m \notin managers /\ \A op \in Ops : manager[op] # m
  /\ managers' = managers \cup {m}
  /\ definitions' = [definitions EXCEPT ![m] = {}]
  /\ UNCHANGED << dictionary, opVars, obsVars, log, stack, crashed >>

\* Manager::Manager imports the XML of every registered type that has one.
NewManager(m) ==
  /\ ClientRuns
  /\ m \notin managers /\ \A op \in Ops : manager[op] # m
  /\ managers' = managers \cup {m}
  /\ definitions' = [definitions EXCEPT ![m] = dictionary \cap Described]
  /\ UNCHANGED << dictionary, opVars, obsVars, log, stack, crashed >>

ReleaseManager(m) ==
  /\ ClientRuns
  /\ m \in managers
  /\ EarlyRelease \/ \A op \in Ops : manager[op] # m
  /\ managers' = managers \ {m}
  /\ definitions' = [definitions EXCEPT ![m] = {}]
  /\ UNCHANGED << dictionary, opVars, obsVars, log, stack, crashed >>

RegisterStatic(t) ==
  /\ ClientRuns /\ RegistrationAllowed(managers)
  /\ t \notin dictionary
  /\ dictionary' = dictionary \cup {t}
  /\ UNCHANGED << managers, definitions, opVars, obsVars, log, stack, crashed >>

\* registerOperator: into the static dictionary, and the XML into this manager.
Register(m, t) ==
  /\ ClientRuns /\ m \in managers /\ RegistrationAllowed(managers \ {m})
  /\ t \notin dictionary
  /\ dictionary' = dictionary \cup {t}
  /\ definitions' = [definitions EXCEPT ![m] = @ \cup ({t} \cap Described)]
  /\ UNCHANGED << managers, opVars, obsVars, log, stack, crashed >>

UnregisterStatic(t) ==
  /\ ClientRuns /\ RegistrationAllowed(managers)
  /\ t \in dictionary
  /\ dictionary' = dictionary \ {t}
  /\ UNCHANGED << managers, definitions, opVars, obsVars, log, stack, crashed >>

-----------------------------------------------------------------------------
(* Observers *)

\* A plausible bug: the number of observers as the next handle.
NextHandleBySize == Cardinality(DOMAIN observers)

\* One past the largest handle in use, 0 when there is none.
NextHandle ==
  IF DOMAIN observers = {} THEN 0
  ELSE 1 + CHOOSE h \in DOMAIN observers : \A g \in DOMAIN observers : g <= h

Observe(c) ==
  /\ ClientRuns
  /\ handle[c] = Nil /\ NextHandle <= MaxHandle
  /\ observers' = [h \in DOMAIN observers \cup {NextHandle} |->
                     IF h = NextHandle THEN c ELSE observers[h]]
  /\ handle' = [handle EXCEPT ![c] = NextHandle]
  /\ UNCHANGED << regVars, opVars, own, log, stack, crashed >>

\* No loop stands on this key: erasing the element an iterator of a loop in
\* progress refers to is left to no client.
NotVisited(loops, k) ==
  \A i \in DOMAIN stack :
    ~ (stack[i].calling /\ stack[i].phase \in loops /\ stack[i].cursor = k)

\* The frames of a stack without what was promised to an observer that leaves.
Leaving(stk, who) ==
  [i \in DOMAIN stk |-> [stk[i] EXCEPT !.stay = @ \ who, !.told = @ \ who]]

Unobserve(c) ==
  /\ ClientRuns
  /\ handle[c] # Nil /\ NotVisited(ManagerLoops, handle[c])
  /\ observers' = [h \in DOMAIN observers \ {handle[c]} |-> observers[h]]
  /\ handle' = [handle EXCEPT ![c] = Nil]
  /\ stack' = Leaving(stack, {<< "all", handle[c] >>})
  /\ UNCHANGED << regVars, opVars, own, log, crashed >>

\* observe/unobserve of one operator, for WILL_OPERATE or for DID_OPERATE.
ObserveOwn(op, loop, c) ==
  /\ ClientRuns
  /\ manager[op] # Nil /\ c \notin own[op][loop]
  /\ own' = [own EXCEPT ![op][loop] = @ \cup {c}]
  /\ UNCHANGED << regVars, opVars, observers, handle, log, stack, crashed >>

UnobserveOwn(op, loop, c) ==
  /\ ClientRuns
  /\ c \in own[op][loop] /\ NotVisited({loop}, c)
  /\ own' = [own EXCEPT ![op][loop] = @ \ {c}]
  /\ stack' = Leaving(stack, {<< op, c >>})
  /\ UNCHANGED << regVars, opVars, observers, handle, log, crashed >>

-----------------------------------------------------------------------------
(* Specifications and results *)

\* The manager is still there, the type still registered, and the manager
\* imported the definitions of its specification and result.
Definition(op) ==
  /\ manager[op] \in managers
  /\ OpType[op] \in dictionary
  /\ OpType[op] \in definitions[manager[op]]

SetSpecification(op, spec) ==
  /\ ClientRuns /\ manager[op] # Nil
  /\ IF spec THEN Definition(op) /\ specified' = specified \cup {op}
             ELSE specified' = specified \ {op}
  /\ UNCHANGED << regVars, manager, obsVars, log, stack, crashed >>

-----------------------------------------------------------------------------
(* Calls and loops *)

\* A frame, with what its properties need to remember: who observes it from
\* beginning to end, who of them was told of the present event, whether an observer
\* asked to cancel, and whether the log was reset since it began.
Frame(op, phase, stay) ==
  [op |-> op, phase |-> phase, cursor |-> -1, calling |-> FALSE, status |-> FALSE,
   logStart |-> Len(log), outcome |-> "unknown", result |-> << >>,
   stay |-> stay, told |-> {}, vetoed |-> FALSE, reset |-> FALSE]

\* Those who observe both events of op: every observer of the manager, and the
\* clients in both sets of op.
Observing(op) ==
  {<< "all", h >> : h \in DOMAIN observers} \cup
  {<< op, c >> : c \in own[op]["willOwn"] \cap own[op]["didOwn"]}

Push(frame) == stack' = Append(stack, frame)
Pop ==
  /\ stack' = SubSeq(stack, 1, Len(stack) - 1)
  \* what was written in this call was written in those that go on; records
  \* older than all calls are as one
  /\ log' = IF Len(stack) = 1 THEN << 0 >>
            ELSE [i \in DOMAIN log |-> IF log[i] = Len(stack) THEN Len(stack) - 1 ELSE log[i]]
Become(frame) == stack' = [stack EXCEPT ![Len(stack)] = frame]

\* create(index): construct, link, notify CREATED_OPERATOR.
Create(m, op) ==
  /\ ClientRuns /\ Len(stack) < MaxDepth
  /\ m \in managers /\ OpType[op] \in dictionary
  /\ manager[op] = Nil
  /\ manager' = [manager EXCEPT ![op] = m]
  /\ Push(Frame(op, "created", {}))
  /\ UNCHANGED << regVars, specified, obsVars, log, crashed >>

\* operate() of an operator that is able to: its specification is created on
\* demand; without one, ableToOperate() and the "debug level" go through null.
Operate(op) ==
  /\ ClientRuns /\ Len(stack) < MaxDepth /\ LogHasRoom
  /\ manager[op] # Nil
  /\ IF op \in specified \/ Definition(op)
     THEN /\ specified' = specified \cup {op}
          /\ Push(Frame(op, "will", Observing(op)))
          /\ UNCHANGED crashed
     ELSE /\ crashed' = "specification"
          /\ UNCHANGED << specified, stack >>
  /\ UNCHANGED << regVars, manager, obsVars, log >>

\* ableToOperate() refuses: no event and no summary, just a result.  The
\* specification was asked for all the same.
Refuse(op) ==
  /\ ClientRuns
  /\ manager[op] # Nil /\ op \notin specified /\ Definition(op)
  /\ specified' = specified \cup {op}
  /\ UNCHANGED << regVars, manager, obsVars, log, stack, crashed >>

\* The keys a loop in this phase runs over, now.
Keys(f) == IF f.phase \in ManagerLoops THEN DOMAIN observers ELSE own[f.op][f.phase]

\* What observers answer counts before the operation, and only then.
Cancelable(f) == f.phase \in {"will", "willOwn"}

\* A plausible bug: the first observer that asks to cancel ends the loop.
AheadUntilCanceled(f) == {k \in Keys(f) : k > f.cursor /\ ~f.status}

\* A plausible bug: lower_bound where upper_bound is needed.
AheadWithSelf(f) == {k \in Keys(f) : k >= f.cursor}

\* What the loop has before it: the elements after its iterator.
Ahead(f) == {k \in Keys(f) : k > f.cursor}

InLoop == crashed = "no" /\ stack # << >> /\ ~Top.calling /\ Top.phase # "run"

\* The loop calls its next observer.
Visit ==
  /\ InLoop /\ Ahead(Top) # {}
  /\ LET k   == CHOOSE k \in Ahead(Top) : \A j \in Ahead(Top) : k <= j
         who == IF Top.phase \in ManagerLoops THEN << "all", k >> ELSE << Top.op, k >>
     IN  Become([Top EXCEPT !.cursor = k, !.calling = TRUE, !.told = @ \cup ({who} \cap Top.stay)])
  /\ UNCHANGED << regVars, opVars, obsVars, log, crashed >>

\* A plausible bug: the last observer decides.
CollectLast(f, answer) == answer

\* status |= observer(...)
Collect(f, answer) == f.status \/ answer

\* An observer returns, non-zero to cancel.
Return(answer) ==
  /\ crashed = "no" /\ stack # << >> /\ Top.calling
  /\ Become([Top EXCEPT !.calling = FALSE,
                        !.status = Cancelable(Top) /\ Collect(Top, answer),
                        !.vetoed = @ \/ (Cancelable(Top) /\ answer)])
  /\ UNCHANGED << regVars, opVars, obsVars, log, crashed >>

LoopEnds(phase) == InLoop /\ Top.phase = phase /\ Ahead(Top) = {}

\* The loop over the manager's observers is followed by the one over the
\* operator's own.
NextLoop ==
  /\ \E p \in {<< "will", "willOwn" >>, << "did", "didOwn" >>} :
       LoopEnds(p[1]) /\ Become([Top EXCEPT !.phase = p[2], !.cursor = -1])
  /\ UNCHANGED << regVars, opVars, obsVars, log, crashed >>

\* Nobody canceled: operateInternal() begins.
Run ==
  /\ LoopEnds("willOwn") /\ ~Top.status
  /\ Become([Top EXCEPT !.phase = "run", !.cursor = -1, !.told = {}])
  /\ UNCHANGED << regVars, opVars, obsVars, log, crashed >>

\* operateInternal() logs something.
Note ==
  /\ crashed = "no" /\ stack # << >> /\ Top.phase = "run" /\ LogHasRoom
  /\ log' = Append(log, Len(stack))
  /\ UNCHANGED << regVars, opVars, obsVars, stack, crashed >>

\* operateInternal() reads XML and gives the reader the logger all operators
\* share (ImportPythonOperator): readContents() resets it.
Reset ==
  /\ crashed = "no" /\ stack # << >> /\ Top.phase = "run"
  /\ log' = << >>
  /\ stack' = [i \in DOMAIN stack |-> [stack[i] EXCEPT !.reset = TRUE]]
  /\ UNCHANGED << regVars, opVars, obsVars, crashed >>

\* A plausible bug: the whole log in every result.
RecordsOfAll(f, records) == records

\* The records operate() serializes into its result: forLog(array, log,
\* logStart, logEnd), none when the log has become shorter.
RecordsOf(f, records) == SubSeq(records, f.logStart + 1, Len(records))

\* The result exists, the summary is logged, the records of this operation go
\* into the result, the DID_OPERATE loop begins.  Without a result,
\* generateSummary() goes through null.
Conclude(outcome) ==
  IF Definition(Top.op)
  THEN /\ log' = Append(log, Len(stack))
       /\ Become([Top EXCEPT !.phase = "did", !.cursor = -1, !.told = {}, !.status = FALSE,
                             !.outcome = outcome, !.result = RecordsOf(Top, log')])
       /\ UNCHANGED crashed
  ELSE crashed' = "result" /\ UNCHANGED << log, stack >>

\* Somebody canceled: a result that says so, without running.
Cancel ==
  /\ LoopEnds("willOwn") /\ Top.status
  /\ Conclude("canceled")
  /\ UNCHANGED << regVars, opVars, obsVars >>

\* operateInternal() returns, whether it succeeded or failed.
Finish ==
  /\ crashed = "no" /\ stack # << >> /\ Top.phase = "run"
  /\ Conclude("ran")
  /\ UNCHANGED << regVars, opVars, obsVars >>

\* The outermost loop of a call is over: the call returns.
Leave ==
  /\ LoopEnds("created") \/ LoopEnds("didOwn")
  /\ Pop
  /\ UNCHANGED << regVars, opVars, obsVars, crashed >>

-----------------------------------------------------------------------------
Init ==
  /\ dictionary = {} /\ managers = {}
  /\ definitions = [m \in Managers |-> {}]
  /\ manager = [op \in Ops |-> Nil]
  /\ specified = {}
  /\ observers = << >>
  /\ handle = [c \in Clients |-> Nil]
  /\ own = [op \in Ops |-> [loop \in OwnLoops |-> {}]]
  /\ log = << 0 >>
  /\ stack = << >>
  /\ crashed = "no"

Next ==
  \/ \E t \in Types : RegisterStatic(t) \/ UnregisterStatic(t) \/ \E m \in Managers : Register(m, t)
  \/ \E m \in Managers : NewManager(m) \/ ReleaseManager(m) \/ \E op \in Ops : Create(m, op)
  \/ \E c \in Clients : Observe(c) \/ Unobserve(c)
  \/ \E op \in Ops, loop \in OwnLoops, c \in OwnClients : ObserveOwn(op, loop, c) \/ UnobserveOwn(op, loop, c)
  \/ \E op \in Ops : Operate(op) \/ Refuse(op)
  \/ \E op \in Ops, spec \in BOOLEAN : SetSpecification(op, spec)
  \/ Visit \/ (\E answer \in BOOLEAN : Return(answer))
  \/ NextLoop \/ Run \/ Note \/ Reset \/ Cancel \/ Finish \/ Leave

Spec == Init /\ [][Next]_vars

-----------------------------------------------------------------------------
(* Type invariant *)

FrameOK(f) ==
  /\ f.op \in Ops
  /\ f.phase \in ManagerLoops \cup OwnLoops \cup {"run"}
  /\ f.cursor \in -1 .. MaxHandle \/ f.cursor \in Clients
  /\ f.calling \in BOOLEAN /\ f.status \in BOOLEAN /\ f.vetoed \in BOOLEAN
  /\ f.logStart \in 0 .. MaxLog /\ f.result \in Seq(0 .. MaxDepth) /\ f.reset \in BOOLEAN

TypeOK ==
  /\ dictionary \subseteq Types /\ managers \subseteq Managers
  /\ definitions \in [Managers -> SUBSET Described]
  /\ manager \in [Ops -> Managers \cup {Nil}]
  /\ specified \subseteq {op \in Ops : manager[op] # Nil}
  /\ DOMAIN observers \subseteq Handles
  /\ \A h \in DOMAIN observers : observers[h] \in Clients
  /\ \A c \in Clients : handle[c] # Nil => handle[c] \in DOMAIN observers /\ observers[handle[c]] = c
  /\ own \in [Ops -> [OwnLoops -> SUBSET Clients]]
  /\ log \in Seq(0 .. MaxDepth) /\ Len(log) <= MaxLog /\ Len(stack) <= MaxDepth
  /\ \A i \in DOMAIN stack : FrameOK(stack[i])

-----------------------------------------------------------------------------
(* Safety *)

\* Observers of both events are called in pairs: whoever observes an operation
\* from its beginning on has been told that it will run before it runs or is
\* canceled, and that it did by the time operate() returns - whatever the
\* other observers answer, join or leave in between.
WillDidPaired ==
  LoopEnds("willOwn") \/ LoopEnds("didOwn") => Top.stay \subseteq Top.told

\* An operation runs only if no observer it was announced to asked to cancel
\* it, and is reported canceled only if one did.
CancelHonoured ==
  \A i \in DOMAIN stack :
    /\ stack[i].phase = "run" => ~stack[i].vetoed
    /\ stack[i].phase \in AfterRun => (stack[i].outcome = "canceled" <=> stack[i].vetoed)

\* The log an operation reports when its DID_OPERATE loop begins is its own:
\* what was written since its operate() began, by itself, by the operations it ran and
\* by those its observers ran.  Nothing older is in it, although an operation
\* inside may have reset the log after its length was read; nothing is missing
\* unless one did.
ResultLogIsOwn ==
  \A d \in DOMAIN stack : stack[d].phase \in AfterRun =>
    /\ \A k \in DOMAIN stack[d].result : stack[d].result[k] >= d
    /\ (d = Len(stack) /\ stack[d].phase = "did" /\ stack[d].cursor = -1 /\ ~stack[d].reset) =>
         Len(stack[d].result) = Cardinality({i \in DOMAIN log : log[i] >= d})

\* When registration is over before managers exist and managers outlive their
\* operators, no call of operate() goes through a null pointer.
OperationsComplete == crashed = "no"

-----------------------------------------------------------------------------
(* Liveness *)

\* The thread keeps going, and the client code of a call returns in the end,
\* whatever calls of its own it makes in between.
Fairness ==
  /\ WF_vars(Visit) /\ WF_vars(NextLoop) /\ WF_vars(Run) /\ WF_vars(Cancel) /\ WF_vars(Leave)
  /\ \A d \in 1 .. MaxDepth :
       /\ SF_vars(Len(stack) = d /\ \E answer \in BOOLEAN : Return(answer))
       /\ SF_vars(Len(stack) = d /\ Finish)

LiveSpec == Spec /\ Fairness

\* Somebody joins a loop.
Join ==
  \/ \E c \in Clients : Observe(c)
  \/ \E op \in Ops, loop \in OwnLoops, c \in OwnClients : ObserveOwn(op, loop, c)

\* If clients stop joining in the end, every call returns: the application gets
\* its thread back, however calls were nested and whoever joined or left under the
\* loops.  Observers that go on joining from their callbacks keep the loop over
\* the live map going, since a new handle is always ahead of it.
OperateReturns == <>[][~Join]_vars => [](stack # << >> => <>(stack = << >>))
=============================================================================
