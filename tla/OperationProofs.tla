---------------------------- MODULE OperationProofs ----------------------------
(***************************************************************************)
(* What is announced of an operation, to whom and when, and what its       *)
(* result says: the safety properties of Operation, for any number of      *)
(* operators, observers and nested calls.                                  *)
(***************************************************************************)
EXTENDS Operation, SequenceTheorems, Inductions

-----------------------------------------------------------------------------
(* The inductive invariant                                                   *)
(*                                                                           *)
(* What is said of a frame takes the variables it depends on as parameters.  *)

Phases  == ManagerLoops \cup OwnLoops \cup {"run"}
Records == 0 .. MaxDepth

\* Those who can be told: observers of the manager by handle, of an operator
\* by address.
Parties == ({"all"} \cup Ops) \X Nat

Frames ==
  [op : Ops, phase : Phases, cursor : Nat \cup {-1}, calling : BOOLEAN, status : BOOLEAN,
   logStart : Nat, outcome : {"unknown", "canceled", "ran"}, result : Seq(Records),
   stay : SUBSET Parties, told : SUBSET Parties, vetoed : BOOLEAN, reset : BOOLEAN]

\* Whoever is promised both events is still there to be told.
StayHere(f, obs, sets) ==
  \A w \in f.stay :
    \/ \E h \in DOMAIN obs : w = << "all", h >>
    \/ \E c \in sets[f.op]["willOwn"] \cap sets[f.op]["didOwn"] : w = << f.op, c >>

\* A loop has told everybody up to its cursor, and the second of two loops
\* begins when the first has told all.
ToldSoFar(f) ==
  /\ f.phase \in {"will", "did"} =>
       \A h \in Nat : << "all", h >> \in f.stay /\ h <= f.cursor => << "all", h >> \in f.told
  /\ f.phase \in OwnLoops =>
       /\ \A h \in Nat : << "all", h >> \in f.stay => << "all", h >> \in f.told
       /\ \A c \in Nat : << f.op, c >> \in f.stay /\ c <= f.cursor => << f.op, c >> \in f.told

\* While observers are asked, the status is what they answered; then it has
\* decided.
VetoKnown(f) ==
  /\ f.phase \in {"will", "willOwn"} => f.status = f.vetoed
  /\ f.phase = "run" => ~f.vetoed
  /\ f.phase \in AfterRun => (f.outcome = "canceled" <=> f.vetoed)

Pending(f) == f.phase \notin AfterRun \cup {"created"}

\* Of the d-th call: the records from logStart on are those written since it began; once
\* the log was reset all of them are.  What a result has taken is of that kind.
LogKnown(f, d, records) ==
  /\ f.logStart \in 0 .. MaxLog
  /\ Pending(f) /\ ~f.reset =>
       /\ f.logStart <= Len(records)
       /\ \A i \in 1 .. Len(records) : records[i] >= d <=> i > f.logStart
  /\ Pending(f) /\ f.reset => \A i \in 1 .. Len(records) : records[i] >= d
  /\ f.phase \in AfterRun => \A k \in DOMAIN f.result : f.result[k] >= d

FrameGood(f, d, obs, sets, records) ==
  /\ f \in Frames
  /\ f.cursor \in -1 .. MaxHandle \/ f.cursor \in Clients
  /\ f.calling => f.cursor # -1 /\ f.phase # "run"
  /\ StayHere(f, obs, sets)
  /\ ToldSoFar(f)
  /\ VetoKnown(f)
  /\ LogKnown(f, d, records)

\* Every call that is not concluded has room for its summary.
RoomLeft(stk, records) ==
  \A i \in DOMAIN stk : Pending(stk[i]) => Len(records) + i <= MaxLog

\* A call inside another was made by client code of the other.
Clientlike(f) == f.calling \/ f.phase = "run"

\* No record was written in a call that is not in progress.
NoneDeeper(records, d) == \A i \in 1 .. Len(records) : records[i] <= d

StackGood(stk, obs, sets, records) ==
  /\ stk \in Seq(Frames) /\ Len(stk) <= MaxDepth
  /\ NoneDeeper(records, Len(stk))
  /\ \A i \in DOMAIN stk : FrameGood(stk[i], i, obs, sets, records)
  /\ \A i \in DOMAIN stk : i # Len(stk) => Clientlike(stk[i])
  /\ RoomLeft(stk, records)

\* A result that is about to be announced has all the records of its call.
Announcing(f) == f.phase = "did" /\ f.cursor = -1 /\ ~f.reset

ResultWhole(stk, records) ==
  stk # << >> /\ Announcing(stk[Len(stk)]) =>
    Len(stk[Len(stk)].result) = Cardinality({i \in DOMAIN records : records[i] >= Len(stk)})

\* The registry of operators.
RegistryGood ==
  /\ dictionary \subseteq Types /\ managers \subseteq Managers
  /\ definitions \in [Managers -> SUBSET Described]
  /\ manager \in [Ops -> Managers \cup {Nil}]
  /\ specified \subseteq {op \in Ops : manager[op] # Nil}

\* The observers.
ObserversGood ==
  /\ DOMAIN observers \subseteq Handles
  /\ observers \in [DOMAIN observers -> Clients]
  /\ handle \in [Clients -> Handles \cup {Nil}]
  /\ \A c \in Clients : handle[c] # Nil => handle[c] \in DOMAIN observers /\ observers[handle[c]] = c
  /\ own \in [Ops -> [OwnLoops -> SUBSET Clients]]

LogGood == log \in Seq(Records) /\ Len(log) <= MaxLog

OperationInv ==
  /\ RegistryGood
  /\ ObserversGood
  /\ LogGood
  /\ StackGood(stack, observers, own, log)
  /\ ResultWhole(stack, log)

\* Definitions are complete: every manager has imported the types that are
\* registered, and operators have a manager and a registered type.
DefinitionsComplete ==
  /\ \A m \in managers : dictionary \cap Described \subseteq definitions[m]
  /\ \A op \in Ops : manager[op] # Nil => manager[op] \in managers /\ OpType[op] \in dictionary
  /\ crashed = "no"

-----------------------------------------------------------------------------
(* What a step may do to the calls in progress                               *)

\* While client code of a call runs, no result of it is being announced.
LEMMA ClientsAnnounceNothing ==
  ASSUME NEW stk, NEW obs, NEW sets, NEW records,
         \A i \in DOMAIN stk : FrameGood(stk[i], i, obs, sets, records),
         stk \in Seq(Frames), stk # << >> => Clientlike(stk[Len(stk)])
  PROVE  ResultWhole(stk, records)
<1>1. ASSUME stk # << >> PROVE ~Announcing(stk[Len(stk)])
  <2>1. Len(stk) \in DOMAIN stk
    BY <1>1, EmptySeq, LenProperties
  <2>2. FrameGood(stk[Len(stk)], Len(stk), obs, sets, records) /\ Clientlike(stk[Len(stk)])
    BY <1>1, <2>1
  <2>3. QED
    BY <2>2 DEF FrameGood, Clientlike, Announcing
<1>2. QED
  BY <1>1 DEF ResultWhole

\* Observers that join disturb no promise.
LEMMA ObserversJoin ==
  ASSUME NEW stk, NEW obs, NEW sets, NEW obs2, NEW sets2, NEW records,
         StackGood(stk, obs, sets, records),
         DOMAIN obs \subseteq DOMAIN obs2,
         \A op \in Ops, loop \in OwnLoops : sets[op][loop] \subseteq sets2[op][loop]
  PROVE  StackGood(stk, obs2, sets2, records)
<1>1. ASSUME NEW i \in DOMAIN stk PROVE FrameGood(stk[i], i, obs2, sets2, records)
  <2>1. FrameGood(stk[i], i, obs, sets, records) /\ stk[i].op \in Ops
    BY DEF StackGood, FrameGood, Frames
  <2>2. StayHere(stk[i], obs2, sets2)
    BY <2>1 DEF FrameGood, StayHere, OwnLoops
  <2>3. QED
    BY <2>1, <2>2 DEF FrameGood
<1>2. QED
  BY <1>1 DEF StackGood

\* The innermost call goes on.
LEMMA TopGoesOn ==
  ASSUME NEW stk, NEW obs, NEW sets, NEW records, NEW f,
         StackGood(stk, obs, sets, records), stk # << >>,
         FrameGood(f, Len(stk), obs, sets, records),
         Pending(f) => Pending(stk[Len(stk)])
  PROVE  StackGood([stk EXCEPT ![Len(stk)] = f], obs, sets, records)
<1>1. stk \in Seq(Frames) /\ Len(stk) \in Nat \ {0} /\ Len(stk) <= MaxDepth /\ f \in Frames
  BY EmptySeq DEF StackGood, FrameGood
<1>2. DOMAIN stk = 1 .. Len(stk)
  BY <1>1, LenProperties
<1> DEFINE new == [stk EXCEPT ![Len(stk)] = f]
<1>3. /\ new \in Seq(Frames) /\ Len(new) = Len(stk)
      /\ \A j \in 1 .. Len(stk) : new[j] = IF j = Len(stk) THEN f ELSE stk[j]
  BY <1>1, ExceptSeq
<1>4. DOMAIN new = 1 .. Len(stk)
  BY <1>3, LenProperties
<1>5. \A i \in DOMAIN new : /\ FrameGood(new[i], i, obs, sets, records)
                           /\ i # Len(new) => Clientlike(new[i])
  BY <1>2, <1>3, <1>4 DEF StackGood
<1>6. RoomLeft(new, records)
  BY <1>2, <1>3, <1>4 DEF StackGood, RoomLeft
<1>7. QED
  BY <1>1, <1>3, <1>5, <1>6 DEF StackGood

\* A call begins.
LEMMA CallBegins ==
  ASSUME NEW stk, NEW obs, NEW sets, NEW records, NEW f,
         StackGood(stk, obs, sets, records), Len(stk) < MaxDepth,
         stk # << >> => Clientlike(stk[Len(stk)]),
         records \in Seq(Records), FrameGood(f, Len(stk) + 1, obs, sets, records),
         Pending(f) => Len(records) + Len(stk) + 1 <= MaxLog
  PROVE  StackGood(Append(stk, f), obs, sets, records)
<1>1. /\ stk \in Seq(Frames) /\ Len(stk) \in Nat /\ f \in Frames /\ MaxDepth \in Nat
      /\ Len(records) \in Nat
  BY LenProperties, ConstantsOK DEF StackGood, FrameGood
<1>2. DOMAIN stk = 1 .. Len(stk)
  BY <1>1, LenProperties
<1> DEFINE new == Append(stk, f)
<1>3. /\ new \in Seq(Frames) /\ Len(new) = Len(stk) + 1
      /\ (\A i \in 1 .. Len(stk) : new[i] = stk[i]) /\ new[Len(stk) + 1] = f
  BY <1>1, AppendProperties
<1>4. DOMAIN new = 1 .. Len(stk) + 1
  BY <1>3, LenProperties
<1> HIDE DEF new
<1>5. /\ \A i \in DOMAIN new : FrameGood(new[i], i, obs, sets, records)
      /\ \A i \in DOMAIN new : i # Len(new) => Clientlike(new[i])
  <2>1. \A i \in 1 .. Len(stk) + 1 : i \in 1 .. Len(stk) \/ i = Len(stk) + 1
    BY <1>1
  <2>2. \A i \in 1 .. Len(stk) : Clientlike(stk[i])
    <3>1. Len(stk) # 0 => stk # << >>
      BY <1>1, EmptySeq
    <3>2. QED
      BY <1>1, <1>2, <3>1 DEF StackGood
  <2>3. QED
    BY <1>2, <1>3, <1>4, <2>1, <2>2 DEF StackGood
<1>6. RoomLeft(new, records)
  <2>1. \A i \in 1 .. Len(stk) + 1 : i \in 1 .. Len(stk) \/ i = Len(stk) + 1
    BY <1>1
  <2>2. ASSUME NEW i \in DOMAIN new, Pending(new[i]) PROVE Len(records) + i <= MaxLog
    <3>1. CASE i \in 1 .. Len(stk)
      BY <1>2, <1>3, <2>2, <3>1 DEF StackGood, RoomLeft
    <3>2. CASE i = Len(stk) + 1
      <4>1. Pending(f)
        BY <1>3, <2>2, <3>2
      <4>2. QED
        BY <1>1, <3>2, <4>1
    <3>3. QED
      BY <1>4, <2>1, <3>1, <3>2
  <2>3. QED
    BY <2>2 DEF RoomLeft
<1>7. Len(new) <= MaxDepth /\ NoneDeeper(records, Len(new))
  <2>1. \A i \in 1 .. Len(records) : records[i] \in Nat /\ records[i] <= Len(stk)
    BY ElementOfSeq, ConstantsOK DEF StackGood, NoneDeeper, Records
  <2>2. QED
    BY <1>1, <1>3, <2>1 DEF NoneDeeper
<1>8. QED
  BY <1>3, <1>5, <1>6, <1>7 DEF StackGood, new

\* What a call wrote is taken for what its caller wrote.
Inherited(records, d) == [i \in DOMAIN records |-> IF records[i] = d THEN d - 1 ELSE records[i]]

\* The innermost call returns; with the outermost one the records are as one.
LEMMA CallReturns ==
  ASSUME NEW stk, NEW obs, NEW sets, NEW records \in Seq(Records), NEW records2,
         StackGood(stk, obs, sets, records), stk # << >>,
         records2 = IF Len(stk) = 1 THEN << 0 >> ELSE Inherited(records, Len(stk))
  PROVE  /\ StackGood(SubSeq(stk, 1, Len(stk) - 1), obs, sets, records2)
         /\ ResultWhole(SubSeq(stk, 1, Len(stk) - 1), records2)
<1>1. stk \in Seq(Frames) /\ Len(stk) \in Nat \ {0} /\ Len(stk) <= MaxDepth /\ MaxDepth \in Nat
  BY EmptySeq, ConstantsOK DEF StackGood
<1>2. DOMAIN stk = 1 .. Len(stk)
  BY <1>1, LenProperties
<1> DEFINE new == SubSeq(stk, 1, Len(stk) - 1)
<1>3. /\ new \in Seq(Frames) /\ Len(new) = Len(stk) - 1
      /\ \A i \in 1 .. Len(stk) - 1 : new[i] = stk[i]
  <2>1. \A i \in 1 .. Len(stk) - 1 : stk[i] \in Frames
    BY <1>1, ElementOfSeq
  <2>2. /\ new \in Seq(Frames)
        /\ Len(new) = IF 1 <= Len(stk) - 1 THEN (Len(stk) - 1) - 1 + 1 ELSE 0
        /\ \A i \in 1 .. (Len(stk) - 1) - 1 + 1 : new[i] = stk[1 + i - 1]
    <3>1. 1 \in Int /\ Len(stk) - 1 \in Int
      BY <1>1
    <3>2. QED
      BY <2>1, <3>1, SubSeqProperties
  <2> HIDE DEF new
  <2>3. new \in Seq(Frames) /\ Len(new) = Len(stk) - 1
    <3>1. \A n \in Nat \ {0} : (IF 1 <= n - 1 THEN (n - 1) - 1 + 1 ELSE 0) = n - 1
      OBVIOUS
    <3>2. QED
      BY <1>1, <2>2, <3>1
  <2>4. ASSUME NEW i \in 1 .. Len(stk) - 1 PROVE new[i] = stk[i]
    <3>1. i \in 1 .. (Len(stk) - 1) - 1 + 1 /\ 1 + i - 1 = i
      BY <1>1
    <3>2. QED
      BY <2>2, <3>1
  <2>5. QED
    BY <2>3, <2>4
<1>4. DOMAIN new = 1 .. Len(stk) - 1
  BY <1>3, LenProperties
<1> HIDE DEF new
<1>5. /\ Len(records) \in Nat /\ DOMAIN records = 1 .. Len(records)
      /\ \A k \in 1 .. Len(records) : records[k] \in Nat /\ records[k] <= Len(stk)
  BY <1>1, LenProperties, ElementOfSeq DEF Records, StackGood, NoneDeeper
<1>6. ASSUME Len(stk) # 1
      PROVE  /\ Len(records2) = Len(records)
             /\ \A k \in 1 .. Len(records) :
                  records2[k] = IF records[k] = Len(stk) THEN Len(stk) - 1 ELSE records[k]
  BY <1>5, <1>6 DEF Inherited
<1>7. ASSUME NEW i \in DOMAIN new
      PROVE  /\ FrameGood(new[i], i, obs, sets, records2) /\ Clientlike(new[i])
             /\ Pending(new[i]) => Len(records2) + i <= MaxLog
  <2>1. /\ i \in DOMAIN stk /\ new[i] = stk[i] /\ Len(stk) # 1
        /\ i \in 1 .. Len(stk) - 1 /\ i # Len(stk)
    BY <1>1, <1>2, <1>3, <1>4
  <2>2. \A k \in 1 .. Len(records) : records2[k] >= i <=> records[k] >= i
    BY <1>1, <1>5, <1>6, <2>1
  <2>3. FrameGood(stk[i], i, obs, sets, records) /\ Clientlike(stk[i])
        /\ (Pending(stk[i]) => Len(records) + i <= MaxLog)
    BY <2>1 DEF StackGood, RoomLeft
  <2>4. LogKnown(stk[i], i, records2)
    BY <1>6, <2>1, <2>2, <2>3 DEF FrameGood, LogKnown
  <2>5. QED
    BY <1>6, <2>1, <2>3, <2>4 DEF FrameGood
<1>8. NoneDeeper(records2, Len(new))
  <2>1. CASE Len(stk) = 1
    BY <1>3, <2>1 DEF NoneDeeper
  <2>2. CASE Len(stk) # 1
    BY <1>1, <1>3, <1>5, <1>6, <2>2 DEF NoneDeeper
  <2>3. QED
    BY <2>1, <2>2
<1>9. ResultWhole(new, records2)
  <2>1. new # << >> => Len(new) \in DOMAIN new
    BY <1>3, EmptySeq, LenProperties
  <2>2. QED
    BY <1>3, <1>7, <2>1, ClientsAnnounceNothing
<1>10. QED
  BY <1>1, <1>3, <1>7, <1>8, <1>9 DEF StackGood, RoomLeft, new

\* The observers but who are where they were.
Without(f, who) == [f EXCEPT !.stay = @ \ who, !.told = @ \ who]
OthersStay(who, obs, sets, obs2, sets2) ==
  \A f \in Frames : StayHere(f, obs, sets) => StayHere(Without(f, who), obs2, sets2)

\* An observer that leaves is not promised anything any more.
LEMMA ObserverLeaves ==
  ASSUME NEW stk, NEW obs, NEW sets, NEW obs2, NEW sets2, NEW records, NEW who,
         StackGood(stk, obs, sets, records),
         OthersStay(who, obs, sets, obs2, sets2),
         stk # << >> => Clientlike(stk[Len(stk)])
  PROVE  StackGood(Leaving(stk, who), obs2, sets2, records) /\ ResultWhole(Leaving(stk, who), records)
<1>1. stk \in Seq(Frames) /\ Len(stk) \in Nat
  BY LenProperties DEF StackGood
<1>2. DOMAIN stk = 1 .. Len(stk)
  BY <1>1, LenProperties
<1> DEFINE less(f) == Without(f, who)
           new == Leaving(stk, who)
<1>3. ASSUME NEW i \in 1 .. Len(stk)
      PROVE  /\ FrameGood(less(stk[i]), i, obs2, sets2, records)
             /\ Pending(less(stk[i])) <=> Pending(stk[i])
             /\ Clientlike(less(stk[i])) <=> Clientlike(stk[i])
             /\ less(stk[i]) \in Frames
  <2>1. FrameGood(stk[i], i, obs, sets, records) /\ stk[i] \in Frames
    BY <1>2 DEF StackGood, FrameGood
  <2>2. less(stk[i]) \in Frames
    BY <2>1 DEF Frames, Without
  <2>3. /\ StayHere(less(stk[i]), obs2, sets2)
        /\ less(stk[i]).cursor \in -1 .. MaxHandle \/ less(stk[i]).cursor \in Clients
        /\ less(stk[i]).calling => less(stk[i]).cursor # -1 /\ less(stk[i]).phase # "run"
        /\ Clientlike(less(stk[i])) <=> Clientlike(stk[i])
    BY <2>1 DEF FrameGood, Frames, Clientlike, Without, OthersStay
  <2>4. ToldSoFar(less(stk[i]))
    BY <2>1 DEF FrameGood, ToldSoFar, Frames, Without
  <2>5. VetoKnown(less(stk[i])) /\ LogKnown(less(stk[i]), i, records)
        /\ (Pending(less(stk[i])) <=> Pending(stk[i]))
    BY <2>1 DEF FrameGood, VetoKnown, LogKnown, Pending, Frames, Without
  <2>6. QED
    BY <2>2, <2>3, <2>4, <2>5 DEF FrameGood
<1>4. new = [i \in 1 .. Len(stk) |-> less(stk[i])]
  BY <1>2 DEF Leaving, Without
<1> HIDE DEF new, less
<1>5. new \in Seq(Frames) /\ Len(new) = Len(stk) /\ DOMAIN new = 1 .. Len(stk)
  <2>1. new \in [1 .. Len(stk) -> Frames]
    BY <1>3, <1>4
  <2>2. Len(stk) \in Nat
    BY <1>1
  <2> HIDE <1>4
  <2>3. new \in Seq(Frames)
    BY <2>1, <2>2, SeqDef
  <2>4. DOMAIN new = 1 .. Len(stk)
    BY <2>1
  <2>5. \A m, n \in Nat : 1 .. m = 1 .. n => m = n
    <3>1. ASSUME NEW m \in Nat, NEW n \in Nat, 1 .. m = 1 .. n PROVE m <= n
      <4>1. m \in 1 .. m \/ m = 0
        OBVIOUS
      <4>2. QED
        BY <3>1, <4>1
    <3>2. QED
      BY <3>1
  <2>6. DOMAIN new = 1 .. Len(new) /\ Len(new) \in Nat
    BY <2>3, LenProperties
  <2>7. Len(new) = Len(stk)
    BY <2>2, <2>4, <2>5, <2>6
  <2>8. QED
    BY <2>3, <2>4, <2>7
<1>6. ResultWhole(new, records)
  <2>1. new # << >> => Clientlike(new[Len(new)])
    <3>1. ASSUME new # << >> PROVE Len(stk) \in 1 .. Len(stk) /\ stk # << >>
      <4>1. Len(new) # 0 /\ Len(new) \in Nat
        BY <1>5, <3>1, EmptySeq, LenProperties
      <4>2. Len(stk) # 0 /\ Len(stk) \in Nat
        BY <1>5, <4>1
      <4>3. Len(<< >>) = 0
        BY EmptySeq
      <4>4. QED
        BY <4>2, <4>3
    <3>2. ASSUME new # << >> PROVE Clientlike(stk[Len(stk)])
      BY <1>1, <3>1, <3>2
    <3>3. QED
      BY <1>3, <1>4, <1>5, <3>1, <3>2
  <2>2. \A i \in DOMAIN new : FrameGood(new[i], i, obs2, sets2, records)
    BY <1>3, <1>4, <1>5
  <2>3. QED
    BY <1>5, <2>1, <2>2, ClientsAnnounceNothing
<1>7. QED
  BY <1>2, <1>3, <1>4, <1>5, <1>6 DEF StackGood, RoomLeft, new

\* A record that is written is one of all calls that are not concluded.
LEMMA RecordIsWritten ==
  ASSUME NEW stk, NEW obs, NEW sets, NEW records \in Seq(Records),
         StackGood(stk, obs, sets, records), Len(records) < MaxLog
  PROVE  LET more == Append(records, Len(stk))
         IN  /\ more \in Seq(Records) /\ Len(more) = Len(records) + 1 /\ Len(more) <= MaxLog
             /\ NoneDeeper(more, Len(stk))
             /\ \A i \in DOMAIN stk : FrameGood(stk[i], i, obs, sets, more)
<1> DEFINE more == Append(records, Len(stk))
<1>1. /\ Len(stk) \in Nat /\ Len(stk) <= MaxDepth /\ DOMAIN stk = 1 .. Len(stk)
      /\ MaxDepth \in Nat /\ MaxLog \in Nat /\ Len(records) \in Nat
  BY LenProperties, ConstantsOK DEF StackGood
<1>2. /\ more \in Seq(Records) /\ Len(more) = Len(records) + 1
      /\ (\A i \in 1 .. Len(records) : more[i] = records[i]) /\ more[Len(records) + 1] = Len(stk)
  <2>1. Len(stk) \in Records
    BY <1>1 DEF Records
  <2>2. QED
    BY <2>1, AppendProperties
<1> HIDE DEF more
<1>3. ASSUME NEW i \in DOMAIN stk PROVE FrameGood(stk[i], i, obs, sets, more)
  <2>1. FrameGood(stk[i], i, obs, sets, records)
    BY DEF StackGood
  <2>2. \A k \in 1 .. Len(more) : k \in 1 .. Len(records) \/ k = Len(records) + 1
    BY <1>1, <1>2
  <2>3. Len(stk) >= i
    BY <1>1
  <2>4. ASSUME Pending(stk[i]), ~stk[i].reset
        PROVE  /\ stk[i].logStart <= Len(more)
               /\ \A k \in 1 .. Len(more) : more[k] >= i <=> k > stk[i].logStart
    <3>1. /\ stk[i].logStart \in Nat /\ stk[i].logStart <= Len(records)
          /\ \A k \in 1 .. Len(records) : records[k] >= i <=> k > stk[i].logStart
      BY <2>1, <2>4 DEF FrameGood, LogKnown, Frames
    <3>2. QED
      BY <1>1, <1>2, <2>2, <2>3, <3>1
  <2>5. ASSUME Pending(stk[i]), stk[i].reset PROVE \A k \in 1 .. Len(more) : more[k] >= i
    BY <1>2, <2>1, <2>2, <2>3, <2>5 DEF FrameGood, LogKnown
  <2>6. LogKnown(stk[i], i, more)
    BY <2>1, <2>4, <2>5 DEF FrameGood, LogKnown
  <2>7. QED
    BY <2>1, <2>6 DEF FrameGood
<1>4. NoneDeeper(more, Len(stk))
  <2>1. NoneDeeper(records, Len(stk)) /\ Len(stk) <= Len(stk)
    BY <1>1 DEF StackGood
  <2>2. \A k \in 1 .. Len(more) : k \in 1 .. Len(records) \/ k = Len(records) + 1
    BY <1>1, <1>2
  <2>3. QED
    BY <1>2, <2>1, <2>2 DEF NoneDeeper
<1>5. QED
  BY <1>1, <1>2, <1>3, <1>4 DEF more

-----------------------------------------------------------------------------
(* Registration, specifications and observers *)

\* Client code that may act is that of the innermost call.
LEMMA ClientsAreClientlike ==
  ASSUME ClientRuns
  PROVE  stack # << >> => Clientlike(stack[Len(stack)])
BY DEF ClientRuns, Clientlike, Top

\* A step that leaves calls, records and observers alone.
LEMMA CallsAlone ==
  ASSUME OperationInv, RegistryGood', UNCHANGED << observers, handle, own, log, stack >>
  PROVE  OperationInv'
BY DEF OperationInv, ObserversGood, LogGood

LEMMA RegistrationStep ==
  ASSUME OperationInv,
         \/ \E t \in Types : RegisterStatic(t) \/ UnregisterStatic(t) \/ \E m \in Managers : Register(m, t)
         \/ \E m \in Managers : NewManager(m) \/ ReleaseManager(m)
         \/ \E op \in Ops : Refuse(op)
         \/ \E op \in Ops, spec \in BOOLEAN : SetSpecification(op, spec)
  PROVE  OperationInv'
<1> USE DEF OperationInv, RegistryGood, regVars, opVars, obsVars
<1>1. ASSUME NEW t \in Types, RegisterStatic(t) \/ UnregisterStatic(t) PROVE OperationInv'
  BY <1>1, CallsAlone DEF RegisterStatic, UnregisterStatic
<1>2. ASSUME NEW t \in Types, NEW m \in Managers, Register(m, t) PROVE OperationInv'
  BY <1>2, CallsAlone DEF Register
<1>3. ASSUME NEW m \in Managers, NewManager(m) PROVE OperationInv'
  BY <1>3, CallsAlone DEF NewManager
<1>4. ASSUME NEW m \in Managers, ReleaseManager(m) PROVE OperationInv'
  BY <1>4, CallsAlone DEF ReleaseManager
<1>5. ASSUME NEW op \in Ops, Refuse(op) PROVE OperationInv'
  BY <1>5, CallsAlone DEF Refuse
<1>6. ASSUME NEW op \in Ops, NEW spec \in BOOLEAN, SetSpecification(op, spec) PROVE OperationInv'
  BY <1>6, CallsAlone DEF SetSpecification
<1>7. QED
  BY <1>1, <1>2, <1>3, <1>4, <1>5, <1>6

\* observe() never hands out a handle that is in use.
LEMMA NextHandleIsNew ==
  ASSUME ObserversGood
  PROVE  NextHandle \in Nat /\ \A h \in DOMAIN observers : h < NextHandle
<1>1. DOMAIN observers \in SUBSET (0 .. MaxHandle) /\ MaxHandle \in Nat
  BY ConstantsOK DEF ObserversGood, Handles
<1>2. CASE DOMAIN observers = {}
  BY <1>2 DEF NextHandle
<1>3. CASE DOMAIN observers # {}
  <2> DEFINE top == CHOOSE h \in DOMAIN observers : \A g \in DOMAIN observers : g <= h
  <2>1. top \in DOMAIN observers /\ \A g \in DOMAIN observers : g <= top
    BY <1>1, <1>3, LargestNumber
  <2>2. NextHandle = 1 + top
    BY <1>3 DEF NextHandle
  <2> HIDE DEF top
  <2>3. QED
    BY <1>1, <2>1, <2>2
<1>4. QED
  BY <1>2, <1>3

LEMMA ObserveStep ==
  ASSUME OperationInv, NEW c \in Clients, Observe(c)
  PROVE  OperationInv'
<1> DEFINE n == NextHandle
<1>1. n \in Handles /\ n \notin DOMAIN observers /\ n # Nil
  <2>1. n \in Nat /\ \A h \in DOMAIN observers : h < n
    BY NextHandleIsNew DEF OperationInv
  <2>2. DOMAIN observers \subseteq Nat /\ n <= MaxHandle
    BY ConstantsOK DEF Observe, OperationInv, ObserversGood, Handles
  <2> HIDE DEF n
  <2>3. QED
    BY <2>1, <2>2, ConstantsOK DEF Handles
<1>2. /\ DOMAIN observers' = DOMAIN observers \cup {n}
      /\ observers'[n] = c
      /\ \A h \in DOMAIN observers : observers'[h] = observers[h]
      /\ observers' \in [DOMAIN observers' -> Clients]
  <2>1. observers' = [h \in DOMAIN observers \cup {n} |-> IF h = n THEN c ELSE observers[h]]
    BY DEF Observe
  <2> HIDE DEF n
  <2>2. QED
    BY <1>1, <2>1 DEF OperationInv, ObserversGood
<1>3. handle' = [handle EXCEPT ![c] = n] /\ own' = own
  BY DEF Observe
<1> HIDE DEF n
<1>4. ObserversGood'
  BY <1>1, <1>2, <1>3 DEF OperationInv, ObserversGood
<1>5. StackGood(stack', observers', own', log')
  <2>1. StackGood(stack, observers', own, log)
    BY <1>2, ObserversJoin DEF OperationInv
  <2>2. QED
    BY <2>1 DEF Observe
<1>6. QED
  BY <1>4, <1>5 DEF OperationInv, RegistryGood, LogGood, Observe, regVars, opVars

LEMMA UnobserveStep ==
  ASSUME OperationInv, NEW c \in Clients, Unobserve(c)
  PROVE  OperationInv'
<1> DEFINE n == handle[c]
<1>1. n \in DOMAIN observers /\ observers[n] = c
  BY DEF OperationInv, ObserversGood, Unobserve
<1>2. observers' = [h \in DOMAIN observers \ {n} |-> observers[h]]
      /\ handle' = [handle EXCEPT ![c] = Nil] /\ own' = own
  BY DEF Unobserve
<1> HIDE DEF n
<1>3. ObserversGood'
  BY <1>1, <1>2 DEF OperationInv, ObserversGood
<1>4. StackGood(stack', observers', own', log') /\ ResultWhole(stack', log')
  <2>1. OthersStay({<< "all", n >>}, observers, own, observers', own')
    BY <1>2 DEF OthersStay, Without, StayHere, Frames
  <2>2. /\ StackGood(Leaving(stack, {<< "all", n >>}), observers', own', log)
        /\ ResultWhole(Leaving(stack, {<< "all", n >>}), log)
    <3>1. StackGood(stack, observers, own, log) /\ ClientRuns
      BY DEF OperationInv, Unobserve
    <3>2. QED
      BY <2>1, <3>1, ObserverLeaves, ClientsAreClientlike
  <2>3. QED
    BY <2>2 DEF Unobserve, n
<1>5. QED
  BY <1>3, <1>4 DEF OperationInv, RegistryGood, LogGood, Unobserve, regVars, opVars

LEMMA ObserveOwnStep ==
  ASSUME OperationInv, NEW op \in Ops, NEW loop \in OwnLoops, NEW c \in OwnClients,
         ObserveOwn(op, loop, c)
  PROVE  OperationInv'
<1>1. c \in Clients
  BY ConstantsOK
<1>2. own' = [own EXCEPT ![op][loop] = @ \cup {c}]
  BY DEF ObserveOwn
<1>3. ObserversGood'
  BY <1>1, <1>2 DEF OperationInv, ObserversGood, ObserveOwn
<1>4. \A o \in Ops, l \in OwnLoops : own[o][l] \subseteq own'[o][l]
  BY <1>2 DEF OperationInv, ObserversGood
<1>5. StackGood(stack', observers', own', log')
  <2>1. StackGood(stack, observers, own', log)
    BY <1>4, ObserversJoin DEF OperationInv
  <2>2. QED
    BY <2>1 DEF ObserveOwn
<1>6. QED
  BY <1>3, <1>5 DEF OperationInv, RegistryGood, LogGood, ObserveOwn, regVars, opVars

LEMMA UnobserveOwnStep ==
  ASSUME OperationInv, NEW op \in Ops, NEW loop \in OwnLoops, NEW c \in OwnClients,
         UnobserveOwn(op, loop, c)
  PROVE  OperationInv'
<1>1. own' = [own EXCEPT ![op][loop] = @ \ {c}] /\ own \in [Ops -> [OwnLoops -> SUBSET Clients]]
  BY DEF OperationInv, ObserversGood, UnobserveOwn
<1>2. ObserversGood'
  BY <1>1 DEF OperationInv, ObserversGood, UnobserveOwn
<1>3. StackGood(stack', observers', own', log') /\ ResultWhole(stack', log')
  <2>1. ASSUME NEW f \in Frames, StayHere(f, observers, own)
        PROVE  StayHere(Without(f, {<< op, c >>}), observers, own')
    <3> DEFINE g == Without(f, {<< op, c >>})
    <3>1. g.op = f.op /\ g.stay = f.stay \ {<< op, c >>} /\ f.op \in Ops
      BY DEF Frames, Without
    <3> HIDE DEF g
    <3>2. ASSUME NEW w \in g.stay
          PROVE  \/ \E h \in DOMAIN observers : w = << "all", h >>
                 \/ \E d \in own'[g.op]["willOwn"] \cap own'[g.op]["didOwn"] : w = << g.op, d >>
      <4>1. CASE \E h \in DOMAIN observers : w = << "all", h >>
        BY <4>1
      <4>2. ASSUME NEW d \in own[f.op]["willOwn"] \cap own[f.op]["didOwn"], w = << f.op, d >>
            PROVE  d \in own'[g.op]["willOwn"] \cap own'[g.op]["didOwn"] /\ w = << g.op, d >>
        <5>1. f.op # op \/ d # c
          BY <3>1, <4>2
        <5>2. QED
          BY <1>1, <3>1, <4>2, <5>1 DEF OwnLoops
      <4>3. QED
        BY <2>1, <3>1, <4>1, <4>2 DEF StayHere
    <3>3. QED
      BY <3>2 DEF StayHere, g
  <2>2. /\ StackGood(Leaving(stack, {<< op, c >>}), observers, own', log)
        /\ ResultWhole(Leaving(stack, {<< op, c >>}), log)
    <3>1. StackGood(stack, observers, own, log) /\ ClientRuns
      BY DEF OperationInv, UnobserveOwn
    <3>2. OthersStay({<< op, c >>}, observers, own, observers, own')
      BY <2>1 DEF OthersStay
    <3>3. QED
      BY <3>1, <3>2, ObserverLeaves, ClientsAreClientlike
  <2>3. QED
    BY <2>2 DEF UnobserveOwn
<1>4. QED
  BY <1>2, <1>3 DEF OperationInv, RegistryGood, LogGood, UnobserveOwn, regVars, opVars

-----------------------------------------------------------------------------
(* Calls and loops *)

\* What is known of the innermost call.
LEMMA TopGood ==
  ASSUME OperationInv, stack # << >>
  PROVE  /\ Len(stack) \in Nat \ {0} /\ Len(stack) \in DOMAIN stack
         /\ Top \in Frames /\ FrameGood(Top, Len(stack), observers, own, log)
         /\ Pending(Top) => Len(log) + Len(stack) <= MaxLog
<1>1. stack \in Seq(Frames) /\ Len(stack) \in Nat \ {0}
  BY EmptySeq DEF OperationInv, StackGood
<1>2. Len(stack) \in DOMAIN stack
  BY <1>1, LenProperties
<1>3. QED
  BY <1>1, <1>2 DEF OperationInv, StackGood, RoomLeft, FrameGood, Top

\* A step of the innermost call that changes no variable but the stack.
LEMMA TopStep ==
  ASSUME OperationInv, NEW f, stack # << >>, Become(f),
         FrameGood(f, Len(stack), observers, own, log), ~Announcing(f), Pending(f) => Pending(Top),
         UNCHANGED << regVars, opVars, obsVars, log >>
  PROVE  OperationInv'
<1>1. StackGood(stack', observers, own, log)
  <2>1. StackGood(stack, observers, own, log)
    BY DEF OperationInv
  <2>2. QED
    BY <2>1, TopGoesOn DEF Become, Top
<1>2. ResultWhole(stack', log)
  <2>1. Len(stack) \in DOMAIN stack /\ stack' = [stack EXCEPT ![Len(stack)] = f]
    BY TopGood DEF Become
  <2>2. Len(stack') = Len(stack) /\ stack'[Len(stack)] = f
    BY <2>1 DEF OperationInv, StackGood
  <2>3. QED
    BY <2>2 DEF ResultWhole
<1>3. QED
  BY <1>1, <1>2 DEF OperationInv, RegistryGood, ObserversGood, LogGood, regVars, opVars, obsVars

\* A new call: everybody in it is still there and nothing has been written.
LEMMA FreshFrame ==
  ASSUME OperationInv, NEW op \in Ops, NEW phase \in {"created", "will"}, NEW stay,
         stay = IF phase = "will" THEN Observing(op) ELSE {}
  PROVE  /\ FrameGood(Frame(op, phase, stay), Len(stack) + 1, observers, own, log)
         /\ ~Announcing(Frame(op, phase, stay))
<1> DEFINE f == Frame(op, phase, stay)
<1>1. stay \in SUBSET Parties
  <2>1. DOMAIN observers \subseteq Nat /\ own[op]["willOwn"] \subseteq Nat
    BY ConstantsOK DEF OperationInv, ObserversGood, Handles, OwnLoops
  <2>2. QED
    BY <2>1 DEF Observing, Parties
<1>2. log \in Seq(Records) /\ Len(log) \in Nat /\ Len(log) <= MaxLog /\ MaxLog \in Nat
  BY LenProperties, ConstantsOK DEF OperationInv, LogGood
<1>3. f \in Frames
  <2>1. << >> \in Seq(Records)
    BY EmptySeq
  <2>2. QED
    BY <1>1, <1>2, <2>1 DEF Frame, Frames, Phases, ManagerLoops
<1>4. StayHere(f, observers, own)
  BY DEF StayHere, Frame, Observing
<1>5. ToldSoFar(f) /\ VetoKnown(f)
  BY DEF ToldSoFar, VetoKnown, Frame, OwnLoops, AfterRun
<1>6. LogKnown(f, Len(stack) + 1, log)
  <2>1. /\ \A i \in 1 .. Len(log) : log[i] \in Nat /\ log[i] <= Len(stack)
        /\ Len(stack) \in Nat
    BY <1>2, ElementOfSeq, LenProperties, ConstantsOK DEF OperationInv, StackGood, NoneDeeper, Records
  <2>2. \A i \in 1 .. Len(log) : ~ (log[i] >= Len(stack) + 1) /\ ~ (i > Len(log))
    BY <1>2, <2>1
  <2>3. f.logStart = Len(log) /\ ~f.reset /\ f.phase \notin AfterRun
    BY DEF Frame, AfterRun
  <2> HIDE DEF f
  <2>4. QED
    BY <1>2, <2>2, <2>3 DEF LogKnown
<1>7. f.cursor \in -1 .. MaxHandle /\ ~f.calling /\ ~Announcing(f)
  BY ConstantsOK DEF Frame, Announcing
<1>8. QED
  BY <1>3, <1>4, <1>5, <1>6, <1>7 DEF FrameGood

LEMMA NewCallAnnouncesNothing ==
  ASSUME NEW stk \in Seq(Frames), NEW f \in Frames, NEW records, ~Announcing(f)
  PROVE  ResultWhole(Append(stk, f), records)
<1>1. Len(Append(stk, f)) = Len(stk) + 1 /\ Append(stk, f)[Len(stk) + 1] = f
  BY AppendProperties
<1>2. QED
  BY <1>1 DEF ResultWhole

LEMMA CreateStep ==
  ASSUME OperationInv, NEW m \in Managers, NEW op \in Ops, Create(m, op)
  PROVE  OperationInv'
<1>1. RegistryGood'
  BY DEF OperationInv, RegistryGood, Create, regVars
<1>2. StackGood(stack', observers, own, log) /\ ResultWhole(stack', log)
  <2> DEFINE f == Frame(op, "created", {})
  <2>1. FrameGood(f, Len(stack) + 1, observers, own, log) /\ ~Announcing(f)
    BY FreshFrame
  <2>2. ~Pending(f)
    BY DEF Pending, Frame
  <2>3. /\ StackGood(stack, observers, own, log) /\ log \in Seq(Records) /\ Len(stack) < MaxDepth
        /\ stack # << >> => Clientlike(stack[Len(stack)])
    BY ClientsAreClientlike DEF OperationInv, LogGood, Create
  <2>4. stack' = Append(stack, f)
    BY DEF Create, Push
  <2> HIDE DEF f
  <2>5. StackGood(stack', observers, own, log)
    BY <2>1, <2>2, <2>3, <2>4, CallBegins
  <2>6. QED
    BY <2>1, <2>3, <2>4, <2>5, NewCallAnnouncesNothing DEF StackGood, FrameGood
<1>3. QED
  BY <1>1, <1>2 DEF OperationInv, ObserversGood, LogGood, Create, obsVars

LEMMA OperateStep ==
  ASSUME OperationInv, NEW op \in Ops, Operate(op)
  PROVE  OperationInv'
<1>1. RegistryGood'
  BY DEF OperationInv, RegistryGood, Operate, regVars
<1>2. StackGood(stack', observers, own, log) /\ ResultWhole(stack', log)
  <2> DEFINE f == Frame(op, "will", Observing(op))
  <2>1. FrameGood(f, Len(stack) + 1, observers, own, log) /\ ~Announcing(f)
    BY FreshFrame
  <2>2. /\ StackGood(stack, observers, own, log) /\ log \in Seq(Records) /\ Len(stack) < MaxDepth
        /\ stack # << >> => Clientlike(stack[Len(stack)])
        /\ ResultWhole(stack, log)
    BY ClientsAreClientlike DEF OperationInv, LogGood, Operate
  <2>3. CASE stack' = Append(stack, f)
    <3>1. Len(log) + Len(stack) + 1 <= MaxLog
      <4>1. Len(log) \in Nat /\ Len(stack) \in Nat /\ MaxLog \in Nat
        BY LenProperties, ConstantsOK DEF OperationInv, StackGood, LogGood
      <4>2. QED
        BY <4>1 DEF Operate, LogHasRoom
    <3> HIDE DEF f
    <3>2. StackGood(stack', observers, own, log)
      BY <2>1, <2>2, <2>3, <3>1, CallBegins
    <3>3. QED
      BY <2>1, <2>2, <2>3, <3>2, NewCallAnnouncesNothing DEF StackGood, FrameGood
  <2>4. CASE stack' = stack
    BY <2>2, <2>4
  <2>5. QED
    BY <2>3, <2>4 DEF Operate, Push
<1>3. QED
  BY <1>1, <1>2 DEF OperationInv, ObserversGood, LogGood, Operate, obsVars

\* The keys of a loop are numbers, and cursors range over them.
LEMMA KeysAreNumbers ==
  ASSUME OperationInv, NEW f \in Frames, f.phase # "run"
  PROVE  /\ Keys(f) \in SUBSET Nat
         /\ \A k \in Keys(f) : k \in -1 .. MaxHandle \/ k \in Clients
<1>1. f.op \in Ops /\ f.phase \in ManagerLoops \cup OwnLoops
  BY DEF Frames, Phases
<1>2. CASE f.phase \in ManagerLoops
  BY <1>2, ConstantsOK DEF Keys, OperationInv, ObserversGood, Handles
<1>3. CASE f.phase \in OwnLoops /\ f.phase \notin ManagerLoops
  <2>1. Keys(f) \subseteq Clients
    BY <1>1, <1>3 DEF Keys, OperationInv, ObserversGood
  <2>2. QED
    BY <2>1, ConstantsOK
<1>4. QED
  BY <1>1, <1>2, <1>3

\* Who is promised both events has not been passed over by a loop.
LEMMA PromisedAreKeys ==
  ASSUME OperationInv, NEW f \in Frames, StayHere(f, observers, own), NEW k \in Nat
  PROVE  /\ f.phase \in ManagerLoops /\ << "all", k >> \in f.stay => k \in Keys(f)
         /\ f.phase \in OwnLoops /\ << f.op, k >> \in f.stay => k \in Keys(f)
<1>1. f.op \in Ops /\ f.op # "all"
  BY ConstantsOK DEF Frames
<1>2. ASSUME << "all", k >> \in f.stay PROVE k \in DOMAIN observers
  BY <1>1, <1>2 DEF StayHere
<1>3. ASSUME << f.op, k >> \in f.stay PROVE k \in own[f.op]["willOwn"] \cap own[f.op]["didOwn"]
  BY <1>1, <1>3 DEF StayHere
<1>4. QED
  BY <1>2, <1>3 DEF Keys, ManagerLoops, OwnLoops

LEMMA VisitStep ==
  ASSUME OperationInv, Visit
  PROVE  OperationInv'
<1> DEFINE least == CHOOSE k \in Ahead(Top) : \A j \in Ahead(Top) : k <= j
           who == IF Top.phase \in ManagerLoops THEN << "all", least >> ELSE << Top.op, least >>
           f == [Top EXCEPT !.cursor = least, !.calling = TRUE, !.told = @ \cup ({who} \cap Top.stay)]
<1>1. stack # << >> /\ Ahead(Top) # {} /\ Top.phase # "run" /\ Become(f)
      /\ UNCHANGED << regVars, opVars, obsVars, log >>
  BY DEF Visit, InLoop
<1>2. Top \in Frames /\ FrameGood(Top, Len(stack), observers, own, log)
  BY <1>1, TopGood
<1>3. /\ Keys(Top) \in SUBSET Nat
      /\ \A k \in Keys(Top) : k \in -1 .. MaxHandle \/ k \in Clients
  BY <1>1, <1>2, KeysAreNumbers
<1>4. least \in Ahead(Top) /\ \A j \in Ahead(Top) : least <= j
  <2>1. Ahead(Top) \in SUBSET Nat
    BY <1>3 DEF Ahead
  <2>2. \E k \in Ahead(Top) : \A j \in Ahead(Top) : k <= j
    BY <1>1, <2>1, SmallestNumber
  <2>3. QED
    BY <2>2
<1>5. least \in Nat /\ least \in Keys(Top)
  BY <1>3, <1>4 DEF Ahead
<1> HIDE DEF least
<1>6. who \in Parties /\ Top.phase \in ManagerLoops \cup OwnLoops
  BY <1>1, <1>2, <1>5 DEF Parties, Frames, Phases
<1>7. /\ f \in Frames /\ f.op = Top.op /\ f.phase = Top.phase /\ f.stay = Top.stay
      /\ f.told = Top.told \cup ({who} \cap Top.stay) /\ f.cursor = least
      /\ f.status = Top.status /\ f.vetoed = Top.vetoed /\ f.outcome = Top.outcome
      /\ f.logStart = Top.logStart /\ f.reset = Top.reset /\ f.result = Top.result
  BY <1>2, <1>5, <1>6 DEF Frames
<1>8. ToldSoFar(f)
  <2>1. Top.cursor \in Nat \cup {-1}
    BY <1>2 DEF Frames
  <2>2. \A k \in Nat : k \in Keys(Top) /\ k <= least => k <= Top.cursor \/ k = least
    <3>1. ASSUME NEW k \in Nat, k \in Keys(Top), k <= least, ~ (k <= Top.cursor) PROVE k = least
      <4>1. k \in Ahead(Top)
        BY <2>1, <3>1 DEF Ahead
      <4>2. QED
        BY <1>4, <1>5, <3>1, <4>1
    <3>2. QED
      BY <3>1
  <2>3. StayHere(Top, observers, own) /\ ToldSoFar(Top)
    BY <1>2 DEF FrameGood
  <2>4. \A k \in Nat : << "all", k >> \in Top.stay /\ Top.phase \in ManagerLoops => k \in Keys(Top)
    BY <1>2, <2>3, PromisedAreKeys
  <2>5. \A k \in Nat : << Top.op, k >> \in Top.stay /\ Top.phase \in OwnLoops => k \in Keys(Top)
    BY <1>2, <2>3, PromisedAreKeys
  <2>6. ASSUME f.phase \in {"will", "did"}, NEW h \in Nat, << "all", h >> \in f.stay, h <= f.cursor
        PROVE  << "all", h >> \in f.told
    <3>1. Top.phase \in ManagerLoops
      BY <1>7, <2>6 DEF ManagerLoops
    <3>2. h <= Top.cursor \/ h = least
      BY <1>7, <2>2, <2>4, <2>6, <3>1
    <3>3. QED
      BY <1>7, <2>3, <2>6, <3>1, <3>2 DEF ToldSoFar
  <2>7. ASSUME f.phase \in OwnLoops, NEW h \in Nat, << "all", h >> \in f.stay
        PROVE  << "all", h >> \in f.told
    BY <1>7, <2>3, <2>7 DEF ToldSoFar
  <2>8. ASSUME f.phase \in OwnLoops, NEW c \in Nat, << f.op, c >> \in f.stay, c <= f.cursor
        PROVE  << f.op, c >> \in f.told
    <3>1. Top.phase \notin ManagerLoops
      BY <1>7, <2>8 DEF ManagerLoops, OwnLoops
    <3>2. c <= Top.cursor \/ c = least
      BY <1>7, <2>2, <2>5, <2>8
    <3>3. QED
      BY <1>7, <2>3, <2>8, <3>1, <3>2 DEF ToldSoFar
  <2>9. QED
    BY <2>6, <2>7, <2>8 DEF ToldSoFar
<1>9. FrameGood(f, Len(stack), observers, own, log) /\ (Pending(f) => Pending(Top)) /\ ~Announcing(f)
  <2>1. StayHere(f, observers, own)
    BY <1>2, <1>7 DEF FrameGood, StayHere
  <2>2. VetoKnown(f) /\ LogKnown(f, Len(stack), log) /\ (Pending(f) => Pending(Top))
    BY <1>2, <1>7 DEF FrameGood, VetoKnown, LogKnown, Pending
  <2>3. (f.cursor \in -1 .. MaxHandle \/ f.cursor \in Clients) /\ f.cursor # -1 /\ f.phase # "run"
    BY <1>1, <1>3, <1>5, <1>7
  <2>4. ~Announcing(f)
    BY <2>3 DEF Announcing
  <2>5. QED
    BY <1>7, <1>8, <2>1, <2>2, <2>3, <2>4 DEF FrameGood
<1> HIDE DEF f
<1>10. QED
  BY <1>1, <1>9, TopStep

LEMMA ReturnStep ==
  ASSUME OperationInv, NEW answer \in BOOLEAN, Return(answer)
  PROVE  OperationInv'
<1> DEFINE f == [Top EXCEPT !.calling = FALSE,
                            !.status = Cancelable(Top) /\ Collect(Top, answer),
                            !.vetoed = @ \/ (Cancelable(Top) /\ answer)]
<1>1. stack # << >> /\ Top.calling /\ Become(f) /\ UNCHANGED << regVars, opVars, obsVars, log >>
  BY DEF Return
<1>2. Top \in Frames /\ FrameGood(Top, Len(stack), observers, own, log)
  BY <1>1, TopGood
<1>3. /\ f \in Frames /\ f.op = Top.op /\ f.phase = Top.phase /\ f.stay = Top.stay
      /\ f.told = Top.told /\ f.cursor = Top.cursor /\ f.outcome = Top.outcome
      /\ f.logStart = Top.logStart /\ f.reset = Top.reset /\ f.result = Top.result
      /\ f.status = (Cancelable(Top) /\ Collect(Top, answer))
      /\ f.vetoed = (Top.vetoed \/ (Cancelable(Top) /\ answer))
  <2>1. (Cancelable(Top) /\ Collect(Top, answer)) \in BOOLEAN
        /\ (Top.vetoed \/ (Cancelable(Top) /\ answer)) \in BOOLEAN
    BY DEF Cancelable, Collect
  <2>2. QED
    BY <1>2, <2>1 DEF Frames
<1> HIDE DEF f
<1>4. VetoKnown(f)
  BY <1>2, <1>3 DEF FrameGood, VetoKnown, Cancelable, Collect, AfterRun
<1>5. StayHere(f, observers, own) /\ ToldSoFar(f)
  BY <1>2, <1>3 DEF FrameGood, StayHere, ToldSoFar
<1>6. LogKnown(f, Len(stack), log) /\ (Pending(f) => Pending(Top))
  BY <1>2, <1>3 DEF FrameGood, LogKnown, Pending
<1>7. f.cursor # -1 /\ f.phase # "run" /\ ~Announcing(f)
  BY <1>1, <1>2, <1>3 DEF FrameGood, Announcing
<1>8. QED
  BY <1>1, <1>2, <1>3, <1>4, <1>5, <1>6, <1>7, TopStep DEF FrameGood

\* A loop that ends has told everybody who was promised to be.
LEMMA AllAreTold ==
  ASSUME OperationInv, NEW phase, LoopEnds(phase)
  PROVE  /\ stack # << >> /\ Top.phase = phase /\ Top.phase # "run" /\ ~Top.calling
         /\ Top \in Frames /\ FrameGood(Top, Len(stack), observers, own, log)
         /\ Top.phase \in {"will", "did"} => 
              \A h \in Nat : << "all", h >> \in Top.stay => << "all", h >> \in Top.told
         /\ Top.phase \in OwnLoops => Top.stay \subseteq Top.told
<1>1. stack # << >> /\ Top.phase = phase /\ Top.phase # "run" /\ ~Top.calling /\ Ahead(Top) = {}
  BY DEF LoopEnds, InLoop
<1>2. Top \in Frames /\ FrameGood(Top, Len(stack), observers, own, log)
  BY <1>1, TopGood
<1>3. \A k \in Nat : k \in Keys(Top) => k <= Top.cursor
  <2>1. Top.cursor \in Nat \cup {-1}
    BY <1>2 DEF Frames
  <2>2. QED
    BY <1>1, <2>1 DEF Ahead
<1>4. StayHere(Top, observers, own) /\ ToldSoFar(Top)
  BY <1>2 DEF FrameGood
<1>5. ASSUME NEW h \in Nat, << "all", h >> \in Top.stay, Top.phase \in {"will", "did"}
      PROVE  << "all", h >> \in Top.told
  <2>1. h \in Keys(Top)
    BY <1>2, <1>4, <1>5, PromisedAreKeys DEF ManagerLoops
  <2>2. QED
    BY <1>3, <1>4, <1>5, <2>1 DEF ToldSoFar
<1>6. ASSUME Top.phase \in OwnLoops, NEW w \in Top.stay PROVE w \in Top.told
  <2>1. PICK k \in Nat : w = << "all", k >> \/ w = << Top.op, k >>
    <3>1. DOMAIN observers \subseteq Nat
      BY ConstantsOK DEF OperationInv, ObserversGood, Handles
    <3>2. own[Top.op]["willOwn"] \subseteq Nat
      BY <1>2, ConstantsOK DEF OperationInv, ObserversGood, Frames, OwnLoops
    <3>3. QED
      BY <1>4, <3>1, <3>2 DEF StayHere
  <2>2. CASE w = << "all", k >>
    BY <1>4, <1>6, <2>2 DEF ToldSoFar
  <2>3. CASE w = << Top.op, k >>
    <3>1. k \in Keys(Top)
      BY <1>2, <1>4, <1>6, <2>3, PromisedAreKeys
    <3>2. QED
      BY <1>3, <1>4, <1>6, <2>3, <3>1 DEF ToldSoFar
  <2>4. QED
    BY <2>1, <2>2, <2>3
<1>7. QED
  BY <1>1, <1>2, <1>5, <1>6

LEMMA NextLoopStep ==
  ASSUME OperationInv, NextLoop
  PROVE  OperationInv'
<1>1. PICK p \in {<< "will", "willOwn" >>, << "did", "didOwn" >>} :
        LoopEnds(p[1]) /\ Become([Top EXCEPT !.phase = p[2], !.cursor = -1])
  BY DEF NextLoop
<1> DEFINE f == [Top EXCEPT !.phase = p[2], !.cursor = -1]
<1>2. /\ stack # << >> /\ Top.phase = p[1] /\ ~Top.calling
      /\ Top \in Frames /\ FrameGood(Top, Len(stack), observers, own, log)
      /\ Top.phase \in {"will", "did"} =>
              \A h \in Nat : << "all", h >> \in Top.stay => << "all", h >> \in Top.told
  BY <1>1, AllAreTold
<1>0. p[1] \in {"will", "did"} /\ p[2] \in Phases
  BY DEF Phases, OwnLoops
<1>3. /\ f \in Frames /\ f.op = Top.op /\ f.phase = p[2] /\ f.stay = Top.stay
      /\ f.told = Top.told /\ f.cursor = -1 /\ f.outcome = Top.outcome /\ ~f.calling
      /\ f.logStart = Top.logStart /\ f.reset = Top.reset /\ f.result = Top.result
      /\ f.status = Top.status /\ f.vetoed = Top.vetoed
  <2>1. DOMAIN Top = {"op", "phase", "cursor", "calling", "status", "logStart", "outcome",
                      "result", "stay", "told", "vetoed", "reset"}
    BY <1>2 DEF Frames
  <2>2. QED
    BY <1>2, <1>0, <2>1 DEF Frames
<1> HIDE DEF f
<1>4. VetoKnown(f)
  BY <1>2, <1>3 DEF FrameGood, VetoKnown, AfterRun
<1>5. StayHere(f, observers, own) /\ ToldSoFar(f)
  <2>1. \A c \in Nat : ~ (c <= -1)
    OBVIOUS
  <2>2. QED
    BY <1>2, <1>3, <2>1 DEF FrameGood, StayHere, ToldSoFar
<1>6. LogKnown(f, Len(stack), log) /\ (Pending(f) => Pending(Top))
  BY <1>2, <1>3 DEF FrameGood, LogKnown, Pending, AfterRun
<1>7. f.cursor \in -1 .. MaxHandle /\ ~Announcing(f)
  BY <1>3, ConstantsOK DEF Announcing
<1>8. UNCHANGED << regVars, opVars, obsVars, log >>
  BY DEF NextLoop
<1>9. QED
  BY <1>1, <1>2, <1>3, <1>4, <1>5, <1>6, <1>7, <1>8, TopStep DEF FrameGood, f

LEMMA RunStep ==
  ASSUME OperationInv, Run
  PROVE  OperationInv'
<1> DEFINE f == [Top EXCEPT !.phase = "run", !.cursor = -1, !.told = {}]
<1>1. /\ stack # << >> /\ Top.phase = "willOwn" /\ ~Top.status /\ ~Top.calling /\ Become(f)
      /\ Top \in Frames /\ FrameGood(Top, Len(stack), observers, own, log)
      /\ UNCHANGED << regVars, opVars, obsVars, log >>
  BY AllAreTold DEF Run
<1>2. /\ f \in Frames /\ f.op = Top.op /\ f.phase = "run" /\ f.stay = Top.stay
      /\ f.cursor = -1 /\ f.outcome = Top.outcome /\ ~f.calling
      /\ f.logStart = Top.logStart /\ f.reset = Top.reset /\ f.result = Top.result
      /\ f.status = Top.status /\ f.vetoed = Top.vetoed
  BY <1>1 DEF Frames, Phases
<1> HIDE DEF f
<1>3. VetoKnown(f)
  BY <1>1, <1>2 DEF FrameGood, VetoKnown, AfterRun
<1>4. StayHere(f, observers, own) /\ ToldSoFar(f)
  BY <1>1, <1>2 DEF FrameGood, StayHere, ToldSoFar, OwnLoops
<1>5. LogKnown(f, Len(stack), log) /\ (Pending(f) => Pending(Top))
  BY <1>1, <1>2 DEF FrameGood, LogKnown, Pending, AfterRun
<1>6. f.cursor \in -1 .. MaxHandle /\ ~Announcing(f)
  BY <1>2, ConstantsOK DEF Announcing
<1>7. QED
  BY <1>1, <1>2, <1>3, <1>4, <1>5, <1>6, TopStep DEF FrameGood

LEMMA NoteStep ==
  ASSUME OperationInv, Note
  PROVE  OperationInv'
<1>1. /\ stack # << >> /\ Top.phase = "run" /\ Len(log) + Len(stack) < MaxLog
      /\ log' = Append(log, Len(stack)) /\ UNCHANGED << regVars, opVars, obsVars, stack >>
  BY DEF Note, LogHasRoom
<1>2. /\ log \in Seq(Records) /\ Len(log) \in Nat /\ Len(stack) \in Nat /\ MaxLog \in Nat
      /\ DOMAIN stack = 1 .. Len(stack)
  BY LenProperties, ConstantsOK DEF OperationInv, LogGood, StackGood
<1>3. /\ log' \in Seq(Records) /\ Len(log') = Len(log) + 1 /\ Len(log') <= MaxLog
      /\ NoneDeeper(log', Len(stack))
      /\ \A i \in DOMAIN stack : FrameGood(stack[i], i, observers, own, log')
  <2>1. Len(log) < MaxLog
    BY <1>1, <1>2
  <2>2. QED
    BY <1>1, <1>2, <2>1, RecordIsWritten DEF OperationInv
<1>4. RoomLeft(stack, log')
  BY <1>1, <1>2, <1>3 DEF RoomLeft
<1>5. StackGood(stack, observers, own, log')
  BY <1>3, <1>4 DEF OperationInv, StackGood
<1>6. ResultWhole(stack, log')
  BY <1>1 DEF ResultWhole, Announcing, Top
<1>7. QED
  BY <1>1, <1>3, <1>5, <1>6 DEF OperationInv, RegistryGood, ObserversGood, LogGood,
     regVars, opVars, obsVars

\* After a reset every record is one of all calls in progress.
LEMMA ResetStep ==
  ASSUME OperationInv, Reset
  PROVE  OperationInv'
<1> DEFINE again(f) == [f EXCEPT !.reset = TRUE]
           new == [i \in DOMAIN stack |-> again(stack[i])]
<1>1. /\ stack # << >> /\ Top.phase = "run" /\ log' = << >> /\ stack' = new
      /\ UNCHANGED << regVars, opVars, obsVars >>
  BY DEF Reset
<1>2. /\ stack \in Seq(Frames) /\ Len(stack) \in Nat /\ Len(stack) <= MaxDepth
      /\ DOMAIN stack = 1 .. Len(stack) /\ log \in Seq(Records) /\ Len(log) \in Nat /\ MaxLog \in Nat
  BY LenProperties, ConstantsOK DEF OperationInv, StackGood, LogGood
<1>3. log' \in Seq(Records) /\ Len(log') = 0 /\ NoneDeeper(log', Len(stack))
  BY <1>1, EmptySeq DEF NoneDeeper
<1>4. ASSUME NEW i \in 1 .. Len(stack)
      PROVE  /\ again(stack[i]) \in Frames
             /\ FrameGood(again(stack[i]), i, observers, own, log')
             /\ Clientlike(again(stack[i])) <=> Clientlike(stack[i])
             /\ Pending(again(stack[i])) <=> Pending(stack[i])
             /\ again(stack[i]).phase = stack[i].phase
  <2> DEFINE f == stack[i]
             g == again(f)
  <2>1. FrameGood(f, i, observers, own, log) /\ f \in Frames
    BY <1>2 DEF OperationInv, StackGood, FrameGood
  <2>2. /\ g \in Frames /\ g.op = f.op /\ g.phase = f.phase /\ g.cursor = f.cursor
        /\ g.calling = f.calling /\ g.status = f.status /\ g.logStart = f.logStart
        /\ g.outcome = f.outcome /\ g.result = f.result /\ g.stay = f.stay /\ g.told = f.told
        /\ g.vetoed = f.vetoed /\ g.reset = TRUE
    BY <2>1 DEF Frames
  <2> HIDE DEF f, g
  <2>3. LogKnown(g, i, log')
    BY <1>3, <2>1, <2>2 DEF FrameGood, LogKnown, Pending
  <2>4. StayHere(g, observers, own) /\ ToldSoFar(g) /\ VetoKnown(g)
    BY <2>1, <2>2 DEF FrameGood, StayHere, ToldSoFar, VetoKnown
  <2>5. FrameGood(g, i, observers, own, log')
    BY <2>1, <2>2, <2>3, <2>4 DEF FrameGood
  <2>6. (Clientlike(g) <=> Clientlike(f)) /\ (Pending(g) <=> Pending(f))
    BY <2>2 DEF Clientlike, Pending
  <2>7. QED
    BY <2>2, <2>5, <2>6 DEF g, f
<1> HIDE DEF again
<1>5. /\ new \in Seq(Frames) /\ Len(new) = Len(stack) /\ DOMAIN new = 1 .. Len(stack)
      /\ \A i \in 1 .. Len(stack) : new[i] = again(stack[i])
  <2>1. new \in [1 .. Len(stack) -> Frames]
    BY <1>2, <1>4
  <2>2. QED
    BY <1>2, <2>1, SeqDef, LenProperties
<1> HIDE DEF new
<1>6. RoomLeft(new, log')
  <2>1. ASSUME NEW i \in 1 .. Len(stack), Pending(stack[i]) PROVE i <= MaxLog
    <3>1. Len(log) + i <= MaxLog
      BY <1>2, <2>1 DEF OperationInv, StackGood, RoomLeft
    <3>2. QED
      BY <1>2, <3>1
  <2>2. QED
    BY <1>3, <1>4, <1>5, <2>1 DEF RoomLeft
<1>7. StackGood(new, observers, own, log')
  BY <1>2, <1>3, <1>4, <1>5, <1>6 DEF OperationInv, StackGood
<1>8. ResultWhole(new, log')
  <2>1. Len(stack) \in 1 .. Len(stack) /\ stack[Len(stack)].phase = "run"
    BY <1>1, <1>2, EmptySeq DEF Top
  <2>2. new[Len(new)].phase = "run"
    BY <1>4, <1>5, <2>1
  <2>3. QED
    BY <2>2 DEF ResultWhole, Announcing
<1>9. QED
  BY <1>1, <1>2, <1>3, <1>7, <1>8 DEF OperationInv, RegistryGood, ObserversGood, LogGood,
     regVars, opVars, obsVars

\* The records a call takes from the log, when it concludes, are its own, and all of them
\* if nobody reset the log.
LEMMA TakesItsRecords ==
  ASSUME NEW f \in Frames, Pending(f), NEW d \in Nat,
         NEW records \in Seq(Records), LogKnown(f, d, records)
  PROVE  LET part == RecordsOf(f, records)
         IN  /\ part \in Seq(Records)
             /\ \A k \in DOMAIN part : part[k] >= d
             /\ ~f.reset => Len(part) = Cardinality({i \in DOMAIN records : records[i] >= d})
<1> DEFINE part  == RecordsOf(f, records)
           start == f.logStart
           n     == Len(records)
<1>1. start \in Nat /\ n \in Nat /\ DOMAIN records = 1 .. n
  BY LenProperties DEF Frames
<1>2. /\ part \in Seq(Records)
      /\ Len(part) = IF start + 1 <= n THEN n - (start + 1) + 1 ELSE 0
      /\ \A k \in 1 .. n - (start + 1) + 1 : part[k] = records[start + 1 + k - 1]
  <2>1. \A i \in start + 1 .. n : records[i] \in Records
    BY <1>1, ElementOfSeq
  <2>2. start + 1 \in Int /\ n \in Int
    BY <1>1
  <2> HIDE DEF start, n
  <2>3. /\ SubSeq(records, start + 1, n) \in Seq(Records)
        /\ Len(SubSeq(records, start + 1, n)) = IF start + 1 <= n THEN n - (start + 1) + 1 ELSE 0
        /\ \A k \in 1 .. n - (start + 1) + 1 :
              SubSeq(records, start + 1, n)[k] = records[start + 1 + k - 1]
    BY <2>1, <2>2, SubSeqProperties
  <2>4. part = SubSeq(records, start + 1, n)
    BY DEF RecordsOf, start, n
  <2>5. QED
    BY <2>3, <2>4
<1>3. /\ ~f.reset => start <= n /\ \A i \in 1 .. n : records[i] >= d <=> i > start
      /\ f.reset => \A i \in 1 .. n : records[i] >= d
  BY DEF LogKnown
<1>4. DOMAIN part = 1 .. Len(part)
  BY <1>2, LenProperties
<1> HIDE DEF part, start, n
<1>5. ASSUME NEW k \in DOMAIN part PROVE part[k] >= d
  <2>1. /\ k \in 1 .. n - (start + 1) + 1 /\ start + 1 + k - 1 = start + k
        /\ start + k \in 1 .. n /\ start + k > start
    BY <1>1, <1>2, <1>4
  <2>2. part[k] = records[start + k]
    BY <1>2, <2>1
  <2>3. QED
    BY <1>3, <2>1, <2>2
<1>6. ASSUME ~f.reset PROVE Len(part) = Cardinality({i \in DOMAIN records : records[i] >= d})
  <2>1. {i \in DOMAIN records : records[i] >= d} = start + 1 .. n
    BY <1>1, <1>3, <1>6
  <2>2. Cardinality(start + 1 .. n) = n - start
    <3>1. start + 1 \in Int /\ n \in Int /\ start <= n
      BY <1>1, <1>3, <1>6
    <3>2. Cardinality(start + 1 .. n) = IF start + 1 > n THEN 0 ELSE n - (start + 1) + 1
      BY <3>1, FS_Interval
    <3>3. (IF start + 1 > n THEN 0 ELSE n - (start + 1) + 1) = n - start
      BY <1>1, <3>1
    <3>4. QED
      BY <3>2, <3>3
  <2>3. Len(part) = n - start
    BY <1>1, <1>2, <1>3, <1>6
  <2>4. QED
    BY <2>1, <2>2, <2>3
<1>7. QED
  BY <1>2, <1>5, <1>6 DEF part

\* An operation that is canceled or has run, by what its observers asked for.
LEMMA ConcludeStep ==
  ASSUME OperationInv, stack # << >>, Pending(Top), ~Top.calling,
         NEW outcome \in {"canceled", "ran"}, outcome = "canceled" <=> Top.vetoed,
         Conclude(outcome), UNCHANGED << regVars, opVars, obsVars >>
  PROVE  OperationInv'
<1>1. CASE UNCHANGED << log, stack >>
  BY <1>1 DEF OperationInv, RegistryGood, ObserversGood, LogGood, regVars, opVars, obsVars
<1>2. CASE Definition(Top.op)
  <2> DEFINE records == Append(log, Len(stack))
             part == RecordsOf(Top, records)
             f == [Top EXCEPT !.phase = "did", !.cursor = -1, !.told = {}, !.status = FALSE,
                              !.outcome = outcome, !.result = part]
             new == [stack EXCEPT ![Len(stack)] = f]
  <2>1. /\ Len(stack) \in Nat \ {0} /\ Len(stack) \in DOMAIN stack /\ stack \in Seq(Frames)
        /\ Top \in Frames /\ FrameGood(Top, Len(stack), observers, own, log)
        /\ Len(log) + Len(stack) <= MaxLog /\ Len(stack) <= MaxDepth
        /\ log \in Seq(Records) /\ Len(log) \in Nat /\ MaxLog \in Nat
        /\ DOMAIN stack = 1 .. Len(stack)
    BY TopGood, LenProperties, ConstantsOK DEF OperationInv, StackGood, LogGood
  <2>2. /\ records \in Seq(Records) /\ Len(records) = Len(log) + 1 /\ Len(records) <= MaxLog
        /\ NoneDeeper(records, Len(stack))
        /\ \A i \in DOMAIN stack : FrameGood(stack[i], i, observers, own, records)
    <3>1. Len(log) < MaxLog
      BY <2>1
    <3>2. QED
      BY <2>1, <3>1, RecordIsWritten DEF OperationInv
  <2>3. stack' = new /\ log' = records
    BY <1>2 DEF Conclude, Become
  <2> HIDE DEF records
  <2>4. /\ part \in Seq(Records)
        /\ \A k \in DOMAIN part : part[k] >= Len(stack)
        /\ ~Top.reset => Len(part) = Cardinality({i \in DOMAIN records : records[i] >= Len(stack)})
    <3>1. LogKnown(Top, Len(stack), records)
      BY <2>1, <2>2 DEF FrameGood, Top
    <3>2. QED
      BY <2>1, <2>2, <3>1, TakesItsRecords
  <2> HIDE DEF part
  <2>5. /\ f \in Frames /\ f.op = Top.op /\ f.phase = "did" /\ f.stay = Top.stay /\ f.result = part
        /\ f.cursor = -1 /\ f.outcome = outcome /\ f.logStart = Top.logStart /\ f.reset = Top.reset
        /\ f.vetoed = Top.vetoed /\ ~f.calling
    BY <2>1, <2>4 DEF Frames, Phases, ManagerLoops
  <2> HIDE DEF f
  <2>6. FrameGood(f, Len(stack), observers, own, records)
    <3>1. VetoKnown(f)
      BY <2>5 DEF VetoKnown, AfterRun
    <3>2. \A h \in Nat : ~ (h <= -1)
      OBVIOUS
    <3>3. StayHere(f, observers, own) /\ ToldSoFar(f)
      BY <2>1, <2>5, <3>2 DEF FrameGood, StayHere, ToldSoFar, OwnLoops
    <3>4. LogKnown(f, Len(stack), records)
      BY <2>1, <2>4, <2>5 DEF FrameGood, LogKnown, Pending, AfterRun
    <3>5. f.cursor \in -1 .. MaxHandle
      BY <2>5, ConstantsOK
    <3>6. QED
      BY <2>5, <3>1, <3>3, <3>4, <3>5 DEF FrameGood
  <2>7. /\ new \in Seq(Frames) /\ Len(new) = Len(stack) /\ DOMAIN new = 1 .. Len(stack)
        /\ \A i \in 1 .. Len(stack) : new[i] = IF i = Len(stack) THEN f ELSE stack[i]
    <3>1. Len(stack) \in 1 .. Len(stack)
      BY <2>1
    <3>2. QED
      BY <2>1, <2>5, <3>1, ExceptSeq, LenProperties
  <2> HIDE DEF new
  <2>8. RoomLeft(new, records)
    <3>1. ~Pending(f)
      BY <2>5 DEF Pending, AfterRun
    <3>2. ASSUME NEW i \in DOMAIN new, Pending(new[i]) PROVE Len(records) + i <= MaxLog
      <4>1. i \in 1 .. Len(stack) /\ i # Len(stack)
        BY <2>7, <3>1, <3>2
      <4>2. i + 1 <= Len(stack)
        BY <2>1, <4>1
      <4>3. QED
        BY <2>1, <2>2, <4>1, <4>2
    <3>3. QED
      BY <3>2 DEF RoomLeft
  <2>9. StackGood(new, observers, own, records)
    <3>1. \A i \in DOMAIN new : FrameGood(new[i], i, observers, own, records)
      BY <2>1, <2>2, <2>6, <2>7
    <3>2. \A i \in DOMAIN new : i # Len(new) => Clientlike(new[i])
      BY <2>1, <2>7 DEF OperationInv, StackGood
    <3>3. QED
      BY <2>1, <2>2, <2>7, <2>8, <3>1, <3>2 DEF StackGood
  <2>10. ResultWhole(new, records)
    <3>1. new[Len(new)] = f /\ Len(new) = Len(stack)
      BY <2>1, <2>7
    <3>2. QED
      BY <2>4, <2>5, <3>1 DEF ResultWhole, Announcing
  <2>11. QED
    BY <2>2, <2>3, <2>9, <2>10 DEF OperationInv, RegistryGood, ObserversGood, LogGood,
       regVars, opVars, obsVars
<1>3. QED
  BY <1>1, <1>2 DEF Conclude

LEMMA CancelStep ==
  ASSUME OperationInv, Cancel
  PROVE  OperationInv'
<1>1. /\ stack # << >> /\ Top.phase = "willOwn" /\ Top.status /\ ~Top.calling
      /\ FrameGood(Top, Len(stack), observers, own, log)
  BY AllAreTold DEF Cancel
<1>2. Pending(Top) /\ Top.vetoed
  BY <1>1 DEF FrameGood, VetoKnown, Pending, AfterRun
<1>3. Conclude("canceled") /\ UNCHANGED << regVars, opVars, obsVars >>
  BY DEF Cancel
<1>4. QED
  BY <1>1, <1>2, <1>3, ConcludeStep

LEMMA FinishStep ==
  ASSUME OperationInv, Finish
  PROVE  OperationInv'
<1>1. stack # << >> /\ Top.phase = "run"
  BY DEF Finish
<1>2. FrameGood(Top, Len(stack), observers, own, log)
  BY <1>1, TopGood
<1>3. Pending(Top) /\ ~Top.vetoed /\ ~Top.calling
  BY <1>1, <1>2 DEF FrameGood, VetoKnown, Pending, AfterRun
<1>4. Conclude("ran")
  BY DEF Finish
<1>5. UNCHANGED << regVars, opVars, obsVars >>
  BY DEF Finish
<1>6. QED
  BY <1>1, <1>3, <1>4, <1>5, ConcludeStep

LEMMA LeaveStep ==
  ASSUME OperationInv, Leave
  PROVE  OperationInv'
<1>1. stack # << >> /\ Pop /\ UNCHANGED << regVars, opVars, obsVars >>
  BY DEF Leave, LoopEnds, InLoop
<1>2. stack' = SubSeq(stack, 1, Len(stack) - 1)
      /\ log' = IF Len(stack) = 1 THEN << 0 >> ELSE Inherited(log, Len(stack))
  BY <1>1 DEF Pop, Inherited
<1>3. StackGood(stack', observers, own, log') /\ ResultWhole(stack', log')
  BY <1>1, <1>2, CallReturns DEF OperationInv, LogGood
<1>4. LogGood'
  <2>1. << 0 >> \in Seq(Records) /\ Len(<< 0 >>) = 1 /\ 1 <= MaxLog
    BY ConstantsOK DEF Records
  <2>2. Inherited(log, Len(stack)) \in Seq(Records) /\ Len(Inherited(log, Len(stack))) = Len(log)
    <3>1. /\ Len(log) \in Nat /\ DOMAIN log = 1 .. Len(log) /\ Len(stack) \in Nat \ {0}
          /\ Len(stack) <= MaxDepth /\ MaxDepth \in Nat
          /\ \A i \in 1 .. Len(log) : log[i] \in Records
      BY <1>1, TopGood, LenProperties, ElementOfSeq, ConstantsOK DEF OperationInv, LogGood, StackGood
    <3>2. Inherited(log, Len(stack)) \in [1 .. Len(log) -> Records]
      BY <3>1 DEF Inherited, Records
    <3> HIDE DEF Inherited
    <3>3. QED
      BY <3>1, <3>2, SeqDef, LenProperties
  <2>3. QED
    BY <1>2, <2>1, <2>2 DEF OperationInv, LogGood
<1>5. QED
  BY <1>1, <1>3, <1>4 DEF OperationInv, RegistryGood, ObserversGood, regVars, opVars, obsVars

-----------------------------------------------------------------------------
(* The invariant *)

LEMMA InitOperationInv == Init => OperationInv
<1> SUFFICES ASSUME Init PROVE OperationInv
  OBVIOUS
<1>1. RegistryGood
  BY DEF Init, RegistryGood
<1>2. ObserversGood
  <2>1. observers = << >> /\ DOMAIN observers = {}
    BY DEF Init
  <2>2. observers \in [{} -> Clients]
    BY <2>1
  <2>3. QED
    BY <2>1, <2>2 DEF Init, ObserversGood
<1>3. LogGood
  BY ConstantsOK DEF Init, LogGood, Records
<1>4. StackGood(stack, observers, own, log)
  <2>1. stack = << >> /\ DOMAIN stack = {} /\ stack \in Seq(Frames) /\ Len(stack) = 0
    BY EmptySeq DEF Init
  <2>2. NoneDeeper(log, 0)
    BY DEF Init, NoneDeeper
  <2>3. QED
    BY <2>1, <2>2, ConstantsOK DEF StackGood, RoomLeft
<1>5. ResultWhole(stack, log)
  BY DEF Init, ResultWhole
<1>6. QED
  BY <1>1, <1>2, <1>3, <1>4, <1>5 DEF OperationInv

LEMMA NextOperationInv == OperationInv /\ [Next]_vars => OperationInv'
<1> SUFFICES ASSUME OperationInv, [Next]_vars PROVE OperationInv'
  OBVIOUS
<1>1. CASE UNCHANGED vars
  BY <1>1 DEF OperationInv, RegistryGood, ObserversGood, LogGood, vars, regVars, opVars, obsVars
<1>2. CASE Next
  BY <1>2, RegistrationStep, ObserveStep, UnobserveStep, ObserveOwnStep, UnobserveOwnStep, CreateStep,
     OperateStep, VisitStep, ReturnStep, NextLoopStep, RunStep, NoteStep, ResetStep, CancelStep, FinishStep, LeaveStep
     DEF Next
<1>3. QED
  BY <1>1, <1>2

\* The inductive invariant holds in every state: what a call in progress has
\* told whom, what was answered, and what it wrote are known all the time.
THEOREM OperationInvariance == Spec => []OperationInv
<1>1. QED
  BY InitOperationInv, NextOperationInv, PTL DEF Spec

-----------------------------------------------------------------------------
(* What it means *)

LEMMA FrameGoodOK ==
  ASSUME NEW f, NEW d, FrameGood(f, d, observers, own, log)
  PROVE  FrameOK(f)
<1>1. f \in Frames /\ LogKnown(f, d, log)
  BY DEF FrameGood
<1>2. QED
  BY <1>1 DEF FrameGood, FrameOK, LogKnown, Frames, Phases, Records

\* Every variable, and every frame of the stack, keeps its type; a handle is
\* that of an observer, and calls and log stay within their bounds.
THEOREM OperationTypeOK == Spec => []TypeOK
<1>1. ASSUME OperationInv PROVE TypeOK
  <2>1. RegistryGood /\ ObserversGood /\ LogGood /\ StackGood(stack, observers, own, log)
    BY <1>1 DEF OperationInv
  <2>2. \A i \in DOMAIN stack : FrameOK(stack[i])
    BY <2>1, FrameGoodOK DEF StackGood
  <2>3. Len(log) <= MaxLog /\ Len(stack) <= MaxDepth
    BY <2>1, ConstantsOK DEF LogGood, StackGood
  <2>4. \A h \in DOMAIN observers : observers[h] \in Clients
    BY <2>1 DEF ObserversGood
  <2>5. QED
    BY <2>1, <2>2, <2>3, <2>4 DEF TypeOK, RegistryGood, ObserversGood, LogGood, Records
<1>2. QED
  BY <1>1, OperationInvariance, PTL

\* Whoever observes an operation from beginning to end is told of both events,
\* however many operations are nested and whatever observers answer, join or
\* leave: Manager.cxx and Operator.cxx loop over live maps.
THEOREM WillDidSafe == Spec => []WillDidPaired
<1>1. ASSUME OperationInv PROVE WillDidPaired
  <2>1. ASSUME NEW phase \in OwnLoops, LoopEnds(phase) PROVE Top.stay \subseteq Top.told
    BY <1>1, <2>1, AllAreTold
  <2>2. QED
    BY <2>1 DEF WillDidPaired, OwnLoops
<1>2. QED
  BY <1>1, OperationInvariance, PTL

\* What runs was vetoed by nobody it was announced to, and what is reported
\* canceled was vetoed by somebody.
THEOREM CancelSafe == Spec => []CancelHonoured
<1>1. ASSUME OperationInv PROVE CancelHonoured
  <2>1. ASSUME NEW i \in DOMAIN stack PROVE VetoKnown(stack[i])
    BY <1>1 DEF OperationInv, StackGood, FrameGood
  <2>2. QED
    BY <2>1 DEF CancelHonoured, VetoKnown
<1>2. QED
  BY <1>1, OperationInvariance, PTL

\* What an operation reports of the log when it is over is its own, nested
\* operations included, even if one of them reset the log that all share.
THEOREM LogSafe == Spec => []ResultLogIsOwn
<1>1. ASSUME OperationInv PROVE ResultLogIsOwn
  <2>1. ASSUME NEW d \in DOMAIN stack PROVE LogKnown(stack[d], d, log)
    BY <1>1 DEF OperationInv, StackGood, FrameGood
  <2>2. ASSUME NEW d \in DOMAIN stack, d = Len(stack), stack[d].phase = "did", stack[d].cursor = -1,
               ~stack[d].reset
        PROVE  Len(stack[d].result) = Cardinality({i \in DOMAIN log : log[i] >= d})
    <3>1. stack # << >>
      BY <2>2
    <3>2. QED
      BY <1>1, <2>2, <3>1 DEF OperationInv, ResultWhole, Announcing
  <2>3. QED
    BY <2>1, <2>2 DEF ResultLogIsOwn, LogKnown
<1>2. QED
  BY <1>1, OperationInvariance, PTL

-----------------------------------------------------------------------------
(* No null pointer, when registration and release are in order *)

\* Types, as far as completeness depends on them.
RegistryComplete == RegistryGood /\ DefinitionsComplete

\* An operator that has a manager finds the definition of its type.
LEMMA FindsDefinition ==
  ASSUME OpType \in [Ops -> Described], RegistryComplete,
         NEW op \in Ops, manager[op] # Nil
  PROVE  Definition(op)
  BY DEF RegistryComplete, DefinitionsComplete, Definition

LEMMA RegistrationKeepsComplete ==
  ASSUME ~LateRegistration, ~EarlyRelease, OpType \in [Ops -> Described], RegistryComplete,
         \/ \E t \in Types : RegisterStatic(t) \/ UnregisterStatic(t) \/ \E m \in Managers : Register(m, t)
         \/ \E m \in Managers : NewManager(m) \/ ReleaseManager(m)
  PROVE  RegistryComplete'
<1>1. ASSUME NEW t \in Types, RegisterStatic(t) PROVE RegistryComplete'
  BY <1>1 DEF RegisterStatic, RegistrationAllowed, RegistryComplete, RegistryGood, DefinitionsComplete,
     opVars
<1>2. ASSUME NEW t \in Types, UnregisterStatic(t) PROVE RegistryComplete'
  BY <1>2 DEF UnregisterStatic, RegistrationAllowed, RegistryComplete, RegistryGood, DefinitionsComplete,
     opVars
<1>3. ASSUME NEW t \in Types, NEW m \in Managers, Register(m, t) PROVE RegistryComplete'
  <2>1. managers = {m} /\ definitions \in [Managers -> SUBSET Described]
    BY <1>3 DEF Register, RegistrationAllowed, RegistryComplete, RegistryGood
  <2>2. /\ dictionary' = dictionary \cup {t}
        /\ definitions' = [definitions EXCEPT ![m] = @ \cup ({t} \cap Described)]
        /\ managers' = managers /\ manager' = manager /\ specified' = specified /\ crashed' = crashed
    BY <1>3 DEF Register, opVars
  <2>3. definitions'[m] = definitions[m] \cup ({t} \cap Described)
        /\ definitions' \in [Managers -> SUBSET Described]
    BY <2>1, <2>2
  <2>4. QED
    BY <2>1, <2>2, <2>3 DEF RegistryComplete, RegistryGood, DefinitionsComplete
<1>4. ASSUME NEW m \in Managers, NewManager(m) PROVE RegistryComplete'
  BY <1>4 DEF NewManager, RegistryComplete, RegistryGood, DefinitionsComplete, opVars
<1>5. ASSUME NEW m \in Managers, ReleaseManager(m) PROVE RegistryComplete'
  BY <1>5 DEF ReleaseManager, RegistryComplete, RegistryGood, DefinitionsComplete, opVars
<1>6. QED
  BY <1>1, <1>2, <1>3, <1>4, <1>5

LEMMA CallsKeepComplete ==
  ASSUME OpType \in [Ops -> Described], OperationInv, RegistryComplete,
         \/ \E m \in Managers, op \in Ops : Create(m, op)
         \/ \E op \in Ops : Operate(op) \/ Refuse(op)
         \/ \E op \in Ops, spec \in BOOLEAN : SetSpecification(op, spec)
  PROVE  RegistryComplete'
<1>1. ASSUME NEW m \in Managers, NEW op \in Ops, Create(m, op) PROVE RegistryComplete'
  <2>1. \A o \in Ops : manager'[o] = IF o = op THEN m ELSE manager[o]
    BY <1>1 DEF Create, RegistryComplete, RegistryGood
  <2>2. manager' \in [Ops -> Managers \cup {Nil}] /\ m # Nil
    BY <1>1, ConstantsOK DEF Create, RegistryComplete, RegistryGood
  <2>3. QED
    BY <1>1, <2>1, <2>2 DEF Create, RegistryComplete, RegistryGood, DefinitionsComplete, regVars
<1>2. ASSUME NEW op \in Ops, Operate(op) PROVE RegistryComplete'
  <2>1. manager[op] # Nil /\ Definition(op)
    BY <1>2, FindsDefinition DEF Operate
  <2>2. QED
    BY <1>2, <2>1 DEF Operate, RegistryComplete, RegistryGood, DefinitionsComplete, regVars
<1>3. ASSUME NEW op \in Ops, Refuse(op) PROVE RegistryComplete'
  BY <1>3 DEF Refuse, RegistryComplete, RegistryGood, DefinitionsComplete, regVars
<1>4. ASSUME NEW op \in Ops, NEW spec \in BOOLEAN, SetSpecification(op, spec)
      PROVE  RegistryComplete'
  BY <1>4 DEF SetSpecification, RegistryComplete, RegistryGood, DefinitionsComplete, regVars
<1>5. QED
  BY <1>1, <1>2, <1>3, <1>4

\* A call in progress is one of an operator that has a manager.
CallsOfOperators == \A i \in DOMAIN stack : manager[stack[i].op] # Nil

\* The calls in progress after a step were in progress before it.
NoNewCall == \A i \in DOMAIN stack' : i \in DOMAIN stack /\ stack'[i].op = stack[i].op

LEMMA SameCalls ==
  ASSUME OperationInv, CallsOfOperators, NoNewCall, UNCHANGED manager
  PROVE  CallsOfOperators'
  BY DEF NoNewCall, CallsOfOperators

\* Replacing the innermost frame by one of the same call.
LEMMA BecomeIsNoNewCall ==
  ASSUME OperationInv, stack # << >>, NEW f, f.op = Top.op, Become(f)
  PROVE  NoNewCall
<1>1. stack \in Seq(Frames) /\ DOMAIN stack = 1 .. Len(stack) /\ Len(stack) \in Nat
  BY DEF OperationInv, StackGood
<1>2. stack' = [stack EXCEPT ![Len(stack)] = f]
  BY DEF Become
<1>3. \A i \in DOMAIN stack : stack'[i] = IF i = Len(stack) THEN f ELSE stack[i]
  BY <1>2
<1>4. DOMAIN stack' = DOMAIN stack
  BY <1>2
<1>5. QED
  BY <1>3, <1>4 DEF NoNewCall, Top

LEMMA ReturnIsNoNewCall ==
  ASSUME OperationInv, NEW answer \in BOOLEAN, Return(answer)
  PROVE  NoNewCall /\ UNCHANGED << regVars, opVars, crashed >>
<1> DEFINE f == [Top EXCEPT !.calling = FALSE,
                            !.status = Cancelable(Top) /\ Collect(Top, answer),
                            !.vetoed = @ \/ (Cancelable(Top) /\ answer)]
<1>1. stack # << >> /\ Become(f) /\ UNCHANGED << regVars, opVars, crashed >>
  BY DEF Return
<1>2. f.op = Top.op
  BY <1>1, TopGood DEF Frames
<1> HIDE DEF f
<1>3. QED
  BY <1>1, <1>2, BecomeIsNoNewCall

LEMMA LoopsAreNoNewCalls ==
  ASSUME OperationInv,
         Visit \/ (\E answer \in BOOLEAN : Return(answer)) \/ NextLoop \/ Run
  PROVE  NoNewCall /\ UNCHANGED << regVars, opVars, crashed >>
<1>1. ASSUME stack # << >> PROVE Top \in Frames
  BY <1>1, TopGood
<1>2. CASE Visit
  <2> DEFINE least == CHOOSE k \in Ahead(Top) : \A j \in Ahead(Top) : k <= j
             who == IF Top.phase \in ManagerLoops THEN << "all", least >> ELSE << Top.op, least >>
             f == [Top EXCEPT !.cursor = least, !.calling = TRUE, !.told = @ \cup ({who} \cap Top.stay)]
  <2>1. stack # << >> /\ Become(f) /\ UNCHANGED << regVars, opVars, crashed >>
    BY <1>2 DEF Visit, InLoop
  <2>2. f.op = Top.op
    BY <1>1, <2>1 DEF Frames
  <2> HIDE DEF f
  <2>3. QED
    BY <2>1, <2>2, BecomeIsNoNewCall
<1>3. CASE \E answer \in BOOLEAN : Return(answer)
  BY <1>3, ReturnIsNoNewCall
<1>4. CASE NextLoop
  <2>1. PICK p \in {<< "will", "willOwn" >>, << "did", "didOwn" >>} :
          LoopEnds(p[1]) /\ Become([Top EXCEPT !.phase = p[2], !.cursor = -1])
    BY <1>4 DEF NextLoop
  <2> DEFINE f == [Top EXCEPT !.phase = p[2], !.cursor = -1]
  <2>2. stack # << >> /\ Become(f)
    BY <2>1 DEF LoopEnds, InLoop
  <2>3. UNCHANGED << regVars, opVars, crashed >>
    BY <1>4 DEF NextLoop
  <2>4. f.op = Top.op
    BY <1>1, <2>2 DEF Frames
  <2> HIDE DEF f
  <2>5. QED
    BY <2>2, <2>3, <2>4, BecomeIsNoNewCall
<1>5. CASE Run
  <2> DEFINE f == [Top EXCEPT !.phase = "run", !.cursor = -1, !.told = {}]
  <2>1. stack # << >> /\ Become(f) /\ UNCHANGED << regVars, opVars, crashed >>
    BY <1>5 DEF Run, LoopEnds, InLoop
  <2>2. f.op = Top.op
    BY <1>1, <2>1 DEF Frames
  <2> HIDE DEF f
  <2>3. QED
    BY <2>1, <2>2, BecomeIsNoNewCall
<1>6. QED
  BY <1>2, <1>3, <1>4, <1>5

\* Without a null pointer, a call that concludes is none that is new.
LEMMA ConcludeComplete ==
  ASSUME OpType \in [Ops -> Described], OperationInv, RegistryComplete, CallsOfOperators,
         stack # << >>, NEW outcome, Conclude(outcome)
  PROVE  NoNewCall /\ UNCHANGED crashed
<1>1. /\ Top \in Frames /\ Len(stack) \in DOMAIN stack
      /\ DOMAIN stack = 1 .. Len(stack)
  BY TopGood DEF OperationInv, StackGood
<1>2. Top.op \in Ops /\ manager[Top.op] # Nil
  BY <1>1 DEF Frames, CallsOfOperators, Top
<1>3. Definition(Top.op)
  BY <1>2, FindsDefinition
<1> DEFINE f == [Top EXCEPT !.phase = "did", !.cursor = -1, !.told = {}, !.status = FALSE,
                            !.outcome = outcome, !.result = RecordsOf(Top, log')]
<1>4. Become(f) /\ UNCHANGED crashed
  BY <1>3 DEF Conclude
<1>5. f.op = Top.op
  BY <1>1 DEF Frames
<1> HIDE DEF f
<1>6. QED
  BY <1>4, <1>5, BecomeIsNoNewCall

\* A new call is of an operator that has a manager.
LEMMA PushKeepsOperators ==
  ASSUME OperationInv, OperationInv', CallsOfOperators, NEW op \in Ops, NEW phase, NEW stay,
         Push(Frame(op, phase, stay)), manager'[op] # Nil,
         \A o \in Ops : manager[o] # Nil => manager'[o] # Nil
  PROVE  CallsOfOperators'
<1> DEFINE f == Frame(op, phase, stay)
<1>1. f.op = op
  BY DEF Frame
<1>2. /\ stack \in Seq(Frames) /\ stack' = Append(stack, f) /\ DOMAIN stack = 1 .. Len(stack)
      /\ \A i \in DOMAIN stack : stack[i].op \in Ops
      /\ stack' \in Seq(Frames) /\ DOMAIN stack' = 1 .. Len(stack') /\ Len(stack) \in Nat
  BY DEF OperationInv, StackGood, FrameGood, Push, Frames
<1> HIDE DEF f
<1>3. Len(stack') = Len(stack) + 1
  BY <1>2
<1>4. \A i \in DOMAIN stack' : stack'[i] = IF i \in DOMAIN stack THEN stack[i] ELSE f
  BY <1>2, <1>3
<1>5. QED
  BY <1>1, <1>2, <1>4 DEF CallsOfOperators

CompleteInv == OperationInv /\ RegistryComplete /\ CallsOfOperators

LEMMA NextComplete ==
  ASSUME ~LateRegistration, ~EarlyRelease, OpType \in [Ops -> Described], CompleteInv, [Next]_vars
  PROVE  CompleteInv'
<1> USE DEF CompleteInv
<1>1. OperationInv'
  BY NextOperationInv
<1>2. CASE UNCHANGED vars
  BY <1>1, <1>2 DEF RegistryComplete, RegistryGood, DefinitionsComplete, CallsOfOperators,
     vars, regVars, opVars
<1>4. CASE \/ \E t \in Types : RegisterStatic(t) \/ UnregisterStatic(t) \/ \E m \in Managers : Register(m, t)
           \/ \E m \in Managers : NewManager(m) \/ ReleaseManager(m)
  <2>1. UNCHANGED << stack, manager >>
    BY <1>4 DEF RegisterStatic, UnregisterStatic, Register, NewManager, ReleaseManager, opVars
  <2>2. RegistryComplete'
    BY <1>4, RegistrationKeepsComplete
  <2>3. QED
    BY <1>1, <2>1, <2>2, SameCalls DEF NoNewCall
<1>5. CASE \E op \in Ops : Refuse(op) \/ \E spec \in BOOLEAN : SetSpecification(op, spec)
  <2>1. UNCHANGED << stack, manager >>
    BY <1>5 DEF Refuse, SetSpecification
  <2>2. RegistryComplete'
    BY <1>5, CallsKeepComplete
  <2>3. QED
    BY <1>1, <2>1, <2>2, SameCalls DEF NoNewCall
<1>6. ASSUME NEW m \in Managers, NEW op \in Ops, Create(m, op) PROVE CompleteInv'
  <2>1. RegistryComplete' /\ Push(Frame(op, "created", {}))
    BY <1>6, CallsKeepComplete DEF Create
  <2>2. manager'[op] # Nil /\ \A o \in Ops : manager[o] # Nil => manager'[o] # Nil
    BY <1>6, ConstantsOK DEF Create, RegistryComplete, RegistryGood
  <2>3. QED
    BY <1>1, <2>1, <2>2, PushKeepsOperators
<1>7. ASSUME NEW op \in Ops, Operate(op) PROVE CompleteInv'
  <2>1. manager[op] # Nil /\ Definition(op) /\ RegistryComplete' /\ UNCHANGED manager
    BY <1>7, FindsDefinition, CallsKeepComplete DEF Operate
  <2>2. Push(Frame(op, "will", Observing(op)))
    BY <1>7, <2>1 DEF Operate
  <2>3. QED
    BY <1>1, <2>1, <2>2, PushKeepsOperators
<1>8. CASE \/ \E c \in Clients : Observe(c) \/ Unobserve(c)
           \/ \E op \in Ops, loop \in OwnLoops, c \in OwnClients : ObserveOwn(op, loop, c) \/ UnobserveOwn(op, loop, c)
  <2>1. UNCHANGED << regVars, opVars, crashed >>
    BY <1>8 DEF Observe, Unobserve, ObserveOwn, UnobserveOwn
  <2>2. RegistryComplete' /\ UNCHANGED manager
    BY <2>1 DEF RegistryComplete, RegistryGood, DefinitionsComplete, regVars, opVars
  <2>3. stack' = stack \/ \E who : stack' = Leaving(stack, who)
    BY <1>8 DEF Observe, Unobserve, ObserveOwn, UnobserveOwn
  <2>4. \A i \in DOMAIN stack : stack[i] \in Frames
    BY DEF OperationInv, StackGood, FrameGood
  <2>5. NoNewCall
    <3>1. CASE stack' = stack
      BY <3>1 DEF NoNewCall
    <3>2. ASSUME NEW who, stack' = Leaving(stack, who) PROVE NoNewCall
      <4>1. \A f \in Frames : [f EXCEPT !.stay = @ \ who, !.told = @ \ who].op = f.op
        BY DEF Frames
      <4>2. DOMAIN stack = 1 .. Len(stack)
        BY DEF OperationInv, StackGood
      <4>3. QED
        BY <2>4, <3>2, <4>1, <4>2 DEF NoNewCall, Leaving
    <3>3. QED
      BY <2>3, <3>1, <3>2
  <2>6. QED
    BY <1>1, <2>2, <2>5, SameCalls
<1>9. CASE Visit \/ (\E answer \in BOOLEAN : Return(answer)) \/ NextLoop \/ Run
  <2>1. NoNewCall /\ UNCHANGED << regVars, opVars, crashed >>
    BY <1>9, LoopsAreNoNewCalls
  <2>2. RegistryComplete' /\ UNCHANGED manager
    BY <2>1 DEF RegistryComplete, RegistryGood, DefinitionsComplete, regVars, opVars
  <2>3. QED
    BY <1>1, <2>1, <2>2, SameCalls
<1>10. CASE Note \/ Reset
  <2>1. RegistryComplete' /\ UNCHANGED manager
    BY <1>10 DEF Note, Reset, RegistryComplete, RegistryGood, DefinitionsComplete, regVars, opVars
  <2>2. \A i \in DOMAIN stack : stack[i] \in Frames
    BY DEF OperationInv, StackGood, FrameGood
  <2>3. NoNewCall
    BY <1>10, <2>2 DEF Note, Reset, NoNewCall, Frames
  <2>4. QED
    BY <1>1, <2>1, <2>3, SameCalls
<1>11. CASE Cancel \/ Finish
  <2>1. stack # << >> /\ \E outcome : Conclude(outcome)
    BY <1>11 DEF Cancel, Finish, LoopEnds, InLoop
  <2>2. NoNewCall /\ UNCHANGED << regVars, opVars, crashed >>
    BY <1>11, <2>1, ConcludeComplete DEF Cancel, Finish
  <2>3. RegistryComplete' /\ UNCHANGED manager
    BY <2>2 DEF RegistryComplete, RegistryGood, DefinitionsComplete, regVars, opVars
  <2>4. QED
    BY <1>1, <2>2, <2>3, SameCalls
<1>12. CASE Leave
  <2>1. UNCHANGED << regVars, opVars, crashed >> /\ stack # << >>
        /\ stack' = SubSeq(stack, 1, Len(stack) - 1)
    BY <1>12 DEF Leave, Pop, LoopEnds, InLoop
  <2>2. RegistryComplete' /\ UNCHANGED manager
    BY <2>1 DEF RegistryComplete, RegistryGood, DefinitionsComplete, regVars, opVars
  <2>3. stack \in Seq(Frames) /\ Len(stack) \in Nat /\ DOMAIN stack = 1 .. Len(stack)
    BY DEF OperationInv, StackGood
  <2>4. NoNewCall
    BY <2>1, <2>3 DEF NoNewCall
  <2>5. QED
    BY <1>1, <2>2, <2>4, SameCalls
<1>13. QED
  BY <1>2, <1>4, <1>5, <1>6, <1>7, <1>8, <1>9, <1>10, <1>11, <1>12 DEF Next

\* If types are registered before managers exist (or by the only one), managers
\* outlive their operators and every type has its description, then operate()
\* never meets a missing specification or result.
THEOREM OperationsCompleteSafe ==
  ASSUME ~LateRegistration, ~EarlyRelease, OpType \in [Ops -> Described]
  PROVE  Spec => []OperationsComplete
<1>1. Init => CompleteInv
  BY InitOperationInv DEF Init, CompleteInv, OperationInv, RegistryComplete, DefinitionsComplete,
     CallsOfOperators
<1>2. CompleteInv /\ [Next]_vars => CompleteInv'
  BY NextComplete
<1>3. CompleteInv => OperationsComplete
  BY DEF CompleteInv, RegistryComplete, DefinitionsComplete, OperationsComplete
<1>4. QED
  BY <1>1, <1>2, <1>3, PTL DEF Spec
=============================================================================
