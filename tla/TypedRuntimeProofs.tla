------------------------- MODULE TypedRuntimeProofs -------------------------
(***************************************************************************)
(* Theorems about the typed-layer runtime, for every layer the validator   *)
(* accepts and every outcome of the expressions in it.                     *)
(***************************************************************************)
EXTENDS TypedRuntime, FiniteSetTheorems, SequenceTheorems, TLAPS

LEMMA LimitsAreNat == MaxTime \in Nat /\ MaxEvents \in Nat \ {0}
  BY WorldAssumption DEF MaxTime, MaxEvents, Lesser

\* A sequence that is not empty has a head, and a tail that is a sequence.
LEMMA HeadAndTail ==
  ASSUME NEW S, NEW s \in Seq(S), s # <<>>
  PROVE  Head(s) \in S /\ Tail(s) \in Seq(S)
  BY HeadTailProperties

LEMMA ElementOfSequence ==
  ASSUME NEW S, NEW s \in Seq(S), NEW k \in DOMAIN s
  PROVE  k \in Nat \ {0} /\ k <= Len(s) /\ s[k] \in S
  OBVIOUS

InitialEvent ==
  [type : EventTypes, t : Nat, prio : Int, handle : Nat \X Nat]

LEMMA InitialEventTyped ==
  ASSUME NEW k \in DOMAIN InitialEvents
  PROVE  k \in Nat \ {0} /\ k <= Len(InitialEvents)
         /\ InitialEvents[k] \in InitialEvent
  <1>1. InitialEvents \in Seq(InitialEvent)
    BY EventAssumption DEF InitialEvent
  <1> HIDE DEF InitialEvent
  <1> QED BY <1>1, ElementOfSequence

LEMMA EventTyped ==
  ASSUME NEW type \in EventTypes, NEW t \in Nat, NEW prio \in Int,
         NEW handle \in Nat \X Nat, NEW ord \in Nat \ {0}, NEW parent \in Nat
  PROVE  Event(type, t, prio, handle, ord, parent) \in EventRecord
  BY EventAssumption DEF Event, EventRecord

LEMMA ScenarioEventsTyped == ScenarioEvents \subseteq EventRecord
  <1> SUFFICES ASSUME NEW k \in DOMAIN InitialEvents
               PROVE  Event(InitialEvents[k].type, InitialEvents[k].t,
                            InitialEvents[k].prio, InitialEvents[k].handle,
                            k, 0) \in EventRecord
    BY DEF ScenarioEvents
  <1> QED BY InitialEventTyped, EventTyped DEF InitialEvent

LEMMA TickCountIsNat == TickCount \in Nat
  BY WorldAssumption DEF TickCount

LEMMA TicksTyped ==
  ASSUME ~TickMissing
  PROVE  Ticks \subseteq EventRecord
  <1>0. TickCount \in Nat /\ Len(InitialEvents) \in Nat
    BY TickCountIsNat, EventAssumption
  <1> SUFFICES ASSUME NEW k \in 1 .. TickCount
               PROVE  Event(TickType, (k - 1) * TickInterval, 0, <<0, 0>>,
                            Len(InitialEvents) + k, 0) \in EventRecord
    BY DEF Ticks
  <1>1. TickInterval # 0 /\ TickInterval \in Nat
    BY <1>0, WorldAssumption DEF TickCount
  <1>2. TickType \in EventTypes
    BY <1>1, EventAssumption DEF TickMissing
  <1>3. (k - 1) * TickInterval \in Nat
    <2>1. k - 1 \in Nat
      BY <1>0
    <2> DEFINE n == k - 1
    <2> HIDE DEF n
    <2>2. n \in Nat => n * TickInterval \in Nat
      BY <1>1
    <2> QED BY <2>1, <2>2 DEF n
  <1>4. Len(InitialEvents) + k \in Nat \ {0}
    BY <1>0
  <1> QED BY <1>2, <1>3, <1>4, EventTyped

-----------------------------------------------------------------------------
(***************************************************************************)
(* The systems of a layer: what they match, do and run for.                *)
(***************************************************************************)
LEMMA SystemTyped ==
  ASSUME NEW i \in DOMAIN Systems
  PROVE  /\ Systems[i].kind \in {"per_entity", "pair", "per_relation"}
         /\ Systems[i].triggers \in Seq(EventTypes)
         /\ Systems[i].writes \in Seq(Operation)
         /\ Systems[i].creates \in Seq(Operation)
         /\ Systems[i].emits \in Seq(Operation)
  BY SystemAssumption, Zenon DEF ValidSystem

LEMMA OperationsTyped ==
  ASSUME NEW i \in DOMAIN Systems
  PROVE  Operations(Systems[i]) \in Seq(Operation)
  BY SystemTyped, ConcatProperties DEF Operations

LEMMA TriggeredByRuns ==
  ASSUME NEW type
  PROVE  TriggeredBy(type) \subseteq Runs
  <1> SUFFICES ASSUME NEW i \in DOMAIN Systems,
                      NEW k \in DOMAIN Systems[i].triggers
               PROVE  <<i, k>> \in Runs
    BY DEF TriggeredBy
  <1>1. k \in Nat
    BY SystemTyped, ElementOfSequence
  <1> QED BY <1>1 DEF Runs

LEMMA MatchesTyped ==
  ASSUME NEW i \in DOMAIN Systems, relations \subseteq RelationRecord
  PROVE  MatchesOf(Systems[i]) \subseteq MatchRecord
  <1>0. 0 \in 0 .. NEntities /\ Entities \subseteq 0 .. NEntities
    BY EntityAssumption DEF Entities
  <1>1. CASE Systems[i].kind = "per_entity"
    BY <1>0, <1>1 DEF MatchesOf, Match, MatchRecord
  <1>2. CASE Systems[i].kind = "pair"
    BY <1>0, <1>2 DEF MatchesOf, Match, MatchRecord
  <1>3. CASE Systems[i].kind = "per_relation"
    BY <1>0, <1>3 DEF MatchesOf, Match, MatchRecord, OfType, RelationRecord
  <1> QED BY <1>1, <1>2, <1>3, SystemTyped

-----------------------------------------------------------------------------
(***************************************************************************)
(* Type correctness.                                                       *)
(***************************************************************************)
LEMMA InitTyped ==
  ASSUME Init
  PROVE  TypeOK
  <1>1. queue \subseteq EventRecord
    BY ScenarioEventsTyped, TicksTyped DEF Init
  <1>2. nextOrdinal \in Nat \ {0}
    <2>1. Len(InitialEvents) \in Nat
      BY EventAssumption
    <2> QED BY <2>1, TickCountIsNat DEF Init
  <1>3. processed \in 0 .. MaxEvents /\ Len(trace) <= processed
    BY LimitsAreNat DEF Init
  <1>4. match \in MatchRecord
    BY EntityAssumption DEF Init, NoMatch, Match, MatchRecord
  <1>5. IsFiniteSet(relations) /\ relations \subseteq RelationRecord
        /\ nextSerial \in Nat
    BY RelationAssumption, FS_CardinalityType DEF Init
  <1>6. ops \in Seq(Operation) /\ trace \in Seq(EventRecord)
    BY DEF Init
  <1>7. todo \subseteq Runs /\ matches \subseteq MatchRecord /\ moved \in BOOLEAN
    BY DEF Init
  <1>8. system \in {0} \cup DOMAIN Systems /\ now \in Nat
        /\ phase = "loop" /\ report \in {"success", "failed"} /\ current = None
    BY DEF Init
  <1>9. value \in [Entities -> Values]
    BY EntityAssumption DEF Init
  <1> QED BY <1>1, <1>2, <1>3, <1>4, <1>5, <1>6, <1>7, <1>8, <1>9 DEF TypeOK

LEMMA PopTyped ==
  ASSUME TypeOK, Pop
  PROVE  TypeOK'
  <1>1. PICK e \in queue :
          /\ phase = "loop" /\ ~LimitReached /\ queue # {}
          /\ queue' = queue \ {e}
          /\ current' = e
          /\ \/ phase' = "done" /\ UNCHANGED <<now, processed, relations, todo>>
             \/ /\ phase' = "systems"
                /\ now' = e.t
                /\ processed' = processed + 1
                /\ relations' = {r \in relations : ~Expired(r, e.t)}
                /\ todo' = TriggeredBy(e.type)
          /\ UNCHANGED <<report, trace, nextOrdinal, system, matches, match, ops,
                         moved, nextSerial, value>>
    BY DEF Pop
  <1>2. e \in EventRecord
    BY <1>1 DEF TypeOK
  <1>3. e # None
    BY <1>2, EventAssumption
  <1>4. /\ processed' \in 0 .. MaxEvents /\ Len(trace') <= processed'
        /\ phase' \in {"systems", "matching"} => Len(trace') < processed'
    <2>1. processed < MaxEvents
      BY <1>1, LimitsAreNat DEF LimitReached, TypeOK
    <2>2. Len(trace) \in Nat
      BY DEF TypeOK
    <2> QED BY <1>1, <2>1, <2>2, LimitsAreNat DEF TypeOK
  <1>5. relations' \subseteq RelationRecord /\ IsFiniteSet(relations')
    BY <1>1, FS_Subset DEF TypeOK
  <1>6. todo' \subseteq Runs
    BY <1>1, TriggeredByRuns DEF TypeOK
  <1>7. now' \in Nat
    BY <1>1, <1>2 DEF TypeOK, EventRecord
  <1> QED BY <1>1, <1>2, <1>3, <1>4, <1>5, <1>6, <1>7 DEF TypeOK

LEMMA FinishEventTyped ==
  ASSUME TypeOK, FinishEvent
  PROVE  TypeOK'
  <1>1. /\ phase = "systems" /\ todo = {} /\ phase' = "loop" /\ current' = None
        /\ trace' = Append(trace, current)
        /\ UNCHANGED <<report, now, processed, queue, nextOrdinal, todo, system,
                       matches, match, ops, moved, relations, nextSerial, value>>
    BY DEF FinishEvent, sched, running, store
  <1>2. current \in EventRecord /\ Len(trace) < processed /\ processed \in Nat
    BY <1>1, LimitsAreNat DEF TypeOK
  <1>3. trace' \in Seq(EventRecord) /\ Len(trace') = Len(trace) + 1
        /\ Len(trace) \in Nat
    BY <1>1, <1>2, AppendProperties DEF TypeOK
  <1>4. Len(trace') <= processed'
    BY <1>1, <1>2, <1>3
  <1> QED BY <1>1, <1>3, <1>4 DEF TypeOK

LEMMA BeginSystemTyped ==
  ASSUME TypeOK, BeginSystem
  PROVE  TypeOK'
  <1>1. PICK run \in todo :
          /\ phase = "systems" /\ phase' = "matching"
          /\ todo' = todo \ {run}
          /\ system' = run[1]
          /\ matches' = MatchesOf(Systems[run[1]])
          /\ moved' = FALSE
          /\ UNCHANGED <<report, now, processed, current, trace, match, ops,
                         queue, nextOrdinal, relations, nextSerial, value>>
    BY DEF BeginSystem, sched, store
  <1>2. run[1] \in DOMAIN Systems
    BY <1>1 DEF TypeOK, Runs
  <1>3. matches' \subseteq MatchRecord
    BY <1>1, <1>2, MatchesTyped DEF TypeOK
  <1>4. run[1] # 0
    BY <1>2, SystemAssumption
  <1> QED BY <1>1, <1>2, <1>3, <1>4 DEF TypeOK

LEMMA NextMatchTyped ==
  ASSUME TypeOK, NextMatch
  PROVE  TypeOK'
  <1>1. PICK m \in matches :
          /\ phase = "matching"
          /\ matches' = matches \ {m}
          /\ match' = m
          /\ ops' \in {<<>>, Operations(Systems[system])}
          /\ UNCHANGED <<phase, report, now, processed, current, trace, queue,
                         nextOrdinal, todo, system, moved, relations,
                         nextSerial, value>>
    BY DEF NextMatch, kernel, sched, store
  <1>2. system \in DOMAIN Systems
    BY <1>1 DEF TypeOK
  <1>3. ops' \in Seq(Operation)
    <2>1. Operations(Systems[system]) \in Seq(Operation)
      BY <1>2, OperationsTyped
    <2>2. <<>> \in Seq(Operation)
      OBVIOUS
    <2> QED BY <1>1, <2>1, <2>2
  <1> QED BY <1>1, <1>3 DEF TypeOK

LEMMA EndSystemTyped ==
  ASSUME TypeOK, EndSystem
  PROVE  TypeOK'
  <1>1. NoMatch \in MatchRecord
    BY EntityAssumption DEF NoMatch, Match, MatchRecord
  <1> QED BY <1>1 DEF EndSystem, TypeOK, sched, store

\* What an operation finds: the head of ops is an operation and the roles of
\* the match are entities, if they are filled.
LEMMA OperationFound ==
  ASSUME TypeOK, ops # <<>>
  PROVE  /\ Head(ops) \in Operation /\ Tail(ops) \in Seq(Operation)
         /\ \A role \in Roles : InRole(role) # 0 => InRole(role) \in Entities
  <1>1. Head(ops) \in Operation /\ Tail(ops) \in Seq(Operation)
    BY HeadAndTail DEF TypeOK
  <1>2. match \in MatchRecord
    BY DEF TypeOK
  <1>3. ASSUME NEW role \in Roles, InRole(role) # 0
        PROVE  InRole(role) \in Entities
    BY <1>2, <1>3, EntityAssumption DEF InRole, MatchRecord, Entities
  <1> QED BY <1>1, <1>3

LEMMA SkipTyped ==
  ASSUME TypeOK, SkipOperation
  PROVE  TypeOK'
  BY OperationFound DEF SkipOperation, TypeOK, kernel, sched, store

LEMMA WriteTyped ==
  ASSUME TypeOK, Write
  PROVE  TypeOK'
  <1>1. PICK v \in Values :
          /\ ops # <<>> /\ ops' = Tail(ops)
          /\ value' = [value EXCEPT ![InRole(Head(ops).role)] = v]
          /\ UNCHANGED <<phase, report, now, processed, current, trace, queue,
                         nextOrdinal, todo, system, matches, match, moved,
                         relations, nextSerial>>
    BY DEF Write, kernel, sched, store
  <1>2. value' \in [Entities -> Values]
    BY <1>1 DEF TypeOK
  <1> QED BY <1>1, <1>2, OperationFound DEF TypeOK

\* What CreateRelation adds.
LEMMA RelationMade ==
  ASSUME TypeOK, CreateRelation
  PROVE  \E r \in RelationRecord :
           /\ relations' = relations \cup {r}
           /\ HasRoom(r.type, r.source, r.target)
           /\ r.expires = Never \/ r.expires > now
  <1> DEFINE new == Head(ops)
             a == InRole(new.source)
             b == InRole(new.target)
  <1>1. new \in Operation /\ new.op = "create"
    BY OperationFound DEF CreateRelation
  <1>2. new.type \in RelationTypes /\ new.source \in Roles /\ new.target \in Roles
    BY <1>1 DEF Operation
  <1>3. a \in Entities /\ b \in Entities /\ HasRoom(new.type, a, b)
    BY <1>2, OperationFound DEF CreateRelation
  <1>4. PICK expires \in {now + d : d \in Lifetimes} \cup {Never} :
          relations' = relations \cup
            {[serial |-> nextSerial, type |-> new.type, source |-> a,
              target |-> b, expires |-> expires]}
    BY DEF CreateRelation
  <1>5. expires \in Int /\ (expires = Never \/ expires > now)
    BY <1>4, SystemAssumption DEF TypeOK, Never
  <1> DEFINE r == [serial |-> nextSerial, type |-> new.type, source |-> a,
                   target |-> b, expires |-> expires]
  <1>6. r \in RelationRecord
    BY <1>2, <1>3, <1>5 DEF RelationRecord, TypeOK
  <1> QED BY <1>3, <1>4, <1>5, <1>6

LEMMA CreateRelationTyped ==
  ASSUME TypeOK, CreateRelation
  PROVE  TypeOK'
  <1>1. PICK r \in RelationRecord : relations' = relations \cup {r}
    BY RelationMade
  <1>2. /\ ops # <<>> /\ ops' = Tail(ops) /\ nextSerial' = nextSerial + 1
        /\ moved' \in {moved, TRUE}
        /\ UNCHANGED <<phase, report, now, processed, current, trace, queue,
                       nextOrdinal, todo, system, matches, match, value>>
    BY DEF CreateRelation, kernel, sched
  <1>3. IsFiniteSet(relations')
    BY <1>1, FS_AddElement DEF TypeOK
  <1>4. relations' \subseteq RelationRecord /\ nextSerial' \in Nat
    BY <1>1, <1>2 DEF TypeOK
  <1>6. moved' \in BOOLEAN
    <2>1. moved \in BOOLEAN
      BY DEF TypeOK
    <2> QED BY <1>2, <2>1, Zenon
  <1>5. ops' \in Seq(Operation)
    BY <1>2, OperationFound
  <1> QED BY <1>2, <1>3, <1>4, <1>5, <1>6 DEF TypeOK

\* What EmitEvent adds.
LEMMA EventEmitted ==
  ASSUME TypeOK, EmitEvent
  PROVE  \E e \in EventRecord :
           /\ queue' = queue \cup {e}
           /\ e.ord = nextOrdinal
           /\ e.parent = current.ord
  <1>1. PICK t \in EmitTimes \cup {now} :
          queue' = queue \cup {Event(Head(ops).type, t, Head(ops).prio,
                                    <<0, 0>>, nextOrdinal, current.ord)}
    BY DEF EmitEvent
  <1>2. Head(ops).type \in EventTypes /\ Head(ops).prio \in Int
    BY OperationFound DEF EmitEvent, Operation
  <1>3. t \in Nat
    BY <1>1, SystemAssumption DEF TypeOK
  <1>4. current.ord \in Nat /\ nextOrdinal \in Nat \ {0}
    BY DEF EmitEvent, TypeOK, EventRecord
  <1> DEFINE e == Event(Head(ops).type, t, Head(ops).prio, <<0, 0>>,
                        nextOrdinal, current.ord)
  <1>5. e \in EventRecord
    BY <1>2, <1>3, <1>4, EventTyped
  <1>6. e.ord = nextOrdinal /\ e.parent = current.ord
    BY DEF Event
  <1> QED BY <1>1, <1>5, <1>6

LEMMA EmitEventTyped ==
  ASSUME TypeOK, EmitEvent
  PROVE  TypeOK'
  <1>1. PICK e \in EventRecord : queue' = queue \cup {e}
    BY EventEmitted
  <1>2. /\ ops # <<>> /\ ops' = Tail(ops) /\ nextOrdinal' = nextOrdinal + 1
        /\ UNCHANGED <<phase, report, now, processed, current, trace, todo,
                       system, matches, match, moved, relations, nextSerial,
                       value>>
    BY DEF EmitEvent, kernel, store
  <1> QED BY <1>1, <1>2, OperationFound DEF TypeOK

LEMMA StopTyped ==
  ASSUME TypeOK, HaltAtLimit \/ Drained \/ Throw \/ Crash
  PROVE  TypeOK'
  BY DEF HaltAtLimit, Drained, Throw, Crash, Stop, TypeOK, sched, running, store

LEMMA TypedStep ==
  ASSUME TypeOK, [Next]_vars
  PROVE  TypeOK'
  <1>1. CASE UNCHANGED vars
    BY <1>1 DEF TypeOK, vars, kernel, sched, running, store
  <1>2. CASE Next
    BY <1>2, PopTyped, FinishEventTyped, BeginSystemTyped, NextMatchTyped,
       EndSystemTyped, SkipTyped, WriteTyped, CreateRelationTyped,
       EmitEventTyped, StopTyped DEF Next, Operate
  <1> QED BY <1>1, <1>2

\* Every variable keeps its type in every layer, whatever the expressions
\* yield, and no event is handled beyond the limit.
THEOREM TypeCorrect == Spec => []TypeOK
  <1> QED BY InitTyped, TypedStep, PTL DEF Spec

-----------------------------------------------------------------------------
(***************************************************************************)
(* Events: their numbers, parents and order.  The properties of the trace  *)
(* become inductive when they are stated of the events that are pending    *)
(* and of the one that is handled, too.                                    *)
(***************************************************************************)
Handling == current # None
Recorded(o) == \E i \in DOMAIN trace : trace[i].ord = o
InTurn(e, f) == e.t < f.t \/ (e.t = f.t /\ e.prio >= f.prio)
BornAfter(i, e) == \E k \in DOMAIN trace : k >= i /\ trace[k].ord = e.parent

NumbersUnique ==
  /\ \A e \in queue : e.ord < nextOrdinal
  /\ \A e, f \in queue : e.ord = f.ord => e = f
  /\ \A i \in DOMAIN trace : trace[i].ord < nextOrdinal
  /\ \A i, j \in DOMAIN trace : trace[i].ord = trace[j].ord => i = j
  /\ \A e \in queue : ~Recorded(e.ord)
  /\ Handling => /\ current.ord < nextOrdinal
                 /\ ~Recorded(current.ord)
                 /\ \A e \in queue : e.ord # current.ord

ParentsKnown ==
  /\ \A e \in queue :
       \/ e.parent = 0
       \/ Recorded(e.parent)
       \/ Handling /\ e.parent = current.ord
  /\ Handling => current.parent = 0 \/ Recorded(current.parent)

TurnsKept ==
  /\ \A i \in DOMAIN trace : \A e \in queue :
       \/ InTurn(trace[i], e)
       \/ BornAfter(i, e)
       \/ Handling /\ e.parent = current.ord
  /\ Handling =>
       /\ \A i \in DOMAIN trace : InTurn(trace[i], current) \/ BornAfter(i, current)
       /\ \A e \in queue : InTurn(current, e) \/ e.parent = current.ord

\* A missing tick event clears the queue, and the run does not succeed.
NoneLost ==
  report = "success" =>
    \A o \in 1 .. nextOrdinal - 1 :
      \/ Recorded(o)
      \/ \E e \in queue : e.ord = o
      \/ Handling /\ current.ord = o

IdleBetweenEvents == phase = "loop" => current = None

NothingDueLeft ==
  phase = "done" /\ report = "success" =>
    \A e \in (queue \cup {current}) \ {None} : e.t > MaxTime

EventInv ==
  /\ TypeOK /\ IdleBetweenEvents /\ NumbersUnique /\ ParentsKnown /\ TurnsKept
  /\ NoneLost /\ NothingDueLeft /\ RecordedInOrder /\ CausalLinksSound

LEMMA NumbersOfInit ==
  ASSUME Init
  PROVE  /\ \A e \in queue : e.ord < nextOrdinal /\ e.parent = 0
         /\ \A e, f \in queue : e.ord = f.ord => e = f
         /\ report = "success" =>
              \A o \in 1 .. nextOrdinal - 1 : \E e \in queue : e.ord = o
  <1> DEFINE n == Len(InitialEvents)
             Given(k) == LET e == InitialEvents[k]
                         IN Event(e.type, e.t, e.prio, e.handle, k, 0)
             Tick(k) == Event(TickType, (k - 1) * TickInterval, 0, <<0, 0>>,
                              n + k, 0)
  <1>0. n \in Nat /\ TickCount \in Nat /\ DOMAIN InitialEvents = 1 .. n
    BY TickCountIsNat, EventAssumption
  <1>1. CASE TickMissing
    <2>1. queue = {} /\ report = "failed"
      BY <1>1 DEF Init
    <2> QED BY <2>1
  <1>2. CASE ~TickMissing
    <2> HIDE DEF n, Given, Tick
    <2>1. /\ queue = {Given(k) : k \in 1 .. n} \cup {Tick(k) : k \in 1 .. TickCount}
          /\ nextOrdinal = n + TickCount + 1
      BY <1>0, <1>2 DEF Init, ScenarioEvents, Ticks, Given, Tick, n
    <2>2. /\ \A k \in 1 .. n : Given(k).ord = k /\ Given(k).parent = 0
          /\ \A k \in 1 .. TickCount : Tick(k).ord = n + k /\ Tick(k).parent = 0
      BY DEF Given, Tick, Event
    <2>3. ASSUME NEW o \in 1 .. nextOrdinal - 1
          PROVE  \E e \in queue : e.ord = o
      <3>1. CASE o <= n
        BY <3>1, <1>0, <2>1, <2>2
      <3>2. CASE o > n
        <4>1. o - n \in 1 .. TickCount
          BY <3>2, <1>0, <2>1
        <4>2. Tick(o - n) \in queue /\ Tick(o - n).ord = o
          BY <4>1, <1>0, <2>1, <2>2
        <4> QED BY <4>2
      <3> QED BY <3>1, <3>2, <1>0, <2>1
    <2> QED BY <1>0, <2>1, <2>2, <2>3
  <1> QED BY <1>1, <1>2

LEMMA EventsStart ==
  ASSUME Init
  PROVE  EventInv
  <1>1. current = None /\ trace = <<>> /\ phase = "loop" /\ DOMAIN trace = {}
    BY DEF Init
  <1>2. ~Handling /\ \A o : ~Recorded(o)
    BY <1>1 DEF Handling, Recorded
  <1>4. NumbersUnique
    BY <1>1, <1>2, NumbersOfInit DEF NumbersUnique
  <1>5. ParentsKnown
    BY <1>2, NumbersOfInit DEF ParentsKnown
  <1>6. NoneLost
    BY <1>2, NumbersOfInit DEF NoneLost
  <1>3. TurnsKept /\ RecordedInOrder /\ CausalLinksSound
    BY <1>1 DEF TurnsKept, RecordedInOrder, CausalLinksSound, Handling
  <1> QED BY <1>1, <1>3, <1>4, <1>5, <1>6, InitTyped DEF EventInv, IdleBetweenEvents,
          NothingDueLeft

\* Steps that touch neither the queue nor the trace.
LEMMA EventsUntouched ==
  ASSUME EventInv, TypeOK', IdleBetweenEvents', NothingDueLeft',
         UNCHANGED <<queue, nextOrdinal, current, trace>>,
         report' = "success" => report = "success"
  PROVE  EventInv'
  BY DEF EventInv, NumbersUnique, ParentsKnown, TurnsKept, NoneLost,
     RecordedInOrder, CausalLinksSound, Handling, Recorded, BornAfter, InTurn

LEMMA PopKeepsEvents ==
  ASSUME EventInv, Pop
  PROVE  EventInv'
  <1>1. PICK e \in queue :
          /\ phase = "loop" /\ IsTop(e)
          /\ queue' = queue \ {e}
          /\ current' = e
          /\ (phase' = "done" /\ e.t > MaxTime) \/ phase' = "systems"
          /\ UNCHANGED <<nextOrdinal, trace, report>>
    BY DEF Pop
  <1>2. e \in EventRecord /\ queue \subseteq EventRecord /\ e # None /\ ~Handling
    BY <1>1, EventAssumption DEF EventInv, TypeOK, IdleBetweenEvents, Handling
  <1>3. \A f \in queue' : InTurn(e, f)
    BY <1>1, <1>2 DEF IsTop, Before, InTurn, EventRecord
  <1>4. NumbersUnique'
    BY <1>1, <1>2 DEF EventInv, NumbersUnique, Handling, Recorded
  <1>5. ParentsKnown'
    <2>1. \A f \in queue : f.parent = 0 \/ Recorded(f.parent)
      BY <1>2 DEF EventInv, ParentsKnown
    <2>2. e.parent = 0 \/ Recorded(e.parent)
      BY <1>1, <2>1
    <2>3. \A f \in queue' : f.parent = 0 \/ \E i \in DOMAIN trace : trace[i].ord = f.parent
      BY <1>1, <2>1 DEF Recorded
    <2>4. e.parent = 0 \/ \E i \in DOMAIN trace : trace[i].ord = e.parent
      BY <2>2 DEF Recorded
    <2> QED BY <1>1, <2>3, <2>4 DEF ParentsKnown, Recorded
  <1>6. TurnsKept'
    BY <1>1, <1>2, <1>3 DEF EventInv, TurnsKept, Handling, BornAfter, InTurn
  <1>7. NoneLost'
    BY <1>1, <1>2 DEF EventInv, NoneLost, Handling, Recorded
  <1>8. RecordedInOrder' /\ CausalLinksSound'
    BY <1>1 DEF EventInv, RecordedInOrder, CausalLinksSound
  <1>9. NothingDueLeft'
    <2>1. \A f \in queue' : f.t >= e.t
      BY <1>2, <1>3, <1>1 DEF InTurn, EventRecord
    <2> QED BY <1>1, <1>2, <2>1, LimitsAreNat DEF NothingDueLeft, EventRecord
  <1>10. TypeOK' /\ IdleBetweenEvents'
    BY <1>1, PopTyped DEF EventInv, IdleBetweenEvents
  <1> QED BY <1>4, <1>5, <1>6, <1>7, <1>8, <1>9, <1>10 DEF EventInv

LEMMA FinishKeepsEvents ==
  ASSUME EventInv, FinishEvent
  PROVE  EventInv'
  <1> DEFINE n == Len(trace)
  <1>1. /\ phase = "systems" /\ phase' = "loop" /\ current' = None
        /\ trace' = Append(trace, current)
        /\ UNCHANGED <<queue, nextOrdinal, report>>
    BY DEF FinishEvent, sched
  <1>2. trace \in Seq(EventRecord) /\ current \in EventRecord /\ Handling
        /\ queue \subseteq EventRecord
    BY <1>1 DEF EventInv, TypeOK, Handling
  <1>3. /\ n \in Nat /\ DOMAIN trace = 1 .. n /\ DOMAIN trace' = 1 .. n + 1
        /\ trace'[n + 1] = current
        /\ \A i \in 1 .. n : trace'[i] = trace[i]
    BY <1>1, <1>2, AppendProperties
  <1> HIDE DEF n
  <1>4. \A o : Recorded(o)' <=> Recorded(o) \/ o = current.ord
    BY <1>3 DEF Recorded
  <1>5. ~Handling'
    BY <1>1 DEF Handling
  <1>6. NumbersUnique'
    BY <1>1, <1>2, <1>3, <1>4, <1>5 DEF EventInv, NumbersUnique, Recorded
  <1>7. ParentsKnown'
    <2>1. \A e \in queue :
            \/ e.parent = 0
            \/ Recorded(e.parent)
            \/ e.parent = current.ord
      BY DEF EventInv, ParentsKnown
    <2>2. ASSUME NEW e \in queue, e.parent # 0
          PROVE  \E i \in DOMAIN trace' : trace'[i].ord = e.parent
      <3>1. CASE Recorded(e.parent)
        BY <3>1, <1>3 DEF Recorded
      <3>2. CASE e.parent = current.ord
        BY <3>2, <1>3
      <3> QED BY <2>1, <2>2, <3>1, <3>2
    <2> QED BY <1>1, <1>5, <2>2 DEF ParentsKnown, Recorded
  <1>8. TurnsKept'
    <2> SUFFICES ASSUME NEW i \in 1 .. n + 1, NEW e \in queue
                 PROVE  InTurn(trace[i], e)' \/ BornAfter(i, e)'
      BY <1>1, <1>3, <1>5 DEF TurnsKept
    <2>1. CASE i = n + 1
      BY <2>1, <1>1, <1>2, <1>3 DEF EventInv, TurnsKept, InTurn, BornAfter
    <2>2. CASE i \in 1 .. n
      <3>1. trace'[i] = trace[i]
        BY <2>2, <1>3
      <3>2. \/ InTurn(trace[i], e)
            \/ BornAfter(i, e)
            \/ e.parent = current.ord
        BY <2>2, <1>2, <1>3 DEF EventInv, TurnsKept
      <3>3. CASE InTurn(trace[i], e)
        BY <3>1, <3>3 DEF InTurn
      <3>4. CASE BornAfter(i, e)
        BY <3>4, <2>2, <1>1, <1>2, <1>3 DEF BornAfter
      <3>5. CASE e.parent = current.ord
        <4>1. n + 1 \in DOMAIN trace' /\ n + 1 >= i /\ trace'[n + 1].ord = e.parent
          BY <3>5, <2>2, <1>3
        <4> QED BY <4>1 DEF BornAfter
      <3> QED BY <3>2, <3>3, <3>4, <3>5
    <2> QED BY <2>1, <2>2, <1>3
  <1>9. NoneLost'
    BY <1>1, <1>2, <1>4, <1>5 DEF EventInv, NoneLost
  <1>10. RecordedInOrder'
    <2> SUFFICES ASSUME NEW i \in 1 .. n + 1, NEW j \in 1 .. n + 1, i < j
                 PROVE  \/ trace'[i].t < trace'[j].t
                        \/ trace'[i].t = trace'[j].t /\ trace'[i].prio >= trace'[j].prio
                        \/ \E k \in i .. j - 1 : trace'[j].parent = trace'[k].ord
      BY <1>3 DEF RecordedInOrder
    <2>1. CASE j \in 1 .. n
      BY <2>1, <1>3 DEF EventInv, RecordedInOrder
    <2>2. CASE j = n + 1
      <3>1. InTurn(trace[i], current) \/ BornAfter(i, current)
        BY <2>2, <1>2, <1>3 DEF EventInv, TurnsKept
      <3> QED BY <3>1, <2>2, <1>3 DEF InTurn, BornAfter
    <2> QED BY <2>1, <2>2, <1>3
  <1>11. CausalLinksSound'
    <2>1. \A i, j \in 1 .. n + 1 : trace'[i].ord = trace'[j].ord => i = j
      BY <1>3, <1>6 DEF NumbersUnique
    <2>2. ASSUME NEW j \in 1 .. n + 1, trace'[j].parent # 0
          PROVE  \E i \in 1 .. j - 1 : trace'[i].ord = trace'[j].parent
      <3>1. CASE j \in 1 .. n
        BY <3>1, <2>2, <1>3 DEF EventInv, CausalLinksSound
      <3>2. CASE j = n + 1
        BY <3>2, <2>2, <1>2, <1>3 DEF EventInv, ParentsKnown, Recorded
      <3> QED BY <3>1, <3>2, <1>3
    <2> QED BY <2>1, <2>2, <1>3 DEF CausalLinksSound
  <1>12. TypeOK' /\ IdleBetweenEvents' /\ NothingDueLeft'
    BY <1>1, FinishEventTyped DEF EventInv, IdleBetweenEvents, NothingDueLeft
  <1> QED BY <1>6, <1>7, <1>8, <1>9, <1>10, <1>11, <1>12 DEF EventInv

LEMMA EmitKeepsEvents ==
  ASSUME EventInv, EmitEvent
  PROVE  EventInv'
  <1>1. PICK e \in EventRecord :
          /\ queue' = queue \cup {e}
          /\ e.ord = nextOrdinal
          /\ e.parent = current.ord
    BY EventEmitted DEF EventInv
  <1>2. /\ phase = "matching" /\ nextOrdinal' = nextOrdinal + 1
        /\ UNCHANGED <<phase, report, current, trace>>
    BY DEF EmitEvent, kernel
  <1>3. Handling /\ nextOrdinal \in Nat \ {0} /\ queue \subseteq EventRecord
        /\ current \in EventRecord
    BY <1>2 DEF EventInv, TypeOK, Handling
  <1>4. trace \in Seq(EventRecord)
    BY DEF EventInv, TypeOK
  <1>5. \A i \in DOMAIN trace : trace[i] \in EventRecord
    BY <1>4
  <1>6. NumbersUnique'
    BY <1>1, <1>2, <1>3, <1>5 DEF EventInv, NumbersUnique, Handling, Recorded,
       EventRecord
  <1>7. ParentsKnown'
    BY <1>1, <1>2, <1>3 DEF EventInv, ParentsKnown, Handling, Recorded
  <1>8. TurnsKept'
    BY <1>1, <1>2, <1>3 DEF EventInv, TurnsKept, Handling, BornAfter, InTurn
  <1>9. NoneLost'
    BY <1>1, <1>2, <1>3 DEF EventInv, NoneLost, Handling, Recorded
  <1>10. RecordedInOrder' /\ CausalLinksSound'
    BY <1>2 DEF EventInv, RecordedInOrder, CausalLinksSound
  <1>11. TypeOK' /\ IdleBetweenEvents' /\ NothingDueLeft'
    BY <1>2, EmitEventTyped DEF EventInv, IdleBetweenEvents, NothingDueLeft
  <1> QED BY <1>6, <1>7, <1>8, <1>9, <1>10, <1>11 DEF EventInv

\* All other steps: those inside a match, and those that end the run.
LEMMA OtherStepsKeepEvents ==
  ASSUME EventInv,
         \/ BeginSystem \/ NextMatch \/ EndSystem \/ SkipOperation \/ Write
         \/ CreateRelation \/ HaltAtLimit \/ Drained \/ Throw \/ Crash
  PROVE  EventInv'
  <1>1. UNCHANGED <<queue, nextOrdinal, current, trace>>
        /\ (report' = "success" => report = "success")
    BY DEF BeginSystem, NextMatch, EndSystem, SkipOperation, Write,
       CreateRelation, HaltAtLimit, Drained, Throw, Crash, Stop, kernel, sched
  <1>2. TypeOK'
    BY TypedStep DEF EventInv, Next, Operate
  <1>3. IdleBetweenEvents'
    BY <1>1 DEF EventInv, IdleBetweenEvents, BeginSystem, NextMatch, EndSystem,
       SkipOperation, Write, CreateRelation, HaltAtLimit, Drained, Throw, Crash,
       Stop, kernel
  <1>4. NothingDueLeft'
    <2>1. CASE Drained
      BY <2>1, <1>1 DEF EventInv, IdleBetweenEvents, NothingDueLeft, Drained
    <2>2. CASE ~Drained
      BY <2>2, <1>1 DEF NothingDueLeft, BeginSystem, NextMatch, EndSystem,
         SkipOperation, Write, CreateRelation, HaltAtLimit, Throw, Crash, Stop,
         kernel
    <2> QED BY <2>1, <2>2
  <1> QED BY <1>1, <1>2, <1>3, <1>4, EventsUntouched

LEMMA EventStep ==
  ASSUME EventInv, [Next]_vars
  PROVE  EventInv'
  <1>1. CASE UNCHANGED vars
    <2>1. UNCHANGED <<queue, nextOrdinal, current, trace, phase, report>>
      BY <1>1 DEF vars, kernel, sched
    <2> QED BY <2>1, TypedStep, EventsUntouched DEF EventInv, IdleBetweenEvents,
            NothingDueLeft
  <1>2. CASE Next
    BY <1>2, PopKeepsEvents, FinishKeepsEvents, EmitKeepsEvents,
       OtherStepsKeepEvents DEF Next, Operate
  <1> QED BY <1>1, <1>2

\* Records are made by time and priority, unless an event is emitted too late
\* for its time: the comparator of typed_runtime.cpp, 177.
THEOREM EventsRecordedInOrder == Spec => []RecordedInOrder
  <1>1. EventInv => RecordedInOrder
    BY DEF EventInv
  <1> QED BY <1>1, EventsStart, EventStep, PTL DEF Spec

\* Every event is recorded once, after the event that emitted it.
THEOREM CausalLinksAlwaysSound == Spec => []CausalLinksSound
  <1>1. EventInv => CausalLinksSound
    BY DEF EventInv
  <1> QED BY <1>1, EventsStart, EventStep, PTL DEF Spec

\* A run that reports success has handled every event due by max_time.
THEOREM NothingDueIsEverDropped == Spec => []NothingDueIsDropped
  <1>1. ASSUME EventInv
        PROVE  NothingDueIsDropped
    <2> SUFFICES ASSUME phase = "done", report = "success",
                        NEW o \in 1 .. nextOrdinal - 1, ~Recorded(o)
                 PROVE  \E e \in (queue \cup {current}) \ {None} :
                          e.ord = o /\ e.t > MaxTime
      BY DEF NothingDueIsDropped, Recorded
    <2>1. PICK e \in queue \cup {current} : e # None /\ e.ord = o
      BY <1>1, EventAssumption DEF EventInv, NoneLost, Handling, TypeOK
    <2> QED BY <1>1, <2>1 DEF EventInv, NothingDueLeft
  <1> QED BY <1>1, EventsStart, EventStep, PTL DEF Spec

-----------------------------------------------------------------------------
(***************************************************************************)
(* Relations: their bounds and their expiry.                               *)
(***************************************************************************)
Bounded(S, n) == Cardinality(S) <= n \/ S \subseteq InitialRelations

\* Removing relations keeps a bound; adding one where there is room does, too.
LEMMA SubsetBounded ==
  ASSUME NEW S, NEW T, IsFiniteSet(S), T \subseteq S, NEW n \in Nat, Bounded(S, n)
  PROVE  Bounded(T, n)
  <1>1. Cardinality(T) <= Cardinality(S)
    BY FS_Subset
  <1>2. Cardinality(T) \in Nat /\ Cardinality(S) \in Nat
    BY FS_Subset, FS_CardinalityType
  <1> QED BY <1>1, <1>2 DEF Bounded

LEMMA AdditionBounded ==
  ASSUME NEW S, NEW r, IsFiniteSet(S), NEW n \in Nat, Cardinality(S) < n
  PROVE  Bounded(S \cup {r}, n)
  <1>1. Cardinality(S \cup {r}) \in {Cardinality(S), Cardinality(S) + 1}
    BY FS_AddElement
  <1>2. Cardinality(S) \in Nat
    BY FS_CardinalityType
  <1> QED BY <1>1, <1>2 DEF Bounded

LEMMA SelectionsFinite ==
  ASSUME IsFiniteSet(relations), NEW type, NEW e
  PROVE  IsFiniteSet(OfType(type)) /\ IsFiniteSet(Touching(type, e))
  <1>1. OfType(type) \subseteq relations /\ Touching(type, e) \subseteq relations
    BY DEF OfType, Touching
  <1> QED BY <1>1, FS_Subset

LEMMA BoundsByType ==
  RelationBoundsKept <=>
    \A type \in RelationTypes :
      /\ MaxTotal[type] > 0 => Bounded(OfType(type), MaxTotal[type])
      /\ MaxPerEntity[type] > 0 =>
           \A e \in Entities : Bounded(Touching(type, e), MaxPerEntity[type])
  BY DEF RelationBoundsKept, Bounded

LEMMA FewerRelationsBounded ==
  ASSUME TypeOK, RelationBoundsKept, relations' \subseteq relations
  PROVE  RelationBoundsKept'
  <1> SUFFICES ASSUME NEW type \in RelationTypes
               PROVE  /\ MaxTotal[type] > 0 => Bounded(OfType(type)', MaxTotal[type])
                      /\ MaxPerEntity[type] > 0 =>
                           \A e \in Entities :
                             Bounded(Touching(type, e)', MaxPerEntity[type])
    BY DEF RelationBoundsKept, Bounded
  <1>1. MaxTotal[type] \in Nat /\ MaxPerEntity[type] \in Nat
    BY RelationAssumption
  <1>2. OfType(type)' \subseteq OfType(type)
    BY DEF OfType
  <1>3. \A e \in Entities : Touching(type, e)' \subseteq Touching(type, e)
    BY DEF Touching, OfType
  <1>4. IsFiniteSet(OfType(type)) /\ \A e \in Entities : IsFiniteSet(Touching(type, e))
    BY SelectionsFinite DEF TypeOK
  <1>5. ASSUME MaxTotal[type] > 0
        PROVE  Bounded(OfType(type)', MaxTotal[type])
    <2>1. Bounded(OfType(type), MaxTotal[type])
      BY <1>5, BoundsByType
    <2> QED BY <2>1, <1>1, <1>2, <1>4, SubsetBounded
  <1>6. ASSUME MaxPerEntity[type] > 0, NEW e \in Entities
        PROVE  Bounded(Touching(type, e)', MaxPerEntity[type])
    <2>1. Bounded(Touching(type, e), MaxPerEntity[type])
      BY <1>6, BoundsByType
    <2> QED BY <2>1, <1>1, <1>3, <1>4, SubsetBounded
  <1> QED BY <1>5, <1>6

LEMMA OneMoreRelationBounded ==
  ASSUME TypeOK, RelationBoundsKept, NEW r \in RelationRecord,
         relations' = relations \cup {r}, HasRoom(r.type, r.source, r.target)
  PROVE  RelationBoundsKept'
  <1> SUFFICES ASSUME NEW type \in RelationTypes
               PROVE  /\ MaxTotal[type] > 0 => Bounded(OfType(type)', MaxTotal[type])
                      /\ MaxPerEntity[type] > 0 =>
                           \A e \in Entities :
                             Bounded(Touching(type, e)', MaxPerEntity[type])
    BY DEF RelationBoundsKept, Bounded
  <1>1. MaxTotal[type] \in Nat /\ MaxPerEntity[type] \in Nat
    BY RelationAssumption
  <1>2. IsFiniteSet(OfType(type)) /\ \A e \in Entities : IsFiniteSet(Touching(type, e))
    BY SelectionsFinite DEF TypeOK
  <1>3. ASSUME MaxTotal[type] > 0
        PROVE  Bounded(OfType(type)', MaxTotal[type])
    <2>1. CASE type = r.type
      <3>1. OfType(type)' = OfType(type) \cup {r}
        BY <2>1 DEF OfType
      <3>2. Cardinality(OfType(type)) < MaxTotal[type]
        BY <1>3, <2>1 DEF HasRoom
      <3> QED BY <3>1, <3>2, <1>1, <1>2, AdditionBounded
    <2>2. CASE type # r.type
      <3>1. OfType(type)' = OfType(type)
        BY <2>2 DEF OfType
      <3> QED BY <3>1, <1>3, BoundsByType
    <2> QED BY <2>1, <2>2
  <1>4. ASSUME MaxPerEntity[type] > 0, NEW e \in Entities
        PROVE  Bounded(Touching(type, e)', MaxPerEntity[type])
    <2>1. CASE type = r.type /\ e \in {r.source, r.target}
      <3>1. Touching(type, e)' = Touching(type, e) \cup {r}
        BY <2>1 DEF Touching, OfType
      <3>2. Cardinality(Touching(type, e)) < MaxPerEntity[type]
        BY <1>4, <2>1 DEF HasRoom
      <3> QED BY <3>1, <3>2, <1>1, <1>2, AdditionBounded
    <2>2. CASE ~(type = r.type /\ e \in {r.source, r.target})
      <3>1. Touching(type, e)' = Touching(type, e)
        BY <2>2 DEF Touching, OfType
      <3> QED BY <3>1, <1>4, BoundsByType
    <2> QED BY <2>1, <2>2
  <1> QED BY <1>3, <1>4

RelationInv == TypeOK /\ RelationBoundsKept /\ ActiveRelationsOnly

LEMMA RelationsStart ==
  ASSUME Init
  PROVE  RelationInv
  <1>1. relations = InitialRelations /\ processed = 0
    BY DEF Init
  <1>2. RelationBoundsKept
    BY <1>1 DEF RelationBoundsKept, OfType, Touching
  <1> QED BY <1>1, <1>2, InitTyped DEF RelationInv, ActiveRelationsOnly

LEMMA RelationStep ==
  ASSUME RelationInv, [Next]_vars
  PROVE  RelationInv'
  <1>0. TypeOK'
    BY TypedStep DEF RelationInv
  <1>1. CASE UNCHANGED <<relations, now, processed>>
    BY <1>0, <1>1, FewerRelationsBounded DEF RelationInv, ActiveRelationsOnly
  <1>2. CASE Pop
    <2>1. CASE UNCHANGED <<relations, now, processed>>
      BY <1>1, <2>1
    <2>2. CASE relations' = {r \in relations : ~Expired(r, now')}
      <3>1. ActiveRelationsOnly'
        <4>1. now' \in Nat /\ relations \subseteq RelationRecord
          BY <1>0 DEF RelationInv, TypeOK
        <4> QED BY <2>2, <4>1 DEF ActiveRelationsOnly, Expired, RelationRecord, Never
      <3>2. relations' \subseteq relations
        BY <2>2
      <3> QED BY <1>0, <3>1, <3>2, FewerRelationsBounded DEF RelationInv
    <2> QED BY <1>2, <2>1, <2>2 DEF Pop
  <1>3. CASE CreateRelation
    <2>1. PICK r \in RelationRecord :
            /\ relations' = relations \cup {r}
            /\ HasRoom(r.type, r.source, r.target)
            /\ r.expires = Never \/ r.expires > now
      BY <1>3, RelationMade DEF RelationInv
    <2>2. RelationBoundsKept'
      BY <2>1, OneMoreRelationBounded DEF RelationInv
    <2>3. UNCHANGED <<now, processed>>
      BY <1>3 DEF CreateRelation, kernel
    <2>4. ActiveRelationsOnly'
      BY <2>1, <2>3 DEF RelationInv, ActiveRelationsOnly
    <2> QED BY <1>0, <2>2, <2>4 DEF RelationInv
  <1>4. CASE /\ [Next]_vars /\ ~Pop /\ ~CreateRelation
             /\ ~UNCHANGED <<relations, now, processed>>
    BY <1>4 DEF Next, Operate, HaltAtLimit, Drained, FinishEvent, BeginSystem,
       NextMatch, EndSystem, SkipOperation, Write, EmitEvent, Throw, Crash,
       vars, kernel, store
  <1> QED BY <1>1, <1>2, <1>3, <1>4

\* The bounds on relations hold in every layer: counted at each creation, over
\* both ends, while relations come and go, and also when a run fails.
THEOREM BoundsAlwaysKept == Spec => []RelationBoundsKept
  <1>1. RelationInv => RelationBoundsKept
    BY DEF RelationInv
  <1> QED BY <1>1, RelationsStart, RelationStep, PTL DEF Spec

\* No expired relation is left once the first event is handled, even where
\* times go back.
THEOREM NoExpiredRelations == Spec => []ActiveRelationsOnly
  <1>1. RelationInv => ActiveRelationsOnly
    BY DEF RelationInv
  <1> QED BY <1>1, RelationsStart, RelationStep, PTL DEF Spec

=============================================================================
