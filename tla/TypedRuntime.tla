---------------------------- MODULE TypedRuntime ----------------------------
(***************************************************************************)
(* The typed-layer runtime: run_typed_layer_scenario of                    *)
(* src/engine/typed_runtime.cpp.  One loop pops the first event of a       *)
(* priority queue, drops the relations that have expired, and runs the     *)
(* systems the event triggers.  A system visits its matches (entities,     *)
(* pairs of entities, or relations) one after another, and for each of     *)
(* them performs its writes, then creates its relations, then emits its    *)
(* events.  Every one of these operations takes effect at once, and any    *)
(* expression may throw, which ends the run where it stands.               *)
(*                                                                         *)
(* Expressions are abstracted to what they can yield: a guard holds, does  *)
(* not hold or throws, a written value is any of Values, a lifetime any of *)
(* Lifetimes and a timestamp any of EmitTimes.  An entity has one field.   *)
(* Times are whole numbers.  Payloads and draws of random numbers are left *)
(* out, and of the traces only the list of events is kept.                 *)
(***************************************************************************)
EXTENDS Integers, Sequences, FiniteSets

CONSTANTS
  NEntities,        \* number of entities; an entity is its index, from 1
  TypeOf,           \* entity -> entity type
  RelationTypes,
  MaxTotal,         \* relation type -> max_total, 0 for no bound
  MaxPerEntity,     \* relation type -> max_per_entity, 0 for no bound
  InitialRelations, \* the relations of the scenario
  EventTypes,
  NameRank,         \* event type -> lexicographic position of its name
  InitialEvents,    \* sequence of the events of the scenario
  TickInterval,     \* world.tick_interval, 0 when unset
  TickType,         \* the event type "tick", or None
  Duration,         \* world.duration
  WorldMaxEvents,   \* world.max_event_count
  OptionMaxTime,    \* RunOptions.max_time, 0 when unset
  OptionMaxEvents,  \* RunOptions.max_events, 0 when unset
  Systems,          \* sequence of systems, in declaration order
  InitialValue,     \* entity -> value of its field
  Values,           \* what the expression of a write can yield
  Lifetimes,        \* what expires_after can yield without throwing
  EmitTimes,        \* what the timestamp of emit_event can yield
  None

Entities == 1 .. NEntities
Never == -1         \* the expires_at of a relation that has none
Roles == {"self", "other"}

EventRecord ==
  [type : EventTypes, t : Nat, prio : Int, ord : Nat \ {0}, parent : Nat,
   handle : Nat \X Nat]

RelationRecord ==
  [serial : Nat, type : RelationTypes, source : Entities, target : Entities,
   expires : Int]

Operation ==
  [op : {"write"}, role : Roles]
    \cup [op : {"create"}, type : RelationTypes, source : Roles,
          target : Roles, lasting : BOOLEAN]
    \cup [op : {"emit"}, type : EventTypes, prio : Int, timed : BOOLEAN]

\* What the validator asks of a system.  A system over single entities may
\* still name "other" in a relation to create, which then throws.
ValidSystem(s) ==
  /\ s.triggers # <<>>
  /\ s.kind \in {"per_entity", "pair", "per_relation"}
  /\ s.kind = "per_relation" => s.on \in RelationTypes
  /\ s.kind = "per_entity" =>
       \A k \in DOMAIN s.writes : s.writes[k].role = "self"

\* What the validator asks of an initial event.
ValidEvent(e) ==
  /\ e.type \in EventTypes
  /\ e.t \in 0 .. Duration
  /\ e.prio \in Int
  /\ e.handle \in Nat \X Nat

ASSUME EntityAssumption ==
  /\ NEntities \in Nat \ {0}
  /\ DOMAIN TypeOf = Entities
  /\ InitialValue \in [Entities -> Values]

ASSUME RelationAssumption ==
  /\ MaxTotal \in [RelationTypes -> Nat]
  /\ MaxPerEntity \in [RelationTypes -> Nat]
  /\ InitialRelations \subseteq RelationRecord
  /\ IsFiniteSet(InitialRelations)
  /\ \A r \in InitialRelations : r.serial \in 1 .. Cardinality(InitialRelations)
  /\ \A r, q \in InitialRelations : r.serial = q.serial => r = q

ASSUME EventAssumption ==
  /\ None \notin EventTypes \cup EventRecord
  /\ NameRank \in [EventTypes -> Nat]
  /\ InitialEvents \in Seq([type : EventTypes, t : Nat, prio : Int,
                            handle : Nat \X Nat])
  /\ \A k \in DOMAIN InitialEvents : ValidEvent(InitialEvents[k])
  /\ TickType \in EventTypes \cup {None}

ASSUME WorldAssumption ==
  /\ TickInterval \in Nat
  /\ Duration \in Nat \ {0}
  /\ WorldMaxEvents \in Nat \ {0}
  /\ OptionMaxTime \in Nat
  /\ OptionMaxEvents \in Nat

ASSUME SystemAssumption ==
  /\ DOMAIN Systems = 1 .. Len(Systems)
  /\ \A i \in DOMAIN Systems :
       /\ ValidSystem(Systems[i])
       /\ Systems[i].triggers \in Seq(EventTypes)
       /\ Systems[i].writes \in Seq(Operation)
       /\ Systems[i].creates \in Seq(Operation)
       /\ Systems[i].emits \in Seq(Operation)
  /\ Lifetimes \subseteq Nat \ {0}
  /\ EmitTimes \subseteq Nat

Lesser(m, n) == IF m <= n THEN m ELSE n

MaxTime == IF OptionMaxTime > 0 THEN Lesser(OptionMaxTime, Duration)
                                ELSE Duration

MaxEvents == IF OptionMaxEvents = 0
             THEN WorldMaxEvents
             ELSE Lesser(OptionMaxEvents, WorldMaxEvents)

VARIABLES
  phase,        \* "loop", "systems", "matching" or "done"
  report,       \* "success", "halted", "failed" or "crashed"
  queue,        \* the set of pending events
  nextOrdinal,  \* next_ordinal
  now,          \* current_time
  processed,    \* processed_events
  current,      \* the event that is handled
  trace,        \* result.events
  todo,         \* the systems still to run for this event
  system,       \* index of the running system, 0 for none
  matches,      \* the matches the running system has yet to visit
  match,        \* the match it visits
  ops,          \* what is left to do for this match
  moved,        \* has the vector of relations moved under the running system?
  relations,    \* the set of relations
  nextSerial,   \* one more than the number of relations ever made
  value         \* entity -> value of its field

kernel  == <<phase, report, now, processed, current, trace>>
sched   == <<queue, nextOrdinal>>
running == <<todo, system, matches, match, ops, moved>>
store   == <<relations, nextSerial>>
vars == <<kernel, sched, running, store, value>>

-----------------------------------------------------------------------------
(***************************************************************************)
(* Events.  A handle is compared as text: the type name, then the ordinal  *)
(* with leading zeros.  It is a pair of numbers here.  The scenario may    *)
(* give an event a handle of its own; <<0, 0>> stands for none.            *)
(***************************************************************************)
Event(type, t, prio, handle, ord, parent) ==
  [type |-> type, t |-> t, prio |-> prio, ord |-> ord, parent |-> parent,
   handle |-> IF handle = <<0, 0>> THEN <<NameRank[type], ord>> ELSE handle]

\* The bug of sorting priorities in ascending order.
BeforeAscendingPriority(e, f) ==
  \/ e.t < f.t
  \/ e.t = f.t /\ e.prio < f.prio
  \/ e.t = f.t /\ e.prio = f.prio /\ e.ord < f.ord

Before(e, f) ==
  \/ e.t < f.t
  \/ e.t = f.t /\ e.prio > f.prio
  \/ /\ e.t = f.t /\ e.prio = f.prio
     /\ \/ e.handle[1] < f.handle[1]
        \/ e.handle[1] = f.handle[1] /\ e.handle[2] < f.handle[2]
        \/ e.handle = f.handle /\ e.ord < f.ord

IsTop(e) == \A f \in queue \ {e} : Before(e, f)

\* The events of the scenario, numbered from 1.
ScenarioEvents ==
  {LET e == InitialEvents[k]
   IN Event(e.type, e.t, e.prio, e.handle, k, 0) : k \in DOMAIN InitialEvents}

TickCount == IF TickInterval = 0 THEN 0 ELSE Duration \div TickInterval + 1

\* A tick at 0 and after every interval, the end of the world included.
Ticks ==
  {Event(TickType, (k - 1) * TickInterval, 0, <<0, 0>>,
         Len(InitialEvents) + k, 0) : k \in 1 .. TickCount}

\* A tick interval without a tick event: the run is reported as failed.
TickMissing == TickInterval > 0 /\ TickType = None

-----------------------------------------------------------------------------
(***************************************************************************)
(* Relations.                                                              *)
(***************************************************************************)
\* The bug of keeping a relation for the whole of the time it expires at.
ExpiredAfter(r, t) == r.expires # Never /\ r.expires < t

Expired(r, t) == r.expires # Never /\ r.expires <= t

OfType(type) == {r \in relations : r.type = type}

Touching(type, e) == {r \in OfType(type) : e \in {r.source, r.target}}

\* The bug of counting the relations of the source only.
HasRoomAtSource(type, a, b) ==
  /\ MaxTotal[type] > 0 => Cardinality(OfType(type)) < MaxTotal[type]
  /\ MaxPerEntity[type] > 0 =>
       Cardinality({r \in OfType(type) : r.source = a}) < MaxPerEntity[type]

HasRoom(type, a, b) ==
  /\ MaxTotal[type] > 0 => Cardinality(OfType(type)) < MaxTotal[type]
  /\ MaxPerEntity[type] > 0 =>
       \A e \in {a, b} : Cardinality(Touching(type, e)) < MaxPerEntity[type]

-----------------------------------------------------------------------------
(***************************************************************************)
(* The systems of an event and the matches of a system.  An event type a   *)
(* system names twice as a trigger runs it twice.                          *)
(***************************************************************************)
Runs == {run \in (DOMAIN Systems) \X Nat :
           run[2] \in DOMAIN Systems[run[1]].triggers}

TriggeredBy(type) ==
  UNION {{<<i, k>> : k \in {j \in DOMAIN Systems[i].triggers :
                              Systems[i].triggers[j] = type}}
          : i \in DOMAIN Systems}

Earlier(run, other) ==
  \/ run[1] < other[1]
  \/ run[1] = other[1] /\ run[2] < other[2]

Match(self, other, rel) == [self |-> self, other |-> other, rel |-> rel]
NoMatch == Match(0, 0, 0)
MatchRecord == [self : 0 .. NEntities, other : 0 .. NEntities, rel : Nat]

MatchesOf(s) ==
  CASE s.kind = "per_entity" ->
         {Match(e, 0, 0) : e \in {f \in Entities : TypeOf[f] = s.on}}
    [] s.kind = "pair" ->
         {Match(p[1], p[2], 0) :
            p \in {q \in Entities \X Entities :
                     q[1] < q[2] /\ TypeOf[q[1]] = s.on /\ TypeOf[q[2]] = s.on}}
    [] s.kind = "per_relation" ->
         {Match(r.source, r.target, r.serial) : r \in OfType(s.on)}

\* Entities in the order of their indices, relations in that of the vector.
Sooner(m, n) ==
  \/ m.rel < n.rel
  \/ m.rel = n.rel /\ m.self < n.self
  \/ m.rel = n.rel /\ m.self = n.self /\ m.other < n.other

Operations(s) == s.writes \o s.creates \o s.emits

InRole(role) == IF role = "self" THEN match.self ELSE match.other

Stop(outcome) == phase' = "done" /\ report' = outcome

-----------------------------------------------------------------------------
(***************************************************************************)
(* The event loop.                                                         *)
(***************************************************************************)
Init ==
  /\ phase = "loop"
  /\ report = IF TickMissing THEN "failed" ELSE "success"
  /\ queue = IF TickMissing THEN {} ELSE ScenarioEvents \cup Ticks
  /\ nextOrdinal = IF TickMissing THEN Len(InitialEvents) + 1
                                  ELSE Len(InitialEvents) + TickCount + 1
  /\ now = 0 /\ processed = 0
  /\ current = None /\ trace = <<>>
  /\ todo = {} /\ system = 0 /\ matches = {} /\ match = NoMatch /\ ops = <<>>
  /\ moved = FALSE
  /\ relations = InitialRelations
  /\ nextSerial = Cardinality(InitialRelations) + 1
  /\ value = InitialValue

LimitReached == queue # {} /\ processed >= MaxEvents

\* The bug of going on with the loop instead of leaving it.
HaltAtLimitContinues ==
  /\ phase = "loop" /\ LimitReached
  /\ report' = "halted"
  /\ UNCHANGED <<phase, now, processed, current, trace, sched, running, store,
                 value>>

HaltAtLimit ==
  /\ phase = "loop" /\ LimitReached
  /\ Stop("halted")
  /\ UNCHANGED <<now, processed, current, trace, sched, running, store, value>>

Drained ==
  /\ phase = "loop" /\ queue = {}
  /\ Stop(report)
  /\ UNCHANGED <<now, processed, current, trace, sched, running, store, value>>

\* The bug of leaving the loop at an event whose time is the end of the run.
PopStopsAtEnd ==
  /\ phase = "loop" /\ queue # {} /\ ~LimitReached
  /\ \E e \in queue :
       /\ IsTop(e)
       /\ queue' = queue \ {e}
       /\ current' = e
       /\ \/ /\ e.t >= MaxTime
             /\ phase' = "done"
             /\ UNCHANGED <<now, processed, relations, todo>>
          \/ /\ e.t < MaxTime
             /\ phase' = "systems"
             /\ now' = e.t
             /\ processed' = processed + 1
             /\ relations' = {r \in relations : ~Expired(r, e.t)}
             /\ todo' = TriggeredBy(e.type)
  /\ UNCHANGED <<report, trace, nextOrdinal, system, matches, match, ops, moved,
                 nextSerial, value>>

\* The event at the head of the queue is handled, unless its time is past
\* the end of the run: then it is dropped and the loop is left.
Pop ==
  /\ phase = "loop" /\ queue # {} /\ ~LimitReached
  /\ \E e \in queue :
       /\ IsTop(e)
       /\ queue' = queue \ {e}
       /\ current' = e
       /\ \/ /\ e.t > MaxTime
             /\ phase' = "done"
             /\ UNCHANGED <<now, processed, relations, todo>>
          \/ /\ e.t <= MaxTime
             /\ phase' = "systems"
             /\ now' = e.t
             /\ processed' = processed + 1
             /\ relations' = {r \in relations : ~Expired(r, e.t)}
             /\ todo' = TriggeredBy(e.type)
  /\ UNCHANGED <<report, trace, nextOrdinal, system, matches, match, ops, moved,
                 nextSerial, value>>

\* All systems are done: the event is recorded.
FinishEvent ==
  /\ phase = "systems" /\ todo = {}
  /\ trace' = Append(trace, current)
  /\ current' = None
  /\ phase' = "loop"
  /\ UNCHANGED <<report, now, processed, sched, running, store, value>>

-----------------------------------------------------------------------------
(***************************************************************************)
(* Systems.                                                                *)
(***************************************************************************)
\* The loop over relations captures the relations there are.
BeginSystem ==
  /\ phase = "systems"
  /\ \E run \in todo :
       /\ \A other \in todo \ {run} : Earlier(run, other)
       /\ todo' = todo \ {run}
       /\ system' = run[1]
       /\ matches' = MatchesOf(Systems[run[1]])
  /\ moved' = FALSE
  /\ phase' = "matching"
  /\ UNCHANGED <<report, now, processed, current, trace, match, ops, sched,
                 store, value>>

\* The next match, for which the guard "where" holds or not.
NextMatch ==
  /\ phase = "matching" /\ ops = <<>>
  /\ \E m \in matches :
       /\ \A n \in matches \ {m} : Sooner(m, n)
       /\ matches' = matches \ {m}
       /\ match' = m
  /\ ops' \in {<<>>, Operations(Systems[system])}
  /\ UNCHANGED <<kernel, sched, todo, system, moved, store, value>>

EndSystem ==
  /\ phase = "matching" /\ ops = <<>> /\ matches = {}
  /\ phase' = "systems"
  /\ system' = 0
  /\ match' = NoMatch
  /\ UNCHANGED <<report, now, processed, current, trace, sched, todo, matches,
                 ops, moved, store, value>>

\* The guard "when" of an operation does not hold.
SkipOperation ==
  /\ phase = "matching" /\ ops # <<>>
  /\ ops' = Tail(ops)
  /\ UNCHANGED <<kernel, sched, todo, system, matches, match, moved, store,
                 value>>

Write ==
  /\ phase = "matching" /\ ops # <<>>
  /\ Head(ops).op = "write"
  /\ InRole(Head(ops).role) # 0
  /\ \E v \in Values : value' = [value EXCEPT ![InRole(Head(ops).role)] = v]
  /\ ops' = Tail(ops)
  /\ UNCHANGED <<kernel, sched, todo, system, matches, match, moved, store>>

\* Pushing onto the vector may move it; the loop of a system over relations
\* then holds iterators into memory that is freed.
CreateRelation ==
  /\ phase = "matching" /\ ops # <<>>
  /\ Head(ops).op = "create"
  /\ LET new == Head(ops)
         a == InRole(new.source)
         b == InRole(new.target)
     IN /\ a # 0 /\ b # 0
        /\ HasRoom(new.type, a, b)
        /\ \E expires \in IF new.lasting THEN {now + d : d \in Lifetimes}
                                         ELSE {Never} :
             relations' = relations \cup
               {[serial |-> nextSerial, type |-> new.type, source |-> a,
                 target |-> b, expires |-> expires]}
  /\ nextSerial' = nextSerial + 1
  /\ moved' \in IF match.rel = 0 THEN {moved} ELSE {moved, TRUE}
  /\ ops' = Tail(ops)
  /\ UNCHANGED <<kernel, sched, todo, system, matches, match, value>>

\* The bug of naming the last event that was scheduled as the parent.
EmitAsChildOfSibling ==
  /\ phase = "matching" /\ ops # <<>>
  /\ Head(ops).op = "emit"
  /\ \E t \in IF Head(ops).timed THEN EmitTimes ELSE {now} :
       queue' = queue \cup {Event(Head(ops).type, t, Head(ops).prio, <<0, 0>>,
                                  nextOrdinal, nextOrdinal - 1)}
  /\ nextOrdinal' = nextOrdinal + 1
  /\ ops' = Tail(ops)
  /\ UNCHANGED <<kernel, todo, system, matches, match, moved, store, value>>

\* The timestamp may be any, that of a time gone by included.
EmitEvent ==
  /\ phase = "matching" /\ ops # <<>>
  /\ Head(ops).op = "emit"
  /\ \E t \in IF Head(ops).timed THEN EmitTimes ELSE {now} :
       queue' = queue \cup {Event(Head(ops).type, t, Head(ops).prio, <<0, 0>>,
                                  nextOrdinal, current.ord)}
  /\ nextOrdinal' = nextOrdinal + 1
  /\ ops' = Tail(ops)
  /\ UNCHANGED <<kernel, todo, system, matches, match, moved, store, value>>

Evaluating == phase = "matching" /\ (ops # <<>> \/ matches # {})

\* An expression throws, a role is not filled or a bound is reached: the run
\* fails, with the effects it has had so far.
Throw ==
  /\ Evaluating
  /\ Stop("failed")
  /\ UNCHANGED <<now, processed, current, trace, sched, running, store, value>>

\* What is left in the freed memory may pass for the relations that were
\* there, may make a guard fail or an expression throw, or end the program.
Crash ==
  /\ Evaluating /\ moved
  /\ Stop("crashed")
  /\ UNCHANGED <<now, processed, current, trace, sched, running, store, value>>

Operate == SkipOperation \/ Write \/ CreateRelation \/ EmitEvent

Next ==
  \/ HaltAtLimit \/ Drained \/ Pop \/ FinishEvent
  \/ BeginSystem \/ NextMatch \/ EndSystem
  \/ Operate \/ Throw \/ Crash

\* One thread runs the loop until it is left.
Spec == Init /\ [][Next]_vars /\ WF_vars(Next)

-----------------------------------------------------------------------------
(***************************************************************************)
(* Properties.                                                             *)
(***************************************************************************)
\* The state has the types of the code's variables; no more events are
\* counted than the limit allows (typed_runtime.cpp, 1038), and none is
\* recorded that was not counted.
TypeOK ==
  /\ phase \in {"loop", "systems", "matching", "done"}
  /\ report \in {"success", "halted", "failed", "crashed"}
  /\ queue \subseteq EventRecord
  /\ nextOrdinal \in Nat \ {0}
  /\ now \in Nat
  /\ processed \in 0 .. MaxEvents
  /\ current \in EventRecord \cup {None}
  /\ phase \in {"systems", "matching"} => current # None
  /\ trace \in Seq(EventRecord)
  /\ Len(trace) <= processed
  /\ phase \in {"systems", "matching"} => Len(trace) < processed
  /\ todo \subseteq Runs
  /\ system \in {0} \cup DOMAIN Systems
  /\ phase = "matching" => system # 0
  /\ matches \subseteq MatchRecord
  /\ match \in MatchRecord
  /\ ops \in Seq(Operation)
  /\ moved \in BOOLEAN
  /\ relations \subseteq RelationRecord
  /\ IsFiniteSet(relations)
  /\ nextSerial \in Nat
  /\ value \in [Entities -> Values]

\* A relation type never has more relations than max_total, nor an entity
\* more than max_per_entity, unless all of them were there from the start:
\* the validator does not count the scenario's relations.  The bounds are
\* tested at creation (enforce_relation_bounds), one relation at a time, while
\* other matches of the same system and other events create and expire them.
RelationBoundsKept ==
  \A type \in RelationTypes :
    /\ MaxTotal[type] > 0 =>
         \/ Cardinality(OfType(type)) <= MaxTotal[type]
         \/ OfType(type) \subseteq InitialRelations
    /\ MaxPerEntity[type] > 0 =>
         \A e \in Entities :
           \/ Cardinality(Touching(type, e)) <= MaxPerEntity[type]
           \/ Touching(type, e) \subseteq InitialRelations

\* From the first event on no expired relation is in the store, whatever the
\* order in which times come up: systems match active relations only, and the
\* final state lists "final active relations" (README.md), also when the run
\* fails or an event goes back in time.
ActiveRelationsOnly ==
  processed > 0 =>
    \A r \in relations : r.expires = Never \/ r.expires > now

\* Events are recorded by time and, at one time, by falling priority.  Only an
\* event emitted after an earlier record was made, by that event or a later
\* one, may be recorded out of turn: emit_event may name a time gone by.
RecordedInOrder ==
  \A i, j \in DOMAIN trace :
    i < j =>
      \/ trace[i].t < trace[j].t
      \/ trace[i].t = trace[j].t /\ trace[i].prio >= trace[j].prio
      \/ \E k \in i .. j - 1 : trace[j].parent = trace[k].ord

\* Causal links are sound: every recorded event is recorded once, and its
\* parent, if it has one, is recorded before it.
CausalLinksSound ==
  \A j \in DOMAIN trace :
    /\ \A i \in DOMAIN trace : trace[i].ord = trace[j].ord => i = j
    /\ trace[j].parent # 0 =>
         \E i \in 1 .. j - 1 : trace[i].ord = trace[j].parent

\* A run that reports success has handled every event ever scheduled whose
\* time is not past the end of the run.
NothingDueIsDropped ==
  phase = "done" /\ report = "success" =>
    \A o \in 1 .. nextOrdinal - 1 :
      \/ \E i \in DOMAIN trace : trace[i].ord = o
      \/ \E e \in (queue \cup {current}) \ {None} : e.ord = o /\ e.t > MaxTime

\* Every run ends, also one whose systems emit events for the same time, for
\* ever: max_events stops it.
RunEnds == <>(phase = "done")

\* README.md: "Stable entity, relation, system, and event iteration order".
\* Once the vector of relations has moved under a system that iterates over
\* it, nothing is read through the loop's iterators any more.
RelationLoopStaysPut == phase = "matching" /\ moved => ~Evaluating

=============================================================================
