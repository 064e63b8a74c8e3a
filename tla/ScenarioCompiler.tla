-------------------------- MODULE ScenarioCompiler --------------------------
(***************************************************************************)
(* compile_scenario (src/noisiax.cpp): a scenario is validated, and what   *)
(* validation accepts is compiled into the tables the runtimes work on     *)
(* (src/compiler/scenario_compiler.cpp).  The compiler throws on what it   *)
(* cannot compile.  The tables are functions of the scenario; the          *)
(* runtimes themselves are in modules of their own.                        *)
(***************************************************************************)
EXTENDS ScenarioValidator

CONSTANTS
  Registered,  \* the propagation functions that are registered
  HandleRank   \* event id -> its place in lexicographic order

\* Event ids have a place each.
ASSUME HandleRankAssumption ==
  \A s \in Scenarios : \A e, f \in ElementsOf(s.events) :
    /\ HandleRank[e.id] \in Int
    /\ HandleRank[e.id] = HandleRank[f.id] => e.id = f.id

VARIABLE compiled  \* "pending", "refused", "threw" or "compiled"

vars == <<validation, compiled>>

-----------------------------------------------------------------------------
(***************************************************************************)
(* The tables of the first version.                                        *)
(***************************************************************************)
\* build_parameter_handles: a counter for each type.
Buffers == {"INTEGER", "FLOAT", "STRING", "BOOLEAN"}

\* The bug of counting the variables of the wrong types.
OffsetOverOtherTypes(s, k) ==
  Cardinality({j \in 1..(k - 1) : s.variables[j].type # s.variables[k].type})

Offset(s, k) ==
  Cardinality({j \in 1..(k - 1) : s.variables[j].type = s.variables[k].type})

\* ScheduledEvent::operator<; a comparison with NaN is false.
Less(x, y) == NaN \notin {x, y} /\ x < y

Before(e, f) ==
  IF e.timestamp # f.timestamp \/ e.timestamp = NaN
  THEN Less(e.timestamp, f.timestamp)
  ELSE IF e.priority # f.priority THEN e.priority > f.priority
  ELSE HandleRank[e.id] < HandleRank[f.id]

\* build_event_queue: the place of an event in the sorted queue.
QueuePlace(s, k) ==
  Cardinality({j \in DOMAIN s.events : Before(s.events[j], s.events[k])})

-----------------------------------------------------------------------------
(***************************************************************************)
(* The component tables of compile_typed_layer.  Every entity gets an      *)
(* instance of each component its type lists, in the order of the entities *)
(* and of the list.  A component that a type lists twice has two instances *)
(* for the entity, of which entity_to_instance knows the last.             *)
(***************************************************************************)
ComponentsOf(s, n) ==
  Element(s, "entity_types", s.typed_entities[n].entity_type_ref).components

Listed(s, n, component) ==
  {p \in DOMAIN ComponentsOf(s, n) : ComponentsOf(s, n)[p] = component}

\* The number of instances of the first n entities.
InstancesUpTo(s, component, n) ==
  Cardinality(UNION {{m} \X Listed(s, m, component) : m \in 1..n})

EntityToInstance(s, component, n) ==
  IF Listed(s, n, component) = {} THEN -1
  ELSE InstancesUpTo(s, component, n) - 1

InstanceToEntity(s, component, i) ==
  CHOOSE n \in DOMAIN s.typed_entities :
    /\ InstancesUpTo(s, component, n - 1) <= i
    /\ i < InstancesUpTo(s, component, n)

\* initial_buffer: the value an entity gives for the field, or the zero of the
\* field's type, for which None stands here.
GivenValues(s, n, component, field) ==
  {v \in UNION {c.fields : c \in {d \in s.typed_entities[n].components :
                                    d.id = component}} : v.name = field}

InitialBuffer(s, component, field, i) ==
  LET n == InstanceToEntity(s, component, i)
      given == GivenValues(s, n, component, field)
  IN  IF given # {} /\ EntityToInstance(s, component, n) = i
      THEN (CHOOSE v \in given : TRUE).value
      ELSE None

-----------------------------------------------------------------------------
(***************************************************************************)
(* What the compiler throws on.                                            *)
(***************************************************************************)
\* build_parameter_handles, build_adjacency_lists and compile_agent_layer.
CoreThrows(s) ==
  \/ \E v \in ElementsOf(s.variables) : v.type \notin Buffers
  \/ \E e \in Edges(s) : e.fn \notin Registered
  \/ /\ s.agent_layer # None
     /\ \E shop \in ElementsOf(s.shops) :
          \E slot \in ElementsOf(shop.inventory) :
            slot.item_id \notin Ids(s, "items")

\* The target of a write: its role, if it has one, and then its field.
WriteThrows(s, target) ==
  \/ Len(target) \notin {2, 3}
  \/ Len(target) = 3 /\ target[1] \notin {"self", "other"}
  \/ LET component == target[Len(target) - 1]
     IN \/ component \notin Ids(s, "component_types")
        \/ target[Len(target)] \notin
             FieldNames(Element(s, "component_types", component).fields)

SystemThrows(s, e) ==
  \/ e.kind \notin {"per_entity", "pair", "per_relation"}
  \/ ~(ElementsOf(e.triggered_by) \subseteq Ids(s, "event_types"))
  \/ e.entity_type_ref \notin Ids(s, "entity_types") \cup {None}
  \/ e.relation_type_ref \notin Ids(s, "relation_types") \cup {None}
  \/ \E target \in ElementsOf(e.writes) : WriteThrows(s, target)
  \/ \E c \in ElementsOf(e.create_relations) :
       \/ c.type_ref \notin Ids(s, "relation_types")
       \/ ~({c.source, c.target} \subseteq {"self", "other"})
  \/ \E m \in ElementsOf(e.emit_events) :
       m.type_ref \notin Ids(s, "event_types")

TypedThrows(s) ==
  /\ s.typed_layer # None
  /\ \/ \E e \in ElementsOf(s.entity_types) :
          ~(ElementsOf(e.components) \subseteq Ids(s, "component_types"))
     \/ \E e \in ElementsOf(s.typed_entities) :
          e.entity_type_ref \notin Ids(s, "entity_types")
     \/ \E e \in ElementsOf(s.relations) :
          \/ e.type_ref \notin Ids(s, "relation_types")
          \/ ~({e.source, e.target} \subseteq Ids(s, "typed_entities"))
     \/ \E e \in ElementsOf(s.initial_events) :
          e.type_ref \notin Ids(s, "event_types")
     \/ \E e \in ElementsOf(s.systems) : SystemThrows(s, e)

\* compile_scenario, once validation has ended: throw_if_validation_failed,
\* then ScenarioCompiler::compile.
Compile ==
  /\ ~Running /\ compiled = "pending"
  /\ compiled' = IF ~overall THEN "refused"
                 ELSE IF CoreThrows(scenario) \/ TypedThrows(scenario)
                 THEN "threw"
                 ELSE "compiled"
  /\ UNCHANGED validation

-----------------------------------------------------------------------------
Init == ValidatorInit /\ compiled = "pending"

\* The only way to stop.
Terminated == compiled # "pending" /\ UNCHANGED vars

Next == (ValidatorNext /\ UNCHANGED compiled) \/ Compile \/ Terminated

Spec == Init /\ [][Next]_vars

-----------------------------------------------------------------------------
(***************************************************************************)
(* Properties.                                                             *)
(***************************************************************************)
Accepted == ~Running /\ overall

\* Everything a scenario names, by the list it should be in.
CoreReferences(s) ==
  UNION
    {{<<"entities", v.entity_ref>> : v \in {u \in ElementsOf(s.variables) :
                                             u.entity_ref # ""}},
     {<<"variables", v>> : v \in Linked(s)},
     {<<"variables", v>> :
        v \in UNION {ElementsOf(c.affected) : c \in ElementsOf(s.constraints)}},
     {<<"variables", v>> :
        v \in UNION {ElementsOf(c.inputs) :
                       c \in ElementsOf(s.evaluation_criteria)}},
     {<<"locations", x.location_ref>> : x \in ElementsOf(s.shops)},
     {<<"items", x.item_id>> :
        x \in UNION {ElementsOf(shop.inventory) : shop \in ElementsOf(s.shops)}},
     {<<"locations", a.start_location_ref>> : a \in ElementsOf(s.agents)},
     {<<"policies", a.policy_ref>> : a \in {b \in ElementsOf(s.agents) :
                                             b.policy_ref # ""}}}

SystemReferences(e) ==
  UNION
    {{<<"event_types", t>> : t \in ElementsOf(e.triggered_by)},
     {<<"event_types", m.type_ref>> : m \in ElementsOf(e.emit_events)},
     {<<"relation_types", c.type_ref>> : c \in ElementsOf(e.create_relations)},
     {<<"component_types", w[Len(w) - 1]>> : w \in ElementsOf(e.writes)},
     {<<"entity_types", r>> : r \in {e.entity_type_ref} \ {None}},
     {<<"relation_types", r>> : r \in {e.relation_type_ref} \ {None}}}

TypedReferences(s) ==
  UNION
    {{<<"component_types", c>> :
        c \in UNION {ElementsOf(e.components) : e \in ElementsOf(s.entity_types)}},
     {<<"entity_types", e.entity_type_ref>> : e \in ElementsOf(s.typed_entities)},
     {<<"component_types", c.id>> :
        c \in UNION {e.components : e \in ElementsOf(s.typed_entities)}},
     {<<"relation_types", e.type_ref>> : e \in ElementsOf(s.relations)},
     {<<"typed_entities", r>> : r \in UNION {{e.source, e.target} :
                                              e \in ElementsOf(s.relations)}},
     {<<"event_types", e.type_ref>> : e \in ElementsOf(s.initial_events)},
     UNION {SystemReferences(e) : e \in ElementsOf(s.systems)}}

\* What a run of an accepted scenario refers to is there: no gate leaves a kind
\* of reference unchecked.  The v1 lists of a typed scenario are not validated,
\* and may dangle.
AcceptedReferencesResolve ==
  Accepted =>
    LET references == IF scenario.typed_layer # None
                      THEN TypedReferences(scenario) ELSE CoreReferences(scenario)
    IN  \A ref \in references : ref[2] \in Ids(scenario, ref[1])

\* How the runtime reads a constraint (ConstraintExpressionParser of
\* src/noisiax.cpp): it evaluates both sides of every connective.
RuntimeReads(s, expression) ==
  \A k \in DOMAIN expression :
    \A j \in DOMAIN expression[k] : Readable(s, expression[k][j])

RuntimeHolds(s, expression) ==
  /\ RuntimeReads(s, expression)
  /\ \E k \in DOMAIN expression :
       \A j \in DOMAIN expression[k] : True(s, expression[k][j])

\* A v1 scenario that is accepted starts in a state in which the runtime finds
\* all its constraints satisfied, though validator and runtime read them with
\* parsers of their own.
AcceptedConstraintsHold ==
  (Accepted /\ scenario.typed_layer = None) =>
    \A c \in ElementsOf(scenario.constraints) :
      RuntimeHolds(scenario, c.expression)

\* The plan says that unsatisfiable initial constraints are rejected.  One the
\* runtime finds satisfied should then not be: yet the validator's parser
\* refuses an alternative that is satisfied by its first part.
SatisfiedConstraintsPass ==
  \A k \in DOMAIN report :
    (report[k].rule = "initial_constraints" /\ ~report[k].passed) =>
      \E c \in ElementsOf(scenario.constraints) :
        ~RuntimeHolds(scenario, c.expression)

\* Validation keeps the compiler from throwing, but for what only the compiler
\* checks: variables of the two types without buffer, propagation functions
\* that are not registered, and roles of writes of the systems over pairs and
\* relations.
Unsupported(s) ==
  \/ \E v \in ElementsOf(s.variables) : v.type \in {"ENUM", "LIST"}
  \/ \E e \in Edges(s) : e.fn \notin Registered
  \/ /\ s.typed_layer # None
     /\ \E e \in ElementsOf(s.systems) : \E target \in ElementsOf(e.writes) :
          Len(target) = 3 /\ target[1] \notin {"self", "other"}

CompilesUnlessUnsupported ==
  /\ compiled = "threw" => overall /\ Unsupported(scenario)
  /\ compiled = "compiled" => overall /\ ~Unsupported(scenario)

\* The tables of a compiled scenario: two variables never share a place in a
\* buffer, the events have one order (unless a timestamp is NaN), and every
\* entity finds the values it was given in an instance of its own, also when
\* its type lists a component twice.
VariableTablesSound(s) ==
  \A k \in DOMAIN s.variables :
    /\ Offset(s, k) < Cardinality({j \in DOMAIN s.variables :
                                    s.variables[j].type = s.variables[k].type})
    /\ \A j \in DOMAIN s.variables \ {k} :
         s.variables[j].type = s.variables[k].type =>
           Offset(s, j) # Offset(s, k)

EventsOrdered(s) ==
  (\A e \in ElementsOf(s.events) : e.timestamp # NaN) =>
    {QueuePlace(s, k) : k \in DOMAIN s.events} = 0..(Len(s.events) - 1)

ComponentTablesSound(s) ==
  \A n \in DOMAIN s.typed_entities : \A component \in Ids(s, "component_types") :
    LET i == EntityToInstance(s, component, n)
    IN IF component \in ElementsOf(ComponentsOf(s, n))
       THEN /\ InstanceToEntity(s, component, i) = n
            /\ \A c \in s.typed_entities[n].components : \A v \in c.fields :
                 c.id = component =>
                   InitialBuffer(s, component, v.name, i) = v.value
       ELSE i = -1

CompiledTablesSound ==
  compiled = "compiled" =>
    /\ VariableTablesSound(scenario)
    /\ IF scenario.typed_layer # None THEN ComponentTablesSound(scenario)
                                      ELSE EventsOrdered(scenario)
=============================================================================
