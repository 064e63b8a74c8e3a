---------------------------- MODULE ScenarioText ----------------------------
(***************************************************************************)
(* Scenarios as YAML (src/src/serialization/yaml_serializer.cpp).          *)
(*                                                                         *)
(* serialize and deserialize go through the same fields one by one.  Here  *)
(* the fields of a struct are a table that says, for each key, what kind   *)
(* of value it has, when it is written, and what a missing key is read as; *)
(* Write and Read go over the tables.  YAML itself is external: a document *)
(* is a tree of nodes, and emitting and loading give the same tree, but    *)
(* for a literal block, which gets a line break at its end.                *)
(*                                                                         *)
(* A text is a token; a value that is printed is the text that prints it.  *)
(* A function that may throw is the set of what it returns: one or none.   *)
(*                                                                         *)
(* Structs of a scenario are at most four in one another: the scenario,    *)
(* its layers, their rows, and the rows of those.  So are the loops of the *)
(* code, and so are Read and Write: each level goes through its fields     *)
(* with the level below, which a level gets as a parameter.                *)
(***************************************************************************)
EXTENDS Naturals, Sequences, FiniteSets

CONSTANTS
  Nothing,    \* std::nullopt
  Taken,      \* for a reader, the texts that it takes and the value it makes
  Wrapped,    \* the seeds from 2^63 on, and how int64_t prints them
  LineEnded   \* texts without a line break at the end, and those with it

\* The function f itself, which TLC computes once to compare it.
Computed(f) == IF f = <<>> THEN <<>> ELSE f

\* f, and g where f says nothing.
Over(f, g) ==
  [x \in DOMAIN f \cup DOMAIN g |-> IF x \in DOMAIN f THEN f[x] ELSE g[x]]

\* Nodes.
Scalar(text) == [node |-> "scalar", text |-> text]
Sequence(items) == [node |-> "sequence", items |-> Computed(items)]
Map(at) == [node |-> "map", at |-> Computed(at)]
Null == [node |-> "null"]
Missing == [node |-> "missing"]

KeysOf(node) == IF node.node = "map" THEN DOMAIN node.at ELSE {}
At(node, key) ==
  IF key \in KeysOf(node) THEN node.at[key] ELSE Missing
ItemsOf(node) == IF node.node = "sequence" THEN node.items ELSE <<>>

\* as<std::string> of yaml-cpp, which reads null as a text and throws at what
\* has no text.
HasText(node) == node.node \in {"scalar", "null"}
TextOf(node) ==
  CASE node.node = "scalar" -> node.text
    [] node.node = "null" -> "null"
    [] OTHER -> "none"

-----------------------------------------------------------------------------
(***************************************************************************)
(* Kinds of values and fields.                                             *)
(***************************************************************************)
Of(reader) == [kind |-> "scalar", reader |-> reader]
Text == Of("text")
Real == Of("real")
Integer == Of("integer")
Size == Of("unsigned")
Flag == Of("flag")
Level == Of("level")
FieldType == Of("fieldType")

ListOf(kind) == [kind |-> "list", of |-> kind]
MapOf(kind) == [kind |-> "map", of |-> kind]     \* what is no map is empty
Table(kind) == [kind |-> "table", of |-> kind]   \* what is no map is refused
Part(fields) == [kind |-> "part", fields |-> fields]

\* Values of the type of the variable: its default, and its bounds.
Default == [kind |-> "default"]
Bound == [kind |-> "bound"]
\* Values whose types are declared: those of the fields of the component, or
\* of the payload of the relation type or event type that ref names.
Components == [kind |-> "components"]
Payload(ref, list, id) == [kind |-> "payload", ref |-> ref, list |-> list, id |-> id]

Required(kind) == [kind |-> kind, written |-> "always", missing |-> {}]
Optional(kind) == [kind |-> kind, written |-> "given", missing |-> {Nothing}]
Empty(kind) == IF kind.kind = "scalar" THEN "" ELSE <<>>
Filled(kind) == [kind |-> kind, written |-> "filled", missing |-> {Empty(kind)}]
Listed(kind) == [kind |-> kind, written |-> "always", missing |-> {Empty(kind)}]
Otherwise(kind, value) == [kind |-> kind, written |-> "always", missing |-> {value}]

-----------------------------------------------------------------------------
(***************************************************************************)
(* The structs of a scenario.                                              *)
(***************************************************************************)
Assumption == Part(
  [assumption_id |-> Required(Text), category |-> Required(Text),
   description |-> Required(Text), rationale |-> Required(Text),
   source |-> Optional(Text), confidence_level |-> Required(Level)])
Entity == Part(
  [entity_id |-> Required(Text), entity_type |-> Required(Text),
   description |-> Required(Text), attributes |-> Listed(MapOf(Text))])
Variable == Part(
  [variable_id |-> Required(Text), entity_ref |-> Filled(Text),
   type |-> Required(Of("variableType")), default_value |-> Required(Default),
   min_value |-> Optional(Bound), max_value |-> Optional(Bound),
   enum_values |-> Filled(ListOf(Text)), description |-> Required(Text)])
Edge == Part(
  [edge_id |-> Required(Text), source_variable |-> Required(Text),
   target_variable |-> Required(Text), propagation_function_id |-> Required(Text),
   weight |-> Required(Real), metadata |-> Filled(MapOf(Text))])
Constraint == Part(
  [constraint_id |-> Required(Text), affected_variables |-> Listed(ListOf(Text)),
   constraint_expression |-> Required(Text), enforcement_level |-> Required(Level),
   error_message |-> Required(Text), correction_hint |-> Optional(Text)])
Event == Part(
  [event_id |-> Required(Text), event_type |-> Required(Text),
   timestamp |-> Required(Real), priority |-> Required(Integer),
   trigger_condition |-> Otherwise(Text, ""), description |-> Required(Text),
   event_payload |-> Filled(MapOf(Text))])
Criterion == Part(
  [criterion_id |-> Required(Text), metric_name |-> Required(Text),
   aggregation_method |-> Required(Text), input_variables |-> Listed(ListOf(Text)),
   target_value |-> Optional(Real), threshold_min |-> Optional(Real),
   threshold_max |-> Optional(Real), description |-> Required(Text)])
Metadata == Part(
  [author |-> Required(Text), created_date |-> Required(Text),
   modified_date |-> Required(Text), version |-> Required(Text),
   custom_fields |-> Filled(MapOf(Text))])

AgentWorld == Part(
  [duration |-> Required(Real), time_unit |-> Required(Text),
   map_width |-> Required(Real), map_height |-> Required(Real),
   default_walking_speed |-> Required(Real), max_event_count |-> Required(Size)])
Location == Part(
  [location_id |-> Required(Text), location_type |-> Required(Text),
   x |-> Required(Real), y |-> Required(Real)])
Good == Part(
  [item_id |-> Required(Text), category |-> Required(Text),
   tags |-> Listed(ListOf(Text)), base_appeal |-> Required(Real)])
Inventory == Part(
  [item_id |-> Required(Text), price |-> Required(Real), stock |-> Required(Integer)])
Shop == Part(
  [shop_id |-> Required(Text), location_ref |-> Required(Text),
   inventory |-> Listed(ListOf(Inventory)), service_time |-> Required(Real),
   queue_capacity |-> Required(Integer)])
Agent == Part(
  [agent_id |-> Required(Text), start_location_ref |-> Required(Text),
   budget |-> Required(Real), movement_speed |-> Required(Real),
   hunger |-> Otherwise(Real, "0"), social_susceptibility |-> Otherwise(Real, "0"),
   memory_slots |-> Otherwise(Size, "8"), policy_ref |-> Filled(Text),
   traits |-> Listed(MapOf(Real)), preferences |-> Listed(MapOf(Real))])
Policy == Part(
  [policy_id |-> Required(Text), movement_policy |-> Otherwise(Text, "default"),
   observation_policy |-> Otherwise(Text, "default"),
   conversation_policy |-> Otherwise(Text, "default"),
   purchase_policy |-> Otherwise(Text, "default")])
AgentLayer == Part(
  [world |-> Required(AgentWorld), locations |-> Listed(ListOf(Location)),
   items |-> Listed(ListOf(Good)), shops |-> Listed(ListOf(Shop)),
   agents |-> Listed(ListOf(Agent)), policies |-> Listed(ListOf(Policy))])

TypedWorld == Part(
  [duration |-> Required(Real), time_unit |-> Otherwise(Text, "ticks"),
   max_event_count |-> Otherwise(Size, "100000"), tick_interval |-> Optional(Real)])
ComponentType == Part(
  [component_type_id |-> Required(Text), fields |-> Required(Table(FieldType))])
EntityType == Part(
  [entity_type_id |-> Required(Text), components |-> Listed(ListOf(Text))])
TypedEntity == Part(
  [entity_id |-> Required(Text), entity_type |-> Required(Text),
   components |-> Listed(Components)])
RelationType == Part(
  [relation_type_id |-> Required(Text), directed |-> Otherwise(Flag, "false"),
   max_per_entity |-> Optional(Size), max_total |-> Optional(Size),
   payload_fields |-> Filled(Table(FieldType))])
Relation == Part(
  [relation_type |-> Required(Text), source |-> Required(Text),
   target |-> Required(Text), expires_at |-> Optional(Real),
   payload |-> Filled(Payload("relation_type", "relation_types", "relation_type_id"))])
EventType == Part(
  [event_type_id |-> Required(Text), payload_fields |-> Filled(Table(FieldType))])
InitialEvent == Part(
  [event_type |-> Required(Text), timestamp |-> Required(Real),
   priority |-> Otherwise(Integer, "0"), event_handle |-> Filled(Text),
   payload |-> Filled(Payload("event_type", "event_types", "event_type_id"))])
SystemWrite == Part(
  [target |-> Required(Text), expr |-> Required(Text), when |-> Optional(Text)])
CreateRelation == Part(
  [relation_type |-> Required(Text), source |-> Required(Text),
   target |-> Required(Text), expires_after |-> Optional(Text),
   payload |-> Filled(Table(Text)), when |-> Optional(Text)])
EmitEvent == Part(
  [event_type |-> Required(Text), timestamp |-> Optional(Text),
   priority |-> Otherwise(Integer, "0"), payload |-> Filled(Table(Text)),
   when |-> Optional(Text)])
TypedSystem == Part(
  [system_id |-> Required(Text), triggered_by |-> Listed(ListOf(Text)),
   kind |-> Otherwise(Text, "per_entity"), entity_type |-> Optional(Text),
   relation_type |-> Optional(Text), where |-> Optional(Text),
   writes |-> Filled(ListOf(SystemWrite)),
   create_relations |-> Filled(ListOf(CreateRelation)),
   emit_events |-> Filled(ListOf(EmitEvent))])
TypedLayer == Part(
  [world |-> Required(TypedWorld), component_types |-> Listed(ListOf(ComponentType)),
   entity_types |-> Listed(ListOf(EntityType)), entities |-> Listed(ListOf(TypedEntity)),
   relation_types |-> Listed(ListOf(RelationType)), relations |-> Listed(ListOf(Relation)),
   event_types |-> Listed(ListOf(EventType)),
   initial_events |-> Listed(ListOf(InitialEvent)), systems |-> Listed(ListOf(TypedSystem))])

Scenario == Part(
  [scenario_id |-> Required(Text), schema_version |-> Required(Text),
   master_seed |-> Required(Of("seed")), goal_statement |-> Required(Of("goal")),
   assumptions |-> Listed(ListOf(Assumption)), entities |-> Listed(ListOf(Entity)),
   variables |-> Listed(ListOf(Variable)), dependency_edges |-> Listed(ListOf(Edge)),
   constraints |-> Listed(ListOf(Constraint)), events |-> Listed(ListOf(Event)),
   agent_layer |-> Optional(AgentLayer), typed_layer |-> Optional(TypedLayer),
   evaluation_criteria |-> Listed(ListOf(Criterion)), metadata |-> Optional(Metadata)])

-----------------------------------------------------------------------------
(***************************************************************************)
(* Scalars.                                                                *)
(***************************************************************************)
\* as<T> of yaml-cpp, std::stoll and std::stod, and the names of enumerations.
\* Texts and names are read with as<std::string>.
Names == {"level", "variableType", "fieldType"}
TextReaders == {"text", "goal"} \cup Names
Readers == {"integer", "unsigned", "seed", "real", "flag", "stoll", "stod"} \cup Names

\* What the emitter prints for a double that is no number.
NotNumbers == {".nan", ".inf", "-.inf"}

Take(reader, text) ==
  IF reader \in {"text", "goal"} THEN {text}
  ELSE IF text \in DOMAIN Taken[reader] THEN {Taken[reader][text]} ELSE {}

\* Reading what is printed gives the same value again, but for what std::stod
\* takes and the emitter prints in YAML's way, and for the seeds that wrap.
ASSUME TextAssumption ==
  /\ DOMAIN Taken = Readers
  /\ \A reader \in Readers \ {"stod"} : \A text \in DOMAIN Taken[reader] :
       Take(reader, Taken[reader][text]) = {Taken[reader][text]}
  /\ \A reader \in Names : \A text \in DOMAIN Taken[reader] : Taken[reader][text] = text
  /\ \A text \in DOMAIN Taken["stod"] :
       Taken["stod"][text] \notin NotNumbers =>
         Take("stod", Taken["stod"][text]) = {Taken["stod"][text]}
  /\ NotNumbers \cap DOMAIN Taken["stod"] = {}
  /\ \A reader \in Readers \ Names : "null" \notin DOMAIN Taken[reader]
  /\ \A seed \in DOMAIN Wrapped : Wrapped[seed] \notin DOMAIN Taken["seed"]
  /\ \A text \in DOMAIN LineEnded : LineEnded[text] \notin DOMAIN LineEnded
  /\ \A reader \in {"integer", "real", "stoll", "stod"} : Take(reader, "0") = {"0"}
  /\ \A size \in {"8", "100000"} : Take("unsigned", size) = {size}
  /\ Take("flag", "false") = {"false"}

\* master_seed is cast to int64_t; goal_statement is a literal block.
Printed(reader, value) ==
  CASE reader = "seed" /\ value \in DOMAIN Wrapped -> Wrapped[value]
    [] reader = "goal" /\ value \in DOMAIN LineEnded -> LineEnded[value]
    [] OTHER -> value

\* A variant: its alternative, and its text or texts.
Variant(is, taken) == {[is |-> is, texts |-> <<text>>] : text \in taken}

ParseScalarValue(text, type) ==
  CASE type = "INTEGER" -> Variant("int64_t", Take("stoll", text))
    [] type = "FLOAT" -> Variant("double", Take("stod", text))
    [] type = "BOOLEAN" ->
         Variant("bool", {IF text \in {"true", "1", "yes"} THEN "true" ELSE "false"})
    [] OTHER -> Variant("string", {text})

ParseTypedScalar(text, type) ==
  LET typed == CASE type = "INTEGER" -> Variant("int64_t", Take("integer", text))
                 [] type = "FLOAT" -> Variant("double", Take("real", text))
                 [] type = "BOOLEAN" -> Variant("bool", Take("flag", text))
                 [] OTHER -> {}
  IN  IF typed = {} THEN Variant("string", {text}) ELSE typed

\* component_field_types, relation_payload_types, event_payload_types: of two
\* declarations with one id and field the later one holds.
DeclaredType(layer, list, id, fields, name, field) ==
  LET declared == ItemsOf(At(layer, list))
      found == {i \in DOMAIN declared :
                  /\ TextOf(At(declared[i], id)) = name
                  /\ At(At(declared[i], fields), field) # Missing}
      last == CHOOSE i \in found : \A j \in found : j <= i
  IN  IF found = {} THEN "STRING"
      ELSE TextOf(At(At(declared[last], fields), field))

-----------------------------------------------------------------------------
(***************************************************************************)
(* Reading.  around is the part that a value is in, layer the typed layer  *)
(* of the document.                                                        *)
(***************************************************************************)
\* The struct or container whose members are read one by one: none if one of
\* them throws.
Whole(reads) ==
  IF \E x \in DOMAIN reads : reads[x] = {} THEN {}
  ELSE {Computed([x \in DOMAIN reads |-> CHOOSE value \in reads[x] : TRUE])}

\* What the declared type refuses is kept as a text, and so is null.
ReadTyped(node, type) ==
  IF HasText(node) THEN ParseTypedScalar(TextOf(node), type) ELSE {}

\* Neither a scalar nor a sequence: the variant keeps the int64_t 0 it began as.
ReadDefault(node, type) ==
  CASE node.node = "scalar" -> ParseScalarValue(node.text, type)
    [] node.node = "sequence" ->
         IF \A i \in DOMAIN node.items : HasText(node.items[i])
         THEN {[is |-> "strings", texts |-> [i \in DOMAIN node.items |-> TextOf(node.items[i])]]}
         ELSE {}
    [] OTHER -> Variant("int64_t", {"0"})

\* A component without values leaves no trace.
ReadComponents(node, layer) ==
  IF node.node # "map" \/ (\E c \in DOMAIN node.at : node.at[c].node # "map") THEN {}
  ELSE Whole([c \in {d \in DOMAIN node.at : DOMAIN node.at[d].at # {}} |->
         Whole([f \in DOMAIN node.at[c].at |->
                  ReadTyped(node.at[c].at[f],
                            DeclaredType(layer, "component_types", "component_type_id",
                                         "fields", c, f))])])

ReadPayload(kind, node, around, layer) ==
  IF node.node # "map" THEN {}
  ELSE Whole([f \in DOMAIN node.at |->
         ReadTyped(node.at[f],
                   DeclaredType(layer, kind.list, kind.id, "payload_fields",
                                TextOf(At(around, kind.ref)), f))])

Readable(reader, node) ==
  IF reader \in TextReaders THEN HasText(node) ELSE node.node = "scalar"

\* What is no list, map, table or part.
ReadLeaf(kind, node, around, layer) ==
  LET type == TextOf(At(around, "type"))
  IN  CASE kind.kind = "scalar" ->
             IF Readable(kind.reader, node)
             THEN Take(kind.reader, TextOf(node)) ELSE {}
        [] kind.kind = "default" -> ReadDefault(node, type)
        [] kind.kind = "bound" ->
             IF HasText(node) THEN ParseScalarValue(TextOf(node), type) ELSE {}
        [] kind.kind = "components" -> ReadComponents(node, layer)
        [] kind.kind = "payload" -> ReadPayload(kind, node, around, layer)

\* A range-for over a node: only a sequence has items, only a map has entries;
\* a scalar and null have neither.
ReadList(Read(_, _, _, _), kind, node, layer) ==
  IF node.node = "map" /\ DOMAIN node.at # {} THEN {}
  ELSE Whole([i \in DOMAIN ItemsOf(node) |-> Read(kind, ItemsOf(node)[i], Null, layer)])

ReadMap(Read(_, _, _, _), kind, node) ==
  CASE node.node = "map" ->
         Whole([key \in DOMAIN node.at |-> Read(kind, node.at[key], node, Null)])
    [] node.node = "sequence" /\ node.items # <<>> -> {}
    [] OTHER -> {<<>>}

ReadField(Read(_, _, _, _), kind, node, around, layer) ==
  CASE kind.kind = "list" -> ReadList(Read, kind.of, node, layer)
    [] kind.kind = "map" -> ReadMap(Read, kind.of, node)
    [] kind.kind = "table" ->
         IF node.node = "map" THEN ReadMap(Read, kind.of, node) ELSE {}
    [] OTHER -> Read(kind, node, around, layer)

\* validate_allowed_keys, and the fields one by one.
ReadPart(Read(_, _, _, _), kind, node, around, layer) ==
  IF kind.kind # "part" THEN ReadLeaf(kind, node, around, layer)
  ELSE IF node.node # "map" THEN {}
  ELSE IF ~(DOMAIN node.at \subseteq DOMAIN kind.fields) THEN {}
  ELSE Whole([key \in DOMAIN kind.fields |->
         IF key \in DOMAIN node.at
         THEN ReadField(Read, kind.fields[key].kind, node.at[key], node, layer)
         ELSE kind.fields[key].missing])

Read1(kind, node, around, layer) == ReadPart(ReadLeaf, kind, node, around, layer)
Read2(kind, node, around, layer) == ReadPart(Read1, kind, node, around, layer)
Read3(kind, node, around, layer) == ReadPart(Read2, kind, node, around, layer)
Read4(kind, node, around, layer) == ReadPart(Read3, kind, node, around, layer)

Deserialize(root) == Read4(Scenario, root, Null, At(root, "typed_layer"))

-----------------------------------------------------------------------------
(***************************************************************************)
(* Writing.                                                                *)
(***************************************************************************)
\* The bug of forgetting what is optional.
IsWrittenUnlessOptional(field, value) ==
  /\ field.written # "given"
  /\ field.written = "filled" => value # Empty(field.kind)

IsWritten(field, value) ==
  CASE field.written = "always" -> TRUE
    [] field.written = "given" -> value # Nothing
    [] field.written = "filled" /\ field.kind.kind = "scalar" -> value # ""
    [] OTHER -> DOMAIN value # {}

WriteVariant(value) ==
  IF value.is = "strings"
  THEN Sequence([i \in DOMAIN value.texts |-> Scalar(value.texts[i])])
  ELSE Scalar(value.texts[1])

WriteLeaf(kind, value) ==
  CASE kind.kind = "scalar" -> Scalar(Printed(kind.reader, value))
    [] kind.kind \in {"default", "bound"} -> WriteVariant(value)
    [] kind.kind = "components" ->
         Map([c \in DOMAIN value |->
                Map([f \in DOMAIN value[c] |-> WriteVariant(value[c][f])])])
    [] kind.kind = "payload" ->
         Map([f \in DOMAIN value |-> WriteVariant(value[f])])

WriteField(Write(_, _), kind, value) ==
  CASE kind.kind = "list" ->
         Sequence([i \in DOMAIN value |-> Write(kind.of, value[i])])
    [] kind.kind \in {"map", "table"} ->
         Map([key \in DOMAIN value |-> Write(kind.of, value[key])])
    [] OTHER -> Write(kind, value)

WritePart(Write(_, _), kind, value) ==
  IF kind.kind # "part" THEN WriteLeaf(kind, value)
  ELSE Map([key \in {k \in DOMAIN kind.fields : IsWritten(kind.fields[k], value[k])} |->
              WriteField(Write, kind.fields[key].kind, value[key])])

Write1(kind, value) == WritePart(WriteLeaf, kind, value)
Write2(kind, value) == WritePart(Write1, kind, value)
Write3(kind, value) == WritePart(Write2, kind, value)
Write4(kind, value) == WritePart(Write3, kind, value)

Serialize(scenario) == Write4(Scenario, scenario)
=============================================================================
