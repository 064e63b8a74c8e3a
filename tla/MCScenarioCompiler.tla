------------------------- MODULE MCScenarioCompiler -------------------------
(***************************************************************************)
(* Small scenarios for TLC: a good scenario of each kind, every scenario   *)
(* that one or two edits make of it, and the v1 scenario with other        *)
(* dependency graphs and other constraints.                                *)
(***************************************************************************)
EXTENDS ScenarioCompiler

At(var, op, bound) == [var |-> var, op |-> op, bound |-> bound]
Field(name, type) == [name |-> name, type |-> type]
FieldValue(name, type, v) == [name |-> name, type |-> type, value |-> v]

Bare ==
  [goal |-> "long", scenario_id |-> "s", schema_version |-> <<1, 1, 1>>,
   assumptions |-> <<[id |-> "a1", description |-> "d"],
                     [id |-> "a2", description |-> "d"]>>,
   entities |-> <<>>, variables |-> <<>>, dependency_edges |-> <<>>,
   constraints |-> <<>>, events |-> <<>>, evaluation_criteria |-> <<>>,
   agent_layer |-> None,
   locations |-> <<>>, items |-> <<>>, policies |-> <<>>, shops |-> <<>>,
   agents |-> <<>>,
   typed_layer |-> None,
   component_types |-> <<>>, entity_types |-> <<>>, typed_entities |-> <<>>,
   relation_types |-> <<>>, relations |-> <<>>, event_types |-> <<>>,
   initial_events |-> <<>>, systems |-> <<>>]

Variable(id, type) ==
  [id |-> id, entity_ref |-> "", type |-> type, enum_values |-> {},
   default_type |-> type, default_value |-> 1]
EdgeOf(id, source, target) ==
  [id |-> id, source |-> source, target |-> target, fn |-> "additive"]

Core ==
  [Bare EXCEPT
     !.entities = <<[id |-> "e1", entity_type |-> "t"],
                    [id |-> "e2", entity_type |-> "t"]>>,
     !.variables = <<[Variable("x", "FLOAT") EXCEPT !.entity_ref = "e2"],
                     Variable("y", "INTEGER"), Variable("z", "FLOAT")>>,
     !.dependency_edges = <<EdgeOf("g1", "x", "y"), EdgeOf("g2", "y", "z"),
                            EdgeOf("g3", "x", "z")>>,
     !.constraints = <<[id |-> "c1", affected |-> <<"x", "y">>,
                        expression |-> <<<<At("x", ">=", 1)>>>>]>>,
     !.events = <<[id |-> "ev1", event_type |-> "SCHEDULED", timestamp |-> 1,
                   priority |-> 0, trigger_condition |-> ""],
                  [id |-> "ev2", event_type |-> "TRIGGERED", timestamp |-> 1,
                   priority |-> 0, trigger_condition |-> "t"]>>,
     !.evaluation_criteria = <<[id |-> "k1", inputs |-> <<"z">>]>>]

Agent ==
  [Core EXCEPT
     !.agent_layer = [duration |-> 9, max_event_count |-> 9,
                      default_walking_speed |-> 1],
     !.locations = <<[id |-> "l1", x |-> 0, y |-> 0],
                     [id |-> "l2", x |-> 1, y |-> 0]>>,
     !.items = <<[id |-> "i1", base_appeal |-> 1]>>,
     !.policies = <<[id |-> "p1"]>>,
     !.shops = <<[id |-> "h1", location_ref |-> "l2", service_time |-> 1,
                  queue_capacity |-> 1,
                  inventory |-> <<[item_id |-> "i1", price |-> 1,
                                   stock |-> 1]>>]>>,
     !.agents = <<[id |-> "n1", start_location_ref |-> "l1",
                   policy_ref |-> "p1", budget |-> 1, movement_speed |-> 1,
                   hunger |-> 0, susceptibility |-> 0]>>]

Typed ==
  [Bare EXCEPT
     !.typed_layer = [duration |-> 9, max_event_count |-> 9,
                      tick_interval |-> None],
     !.component_types = <<[id |-> "hp", fields |-> <<Field("now", "INTEGER")>>],
                           [id |-> "pos", fields |-> <<Field("x", "FLOAT"),
                                                      Field("y", "FLOAT")>>]>>,
     !.entity_types = <<[id |-> "unit", components |-> <<"hp", "pos">>],
                        [id |-> "post", components |-> <<"pos">>]>>,
     !.typed_entities =
        <<[id |-> "n1", entity_type_ref |-> "post",
           components |-> {[id |-> "pos",
                            fields |-> {FieldValue("x", "FLOAT", 7)}]}],
          [id |-> "n2", entity_type_ref |-> "unit",
           components |-> {[id |-> "hp",
                            fields |-> {FieldValue("now", "INTEGER", 8)}],
                           [id |-> "pos",
                            fields |-> {FieldValue("y", "FLOAT", 9)}]}]>>,
     !.relation_types = <<[id |-> "near", max_per_entity |-> 2,
                           max_total |-> None,
                           fields |-> <<Field("d", "FLOAT")>>]>>,
     !.relations = <<[type_ref |-> "near", source |-> "n1", target |-> "n2",
                      expires_at |-> None,
                      payload |-> {FieldValue("d", "FLOAT", 1)}]>>,
     !.event_types = <<[id |-> "go", fields |-> <<Field("k", "INTEGER")>>]>>,
     !.initial_events = <<[type_ref |-> "go", timestamp |-> 9,
                           payload |-> {FieldValue("k", "INTEGER", 1)}]>>,
     !.systems =
        <<[id |-> "s1", triggered_by |-> <<"go">>, kind |-> "pair",
           entity_type_ref |-> "unit", relation_type_ref |-> None,
           writes |-> <<<<"hp", "now">>, <<"self", "pos", "x">>>>,
           create_relations |-> <<[type_ref |-> "near", source |-> "self",
                                   target |-> "other", payload |-> {"d"}]>>,
           emit_events |-> <<[type_ref |-> "go", payload |-> {"k"}]>>]>>]

-----------------------------------------------------------------------------
(***************************************************************************)
(* Edits: one field of an element gets another value, a list is emptied,   *)
(* or an element is added once more.                                       *)
(***************************************************************************)
Set(s, list_, k, field, v) ==
  IF k \in DOMAIN s[list_] THEN [s EXCEPT ![list_][k][field] = v] ELSE s
Top_(s, field, v) == [s EXCEPT ![field] = v]
Empty(s, list_) == [s EXCEPT ![list_] = <<>>]
Twice(s, list_) == [s EXCEPT ![list_] = Append(@, Head(@))]

HeaderEdits(s) ==
  {Top_(s, "goal", "empty"), Top_(s, "goal", "short"),
   Top_(s, "scenario_id", ""), Top_(s, "schema_version", <<1, 0, 1>>),
   Top_(s, "schema_version", <<1, 1>>)}
  \cup {Empty(s, l) : l \in CoreLists}
  \cup {Twice(s, l) : l \in {m \in CoreLists : s[m] # <<>>}}
  \cup {Set(s, "assumptions", 2, "description", "")}

CoreEdits(s) ==
  HeaderEdits(s) \cup
  {Set(s, "entities", 1, "entity_type", ""),
   Set(s, "entities", 2, "id", "e3"),
   Set(s, "variables", 1, "entity_ref", "e1"),
   Set(s, "variables", 3, "type", "ENUM"),
   Set(s, "variables", 3, "enum_values", {"on"}),
   Set(s, "variables", 3, "type", "STRING"),
   Set(s, "variables", 2, "id", "x"),
   Set(s, "variables", 1, "default_value", 0),
   Set(s, "variables", 1, "default_type", "STRING"),
   Set(s, "dependency_edges", 2, "target", "q"),
   Set(s, "dependency_edges", 1, "source", "y"),
   Set(s, "dependency_edges", 3, "source", "z"),
   Set(s, "dependency_edges", 3, "target", "y"),
   Set(s, "dependency_edges", 1, "fn", "mystery"),
   Set(s, "constraints", 1, "affected", <<"x", "q">>),
   Set(s, "constraints", 1, "expression", <<>>),
   Set(s, "events", 1, "timestamp", -1), Set(s, "events", 2, "timestamp", -1),
   Set(s, "events", 1, "timestamp", NaN), Set(s, "events", 2, "priority", 1),
   Set(s, "events", 1, "event_type", "PERIODIC"),
   Set(s, "events", 1, "event_type", "CONDITIONAL"),
   Set(s, "evaluation_criteria", 1, "inputs", <<"z", "q">>),
   Set(s, "evaluation_criteria", 1, "inputs", <<>>)}

AgentEdits(s) ==
  {Empty(s, l) : l \in AgentLists}
  \cup {Twice(s, l) : l \in {m \in AgentLists : s[m] # <<>>}}
  \cup {Set(s, l, 1, "id", "") : l \in AgentLists}
  \cup {Top_(s, "agent_layer", [s.agent_layer EXCEPT !.duration = 0]),
        Top_(s, "agent_layer", [s.agent_layer EXCEPT !.max_event_count = 0]),
        Set(s, "locations", 1, "x", NaN), Set(s, "items", 1, "base_appeal", -1),
        Set(s, "shops", 1, "location_ref", "q"),
        Set(s, "shops", 1, "service_time", NaN),
        Set(s, "shops", 1, "inventory", <<>>),
        Set(s, "shops", 1, "inventory",
            <<[item_id |-> "i1", price |-> 1, stock |-> 1],
              [item_id |-> "q", price |-> 1, stock |-> 1]>>),
        Set(s, "shops", 1, "inventory",
            <<[item_id |-> "i1", price |-> 1, stock |-> -1]>>),
        Set(s, "agents", 1, "start_location_ref", "q"),
        Set(s, "agents", 1, "policy_ref", ""),
        Set(s, "agents", 1, "policy_ref", "q"),
        Set(s, "agents", 1, "hunger", -1)}

TypedEdits(s) ==
  {Empty(s, l) : l \in TypedLists}
  \cup {Twice(s, l) : l \in {m \in TypedLists : s[m] # <<>>}}
  \cup {Set(s, l, 1, "id", "") : l \in TypedLists \ Anonymous}
  \cup {Set(s, l, 1, "id", "q") : l \in TypedLists \ Anonymous}
  \cup {Set(s, l, 1, "payload", {FieldValue("x", "FLOAT", 1)}) : l \in Anonymous}
  \cup {Set(s, l, 1, "type_ref", "q") : l \in Anonymous}
  \cup {Top_(s, "agent_layer", [duration |-> 9, max_event_count |-> 9,
                               default_walking_speed |-> 1]),
        Top_(s, "typed_layer", [s.typed_layer EXCEPT !.tick_interval = 0]),
        Top_(s, "typed_layer", [s.typed_layer EXCEPT !.duration = 8]),
        Top_(s, "dependency_edges", <<[EdgeOf("g1", "q", "q") EXCEPT
                                        !.fn = "mystery"]>>),
        Top_(s, "variables", <<Variable("x", "LIST")>>),
        Set(s, "component_types", 2, "fields", <<Field("y", "FLOAT")>>),
        Set(s, "component_types", 2, "fields", <<Field("x", "INTEGER"),
                                                 Field("y", "FLOAT")>>),
        Set(s, "component_types", 2, "fields", <<Field("x", "FLOAT"),
                                                 Field("x", "FLOAT")>>),
        Set(s, "entity_types", 1, "components", <<"pos", "hp", "pos">>),
        Set(s, "entity_types", 1, "components", <<"pos">>),
        Set(s, "entity_types", 2, "components", <<"pos", "pos">>),
        Set(s, "typed_entities", 1, "entity_type_ref", "unit"),
        Set(s, "typed_entities", 1, "components", {}),
        Set(s, "relation_types", 1, "max_per_entity", 0),
        Set(s, "relation_types", 1, "fields", <<>>),
        Set(s, "relations", 1, "target", "q"),
        Set(s, "relations", 1, "expires_at", NaN),
        Set(s, "event_types", 1, "fields", <<>>),
        Set(s, "systems", 1, "kind", "per_entity"),
        Set(s, "systems", 1, "kind", "per_relation"),
        Set(s, "systems", 1, "relation_type_ref", "near"),
        Set(s, "systems", 1, "relation_type_ref", "q"),
        Set(s, "systems", 1, "entity_type_ref", None),
        Set(s, "systems", 1, "triggered_by", <<"go", "q">>),
        Set(s, "systems", 1, "writes", <<<<"other", "hp", "now">>>>),
        Set(s, "systems", 1, "writes", <<<<"q", "hp", "now">>>>),
        Set(s, "systems", 1, "writes", <<<<"hp", "x">>>>),
        Set(s, "systems", 1, "writes", <<<<"now">>>>),
        Set(s, "systems", 1, "create_relations",
            <<[type_ref |-> "near", source |-> "q", target |-> "other",
               payload |-> {}]>>),
        Set(s, "systems", 1, "emit_events",
            <<[type_ref |-> "q", payload |-> {}]>>)}

OneOrTwo(s, Edits(_)) == {s} \cup Edits(s) \cup UNION {Edits(t) : t \in Edits(s)}

-----------------------------------------------------------------------------
(***************************************************************************)
(* Other dependency graphs and other constraints for the v1 scenario.      *)
(***************************************************************************)
Seqs == INSTANCE SequencesExt
Sets == INSTANCE FiniteSetsExt

Arrows == {a \in {"x", "y", "z", "w"} \X {"x", "y", "z", "w"} : a[1] # a[2]}

EdgesOf(arrows) ==
  LET ordered == Seqs!SetToSeq(arrows)
      ids == <<"g1", "g2", "g3", "g4">>
  IN  [k \in DOMAIN ordered |-> EdgeOf(ids[k], ordered[k][1], ordered[k][2])]

Graphs ==
  {[Core EXCEPT !.variables = Append(@, Variable("w", "FLOAT")),
                !.dependency_edges = EdgesOf(arrows)] :
     arrows \in UNION {Sets!kSubset(k, Arrows) : k \in 1..4}}

Comparisons == {At("x", ">=", 1), At("y", "<", 1), At("q", ">", 0)}
Conjunctions == UNION {[1..k -> Comparisons] : k \in 1..2}

Constrained ==
  {Set(Set(Core, "constraints", 1, "expression", expression),
       "variables", 1, "default_value", d) :
     expression \in UNION {[1..k -> Conjunctions] : k \in 1..2}, d \in {0, 1}}

-----------------------------------------------------------------------------
MCScenarios ==
  UNION {OneOrTwo(Core, CoreEdits), OneOrTwo(Agent, AgentEdits),
         OneOrTwo(Typed, LAMBDA s : HeaderEdits(s) \cup TypedEdits(s)),
         Graphs, Constrained}
MCRegistered == {"additive"}
MCHandleRank == [ev1 |-> 1, ev2 |-> 2]
=============================================================================
