----------------------------- MODULE GateChecks -----------------------------
(***************************************************************************)
(* What ScenarioValidator (src/validation/scenario_validator.cpp) asks of  *)
(* one element of a scenario.  A scenario is a record: a list of elements  *)
(* for every section of the document, and for each of the two optional     *)
(* layers the world of the layer, or None.  An element has the fields the  *)
(* checks look at.  A text is compared with the empty text and with other  *)
(* texts, never taken apart, and doubles are integers, with NaN for a      *)
(* value that is not finite.                                               *)
(***************************************************************************)
EXTENDS Integers, Sequences

CONSTANTS
  None,  \* an optional value that is absent
  NaN    \* a double that is no finite number

ElementsOf(seq) == {seq[k] : k \in DOMAIN seq}
Ids(s, list) == {e.id : e \in ElementsOf(s[list])}

\* A map from ids to elements that is filled in the order of the list.
Element(s, list, id) ==
  LET k == CHOOSE k \in DOMAIN s[list] :
             /\ s[list][k].id = id
             /\ \A j \in DOMAIN s[list] : j > k => s[list][j].id # id
  IN  s[list][k]

NonNegative(x) == x # NaN /\ x >= 0
Positive(x) == x # NaN /\ x > 0
Given(x, test) == x # None => test

-----------------------------------------------------------------------------
(***************************************************************************)
(* The variable scenarios of the first version.                            *)
(***************************************************************************)
SoundAssumption(e) == e.description # ""

SoundEntity(e) == e.entity_type # ""

SoundVariable(s, e) ==
  /\ e.entity_ref # "" => e.entity_ref \in Ids(s, "entities")
  /\ e.type = "ENUM" => e.enum_values # {}

\* The bug of looking up the source twice.
SoundEdgeSourceOnly(s, e) ==
  /\ e.source \in Ids(s, "variables")
  /\ e.source # e.target

SoundEdge(s, e) ==
  /\ {e.source, e.target} \subseteq Ids(s, "variables")
  /\ e.source # e.target

SoundConstraint(s, e) ==
  /\ e.affected # <<>>
  /\ ElementsOf(e.affected) \subseteq Ids(s, "variables")
  /\ e.expression # <<>>

\* A comparison with NaN is false, so that a timestamp that is NaN passes.
SoundEvent(e) ==
  /\ e.event_type \in {"SCHEDULED", "TRIGGERED", "CONDITIONAL"}
  /\ (e.event_type = "SCHEDULED" /\ e.timestamp # NaN) => e.timestamp >= 0
  /\ e.event_type # "SCHEDULED" => e.trigger_condition # ""

SoundCriterion(s, e) ==
  /\ e.inputs # <<>>
  /\ ElementsOf(e.inputs) \subseteq Ids(s, "variables")

-----------------------------------------------------------------------------
(***************************************************************************)
(* The agent layer.                                                        *)
(***************************************************************************)
SoundAgentWorld(w) ==
  /\ Positive(w.duration)
  /\ w.max_event_count # 0
  /\ NonNegative(w.default_walking_speed)

SoundLocation(e) == NaN \notin {e.x, e.y}

SoundItem(e) == NonNegative(e.base_appeal)

SoundShop(s, e) ==
  /\ e.location_ref \in Ids(s, "locations")
  /\ NonNegative(e.service_time)
  /\ e.queue_capacity >= 0
  /\ \A slot \in ElementsOf(e.inventory) :
       /\ slot.item_id \in Ids(s, "items")
       /\ NonNegative(slot.price)
       /\ slot.stock >= 0

SoundAgent(s, e) ==
  /\ e.start_location_ref \in Ids(s, "locations")
  /\ e.policy_ref # "" => e.policy_ref \in Ids(s, "policies")
  /\ \A x \in {e.budget, e.movement_speed, e.hunger, e.susceptibility} :
       NonNegative(x)

-----------------------------------------------------------------------------
(***************************************************************************)
(* The typed layer.  A field is declared with a name and a type, and a     *)
(* value that is given for it has the type of its YAML scalar.             *)
(***************************************************************************)
SoundTypedWorld(w) ==
  /\ Positive(w.duration)
  /\ w.max_event_count # 0
  /\ Given(w.tick_interval, Positive(w.tick_interval))

\* Field names: none is empty and none is declared twice.
SoundFields(fields) ==
  /\ \A k \in DOMAIN fields : fields[k].name # ""
  /\ \A j, k \in DOMAIN fields : fields[j].name = fields[k].name => j = k

FieldNames(fields) == {f.name : f \in ElementsOf(fields)}

\* typed_scalar_matches for every field that is given a value.
Matching(given, fields) ==
  \A v \in given :
    \E f \in ElementsOf(fields) : f.name = v.name /\ f.type = v.type


SoundComponentType(e) == e.fields # <<>> /\ SoundFields(e.fields)

SoundEntityType(s, e) ==
  /\ e.components # <<>>
  /\ ElementsOf(e.components) \subseteq Ids(s, "component_types")

SoundTypedEntity(s, e) ==
  /\ e.entity_type_ref \in Ids(s, "entity_types")
  /\ LET declared == Element(s, "entity_types", e.entity_type_ref).components
     IN \A c \in e.components :
          /\ c.id \in Ids(s, "component_types")
          /\ c.id \in ElementsOf(declared)
          /\ Matching(c.fields, Element(s, "component_types", c.id).fields)

SoundRelationType(e) ==
  /\ 0 \notin {e.max_per_entity, e.max_total}
  /\ SoundFields(e.fields)

SoundRelation(s, e) ==
  /\ e.type_ref \in Ids(s, "relation_types")
  /\ {e.source, e.target} \subseteq Ids(s, "typed_entities")
  /\ e.expires_at # NaN
  /\ Matching(e.payload, Element(s, "relation_types", e.type_ref).fields)

SoundEventType(e) == SoundFields(e.fields)

SoundInitialEvent(s, e) ==
  /\ e.type_ref \in Ids(s, "event_types")
  /\ NonNegative(e.timestamp)
  /\ e.timestamp <= s.typed_layer.duration
  /\ Matching(e.payload, Element(s, "event_types", e.type_ref).fields)

-----------------------------------------------------------------------------
(***************************************************************************)
(* Systems of the typed layer.  The target of a write is a path of two or  *)
(* three parts; only the systems of kind per_entity are asked which role   *)
(* the first of three parts names.                                         *)
(***************************************************************************)
SoundWrite(s, kind, target) ==
  /\ Len(target) \in {2, 3}
  /\ (Len(target) = 3 /\ kind = "per_entity") => target[1] = "self"
  /\ LET component == target[Len(target) - 1]
     IN /\ component \in Ids(s, "component_types")
        /\ target[Len(target)] \in
             FieldNames(Element(s, "component_types", component).fields)

SoundCreate(s, c) ==
  /\ c.type_ref \in Ids(s, "relation_types")
  /\ {c.source, c.target} \subseteq {"self", "other"}
  /\ c.payload \subseteq
       FieldNames(Element(s, "relation_types", c.type_ref).fields)

\* The bug of looking an emitted event up among the relations.
SoundEmitAnything(s, m) ==
  m.payload \subseteq UNION {FieldNames(t.fields) : t \in ElementsOf(s.event_types)}

SoundEmit(s, m) ==
  /\ m.type_ref \in Ids(s, "event_types")
  /\ m.payload \subseteq FieldNames(Element(s, "event_types", m.type_ref).fields)

SoundSystem(s, e) ==
  /\ e.triggered_by # <<>>
  /\ ElementsOf(e.triggered_by) \subseteq Ids(s, "event_types")
  /\ e.kind \in {"per_entity", "pair", "per_relation"}
  /\ e.kind \in {"per_entity", "pair"} => e.entity_type_ref # None
  /\ e.kind = "per_relation" => e.relation_type_ref # None
  /\ Given(e.entity_type_ref, e.entity_type_ref \in Ids(s, "entity_types"))
  /\ Given(e.relation_type_ref,
           e.relation_type_ref \in Ids(s, "relation_types"))
  /\ \A target \in ElementsOf(e.writes) : SoundWrite(s, e.kind, target)
  /\ \A c \in ElementsOf(e.create_relations) : SoundCreate(s, c)
  /\ \A m \in ElementsOf(e.emit_events) : SoundEmit(s, m)

-----------------------------------------------------------------------------
(***************************************************************************)
(* The lists that are walked.  The ids of the optional layers may not be   *)
(* empty, those of the first version may.  Relations and initial events    *)
(* have no id.                                                             *)
(***************************************************************************)
CoreLists == {"assumptions", "entities", "variables", "dependency_edges",
              "constraints", "events", "evaluation_criteria"}
AgentLists == {"locations", "items", "policies", "shops", "agents"}
TypedLists == {"component_types", "entity_types", "typed_entities",
               "relation_types", "relations", "event_types",
               "initial_events", "systems"}
Anonymous == {"relations", "initial_events"}
MayBeEmpty == {"events", "policies", "relation_types", "relations",
               "event_types", "initial_events", "systems"}

Named(list, e) ==
  list \in (AgentLists \cup TypedLists) \ Anonymous => e.id # ""

Sound(s, list, e) ==
  CASE list = "assumptions"         -> SoundAssumption(e)
    [] list = "entities"            -> SoundEntity(e)
    [] list = "variables"           -> SoundVariable(s, e)
    [] list = "dependency_edges"    -> SoundEdge(s, e)
    [] list = "constraints"         -> SoundConstraint(s, e)
    [] list = "events"              -> SoundEvent(e)
    [] list = "evaluation_criteria" -> SoundCriterion(s, e)
    [] list = "locations"           -> SoundLocation(e)
    [] list = "items"               -> SoundItem(e)
    [] list = "policies"            -> TRUE
    [] list = "shops"               -> SoundShop(s, e)
    [] list = "agents"              -> SoundAgent(s, e)
    [] list = "component_types"     -> SoundComponentType(e)
    [] list = "entity_types"        -> SoundEntityType(s, e)
    [] list = "typed_entities"      -> SoundTypedEntity(s, e)
    [] list = "relation_types"      -> SoundRelationType(e)
    [] list = "relations"           -> SoundRelation(s, e)
    [] list = "event_types"         -> SoundEventType(e)
    [] list = "initial_events"      -> SoundInitialEvent(s, e)
    [] list = "systems"             -> SoundSystem(s, e)
=============================================================================
