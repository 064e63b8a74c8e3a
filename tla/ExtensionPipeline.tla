------------------------- MODULE ExtensionPipeline -------------------------
(***************************************************************************)
(* How a scenario file with extensions becomes a scenario of the core      *)
(* schema (resolve_scenario in src/src/experiment/scenario_resolver.cpp,   *)
(* extension_registry.hpp, semver.hpp and the two extensions).             *)
(*                                                                         *)
(* A file may declare extensions and hold a block for each.  The files it  *)
(* imports may declare them too; declarations and blocks are merged.  Then *)
(* the extensions are looked up, their blocks are checked, and each one    *)
(* replaces its block by elements of the core schema.  The result is       *)
(* written as canonical text, which the command "resolve" saves as a file  *)
(* that can itself be resolved, MaxGenerations times here.                 *)
(*                                                                         *)
(* Imports of imports and namespaces are in ScenarioResolver, the check of *)
(* the result is in ScenarioValidator; here a fragment imports nothing and *)
(* validate_resolved is false.  Registered functions do not matter here.   *)
(***************************************************************************)
EXTENDS ScenarioText

CONSTANTS
  Files,          \* what may be on disk: a set of functions from paths to nodes
  Versions,       \* what texts of versions say: functions to sequences of numbers
  Ranges,         \* texts of compatibility: sequences of [op, version]
  Streamed,       \* values that a std::ostream prints otherwise, with six digits
  MaxGenerations

Root == "root"

ListsAreSequences(node) ==
  \A key \in KeysOf(node) :
    LET items == ItemsOf(node.at[key]) IN items \in Seq({items[i] : i \in DOMAIN items})

\* Of the kinds that nodes of YAML have, down to the settings in a block.
Node0(node) == node.node \in {"null", "scalar", "sequence", "map"}
Node1(node) == Node0(node) /\ \A key \in KeysOf(node) : Node0(node.at[key])
Node2(node) == Node0(node) /\ \A key \in KeysOf(node) : Node1(node.at[key])
Node3(node) == Node0(node) /\ \A key \in KeysOf(node) : Node2(node.at[key])

ASSUME FilesAssumption ==
  /\ MaxGenerations \in Nat
  /\ \A f \in Files : Root \in DOMAIN f
  /\ \A f \in Files : \A path \in DOMAIN f :
       \A node \in {f[path], At(f[path], "agent_layer"), At(f[path], "typed_layer")} :
         ListsAreSequences(node)
  /\ \A f \in Files : \A path \in DOMAIN f : Node3(f[path])

VARIABLES
  files,      \* the files
  stage,      \* how far resolve_scenario has got
  at,         \* the import or the extension at hand
  authoring,  \* ResolvedAuthoring: scenario, declared extensions, blocks
  lowered,    \* the document that the extensions transform
  texts       \* canonical_yaml of each resolution so far

vars == <<files, stage, at, authoring, lowered, texts>>

-----------------------------------------------------------------------------
(***************************************************************************)
(* Versions.                                                               *)
(***************************************************************************)
ParseSemver(text) ==
  IF text \notin DOMAIN Versions THEN Nothing
  ELSE LET parts == Versions[text]
       IN  IF Len(parts) \notin 1 .. 3 THEN Nothing
           ELSE [i \in 1 .. 3 |-> IF i <= Len(parts) THEN parts[i] ELSE 0]

Older(u, v) == \E i \in 1 .. 3 : u[i] < v[i] /\ \A j \in 1 .. i - 1 : u[j] = v[j]

Satisfies(version, op, bound) ==
  CASE op = "<" -> Older(version, bound)
    [] op = "<=" -> ~Older(bound, version)
    [] op = "=" -> version = bound
    [] op = ">=" -> ~Older(version, bound)
    [] op = ">" -> Older(bound, version)

SatisfiesRange(version, range) ==
  /\ range \in DOMAIN Ranges
  /\ \A i \in DOMAIN Ranges[range] :
       LET bound == ParseSemver(Ranges[range][i].version)
       IN  bound # Nothing /\ Satisfies(version, Ranges[range][i].op, bound)

\* The extensions that are linked in, with their versions.
Acme == "acme.market"
Civic == "civic.resilience"
Available == [id \in {Acme, Civic} |-> IF id = Acme THEN <<1, 2, 0>> ELSE <<1, 0, 0>>]

-----------------------------------------------------------------------------
(***************************************************************************)
(* Declarations, blocks, and how those of an import are merged.            *)
(***************************************************************************)
CoreKeys == DOMAIN Scenario.fields
ReservedKeys == {"imports", "extensions", "hooks"}

\* An absent config is a default-made node, which counts as defined and dumps
\* like null.
Declaration(item) ==
  LET version == At(item, "version")
      config == At(item, "config")
  IN  [id |-> TextOf(At(item, "id")),
       version |-> IF version = Missing THEN Nothing ELSE ParseSemver(TextOf(version)),
       compatibility |-> IF At(item, "compatibility") = Missing THEN ""
                         ELSE TextOf(At(item, "compatibility")),
       config |-> IF config = Missing THEN Null ELSE config]

DeclarationReads(item) ==
  /\ HasText(At(item, "id"))
  /\ At(item, "version") # Missing => ParseSemver(TextOf(At(item, "version"))) # Nothing
  /\ At(item, "compatibility") = Missing \/ HasText(At(item, "compatibility"))

DeclaredExtensions(doc) ==
  LET node == At(doc, "extensions")
  IN  CASE node = Missing -> {<<>>}
        [] node.node = "sequence" ->
             IF \A i \in DOMAIN node.items : DeclarationReads(node.items[i])
             THEN {[i \in DOMAIN node.items |-> Declaration(node.items[i])]}
             ELSE {}
        [] OTHER -> {}

ExtensionBlocks(doc) ==
  [key \in KeysOf(doc) \ (CoreKeys \cup ReservedKeys) |-> doc.at[key]]

Sanitized(doc) ==
  IF doc.node = "map" THEN Map([key \in KeysOf(doc) \cap CoreKeys |-> doc.at[key]]) ELSE doc

\* The bug of letting the first declaration win.
MergeDeclarationFirst(declared, ext) ==
  IF \E i \in DOMAIN declared : declared[i].id = ext.id THEN {declared}
  ELSE {Append(declared, ext)}

\* One path of merge_declared_extensions adopts a config that only the later
\* declaration has; it is never taken, as no config is undefined.
MergeDeclaration(declared, ext) ==
  LET same == {i \in DOMAIN declared : declared[i].id = ext.id}
      last == CHOOSE i \in same : \A j \in same : j <= i
  IN  IF same = {} THEN {Append(declared, ext)}
      ELSE IF declared[last] = ext THEN {declared} ELSE {}

MergeDeclared(dst, src) ==
  LET merged[n \in 0 .. Len(src)] ==
        IF n = 0 THEN {dst}
        ELSE UNION {MergeDeclaration(declared, src[n]) : declared \in merged[n - 1]}
  IN  merged[Len(src)]

\* The bug of letting the first of two scalars win.
MergeScalarsFirst(dst, src) == {dst}

MergeScalars(dst, src) == IF dst.text = src.text THEN {dst} ELSE {}

MergeMaps(Merge(_, _), dst, src) ==
  Whole([key \in DOMAIN dst \cup DOMAIN src |->
           CASE key \notin DOMAIN src -> {dst[key]}
             [] key \notin DOMAIN dst -> {src[key]}
             [] OTHER -> Merge(dst[key], src[key])])

MergePair(Merge(_, _), dst, src) ==
  CASE dst.node = "null" -> {src}
    [] dst.node # "null" /\ dst.node # src.node -> {}
    [] dst.node = "map" /\ src.node = "map" ->
         {Map(merged) : merged \in MergeMaps(Merge, dst.at, src.at)}
    [] dst.node = "sequence" /\ src.node = "sequence" ->
         {Sequence(dst.items \o src.items)}
    [] dst.node = "scalar" /\ src.node = "scalar" -> MergeScalars(dst, src)

\* The bound on the depth of blocks: a key that two files have in the fourth
\* map below is not merged.
TooDeep(dst, src) == {}
Merge1(dst, src) == MergePair(TooDeep, dst, src)
Merge2(dst, src) == MergePair(Merge1, dst, src)
Merge3(dst, src) == MergePair(Merge2, dst, src)
MergeNodes(dst, src) == MergePair(Merge3, dst, src)

\* append_unique; the elements of some lists have no id.
Joined(dst, src, id) ==
  LET taken == IF id = "" THEN {} ELSE {dst[i][id] : i \in DOMAIN dst}
      clash == \E i \in DOMAIN src :
                 /\ id # ""
                 /\ src[i][id] # ""
                 /\ src[i][id] \in taken \cup {src[j][id] : j \in 1 .. i - 1}
  IN  IF clash THEN {} ELSE {dst \o src}

ListIds ==
  [assumptions |-> "assumption_id", entities |-> "entity_id", variables |-> "variable_id",
   dependency_edges |-> "edge_id", constraints |-> "constraint_id", events |-> "event_id",
   evaluation_criteria |-> "criterion_id"]
AgentIds ==
  [locations |-> "location_id", items |-> "item_id", shops |-> "shop_id",
   agents |-> "agent_id", policies |-> "policy_id"]
TypedIds ==
  [component_types |-> "component_type_id", entity_types |-> "entity_type_id",
   entities |-> "entity_id", relation_types |-> "relation_type_id", relations |-> "",
   event_types |-> "event_type_id", initial_events |-> "", systems |-> "system_id"]

\* dst, with the lists of src after its own.
MergeLayer(dst, src, ids) ==
  CASE src = Nothing -> {dst}
    [] dst = Nothing /\ src # Nothing -> {src}
    [] OTHER ->
         IF dst.world # src.world THEN {}
         ELSE Whole([key \in DOMAIN dst |->
                IF key \in DOMAIN ids THEN Joined(dst[key], src[key], ids[key])
                ELSE {dst[key]}])

MergeScenario(dst, src) ==
  Whole([key \in DOMAIN dst |->
           CASE key \in DOMAIN ListIds -> Joined(dst[key], src[key], ListIds[key])
             [] key = "agent_layer" -> MergeLayer(dst[key], src[key], AgentIds)
             [] key = "typed_layer" -> MergeLayer(dst[key], src[key], TypedIds)
             [] OTHER -> {dst[key]}])

\* What a file says by itself.
Authored(doc) ==
  Whole([scenario |-> Deserialize(Sanitized(doc)),
         declared |-> DeclaredExtensions(doc), blocks |-> {ExtensionBlocks(doc)}])

Composed(dst, src) ==
  Whole([scenario |-> MergeScenario(dst.scenario, src.scenario),
         declared |-> MergeDeclared(dst.declared, src.declared),
         blocks |-> MergeMaps(MergeNodes, dst.blocks, src.blocks)])

-----------------------------------------------------------------------------
(***************************************************************************)
(* The extensions.                                                         *)
(***************************************************************************)
\* The part of a block that has the settings, and the settings with their
\* defaults.
Group == [id \in {Acme, Civic} |-> IF id = Acme THEN "demo" ELSE "control_index"]
Settings ==
  [id \in {Acme, Civic} |->
     IF id = Acme THEN [base |-> "10", multiplier |-> "2"]
     ELSE [hazard_baseline |-> "0.4", resource_readiness |-> "0.66",
           governance_weight |-> "1.25"]]

\* Settings are written as std::stod reads them.
ASSUME SettingsAssumption ==
  /\ \A id \in DOMAIN Settings : \A key \in DOMAIN Settings[id] :
       Take("stod", Settings[id][key]) = {Settings[id][key]}
  /\ \A text \in DOMAIN Taken["real"] :
       Take("stod", Taken["real"][text]) \subseteq {Taken["real"][text]}

\* validate_authoring_block: only civic.resilience looks at what scalars say.
BlockSound(id, block) ==
  LET group == At(block, Group[id])
      Sound(node) ==
        \/ node = Missing
        \/ /\ node.node = "scalar"
           /\ id = Civic => Take("real", node.text) # {}
  IN  block # Missing =>
        /\ block.node = "map"
        /\ group.node \in {"missing", "map"}
        /\ \A key \in DOMAIN Settings[id] : Sound(At(group, key))

Setting(id, block, key) ==
  LET node == At(At(block, Group[id]), key)
  IN  IF node = Missing THEN {Settings[id][key]}
      ELSE IF node.node = "scalar" THEN Take("real", node.text) ELSE {}

NewVariable(id, owner, value) ==
  Map(Over(owner, [variable_id |-> Scalar(id), type |-> Scalar("FLOAT"),
                   default_value |-> Scalar(value), description |-> Scalar("generated")]))
NewEdge(id, source, target, function, weight, metadata) ==
  Map([edge_id |-> Scalar(id), source_variable |-> Scalar(source),
       target_variable |-> Scalar(target), propagation_function_id |-> Scalar(function),
       weight |-> Scalar(weight), metadata |-> Map(metadata)])
NewConstraint(id, variable) ==
  Map([constraint_id |-> Scalar(id), affected_variables |-> Sequence(<<Scalar(variable)>>),
       constraint_expression |-> Scalar("at least 0"), enforcement_level |-> Scalar("REJECT"),
       error_message |-> Scalar("generated")])
NewCriterion(id, variable) ==
  Map([criterion_id |-> Scalar(id), metric_name |-> Scalar("final"),
       aggregation_method |-> Scalar("FINAL"),
       input_variables |-> Sequence(<<Scalar(variable)>>), description |-> Scalar("generated")])
\* The value of a payload is printed by a std::ostream, those of variables and
\* weights by the emitter, with all their digits.
SixDigits(value) == IF value \in DOMAIN Streamed THEN Streamed[value] ELSE value
NewEvent(id, variable, value) ==
  Map([event_id |-> Scalar(id), event_type |-> Scalar("SCHEDULED"),
       timestamp |-> Scalar("0"), priority |-> Scalar("0"),
       event_payload |-> Map([variable_id |-> Scalar(variable),
                              value |-> Scalar(SixDigits(value))]),
       description |-> Scalar("generated")])
NewAssumption(id) ==
  Map([assumption_id |-> Scalar(id), category |-> Scalar("extension"),
       description |-> Scalar("generated"), rationale |-> Scalar("generated"),
       confidence_level |-> Scalar("REJECT")])
NewEntity(id, type, attributes) ==
  Map([entity_id |-> Scalar(id), entity_type |-> Scalar(type),
       description |-> Scalar("generated"), attributes |-> Map(attributes)])

\* What an extension adds to the lists of a document, from its settings.  The
\* first one adds an assumption and an entity only where there are none.
AcmeAdds(root, set) ==
  [assumptions |-> IF ItemsOf(At(root, "assumptions")) = <<>>
                   THEN <<NewAssumption("assume_acme_market_generated")>> ELSE <<>>,
   entities |-> IF ItemsOf(At(root, "entities")) = <<>>
                THEN <<NewEntity("acme_world", "world", <<>>)>> ELSE <<>>,
   variables |-> <<NewVariable("var_acme_base", <<>>, set.base),
                   NewVariable("var_acme_price", <<>>, "0")>>,
   dependency_edges |-> <<NewEdge("edge_acme_base_to_price", "var_acme_base", "var_acme_price",
                                  "acme.market::bid_boost", set.multiplier, <<>>)>>,
   constraints |-> <<NewConstraint("constraint_acme_price_nonneg", "var_acme_price")>>,
   events |-> <<NewEvent("ev_acme_set_base", "var_acme_base", set.base)>>,
   evaluation_criteria |-> <<NewCriterion("criterion_acme_price_final", "var_acme_price")>>]

CivicAdds(root, set) ==
  LET owner == "civic_resilience_extension_control"
      extension == [extension |-> Scalar("civic.resilience")]
      Float(id, value) == NewVariable(id, [entity_ref |-> Scalar(owner)], value)
  IN  [assumptions |-> <<NewAssumption("assume_civic_resilience_extension_control")>>,
       entities |-> <<NewEntity(owner, "extension_control", extension)>>,
       variables |-> <<Float("var_civic_hazard_baseline", set.hazard_baseline),
                       Float("var_civic_resource_readiness", set.resource_readiness),
                       Float("var_civic_composite_readiness", set.hazard_baseline)>>,
       dependency_edges |->
         <<NewEdge("edge_civic_readiness_to_composite", "var_civic_resource_readiness",
                   "var_civic_composite_readiness", "civic.resilience::risk_weighted_boost",
                   set.governance_weight, extension)>>,
       constraints |-> <<NewConstraint("constraint_civic_composite_readiness_bounds",
                                       "var_civic_composite_readiness")>>,
       events |-> <<NewEvent("ev_civic_resource_readiness_seed",
                             "var_civic_resource_readiness", set.resource_readiness)>>,
       evaluation_criteria |-> <<NewCriterion("criterion_civic_composite_readiness_final",
                                              "var_civic_composite_readiness")>>]

\* The block is removed: a second transform of the same extension finds none.
Remaining(root, id) == DOMAIN root.at \ {id}

Transformed(root, id) ==
  LET block == At(root, id)
      Adds(set) == IF id = Acme THEN AcmeAdds(root, set) ELSE CivicAdds(root, set)
      Lowered(adds) ==
        Map([key \in Remaining(root, id) |->
               IF key \in DOMAIN adds
               THEN Sequence(ItemsOf(root.at[key]) \o adds[key]) ELSE root.at[key]])
  IN  IF block = Missing THEN {root}
      ELSE {Lowered(Adds(set)) :
              set \in Whole([key \in DOMAIN Settings[id] |-> Setting(id, block, key)])}

-----------------------------------------------------------------------------
(***************************************************************************)
(* resolve_scenario.                                                       *)
(***************************************************************************)
Init ==
  /\ files \in Files
  /\ stage = "read"
  /\ at = 0
  /\ authoring = Nothing
  /\ lowered = Null
  /\ texts = <<>>

Imports == ItemsOf(At(files[Root], "imports"))
ImportsRead ==
  /\ At(files[Root], "imports").node \in {"missing", "sequence"}
  /\ \A i \in DOMAIN Imports : HasText(At(Imports[i], "path"))

GoTo(next) == stage' = next /\ at' = 1
Fail == stage' = "failed" /\ UNCHANGED <<files, at, authoring, lowered, texts>>

\* A file that is not there, or that is refused, ends the resolution.
ReadRoot ==
  /\ stage = "read" /\ at = 0
  /\ LET own == Authored(files[Root])
     IN  IF own = {} \/ ~ImportsRead THEN Fail
         ELSE /\ authoring' \in own
              /\ at' = 1
              /\ UNCHANGED <<files, stage, lowered, texts>>

ReadImport ==
  /\ stage = "read" /\ at \in DOMAIN Imports
  /\ LET path == TextOf(At(Imports[at], "path"))
         own == IF path \in DOMAIN files THEN Authored(files[path]) ELSE {}
         all == UNION {Composed(authoring, file) : file \in own}
     IN  IF all = {} THEN Fail
         ELSE /\ authoring' \in all
              /\ at' = at + 1
              /\ UNCHANGED <<files, stage, lowered, texts>>

Declared == {authoring.declared[i].id : i \in DOMAIN authoring.declared}

\* resolve_declared.
CanResolve(ext) ==
  /\ ext.id \in DOMAIN Available
  /\ ext.version # Nothing => ext.version = Available[ext.id]
  /\ ext.compatibility # "" => SatisfiesRange(Available[ext.id], ext.compatibility)

\* The document that the extensions see: the scenario, with the blocks.
AuthoringRoot == Map(Over(Serialize(authoring.scenario).at, authoring.blocks))

AllDeclared == DOMAIN authoring.blocks \subseteq Declared

Discover ==
  /\ stage = "read" /\ at = Len(Imports) + 1
  /\ LET version == ParseSemver(authoring.scenario.schema_version)
         v5 == authoring.declared # <<>> \/ DOMAIN authoring.blocks # {}
         major == IF version = Nothing THEN 0 ELSE version[1]
     IN  CASE version = Nothing \/ (v5 /\ major < 5) -> Fail
           [] version # Nothing /\ ~v5 /\ major < 5 ->
                GoTo("finish") /\ UNCHANGED <<files, authoring, lowered, texts>>
           [] OTHER ->
                IF /\ \A i \in DOMAIN authoring.declared : CanResolve(authoring.declared[i])
                   /\ AllDeclared
                THEN /\ GoTo("check")
                     /\ lowered' = AuthoringRoot
                     /\ UNCHANGED <<files, authoring, texts>>
                ELSE Fail

CheckBlocks ==
  /\ stage = "check"
  /\ IF \A id \in Declared : BlockSound(id, At(lowered, id))
     THEN GoTo("transform") /\ UNCHANGED <<files, authoring, lowered, texts>>
     ELSE Fail

Transform ==
  /\ stage = "transform" /\ at \in DOMAIN authoring.declared
  /\ LET next == Transformed(lowered, authoring.declared[at].id)
     IN  IF next = {} THEN Fail
         ELSE /\ lowered' \in next
              /\ at' = at + 1
              /\ UNCHANGED <<files, stage, authoring, texts>>

Lower ==
  /\ stage = "transform" /\ at = Len(authoring.declared) + 1
  /\ LET scenario == Deserialize(lowered)
     IN  IF Declared \cap KeysOf(lowered) # {} \/ scenario = {} THEN Fail
         ELSE /\ authoring' \in {[authoring EXCEPT !.scenario = s] : s \in scenario}
              /\ GoTo("finish")
              /\ UNCHANGED <<files, lowered, texts>>

\* canonicalize_legacy_names.
LegacyNames ==
  [linear_scale |-> "core::linear_scale", apply_discount |-> "core::apply_discount",
   additive |-> "core::additive", max_propagate |-> "core::max_propagate",
   min_propagate |-> "core::min_propagate"]
\* The bug of prefixing every name.
CanonicalEdgePrefixed(edge) ==
  [edge EXCEPT !.propagation_function_id = "core::" \o edge.propagation_function_id]

CanonicalEdge(edge) ==
  [edge EXCEPT !.propagation_function_id =
     IF @ \in DOMAIN LegacyNames THEN LegacyNames[@] ELSE @]

Canonical(scenario) ==
  [scenario EXCEPT !.dependency_edges =
     [i \in DOMAIN scenario.dependency_edges |-> CanonicalEdge(scenario.dependency_edges[i])]]

Finish ==
  /\ stage = "finish"
  /\ LET scenario == Canonical(authoring.scenario)
     IN  /\ authoring' = [authoring EXCEPT !.scenario = scenario]
         /\ texts' = Append(texts, Serialize(scenario))
  /\ GoTo("resolved")
  /\ UNCHANGED <<files, lowered>>

\* The command "resolve" saves the canonical text, and the file is resolved.
ResolveAgain ==
  /\ stage = "resolved" /\ Len(texts) < MaxGenerations
  /\ files' = [path \in {Root} |-> texts[Len(texts)]]
  /\ stage' = "read"
  /\ at' = 0
  /\ authoring' = Nothing
  /\ lowered' = Null
  /\ UNCHANGED texts

\* A refused file, or enough generations.
Terminated ==
  /\ stage = "failed" \/ (stage = "resolved" /\ Len(texts) = MaxGenerations)
  /\ UNCHANGED vars

Next ==
  ReadRoot \/ ReadImport \/ Discover \/ CheckBlocks \/ Transform \/ Lower \/ Finish
    \/ ResolveAgain \/ Terminated

Spec == Init /\ [][Next]_vars

-----------------------------------------------------------------------------
(***************************************************************************)
(* Properties.                                                             *)
(***************************************************************************)
\* What the present resolution reads.
Paths == {Root} \cup {TextOf(At(Imports[i], "path")) : i \in DOMAIN Imports}

\* The FLOAT values that std::stod takes and the emitter prints in YAML's way,
\* and the seeds that do not fit into an int64_t, are not read again.
NotANumber(value) == value.is = "double" /\ value.texts[1] \in NotNumbers

Unreadable(scenario) ==
  \/ scenario.master_seed \in DOMAIN Wrapped
  \/ \E i \in DOMAIN scenario.variables :
       LET v == scenario.variables[i]
       IN  \/ NotANumber(v.default_value)
           \/ v.min_value # Nothing /\ NotANumber(v.min_value)
           \/ v.max_value # Nothing /\ NotANumber(v.max_value)

\* A default that was neither a scalar nor a list is the integer 0, and is read
\* again as what 0 means for the type.
DefaultAgain(value, type) ==
  IF value.is # "int64_t" THEN value
  ELSE [is |-> CASE type = "INTEGER" -> "int64_t" [] type = "FLOAT" -> "double"
                 [] type = "BOOLEAN" -> "bool" [] OTHER -> "string",
        texts |-> IF type = "BOOLEAN" THEN <<"false">> ELSE value.texts]

VariableAgain(v) == [v EXCEPT !.default_value = DefaultAgain(v.default_value, v.type)]

\* The type that the last of the declarations in list gives a field.
DeclaredIn(list, id, fields, name, field) ==
  LET found == {i \in DOMAIN list : list[i][id] = name /\ field \in DOMAIN list[i][fields]}
      last == CHOOSE i \in found : \A j \in found : j <= i
  IN  IF found = {} THEN "STRING" ELSE list[last][fields][field]

\* Typed values are read by the declarations of their own file.  Read again,
\* they have those of all files at hand.
ValueAgain(value, type) == CHOOSE again \in ParseTypedScalar(value.texts[1], type) : TRUE

EntityAgain(entity, layer) ==
  [entity EXCEPT !.components =
     [c \in DOMAIN entity.components |->
        [f \in DOMAIN entity.components[c] |->
           ValueAgain(entity.components[c][f],
                      DeclaredIn(layer.component_types, "component_type_id", "fields", c, f))]]]

PayloadAgain(payload, list, id, name) ==
  [f \in DOMAIN payload |->
     ValueAgain(payload[f], DeclaredIn(list, id, "payload_fields", name, f))]

RelationAgain(relation, layer) ==
  [relation EXCEPT !.payload =
     PayloadAgain(relation.payload, layer.relation_types, "relation_type_id",
                  relation.relation_type)]

EventAgain(event, layer) ==
  [event EXCEPT !.payload =
     PayloadAgain(event.payload, layer.event_types, "event_type_id", event.event_type)]

LayerAgain(layer) ==
  IF layer = Nothing THEN Nothing
  ELSE [layer EXCEPT
          !.entities = [i \in DOMAIN layer.entities |-> EntityAgain(layer.entities[i], layer)],
          !.relations = [i \in DOMAIN layer.relations |-> RelationAgain(layer.relations[i], layer)],
          !.initial_events =
             [i \in DOMAIN layer.initial_events |-> EventAgain(layer.initial_events[i], layer)]]

Again(scenario) ==
  [scenario EXCEPT
     !.goal_statement = Printed("goal", scenario.goal_statement),
     !.variables =
        [i \in DOMAIN scenario.variables |-> VariableAgain(scenario.variables[i])],
     !.typed_layer = LayerAgain(scenario.typed_layer)]

\* The canonical text of a scenario says all of it: read again, it is the same
\* scenario, but for a line break after the goal, the type of a default that
\* was not given, and the types of values that another file declares; or it is
\* refused, for the numbers that the emitter prints and the reader does not
\* take.  Every type is the declared one if there is one file, or if
\* extensions were looked up, as then the scenario was read from one document.
RereadAsWritten ==
  stage = "resolved" =>
    LET scenario == authoring.scenario
    IN  /\ Deserialize(texts[Len(texts)]) =
             IF Unreadable(scenario) THEN {} ELSE {Again(scenario)}
        /\ Imports = <<>> \/ lowered # Null =>
             LayerAgain(scenario.typed_layer) = scenario.typed_layer

\* Resolving the canonical text gives the same text, but for the line break
\* after the goal, a BOOLEAN default that was not given, and what the values
\* print whose types another file declares; resolving that changes nothing.
\* Nothing is lowered, renamed or added a second time.
SettledVariable(node) ==
  IF node.at.type = Scalar("BOOLEAN") /\ node.at.default_value = Scalar("0")
  THEN Map([node.at EXCEPT !.default_value = Scalar("false")]) ELSE node

SettledValues(values, Type(_)) ==
  Map([f \in KeysOf(values) |->
         WriteVariant(CHOOSE value \in ParseTypedScalar(values.at[f].text, Type(f)) : TRUE)])

SettledEntity(node, layer) ==
  LET Settled(c) ==
        LET Type(f) == DeclaredType(layer, "component_types", "component_type_id", "fields", c, f)
        IN  SettledValues(node.at.components.at[c], Type)
  IN  Map([node.at EXCEPT !.components = Map([c \in KeysOf(node.at.components) |-> Settled(c)])])

SettledPayload(node, layer, kind) ==
  LET name == TextOf(node.at[kind.ref])
      Type(f) == DeclaredType(layer, kind.list, kind.id, "payload_fields", name, f)
  IN  IF "payload" \notin KeysOf(node) THEN node
      ELSE Map([node.at EXCEPT !.payload = SettledValues(node.at.payload, Type)])

SettledItems(node, Settled(_)) ==
  Sequence([i \in DOMAIN node.items |-> Settled(node.items[i])])

SettledLayer(layer) ==
  LET OfEntity(node) == SettledEntity(node, layer)
      OfRelation(node) == SettledPayload(node, layer, Relation.fields.payload.kind)
      OfEvent(node) == SettledPayload(node, layer, InitialEvent.fields.payload.kind)
  IN  Map([key \in KeysOf(layer) |->
             CASE key = "entities" -> SettledItems(layer.at[key], OfEntity)
               [] key = "relations" -> SettledItems(layer.at[key], OfRelation)
               [] key = "initial_events" -> SettledItems(layer.at[key], OfEvent)
               [] OTHER -> layer.at[key]])

SettledText(text) ==
  Map([key \in KeysOf(text) |->
         CASE key = "goal_statement" -> Scalar(Printed("goal", text.at[key].text))
           [] key = "variables" -> SettledItems(text.at[key], SettledVariable)
           [] key = "typed_layer" -> SettledLayer(text.at[key])
           [] OTHER -> text.at[key]])

CanonicalSettles ==
  \A g \in 1 .. Len(texts) - 1 :
    texts[g + 1] = IF g = 1 THEN SettledText(texts[1]) ELSE texts[g]

\* The elements that an extension adds are there once if a file has a block
\* for it, whatever files declare it how often, and not at all otherwise,
\* unless a file has a variable of that name itself.  The first setting is the
\* one that files give, if one does, and all of them give the same.
Marker ==
  [id \in {Acme, Civic} |->
     IF id = Acme THEN [variable |-> "var_acme_base", setting |-> "base"]
     ELSE [variable |-> "var_civic_hazard_baseline", setting |-> "hazard_baseline"]]

VariableNodes(doc, name) ==
  LET variables == ItemsOf(At(doc, "variables"))
  IN  {i \in DOMAIN variables : TextOf(At(variables[i], "variable_id")) = name}

LoweredOnce ==
  stage = "resolved" /\ Len(texts) = 1 =>
    \A id \in DOMAIN Available :
      LET blocks == {files[path].at[id] :
                       path \in {p \in Paths : id \in DOMAIN ExtensionBlocks(files[p])}}
          key == Marker[id].setting
          settings == {At(At(block, Group[id]), key) : block \in blocks}
          given == {node.text : node \in {n \in settings : n.node = "scalar"}}
          name == Marker[id].variable
          made == VariableNodes(texts[1], name)
          First(i) == At(ItemsOf(At(texts[1], "variables"))[i], "default_value")
      IN  (\A path \in Paths : VariableNodes(files[path], name) = {}) =>
            /\ Cardinality(made) = IF blocks = {} THEN 0 ELSE 1
            /\ \A i \in made :
                 {First(i)} = IF given = {} THEN {Scalar(Settings[id][key])}
                                ELSE {Scalar(Taken["real"][text]) : text \in given}

\* What is resolved satisfies every declaration of every file, and no file has
\* a section that is neither of the core schema nor of a declared extension.
DeclarationsHonoured ==
  stage = "resolved" =>
    LET lists == UNION {DeclaredExtensions(files[path]) : path \in Paths}
        all == UNION {{list[i] : i \in DOMAIN list} : list \in lists}
    IN  /\ \A ext \in all : CanResolve(ext)
        /\ \A path \in Paths :
             KeysOf(files[path])
               \subseteq CoreKeys \cup ReservedKeys \cup {ext.id : ext \in all}
=============================================================================
