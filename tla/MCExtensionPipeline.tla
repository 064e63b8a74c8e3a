------------------------ MODULE MCExtensionPipeline ------------------------
(***************************************************************************)
(* Small documents for TLC: a full scenario with every one edit, every     *)
(* type of a variable or a field with every value, and files that declare  *)
(* extensions and import each other's blocks.                              *)
(***************************************************************************)
EXTENDS ExtensionPipeline, TLC

\* The texts that readers take, with the values that they make.
Integers == {"0", "1", "2", "5", "8", "10", "100000"}
Numerals == Integers \cup {"0.4", "0.66", "1.25", "2.5", "huge"}
Same(said) == [text \in said |-> text]
SmallTaken ==
  [integer |-> Same(Integers), unsigned |-> Same(Integers \cup {"huge"}),
   seed |-> Same(Integers \cup {"huge"}), real |-> Same(Numerals \cup {".nan"}),
   flag |-> Same({"true", "false"}) @@ ("yes" :> "true"),
   stoll |-> Same(Integers) @@ ("2.5" :> "2") @@ ("1.25" :> "1")
               @@ ("0.4" :> "0") @@ ("0.66" :> "0"),
   stod |-> Same(Numerals) @@ ("nan" :> ".nan"),
   level |-> Same({"REJECT", "WARN", "AUTO_CORRECT"}),
   variableType |-> Same({"INTEGER", "FLOAT", "STRING", "BOOLEAN", "ENUM", "LIST"}),
   fieldType |-> Same({"INTEGER", "FLOAT", "BOOLEAN", "STRING"})]

\* "huge" is an integer from 2^63 to 2^64 - 1, "-huge" the one it wraps to.
SmallWrapped == "huge" :> "-huge"
SmallLineEnded == ("goal" :> "goal\n") @@ ("null" :> "null\n")
SmallStreamed == ("huge" :> "9.22337e+18") @@ (".nan" :> "nan")

Word == Scalar("word")

-----------------------------------------------------------------------------
\* A value for every kind, with all its fields.
Good1 ==
  [text |-> "word", real |-> "2.5", integer |-> "5", unsigned |-> "5", seed |-> "5",
   goal |-> "goal", flag |-> "true", level |-> "WARN", variableType |-> "FLOAT",
   fieldType |-> "FLOAT"]

RECURSIVE Sample(_)
Sample(kind) ==
  CASE kind.kind = "scalar" -> Scalar(Good1[kind.reader])
    [] kind.kind \in {"default", "bound"} -> Scalar("2.5")
    [] kind.kind = "components" -> Map([word |-> Map([word |-> Scalar("2.5")])])
    [] kind.kind = "payload" -> Map([word |-> Scalar("2.5")])
    [] kind.kind = "list" -> Sequence(<<Sample(kind.of)>>)
    [] kind.kind \in {"map", "table"} -> Map([word |-> Sample(kind.of)])
    [] kind.kind = "part" ->
         Map([key \in DOMAIN kind.fields |-> Sample(kind.fields[key].kind)])

With(node, key, value) == Map((key :> value) @@ node.at)
Without(node, key) == Map([k \in DOMAIN node.at \ {key} |-> node.at[k]])

FullScenario == With(Sample(Scenario), "schema_version", Scalar("1"))

-----------------------------------------------------------------------------
\* What else may be in the place of a scalar.
Odd ==
  [text |-> {""}, real |-> {"5", ".nan", "word"}, integer |-> {"2.5", "word"},
   unsigned |-> {"huge"}, seed |-> {"huge", "2.5"}, goal |-> {"goal\n"}, flag |-> {"yes", "word"},
   level |-> {"word"}, variableType |-> {"INTEGER", "word"}, fieldType |-> {"STRING", "word"}]

RECURSIVE Edits(_, _)
EditsOfPart(fields, node) ==
  {Without(node, key) : key \in DOMAIN fields}
    \cup {With(node, "foreign", Word), Null}
    \cup UNION {{With(node, key, edit) : edit \in Edits(fields[key].kind, node.at[key])} :
                key \in DOMAIN fields}

Edits(kind, node) ==
  CASE kind.kind = "scalar" ->
         {Scalar(text) : text \in Odd[kind.reader]} \cup {Sequence(<<>>), Null}
    [] kind.kind = "default" ->
         {Null, Map(<<>>), Sequence(<<Word>>), Sequence(<<Null>>), Scalar("nan")}
    [] kind.kind = "bound" -> {Scalar("5"), Scalar("nan"), Sequence(<<>>), Null}
    [] kind.kind = "components" ->
         {Map([word |-> Map(<<>>)]), Map([word |-> Word]), Map([other |-> node.at.word]),
          Map([word |-> Map([other |-> Scalar("5")])]), Map([word |-> Map([word |-> Null])]),
          Word}
    [] kind.kind = "payload" ->
         {Map([word |-> Word]), Map([word |-> Null]), Map([other |-> Scalar("5")]),
          Map(<<>>), Word}
    [] kind.kind = "list" ->
         {Null, Word, Map([word |-> Word]), Sequence(<<>>), Sequence(node.items \o node.items)}
           \cup {Sequence(<<edit>>) : edit \in Edits(kind.of, node.items[1])}
    [] kind.kind \in {"map", "table"} ->
         {Word, Map(<<>>), Sequence(<<Word>>)}
           \cup {Map([word |-> edit]) : edit \in Edits(kind.of, node.at.word)}
    [] kind.kind = "part" -> EditsOfPart(kind.fields, node)

-----------------------------------------------------------------------------
\* A scenario of one variable, of every type with every default and bound.
Bare ==
  Map([scenario_id |-> Word, schema_version |-> Scalar("1"), master_seed |-> Scalar("5"),
       goal_statement |-> Scalar("goal")])

Written == {"5", "2.5", "nan", "true", "word"}
VariableDocuments ==
  {With(Bare, "variables",
        Sequence(<<Map([variable_id |-> Word, type |-> Scalar(type), default_value |-> value,
                        min_value |-> Scalar(bound), description |-> Word])>>)) :
     type \in DOMAIN SmallTaken.variableType, bound \in {"5", "true"},
     value \in {Scalar(text) : text \in Written} \cup {Null, Sequence(<<Word>>)}}

\* Edges with the old names of the functions, and with the new ones.
EdgeDocuments ==
  {With(Bare, "dependency_edges",
        Sequence(<<With(Sample(Edge), "propagation_function_id", Scalar(name))>>)) :
     name \in DOMAIN LegacyNames \cup {LegacyNames[old] : old \in DOMAIN LegacyNames}}

\* Fields of every type with every value, in the three places that have them.
LayerWith(parts) == Map(parts @@ [world |-> Map([duration |-> Scalar("5")])])
Declaring(type) ==
  LET declared == Map([word |-> Scalar(type)])
  IN  [component_types |-> Sequence(<<Map([component_type_id |-> Word,
                                           fields |-> Map([word |-> Scalar("STRING")])]),
                                      Map([component_type_id |-> Word, fields |-> declared])>>),
       relation_types |-> Sequence(<<Map([relation_type_id |-> Word,
                                          payload_fields |-> declared])>>),
       event_types |-> Sequence(<<Map([event_type_id |-> Word, payload_fields |-> declared])>>)]
Using(value) ==
  LET given == Map([word |-> Scalar(value)])
  IN  [entities |-> Sequence(<<Map([entity_id |-> Word, entity_type |-> Word,
                                    components |-> Map([word |-> given])])>>),
       relations |-> Sequence(<<Map([relation_type |-> Word, source |-> Word,
                                     target |-> Word, payload |-> given])>>),
       initial_events |-> Sequence(<<Map([event_type |-> Word, payload |-> given,
                                          timestamp |-> Scalar("0")])>>)]
FieldDocuments ==
  {With(Bare, "typed_layer", LayerWith(Declaring(type) @@ Using(value))) :
     type \in DOMAIN SmallTaken.fieldType, value \in Written}

-----------------------------------------------------------------------------
\* Files with extensions.
Declare(id) == Map([id |-> Scalar(id)])
Plus(node, key, text) == With(node, key, Scalar(text))

Declarations ==
  {Sequence(<<>>), Sequence(<<Declare(Acme)>>), Sequence(<<Declare(Civic), Declare(Acme)>>),
   Sequence(<<Declare(Acme), Declare(Civic), Plus(Declare(Acme), "version", "1.2")>>),
   Sequence(<<Plus(Declare(Acme), "version", "1.3")>>),
   Sequence(<<Plus(Declare(Acme), "version", "word")>>),
   Sequence(<<Plus(Declare(Acme), "compatibility", "from 1.2")>>),
   Sequence(<<Plus(Declare(Acme), "compatibility", "under 1.2")>>),
   Sequence(<<Plus(Declare(Acme), "config", "5")>>),
   Sequence(<<With(Declare(Acme), "compatibility", Null)>>),
   Sequence(<<Declare("foreign")>>), Sequence(<<Word>>), Word}

Demo(settings) == Map([demo |-> settings])
AcmeBlocks ==
  {Missing, Null, Map(<<>>), Demo(Map([base |-> Scalar("5")])), Demo(Map([base |-> Word])),
   Demo(Map([base |-> Scalar("huge")])), Demo(Map([multiplier |-> Sequence(<<>>)])), Demo(Word)}
CivicBlocks ==
  {Missing, Map([control_index |-> Map([hazard_baseline |-> Scalar("5")])]),
   Map([control_index |-> Map([governance_weight |-> Word])])}

Put(node, key, value) == IF value = Missing THEN node ELSE With(node, key, value)
Authoring(version, declarations, acme, civic) ==
  Put(Put(Put(With(Bare, "schema_version", Scalar(version)), "extensions", declarations),
          Acme, acme), Civic, civic)

SingleFiles ==
  {Authoring(v, d, a, c) : v \in {"5"}, d \in Declarations, a \in AcmeBlocks, c \in CivicBlocks}
  \cup {Authoring(v, d, a, Missing) : v \in {"1", "word"},
          d \in {Missing, Sequence(<<Declare(Acme)>>)}, a \in {Missing, Map(<<>>)}}
  \cup {With(Authoring("5", Sequence(<<Declare(Acme)>>), Map(<<>>), Missing), "foreign", Word)}

\* Up to two imports, with declarations and blocks that agree or do not.
Importing(root, n) ==
  With(root, "imports",
       Sequence([i \in 1 .. n |-> Map([path |-> Scalar(<<"left", "right">>[i])])]))
SomeDeclarations ==
  {Missing, Sequence(<<Declare(Acme)>>), Sequence(<<Plus(Declare(Acme), "version", "1.2")>>),
   Sequence(<<Plus(Declare(Acme), "version", "1.3")>>),
   Sequence(<<Plus(Declare(Acme), "config", "5")>>)}
SomeBlocks ==
  {Missing, Null, Demo(Map([base |-> Scalar("5")])), Demo(Map([base |-> Scalar("2")])),
   Demo(Map([base |-> Null])), Demo(Map([multiplier |-> Scalar("2")])), Map([tags |-> Sequence(<<Word>>)])}
Fragment(name, declarations, block) ==
  With(Authoring("5", declarations, block, Missing), "entities",
       Sequence(<<Map([entity_id |-> Scalar(name), entity_type |-> Word, description |-> Word])>>))
PlainFragment == Fragment("left", Missing, Missing)

ImportedFiles ==
  {[root |-> Importing(Authoring("5", d, a, Missing), 1), left |-> Fragment("left", e, b)] :
     d \in SomeDeclarations, a \in SomeBlocks, e \in SomeDeclarations, b \in SomeBlocks}
  \cup
  {[root |-> Importing(Fragment("root", d, Missing), 2), left |-> Fragment("left", d, a),
    right |-> Fragment(name, Sequence(<<Declare(Acme)>>), b)] :
     d \in {Missing, Sequence(<<Declare(Acme)>>)}, a \in SomeBlocks, b \in SomeBlocks,
     name \in {"right", "left"}}
  \cup {[root |-> With(Bare, "imports", node)] :
          node \in {Word, Sequence(<<Word>>), Sequence(<<Map([path |-> Word])>>)}}

\* Layers that only one file has, that agree, and that do not.
LayerFiles ==
  {[root |-> Importing(With(PlainFragment, layer, one), 1),
    left |-> Put(Fragment("right", Missing, Missing), layer, two)] :
     layer \in {"agent_layer", "typed_layer"},
     one \in {At(FullScenario, l) : l \in {"agent_layer", "typed_layer"}},
     two \in {Missing} \cup {At(FullScenario, l) : l \in {"agent_layer", "typed_layer"}}}

\* Values of the root whose types are declared in the import, and the other
\* way round.
TypesElsewhere ==
  {[root |-> Importing(With(PlainFragment, "typed_layer", LayerWith(one)), 1),
    left |-> With(Fragment("right", Missing, Missing), "typed_layer", LayerWith(two))] :
     <<one, two>> \in
       UNION {{<<Using(value), Declaring(type)>>, <<Declaring(type), Using(value)>>} :
              type \in DOMAIN SmallTaken.fieldType, value \in Written \cup {"yes"}}}

\* A file with a variable that the extension would add.
NameTaken ==
  [root |-> With(Authoring("5", Sequence(<<Declare(Acme)>>), Map(<<>>), Missing), "variables",
                 Sequence(<<With(Sample(Variable), "variable_id", Scalar("var_acme_base"))>>))]

Small ==
  {NameTaken} \cup TypesElsewhere \cup {[root |-> doc] :
     doc \in Edits(Scenario, FullScenario) \cup {FullScenario} \cup VariableDocuments
               \cup EdgeDocuments \cup FieldDocuments \cup SingleFiles}
    \cup ImportedFiles \cup LayerFiles

SmallVersions ==
  ("1" :> <<1>>) @@ ("5" :> <<5>>) @@ ("1.2" :> <<1, 2>>) @@ ("1.3" :> <<1, 3, 0>>)
    @@ ("2.0" :> <<2, 0>>)
SmallRanges ==
  ("from 1.2" :> <<[op |-> ">=", version |-> "1.2"], [op |-> "<", version |-> "2.0"]>>)
    @@ ("under 1.2" :> <<[op |-> "<", version |-> "1.2"]>>)
=============================================================================
