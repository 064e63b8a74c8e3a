-------------------------- MODULE ScenarioValidator --------------------------
(***************************************************************************)
(* ScenarioValidator::validate (src/validation/scenario_validator.cpp):    *)
(* the gates of a scenario in their order.  A gate that walks lists stops  *)
(* at the first element it refuses; validation goes on with the next gate  *)
(* whatever the result, and only a failure at level REJECT counts.         *)
(*                                                                         *)
(* The walk over a list and the depth-first search for cycles are modelled *)
(* step by step, with the state the loops keep: the ids seen, the colours  *)
(* of the variables and the recursion.  Edges of one variable are followed *)
(* in any order, and the search starts at any variable that is still       *)
(* white, where the code takes the first.                                  *)
(***************************************************************************)
EXTENDS GateChecks, FiniteSets

CONSTANTS
  Scenarios,    \* the scenarios to validate
  FanOutLimit,  \* 50
  DepthLimit    \* 20

\* The sections of a scenario are lists, those of a layer that is not there
\* empty ones; an expression is a list of alternatives, and what an
\* entity type has is a list of components; the type of a variable is one of VariableType; and the
\* values of an entity are a map of maps, by component and by field.
ASSUME ScenariosAssumption ==
  \A s \in Scenarios :
    /\ \A l \in CoreLists \cup AgentLists \cup TypedLists :
         Len(s[l]) \in Nat /\ DOMAIN s[l] = 1..Len(s[l])
    /\ s.agent_layer = None => \A l \in AgentLists : s[l] = <<>>
    /\ \A c \in ElementsOf(s.constraints) :
         c.expression \in Seq(ElementsOf(c.expression))
    /\ \A v \in ElementsOf(s.variables) :
         v.type \in {"INTEGER", "FLOAT", "STRING", "BOOLEAN", "ENUM", "LIST"}
    /\ \A e \in ElementsOf(s.events) :
         e.timestamp \in Int \cup {NaN} /\ e.priority \in Int
    /\ \A e \in ElementsOf(s.entity_types) :
         e.components \in Seq(ElementsOf(e.components))
    /\ \A e \in ElementsOf(s.typed_entities) :
         /\ \A c, d \in e.components : c.id = d.id => c = d
         /\ \A c \in e.components : \A v, w \in c.fields :
              v.name = w.name => v = w

VARIABLES
  scenario,  \* the scenario under validation
  gate,      \* which gate validate() has reached
  list,      \* which list of the gate it walks
  at,        \* which element of the list is next
  seen,      \* seen_ids
  report,    \* report.results
  overall,   \* report.overall_passed
  white, gray, black,  \* colours of the variables in the cycle search
  stack      \* the calls of dfs_visit: the node, the neighbours left

walk   == <<list, at, seen>>
search == <<white, gray, black, stack>>
validation == <<scenario, gate, walk, report, overall, search>>

-----------------------------------------------------------------------------
(***************************************************************************)
(* The dependency graph as the cross-cutting checks see it.                *)
(***************************************************************************)
Edges(s) == ElementsOf(s.dependency_edges)
Linked(s) == {e.source : e \in Edges(s)} \cup {e.target : e \in Edges(s)}
Successors(s, v) == {e.target : e \in {f \in Edges(s) : f.source = v}}

Orphans(s) == Ids(s, "variables") \ Linked(s)

FanOut(s, v) == Cardinality({k \in DOMAIN s.dependency_edges :
                              s.dependency_edges[k].source = v})

\* check_depth_limits: the distance of the farthest variable from a root.
Roots(s) == Linked(s) \ {e.target : e \in Edges(s)}

Within(s, root) ==
  LET reach[d \in 0..Cardinality(Linked(s))] ==
        IF d = 0 THEN {root}
        ELSE reach[d - 1] \cup UNION {Successors(s, v) : v \in reach[d - 1]}
  IN  reach

Depth(s, root) ==
  LET reach == Within(s, root)
  IN  CHOOSE d \in DOMAIN reach :
        /\ reach[d] = reach[Cardinality(Linked(s))]
        /\ \A c \in 0..(d - 1) : reach[c] # reach[d]

-----------------------------------------------------------------------------
(***************************************************************************)
(* Initial constraints.  An expression is a sequence of alternatives, each *)
(* a sequence of comparisons.  NumericConstraintParser evaluates while it  *)
(* parses: `value || parse()` does not parse its right side when value is  *)
(* true, nor does `value && parse()` when it is false.  What is not parsed *)
(* is left in the text, and evaluate() refuses a text with something left. *)
(***************************************************************************)
Compare(x, op, y) ==
  CASE op = ">=" -> x >= y
    [] op = "<=" -> x <= y
    [] op = "==" -> x = y
    [] op = "!=" -> x # y
    [] op = ">"  -> x > y
    [] op = "<"  -> x < y

\* scalar_default_to_numeric: a default that is not of the variable's own type
\* is no number.
Numeric(e) ==
  e.type \in {"INTEGER", "FLOAT", "BOOLEAN"} /\ e.default_type = e.type

Value(s, v) ==
  LET places == {k \in DOMAIN s.variables :
                   s.variables[k].id = v /\ Numeric(s.variables[k])}
  IN  IF places = {} THEN None
      ELSE s.variables[CHOOSE k \in places : \A j \in places : j <= k]
             .default_value

\* A comparison of a variable without numeric value throws.
Readable(s, c) == Value(s, c.var) # None
True(s, c) == Compare(Value(s, c.var), c.op, c.bound)

\* The bug of evaluating an alternative by its last comparison.
LastOnlyPasses(s, conjunction) ==
  /\ \A k \in DOMAIN conjunction : Readable(s, conjunction[k])
  /\ True(s, conjunction[Len(conjunction)])

ConjunctionPasses(s, conjunction) ==
  \A k \in DOMAIN conjunction :
    Readable(s, conjunction[k]) /\ True(s, conjunction[k])

\* False, with the whole of its text read.
ConjunctionFails(s, conjunction) ==
  /\ \A k \in DOMAIN conjunction : Readable(s, conjunction[k])
  /\ \A k \in DOMAIN conjunction :
       True(s, conjunction[k]) <=> k # Len(conjunction)

InitiallyPasses(s, expression) ==
  /\ expression # <<>>
  /\ \A k \in 1..(Len(expression) - 1) : ConjunctionFails(s, expression[k])
  /\ ConjunctionPasses(s, expression[Len(expression)])

-----------------------------------------------------------------------------
(***************************************************************************)
(* The gates.                                                              *)
(***************************************************************************)
CommonGates == <<"required_fields", "unknown_fields", "anti_patterns">>
TypedGates == <<"goal_statement", "assumptions", "typed_layer">> \o CommonGates
CoreGates ==
  <<"goal_statement", "assumptions", "entities", "variables", "dependencies",
    "constraints", "events", "agent_layer", "evaluation_criteria">>
  \o CommonGates \o
  <<"cycle_detection", "type_compatibility", "initial_constraints",
    "orphan_variables", "fan_out_limits", "depth_limits">>

Gates(s) == IF s.typed_layer # None THEN TypedGates ELSE CoreGates

\* The lists a gate walks.
Walks ==
  [assumptions |-> <<"assumptions">>,
   entities |-> <<"entities">>,
   variables |-> <<"variables">>,
   dependencies |-> <<"dependency_edges">>,
   constraints |-> <<"constraints">>,
   events |-> <<"events">>,
   evaluation_criteria |-> <<"evaluation_criteria">>,
   agent_layer |-> <<"locations", "items", "policies", "shops", "agents">>,
   typed_layer |-> <<"component_types", "entity_types", "typed_entities",
                     "relation_types", "relations", "event_types",
                     "initial_events", "systems">>]

\* A version of three numbers; a version is the numbers of digits between its
\* dots.
LooksLikeSemver(version) ==
  Len(version) = 3 /\ \A k \in DOMAIN version : version[k] > 0

RequiredFieldsPresent(s) ==
  /\ s.scenario_id # ""
  /\ LooksLikeSemver(s.schema_version)
  /\ s.assumptions # <<>>
  /\ IF s.typed_layer # None
     THEN /\ Positive(s.typed_layer.duration)
          /\ s.typed_layer.max_event_count # 0
          /\ <<>> \notin {s.component_types, s.entity_types, s.typed_entities}
     ELSE <<>> \notin {s.entities, s.variables, s.dependency_edges,
                       s.constraints, s.evaluation_criteria}

\* check_type_compatibility: only numbers and booleans propagate.
Propagates(s, v) ==
  Element(s, "variables", v).type \notin {"STRING", "ENUM", "LIST"}

TypesCompatible(s) ==
  \A e \in Edges(s) :
    {e.source, e.target} \subseteq Ids(s, "variables") =>
      Propagates(s, e.source) /\ Propagates(s, e.target)

InitialConstraintsPass(s) ==
  \A c \in ElementsOf(s.constraints) : InitiallyPasses(s, c.expression)

Running == gate <= Len(Gates(scenario))
Rule == Gates(scenario)[gate]

-----------------------------------------------------------------------------
\* ValidationReport::add_result, and on to the next gate.  A message of a
\* check that always passes may still note something.
AddNotedResult(passed, level, noted) ==
  /\ report' = Append(report, [rule |-> Rule, passed |-> passed,
                               level |-> level, noted |-> noted])
  /\ overall' = (overall /\ (passed \/ level # "REJECT"))
  /\ gate' = gate + 1
  /\ list' = 1
  /\ at' = 1
  /\ seen' = {}
  /\ UNCHANGED scenario

AddResult(passed, level) == AddNotedResult(passed, level, FALSE)

GoalGate ==
  /\ Running /\ Rule = "goal_statement"
  /\ \/ scenario.goal = "empty" /\ AddResult(FALSE, "REJECT")
     \/ scenario.goal = "short" /\ AddResult(FALSE, "WARN")
     \/ scenario.goal = "long" /\ AddResult(TRUE, "REJECT")
  /\ UNCHANGED search

\* Gates that judge the scenario as a whole.
WholeGate ==
  /\ Running
  /\ \/ /\ Rule = "required_fields"
        /\ AddResult(RequiredFieldsPresent(scenario), "REJECT")
     \/ /\ Rule = "type_compatibility"
        /\ AddResult(TypesCompatible(scenario), "REJECT")
     \/ /\ Rule = "initial_constraints"
        /\ AddResult(InitialConstraintsPass(scenario), "REJECT")
  /\ UNCHANGED search

\* Checks that write a message and pass.
NotingGate ==
  /\ Running
  /\ \/ /\ Rule \in {"unknown_fields", "anti_patterns"}
        /\ AddResult(TRUE, "WARN")
     \/ /\ Rule = "orphan_variables"
        /\ AddNotedResult(TRUE, "WARN", Orphans(scenario) # {})
     \/ /\ Rule = "fan_out_limits"
        /\ AddNotedResult(TRUE, "WARN", \E v \in Linked(scenario) :
                            FanOut(scenario, v) > FanOutLimit)
     \/ /\ Rule = "depth_limits"
        /\ AddNotedResult(TRUE, "WARN", \E v \in Roots(scenario) :
                            Depth(scenario, v) > DepthLimit)
  /\ UNCHANGED search

-----------------------------------------------------------------------------
(***************************************************************************)
(* Gates that walk lists.                                                  *)
(***************************************************************************)
Walking == Running /\ Rule \in DOMAIN Walks
ListName == Walks[Rule][list]
Elements == scenario[ListName]

\* The layer is there and its world is sound.
Opens ==
  CASE Rule = "agent_layer" -> SoundAgentWorld(scenario.agent_layer)
    [] Rule = "typed_layer" -> /\ scenario.agent_layer = None
                               /\ SoundTypedWorld(scenario.typed_layer)
    [] OTHER -> TRUE

NoAgentLayer ==
  /\ Walking /\ Rule = "agent_layer" /\ scenario.agent_layer = None
  /\ AddResult(TRUE, "REJECT")
  /\ UNCHANGED search

LayerThere ==
  Walking /\ (Rule = "agent_layer" => scenario.agent_layer # None)

RefuseWorld ==
  /\ LayerThere /\ ~Opens
  /\ AddResult(FALSE, "REJECT")
  /\ UNCHANGED search

Fresh(e) == ListName \notin Anonymous => e.id \notin seen

\* The bug of forgetting to remember the ids of a list.
AcceptElementForgets ==
  /\ LayerThere /\ Opens /\ at <= Len(Elements)
  /\ LET e == Elements[at]
     IN Named(ListName, e) /\ Fresh(e) /\ Sound(scenario, ListName, e)
  /\ at' = at + 1
  /\ UNCHANGED <<scenario, gate, list, seen, report, overall, search>>

AcceptElement ==
  /\ LayerThere /\ Opens /\ at <= Len(Elements)
  /\ LET e == Elements[at]
     IN /\ Named(ListName, e) /\ Fresh(e) /\ Sound(scenario, ListName, e)
        /\ seen' = IF ListName \in Anonymous THEN seen ELSE seen \cup {e.id}
  /\ at' = at + 1
  /\ UNCHANGED <<scenario, gate, list, report, overall, search>>

RefuseElement ==
  /\ LayerThere /\ Opens /\ at <= Len(Elements)
  /\ LET e == Elements[at]
     IN ~(Named(ListName, e) /\ Fresh(e) /\ Sound(scenario, ListName, e))
  /\ AddResult(FALSE, "REJECT")
  /\ UNCHANGED search

RefuseEmpty ==
  /\ LayerThere /\ Opens /\ Elements = <<>> /\ ListName \notin MayBeEmpty
  /\ AddResult(FALSE, "REJECT")
  /\ UNCHANGED search

\* The whole list is accepted: the next one, or the end of the gate.
EndOfList ==
  /\ LayerThere /\ Opens /\ at > Len(Elements)
  /\ Elements = <<>> => ListName \in MayBeEmpty
  /\ IF list < Len(Walks[Rule])
     THEN /\ list' = list + 1
          /\ at' = 1
          /\ seen' = {}
          /\ UNCHANGED <<scenario, gate, report, overall>>
     ELSE AddResult(TRUE, IF Rule = "events" /\ Elements = <<>>
                          THEN "WARN" ELSE "REJECT")
  /\ UNCHANGED search

-----------------------------------------------------------------------------
(***************************************************************************)
(* detect_cycle and dfs_visit.  detect_cycle makes all variables white; it *)
(* is the only user of the colours, which are white from the start here.   *)
(***************************************************************************)
Searching == Running /\ Rule = "cycle_detection"

Call(v) == [node |-> v, left |-> Successors(scenario, v)]
Top == stack[Len(stack)]
Returned == SubSeq(stack, 1, Len(stack) - 1)

StartVisit ==
  /\ Searching /\ stack = <<>>
  /\ \E v \in white :
       /\ white' = white \ {v}
       /\ gray' = gray \cup {v}
       /\ stack' = <<Call(v)>>
  /\ UNCHANGED <<scenario, gate, walk, report, overall, black>>

BackEdge ==
  /\ Searching /\ stack # <<>>
  /\ \E v \in Top.left : v \in gray
  /\ AddResult(FALSE, "REJECT")
  /\ UNCHANGED search

VisitNeighbour ==
  /\ Searching /\ stack # <<>>
  /\ \E v \in Top.left \cap white :
       /\ white' = white \ {v}
       /\ gray' = gray \cup {v}
       /\ stack' = Append(Append(Returned, [Top EXCEPT !.left = @ \ {v}]),
                          Call(v))
  /\ UNCHANGED <<scenario, gate, walk, report, overall, black>>

SkipNeighbour ==
  /\ Searching /\ stack # <<>>
  /\ \E v \in Top.left \ (gray \cup white) :
       stack' = Append(Returned, [Top EXCEPT !.left = @ \ {v}])
  /\ UNCHANGED <<scenario, gate, walk, report, overall, white, gray, black>>

\* The bug of leaving a finished variable gray.
FinishVisitStaysGray ==
  /\ Searching /\ stack # <<>> /\ Top.left = {}
  /\ black' = black \cup {Top.node}
  /\ stack' = Returned
  /\ UNCHANGED <<scenario, gate, walk, report, overall, white, gray>>

FinishVisit ==
  /\ Searching /\ stack # <<>> /\ Top.left = {}
  /\ gray' = gray \ {Top.node}
  /\ black' = black \cup {Top.node}
  /\ stack' = Returned
  /\ UNCHANGED <<scenario, gate, walk, report, overall, white>>

NoCycle ==
  /\ Searching /\ stack = <<>> /\ white = {}
  /\ AddResult(TRUE, "REJECT")
  /\ UNCHANGED search

-----------------------------------------------------------------------------
ValidatorInit ==
  /\ scenario \in Scenarios
  /\ gate = 1
  /\ list = 1
  /\ at = 1
  /\ seen = {}
  /\ report = <<>>
  /\ overall = TRUE
  /\ white = Linked(scenario)
  /\ gray = {}
  /\ black = {}
  /\ stack = <<>>

WalkStep == \/ NoAgentLayer \/ RefuseWorld \/ AcceptElement \/ RefuseElement
            \/ RefuseEmpty \/ EndOfList

SearchStep == \/ StartVisit \/ BackEdge \/ VisitNeighbour \/ SkipNeighbour
              \/ FinishVisit \/ NoCycle

ValidatorNext == GoalGate \/ WholeGate \/ NotingGate \/ WalkStep \/ SearchStep

-----------------------------------------------------------------------------
(***************************************************************************)
(* Properties.                                                             *)
(***************************************************************************)
\* A finite graph has a cycle iff some of its nodes each have a successor among
\* them.
Cyclic(s) ==
  \E nodes \in SUBSET Linked(s) :
    nodes # {} /\ \A v \in nodes : Successors(s, v) \cap nodes # {}

\* The search for cycles (detect_cycle, dfs_visit) refuses a scenario exactly
\* when its dependency graph has a cycle: a variable reached twice along
\* different paths is no cycle, and a cycle is found wherever the search has
\* started.
CyclesFound ==
  \A k \in DOMAIN report :
    report[k].rule = "cycle_detection" =>
      (report[k].passed <=> ~Cyclic(scenario))

\* What a gate promises of the whole scenario.
ListHolds(s, l) ==
  /\ s[l] # <<>> \/ l \in MayBeEmpty
  /\ \A k \in DOMAIN s[l] : Named(l, s[l][k]) /\ Sound(s, l, s[l][k])
  /\ l \notin Anonymous =>
       \A j, k \in DOMAIN s[l] : s[l][j].id = s[l][k].id => j = k

GateHolds(s, rule) ==
  CASE rule = "goal_statement" -> s.goal = "long"
    [] rule = "required_fields" -> RequiredFieldsPresent(s)
    [] rule = "type_compatibility" -> TypesCompatible(s)
    [] rule = "initial_constraints" -> InitialConstraintsPass(s)
    [] rule = "cycle_detection" -> ~Cyclic(s)
    [] rule = "agent_layer" ->
         s.agent_layer # None =>
           SoundAgentWorld(s.agent_layer) /\ \A l \in AgentLists : ListHolds(s, l)
    [] rule = "typed_layer" ->
         /\ s.agent_layer = None
         /\ SoundTypedWorld(s.typed_layer)
         /\ \A l \in TypedLists : ListHolds(s, l)
    [] rule \in {"unknown_fields", "anti_patterns", "orphan_variables",
                 "fan_out_limits", "depth_limits"} -> TRUE
    [] OTHER -> ListHolds(s, Walks[rule][1])

\* The report tells, for every gate that has been passed, whether the scenario
\* as a whole satisfies it, though a gate stops at the first element it
\* refuses; and the verdict is that no failure at level REJECT was reported.
ReportExact ==
  /\ \A k \in DOMAIN report :
       report[k].passed <=> GateHolds(scenario, report[k].rule)
  /\ overall <=> \A k \in DOMAIN report :
                   report[k].passed \/ report[k].level # "REJECT"
=============================================================================
