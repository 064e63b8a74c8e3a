# NoisiaX: a TLA+ model

NoisiaX compiles a scenario document into a deterministic, single-threaded
discrete-event simulation and runs it. This directory models the way of a
scenario from the file to the report: the serializer, the resolver that composes
files and lowers extensions, the validator, the compiler, the three runtimes and
the runner of experiments. TLC checks all of them on small instances; TLAPS
proves the main properties of the runtimes, the resolver, the validator and the
experiment runner for every scenario.

There are no threads, sockets or processes in NoisiaX. What makes it hard is of
another kind: events that are due at the same time, chains of events that act
for the same agent without knowing of each other, state that is read by one
event and used by a later one, incremental recomputation with flags that must
never lie, exceptions in the middle of a step, limits that cut a run short, and
relations and memories that expire at the instant they might be used.

## 1. The system

| part | source | state | operations |
|---|---|---|---|
| agent runtime (schema v2) | `src/engine/agent_runtime.cpp` | event queue, clock, agents (location, budget, memories, conversation), shops (stock, `queue_size`) | one handler per event type, `schedule_event`, memory decay, the loop with its time and event limits |
| propagation engine (v1) | `src/engine/simulation_engine.cpp` | values in typed buffers, stale flags, the two views of the dependency graph, checkpoints | `set_*`, `push_invalidation`, `pull_recompute`, `save_checkpoint`, `load_checkpoint` |
| event scheduler (v1) | `src/scheduler/event_scheduler.cpp` | priority queue, callbacks, history, clock | `schedule_event`, `process_next_event`, `process_events_until` |
| first-version run loop | `src/noisiax.cpp` | the report | apply a payload, settle all stale variables, enforce constraints, next event |
| typed runtime (v3) | `src/engine/typed_runtime.cpp` | event queue, clock, entities with typed fields, relations with an expiry, causal graph | expire relations, run the triggered systems: match, write, create relations, emit events |
| scenario compiler | `src/compiler/scenario_compiler.cpp` | none | handles, adjacency lists, event queue, constraint programs, agent and typed layers |
| scenario validator | `src/validation/scenario_validator.cpp` | the report; within a gate the ids seen, in the search colours and recursion | gates; cycle, fan-out and depth searches; layer checks |
| scenario resolver (v4, v5) | `src/experiment/scenario_resolver.cpp` | set of files being visited, cache of resolved files | imports, namespaces, merging, extension transforms |
| experiment runner (v4) | `src/experiment/experiment_runner.cpp` | run manifests, metric samples | variants × seeds, overrides, overlays, metrics, aggregation, `fail_fast` |
| extension registry and extensions (v5) | `src/extensions/`, `include/noisiax/extensions/` | symbol tables | resolve declared extensions, lower authoring blocks |
| serializer, parsers, command line | `src/serialization/`, `src/noisiax_cli.cpp` | none | YAML, expressions, printing |

How they interact: the resolver and the serializer produce a scenario, the
validator judges it, the compiler translates it, and `run_scenario` (or
`run_scenario_detailed`) hands it to exactly one of the three runtimes: the typed
runtime if there is a typed layer, the agent runtime if there is an agent layer,
and otherwise the first-version loop, which drives the scheduler and the
propagation engine. The experiment runner repeats all of that for every variant
and seed. All calls are synchronous. `compile_scenario` validates first; the
class `ScenarioCompiler` is public too and does not, and the propagation engine
is a public library of its own, so graphs with cycles do reach the engine.

What is hard in each part, and what makes it correct:

* *Agent runtime.* An observation or the end of a conversation starts one more
  chain of events for an agent, and nothing joins chains. So stock and budget are
  tested when the agent enters a queue and spent a service time later, after other
  customers and its own other chains have acted. It is correct if counters match
  the customers they count, no sale is unpaid and no payment undelivered, nobody
  silently stops acting, conversations are mutual, and nothing due is lost.
* *Propagation.* Both traversals leave the flags half changed, and a pull can be
  cut short by an exception. It is correct if no flag ever vouches for a value
  that the graph contradicts, and a pull does no more than it must.
* *Run loop.* The constraints see a state only once everything has settled; events
  are handled in the scheduler's order; a constraint that rejects is never broken
  in a run that goes on.
* *Typed runtime.* Systems change the relations they range over, events may be
  emitted into the past, and an exception leaves a match half done. It is correct
  if relation bounds hold throughout, expired relations are never matched, the
  causal graph is sound and nothing due is lost.

* *Resolver.* A set of files being visited and a cache decide together what is a
  circular import, and names are rewritten at every return from an import. It is
  correct if circular imports are reported exactly when there are any, a file is
  opened once whoever imports it, and every name in the result means what it meant
  in the fragment it comes from.
* *Experiment runner.* One of many runs may fail in any of its stages. It is correct
  if the others are unaffected, failures are reported, and every aggregate is
  explained by the manifests.
* *Validator.* Some twenty gates walk lists with early returns, and each relies on
  looking up what other lists declare. It is correct if every gate's verdict is true
  of the whole scenario, if what is accepted refers to nothing that is missing, and
  if the search for cycles finds one exactly when there is one, from wherever it
  starts.
* *Compiler.* Correct if it throws only on what the validator does not look at, and
  if no two variables, events or component instances share a place in its tables.
* *Serializer and extensions.* A resolved document is written as text that is read
  again by later runs. Correct if nothing is lost or applied twice on the way, and if
  the blocks and declarations that several files give are all honoured.

The complete list of hazards, each with its line and the properties that watch
it, is in `PROJECT.json`.

## 2. The modules

| module | what it is |
|---|---|
| `AgentMarket` | the agent runtime: one action per event handler |
| `MarketService` | what the shops promise: tickets, sales, refusals; no time, no counters |
| `AgentMarketRefinement` | the mapping from the first to the second |
| `Propagation` | state and steps of the propagation engine |
| `PropagationLibrary` | the engine in the hands of a program that writes, pulls, saves and restores |
| `Freshness` | what the stale flags promise: atomic invalidation, atomic refresh |
| `V1Run` | scheduler and run loop on top of `Propagation` |
| `TypedRuntime` | the typed runtime |
| `ScenarioResolver` | imports: the recursion over files, its visited set and cache, namespaces, merging |
| `ScenarioComposition` | what composition should give, from the paths of imports alone |
| `ExperimentRunner` | variants and seeds, overrides, overlays, metrics, failures, aggregates |
| `GateChecks` | what the validator asks of one element of each list |
| `ScenarioValidator` | the gates in their order, the walks over the lists, the search for cycles |
| `ScenarioCompiler` | validation followed by compilation: the tables, and what the compiler throws on |
| `ScenarioText` | the serializer: every struct as a table of fields, reading and writing |
| `ExtensionPipeline` | from files with extensions to the canonical text, and again from there |
| `MC...` | small instances for TLC, with one `.cfg` per run |
| `...Proofs` | theorems and their proofs; `EngineProofs` is about `Propagation`, `PropagationLibrary` and `V1Run`; `ExtensionPipelineProofs` rests on `ScenarioTextProofs` |

`MCAgentMarket` extends `AgentMarketRefinement`, which extends `AgentMarket` and
instantiates `MarketService`. `PropagationLibrary` and `V1Run` both extend
`Propagation` and say who calls it; the former instantiates `Freshness`.
`ScenarioCompiler` extends `ScenarioValidator`, which extends `GateChecks`;
`ExtensionPipeline` extends `ScenarioText`.

### AgentMarket

A pending `RuntimeEvent` is a record in the set `queue`; `Before` is
`RuntimeEventComparator`, with the handle text reduced to the rank of the type
name and the ordinal. `Pop` is the head of the loop, `Schedule` is
`schedule_event`, and every `case` of the switch is an action:

| action | handler | next |
|---|---|---|
| `SimStart` | `SIM_START` | a decision for each agent |
| `DecidePurchase` | `DECIDE_PURCHASE` | a walk to a shop, or another decision later |
| `MoveStart`, `MoveArrive` | `MOVE_START`, `MOVE_ARRIVE` | arrival, queue |
| `QueueEnter` | `QUEUE_ENTER` (`Admit`, `TurnAway`) | a purchase after the service time, or a new decision |
| `Purchase` | `PURCHASE` (`Sale`, `NoSale`) | observations, a conversation, the next decision |
| `ObservePurchase` | `OBSERVE_PURCHASE` | memories with their decay, a decision |
| `TalkStart`, `TalkEnd` | `TALK_START`, `TALK_END` | the end of the talk; shared memories, decisions |
| `InfluenceDecay` | `INFLUENCE_DECAY` | |
| `EraseFromEmpty` | `add_memory` in `OBSERVE_PURCHASE` and `TALK_END`, without slots | a crash |
| `SimEnd`, `LeaveLoop` | `SIM_END`, the breaks of the loop | the end |

Time is counted in ticks of 0.1, the shortest fixed delay of the runtime, and
money in cents. The utilities of `DECIDE_PURCHASE` decide which offer wins, so
any candidate offer may win. A draw of the random number generator is any value
from its range. Traces and statistics that no handler reads are left out.
The validator does not look at `memory_slots`, so `MemorySlots` holds any
numbers and the initial state chooses among them. An agent with 0 slots has a memory that
is full and empty at once, and `add_memory` erases `begin()` of it. That is
undefined, but the vector has never had an element, so that `begin()` is null, and what is
destroyed lies in front of it: the run crashes (`EraseFromEmpty`, phase "crashed").

### Propagation, PropagationLibrary, V1Run

`toVisit` and `visited` are the locals of `push_invalidation`, and a step is one
iteration of its loop. `stack` is the recursion of `pull_recompute`; a frame
first walks over the sources, recursing into stale ones, then over the edges,
combining their influence, then stores and clears the flag. A variable that is
already on the stack makes it throw (`CycleDetected`). Doubles are integers; a
boolean keeps only whether a number is zero; a text has no numeric value. The
worklist is a set, so every order of visits is covered.

In `V1Run`, `phase` says where the loop is: popping an event (`PopEvent`),
applying its payload write by write (`ApplyWrite`, with a push in between),
listing what is stale (`EndOfPayload`), pulling it (`PullNext`), then enforcing
constraints (`Enforce`). `Payloads` gives an event the payloads it may have, so
that one model covers a family of scenarios. A constraint is a bound on one
variable, with a level, and may be unreadable.

### TypedRuntime

`Pop` takes the first event and drops the relations that have expired;
`BeginSystem` picks the triggered systems in declaration order and captures their
matches; `NextMatch` visits one, evaluates its guard, and lays out its operations;
`Write`, `CreateRelation` and `EmitEvent` perform them one at a time, in that
order, and `SkipOperation` is a guard that does not hold. An expression is the set
of what it can yield, which includes throwing, so `Throw` may end the run at any
evaluation. `CreateRelation` inside a system over relations may move the vector
that the loop iterates over; from then on `Crash` is possible, and so is every
outcome of ordinary steps. The test programs and the command line use the same
entry point, so all of this is reachable from a scenario file.

Of the traces, only the recorded events with their parents are kept.

### ScenarioResolver, ScenarioComposition

`resolve_definition` calls itself for each import; `stack` holds its calls, and a
step is a call (`Open`, `TakeFromCache`, or an exception: `RefuseCircular`,
`FailToRead`), what the caller does with a result (`Compose`, or `RefuseImport` when
the namespace is malformed, an id is taken or the worlds differ), or a return
(`Return`: `visiting.erase` and `resolved_cache.emplace`). `Validate` is the end of
`resolve_scenario`. The files on disk are chosen in the initial state.

An id is a sequence of namespaces and a name, where the code joins them with `__`;
names are assumed to hold no `__` of their own (a document may, and then two ids
that differ here can be equal there). One name is the empty string, `Blank`: `prefix_id`
prefixes it like any other, `append_unique` takes it for no id, and the validator
refuses it in a layer only. Beside a typed layer the validator skips the gates of the core
sections, beside an agent layer it does not; `SkippedKinds` says which kinds are meant, and `Gated`
when. A scenario is the list of what it declares
with what each declaration refers to, and the world of its layer. The agent and the
typed layer are one layer here; extension blocks are in `ExtensionPipeline`.

### ExperimentRunner

`variant` and `seed` are the positions of the two loops of `run_experiment`. A run is
`BeginRun` (a fresh tree from `canonical_yaml`, a fresh generator), one
`ApplyOverride` or `ApplyOverlay` per entry, `Execute` (deserialize, compile, run),
one `ReadMetric` per metric and `EndRun` with the detail file. `Caught` is the catch
block, which any of them may reach, with the manifest as far as it has got. `Report`
ends the experiment. The generator is a function from seed, stream and count that is
filled in when it is first asked (`generator`), so that equal questions have equal
answers and different ones any; `drawn` is `stream_counters_`. A scenario is a
function from the places that overrides address to what stands there. Sampling is a
choice from a list; the outcome of a run of the simulator, and what a metric reads,
are any that its kind allows.

### GateChecks, ScenarioValidator, ScenarioCompiler

A scenario is a record of lists, one for each section of the document. `gate` is how
far `validate` has got. A gate either judges the scenario as a whole (`GoalGate`,
`WholeGate`), writes a note and passes (`NotingGate`), or walks lists: `list` and `at`
are the positions of its loops and `seen` the ids it has met. An element is accepted
(`AcceptElement`) or ends the gate (`RefuseElement`); `RefuseWorld`, `RefuseEmpty` and
`NoAgentLayer` are its other early returns and `EndOfList` its normal end.
`AddNotedResult` is `ValidationReport::add_result`. What an element has to satisfy is a
predicate of `GateChecks` (`SoundVariable`, `SoundTypedEntity`, `SoundSystem`, ...).

`detect_cycle` and `dfs_visit` are the actions of `SearchStep`: `white`, `gray` and
`black` are the colours, `stack` the recursion, each call with the neighbours it has
left. Edges of a variable are followed in any order, where the code has the order of the
document. `Depth` is the farthest of the shortest distances from a root, which is what
the breadth-first search computes.

`InitiallyPasses` is the validator's own parser of constraints, which evaluates while
it parses; `RuntimeHolds` is the one of the run loop, which evaluates both sides.
`Compile` is the rest of `compile_scenario`: refuse what validation rejects, throw
(`CoreThrows`, `TypedThrows`), or return tables, of which those are modelled that are
computed rather than copied. Doubles are integers and `NaN`; texts are compared and
never taken apart, except for the paths of writes, which are sequences.

What the model shows along the way: the checks for orphans, fan-out and depth put their
findings into the message and leave `passed` true, and so never appear among the warnings
of a report, though `plans/PLAN_v1.md:45` expects warnings or rejections; the policies given to
`set_validation_level` are never read; `compile_scenario(filepath)` validates twice; variables of
type ENUM and LIST pass validation, and the compiler has no buffer for them.

### ScenarioText, ExtensionPipeline

The serializer goes through the same fields twice, once to write and once to read. In
`ScenarioText` the fields of each struct are a table: for each key the kind of value,
whether a missing key is an error, read as empty or read as a default, and when it is
written. `ReadPart` and `WritePart` go over the tables, so `deserialize` and `serialize` are
`Deserialize` and `Serialize`. Structs are at most four in one another, as the loops of the code
are, and so `Read1` to `Read4` are one level each on top of the one below. What may throw is
the set of what it returns, with one element or none: `Whole` reads the members of a struct one by one and is
empty if one of them is. YAML itself is external: a document is a tree of nodes.
A text is a token, and `Taken` says what each reader (`as<double>`, `std::stoll`, the names of
enumerations, ...) makes of it. `TextAssumption` says what the library is trusted with: what is printed is
taken again and gives the same value, but for numbers in YAML's own spelling (`NotNumbers`) and the seeds
that do not fit into an `int64_t` (`Wrapped`). In yaml-cpp 0.8.0, which `CMakeLists.txt:66` fetches,
`as<std::string>()` of a null node is the text `null` (`HasText`, `TextOf`): so a description that is
null is read as that text and written back as it, an import of the path null looks for a file named so, and
a level or a type that is null is refused as an unknown name. The other readers throw at null (`Readable`).

`ExtensionPipeline` is `resolve_scenario` around that. `ReadRoot` and `ReadImport` collect
the files with their declarations and blocks (`MergeDeclared`, `MergeNodes`, `MergeScenario`);
`Discover` looks the declared extensions up; `CheckBlocks` and `Transform` are the calls of each
extension; `Lower` strips what is reserved and deserializes; `Finish` replaces legacy names and
writes the canonical text; `ResolveAgain` is the `resolve` command run on its own output. The
files on disk are chosen in the initial state. Imports of imports and namespaces are in
`ScenarioResolver`. Blocks are merged through four maps in one another, which is deeper than the blocks of the
two extensions; below that a key that two files have is refused (`TooDeep`). The event that an extension
adds prints its value with a `std::ostringstream`, six digits, while the variable keeps them all
(`SixDigits`). The settings of the extensions are assumed
to be written as `std::stod` reads them (`SettingsAssumption`).

A payload or component is read by the declarations of its own file, before the layers are merged. A
value whose type only another file declares is therefore a text until the canonical document is read
again, when it gets its type: `Again` and `SettledText` say so. With extensions the merged document
is read once more in the same resolution, and the types are right at once.

Also seen here: a default-constructed `YAML::Node` counts as defined in yaml-cpp, so the branches
of `merge_declared_extensions` that adopt a missing version or config (844-852) are never taken; an
empty map of components is dropped by the writer; a scalar or null where a list belongs reads as an
empty list; `format_value` and the `hooks` of a declaration are never used; the market extension checks
that a setting is a scalar and only its transform finds out that it is no number;
`noisiax_compat` is never compared with anything.

## 3. What TLC checks

| run | module | scenario | properties |
|---|---|---|---|
| `pair` | MCAgentMarket | two agents, both with memory slots or one without, two shops, `max_time` below the duration, an event limit that some behaviours reach | `QueueCounted`, `NobodyDropsOut`, `MemoriesBoundedAndFresh`, `LedgerBalanced`, `NothingDueIsDropped` |
| `trio` | MCAgentMarket | three agents, one walking in, a queue of two that fills up, talks of two lengths | `ConversationsPaired`, `ImplementsService`, `DueCustomersServed` |
| `diamond` | MCPropagation | four variables in a diamond, two calls with checkpoints anywhere | `StaleClosed`, `ComputedFromFresh`, `CleanMeansConsistent`, `PullIsMinimal`, `ImplementsFreshness` |
| `shop` | MCV1Run | seven variables, four events, payloads that succeed, break a bound half-way, or enter a cycle | `SettledWhenChecked`, `HandledInOrder`, `SuccessKeepsConstraints`, `CallsReturn` |
| `atoms` | MCTypedRuntime | two atoms, bonds and trails with bounds and expiry, initial relations beyond a bound, a role that is not filled, and a lamp whose flashes are emitted for the past, the present and the future, under both limits | `RelationBoundsKept`, `ActiveRelationsOnly`, `RecordedInOrder`, `CausalLinksSound`, `NothingDueIsDropped`, `RunEnds` |
| `imports` | MCScenarioResolver | three files that import each other in every way, with and without namespaces, ids that collide, worlds that differ, a file that cannot be read | `CircularImportsReported`, `NamesBindLexically`, `ResolutionEnds` |
| `seeds` | MCExperimentRunner | experiments with up to three variants and two seeds, also the same seed twice and a repeated overlay id, overrides that do not apply, values that are not valid, metrics that are missing, no numbers, or throw | `EveryRunReported`, `Reproducible`, `SuccessMeansComplete`, `AggregatesExplained` |
| `gates` | MCScenarioCompiler | good scenarios of the three kinds with every one or two edits, every graph of up to four edges over four variables, every small constraint: 4943 scenarios | `CyclesFound`, `ReportExact`, `AcceptedReferencesResolve`, `AcceptedConstraintsHold`, `CompilesUnlessUnsupported`, `CompiledTablesSound` |
| `documents` | MCExtensionPipeline | a scenario with every field of every struct and every one edit of it, every type with every value, files that declare extensions and import each other's blocks; resolved three times over | `RereadAsWritten`, `CanonicalSettles`, `LoweredOnce`, `DeclarationsHonoured` |
| `moving`, `pairs`, `either` | | violations, below | one each |

`NamesBindLexically` compares the result with a definition that knows nothing of
stack and cache: one copy of every declaration for every path of imports to its
file, named after the namespaces on the path, and each reference bound to what the
innermost fragment around it declares under that name.

`ReportExact` compares the report, made by walks that stop early, with a definition that
looks at the whole scenario at once; `CyclesFound` compares the search with the existence of a
set of variables each of which has a successor in the set. `AcceptedReferencesResolve` follows
every reference of an accepted scenario. `CompilesUnlessUnsupported` says in both directions what the
validator leaves to the compiler: variables without a buffer type, propagation functions that are
not registered, roles of writes in systems over pairs and relations, and, because a typed
scenario's sections of the first version are compiled but not validated, all of these in there.

`RereadAsWritten` and `CanonicalSettles` name their exceptions, which are what the code does
today: seeds from 2^63 on are written as negative numbers and refused when read; so is
a FLOAT default that is not a number; the goal, a literal block, gets one line break
when it is first written; a default that was not given is the integer 0 and takes the type of its
variable only when it is read again.

Every property has a mutant in `PROJECT.json`: a definition with a plausible bug
(written next to the right one in the module, after "The bug of ..."), under
which TLC finds the property violated in the same run. The type invariants
of the modules with theorems are proved (section 4), and no run is spent on them.

### Where the code and its documents part

Three runs are violations; each checks one sentence of the repository.

* `moving`: a system over relations that creates relations pushes onto the vector
  that its range-for iterates over. When the vector moves, the loop goes on
  through dangling iterators.
* `pairs`: `plans/PLAN_v4.md:25` makes unresolved references "hard validation
  failures". Under a namespace the component types of a fragment are renamed, but in
  expressions `rewrite_dotted_identifiers` looks up the first segment of a path
  only, so `self.Comp.field` keeps the old name; the validator does not read
  expressions, and the scenario resolves. The reference fails when the system runs,
  or silently reads a component of the importer that has the old name.
* `either`: `plans/PLAN_v1.md:44` has unsatisfiable initial constraints rejected before
  the run. In the validator's parser `value = value || parse_logical_and()` does not parse its right
  side once the left is true; the rest of the text then counts as trailing input, and a
  constraint is rejected whose first alternative holds. The property is the other half of the quoted
  sentence, which does not say in so many words that nothing else is rejected. The disagreement
  is real all the same: the message "Unexpected trailing token in constraint expression"
  (`scenario_validator.cpp:25`) speaks of a token where nothing trails the expression, and the parser of
  the run loop evaluates both sides of the same text and finds it satisfied.

Three more were met on the way and have no run of their own. `QUEUE_ENTER` books the whole waiting
time in advance and each chain of an agent books its own, so that at the end of a run an agent may
have queued for longer than the run lasted. `pull_recompute` starts from the old value of the target, so
every recomputation adds the source of an additive edge once more, where the design document describes the sum of
the present influences. `plans/PLAN_v3.md:42` has writes applied "after each system execution", while
`execute_match` applies each at once and the rest of the system reads it.

### Bounds

The constants of the MC modules are the only bounds, apart from `MaxCalls`, which
limits the writes and restores of `PropagationLibrary`, and `MaxGenerations`, which limits how
often a document is resolved again. No state constraint is
used. Time is bounded by the scenario's own duration, as in the code.

* Two agents suffice for everything about counters, money and memories, because
  an agent competes with its own second chain for the same stock and the same
  queue; 7 time units let it decide, walk, queue, buy, be observed and decide
  again, and memories (5 time units) expire within the run. The slots are one and two, so that
  a memory of two overflows, or none and two, so that one agent's first memory crashes the run. A third agent is
  needed for a conversation that a rival proposal could cut into, and for a full
  queue of two. A shorter duration keeps `trio` small and still lets every handler
  it needs fire.
* A diamond with a tail is the smallest graph with two paths to one variable and
  something below it. Two calls are enough for a restore after a write, or a
  second write while variables are still stale.
* In `shop` the second event in turn decides how the run ends; before and after
  it come writes that do not fit, a delta to a text, an event without callback and
  events tied in time or priority.
* Two atoms make one pair. With one bond in the scenario and another at every tick, a
  bound of two per atom is reached at the first tick and tested at the next; three
  trails in the scenario exceed their bound of two until two of them expire. Lifetimes of
  one to three units let a relation expire before, at or after the next tick. The lamp's
  events need no entities of their own, because all that matters to them is the queue.
* Three files give every shape of import graph that the resolver tells apart: a
  cycle through the root and one below it, a diamond, a chain, the same file twice
  under two namespaces, once or both times from the cache. `main` has up to two
  imports, the others one. One malformed namespace stands for all; two well-formed
  ones are enough for a collision and for nesting. One variable has the empty string for an
  id and refers to itself, which a typed scenario gets away with.
* An experiment with one variant and one seed given twice shows what two runs share
  and lets everything after a run go wrong, for both of them; two variants with two
  seeds show both loops; the variants that fail early are each tried with and
  without `fail_fast`. One overlay of the experiment and one of a variant with the
  same id make a stream of two draws.
* In `gates` every edit breaks, or bends without breaking, one thing that a gate looks at: a
  reference, an id, a number at its limit or `NaN`, an empty list, a duplicate. Two edits
  at once show a gate that goes on after another has failed. Four edges over four variables
  give a diamond, a cycle behind a finished part, a cycle of every length, loops and
  parallel edges. `FanOutLimit` and `DepthLimit` are 1 (50 and 20 in the code), so that
  these graphs exceed them; the checks only note it.
* In `documents` three resolutions show a document that is written, read and written again twice,
  so that a text that keeps changing would be seen. Two imports are enough for declarations and blocks that
  agree, disagree or are given by one file only; a null wherever a text may stand, and a setting of more
  than six digits, are among the edits; texts of versions and ranges are the ones that the
  registry tells apart.

Deadlock checking is off where a finished run has nothing left to do; in the
models this is the phase "ended", "halted", "crashed", "done", or the status "resolved" or
"failed". In `diamond`, `gates` and `documents` it is on; in the last two the only way
to stop is the action `Terminated`.

### Fairness

Every fairness condition is weak fairness of `Next`: the loop is a single thread
that waits for nothing and goes on as long as the program gets to run. Nothing is
assumed about which event, match or outcome is chosen. It is used by the four
liveness properties, in `trio`, `shop`, `atoms` and `imports`; the other
specifications state no fairness.

## 4. What TLAPS proves

Theorems hold for every value of the constants under the modules' `ASSUME`s. Those of the
runtimes say what the validator and the compiler guarantee and no more; the others give
the shape of parsed files, and what yaml-cpp and `std::stod` are trusted with. TLC
evaluates them in every run. One theorem, `CanonicalTextSettles`, has a hypothesis of its own, which TLC cannot
evaluate for the model value `Nothing`: that `std::nullopt` is no typed layer.

**Agent runtime.** `TypeCorrect` and `QueueAlwaysWellFormed` come from one
inductive invariant, `TypeOK` with `QueueWellFormed`: each type of event
carries the indices its handler uses, ordinals are unique, and no pending event
lies in the past. Type correctness includes that budgets and stocks are never
negative, and needs the second test at `PURCHASE`. On top of it
stand `QueuesAreCounted` (adding and removing one
PURCHASE event against the counter), `ConversationsArePaired`,
`NobodyEverDropsOut` (every handler of an agent's chain schedules a successor),
`NothingDueIsEverDropped` (SIM_END stays pending and has the lowest priority, so
whatever is still pending when it is popped is later), and `TimeAndLimitHold`.
`RuntimeImplementsService` maps the pending PURCHASE events to tickets: a
QUEUE_ENTER that admits is `Enter`, a PURCHASE is `Sell` or `Refuse`, and every
other handler stutters. It needs `QueueCounted`, because the code compares a
counter where the abstract shop counts tickets.

`MemoriesStayBounded` adds `MemoriesMarked`: a memory bears the ordinal of an event that has been
handled, and no two memories of an agent have the same event and part. They are then totally ordered, so
that "the newest `n`" are no more than `n`; this holds for every number of slots, 0 included, because there nothing is
ever pushed: the first attempt crashes, and nothing else does (`CrashesForWantOfSlots`). And each memory that has not expired has a decay event of its own
pending, which only its own handling removes. `LedgerAlwaysBalances` counts by piling up: the units sold of
an item, and the cents of an offer, are pairs of an offer and a number below its count (`Piles`), so that a
sale adds as many pairs as its price says (`PileGrows`), and conservation is the cardinality of
four such sets (`LedgerCounted`). A purchase that fails its second test adds none.

**Propagation.** The inductive invariant `EngineInv` adds `SeenFresh` to the
properties TLC checks: the sources that a frame has passed are clean, except for
the one that is being recomputed above it on the stack. `StaleClosed` holds in the
middle of a push because what is not yet marked is in the worklist. For `PullsComplete` a cycle
found by the recursion is turned into a set of variables each with a source in the
set. `CleanFlagsTellTheTruth` follows values through combination (`Combined`), and
a restore through the same facts about the checkpoint (`SavedOK`).
`EngineImplementsFreshness` maps the dirty set to everything downstream of the stale
variables and the worklist: a push then has one visible step, its first, and a pull
refreshes one variable in its last. `PullsAreMinimal` is about steps: a frame is for a stale source of the
frame below it, so that whatever set holds the target and the stale sources of its own holds
all the stack (`StackUpstream`); only the last variable of the stack changes.

**Run loop.** `RunInv` adds to `EngineInv` that, while the state settles, what is
stale is among the variables still to be pulled or on the stack (`Settling`); an
empty list then means a settled state. The other theorems are `RunTypeCorrect`,
`RunFlagsTellTheTruth`, `SuccessMeansConstraintsHold` and `EventsHandledInOrder`.

**Typed runtime.** `EventInv` is the inductive invariant for events:
`NumbersUnique` (no ordinal is given twice), `ParentsKnown` (parents are recorded
or being handled), `TurnsKept` (whatever is pending comes in turn after what is
recorded, unless it was born later), `NoneLost` (every ordinal given out is
recorded, pending or being handled) and `NothingDueLeft`. From it follow
`EventsRecordedInOrder`, `CausalLinksAlwaysSound` and `NothingDueIsEverDropped`.
`BoundsAlwaysKept` rests on lemmas about a bound counted before one element is
added and about removing elements; `NoExpiredRelations` on the fact that relations
are created with a positive lifetime and dropped with `<=`.

**Resolver.** `ResolverInv` says that each call on the stack is for the import its
caller is at, that all earlier imports of a call are cached (`MergedIsCached`), that
what was returned is cached, and that the cache is closed under imports and holds no
cycle (`CacheAcyclic`): a file enters it after all of its imports, and nothing cached
imports it. A file wanted while it is visited closes the cycle of the calls from its
own to the innermost; a resolved root is cached, and with it everything it reaches.
That is `CyclesAreReported`, in both directions and for every import graph. A cycle
is a set of files each of which imports one of the set, and reachability the least
set closed under imports, so neither needs recursion. `FilesAreOpenedOnce` and
`ResolverTypeCorrect` follow from the same invariant.

`NamesAlwaysBindLexically` states the composition for every import graph. `CompositionInv` says that
each call on the stack has composed what its file holds and what the imports already merged contribute
(`CallsComposed`), and that what is cached or returned is whole (`CacheWhole`, `ReturnedWhole`). What a file
contributes is told by a one-to-one map from the items of a scenario to the occurrences of items on
the paths of imports that start at the file (`Composed`). It is kept at a merge because a path through an
import is the import followed by a path from its target: the ids get the import's namespace in front
(`QualifiedVia`), and so do the references that are bound inside. The code decides by the name as it has
become, and the definition by the name as it was written. They agree (`MeantVia`), because what one
file declares, the files around it know under the longer name, so that a reference once bound is
renamed at every merge on the way out (`KnownAbove`), and one that is not bound yet has its first name still.
A file that is cached gives every importer the same scenario, as the files do not change
(`ComposedKept`). The paths of the invariant are of any length; without a cycle no path passes a file
twice, by the pigeonhole principle, so that the paths shorter than the number of files are all there are
(`ImportPathsAreAll`). The files are assumed to be finitely many (`FilesAssumption`). An
optional reference that is not given is an empty string in the code, and no reference here.

**Validator.** `CyclesAlwaysFound` holds for every scenario. `SearchInv` says that every
variable has one colour and the gray ones are the nodes of the calls (`ColoursOK`), that each call
is for a successor of the one below it and that what it has done with is black, except for the one it
waits for (`CallsOK`), and that what is black leads only to what is black and into no cycle
(`BlackOK`). A gray successor closes a cycle of the calls from its own to the innermost. A
variable that turns black has black successors only, and so adds no cycle. When the search ends
without one, everything is black.

`ReportsAreExact` compares walks that stop early with definitions that look at the whole scenario.
`WalkOK` says of the walk at hand that the lists behind it hold, that what it has seen of the present
one is sound, and that `seen` is the set of the ids seen so far, which are distinct. A refusal then
has its reason in the list, and the end of the last list is the promise of the gate
(`WalkPromise`, `LayerPromise`). `GatesTold` adds that the report has one result for each gate
behind, in order, and that only a short goal is a failure that does not count. What is accepted has
therefore passed every gate (`GatesHold`), from which follow `AcceptedReferencesAlwaysResolve`, kind of
reference by kind of reference, `AcceptedConstraintsAlwaysHold`, because an expression passes only with all
of its text read and its last alternative satisfied, and `AcceptedAlwaysCompiles`, in both directions.

`TablesAlwaysSound` is about the compiled tables. The number of variables of one type before a
variable grows from one to the next (`OffsetsSound`). Timestamp, falling priority and handle make a strict
total order of events with distinct ids, which the gate `events` has made sure of; the numbers of
events before an event are then different and below the number of events, and so are all of
`0..n-1` (`PlacesFillUp`). The instances of the first `n` entities are a growing sequence of sets,
so that exactly one entity has the instance that `entity_to_instance` gives for it (`InstanceFound`); and
an entity type is found by its id because the gate `typed_layer` has made the ids unique.

The assumption, `ScenariosAssumption`, is the shape of a parsed scenario: sections and expressions are lists, a layer
that is not there has no elements, a type is one of `VariableType`, a timestamp a number or `NaN`, and the values
of an entity are a map of maps. `HandleRankAssumption` says that event ids are compared by a total order.

**Experiment runner.** `ExperimentInv` makes the two properties inductive. `Typed` keeps the positions of
both loops in their ranges, `AtHand` ties the manifest of a run under way to them, and
`Earned` says what the run has to its credit so far: once the report may have set `success`, its
scenario is valid, and every extension metric behind has its value. The number of reported runs is
`(variant - 1) * Len(SeedPlan) + seed - 1`; taking it apart again by division (`Numbered`)
gives the variant and the seed of each run, which is `EveryRunIsReported`.
`SuccessIsEarned` needs the catch block to take `success` back, and the detail file to be
written before the run is appended. `ExperimentAssumption` gives the shape of a base
scenario and keeps the marks for no scenario, no value and an exception, and texts, apart from
scenarios, values and numbers.

`AggregatesAreExplained` follows the samples of a metric through the runs: as far as the run at hand has
come, they are the numbers that the manifests show (`Tallied`), in order, so that count, extremes and sum
agree at the end. `RunsAreReproducible` compares two runs of one variant and seed that need not be next to each
other. `Plan`, `Expected` and `SamplesAfter` compute from the variant, the seed and the generator alone
which overrides a run follows and in which order, which draw each overlay gets from its stream, and which scenario
results; `Halts` and `Ended` say where such a run may stop. The invariant is that
every reported run has ended this way (`RunsEnded`) and that the run at hand is on its course (`InCourse`). No run goes
on where another of the same variant and seed halts for a reason of its own (`NoneGoesFurther`, `SameRuns`), and what
the generator has settled once it never changes (`Grows`).

**Extension pipeline.** `EveryDeclarationIsHonoured` holds for every set of files and every table of versions.
`DeclarationInv` follows the merging: what has been read so far has exactly the declarations of the files behind
(`AuthoringKept`), because a declaration of an id that is there already is either the same or refused (`MergeDeclaredIs`,
by induction over the declarations of an import), and a merge of blocks has the keys of both
(`BlocksMergedKeys`). `Discover` resolves all of these, and nothing is declared later
(`Resolvable`). A resolution without the lookup has neither declarations nor blocks. A canonical document declares
nothing and has keys of the core schema only (`SerializedKeys`), so that the later generations keep it.

`WhatIsResolvedIsReread` is a round trip for every scenario that the program can come to hold, of any size. What is
read from a document is *made* (`ScenarioMade`): every field has a value that is written and read back (`HeldField3`),
or one of the kinds with exceptions, whose shape is stated instead: defaults and bounds
(`DefaultMade`, `VariableMade`), the seed, and the typed values of components and payloads (`TypedValues`).
Merging (`MergedScenarioMade`) and canonical names (`CanonicalMade`) keep that, and what is made reads back as
`Again` says, or not at all (`SerializedRead`, `SerializedRefused`). The typed values need that a layer and the
node it is written to, or was read from, declare the same types (`TypesWritten`, `TypesRead`). A struct's
fields are steady by its table: a table with one level of structs below uses the facts of that level, four levels
in all (`StructsReadAsWritten` is the part of this without exceptions). The proof needs of the scalar readers only
`TextAssumption`, and of YAML that a list's node is a sequence (`FilesAssumption`).

`CanonicalTextSettles` follows the generations with one scenario in hand (`Generations`): what the first one resolves is
*settled*, made and with canonical names only; every later one reads a text of it, declares and imports nothing, and
holds what the settled scenario reads back as, which reads back as itself (`AgainSettled`, `SettledAgain`,
`SettledRead`). It may look up extensions, of which there are none, and read its document once more. What the texts
say is carried from the scenarios to the nodes row by row (`VariableSettles`, `EntitySettles`, `PayloadSettles`,
`LayerSettles`, `ScenarioSettles`). A layer must not print as absent once its values are read again,
which is where the hypothesis `NothingIsNoLayer` is needed.

`BlocksAreLoweredOnce` relates the first text to the files. While files are merged, the merged blocks say of each
setting what one of the files read so far says of it (`Said`, `BlocksMergedSay`), and the scenario at hand uses no
variable name that no file read so far uses (`NamesHeld`). Both need the other half of `FilesAssumption`, that a node
is null, a scalar, a sequence or a mapping down to the depth of a setting. Each extension behind in the
transform loop has replaced its block by its one variable with the value given, and the name of one still
ahead is free (`LoweredHeld`, `OneLowered`), because `AddedMarker` disturbs no other name. `Finish` renames references and prints,
which keeps the variables (`ScenarioHeld`). The invariant speaks of the first generation; a later one reads a text without blocks.

### What is only model-checked

* Liveness (`RunEnds`, `CallsReturn`, `DueCustomersServed`, `ResolutionEnds`):
  fairness and ENABLED are beyond the prover.

Induction over the naturals is used in the proofs in the form of sets of numbers: a set that holds 0, and
with each number the next, holds all, because finite sets are well-founded by inclusion (`LeastElement`). That reaches
definitions by recursive functions, but no RECURSIVE operators.

## 5. What is not modelled, and why

* The command line, but for `resolve`, prints what the library's entry points return.
  The hashes in a resolution report, and `load_file` and `save_file`, are plain I/O and arithmetic.
* The expression parser of the typed runtime keeps no state; an expression is modelled by
  what it can yield. The two parsers of constraints are modelled where they differ.
* The propagation functions and metrics that extensions register are arithmetic on doubles; the
  registries are filled once and only read.
* Floating point: ticks accumulated as doubles against `duration + 1e-12`, `llround` of values
  that do not fit. A `NaN` timestamp passes the validator and breaks the order that `std::sort` needs;
  the model has the `NaN`, and the property about the queue is stated for numbers.
* Handles are compared as text with eight digits; beyond 10^8 events the order
  changes. No run comes near it.
* Metrics of one id are not rejected by the experiment runner; `AggregatesExplained` is stated for
  distinct ids.
* `process_events_until` is not called by any run loop, and a checkpoint holds no
  event queue, so that resuming a run from one is left to the caller.
* `ncore/` holds fixtures, generators and build trees.

## 6. Plan

Written and ordered by how much of the simulation depends on it:

1. `AgentMarket` with `MarketService` (done, with proofs).
2. `Propagation`, `PropagationLibrary`, `Freshness`, `V1Run` (done, with proofs).
3. `TypedRuntime` (done, with proofs).
4. `ScenarioResolver`, `ScenarioComposition` (done, with proofs).
5. `ExperimentRunner` (done, with proofs).
6. `GateChecks`, `ScenarioValidator`, `ScenarioCompiler` (done, with proofs).
7. `ScenarioText`, `ExtensionPipeline` (done, with proofs).
8. `EventLoop`: an abstract event loop (pop the first, never past the end, stop at
   the limit, lose nothing) that all three runtimes implement.
