-------------------------- MODULE ExperimentRunner --------------------------
(***************************************************************************)
(* An experiment: every variant of a scenario is run with every seed       *)
(* (src/src/experiment/experiment_runner.cpp, run_experiment).             *)
(*                                                                         *)
(* A run starts from the base scenario, applies overrides, then overlays   *)
(* with sampled values, and reads, validates, runs and measures the        *)
(* result.  Any of these may throw; the catch block decides whether the    *)
(* experiment goes on.  A scenario comes down to the places that overrides *)
(* can address and what stands there; a run of the simulator to whether it *)
(* succeeds and what its metrics read.                                     *)
(***************************************************************************)
EXTENDS Naturals, Sequences

CONSTANTS
  Definitions, \* the experiments, of the type Definition
  Targets,     \* places in the scenario, by pointer or by typed field
  TypedFields, \* those addressed by entity, component and field
  Values,      \* what overrides and overlays put there
  Rejected,    \* the values that the validator does not accept
  Base,        \* the base scenario, a function on a set of targets
  MasterSeed,  \* the seed of the base scenario
  Seeds,
  Draws,       \* what the random number generator yields, 1 .. n
  Numbers,     \* numeric readings of metrics
  Text,        \* a reading that is no number
  Absent,      \* a reading that is not there
  Thrown,      \* a metric of an extension that throws
  None

Shapes == {"scalar", "sequence", "map"}
Node == [shape : Shapes, parts : Seq(Values)]
Override == [target : Targets, op : {"replace", "append", "merge"}, value : Node]
\* A choice among values; the other samplers choose from a range.
Overlay == [id : STRING, target : Targets, choices : Seq(Node)]
MetricKinds == {"runtime_stat", "typed_field_final", "extension"}
Metric == [id : STRING, kind : MetricKinds]
Variant == [id : STRING, overrides : Seq(Override), overlays : Seq(Overlay)]
Definition ==
  [overrides : Seq(Override), variants : Seq(Variant), seeds : Seq(Seeds),
   overlays : Seq(Overlay), metrics : Seq(Metric), failFast : BOOLEAN,
   details : BOOLEAN]

ASSUME ExperimentAssumption ==
  /\ Definitions \subseteq Definition
  /\ TypedFields \subseteq Targets
  /\ DOMAIN Base \subseteq Targets
  /\ Base \in [DOMAIN Base -> Node] /\ None \notin [DOMAIN Base -> Node]
  /\ MasterSeed \in Seeds
  /\ Draws \subseteq Nat \ {0}
  /\ Numbers \subseteq Nat
  /\ Absent \notin Numbers \cup {Text, Thrown} /\ Text \notin Numbers

VARIABLES
  definition,  \* the experiment
  variant,     \* the positions of both loops
  seed,
  phase,       \* "begin", "materialize", "metrics", "report"
  next,        \* the next override or overlay, or the next metric
  scenario,    \* scenario_node
  drawn,       \* stream_counters_ of the run's generator
  generator,   \* what the generator yields for a seed, a stream and a count
  manifest,    \* RunManifest of the run at hand
  runs,        \* ExperimentResult::runs
  samples,     \* metric_samples
  files,       \* runs whose details are written
  aggregates,  \* ExperimentResult::aggregates
  status       \* "running", "done", or "thrown" out of run_experiment

vars == <<definition, variant, seed, phase, next, scenario, drawn, generator,
          manifest, runs, samples, files, aggregates, status>>

\* Maps: operator[] and emplace.
With(f, k, v) == [x \in DOMAIN f \cup {k} |-> IF x = k THEN v ELSE f[x]]
Emplaced(f, k, v) == IF k \in DOMAIN f THEN f ELSE With(f, k, v)

Variants ==
  IF definition.variants = <<>>
  THEN <<[id |-> "default", overrides |-> <<>>, overlays |-> <<>>]>>
  ELSE definition.variants
SeedPlan == IF definition.seeds = <<>> THEN <<MasterSeed>> ELSE definition.seeds
TotalRuns == Len(Variants) * Len(SeedPlan)

OverridesOf(v) == definition.overrides \o Variants[v].overrides
OverlaysOf(v) == definition.overlays \o Variants[v].overlays

NewManifest ==
  [variant |-> variant, seed |-> SeedPlan[seed], overrides |-> <<>>,
   overlaySamples |-> <<>>, scenario |-> None, success |-> FALSE,
   exception |-> FALSE, metrics |-> <<>>]

-----------------------------------------------------------------------------
(***************************************************************************)
(* Overrides.                                                              *)
(***************************************************************************)
Applicable(o, s) ==
  /\ o.target \in DOMAIN s
  /\ o.target \in TypedFields => o.op = "replace"
  /\ o.op = "append" => s[o.target].shape = "sequence"
  /\ o.op = "merge" => s[o.target].shape = "map" /\ o.value.shape = "map"

\* A sequence is appended item by item.
Applied(o, s) ==
  [s EXCEPT ![o.target] =
     IF o.op = "replace" THEN o.value
     ELSE [shape |-> @.shape, parts |-> @.parts \o o.value.parts]]

Readable(s) == \A t \in DOMAIN s : s[t].shape = Base[t].shape
Valid(s) == \A t \in DOMAIN s : \A i \in DOMAIN s[t].parts : s[t].parts[i] \notin Rejected

-----------------------------------------------------------------------------
Init ==
  /\ definition \in Definitions
  /\ variant = 1 /\ seed = 1 /\ phase = "begin" /\ next = 1
  /\ scenario = Base
  /\ drawn = <<>> /\ generator = <<>>
  /\ manifest = NewManifest
  /\ runs = <<>> /\ samples = <<>> /\ files = {} /\ aggregates = {}
  /\ status = "running"

\* On to the next seed, or the next variant, or out of both loops.
NextRun ==
  IF seed < Len(SeedPlan)
  THEN seed' = seed + 1 /\ phase' = "begin" /\ UNCHANGED variant
  ELSE IF variant < Len(Variants)
  THEN seed' = 1 /\ phase' = "begin" /\ variant' = variant + 1
  ELSE phase' = "report" /\ UNCHANGED <<seed, variant>>

\* The bug of forgetting a run that did not come to its end.
CaughtUnreported(m) ==
  /\ manifest' = [m EXCEPT !.success = FALSE, !.exception = TRUE]
  /\ \/ definition.failFast /\ status' = "thrown"
        /\ UNCHANGED <<variant, seed, phase>>
     \/ ~definition.failFast /\ NextRun /\ UNCHANGED status
  /\ UNCHANGED runs

\* The bug of leaving success as the report had set it.
CaughtKeepsSuccess(m) ==
  /\ manifest' = [m EXCEPT !.exception = TRUE]
  /\ runs' = Append(runs, manifest')
  /\ \/ definition.failFast /\ status' = "thrown"
        /\ UNCHANGED <<variant, seed, phase>>
     \/ ~definition.failFast /\ NextRun /\ UNCHANGED status

\* The catch block: the run has failed, and the exception goes on if the
\* experiment is to fail fast.
Caught(m) ==
  /\ manifest' = [m EXCEPT !.success = FALSE, !.exception = TRUE]
  /\ runs' = Append(runs, manifest')
  /\ \/ definition.failFast /\ status' = "thrown"
        /\ UNCHANGED <<variant, seed, phase>>
     \/ ~definition.failFast /\ NextRun /\ UNCHANGED status

\* The bug of one generator for all runs of a seed.
BeginRunKeepsStreams ==
  /\ status = "running" /\ phase = "begin"
  /\ phase' = "materialize" /\ next' = 1
  /\ scenario' = Base
  /\ manifest' = NewManifest
  /\ UNCHANGED <<definition, variant, seed, drawn, generator, runs, samples,
                 files, aggregates, status>>

BeginRun ==
  /\ status = "running" /\ phase = "begin"
  /\ phase' = "materialize" /\ next' = 1
  /\ scenario' = Base
  /\ drawn' = <<>>
  /\ manifest' = NewManifest
  /\ UNCHANGED <<definition, variant, seed, generator, runs, samples, files,
                 aggregates, status>>

Materializing == status = "running" /\ phase = "materialize"

ApplyOverride ==
  LET os == OverridesOf(variant)
  IN  /\ Materializing
      /\ next \in DOMAIN os
      /\ \/ /\ Applicable(os[next], scenario)
            /\ scenario' = Applied(os[next], scenario)
            /\ manifest' = [manifest EXCEPT !.overrides = Append(@, os[next])]
            /\ next' = next + 1
            /\ UNCHANGED <<variant, seed, phase, runs, status>>
         \/ /\ ~Applicable(os[next], scenario)
            /\ Caught(manifest)
            /\ UNCHANGED <<next, scenario>>
      /\ UNCHANGED <<definition, drawn, generator, samples, files, aggregates>>

\* sample_overlay: the generator yields the same for the same seed, stream and
\* count.  The sample is on record before it is applied, the first one of an
\* id for good (emplace).
Stream(o) == <<Variants[variant].id, o.id>>
CountOf(o) == IF Stream(o) \in DOMAIN drawn THEN drawn[Stream(o)] ELSE 0
DrawnKey(o) == <<SeedPlan[seed], Stream(o), CountOf(o)>>
Yields(o) ==
  IF DrawnKey(o) \in DOMAIN generator THEN {generator[DrawnKey(o)]} ELSE Draws
Sampled(o, d) == o.choices[IF d > Len(o.choices) THEN Len(o.choices) ELSE d]
AsOverride(o, d) == [target |-> o.target, op |-> "replace", value |-> Sampled(o, d)]

ApplyOverlay ==
  LET os == OverlaysOf(variant)
      k == next - Len(OverridesOf(variant))
  IN  /\ Materializing
      /\ k \in DOMAIN os
      /\ \E d \in Yields(os[k]) :
           /\ drawn' = With(drawn, Stream(os[k]), CountOf(os[k]) + 1)
           /\ generator' = Emplaced(generator, DrawnKey(os[k]), d)
           /\ IF os[k].choices = <<>>
              THEN Caught(manifest) /\ UNCHANGED <<next, scenario>>
              ELSE LET o == AsOverride(os[k], d)
                       m == [manifest EXCEPT
                               !.overlaySamples = Emplaced(@, os[k].id, o.value)]
                   IN  \/ /\ Applicable(o, scenario)
                          /\ scenario' = Applied(o, scenario)
                          /\ manifest' = [m EXCEPT !.overrides = Append(@, o)]
                          /\ next' = next + 1
                          /\ UNCHANGED <<variant, seed, phase, runs, status>>
                       \/ /\ ~Applicable(o, scenario)
                          /\ Caught(m)
                          /\ UNCHANGED <<next, scenario>>
      /\ UNCHANGED <<definition, samples, files, aggregates>>

Materialized ==
  /\ Materializing
  /\ next > Len(OverridesOf(variant)) + Len(OverlaysOf(variant))

\* deserialize, compile_scenario (which validates) and run_scenario_detailed.
\* The hash of the scenario is taken before it is validated.
Execute ==
  /\ Materialized
  /\ \/ /\ ~Readable(scenario)
        /\ Caught(manifest)
        /\ UNCHANGED next
     \/ /\ Readable(scenario)
        /\ Caught([manifest EXCEPT !.scenario = scenario])
        /\ UNCHANGED next
     \/ /\ Readable(scenario) /\ Valid(scenario)
        /\ \E ok \in BOOLEAN :
             manifest' = [manifest EXCEPT !.scenario = scenario, !.success = ok]
        /\ phase' = "metrics" /\ next' = 1
        /\ UNCHANGED <<variant, seed, runs, status>>
  /\ UNCHANGED <<definition, scenario, drawn, generator, samples, files, aggregates>>

Measuring == status = "running" /\ phase = "metrics"

\* A statistic may be missing or no number.  A typed field that is missing or
\* no finite number is skipped.  An extension's metric may throw.
Readings(kind) ==
  CASE kind = "runtime_stat" -> Numbers \cup {Text, Absent}
    [] kind = "typed_field_final" -> Numbers \cup {Absent}
    [] kind = "extension" -> Numbers \cup {Text, Thrown}

SamplesOf(id) == IF id \in DOMAIN samples THEN samples[id] ELSE <<>>

ReadMetric ==
  /\ Measuring
  /\ next \in DOMAIN definition.metrics
  /\ LET metric == definition.metrics[next]
     IN  \E reading \in Readings(metric.kind) :
           \/ /\ reading = Thrown
              /\ Caught(manifest)
              /\ UNCHANGED <<next, samples>>
           \/ /\ reading = Absent
              /\ next' = next + 1
              /\ UNCHANGED <<variant, seed, phase, manifest, runs, status, samples>>
           \/ /\ reading \in Numbers \cup {Text}
              /\ next' = next + 1
              /\ manifest' = [manifest EXCEPT !.metrics = With(@, metric.id, reading)]
              /\ samples' = IF reading = Text THEN samples
                            ELSE With(samples, metric.id,
                                      Append(SamplesOf(metric.id), reading))
              /\ UNCHANGED <<variant, seed, phase, runs, status>>
  /\ UNCHANGED <<definition, scenario, drawn, generator, files, aggregates>>

\* The detail file, if it is asked for and can be written, ends the run.
EndRun ==
  /\ Measuring
  /\ next > Len(definition.metrics)
  /\ \/ /\ runs' = Append(runs, manifest)
        /\ files' = IF definition.details THEN files \cup {Len(runs')} ELSE files
        /\ NextRun
        /\ UNCHANGED <<manifest, status>>
     \/ /\ definition.details
        /\ Caught(manifest)
        /\ UNCHANGED files
  /\ UNCHANGED <<definition, next, scenario, drawn, generator, samples, aggregates>>

LeastOf(S) == CHOOSE x \in S : \A y \in S : x <= y
GreatestOf(S) == CHOOSE x \in S : \A y \in S : x >= y
InSequence(s) == {s[i] : i \in DOMAIN s}

\* The bug of minima and maxima that start from zero.
AggregateFromZero(id, s) ==
  [metric |-> id, count |-> Len(s), min |-> LeastOf(InSequence(s) \cup {0}),
   max |-> GreatestOf(InSequence(s) \cup {0})]

\* Mean and deviation are left out.
Aggregate(id, s) ==
  [metric |-> id, count |-> Len(s), min |-> LeastOf(InSequence(s)),
   max |-> GreatestOf(InSequence(s))]

\* Writing the manifest or the summary may throw.
Report ==
  /\ status = "running" /\ phase = "report"
  /\ aggregates' = {Aggregate(id, samples[id]) : id \in DOMAIN samples}
  /\ status' \in {"done", "thrown"}
  /\ UNCHANGED <<definition, variant, seed, phase, next, scenario, drawn,
                 generator, manifest, runs, samples, files>>

Next ==
  \/ BeginRun
  \/ ApplyOverride
  \/ ApplyOverlay
  \/ Execute
  \/ ReadMetric
  \/ EndRun
  \/ Report

\* run_experiment is a sequence of calls that nothing interrupts.
Spec == Init /\ [][Next]_vars

-----------------------------------------------------------------------------
\* Runs are reported in the order of variants and seeds, each once, failed or
\* not; only an exception under fail_fast, or in the final report, stops the
\* experiment, and under fail_fast no run follows one that threw ("failed
\* runs are reported without aborting the whole experiment").
EveryRunReported ==
  /\ \A i \in DOMAIN runs :
       /\ runs[i].variant = ((i - 1) \div Len(SeedPlan)) + 1
       /\ runs[i].seed = SeedPlan[((i - 1) % Len(SeedPlan)) + 1]
       /\ runs[i].exception /\ definition.failFast => i = Len(runs) /\ status = "thrown"
  /\ status = "running" /\ phase # "report" =>
       Len(runs) = (variant - 1) * Len(SeedPlan) + seed - 1
  /\ phase = "report" => Len(runs) = TotalRuns
  /\ status = "thrown" /\ phase # "report" =>
       definition.failFast /\ runs # <<>> /\ runs[Len(runs)].exception

\* What a manifest lists as overrides, overlays included, leads from the base
\* scenario to the one that was run, in the order of the experiment: nothing
\* of an earlier run is left in it.
Replayed(os) ==
  LET after[n \in 0 .. Len(os)] ==
        IF n = 0 THEN Base ELSE Applied(os[n], after[n - 1])
  IN  after[Len(os)]

ReplaysFromManifest ==
  \A i \in DOMAIN runs :
    LET os == OverridesOf(runs[i].variant)
    IN  runs[i].scenario # None =>
          /\ runs[i].scenario = Replayed(runs[i].overrides)
          /\ Len(runs[i].overrides) = Len(os) + Len(OverlaysOf(runs[i].variant))
          /\ SubSeq(runs[i].overrides, 1, Len(os)) = os

\* A manifest says success only of a run that came to its end: with a valid
\* scenario, every extension's metric, and its detail file.  The report sets
\* success long before.
SuccessMeansComplete ==
  \A i \in DOMAIN runs : runs[i].success =>
    /\ ~runs[i].exception
    /\ runs[i].scenario # None /\ Valid(runs[i].scenario)
    /\ \A k \in DOMAIN definition.metrics :
         definition.metrics[k].kind = "extension" =>
           definition.metrics[k].id \in DOMAIN runs[i].metrics
    /\ definition.details => i \in files

\* Runs of one variant with one seed materialize the same scenario, in
\* whatever order they come: draws depend on nothing else.
SameSeedSameScenario ==
  \A i, j \in DOMAIN runs :
    runs[i].variant = runs[j].variant /\ runs[i].seed = runs[j].seed =>
      /\ runs[i].overrides = runs[j].overrides
      /\ runs[i].overlaySamples = runs[j].overlaySamples
      /\ runs[i].scenario = runs[j].scenario

\* A run can be repeated, from its manifest or from its variant and seed, and
\* what was run before it does not matter.
Reproducible == ReplaysFromManifest /\ SameSeedSameScenario

\* The samples that are aggregated are those the manifests show, run by run,
\* also of runs that failed later; and the aggregates are theirs.  Two metrics
\* of one id would share their samples.
MetricIdsDistinct ==
  \A j, k \in DOMAIN definition.metrics :
    definition.metrics[j].id = definition.metrics[k].id => j = k

Reading(m, id) == IF id \in DOMAIN m.metrics THEN m.metrics[id] ELSE Absent

\* The numbers among readings, in their order.
NumbersIn(readings) ==
  LET upTo[n \in 0 .. Len(readings)] ==
        IF n = 0 THEN <<>>
        ELSE IF readings[n] \in Numbers THEN Append(upTo[n - 1], readings[n])
        ELSE upTo[n - 1]
  IN  upTo[Len(readings)]

Shown == IF Measuring THEN Append(runs, manifest) ELSE runs
ShownOf(id) == NumbersIn([i \in DOMAIN Shown |-> Reading(Shown[i], id)])

AggregatesExplained ==
  MetricIdsDistinct =>
    /\ \A k \in DOMAIN definition.metrics :
         SamplesOf(definition.metrics[k].id) = ShownOf(definition.metrics[k].id)
    /\ \A a \in aggregates :
         /\ a.count = Len(ShownOf(a.metric))
         /\ {a.min, a.max} \subseteq InSequence(ShownOf(a.metric))
         /\ \A x \in InSequence(ShownOf(a.metric)) : a.min <= x /\ x <= a.max
=============================================================================
