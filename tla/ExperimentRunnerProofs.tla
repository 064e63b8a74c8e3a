----------------------- MODULE ExperimentRunnerProofs -----------------------
(***************************************************************************)
(* Theorems about experiments, for every set of definitions: which runs    *)
(* are reported, in which order, and what success means; that aggregates   *)
(* are those of the manifests; and that runs can be repeated.              *)
(***************************************************************************)
EXTENDS ExperimentRunner, Integers, SequenceTheorems, FiniteSetTheorems,
        WellFoundedInduction, TLAPS

ManifestFields ==
  {"variant", "seed", "overrides", "overlaySamples", "scenario", "success",
   "exception", "metrics"}

RunsOK == \E results : runs \in Seq(results)

Positions == variant \in 1 .. Len(Variants) /\ seed \in 1 .. Len(SeedPlan)

GeneratorOK == \A k \in DOMAIN generator : generator[k] \in Draws

Typed ==
  /\ definition \in Definition
  /\ Positions
  /\ next \in Nat \ {0}
  /\ scenario \in [DOMAIN Base -> Node]
  /\ GeneratorOK
  /\ DOMAIN manifest = ManifestFields
  /\ RunsOK

\* While a run is on, its manifest is that of the positions of the loops, and
\* no exception is on record.
Mid == status = "running" /\ phase \in {"materialize", "metrics"}

AtHand ==
  Mid => /\ manifest.variant = variant /\ manifest.seed = SeedPlan[seed]
         /\ ~manifest.exception

\* What success needs, as far as the run has come: its scenario is valid once
\* it has been executed, and the metrics behind have been read.
Earned ==
  (Mid /\ phase = "metrics") =>
    /\ manifest.success => manifest.scenario # None /\ Valid(manifest.scenario)
    /\ \A k \in DOMAIN definition.metrics :
         k < next /\ definition.metrics[k].kind = "extension" =>
           definition.metrics[k].id \in DOMAIN manifest.metrics

ExperimentInv ==
  Typed /\ AtHand /\ Earned /\ EveryRunReported /\ SuccessMeansComplete

LEMMA Plans ==
  ASSUME definition \in Definition
  PROVE  /\ Len(Variants) \in Nat \ {0}
         /\ \A v \in 1 .. Len(Variants) : /\ Variants[v].overrides \in Seq(Override)
                                       /\ Variants[v].overlays \in Seq(Overlay)
         /\ SeedPlan \in Seq(Seeds) /\ Len(SeedPlan) \in Nat \ {0}
<1>1. definition.variants \in Seq(Variant) /\ definition.seeds \in Seq(Seeds)
  BY DEF Definition
<1>0. SeedPlan \in Seq(Seeds) /\ Len(SeedPlan) \in Nat \ {0}
  BY <1>1, ExperimentAssumption DEF SeedPlan
<1>2. CASE definition.variants = <<>>
  <2>1. /\ Len(Variants) = 1
        /\ Variants[1].overrides = <<>> /\ Variants[1].overlays = <<>>
    BY <1>2 DEF Variants
  <2>2. <<>> \in Seq(Override) /\ <<>> \in Seq(Overlay)
    OBVIOUS
  <2>3. /\ Variants[1].overrides \in Seq(Override)
        /\ Variants[1].overlays \in Seq(Overlay)
    BY <2>1, <2>2, Zenon
  <2>4. ASSUME NEW v \in 1 .. Len(Variants)
        PROVE  /\ Variants[v].overrides \in Seq(Override)
               /\ Variants[v].overlays \in Seq(Overlay)
    <3>1. v = 1
      BY <2>1
    <3> QED
      BY <2>3, <3>1
  <2>5. Len(Variants) \in Nat \ {0}
    BY <2>1
  <2> QED
    BY <1>0, <2>4, <2>5
<1>3. CASE definition.variants # <<>>
  <2>1. Variants = definition.variants
    BY <1>3 DEF Variants
  <2>2. \A v \in 1 .. Len(Variants) : Variants[v] \in Variant
    BY <1>1, <2>1
  <2>3. Len(Variants) \in Nat \ {0}
    BY <1>1, <1>3, <2>1
  <2>4. \A x \in Variant : x.overrides \in Seq(Override) /\ x.overlays \in Seq(Overlay)
    BY DEF Variant
  <2>5. ASSUME NEW v \in 1 .. Len(Variants)
        PROVE  /\ Variants[v].overrides \in Seq(Override)
               /\ Variants[v].overlays \in Seq(Overlay)
    <3>1. Variants[v] \in Variant
      BY <2>2
    <3> QED
      BY <2>4, <3>1
  <2> QED
    BY <1>0, <2>3, <2>5
<1> QED
  BY <1>2, <1>3

LEMMA OfVariant ==
  ASSUME definition \in Definition, NEW v \in 1 .. Len(Variants)
  PROVE  /\ OverridesOf(v) \in Seq(Override)
         /\ OverlaysOf(v) \in Seq(Overlay)
<1>1. /\ Variants[v].overrides \in Seq(Override)
      /\ Variants[v].overlays \in Seq(Overlay)
  BY Plans
<1>2. definition.overrides \in Seq(Override) /\ definition.overlays \in Seq(Overlay)
  BY DEF Definition
<1> QED
  BY <1>1, <1>2, ConcatProperties DEF OverridesOf, OverlaysOf

\* An override keeps the places of the scenario.
LEMMA AppliedTyped ==
  ASSUME NEW o \in Override, NEW s \in [DOMAIN Base -> Node], Applicable(o, s)
  PROVE  Applied(o, s) \in [DOMAIN Base -> Node]
<1>1. s[o.target] \in Node /\ o.value \in Node /\ o.target \in DOMAIN Base
  BY DEF Applicable, Override
<1>2. s[o.target].parts \o o.value.parts \in Seq(Values)
  BY <1>1, ConcatProperties DEF Node
<1>3. [shape |-> s[o.target].shape, parts |-> s[o.target].parts \o o.value.parts] \in Node
  BY <1>1, <1>2 DEF Node
<1> QED
  BY <1>1, <1>3 DEF Applied

\* The number a run has, taken apart.
LEMMA Numbered ==
  ASSUME NEW n \in Nat \ {0}, NEW v \in Nat \ {0}, NEW s \in 1 .. n
  PROVE  /\ (v - 1) * n + s - 1 \in Nat
         /\ ((v - 1) * n + s - 1) \div n = v - 1
         /\ ((v - 1) * n + s - 1) % n = s - 1
<1> DEFINE a == v - 1
           b == s - 1
<1>1. a \in Nat /\ b \in 0 .. (n - 1)
  OBVIOUS
<1>2. ASSUME NEW x \in Nat, NEW y \in 0 .. (n - 1)
      PROVE  (x * n + y) \div n = x
  OBVIOUS
<1>3. ASSUME NEW x \in Nat, NEW y \in 0 .. (n - 1)
      PROVE  (x * n + y) % n = y
  OBVIOUS
<1>4. a * n \in Nat
  BY <1>1
<1>5. (v - 1) * n + s - 1 = a * n + b
  BY <1>4
<1> HIDE DEF a, b
<1>6. (a * n + b) \div n = a /\ (a * n + b) % n = b /\ a * n + b \in Nat
  BY <1>1, <1>2, <1>3, <1>4
<1>7. a = v - 1 /\ b = s - 1
  BY DEF a, b
<1> QED
  BY <1>5, <1>6, <1>7

LEMMA PlansKept ==
  ASSUME definition' = definition
  PROVE  Variants' = Variants /\ SeedPlan' = SeedPlan /\ TotalRuns' = TotalRuns
  BY DEF Variants, SeedPlan, TotalRuns

(***************************************************************************)
(* The end of a run.                                                       *)
(***************************************************************************)
LEMMA Appended ==
  ASSUME RunsOK, NEW r, runs' = Append(runs, r)
  PROVE  /\ RunsOK'
         /\ Len(runs) \in Nat /\ Len(runs') = Len(runs) + 1
         /\ DOMAIN runs = 1 .. Len(runs)
         /\ DOMAIN runs' = DOMAIN runs \cup {Len(runs) + 1}
         /\ runs'[Len(runs) + 1] = r
         /\ \A i \in DOMAIN runs : runs'[i] = runs[i]
<1>1. PICK results : runs \in Seq(results)
  BY DEF RunsOK
<1>2. runs \in Seq(results \cup {r})
  BY <1>1
<1>3. /\ runs' \in Seq(results \cup {r})
      /\ Len(runs') = Len(runs) + 1
      /\ \A i \in 1 .. Len(runs) : runs'[i] = runs[i]
      /\ runs'[Len(runs) + 1] = r
  BY <1>2, AppendProperties
<1>4. RunsOK'
  BY <1>3 DEF RunsOK
<1>5. DOMAIN runs = 1 .. Len(runs) /\ Len(runs) \in Nat
      /\ DOMAIN runs' = 1 .. Len(runs')
  BY <1>2, <1>3
<1> QED
  BY <1>3, <1>4, <1>5

\* Where the loops go, with one run more.
LEMMA NextRunCounts ==
  ASSUME definition \in Definition, Positions, definition' = definition, NextRun
  PROVE  /\ Positions' /\ phase' \in {"begin", "report"}
         /\ phase' = "begin" =>
              (variant - 1) * Len(SeedPlan) + seed
                = (variant' - 1) * Len(SeedPlan) + seed' - 1
         /\ phase' = "report" =>
              (variant - 1) * Len(SeedPlan) + seed = TotalRuns
<1> DEFINE n == Len(SeedPlan)
           v == Len(Variants)
<1>1. n \in Nat \ {0} /\ v \in Nat \ {0} /\ variant \in 1 .. v /\ seed \in 1 .. n
  BY Plans DEF Positions
<1>2. Variants' = Variants /\ SeedPlan' = SeedPlan
  BY PlansKept
<1>3. TotalRuns = v * n
  BY DEF TotalRuns
<1> HIDE DEF n, v
<1>4. CASE seed < n
  <2>1. seed' = seed + 1 /\ phase' = "begin" /\ variant' = variant
    BY <1>4 DEF NextRun, n
  <2>2. (variant - 1) * n + seed = (variant' - 1) * n + seed' - 1
    BY <1>1, <2>1
  <2> QED
    BY <1>1, <1>2, <1>4, <2>1, <2>2 DEF Positions, n, v
<1>5. CASE ~(seed < n) /\ variant < v
  <2>1. seed' = 1 /\ phase' = "begin" /\ variant' = variant + 1
    BY <1>5 DEF NextRun, n, v
  <2>2. seed = n
    BY <1>1, <1>5
  <2>3. (variant - 1) * n + n = variant * n
    BY <1>1
  <2>4. (variant' - 1) * n + seed' - 1 = variant * n
    BY <1>1, <2>1
  <2> QED
    BY <1>1, <1>2, <1>5, <2>1, <2>2, <2>3, <2>4 DEF Positions, n, v
<1>6. CASE ~(seed < n) /\ ~(variant < v)
  <2>1. seed' = seed /\ phase' = "report" /\ variant' = variant
    BY <1>6 DEF NextRun, n, v
  <2>2. seed = n /\ variant = v
    BY <1>1, <1>6
  <2>3. (variant - 1) * n + n = variant * n
    BY <1>1
  <2> QED
    BY <1>1, <1>2, <1>3, <2>1, <2>2, <2>3 DEF Positions, n, v
<1> QED
  BY <1>4, <1>5, <1>6

LEMMA RunReported ==
  ASSUME Typed, EveryRunReported, Mid, definition' = definition,
         NEW r, runs' = Append(runs, r),
         r.variant = variant, r.seed = SeedPlan[seed],
         \/ /\ r.exception /\ definition.failFast /\ status' = "thrown"
            /\ UNCHANGED <<variant, seed, phase>>
         \/ /\ r.exception => ~definition.failFast
            /\ NextRun /\ UNCHANGED status
  PROVE  RunsOK' /\ Positions' /\ ~Mid' /\ EveryRunReported'
<1> DEFINE n == Len(SeedPlan)
           l == Len(runs)
<1>1. n \in Nat \ {0} /\ variant \in Nat \ {0} /\ seed \in 1 .. n
  BY Plans DEF Typed, Positions
<1>2. Variants' = Variants /\ SeedPlan' = SeedPlan /\ TotalRuns' = TotalRuns
  BY PlansKept
<1>3. /\ RunsOK'
      /\ l \in Nat /\ Len(runs') = l + 1
      /\ DOMAIN runs = 1 .. l /\ DOMAIN runs' = DOMAIN runs \cup {l + 1}
      /\ runs'[l + 1] = r
      /\ \A i \in DOMAIN runs : runs'[i] = runs[i]
  BY Appended DEF Typed
<1>4. l = (variant - 1) * n + seed - 1
  BY DEF EveryRunReported, Mid
<1>5. /\ r.variant = ((l + 1 - 1) \div n) + 1
      /\ r.seed = SeedPlan[((l + 1 - 1) % n) + 1]
  <2>0. /\ ((variant - 1) * n + seed - 1) \div n = variant - 1
        /\ ((variant - 1) * n + seed - 1) % n = seed - 1
    BY <1>1, Numbered
  <2>1. l \div n = variant - 1 /\ l % n = seed - 1
    BY <1>4, <2>0, Zenon
  <2>2. l + 1 - 1 = l /\ (variant - 1) + 1 = variant /\ (seed - 1) + 1 = seed
    BY <1>1, <1>3
  <2> HIDE DEF l
  <2> QED
    BY <2>1, <2>2
<1>6. status = "running" /\ phase # "report"
  BY DEF Mid
<1>7. \A i \in DOMAIN runs :
        /\ runs[i].variant = ((i - 1) \div n) + 1
        /\ runs[i].seed = SeedPlan[((i - 1) % n) + 1]
        /\ ~(runs[i].exception /\ definition.failFast)
  BY <1>6 DEF EveryRunReported
<1> HIDE DEF l
<1>8. \A i \in DOMAIN runs' :
        /\ runs'[i].variant = ((i - 1) \div n) + 1
        /\ runs'[i].seed = SeedPlan[((i - 1) % n) + 1]
  BY <1>3, <1>5, <1>7
<1>9. CASE /\ r.exception /\ definition.failFast /\ status' = "thrown"
           /\ UNCHANGED <<variant, seed, phase>>
  <2>1. \A i \in DOMAIN runs' :
          runs'[i].exception /\ definition.failFast
            => i = Len(runs') /\ status' = "thrown"
    BY <1>3, <1>7, <1>9
  <2>2. runs' # <<>> /\ runs'[Len(runs')].exception
    BY <1>3, <1>9
  <2>3. Positions' /\ ~Mid' /\ phase' # "report"
    BY <1>2, <1>6, <1>9 DEF Typed, Positions, Mid
  <2>4. EveryRunReported'
    BY <1>2, <1>8, <1>9, <2>1, <2>2, <2>3 DEF EveryRunReported
  <2> QED
    BY <1>3, <2>3, <2>4
<1>10. CASE /\ r.exception => ~definition.failFast
            /\ NextRun /\ UNCHANGED status
  <2>1. \A i \in DOMAIN runs' : ~(runs'[i].exception /\ definition.failFast)
    BY <1>3, <1>7, <1>10
  <2>2. /\ Positions' /\ phase' \in {"begin", "report"}
        /\ phase' = "begin" =>
             (variant - 1) * n + seed = (variant' - 1) * n + seed' - 1
        /\ phase' = "report" => (variant - 1) * n + seed = TotalRuns
    BY <1>10, NextRunCounts DEF Typed
  <2>3. Len(runs') = (variant - 1) * n + seed
    BY <1>1, <1>3, <1>4
  <2>4. phase' # "report" => Len(runs') = (variant' - 1) * n + seed' - 1
    BY <2>2, <2>3
  <2>5. phase' = "report" => Len(runs') = TotalRuns
    BY <2>2, <2>3
  <2>6. ~Mid' /\ status' = "running"
    BY <1>6, <1>10, <2>2 DEF Mid
  <2>7. EveryRunReported'
    BY <1>2, <1>8, <2>1, <2>4, <2>5, <2>6 DEF EveryRunReported
  <2> QED
    BY <1>3, <2>2, <2>6, <2>7
<1> QED
  BY <1>9, <1>10

LEMMA SuccessReported ==
  ASSUME RunsOK, SuccessMeansComplete, definition' = definition,
         files \subseteq files', NEW r, runs' = Append(runs, r),
         r.success =>
           /\ ~r.exception
           /\ r.scenario # None /\ Valid(r.scenario)
           /\ \A k \in DOMAIN definition.metrics :
                definition.metrics[k].kind = "extension" =>
                  definition.metrics[k].id \in DOMAIN r.metrics
           /\ definition.details => Len(runs) + 1 \in files'
  PROVE  SuccessMeansComplete'
<1>1. /\ DOMAIN runs' = DOMAIN runs \cup {Len(runs) + 1}
      /\ runs'[Len(runs) + 1] = r
      /\ \A i \in DOMAIN runs : runs'[i] = runs[i]
  BY Appended
<1> SUFFICES ASSUME NEW i \in DOMAIN runs', runs'[i].success
             PROVE  /\ ~runs'[i].exception
                    /\ runs'[i].scenario # None /\ Valid(runs'[i].scenario)
                    /\ \A k \in DOMAIN definition.metrics :
                         definition.metrics[k].kind = "extension" =>
                           definition.metrics[k].id \in DOMAIN runs'[i].metrics
                    /\ definition.details => i \in files'
  BY DEF SuccessMeansComplete
<1>2. CASE i = Len(runs) + 1
  BY <1>1, <1>2
<1>3. CASE i \in DOMAIN runs
  BY <1>1, <1>3 DEF SuccessMeansComplete
<1> QED
  BY <1>1, <1>2, <1>3

\* The catch block.
LEMMA CaughtKeeps ==
  ASSUME ExperimentInv, Mid, NEW m, DOMAIN m = ManifestFields,
         m.variant = manifest.variant, m.seed = manifest.seed, Caught(m),
         UNCHANGED <<definition, next, scenario, files>>, GeneratorOK'
  PROVE  ExperimentInv'
<1> DEFINE r == [m EXCEPT !.success = FALSE, !.exception = TRUE]
<1>1. manifest' = r /\ runs' = Append(runs, r)
  BY DEF Caught
<1>2. /\ DOMAIN r = ManifestFields /\ r.exception /\ ~r.success
      /\ r.variant = m.variant /\ r.seed = m.seed
  BY DEF ManifestFields
<1>3. \/ definition.failFast /\ status' = "thrown" /\ UNCHANGED <<variant, seed, phase>>
      \/ ~definition.failFast /\ NextRun /\ UNCHANGED status
  BY DEF Caught
<1> HIDE DEF r
<1>4. r.variant = variant /\ r.seed = SeedPlan[seed]
  BY <1>2 DEF ExperimentInv, AtHand
<1>5. RunsOK' /\ Positions' /\ ~Mid' /\ EveryRunReported'
  BY <1>1, <1>2, <1>3, <1>4, RunReported DEF ExperimentInv
<1>6. SuccessMeansComplete'
  BY <1>1, <1>2, SuccessReported DEF ExperimentInv, Typed
<1>7. Typed'
  BY <1>1, <1>2, <1>5 DEF ExperimentInv, Typed
<1>8. AtHand' /\ Earned'
  BY <1>5 DEF AtHand, Earned
<1> QED
  BY <1>5, <1>6, <1>7, <1>8 DEF ExperimentInv

\* A step within a run.
LEMMA RunGoesOn ==
  ASSUME ExperimentInv, UNCHANGED <<definition, variant, seed, runs, status, files>>,
         phase # "report", phase' # "report"
  PROVE  /\ RunsOK' /\ Positions' /\ EveryRunReported' /\ SuccessMeansComplete'
         /\ Variants' = Variants /\ SeedPlan' = SeedPlan
<1>1. Variants' = Variants /\ SeedPlan' = SeedPlan /\ TotalRuns' = TotalRuns
  BY PlansKept
<1>2. RunsOK' /\ Positions'
  BY <1>1 DEF ExperimentInv, Typed, RunsOK, Positions
<1>3. EveryRunReported'
  BY <1>1 DEF ExperimentInv, EveryRunReported
<1>4. SuccessMeansComplete'
  BY DEF ExperimentInv, SuccessMeansComplete
<1> QED
  BY <1>1, <1>2, <1>3, <1>4

(***************************************************************************)
(* The steps.                                                              *)
(***************************************************************************)
LEMMA ExperimentInit == Init => ExperimentInv
<1> SUFFICES ASSUME Init PROVE ExperimentInv
  OBVIOUS
<1>1. definition \in Definition
  BY ExperimentAssumption DEF Init
<1>2. /\ variant = 1 /\ seed = 1 /\ next = 1 /\ phase = "begin"
      /\ scenario = Base /\ generator = <<>> /\ manifest = NewManifest
      /\ runs = <<>> /\ status = "running"
  BY DEF Init
<1>3. Len(Variants) \in Nat \ {0} /\ Len(SeedPlan) \in Nat \ {0}
  BY <1>1, Plans
<1>4. Positions
  BY <1>2, <1>3 DEF Positions
<1>5. GeneratorOK
  BY <1>2 DEF GeneratorOK
<1>6. DOMAIN manifest = ManifestFields
  BY <1>2 DEF NewManifest, ManifestFields
<1>7. RunsOK
  BY <1>2 DEF RunsOK
<1>8. Typed
  BY <1>1, <1>2, <1>4, <1>5, <1>6, <1>7, ExperimentAssumption DEF Typed
<1>9. AtHand /\ Earned
  BY <1>2 DEF AtHand, Earned, Mid
<1>10. (1 - 1) * Len(SeedPlan) + 1 - 1 = 0
  BY <1>3
<1>11. EveryRunReported /\ SuccessMeansComplete
  BY <1>2, <1>10 DEF EveryRunReported, SuccessMeansComplete
<1> QED
  BY <1>8, <1>9, <1>11 DEF ExperimentInv

LEMMA BeginRunKeeps == ExperimentInv /\ BeginRun => ExperimentInv'
<1> SUFFICES ASSUME ExperimentInv, BeginRun PROVE ExperimentInv'
  OBVIOUS
<1>1. /\ status = "running" /\ phase = "begin" /\ phase' = "materialize"
      /\ next' = 1 /\ scenario' = Base /\ manifest' = NewManifest
      /\ UNCHANGED <<definition, variant, seed, generator, runs, status, files>>
  BY DEF BeginRun
<1>2. /\ RunsOK' /\ Positions' /\ EveryRunReported' /\ SuccessMeansComplete'
      /\ Variants' = Variants /\ SeedPlan' = SeedPlan
  BY <1>1, RunGoesOn
<1>3. /\ DOMAIN NewManifest = ManifestFields /\ NewManifest.variant = variant
      /\ NewManifest.seed = SeedPlan[seed] /\ ~NewManifest.exception
  BY DEF NewManifest, ManifestFields
<1>4. Typed'
  BY <1>1, <1>2, <1>3, ExperimentAssumption DEF ExperimentInv, Typed, GeneratorOK
<1>5. AtHand'
  BY <1>1, <1>2, <1>3 DEF AtHand
<1>6. Earned'
  BY <1>1 DEF Earned
<1> QED
  BY <1>2, <1>4, <1>5, <1>6 DEF ExperimentInv

\* An override or an overlay that is applied.
LEMMA Applies ==
  ASSUME ExperimentInv, Materializing, NEW o \in Override, Applicable(o, scenario),
         scenario' = Applied(o, scenario), next' = next + 1,
         DOMAIN manifest' = ManifestFields,
         manifest'.variant = manifest.variant, manifest'.seed = manifest.seed,
         manifest'.exception = manifest.exception,
         UNCHANGED <<definition, variant, seed, phase, runs, status, files>>,
         GeneratorOK'
  PROVE  ExperimentInv'
<1>1. phase = "materialize" /\ status = "running"
  BY DEF Materializing
<1>2. /\ RunsOK' /\ Positions' /\ EveryRunReported' /\ SuccessMeansComplete'
      /\ Variants' = Variants /\ SeedPlan' = SeedPlan
  BY <1>1, RunGoesOn
<1>3. scenario' \in [DOMAIN Base -> Node]
  BY AppliedTyped DEF ExperimentInv, Typed
<1>4. Typed'
  BY <1>2, <1>3 DEF ExperimentInv, Typed
<1>5. AtHand'
  BY <1>1, <1>2 DEF ExperimentInv, AtHand, Mid
<1>6. Earned'
  BY <1>1 DEF Earned
<1> QED
  BY <1>2, <1>4, <1>5, <1>6 DEF ExperimentInv

LEMMA ApplyOverrideKeeps == ExperimentInv /\ ApplyOverride => ExperimentInv'
<1> SUFFICES ASSUME ExperimentInv, ApplyOverride PROVE ExperimentInv'
  OBVIOUS
<1> DEFINE o == OverridesOf(variant)[next]
<1>1. /\ Materializing /\ next \in DOMAIN OverridesOf(variant)
      /\ UNCHANGED <<definition, generator, files>>
  BY DEF ApplyOverride
<1>2. Mid /\ GeneratorOK' /\ DOMAIN manifest = ManifestFields
  BY <1>1 DEF Materializing, Mid, ExperimentInv, Typed, GeneratorOK
<1>3. o \in Override
  <2>1. OverridesOf(variant) \in Seq(Override)
    BY OfVariant DEF ExperimentInv, Typed, Positions
  <2> QED
    BY <1>1, <2>1
<1>4. CASE /\ Applicable(o, scenario)
           /\ scenario' = Applied(o, scenario)
           /\ manifest' = [manifest EXCEPT !.overrides = Append(@, o)]
           /\ next' = next + 1
           /\ UNCHANGED <<variant, seed, phase, runs, status>>
  <2>1. /\ DOMAIN manifest' = ManifestFields
        /\ manifest'.variant = manifest.variant /\ manifest'.seed = manifest.seed
        /\ manifest'.exception = manifest.exception
    BY <1>2, <1>4
  <2> QED
    BY <1>1, <1>2, <1>3, <1>4, <2>1, Applies
<1>5. CASE Caught(manifest) /\ UNCHANGED <<next, scenario>>
  BY <1>1, <1>2, <1>5, CaughtKeeps
<1> QED
  BY <1>4, <1>5 DEF ApplyOverride

LEMMA ApplyOverlayKeeps == ExperimentInv /\ ApplyOverlay => ExperimentInv'
<1> SUFFICES ASSUME ExperimentInv, ApplyOverlay PROVE ExperimentInv'
  OBVIOUS
<1> DEFINE x == OverlaysOf(variant)[next - Len(OverridesOf(variant))]
<1>1. PICK d \in Yields(x) :
        /\ generator' = Emplaced(generator, DrawnKey(x), d)
        /\ IF x.choices = <<>>
           THEN Caught(manifest) /\ UNCHANGED <<next, scenario>>
           ELSE LET o == AsOverride(x, d)
                    m == [manifest EXCEPT
                            !.overlaySamples = Emplaced(@, x.id, o.value)]
                IN  \/ /\ Applicable(o, scenario)
                       /\ scenario' = Applied(o, scenario)
                       /\ manifest' = [m EXCEPT !.overrides = Append(@, o)]
                       /\ next' = next + 1
                       /\ UNCHANGED <<variant, seed, phase, runs, status>>
                    \/ /\ ~Applicable(o, scenario)
                       /\ Caught(m)
                       /\ UNCHANGED <<next, scenario>>
  BY DEF ApplyOverlay
<1>2. /\ Materializing
      /\ next - Len(OverridesOf(variant)) \in DOMAIN OverlaysOf(variant)
      /\ UNCHANGED <<definition, files>>
  BY DEF ApplyOverlay
<1>3. Mid /\ DOMAIN manifest = ManifestFields
  BY <1>2 DEF Materializing, Mid, ExperimentInv, Typed
<1>4. x \in Overlay
  <2>1. OverlaysOf(variant) \in Seq(Overlay)
    BY OfVariant DEF ExperimentInv, Typed, Positions
  <2> QED
    BY <1>2, <2>1
<1>5. d \in Draws
  BY DEF Yields, ExperimentInv, Typed, GeneratorOK
<1> HIDE DEF x
<1>6. GeneratorOK'
  BY <1>1, <1>5 DEF ExperimentInv, Typed, GeneratorOK, Emplaced, With
<1>7. CASE x.choices = <<>>
  BY <1>1, <1>2, <1>3, <1>6, <1>7, CaughtKeeps
<1>8. CASE x.choices # <<>>
  <2> DEFINE o == AsOverride(x, d)
             m == [manifest EXCEPT !.overlaySamples = Emplaced(@, x.id, o.value)]
  <2>1. \/ /\ Applicable(o, scenario)
           /\ scenario' = Applied(o, scenario)
           /\ manifest' = [m EXCEPT !.overrides = Append(@, o)]
           /\ next' = next + 1
           /\ UNCHANGED <<variant, seed, phase, runs, status>>
        \/ Caught(m) /\ UNCHANGED <<next, scenario>>
    BY <1>1, <1>8
  <2>2. o \in Override
    <3>1. x.choices \in Seq(Node) /\ x.target \in Targets
      BY <1>4 DEF Overlay
    <3>2. d \in Nat \ {0} /\ Len(x.choices) \in Nat \ {0}
      BY <1>5, <1>8, <3>1, ExperimentAssumption
    <3>3. Sampled(x, d) \in Node
      BY <3>1, <3>2 DEF Sampled
    <3> QED
      BY <3>1, <3>3 DEF AsOverride, Override
  <2>3. /\ DOMAIN m = ManifestFields /\ m.variant = manifest.variant
        /\ m.seed = manifest.seed /\ m.exception = manifest.exception
    BY <1>3
  <2> HIDE DEF m, o
  <2>4. CASE /\ Applicable(o, scenario)
             /\ scenario' = Applied(o, scenario)
             /\ manifest' = [m EXCEPT !.overrides = Append(@, o)]
             /\ next' = next + 1
             /\ UNCHANGED <<variant, seed, phase, runs, status>>
    <3>1. /\ DOMAIN manifest' = ManifestFields
          /\ manifest'.variant = manifest.variant /\ manifest'.seed = manifest.seed
          /\ manifest'.exception = manifest.exception
      BY <2>3, <2>4
    <3> QED
      BY <1>2, <1>6, <2>2, <2>4, <3>1, Applies
  <2>5. CASE Caught(m) /\ UNCHANGED <<next, scenario>>
    BY <1>2, <1>3, <1>6, <2>3, <2>5, CaughtKeeps
  <2> QED
    BY <2>1, <2>4, <2>5
<1> QED
  BY <1>7, <1>8

LEMMA ExecuteKeeps == ExperimentInv /\ Execute => ExperimentInv'
<1> SUFFICES ASSUME ExperimentInv, Execute PROVE ExperimentInv'
  OBVIOUS
<1>1. /\ Materializing /\ status = "running" /\ phase = "materialize"
      /\ UNCHANGED <<definition, scenario, generator, files>>
  BY DEF Execute, Materialized, Materializing
<1>2. Mid /\ GeneratorOK' /\ DOMAIN manifest = ManifestFields
  BY <1>1 DEF Mid, ExperimentInv, Typed, GeneratorOK
<1>3. CASE Caught(manifest) /\ UNCHANGED next
  BY <1>1, <1>2, <1>3, CaughtKeeps
<1>4. CASE Caught([manifest EXCEPT !.scenario = scenario]) /\ UNCHANGED next
  <2> DEFINE m == [manifest EXCEPT !.scenario = scenario]
  <2>1. /\ DOMAIN m = ManifestFields /\ m.variant = manifest.variant
        /\ m.seed = manifest.seed
    BY <1>2
  <2> HIDE DEF m
  <2>2. Caught(m)
    BY <1>4 DEF m
  <2> QED
    BY <1>1, <1>2, <1>4, <2>1, <2>2, CaughtKeeps
<1>5. CASE /\ Valid(scenario)
           /\ \E ok \in BOOLEAN :
                manifest' = [manifest EXCEPT !.scenario = scenario, !.success = ok]
           /\ phase' = "metrics" /\ next' = 1
           /\ UNCHANGED <<variant, seed, runs, status>>
  <2>1. /\ DOMAIN manifest' = ManifestFields
        /\ manifest'.variant = manifest.variant /\ manifest'.seed = manifest.seed
        /\ manifest'.exception = manifest.exception
        /\ manifest'.scenario = scenario
    BY <1>2, <1>5 DEF ManifestFields
  <2>2. /\ RunsOK' /\ Positions' /\ EveryRunReported' /\ SuccessMeansComplete'
        /\ Variants' = Variants /\ SeedPlan' = SeedPlan
    BY <1>1, <1>5, RunGoesOn
  <2>3. Typed'
    BY <1>1, <1>2, <1>5, <2>1, <2>2 DEF ExperimentInv, Typed
  <2>4. AtHand'
    BY <1>2, <1>5, <2>1, <2>2 DEF ExperimentInv, AtHand
  <2>5. scenario # None
    BY ExperimentAssumption DEF ExperimentInv, Typed
  <2>6. \A k \in DOMAIN definition.metrics : ~(k < next')
    <3>1. definition.metrics \in Seq(Metric)
      BY DEF ExperimentInv, Typed, Definition
    <3> QED
      BY <1>5, <3>1
  <2>7. Earned'
    BY <1>1, <1>5, <2>1, <2>5, <2>6 DEF Earned
  <2> QED
    BY <2>2, <2>3, <2>4, <2>7 DEF ExperimentInv
<1> QED
  BY <1>3, <1>4, <1>5 DEF Execute

\* A metric that is behind.
LEMMA MetricRead ==
  ASSUME ExperimentInv, Measuring, next \in DOMAIN definition.metrics,
         next' = next + 1, DOMAIN manifest' = ManifestFields,
         manifest'.variant = manifest.variant, manifest'.seed = manifest.seed,
         manifest'.exception = manifest.exception,
         manifest'.success = manifest.success,
         manifest'.scenario = manifest.scenario,
         DOMAIN manifest.metrics \subseteq DOMAIN manifest'.metrics,
         definition.metrics[next].kind = "extension" =>
           definition.metrics[next].id \in DOMAIN manifest'.metrics,
         UNCHANGED <<definition, variant, seed, phase, scenario, generator, runs,
                     files, status>>
  PROVE  ExperimentInv'
<1>1. status = "running" /\ phase = "metrics" /\ Mid /\ Mid'
  BY DEF Measuring, Mid
<1>2. /\ RunsOK' /\ Positions' /\ EveryRunReported' /\ SuccessMeansComplete'
      /\ Variants' = Variants /\ SeedPlan' = SeedPlan
  BY <1>1, RunGoesOn
<1>3. Typed'
  BY <1>2 DEF ExperimentInv, Typed, GeneratorOK
<1>4. AtHand'
  BY <1>1, <1>2 DEF ExperimentInv, AtHand
<1>5. definition.metrics \in Seq(Metric) /\ next \in Nat
  BY DEF ExperimentInv, Typed, Definition
<1>6. \A k \in DOMAIN definition.metrics : k < next' => k < next \/ k = next
  BY <1>5
<1>7. \A k \in DOMAIN definition.metrics :
        k < next' /\ definition.metrics[k].kind = "extension" =>
          definition.metrics[k].id \in DOMAIN manifest'.metrics
  BY <1>1, <1>6 DEF ExperimentInv, Earned
<1>8. manifest'.success => manifest'.scenario # None /\ Valid(manifest'.scenario)
  BY <1>1 DEF ExperimentInv, Earned
<1>9. Earned'
  BY <1>7, <1>8 DEF Earned
<1> QED
  BY <1>2, <1>3, <1>4, <1>9 DEF ExperimentInv

LEMMA ReadMetricKeeps == ExperimentInv /\ ReadMetric => ExperimentInv'
<1> SUFFICES ASSUME ExperimentInv, ReadMetric PROVE ExperimentInv'
  OBVIOUS
<1> DEFINE metric == definition.metrics[next]
<1>1. /\ Measuring /\ next \in DOMAIN definition.metrics
      /\ UNCHANGED <<definition, scenario, generator, files>>
  BY DEF ReadMetric
<1>2. PICK reading \in Readings(metric.kind) :
        \/ reading = Thrown /\ Caught(manifest) /\ UNCHANGED next
        \/ /\ reading = Absent /\ next' = next + 1
           /\ UNCHANGED <<variant, seed, phase, manifest, runs, status>>
        \/ /\ next' = next + 1
           /\ manifest' = [manifest EXCEPT !.metrics = With(@, metric.id, reading)]
           /\ UNCHANGED <<variant, seed, phase, runs, status>>
  BY DEF ReadMetric
<1>3. Mid /\ GeneratorOK' /\ DOMAIN manifest = ManifestFields
  BY <1>1 DEF Measuring, Mid, ExperimentInv, Typed, GeneratorOK
<1>4. CASE reading = Thrown /\ Caught(manifest) /\ UNCHANGED next
  BY <1>1, <1>3, <1>4, CaughtKeeps
<1>5. CASE /\ reading = Absent /\ next' = next + 1
           /\ UNCHANGED <<variant, seed, phase, manifest, runs, status>>
  <2>1. metric.kind # "extension"
    BY <1>5, ExperimentAssumption DEF Readings
  <2> QED
    BY <1>1, <1>3, <1>5, <2>1, MetricRead
<1>6. CASE /\ next' = next + 1
           /\ manifest' = [manifest EXCEPT !.metrics = With(@, metric.id, reading)]
           /\ UNCHANGED <<variant, seed, phase, runs, status>>
  <2>1. manifest'.metrics = With(manifest.metrics, metric.id, reading)
    BY <1>3, <1>6 DEF ManifestFields
  <2>2. /\ DOMAIN manifest.metrics \subseteq DOMAIN manifest'.metrics
        /\ metric.id \in DOMAIN manifest'.metrics
    BY <2>1 DEF With
  <2>3. /\ DOMAIN manifest' = ManifestFields
        /\ manifest'.variant = manifest.variant /\ manifest'.seed = manifest.seed
        /\ manifest'.exception = manifest.exception
        /\ manifest'.success = manifest.success
        /\ manifest'.scenario = manifest.scenario
    BY <1>3, <1>6 DEF ManifestFields
  <2> QED
    BY <1>1, <1>6, <2>2, <2>3, MetricRead
<1> QED
  BY <1>2, <1>4, <1>5, <1>6

LEMMA EndRunKeeps == ExperimentInv /\ EndRun => ExperimentInv'
<1> SUFFICES ASSUME ExperimentInv, EndRun PROVE ExperimentInv'
  OBVIOUS
<1>1. /\ status = "running" /\ phase = "metrics" /\ Mid
      /\ next > Len(definition.metrics)
      /\ UNCHANGED <<definition, next, scenario, generator>>
  BY DEF EndRun, Measuring, Mid
<1>2. GeneratorOK' /\ DOMAIN manifest = ManifestFields
  BY <1>1 DEF ExperimentInv, Typed, GeneratorOK
<1>3. CASE /\ runs' = Append(runs, manifest)
           /\ files' = (IF definition.details THEN files \cup {Len(runs')} ELSE files)
           /\ NextRun
           /\ UNCHANGED <<manifest, status>>
  <2>1. /\ manifest.variant = variant /\ manifest.seed = SeedPlan[seed]
        /\ ~manifest.exception
    BY <1>1 DEF ExperimentInv, AtHand
  <2>2. RunsOK' /\ Positions' /\ ~Mid' /\ EveryRunReported'
    BY <1>1, <1>3, <2>1, RunReported DEF ExperimentInv
  <2>3. Len(runs') = Len(runs) + 1
    BY <1>3, Appended DEF ExperimentInv, Typed
  <2>4. files \subseteq files' /\ (definition.details => Len(runs) + 1 \in files')
    BY <1>3, <2>3
  <2>5. definition.metrics \in Seq(Metric) /\ next \in Nat
    BY DEF ExperimentInv, Typed, Definition
  <2>6. \A k \in DOMAIN definition.metrics : k < next
    BY <1>1, <2>5
  <2>7. manifest.success =>
          /\ ~manifest.exception
          /\ manifest.scenario # None /\ Valid(manifest.scenario)
          /\ \A k \in DOMAIN definition.metrics :
               definition.metrics[k].kind = "extension" =>
                 definition.metrics[k].id \in DOMAIN manifest.metrics
    BY <1>1, <2>1, <2>6 DEF ExperimentInv, Earned
  <2>8. SuccessMeansComplete'
    BY <1>1, <1>3, <2>4, <2>7, SuccessReported DEF ExperimentInv, Typed
  <2>9. Typed'
    BY <1>1, <1>2, <1>3, <2>2 DEF ExperimentInv, Typed
  <2>10. AtHand' /\ Earned'
    BY <2>2 DEF AtHand, Earned
  <2> QED
    BY <2>2, <2>8, <2>9, <2>10 DEF ExperimentInv
<1>4. CASE Caught(manifest) /\ UNCHANGED files
  BY <1>1, <1>2, <1>4, CaughtKeeps
<1> QED
  BY <1>3, <1>4 DEF EndRun

LEMMA ReportKeeps == ExperimentInv /\ Report => ExperimentInv'
<1> SUFFICES ASSUME ExperimentInv, Report PROVE ExperimentInv'
  OBVIOUS
<1>1. /\ status = "running" /\ phase = "report" /\ status' \in {"done", "thrown"}
      /\ UNCHANGED <<definition, variant, seed, phase, next, scenario, generator,
                     manifest, runs, files>>
  BY DEF Report
<1>2. Variants' = Variants /\ SeedPlan' = SeedPlan /\ TotalRuns' = TotalRuns
  BY <1>1, PlansKept
<1>3. Typed'
  BY <1>1, <1>2 DEF ExperimentInv, Typed, Positions, GeneratorOK, RunsOK
<1>4. AtHand' /\ Earned'
  BY <1>1 DEF AtHand, Earned, Mid
<1>5. EveryRunReported'
  BY <1>1, <1>2 DEF ExperimentInv, EveryRunReported
<1>6. SuccessMeansComplete'
  BY <1>1 DEF ExperimentInv, SuccessMeansComplete
<1> QED
  BY <1>3, <1>4, <1>5, <1>6 DEF ExperimentInv

(***************************************************************************)
(* The theorems.                                                           *)
(***************************************************************************)
LEMMA ExperimentStep == ExperimentInv /\ [Next]_vars => ExperimentInv'
<1> SUFFICES ASSUME ExperimentInv, [Next]_vars PROVE ExperimentInv'
  OBVIOUS
<1>1. CASE UNCHANGED vars
  <2>1. UNCHANGED <<definition, variant, seed, phase, next, scenario, generator,
                    manifest, runs, files, status>>
    BY <1>1 DEF vars
  <2>2. Variants' = Variants /\ SeedPlan' = SeedPlan /\ TotalRuns' = TotalRuns
    BY <2>1, PlansKept
  <2>3. Typed' /\ AtHand' /\ Earned'
    BY <2>1, <2>2 DEF ExperimentInv, Typed, Positions, GeneratorOK, RunsOK,
                      AtHand, Earned, Mid
  <2>4. EveryRunReported' /\ SuccessMeansComplete'
    BY <2>1, <2>2 DEF ExperimentInv, EveryRunReported, SuccessMeansComplete
  <2> QED
    BY <2>3, <2>4 DEF ExperimentInv
<1>2. CASE Next
  BY <1>2, BeginRunKeeps, ApplyOverrideKeeps, ApplyOverlayKeeps, ExecuteKeeps,
     ReadMetricKeeps, EndRunKeeps, ReportKeeps DEF Next
<1> QED
  BY <1>1, <1>2

LEMMA ExperimentInvariant == Spec => []ExperimentInv
<1>1. Init => ExperimentInv
  BY ExperimentInit
<1>2. ExperimentInv /\ [Next]_vars => ExperimentInv'
  BY ExperimentStep
<1> QED
  BY <1>1, <1>2, PTL DEF Spec

\* For every experiment, runs are reported in the order of variants and seeds
\* (the loops of run_experiment), each once, failed or not, and only an
\* exception under fail_fast or in the report ends it early.
THEOREM EveryRunIsReported == Spec => []EveryRunReported
<1>1. ExperimentInv => EveryRunReported
  BY DEF ExperimentInv
<1> QED
  BY <1>1, ExperimentInvariant, PTL

\* For every experiment, a manifest says success only of a run with a valid
\* scenario, all its extensions' metrics, and its detail file.
THEOREM SuccessIsEarned == Spec => []SuccessMeansComplete
<1>1. ExperimentInv => SuccessMeansComplete
  BY DEF ExperimentInv
<1> QED
  BY <1>1, ExperimentInvariant, PTL

(***************************************************************************)
(* Induction over the naturals.  Its statement in the library takes a      *)
(* predicate as a parameter; as a set it follows from the order of the     *)
(* finite sets by inclusion, which is well-founded.                        *)
(***************************************************************************)
LEMMA LeastElement ==
  ASSUME NEW T \in SUBSET Nat, T # {}
  PROVE  \E n \in T : \A m \in T : n <= m
<1> DEFINE Up == {0 .. n : n \in T}
<1>1. Up \in SUBSET FiniteSubsetsOf(Nat)
  <2>1. ASSUME NEW n \in T PROVE 0 .. n \in FiniteSubsetsOf(Nat)
    <3>1. 0 \in Int /\ n \in Int
      OBVIOUS
    <3>2. IsFiniteSet(0 .. n)
      BY <3>1, FS_Interval
    <3> QED
      BY <3>2 DEF FiniteSubsetsOf
  <2> QED
    BY <2>1
<1>2. Up # {}
  OBVIOUS
<1>3. \E x \in Up : \A y \in Up : ~(<<y, x>> \in StrictSubsetOrdering(Nat))
  <2> HIDE DEF Up
  <2> QED
    BY <1>1, <1>2, FS_StrictSubsetOrderingWellFounded, WFMin
<1>4. PICK n \in T : \A y \in Up : ~(<<y, 0 .. n>> \in StrictSubsetOrdering(Nat))
  BY <1>3
<1>5. ASSUME NEW m \in T PROVE n <= m
  <2>1. 0 .. m \in Up /\ 0 .. n \in Up
    OBVIOUS
  <2>2. 0 .. m \in FiniteSubsetsOf(Nat) /\ 0 .. n \in FiniteSubsetsOf(Nat)
    BY <1>1, <2>1
  <2>3. ~(0 .. m \subseteq 0 .. n /\ 0 .. m # 0 .. n)
    BY <1>4, <2>1, <2>2 DEF StrictSubsetOrdering, FiniteSubsetsOf
  <2>4. n \in Nat /\ m \in Nat
    OBVIOUS
  <2>5. ASSUME m < n PROVE FALSE
    <3>1. 0 .. m \subseteq 0 .. n
      BY <2>4, <2>5
    <3>2. n \in 0 .. n /\ n \notin 0 .. m
      BY <2>4, <2>5
    <3> QED
      BY <2>3, <3>1, <3>2
  <2> QED
    BY <2>4, <2>5
<1> QED
  BY <1>5

LEMMA Induction ==
  ASSUME NEW T, 0 \in T, \A n \in Nat : n \in T => n + 1 \in T
  PROVE  Nat \subseteq T
<1>1. ASSUME Nat \ T # {} PROVE FALSE
  <2>1. PICK n \in Nat \ T : \A m \in Nat \ T : n <= m
    BY <1>1, LeastElement
  <2>2. n # 0 /\ n - 1 \in Nat /\ n - 1 \notin Nat \ T
    BY <2>1
  <2> QED
    BY <2>1, <2>2
<1> QED
  BY <1>1

\* Two functions that start alike and go on alike are alike.
LEMMA Agree ==
  ASSUME NEW m \in Nat, NEW f, NEW g, f[0] = g[0],
         \A k \in 1 .. m : f[k - 1] = g[k - 1] => f[k] = g[k]
  PROVE  \A k \in 0 .. m : f[k] = g[k]
<1> DEFINE T == {k \in Nat : k <= m => f[k] = g[k]}
<1>1. 0 \in T
  OBVIOUS
<1>2. ASSUME NEW n \in Nat, n \in T PROVE n + 1 \in T
  <2>1. CASE n + 1 <= m
    <3>1. f[n] = g[n] /\ n + 1 \in 1 .. m /\ (n + 1) - 1 = n
      BY <1>2, <2>1
    <3>2. f[n + 1] = g[n + 1]
      BY <3>1
    <3> QED
      BY <3>2
  <2>2. CASE ~(n + 1 <= m)
    BY <2>2
  <2> QED
    BY <2>1, <2>2
<1>3. Nat \subseteq T
  <2> HIDE DEF T
  <2> QED
    BY <1>1, <1>2, Induction
<1>4. ASSUME NEW k \in 0 .. m PROVE f[k] = g[k]
  <2>1. k \in Nat /\ k <= m
    OBVIOUS
  <2>2. k \in T
    BY <1>3, <2>1
  <2> QED
    BY <2>1, <2>2
<1> QED
  BY <1>4

(***************************************************************************)
(* The numbers among readings: one reading more.                           *)
(***************************************************************************)
Sifted(r, n, f) ==
  f = [k \in 0 .. n |->
         IF k = 0 THEN <<>>
         ELSE IF r[k] \in Numbers THEN Append(f[k - 1], r[k]) ELSE f[k - 1]]

LEMMA NumbersInIs ==
  ASSUME NEW r
  PROVE  NumbersIn(r) = (CHOOSE f : Sifted(r, Len(r), f))[Len(r)]
  BY DEF NumbersIn, Sifted

LEMMA SiftedExists ==
  ASSUME NEW r
  PROVE  \A n \in Nat : \E f : Sifted(r, n, f)
<1> DEFINE T == {n \in Nat : \E f : Sifted(r, n, f)}
<1>1. 0 \in T
  <2>1. Sifted(r, 0, [k \in 0 .. 0 |-> <<>>])
    BY DEF Sifted
  <2> QED
    BY <2>1
<1>2. ASSUME NEW n \in Nat, n \in T PROVE n + 1 \in T
  <2>1. PICK f : Sifted(r, n, f)
    BY <1>2
  <2> DEFINE last == IF r[n + 1] \in Numbers THEN Append(f[n], r[n + 1]) ELSE f[n]
             g == [k \in 0 .. n + 1 |-> IF k = n + 1 THEN last ELSE f[k]]
  <2>2. \A k \in 0 .. n : f[k] =
          IF k = 0 THEN <<>>
          ELSE IF r[k] \in Numbers THEN Append(f[k - 1], r[k]) ELSE f[k - 1]
    BY <2>1 DEF Sifted
  <2>3. \A k \in 0 .. n + 1 : g[k] =
          IF k = 0 THEN <<>>
          ELSE IF r[k] \in Numbers THEN Append(g[k - 1], r[k]) ELSE g[k - 1]
    <3>1. SUFFICES ASSUME NEW k \in 0 .. n + 1
                   PROVE  g[k] = IF k = 0 THEN <<>>
                                 ELSE IF r[k] \in Numbers THEN Append(g[k - 1], r[k])
                                 ELSE g[k - 1]
      OBVIOUS
    <3>2. CASE k = n + 1
      <4>1. g[k] = last /\ k # 0 /\ k - 1 = n /\ g[k - 1] = f[n]
        BY <3>2
      <4> QED
        BY <3>2, <4>1
    <3>3. CASE k # n + 1
      <4>1. k \in 0 .. n /\ g[k] = f[k]
        BY <3>3
      <4>2. k # 0 => g[k - 1] = f[k - 1]
        BY <3>3
      <4> HIDE DEF g
      <4> QED
        BY <2>2, <4>1, <4>2
    <3> QED
      BY <3>2, <3>3
  <2>4. Sifted(r, n + 1, g)
    <3>1. g = [k \in 0 .. n + 1 |-> g[k]]
      OBVIOUS
    <3> HIDE DEF g
    <3> QED
      BY <2>3, <3>1 DEF Sifted
  <2> QED
    BY <2>4
<1>3. Nat \subseteq T
  <2> HIDE DEF T
  <2> QED
    BY <1>1, <1>2, Induction
<1> QED
  BY <1>3

LEMMA SiftedAgree ==
  ASSUME NEW r, NEW s, NEW m \in Nat, NEW n \in Nat, NEW f, NEW g,
         Sifted(r, m, f), Sifted(s, n, g), m <= n,
         \A k \in 1 .. m : s[k] = r[k]
  PROVE  \A k \in 0 .. m : f[k] = g[k]
<1>1. /\ \A k \in 0 .. m : f[k] =
           IF k = 0 THEN <<>>
           ELSE IF r[k] \in Numbers THEN Append(f[k - 1], r[k]) ELSE f[k - 1]
      /\ \A k \in 0 .. n : g[k] =
           IF k = 0 THEN <<>>
           ELSE IF s[k] \in Numbers THEN Append(g[k - 1], s[k]) ELSE g[k - 1]
  BY DEF Sifted
<1>2. f[0] = g[0]
  BY <1>1
<1>3. ASSUME NEW k \in 1 .. m, f[k - 1] = g[k - 1] PROVE f[k] = g[k]
  <2>1. k \in 0 .. m /\ k \in 0 .. n /\ k # 0 /\ s[k] = r[k]
    OBVIOUS
  <2> QED
    BY <1>1, <1>3, <2>1
<1> QED
  BY <1>2, <1>3, Agree

LEMMA NumbersInSifted ==
  ASSUME NEW r, Len(r) \in Nat
  PROVE  \E f : Sifted(r, Len(r), f) /\ NumbersIn(r) = f[Len(r)]
<1>1. \E f : Sifted(r, Len(r), f)
  BY SiftedExists
<1>2. Sifted(r, Len(r), CHOOSE f : Sifted(r, Len(r), f))
  BY <1>1, Zenon
<1> QED
  BY <1>2, NumbersInIs, Zenon

\* Stated of a sequence with a reading more, for the provers lose track of
\* values that are known to be sequences.
LEMMA NumbersInLonger ==
  ASSUME NEW r, NEW s, NEW n \in Nat, Len(r) = n, Len(s) = n + 1,
         \A k \in 1 .. n : s[k] = r[k]
  PROVE  NumbersIn(s) = IF s[n + 1] \in Numbers
                        THEN Append(NumbersIn(r), s[n + 1]) ELSE NumbersIn(r)
<1>1. PICK m \in Nat : m = n + 1
  OBVIOUS
<1>2. PICK f : Sifted(r, n, f) /\ NumbersIn(r) = f[n]
  BY NumbersInSifted
<1>3. PICK g : Sifted(s, m, g) /\ NumbersIn(s) = g[m]
  BY <1>1, NumbersInSifted
<1>4. f[n] = g[n]
  <2>1. n <= m
    BY <1>1
  <2>2. \A k \in 0 .. n : f[k] = g[k]
    BY <1>2, <1>3, <2>1, SiftedAgree
  <2> QED
    BY <2>2
<1>5. g[m] = IF s[m] \in Numbers THEN Append(g[n], s[m]) ELSE g[n]
  <2>1. m \in 0 .. m /\ m # 0 /\ m - 1 = n
    BY <1>1
  <2>2. \A k \in 0 .. m : g[k] =
           IF k = 0 THEN <<>>
           ELSE IF s[k] \in Numbers THEN Append(g[k - 1], s[k]) ELSE g[k - 1]
    BY <1>3 DEF Sifted
  <2> QED
    BY <2>1, <2>2
<1> QED
  BY <1>1, <1>2, <1>3, <1>4, <1>5, Zenon

LEMMA NumbersInAppend ==
  ASSUME NEW X, NEW r \in Seq(X), NEW x \in X
  PROVE  NumbersIn(Append(r, x)) =
           IF x \in Numbers THEN Append(NumbersIn(r), x) ELSE NumbersIn(r)
<1>1. /\ Len(r) \in Nat /\ Len(Append(r, x)) = Len(r) + 1
      /\ Append(r, x)[Len(r) + 1] = x
      /\ \A k \in 1 .. Len(r) : Append(r, x)[k] = r[k]
  BY AppendProperties
<1>2. /\ Append(r, x)[Len(Append(r, x))] = x
      /\ NumbersIn(Append(r, x)) =
           IF Append(r, x)[Len(r) + 1] \in Numbers
           THEN Append(NumbersIn(r), Append(r, x)[Len(r) + 1]) ELSE NumbersIn(r)
  BY <1>1, NumbersInLonger, Zenon
<1> QED
  BY <1>1, <1>2, Zenon

LEMMA NumbersInEmpty == NumbersIn(<<>>) = <<>>
<1>1. \E f : Sifted(<<>>, 0, f)
  BY SiftedExists
<1>2. Sifted(<<>>, 0, CHOOSE f : Sifted(<<>>, 0, f))
  BY <1>1, Zenon
<1>3. (CHOOSE f : Sifted(<<>>, 0, f))[0] = <<>>
  BY <1>2 DEF Sifted
<1>4. Len(<<>>) = 0
  OBVIOUS
<1>5. NumbersIn(<<>>) = (CHOOSE f : Sifted(<<>>, Len(<<>>), f))[Len(<<>>)]
  BY NumbersInIs
<1> QED
  BY <1>3, <1>4, <1>5, Zenon

(***************************************************************************)
(* The least and the greatest of a sequence of numbers.                    *)
(***************************************************************************)
LEMMA LeastAndGreatest ==
  ASSUME NEW s \in Seq(Nat), s # <<>>
  PROVE  /\ LeastOf(InSequence(s)) \in InSequence(s)
         /\ GreatestOf(InSequence(s)) \in InSequence(s)
         /\ \A x \in InSequence(s) :
              LeastOf(InSequence(s)) <= x /\ x <= GreatestOf(InSequence(s))
<1> DEFINE S == InSequence(s)
<1>1. S \in SUBSET Nat /\ S # {}
  <2>1. 1 \in DOMAIN s /\ \A i \in DOMAIN s : s[i] \in Nat
    OBVIOUS
  <2> QED
    BY <2>1 DEF InSequence
<1>2. \E x \in S : \A y \in S : x <= y
  <2> HIDE DEF S
  <2> QED
    BY <1>1, LeastElement
<1>3. \E x \in S : \A y \in S : x >= y
  <2> DEFINE T == {n \in Nat : 0 < n /\ n <= Len(s) =>
                      \E i \in 1 .. n : \A j \in 1 .. n : s[i] >= s[j]}
  <2>0. Len(s) \in Nat /\ \A i \in 1 .. Len(s) : s[i] \in Nat
    OBVIOUS
  <2>1. 0 \in T
    OBVIOUS
  <2>2. ASSUME NEW n \in Nat, n \in T PROVE n + 1 \in T
    <3>1. CASE n = 0
      <4>1. n + 1 <= Len(s) => s[1] \in Nat
        BY <2>0, <3>1
      <4>2. n + 1 <= Len(s) => \E i \in 1 .. n + 1 : \A j \in 1 .. n + 1 : s[i] >= s[j]
        BY <3>1, <4>1
      <4> QED
        BY <4>2
    <3>2. CASE n # 0 /\ n + 1 <= Len(s)
      <4>1. PICK i \in 1 .. n : \A j \in 1 .. n : s[i] >= s[j]
        BY <2>2, <3>2
      <4>2. s[i] \in Nat /\ s[n + 1] \in Nat /\ \A j \in 1 .. n : s[j] \in Nat
        BY <2>0, <3>2
      <4>3. CASE s[i] >= s[n + 1]
        <5>1. \A j \in 1 .. n + 1 : s[i] >= s[j]
          BY <4>1, <4>3
        <5>2. i \in 1 .. n + 1
          OBVIOUS
        <5> QED
          BY <5>1, <5>2
      <4>4. CASE s[n + 1] >= s[i]
        <5>1. \A j \in 1 .. n + 1 : s[n + 1] >= s[j]
          BY <4>1, <4>2, <4>4
        <5>2. n + 1 \in 1 .. n + 1
          OBVIOUS
        <5> QED
          BY <5>1, <5>2
      <4>5. s[i] >= s[n + 1] \/ s[n + 1] >= s[i]
        BY <4>2
      <4> HIDE DEF T
      <4> QED
        BY <4>3, <4>4, <4>5
    <3>3. CASE ~(n + 1 <= Len(s))
      BY <3>3
    <3> HIDE DEF T
    <3> QED
      BY <3>1, <3>2, <3>3
  <2>3. Len(s) \in T /\ 0 < Len(s)
    <3>1. Nat \subseteq T
      <4> HIDE DEF T
      <4> QED
        BY <2>1, <2>2, Induction
    <3>2. 0 < Len(s)
      OBVIOUS
    <3> QED
      BY <2>0, <3>1, <3>2
  <2>4. PICK i \in 1 .. Len(s) : \A j \in 1 .. Len(s) : s[i] >= s[j]
    BY <2>0, <2>3
  <2>5. DOMAIN s = 1 .. Len(s)
    OBVIOUS
  <2> QED
    BY <2>4, <2>5 DEF InSequence
<1>4. /\ LeastOf(S) \in S /\ \A y \in S : LeastOf(S) <= y
  <2> HIDE DEF S
  <2> QED
    BY <1>2 DEF LeastOf
<1>5. /\ GreatestOf(S) \in S /\ \A y \in S : GreatestOf(S) >= y
  <2> HIDE DEF S
  <2> QED
    BY <1>3 DEF GreatestOf
<1>6. ASSUME NEW x \in S PROVE LeastOf(S) <= x /\ x <= GreatestOf(S)
  <2>1. GreatestOf(S) \in Nat /\ x \in Nat /\ GreatestOf(S) >= x
    BY <1>1, <1>5
  <2> HIDE DEF S
  <2> QED
    BY <1>4, <2>1
<1> QED
  BY <1>4, <1>5, <1>6

(***************************************************************************)
(* What the manifests show of a metric.                                    *)
(***************************************************************************)
SeenIn(rs, id) == NumbersIn([i \in DOMAIN rs |-> Reading(rs[i], id)])

LEMMA SeenAppend ==
  ASSUME NEW results, NEW rs \in Seq(results), NEW r, NEW id
  PROVE  SeenIn(Append(rs, r), id) =
           IF Reading(r, id) \in Numbers
           THEN Append(SeenIn(rs, id), Reading(r, id)) ELSE SeenIn(rs, id)
<1>1. PICK n \in Nat : n = Len(rs)
  OBVIOUS
<1> DEFINE more == Append(rs, r)
<1>3. /\ DOMAIN rs = 1 .. n /\ DOMAIN more = 1 .. n + 1
      /\ \A i \in 1 .. n : more[i] = rs[i]
      /\ more[n + 1] = r
  <2>1. rs \in Seq(results \cup {r}) /\ r \in results \cup {r}
    OBVIOUS
  <2>2. /\ Append(rs, r) \in Seq(results \cup {r})
        /\ Len(Append(rs, r)) = Len(rs) + 1
        /\ \A i \in 1 .. Len(rs) : Append(rs, r)[i] = rs[i]
        /\ Append(rs, r)[Len(rs) + 1] = r
    BY <2>1, AppendProperties
  <2> QED
    BY <1>1, <2>1, <2>2
<1> HIDE DEF more
<1> DEFINE f == [i \in DOMAIN rs |-> Reading(rs[i], id)]
           g == [i \in DOMAIN more |-> Reading(more[i], id)]
<1>4. Len(f) = n /\ Len(g) = n + 1
  <2>1. f = [i \in 1 .. n |-> Reading(rs[i], id)]
        /\ g = [i \in 1 .. n + 1 |-> Reading(more[i], id)]
    BY <1>3
  <2> QED
    BY <2>1
<1>5. /\ \A i \in 1 .. n : g[i] = f[i]
      /\ g[n + 1] = Reading(r, id)
  BY <1>3
<1> HIDE DEF f, g
<1>6. NumbersIn(g) = IF Reading(r, id) \in Numbers
                     THEN Append(NumbersIn(f), Reading(r, id)) ELSE NumbersIn(f)
  <2>1. NumbersIn(g) = IF g[n + 1] \in Numbers
                       THEN Append(NumbersIn(f), g[n + 1]) ELSE NumbersIn(f)
    BY <1>4, <1>5, NumbersInLonger, Zenon
  <2> QED
    BY <1>5, <2>1, Zenon
<1>7. SeenIn(rs, id) = NumbersIn(f) /\ SeenIn(more, id) = NumbersIn(g)
  BY DEF SeenIn, f, g
<1>8. SeenIn(more, id) = IF Reading(r, id) \in Numbers
                         THEN Append(SeenIn(rs, id), Reading(r, id))
                         ELSE SeenIn(rs, id)
  BY <1>6, <1>7, Zenon
<1> QED
  BY <1>8, Zenon DEF more

LEMMA SeenNone ==
  ASSUME NEW id
  PROVE  SeenIn(<<>>, id) = <<>>
<1>1. [i \in DOMAIN <<>> |-> Reading(<<>>[i], id)] = <<>>
  OBVIOUS
<1> QED
  BY <1>1, NumbersInEmpty, Zenon DEF SeenIn

LEMMA ShownIsSeen ==
  ASSUME NEW id
  PROVE  /\ Measuring => ShownOf(id) = SeenIn(Append(runs, manifest), id)
         /\ ~Measuring => ShownOf(id) = SeenIn(runs, id)
<1>1. ShownOf(id) = SeenIn(Shown, id)
  BY DEF ShownOf, SeenIn
<1>2. CASE Measuring
  <2>1. Shown = Append(runs, manifest)
    BY <1>2 DEF Shown
  <2> QED
    BY <1>1, <1>2, <2>1, Zenon
<1>3. CASE ~Measuring
  <2>1. Shown = runs
    BY <1>3 DEF Shown
  <2> QED
    BY <1>1, <1>3, <2>1, Zenon
<1> QED
  BY <1>2, <1>3

LEMMA ShownIsSeenNext ==
  ASSUME NEW id
  PROVE  /\ Measuring' => ShownOf(id)' = SeenIn(Append(runs', manifest'), id)
         /\ ~Measuring' => ShownOf(id)' = SeenIn(runs', id)
<1>1. ShownOf(id)' = SeenIn(Shown', id)
  BY DEF ShownOf, SeenIn
<1>2. CASE Measuring'
  <2>1. Shown' = Append(runs', manifest')
    BY <1>2 DEF Shown
  <2> QED
    BY <1>1, <1>2, <2>1, Zenon
<1>3. CASE ~Measuring'
  <2>1. Shown' = runs'
    BY <1>3 DEF Shown
  <2> QED
    BY <1>1, <1>3, <2>1, Zenon
<1> QED
  BY <1>2, <1>3

(***************************************************************************)
(* The samples are what the manifests show, as far as the run has come: it *)
(* shows the metrics behind and no other.                                  *)
(***************************************************************************)
MetricIds == {definition.metrics[k].id : k \in DOMAIN definition.metrics}

SamplesTyped ==
  \A id \in DOMAIN samples :
    samples[id] \in Seq(Numbers) /\ samples[id] # <<>> /\ id \in MetricIds

ReadSoFar ==
  /\ Materializing => manifest.metrics = <<>>
  /\ Measuring =>
       \A id \in DOMAIN manifest.metrics :
         \E j \in DOMAIN definition.metrics : j < next /\ definition.metrics[j].id = id

Tallied == MetricIdsDistinct => \A id \in MetricIds : SamplesOf(id) = ShownOf(id)

NotYet == status = "running" => aggregates = {}

Sampling == SamplesTyped /\ ReadSoFar /\ Tallied /\ NotYet

LEMMA NextRunLeaves ==
  ASSUME NextRun
  PROVE  phase' \in {"begin", "report"}
BY DEF NextRun

LEMMA CaughtLeaves ==
  ASSUME NEW m, DOMAIN m = ManifestFields, Caught(m)
  PROVE  /\ ~Materializing' /\ ~Measuring'
         /\ \E r : runs' = Append(runs, r) /\ r.metrics = m.metrics
<1>1. status' = "thrown" \/ phase' \in {"begin", "report"}
  BY NextRunLeaves DEF Caught
<1>2. ~Materializing' /\ ~Measuring'
  BY <1>1 DEF Materializing, Measuring
<1>3. runs' = Append(runs, [m EXCEPT !.success = FALSE, !.exception = TRUE])
  BY DEF Caught
<1>4. [m EXCEPT !.success = FALSE, !.exception = TRUE].metrics = m.metrics
  BY DEF ManifestFields
<1> QED
  BY <1>2, <1>3, <1>4

LEMMA ReadAlike ==
  ASSUME NEW r, NEW m, r.metrics = m.metrics, NEW id
  PROVE  Reading(r, id) = Reading(m, id)
BY DEF Reading

LEMMA NothingRead ==
  ASSUME NEW m, m.metrics = <<>>, NEW id
  PROVE  Reading(m, id) \notin Numbers
BY ExperimentAssumption DEF Reading

LEMMA SamplesKept ==
  ASSUME SamplesTyped, NotYet, UNCHANGED <<definition, samples, aggregates>>,
         status = "running"
  PROVE  /\ SamplesTyped' /\ NotYet' /\ MetricIds' = MetricIds
         /\ MetricIdsDistinct' = MetricIdsDistinct
         /\ \A id : SamplesOf(id)' = SamplesOf(id)
<1>1. MetricIds' = MetricIds
  BY DEF MetricIds
<1>2. MetricIdsDistinct' = MetricIdsDistinct
  BY DEF MetricIdsDistinct
<1>3. \A id : SamplesOf(id)' = SamplesOf(id)
  BY DEF SamplesOf
<1> QED
  BY <1>1, <1>2, <1>3 DEF SamplesTyped, NotYet

\* What is shown stays the same when a run ends: its manifest is reported.
LEMMA RunOver ==
  ASSUME ExperimentInv, Sampling, Materializing \/ Measuring,
         UNCHANGED <<definition, samples, aggregates>>,
         ~Materializing', ~Measuring',
         NEW r, runs' = Append(runs, r), r.metrics = manifest.metrics
  PROVE  Sampling'
<1>0. status = "running"
  BY DEF Materializing, Measuring
<1>1. /\ SamplesTyped' /\ NotYet' /\ MetricIds' = MetricIds
      /\ MetricIdsDistinct' = MetricIdsDistinct
      /\ \A id : SamplesOf(id)' = SamplesOf(id)
  BY <1>0, SamplesKept DEF Sampling
<1>2. PICK results : runs \in Seq(results)
  BY DEF ExperimentInv, Typed, RunsOK
<1>3. ASSUME NEW id PROVE ShownOf(id)' = ShownOf(id)
  <2>1. ShownOf(id)' = SeenIn(Append(runs, r), id)
    <3>1. ShownOf(id)' = SeenIn(runs', id)
      BY ShownIsSeenNext
    <3> QED
      BY <3>1, Zenon
  <2>2. SeenIn(Append(runs, r), id) =
          IF Reading(r, id) \in Numbers
          THEN Append(SeenIn(runs, id), Reading(r, id)) ELSE SeenIn(runs, id)
    BY <1>2, SeenAppend
  <2>3. CASE Measuring
    <3>1. Reading(r, id) = Reading(manifest, id)
      BY ReadAlike
    <3>2. SeenIn(Append(runs, manifest), id) =
            IF Reading(manifest, id) \in Numbers
            THEN Append(SeenIn(runs, id), Reading(manifest, id))
            ELSE SeenIn(runs, id)
      BY <1>2, SeenAppend
    <3>3. ShownOf(id) = SeenIn(Append(runs, manifest), id)
      BY <2>3, ShownIsSeen
    <3> QED
      BY <2>1, <2>2, <3>1, <3>2, <3>3, Zenon
  <2>4. CASE ~Measuring
    <3>1. manifest.metrics = <<>>
      BY <2>4 DEF Sampling, ReadSoFar
    <3>2. Reading(r, id) \notin Numbers
      BY <3>1, NothingRead
    <3>3. ShownOf(id) = SeenIn(runs, id)
      BY <2>4, ShownIsSeen
    <3> QED
      BY <2>1, <2>2, <3>2, <3>3, Zenon
  <2> QED
    BY <2>3, <2>4
<1>4. Tallied'
  BY <1>1, <1>3 DEF Sampling, Tallied
<1>5. ReadSoFar'
  BY DEF ReadSoFar
<1> QED
  BY <1>1, <1>4, <1>5 DEF Sampling

\* A step that neither reads a metric nor ends a run.
LEMMA NothingShown ==
  ASSUME ExperimentInv, Sampling, status = "running", ~Measuring,
         UNCHANGED <<definition, samples, aggregates, runs>>,
         Materializing' \/ Measuring' => manifest'.metrics = <<>>
  PROVE  Sampling'
<1>1. /\ SamplesTyped' /\ NotYet' /\ MetricIds' = MetricIds
      /\ MetricIdsDistinct' = MetricIdsDistinct
      /\ \A id : SamplesOf(id)' = SamplesOf(id)
  BY SamplesKept DEF Sampling
<1>2. PICK results : runs \in Seq(results)
  BY DEF ExperimentInv, Typed, RunsOK
<1>3. ASSUME NEW id PROVE ShownOf(id)' = ShownOf(id)
  <2>1. ShownOf(id) = SeenIn(runs, id)
    BY ShownIsSeen
  <2>2. CASE Measuring'
    <3>1. ShownOf(id)' = SeenIn(Append(runs, manifest'), id)
      <4>1. ShownOf(id)' = SeenIn(Append(runs', manifest'), id)
        BY <2>2, ShownIsSeenNext
      <4> QED
        BY <4>1, Zenon
    <3>2. SeenIn(Append(runs, manifest'), id) =
            IF Reading(manifest', id) \in Numbers
            THEN Append(SeenIn(runs, id), Reading(manifest', id))
            ELSE SeenIn(runs, id)
      BY <1>2, SeenAppend
    <3>3. Reading(manifest', id) \notin Numbers
      BY <2>2, NothingRead
    <3> QED
      BY <2>1, <3>1, <3>2, <3>3, Zenon
  <2>3. CASE ~Measuring'
    <3>1. ShownOf(id)' = SeenIn(runs', id)
      BY <2>3, ShownIsSeenNext
    <3> QED
      BY <2>1, <3>1, Zenon
  <2> QED
    BY <2>2, <2>3
<1>4. Tallied'
  BY <1>1, <1>3 DEF Sampling, Tallied
<1>5. ReadSoFar'
  BY DEF ReadSoFar
<1> QED
  BY <1>1, <1>4, <1>5 DEF Sampling

\* A metric that shows no reading.
LEMMA ReadsNothing ==
  ASSUME Sampling, Measuring, next \in Nat, definition.metrics \in Seq(Metric),
         next' = next + 1,
         UNCHANGED <<definition, samples, aggregates, runs, manifest, phase, status>>
  PROVE  Sampling'
<1>0. status = "running"
  BY DEF Measuring
<1>1. /\ SamplesTyped' /\ NotYet' /\ MetricIds' = MetricIds
      /\ MetricIdsDistinct' = MetricIdsDistinct
      /\ \A id : SamplesOf(id)' = SamplesOf(id)
  BY <1>0, SamplesKept DEF Sampling
<1>2. \A id : ShownOf(id)' = ShownOf(id)
  BY DEF ShownOf, Shown, Measuring
<1>3. Tallied'
  BY <1>1, <1>2 DEF Sampling, Tallied
<1>4. DOMAIN definition.metrics \subseteq Nat
  OBVIOUS
<1>5. \A j \in DOMAIN definition.metrics : j < next => j < next'
  BY <1>4
<1>6. ReadSoFar'
  BY <1>5 DEF Sampling, ReadSoFar, Measuring, Materializing
<1> QED
  BY <1>1, <1>3, <1>6 DEF Sampling

\* A metric that shows a number or a text.
LEMMA ReadsSomething ==
  ASSUME ExperimentInv, Sampling, Measuring, next \in DOMAIN definition.metrics,
         NEW reading \in Numbers \cup {Text}, NEW at,
         at = definition.metrics[next].id,
         manifest'.metrics = With(manifest.metrics, at, reading),
         samples' = IF reading = Text THEN samples
                    ELSE With(samples, at, Append(SamplesOf(at), reading)),
         next' = next + 1,
         UNCHANGED <<definition, aggregates, runs, phase, status>>
  PROVE  Sampling'
<1>0. /\ definition.metrics \in Seq(Metric) /\ next \in Nat /\ Measuring'
      /\ ~Materializing /\ ~Materializing' /\ status = "running"
  BY DEF Measuring, Materializing, ExperimentInv, Typed, Definition
<1>1. MetricIds' = MetricIds /\ at \in MetricIds
      /\ MetricIdsDistinct' = MetricIdsDistinct
  BY DEF MetricIds, MetricIdsDistinct
<1>2. PICK results : runs \in Seq(results)
  BY DEF ExperimentInv, Typed, RunsOK
<1>3. reading # Text <=> reading \in Numbers
  BY ExperimentAssumption
<1>4. SamplesOf(at) \in Seq(Numbers)
  BY DEF Sampling, SamplesTyped, SamplesOf
<1>5. reading \in Numbers =>
        /\ Append(SamplesOf(at), reading) \in Seq(Numbers)
        /\ Append(SamplesOf(at), reading) # <<>>
  BY <1>4
<1>6. SamplesTyped'
  <2>1. CASE reading = Text
    BY <1>1, <2>1 DEF Sampling, SamplesTyped
  <2>2. CASE reading # Text
    <3>1. samples' = With(samples, at, Append(SamplesOf(at), reading))
      BY <2>2
    <3>2. /\ DOMAIN samples' = DOMAIN samples \cup {at}
          /\ samples'[at] = Append(SamplesOf(at), reading)
          /\ \A x \in DOMAIN samples \ {at} : samples'[x] = samples[x]
      BY <3>1 DEF With
    <3>3. ASSUME NEW id \in DOMAIN samples'
          PROVE  samples'[id] \in Seq(Numbers) /\ samples'[id] # <<>> /\ id \in MetricIds
      <4>1. CASE id = at
        BY <1>1, <1>3, <1>5, <2>2, <3>2, <4>1, Zenon
      <4>2. CASE id # at
        BY <3>2, <4>2, Zenon DEF Sampling, SamplesTyped
      <4> QED
        BY <4>1, <4>2
    <3> QED
      BY <1>1, <3>3 DEF SamplesTyped
  <2> QED
    BY <2>1, <2>2
<1>7. /\ DOMAIN manifest'.metrics = DOMAIN manifest.metrics \cup {at}
      /\ manifest'.metrics[at] = reading
      /\ \A x \in DOMAIN manifest.metrics \ {at} :
           manifest'.metrics[x] = manifest.metrics[x]
  BY DEF With
<1>8. ReadSoFar'
  <2>1. \A j \in DOMAIN definition.metrics : j < next => j < next'
    BY <1>0
  <2>2. next < next'
    BY <1>0
  <2>3. ASSUME NEW id \in DOMAIN manifest'.metrics
        PROVE  \E j \in DOMAIN definition.metrics :
                 j < next' /\ definition.metrics[j].id = id
    <3>1. CASE id = at
      BY <2>2, <3>1
    <3>2. CASE id # at
      <4>1. id \in DOMAIN manifest.metrics
        BY <1>7, <3>2
      <4>2. PICK j \in DOMAIN definition.metrics :
                   j < next /\ definition.metrics[j].id = id
        BY <4>1 DEF Sampling, ReadSoFar
      <4> QED
        BY <2>1, <4>2
    <3> QED
      BY <3>1, <3>2
  <2> QED
    BY <1>0, <2>3 DEF ReadSoFar
<1>9. ASSUME MetricIdsDistinct, NEW id \in MetricIds
      PROVE  SamplesOf(id)' = ShownOf(id)'
  <2>1. SamplesOf(id) = SeenIn(Append(runs, manifest), id)
    <3>1. SamplesOf(id) = ShownOf(id)
      BY <1>9 DEF Sampling, Tallied
    <3>2. ShownOf(id) = SeenIn(Append(runs, manifest), id)
      BY ShownIsSeen
    <3> QED
      BY <3>1, <3>2, Zenon
  <2>2. ShownOf(id)' = SeenIn(Append(runs, manifest'), id)
    <3>1. ShownOf(id)' = SeenIn(Append(runs', manifest'), id)
      BY <1>0, ShownIsSeenNext
    <3> QED
      BY <3>1, Zenon
  <2>3. SeenIn(Append(runs, manifest), id) =
          IF Reading(manifest, id) \in Numbers
          THEN Append(SeenIn(runs, id), Reading(manifest, id)) ELSE SeenIn(runs, id)
    BY <1>2, SeenAppend
  <2>4. SeenIn(Append(runs, manifest'), id) =
          IF Reading(manifest', id) \in Numbers
          THEN Append(SeenIn(runs, id), Reading(manifest', id)) ELSE SeenIn(runs, id)
    BY <1>2, SeenAppend
  <2>5. CASE id # at
    <3>1. Reading(manifest', id) = Reading(manifest, id)
      BY <1>7, <2>5 DEF Reading
    <3>2. SamplesOf(id)' = SamplesOf(id)
      <4>1. CASE reading = Text
        BY <4>1 DEF SamplesOf
      <4>2. CASE reading # Text
        <5>1. samples' = With(samples, at, Append(SamplesOf(at), reading))
          BY <4>2
        <5>2. /\ DOMAIN samples' = DOMAIN samples \cup {at}
              /\ \A x \in DOMAIN samples \ {at} : samples'[x] = samples[x]
          BY <5>1 DEF With
        <5> QED
          BY <2>5, <5>2 DEF SamplesOf
      <4> QED
        BY <4>1, <4>2
    <3> QED
      BY <2>1, <2>2, <2>3, <2>4, <3>1, <3>2, Zenon
  <2>6. CASE id = at
    <3>1. at \notin DOMAIN manifest.metrics
      <4>1. ASSUME NEW j \in DOMAIN definition.metrics, j < next,
                   definition.metrics[j].id = at
            PROVE  FALSE
        <5>1. j = next
          BY <1>9, <4>1 DEF MetricIdsDistinct
        <5> QED
          BY <1>0, <4>1, <5>1
      <4> QED
        BY <4>1 DEF Sampling, ReadSoFar
    <3>2. Reading(manifest, id) \notin Numbers
      BY <2>6, <3>1, ExperimentAssumption DEF Reading
    <3>3. Reading(manifest', id) = reading
      BY <1>7, <2>6 DEF Reading
    <3>4. SamplesOf(at) = SeenIn(runs, at)
      BY <2>1, <2>3, <2>6, <3>2, Zenon
    <3>5. SamplesOf(at)' = IF reading \in Numbers THEN Append(SamplesOf(at), reading)
                                                  ELSE SamplesOf(at)
      <4>1. CASE reading = Text
        <5>1. SamplesOf(at)' = SamplesOf(at)
          BY <4>1 DEF SamplesOf
        <5> QED
          BY <1>3, <4>1, <5>1
      <4>2. CASE reading # Text
        <5>1. samples' = With(samples, at, Append(SamplesOf(at), reading))
          BY <4>2
        <5>2. /\ at \in DOMAIN samples'
              /\ samples'[at] = Append(SamplesOf(at), reading)
          BY <5>1 DEF With
        <5>3. SamplesOf(at)' = samples'[at]
          BY <5>2 DEF SamplesOf
        <5> QED
          BY <1>3, <4>2, <5>2, <5>3, Zenon
      <4> QED
        BY <4>1, <4>2
    <3>6. ShownOf(at)' = IF reading \in Numbers
                         THEN Append(SeenIn(runs, at), reading) ELSE SeenIn(runs, at)
      BY <2>2, <2>4, <2>6, <3>3, Zenon
    <3> QED
      BY <2>6, <3>4, <3>5, <3>6, Zenon
  <2> QED
    BY <2>5, <2>6
<1>10. Tallied'
  BY <1>1, <1>9 DEF Tallied
<1>11. NotYet'
  BY <1>0 DEF Sampling, NotYet
<1> QED
  BY <1>6, <1>8, <1>10, <1>11 DEF Sampling

\* The report: the aggregates are those of the samples.
LEMMA AggregateExplained ==
  ASSUME NEW s \in Seq(Numbers), s # <<>>, NEW id
  PROVE  /\ Aggregate(id, s).metric = id
         /\ Aggregate(id, s).count = Len(s)
         /\ {Aggregate(id, s).min, Aggregate(id, s).max} \subseteq InSequence(s)
         /\ \A x \in InSequence(s) :
              Aggregate(id, s).min <= x /\ x <= Aggregate(id, s).max
<1>1. s \in Seq(Nat)
  <2>1. Len(s) \in Nat /\ s = [i \in 1 .. Len(s) |-> s[i]]
        /\ \A i \in 1 .. Len(s) : s[i] \in Nat
    BY ExperimentAssumption
  <2> QED
    BY <2>1
<1>2. /\ LeastOf(InSequence(s)) \in InSequence(s)
      /\ GreatestOf(InSequence(s)) \in InSequence(s)
      /\ \A x \in InSequence(s) :
           LeastOf(InSequence(s)) <= x /\ x <= GreatestOf(InSequence(s))
  BY <1>1, LeastAndGreatest
<1>3. /\ Aggregate(id, s).metric = id /\ Aggregate(id, s).count = Len(s)
      /\ Aggregate(id, s).min = LeastOf(InSequence(s))
      /\ Aggregate(id, s).max = GreatestOf(InSequence(s))
  BY DEF Aggregate
<1> QED
  BY <1>2, <1>3

LEMMA ReportExplains ==
  ASSUME ExperimentInv, Sampling, Report
  PROVE  Sampling' /\ AggregatesExplained'
<1>1. /\ status = "running" /\ phase = "report" /\ status' \in {"done", "thrown"}
      /\ aggregates' = {Aggregate(id, samples[id]) : id \in DOMAIN samples}
      /\ UNCHANGED <<definition, phase, manifest, runs, samples, next>>
  BY DEF Report
<1>2. ~Measuring /\ ~Measuring' /\ ~Materializing'
  BY <1>1 DEF Measuring, Materializing
<1>3. \A id : ShownOf(id)' = ShownOf(id) /\ SamplesOf(id)' = SamplesOf(id)
  BY <1>1, <1>2 DEF ShownOf, Shown, SamplesOf
<1>4. MetricIds' = MetricIds /\ MetricIdsDistinct' = MetricIdsDistinct
  BY <1>1 DEF MetricIds, MetricIdsDistinct
<1>5. Sampling'
  BY <1>1, <1>2, <1>3, <1>4
  DEF Sampling, SamplesTyped, ReadSoFar, Tallied, NotYet
<1>6. ASSUME MetricIdsDistinct, NEW k \in DOMAIN definition.metrics
      PROVE  SamplesOf(definition.metrics[k].id)' = ShownOf(definition.metrics[k].id)'
  <2>1. PICK id \in MetricIds : id = definition.metrics[k].id
    BY DEF MetricIds
  <2>2. SamplesOf(id)' = ShownOf(id)'
    BY <1>3, <1>6 DEF Sampling, Tallied
  <2>3. definition' = definition
    BY <1>1
  <2> QED
    BY <2>1, <2>2, <2>3
<1>7. ASSUME MetricIdsDistinct, NEW a \in aggregates'
      PROVE  /\ a.count = Len(ShownOf(a.metric)')
             /\ {a.min, a.max} \subseteq InSequence(ShownOf(a.metric)')
             /\ \A x \in InSequence(ShownOf(a.metric)') : a.min <= x /\ x <= a.max
  <2>1. PICK id \in DOMAIN samples : a = Aggregate(id, samples[id])
    BY <1>1
  <2> DEFINE s == samples[id]
  <2>2. s \in Seq(Numbers) /\ s # <<>> /\ id \in MetricIds
    BY DEF Sampling, SamplesTyped
  <2>3. ShownOf(id)' = s
    <3>1. SamplesOf(id) = ShownOf(id)
      BY <1>7, <2>2 DEF Sampling, Tallied
    <3>2. SamplesOf(id) = s
      BY DEF SamplesOf
    <3> QED
      BY <1>3, <3>1, <3>2, Zenon
  <2>4. a = Aggregate(id, s)
    BY <2>1
  <2> HIDE DEF s
  <2>5. /\ a.metric = id /\ a.count = Len(s) /\ {a.min, a.max} \subseteq InSequence(s)
        /\ \A x \in InSequence(s) : a.min <= x /\ x <= a.max
    <3>1. /\ Aggregate(id, s).metric = id
          /\ Aggregate(id, s).count = Len(s)
          /\ {Aggregate(id, s).min, Aggregate(id, s).max} \subseteq InSequence(s)
          /\ \A x \in InSequence(s) :
               Aggregate(id, s).min <= x /\ x <= Aggregate(id, s).max
      BY <2>2, AggregateExplained
    <3> QED
      BY <2>4, <3>1, Zenon
  <2>6. ShownOf(a.metric)' = s
    BY <2>3, <2>5, Zenon
  <2> QED
    BY <2>5, <2>6, Zenon
<1>8. definition' = definition
  BY <1>1
<1> QED
  BY <1>4, <1>5, <1>6, <1>7, <1>8 DEF AggregatesExplained

LEMMA TalliedExplains ==
  ASSUME Sampling, status = "running", aggregates' = aggregates, Sampling'
  PROVE  AggregatesExplained'
<1>1. aggregates' = {}
  BY DEF Sampling, NotYet
<1>2. \A k \in DOMAIN definition'.metrics : definition'.metrics[k].id \in MetricIds'
  BY DEF MetricIds
<1>3. MetricIdsDistinct' => \A id \in MetricIds' : SamplesOf(id)' = ShownOf(id)'
  BY DEF Sampling, Tallied
<1> QED
  BY <1>1, <1>2, <1>3 DEF AggregatesExplained

LEMMA SamplingStep ==
  ASSUME ExperimentInv, Sampling, AggregatesExplained, [Next]_vars
  PROVE  Sampling' /\ AggregatesExplained'
<1>0. DOMAIN manifest = ManifestFields /\ next \in Nat
      /\ definition.metrics \in Seq(Metric)
  BY DEF ExperimentInv, Typed, Definition
<1>1. CASE BeginRun
  <2>1. /\ status = "running" /\ ~Measuring
        /\ UNCHANGED <<definition, samples, aggregates, runs>>
        /\ manifest'.metrics = <<>>
    BY <1>1 DEF BeginRun, Measuring, NewManifest
  <2> QED
    BY <2>1, NothingShown, TalliedExplains
<1>2. CASE ApplyOverride
  <2> DEFINE o == OverridesOf(variant)[next]
  <2>1. /\ Materializing /\ UNCHANGED <<definition, samples, aggregates>>
        /\ \/ /\ manifest' = [manifest EXCEPT !.overrides = Append(@, o)]
              /\ UNCHANGED <<variant, seed, phase, runs, status>>
           \/ Caught(manifest)
    BY <1>2 DEF ApplyOverride
  <2>2. CASE Caught(manifest)
    BY <1>0, <2>1, <2>2, CaughtLeaves, RunOver, TalliedExplains DEF Materializing
  <2>3. CASE /\ manifest' = [manifest EXCEPT !.overrides = Append(@, o)]
             /\ UNCHANGED <<variant, seed, phase, runs, status>>
    <3>1. manifest'.metrics = manifest.metrics
      BY <1>0, <2>3 DEF ManifestFields
    <3>2. manifest.metrics = <<>> /\ status = "running" /\ ~Measuring
      BY <2>1 DEF Sampling, ReadSoFar, Materializing, Measuring
    <3> QED
      BY <2>1, <2>3, <3>1, <3>2, NothingShown, TalliedExplains
  <2> QED
    BY <2>1, <2>2, <2>3
<1>3. CASE ApplyOverlay
  <2> DEFINE x == OverlaysOf(variant)[next - Len(OverridesOf(variant))]
  <2>1. PICK d \in Yields(x) :
          \/ Caught(manifest)
          \/ /\ manifest' = [[manifest EXCEPT !.overlaySamples =
                                Emplaced(@, x.id, AsOverride(x, d).value)]
                               EXCEPT !.overrides = Append(@, AsOverride(x, d))]
             /\ UNCHANGED <<variant, seed, phase, runs, status>>
          \/ Caught([manifest EXCEPT !.overlaySamples =
                       Emplaced(@, x.id, AsOverride(x, d).value)])
    BY <1>3 DEF ApplyOverlay
  <2>2. Materializing /\ UNCHANGED <<definition, samples, aggregates>>
    BY <1>3 DEF ApplyOverlay
  <2> DEFINE m == [manifest EXCEPT !.overlaySamples =
                     Emplaced(@, x.id, AsOverride(x, d).value)]
  <2>3. DOMAIN m = ManifestFields /\ m.metrics = manifest.metrics
    BY <1>0 DEF ManifestFields
  <2> HIDE DEF x
  <2>4. CASE Caught(manifest)
    BY <1>0, <2>2, <2>4, CaughtLeaves, RunOver, TalliedExplains DEF Materializing
  <2>5. CASE Caught(m)
    <3> HIDE DEF m
    <3>1. PICK r : runs' = Append(runs, r) /\ r.metrics = manifest.metrics
      BY <2>3, <2>5, CaughtLeaves
    <3>2. ~Materializing' /\ ~Measuring'
      BY <2>3, <2>5, CaughtLeaves
    <3> QED
      BY <2>2, <3>1, <3>2, RunOver, TalliedExplains DEF Materializing
  <2>6. CASE /\ manifest' = [m EXCEPT !.overrides = Append(@, AsOverride(x, d))]
             /\ UNCHANGED <<variant, seed, phase, runs, status>>
    <3>1. manifest'.metrics = manifest.metrics
      <4> HIDE DEF m
      <4> QED
        BY <2>3, <2>6 DEF ManifestFields
    <3>2. manifest.metrics = <<>> /\ status = "running" /\ ~Measuring
      BY <2>2 DEF Sampling, ReadSoFar, Materializing, Measuring
    <3> QED
      BY <2>2, <2>6, <3>1, <3>2, NothingShown, TalliedExplains
  <2> QED
    BY <2>1, <2>4, <2>5, <2>6
<1>4. CASE Execute
  <2>1. /\ Materializing /\ UNCHANGED <<definition, samples, aggregates>>
        /\ \/ Caught(manifest)
           \/ Caught([manifest EXCEPT !.scenario = scenario])
           \/ /\ \E ok \in BOOLEAN :
                   manifest' = [manifest EXCEPT !.scenario = scenario, !.success = ok]
              /\ UNCHANGED <<variant, seed, runs, status>>
    BY <1>4 DEF Execute, Materialized
  <2> DEFINE m == [manifest EXCEPT !.scenario = scenario]
  <2>2. DOMAIN m = ManifestFields /\ m.metrics = manifest.metrics
    BY <1>0 DEF ManifestFields
  <2>3. CASE Caught(manifest)
    BY <1>0, <2>1, <2>3, CaughtLeaves, RunOver, TalliedExplains DEF Materializing
  <2>4. CASE Caught(m)
    <3> HIDE DEF m
    <3>1. PICK r : runs' = Append(runs, r) /\ r.metrics = manifest.metrics
      BY <2>2, <2>4, CaughtLeaves
    <3>2. ~Materializing' /\ ~Measuring'
      BY <2>2, <2>4, CaughtLeaves
    <3> QED
      BY <2>1, <3>1, <3>2, RunOver, TalliedExplains DEF Materializing
  <2>5. CASE /\ \E ok \in BOOLEAN :
                   manifest' = [manifest EXCEPT !.scenario = scenario, !.success = ok]
             /\ UNCHANGED <<variant, seed, runs, status>>
    <3>1. manifest'.metrics = manifest.metrics
      BY <1>0, <2>5 DEF ManifestFields
    <3>2. manifest.metrics = <<>> /\ status = "running" /\ ~Measuring
      BY <2>1 DEF Sampling, ReadSoFar, Materializing, Measuring
    <3> QED
      BY <2>1, <2>5, <3>1, <3>2, NothingShown, TalliedExplains
  <2> QED
    BY <2>1, <2>3, <2>4, <2>5
<1>5. CASE ReadMetric
  <2> DEFINE metric == definition.metrics[next]
  <2>1. /\ Measuring /\ next \in DOMAIN definition.metrics
        /\ UNCHANGED <<definition, aggregates>>
    BY <1>5 DEF ReadMetric
  <2>2. PICK reading \in Readings(metric.kind) :
          \/ Caught(manifest) /\ UNCHANGED samples
          \/ /\ next' = next + 1
             /\ UNCHANGED <<variant, seed, phase, manifest, runs, status, samples>>
          \/ /\ reading \in Numbers \cup {Text}
             /\ next' = next + 1
             /\ manifest' = [manifest EXCEPT !.metrics = With(@, metric.id, reading)]
             /\ samples' = IF reading = Text THEN samples
                           ELSE With(samples, metric.id,
                                     Append(SamplesOf(metric.id), reading))
             /\ UNCHANGED <<variant, seed, phase, runs, status>>
    BY <1>5 DEF ReadMetric
  <2>3. CASE Caught(manifest) /\ UNCHANGED samples
    BY <1>0, <2>1, <2>3, CaughtLeaves, RunOver, TalliedExplains DEF Measuring
  <2>4. CASE /\ next' = next + 1
             /\ UNCHANGED <<variant, seed, phase, manifest, runs, status, samples>>
    BY <1>0, <2>1, <2>4, ReadsNothing, TalliedExplains DEF Measuring
  <2>5. CASE /\ reading \in Numbers \cup {Text}
             /\ next' = next + 1
             /\ manifest' = [manifest EXCEPT !.metrics = With(@, metric.id, reading)]
             /\ samples' = IF reading = Text THEN samples
                           ELSE With(samples, metric.id,
                                     Append(SamplesOf(metric.id), reading))
             /\ UNCHANGED <<variant, seed, phase, runs, status>>
    <3>1. manifest'.metrics = With(manifest.metrics, metric.id, reading)
      BY <1>0, <2>5 DEF ManifestFields
    <3>2. Sampling'
      BY <2>1, <2>5, <3>1, ReadsSomething
    <3> QED
      BY <2>1, <3>2, TalliedExplains DEF Measuring
  <2> QED
    BY <2>2, <2>3, <2>4, <2>5
<1>6. CASE EndRun
  <2>1. /\ Measuring /\ UNCHANGED <<definition, samples, aggregates>>
        /\ \/ runs' = Append(runs, manifest) /\ NextRun /\ UNCHANGED <<manifest, status>>
           \/ Caught(manifest)
    BY <1>6 DEF EndRun
  <2>2. CASE Caught(manifest)
    BY <1>0, <2>1, <2>2, CaughtLeaves, RunOver, TalliedExplains DEF Measuring
  <2>3. CASE runs' = Append(runs, manifest) /\ NextRun /\ UNCHANGED <<manifest, status>>
    <3>1. ~Materializing' /\ ~Measuring'
      BY <2>3, NextRunLeaves DEF Materializing, Measuring
    <3> QED
      BY <2>1, <2>3, <3>1, RunOver, TalliedExplains DEF Measuring
  <2> QED
    BY <2>1, <2>2, <2>3
<1>7. CASE Report
  BY <1>7, ReportExplains
<1>8. CASE UNCHANGED vars
  <2>1. UNCHANGED <<definition, phase, next, manifest, runs, samples, aggregates,
                    status>>
    BY <1>8 DEF vars
  <2>2. \A id : ShownOf(id)' = ShownOf(id) /\ SamplesOf(id)' = SamplesOf(id)
    BY <2>1 DEF ShownOf, Shown, Measuring, SamplesOf
  <2>3. MetricIds' = MetricIds /\ MetricIdsDistinct' = MetricIdsDistinct
    BY <2>1 DEF MetricIds, MetricIdsDistinct
  <2>4. Sampling'
    BY <2>1, <2>2, <2>3
    DEF Sampling, SamplesTyped, ReadSoFar, Measuring, Materializing, Tallied, NotYet
  <2>5. AggregatesExplained'
    BY <2>1, <2>2, <2>3 DEF AggregatesExplained
  <2> QED
    BY <2>4, <2>5
<1> QED
  BY <1>1, <1>2, <1>3, <1>4, <1>5, <1>6, <1>7, <1>8 DEF Next

LEMMA SamplingInit == Init => Sampling /\ AggregatesExplained
<1> SUFFICES ASSUME Init PROVE Sampling /\ AggregatesExplained
  OBVIOUS
<1>1. /\ runs = <<>> /\ samples = <<>> /\ aggregates = {} /\ phase = "begin"
  BY DEF Init
<1>2. ~Measuring /\ ~Materializing
  BY <1>1 DEF Measuring, Materializing
<1>3. ASSUME NEW id PROVE SamplesOf(id) = ShownOf(id)
  <2>1. ShownOf(id) = SeenIn(runs, id)
    BY <1>2, ShownIsSeen
  <2>2. SeenIn(<<>>, id) = <<>>
    BY SeenNone
  <2>3. SamplesOf(id) = <<>>
    BY <1>1 DEF SamplesOf
  <2> QED
    BY <1>1, <2>1, <2>2, <2>3, Zenon
<1>4. Sampling
  BY <1>1, <1>2, <1>3 DEF Sampling, SamplesTyped, ReadSoFar, Tallied, NotYet
<1>5. AggregatesExplained
  BY <1>1, <1>3 DEF AggregatesExplained
<1> QED
  BY <1>4, <1>5

\* For every experiment with distinct metric ids, the samples of a metric are
\* the numbers that the manifests show, run by run, failed runs included, and
\* its aggregate counts them and lies between the least and the greatest.
THEOREM AggregatesAreExplained == Spec => []AggregatesExplained
<1>1. Init => ExperimentInv /\ Sampling /\ AggregatesExplained
  BY ExperimentInit, SamplingInit
<1>2. ExperimentInv /\ Sampling /\ AggregatesExplained /\ [Next]_vars
        => (ExperimentInv /\ Sampling /\ AggregatesExplained)'
  BY ExperimentStep, SamplingStep
<1> QED
  BY <1>1, <1>2, PTL DEF Spec

(***************************************************************************)
(* What a run does is settled by its variant, its seed and the generator:  *)
(* the k-th override is that of the experiment, or what the generator      *)
(* makes of the overlay, for the number of draws its stream had before.    *)
(***************************************************************************)
Plan(v) ==
  [id |-> Variants[v].id, overrides |-> OverridesOf(v), overlays |-> OverlaysOf(v)]

Planned(p) == p.overrides \in Seq(Override) /\ p.overlays \in Seq(Overlay)

Total(p) == Len(p.overrides) + Len(p.overlays)

\* The overlays among the first n overrides of a run.
Overlaid(p, n) ==
  IF n <= Len(p.overrides) THEN 0 ELSE n - Len(p.overrides)

Count(p, n, id) == Cardinality({i \in 1 .. n : p.overlays[i].id = id})

KeyOf(p, sd, j) ==
  <<sd, <<p.id, p.overlays[j].id>>, Count(p, j - 1, p.overlays[j].id)>>

Expected(g, p, sd, k) ==
  IF k <= Len(p.overrides) THEN p.overrides[k]
  ELSE AsOverride(p.overlays[k - Len(p.overrides)],
                  g[KeyOf(p, sd, k - Len(p.overrides))])

Followed(g, p, sd, os) ==
  /\ os \in Seq(Override) /\ Len(os) <= Total(p)
  /\ \A k \in 1 .. Len(os) : os[k] = Expected(g, p, sd, k)
  /\ \A j \in 1 .. Overlaid(p, Len(os)) :
       p.overlays[j].choices # <<>> /\ KeyOf(p, sd, j) \in DOMAIN g

\* The scenarios that the first n overrides lead through.
Course(os, n, c) ==
  /\ c \in [0 .. n -> [DOMAIN Base -> Node]]
  /\ c[0] = Base
  /\ \A k \in 1 .. n :
       Applicable(os[k], c[k - 1]) /\ c[k] = Applied(os[k], c[k - 1])

Drawn(d, p, id) == IF <<p.id, id>> \in DOMAIN d THEN d[<<p.id, id>>] ELSE 0

\* The samples on record after n overlays: of each id the first.
FirstOf(p, id) ==
  CHOOSE j \in DOMAIN p.overlays :
    /\ p.overlays[j].id = id
    /\ \A i \in 1 .. j - 1 : p.overlays[i].id # id

SamplesAfter(g, p, sd, n) ==
  [id \in {p.overlays[j].id : j \in 1 .. n} |->
     Expected(g, p, sd, Len(p.overrides) + FirstOf(p, id)).value]

\* A run that cannot go on after n overrides, with j samples on record.
Halts(g, p, sd, n, s, j) ==
  \/ /\ n < Len(p.overrides) /\ j = 0
     /\ ~Applicable(p.overrides[n + 1], s)
  \/ /\ n >= Len(p.overrides) /\ n < Total(p) /\ j = n - Len(p.overrides)
     /\ p.overlays[j + 1].choices = <<>>
  \/ /\ n >= Len(p.overrides) /\ n < Total(p) /\ j = n - Len(p.overrides) + 1
     /\ p.overlays[j].choices # <<>>
     /\ KeyOf(p, sd, j) \in DOMAIN g
     /\ ~Applicable(Expected(g, p, sd, n + 1), s)

Stops(g, p, sd, m, s) ==
  \/ /\ Len(m.overrides) = Total(p)
     /\ m.overlaySamples = SamplesAfter(g, p, sd, Len(p.overlays))
     /\ m.scenario = IF Readable(s) THEN s ELSE None
  \/ /\ m.scenario = None
     /\ \E j : /\ Halts(g, p, sd, Len(m.overrides), s, j)
               /\ m.overlaySamples = SamplesAfter(g, p, sd, j)

\* A run that has come to its end, one way or the other.
Ended(g, p, m) ==
  /\ Followed(g, p, m.seed, m.overrides)
  /\ \E c : /\ Course(m.overrides, Len(m.overrides), c)
            /\ Stops(g, p, m.seed, m, c[Len(m.overrides)])

(***************************************************************************)
(* Courses.                                                                *)
(***************************************************************************)
LEMMA CourseAgrees ==
  ASSUME NEW os, NEW ps, NEW c, NEW d, NEW n \in Nat, NEW l \in Nat, NEW m \in Nat,
         Course(os, l, c), Course(ps, m, d), n <= l, n <= m,
         \A k \in 1 .. n : os[k] = ps[k]
  PROVE  c[n] = d[n]
<1>1. c[0] = d[0]
  BY DEF Course
<1>2. ASSUME NEW k \in 1 .. n, c[k - 1] = d[k - 1] PROVE c[k] = d[k]
  <2>1. k \in 1 .. l /\ k \in 1 .. m /\ os[k] = ps[k]
    OBVIOUS
  <2>2. c[k] = Applied(os[k], c[k - 1]) /\ d[k] = Applied(ps[k], d[k - 1])
    BY <2>1 DEF Course
  <2> QED
    BY <1>2, <2>1, <2>2, Zenon
<1>3. \A k \in 1 .. n : c[k - 1] = d[k - 1] => c[k] = d[k]
  BY <1>2
<1>4. \A k \in 0 .. n : c[k] = d[k]
  <2>1. ASSUME NEW f, NEW g, f[0] = g[0],
               \A k \in 1 .. n : f[k - 1] = g[k - 1] => f[k] = g[k]
        PROVE  \A k \in 0 .. n : f[k] = g[k]
    BY <2>1, Agree
  <2> QED
    BY <1>1, <1>3, <2>1
<1> QED
  BY <1>4

LEMMA CourseTyped ==
  ASSUME NEW os, NEW c, NEW m, Course(os, m, c), NEW n \in 0 .. m
  PROVE  c[n] \in [DOMAIN Base -> Node]
BY DEF Course

LEMMA CourseBegins == Course(<<>>, 0, [k \in 0 .. 0 |-> Base])
BY ExperimentAssumption DEF Course

LEMMA CourseGoesOn ==
  ASSUME NEW os \in Seq(Override), NEW c, Course(os, Len(os), c), NEW o \in Override,
         Applicable(o, c[Len(os)])
  PROVE  \E d : /\ Course(Append(os, o), Len(os) + 1, d)
                /\ d[Len(os) + 1] = Applied(o, c[Len(os)])
<1>1. PICK n \in Nat : n = Len(os)
  OBVIOUS
<1> DEFINE ps == Append(os, o)
           last == Applied(o, c[n])
           d == [k \in 0 .. n + 1 |-> IF k = n + 1 THEN last ELSE c[k]]
<1>2. /\ Len(ps) = n + 1 /\ ps[n + 1] = o
      /\ \A k \in 1 .. n : ps[k] = os[k]
  BY <1>1, AppendProperties
<1>3. /\ c \in [0 .. n -> [DOMAIN Base -> Node]] /\ c[0] = Base
      /\ \A k \in 1 .. n : Applicable(os[k], c[k - 1]) /\ c[k] = Applied(os[k], c[k - 1])
  BY <1>1 DEF Course
<1>4. last \in [DOMAIN Base -> Node] /\ Applicable(o, c[n])
  BY <1>1, <1>3, AppliedTyped
<1> HIDE DEF ps, last
<1>5. d \in [0 .. n + 1 -> [DOMAIN Base -> Node]] /\ d[0] = Base
  BY <1>3, <1>4
<1>6. ASSUME NEW k \in 1 .. n + 1
      PROVE  Applicable(ps[k], d[k - 1]) /\ d[k] = Applied(ps[k], d[k - 1])
  <2>1. CASE k = n + 1
    <3>1. d[k] = last /\ d[k - 1] = c[n] /\ ps[k] = o
      BY <1>2, <2>1
    <3> HIDE DEF d
    <3> QED
      BY <1>4, <3>1 DEF last
  <2>2. CASE k # n + 1
    <3>1. k \in 1 .. n
      BY <2>2
    <3>2. d[k] = c[k] /\ d[k - 1] = c[k - 1] /\ ps[k] = os[k]
      BY <1>2, <3>1
    <3> HIDE DEF d
    <3> QED
      BY <1>3, <3>1, <3>2, Zenon
  <2> QED
    BY <2>1, <2>2
<1>7. Course(ps, n + 1, d)
  <2> HIDE DEF d
  <2> QED
    BY <1>2, <1>5, <1>6 DEF Course
<1>8. d[n + 1] = last
  OBVIOUS
<1> QED
  BY <1>1, <1>7, <1>8 DEF ps, last

\* Where overrides lead is where their course ends.
LEMMA ReplayedIs ==
  ASSUME NEW os, Len(os) \in Nat, NEW c, Course(os, Len(os), c)
  PROVE  Replayed(os) = c[Len(os)]
<1> DEFINE after == CHOOSE f : f = [n \in 0 .. Len(os) |->
                      IF n = 0 THEN Base ELSE Applied(os[n], f[n - 1])]
<1>1. Replayed(os) = after[Len(os)]
  BY DEF Replayed
<1>2. c = [n \in 0 .. Len(os) |-> IF n = 0 THEN Base ELSE Applied(os[n], c[n - 1])]
  BY DEF Course
<1>3. after = [n \in 0 .. Len(os) |-> IF n = 0 THEN Base ELSE Applied(os[n], after[n - 1])]
  BY <1>2, Zenon
<1> HIDE DEF after
<1>4. c[0] = after[0]
  BY <1>2, <1>3
<1>5. ASSUME NEW k \in 1 .. Len(os), c[k - 1] = after[k - 1] PROVE c[k] = after[k]
  <2>1. k \in 0 .. Len(os) /\ k # 0
    OBVIOUS
  <2>2. c[k] = Applied(os[k], c[k - 1])
    BY DEF Course
  <2>3. after[k] = Applied(os[k], after[k - 1])
    BY <1>3, <2>1
  <2> QED
    BY <1>5, <2>2, <2>3, Zenon
<1>6. \A k \in 0 .. Len(os) : c[k] = after[k]
  BY <1>4, <1>5, Agree
<1> QED
  BY <1>1, <1>6

(***************************************************************************)
(* Draws and samples.                                                      *)
(***************************************************************************)
LEMMA PlanTyped ==
  ASSUME NEW p, Planned(p)
  PROVE  /\ Len(p.overrides) \in Nat /\ Len(p.overlays) \in Nat
         /\ Total(p) \in Nat /\ Total(p) >= Len(p.overrides)
         /\ \A k \in 1 .. Len(p.overrides) : p.overrides[k] \in Override
         /\ DOMAIN p.overrides = 1 .. Len(p.overrides)
         /\ \A k \in 1 .. Len(p.overlays) : p.overlays[k] \in Overlay
         /\ DOMAIN p.overlays = 1 .. Len(p.overlays)
<1>1. p.overrides \in Seq(Override) /\ p.overlays \in Seq(Overlay)
  BY DEF Planned
<1>2. Len(p.overrides) \in Nat /\ Len(p.overlays) \in Nat
  BY <1>1
<1>3. Total(p) \in Nat /\ Total(p) >= Len(p.overrides)
  <2>1. ASSUME NEW a \in Nat, NEW b \in Nat PROVE a + b \in Nat /\ a + b >= a
    OBVIOUS
  <2>2. Total(p) = Len(p.overrides) + Len(p.overlays)
    BY Zenon DEF Total
  <2>3. /\ Len(p.overrides) + Len(p.overlays) \in Nat
        /\ Len(p.overrides) + Len(p.overlays) >= Len(p.overrides)
    BY <1>2, <2>1, Zenon
  <2> QED
    BY <2>2, <2>3, Zenon
<1> QED
  BY <1>1, <1>2, <1>3

LEMMA CountLonger ==
  ASSUME NEW p, NEW n \in Nat, NEW id
  PROVE  /\ Count(p, n, id) \in Nat
         /\ Count(p, n + 1, id) =
              Count(p, n, id) + (IF p.overlays[n + 1].id = id THEN 1 ELSE 0)
<1> DEFINE A == {i \in 1 .. n : p.overlays[i].id = id}
           B == {i \in 1 .. n + 1 : p.overlays[i].id = id}
<1>1. IsFiniteSet(A)
  <2>1. 1 \in Int /\ n \in Int
    OBVIOUS
  <2>2. IsFiniteSet(1 .. n)
    BY <2>1, FS_Interval
  <2>3. A \subseteq 1 .. n
    OBVIOUS
  <2> HIDE DEF A
  <2> QED
    BY <2>2, <2>3, FS_Subset
<1>2. Cardinality(A) \in Nat
  <2> HIDE DEF A
  <2> QED
    BY <1>1, FS_CardinalityType
<1>3. CASE p.overlays[n + 1].id = id
  <2>1. B = A \cup {n + 1} /\ n + 1 \notin A
    BY <1>3
  <2>2. Cardinality(A \cup {n + 1}) = Cardinality(A) + 1
    <3>1. n + 1 \notin A
      BY <2>1
    <3> HIDE DEF A
    <3> QED
      BY <1>1, <3>1, FS_AddElement
  <2>3. Cardinality(B) = Cardinality(A) + 1
    BY <2>1, <2>2, Zenon
  <2> QED
    BY <1>2, <1>3, <2>3 DEF Count
<1>4. CASE p.overlays[n + 1].id # id
  <2>1. B = A
    BY <1>4
  <2>2. Cardinality(B) = Cardinality(A)
    BY <2>1, Zenon
  <2> QED
    BY <1>2, <1>4, <2>2 DEF Count
<1> QED
  BY <1>3, <1>4

LEMMA CountNone ==
  ASSUME NEW p, NEW id
  PROVE  Count(p, 0, id) = 0
<1>1. {i \in 1 .. 0 : p.overlays[i].id = id} = {}
  OBVIOUS
<1> QED
  BY <1>1, FS_EmptySet, Zenon DEF Count

\* The first overlay of an id is among any that hold one.
LEMMA FirstIs ==
  ASSUME NEW p, NEW l \in Nat, NEW id, NEW k \in 1 .. l,
         DOMAIN p.overlays = 1 .. l, p.overlays[k].id = id
  PROVE  /\ FirstOf(p, id) \in 1 .. k
         /\ p.overlays[FirstOf(p, id)].id = id
         /\ \A i \in 1 .. FirstOf(p, id) - 1 : p.overlays[i].id # id
<1> DEFINE T == {j \in 1 .. l : p.overlays[j].id = id}
<1>1. T \in SUBSET Nat /\ T # {} /\ k \in T
  OBVIOUS
<1>2. PICK j \in T : \A i \in T : j <= i
  <2> HIDE DEF T
  <2> QED
    BY <1>1, LeastElement
<1>3. /\ j \in DOMAIN p.overlays /\ p.overlays[j].id = id
      /\ \A i \in 1 .. j - 1 : p.overlays[i].id # id
  <2>1. j \in 1 .. l /\ p.overlays[j].id = id
    OBVIOUS
  <2>2. ASSUME NEW i \in 1 .. j - 1, p.overlays[i].id = id PROVE FALSE
    <3>1. i \in T
      BY <2>1, <2>2
    <3>2. j <= i
      BY <1>2, <3>1
    <3> QED
      BY <2>1, <3>2
  <2> QED
    BY <2>1, <2>2
<1>4. /\ FirstOf(p, id) \in 1 .. l
      /\ p.overlays[FirstOf(p, id)].id = id
      /\ \A i \in 1 .. FirstOf(p, id) - 1 : p.overlays[i].id # id
  <2>1. \E f \in DOMAIN p.overlays :
          /\ p.overlays[f].id = id
          /\ \A i \in 1 .. f - 1 : p.overlays[i].id # id
    BY <1>3
  <2>2. /\ FirstOf(p, id) \in DOMAIN p.overlays
        /\ p.overlays[FirstOf(p, id)].id = id
        /\ \A i \in 1 .. FirstOf(p, id) - 1 : p.overlays[i].id # id
    BY <2>1, Zenon DEF FirstOf
  <2> QED
    BY <2>2
<1>5. FirstOf(p, id) <= k
  <2>1. ASSUME k < FirstOf(p, id) PROVE FALSE
    <3>1. k \in 1 .. FirstOf(p, id) - 1
      BY <1>4, <2>1
    <3> QED
      BY <1>4, <3>1
  <2> QED
    BY <1>4, <2>1
<1> QED
  BY <1>4, <1>5

\* emplace: the sample of one overlay more.
LEMMA SamplesLonger ==
  ASSUME NEW g, NEW p, NEW sd, NEW l \in Nat, NEW n \in Nat,
         DOMAIN p.overlays = 1 .. l, n + 1 <= l
  PROVE  Emplaced(SamplesAfter(g, p, sd, n), p.overlays[n + 1].id,
                  Expected(g, p, sd, Len(p.overrides) + (n + 1)).value)
           = SamplesAfter(g, p, sd, n + 1)
<1> DEFINE id == p.overlays[n + 1].id
           value == Expected(g, p, sd, Len(p.overrides) + (n + 1)).value
<1>0. /\ p.overlays[n + 1].id = id
      /\ value = Expected(g, p, sd, Len(p.overrides) + (n + 1)).value
  OBVIOUS
<1> HIDE DEF id, value
<1> DEFINE ids == {p.overlays[j].id : j \in 1 .. n}
           first(i) == Expected(g, p, sd, Len(p.overrides) + FirstOf(p, i)).value
           f == SamplesAfter(g, p, sd, n)
<1>1. {p.overlays[j].id : j \in 1 .. n + 1} = ids \cup {id}
  BY <1>0
<1>2. /\ SamplesAfter(g, p, sd, n + 1) = [i \in ids \cup {id} |-> first(i)]
      /\ f = [i \in ids |-> first(i)]
  BY <1>1, Zenon DEF SamplesAfter
<1>3. n + 1 \in 1 .. l
  OBVIOUS
<1> HIDE DEF f
<1>4. CASE id \in ids
  <2>1. ids \cup {id} = ids
    BY <1>4, Zenon
  <2>2. SamplesAfter(g, p, sd, n + 1) = f
    BY <1>2, <2>1, Zenon
  <2>3. DOMAIN f = ids
    <3> HIDE DEF ids, first
    <3> QED
      BY <1>2
  <2>4. Emplaced(f, id, value) = f
    BY <1>4, <2>3, Zenon DEF Emplaced
  <2> QED
    BY <2>2, <2>4, Zenon DEF f, id, value
<1>5. CASE id \notin ids
  <2>1. FirstOf(p, id) = n + 1
    <3>1. /\ FirstOf(p, id) \in 1 .. n + 1
          /\ p.overlays[FirstOf(p, id)].id = id
      BY <1>0, <1>3, FirstIs
    <3>2. FirstOf(p, id) \notin 1 .. n
      BY <1>5, <3>1
    <3> QED
      BY <3>1, <3>2
  <2>2. first(id) = value
    BY <1>0, <2>1, Zenon
  <2> HIDE DEF ids, first
  <2>3. DOMAIN f = ids /\ \A i \in ids : f[i] = first(i)
    BY <1>2
  <2>4. Emplaced(f, id, value) = [i \in ids \cup {id} |-> IF i = id THEN value ELSE f[i]]
    BY <1>5, <2>3, Zenon DEF Emplaced, With
  <2>5. \A i \in ids \cup {id} : (IF i = id THEN value ELSE f[i]) = first(i)
    BY <2>2, <2>3
  <2>6. Emplaced(f, id, value) = [i \in ids \cup {id} |-> first(i)]
    BY <2>4, <2>5
  <2> QED
    BY <1>2, <2>6, Zenon DEF f, id, value
<1> QED
  BY <1>4, <1>5, Zenon DEF id, value

LEMMA PlanOf ==
  ASSUME definition \in Definition, NEW v \in 1 .. Len(Variants)
  PROVE  /\ Planned(Plan(v)) /\ Plan(v).id = Variants[v].id
         /\ Plan(v).overrides = OverridesOf(v) /\ Plan(v).overlays = OverlaysOf(v)
<1>1. OverridesOf(v) \in Seq(Override) /\ OverlaysOf(v) \in Seq(Overlay)
  BY OfVariant
<1>2. ASSUME NEW i, NEW a, NEW b
      PROVE  LET r == [id |-> i, overrides |-> a, overlays |-> b]
             IN  r.id = i /\ r.overrides = a /\ r.overlays = b
  OBVIOUS
<1>3. /\ Plan(v).id = Variants[v].id
      /\ Plan(v).overrides = OverridesOf(v) /\ Plan(v).overlays = OverlaysOf(v)
  BY <1>2, Zenon DEF Plan
<1> QED
  BY <1>1, <1>3, Zenon DEF Planned

LEMMA PlanStays ==
  ASSUME definition' = definition, NEW v
  PROVE  Plan(v)' = Plan(v)
BY DEF Plan, Variants, OverridesOf, OverlaysOf

LEMMA FollowedMeans ==
  ASSUME NEW g, NEW p, NEW sd, NEW os, Planned(p), Followed(g, p, sd, os)
  PROVE  /\ Len(os) \in Nat /\ Len(os) <= Total(p)
         /\ \A k \in 1 .. Len(os) : os[k] = Expected(g, p, sd, k)
         /\ \A j \in 1 .. Overlaid(p, Len(os)) :
              p.overlays[j].choices # <<>> /\ KeyOf(p, sd, j) \in DOMAIN g
         /\ Overlaid(p, Len(os)) \in Nat /\ Overlaid(p, Len(os)) <= Len(p.overlays)
         /\ Len(os) >= Len(p.overrides) =>
              Overlaid(p, Len(os)) = Len(os) - Len(p.overrides)
         /\ Len(os) < Len(p.overrides) => Overlaid(p, Len(os)) = 0
<1>1. /\ os \in Seq(Override) /\ Len(os) <= Total(p)
      /\ \A k \in 1 .. Len(os) : os[k] = Expected(g, p, sd, k)
      /\ \A j \in 1 .. Overlaid(p, Len(os)) :
           p.overlays[j].choices # <<>> /\ KeyOf(p, sd, j) \in DOMAIN g
  BY Zenon DEF Followed
<1>2. Len(os) \in Nat
  BY <1>1
<1>3. Len(p.overrides) \in Nat /\ Len(p.overlays) \in Nat
  BY PlanTyped
<1> DEFINE o(n, a) == IF n <= a THEN 0 ELSE n - a
<1>4. ASSUME NEW n \in Nat, NEW a \in Nat, NEW b \in Nat, n <= a + b
      PROVE  /\ o(n, a) \in Nat /\ o(n, a) <= b
             /\ (n >= a => o(n, a) = n - a) /\ (n < a => o(n, a) = 0)
  BY <1>4
<1>6. Overlaid(p, Len(os)) = o(Len(os), Len(p.overrides))
  BY Zenon DEF Overlaid
<1> HIDE DEF o
<1>5. Len(os) <= Len(p.overrides) + Len(p.overlays)
  BY <1>1, Zenon DEF Total
<1> QED
  <2>1. /\ Overlaid(p, Len(os)) \in Nat /\ Overlaid(p, Len(os)) <= Len(p.overlays)
        /\ Len(os) >= Len(p.overrides) =>
             Overlaid(p, Len(os)) = Len(os) - Len(p.overrides)
        /\ Len(os) < Len(p.overrides) => Overlaid(p, Len(os)) = 0
    <3>1. /\ o(Len(os), Len(p.overrides)) \in Nat
          /\ o(Len(os), Len(p.overrides)) <= Len(p.overlays)
          /\ Len(os) >= Len(p.overrides) =>
               o(Len(os), Len(p.overrides)) = Len(os) - Len(p.overrides)
          /\ Len(os) < Len(p.overrides) => o(Len(os), Len(p.overrides)) = 0
      BY <1>2, <1>3, <1>4, <1>5, Zenon
    <3> QED
      BY <1>6, <3>1, Zenon
  <2> QED
    BY <1>1, <1>2, <2>1, Zenon

(***************************************************************************)
(* What the generator has settled stays so, whatever it yields later.      *)
(***************************************************************************)
Grows(g, h) == \A k \in DOMAIN g : k \in DOMAIN h /\ h[k] = g[k]

LEMMA ExpectedStays ==
  ASSUME NEW g, NEW h, NEW p, NEW sd, NEW k, Grows(g, h),
         k <= Len(p.overrides) \/ KeyOf(p, sd, k - Len(p.overrides)) \in DOMAIN g
  PROVE  Expected(h, p, sd, k) = Expected(g, p, sd, k)
<1>1. CASE k <= Len(p.overrides)
  BY <1>1, Zenon DEF Expected
<1>2. CASE ~(k <= Len(p.overrides))
  <2>1. h[KeyOf(p, sd, k - Len(p.overrides))] = g[KeyOf(p, sd, k - Len(p.overrides))]
    BY <1>2, Zenon DEF Grows
  <2> QED
    BY <1>2, <2>1, Zenon DEF Expected
<1> QED
  BY <1>1, <1>2, Zenon

LEMMA FollowedStays ==
  ASSUME NEW g, NEW h, NEW p, NEW sd, NEW os, Planned(p), Grows(g, h),
         Followed(g, p, sd, os)
  PROVE  Followed(h, p, sd, os)
<1>1. /\ Len(os) \in Nat
      /\ \A j \in 1 .. Overlaid(p, Len(os)) :
           p.overlays[j].choices # <<>> /\ KeyOf(p, sd, j) \in DOMAIN g
      /\ Len(os) >= Len(p.overrides) => Overlaid(p, Len(os)) = Len(os) - Len(p.overrides)
  BY FollowedMeans
<1>2. os \in Seq(Override) /\ Len(os) <= Total(p)
      /\ \A k \in 1 .. Len(os) : os[k] = Expected(g, p, sd, k)
  BY Zenon DEF Followed
<1>3. ASSUME NEW k \in 1 .. Len(os) PROVE os[k] = Expected(h, p, sd, k)
  <2>0. Len(p.overrides) \in Nat
    BY PlanTyped
  <2>1. k <= Len(p.overrides) \/ k - Len(p.overrides) \in 1 .. Overlaid(p, Len(os))
    <3>1. ASSUME NEW n \in Nat, NEW a \in Nat, NEW i \in 1 .. n, NEW o,
                 n >= a => o = n - a
          PROVE  i <= a \/ i - a \in 1 .. o
      BY <3>1
    <3> QED
      BY <1>1, <2>0, <3>1, Zenon
  <2>2. k <= Len(p.overrides) \/ KeyOf(p, sd, k - Len(p.overrides)) \in DOMAIN g
    BY <1>1, <2>1, Zenon
  <2>3. Expected(h, p, sd, k) = Expected(g, p, sd, k)
    BY <2>2, ExpectedStays
  <2> QED
    BY <1>2, <2>3, Zenon
<1>4. ASSUME NEW j \in 1 .. Overlaid(p, Len(os))
      PROVE  p.overlays[j].choices # <<>> /\ KeyOf(p, sd, j) \in DOMAIN h
  BY <1>1, Zenon DEF Grows
<1> QED
  BY <1>2, <1>3, <1>4, Zenon DEF Followed

LEMMA SamplesStay ==
  ASSUME NEW g, NEW h, NEW p, NEW sd, NEW j, Planned(p), Grows(g, h),
         j \in Nat, j <= Len(p.overlays),
         \A i \in 1 .. j : KeyOf(p, sd, i) \in DOMAIN g
  PROVE  SamplesAfter(h, p, sd, j) = SamplesAfter(g, p, sd, j)
<1> DEFINE ids == {p.overlays[i].id : i \in 1 .. j}
           at(id) == Len(p.overrides) + FirstOf(p, id)
<1>1. ASSUME NEW id \in ids
      PROVE  Expected(h, p, sd, at(id)) = Expected(g, p, sd, at(id))
  <2>1. PICK k \in 1 .. j : p.overlays[k].id = id
    OBVIOUS
  <2>2. /\ DOMAIN p.overlays = 1 .. Len(p.overlays) /\ Len(p.overlays) \in Nat
        /\ Len(p.overrides) \in Nat
    BY PlanTyped
  <2>3. k \in 1 .. Len(p.overlays)
    <3>1. ASSUME NEW b \in Nat, NEW n \in Nat, n <= b, NEW i \in 1 .. n
          PROVE  i \in 1 .. b
      BY <3>1
    <3> QED
      BY <2>2, <3>1, Zenon
  <2>4. FirstOf(p, id) \in 1 .. k
    BY <2>1, <2>2, <2>3, FirstIs
  <2>5. at(id) - Len(p.overrides) = FirstOf(p, id) /\ FirstOf(p, id) \in 1 .. j
    <3>1. ASSUME NEW a \in Nat, NEW n \in Nat, NEW i \in 1 .. n, NEW f \in 1 .. i
          PROVE  (a + f) - a = f /\ f \in 1 .. n
      BY <3>1
    <3> QED
      BY <2>2, <2>4, <3>1, Zenon
  <2>6. KeyOf(p, sd, at(id) - Len(p.overrides)) \in DOMAIN g
    BY <2>5, Zenon
  <2> QED
    BY <2>6, ExpectedStays
<1>2. \A id \in ids : Expected(h, p, sd, at(id)).value = Expected(g, p, sd, at(id)).value
  BY <1>1, Zenon
<1>3. [id \in ids |-> Expected(h, p, sd, at(id)).value]
        = [id \in ids |-> Expected(g, p, sd, at(id)).value]
  <2> HIDE DEF ids, at
  <2> QED
    BY <1>2, Zenon
<1> QED
  BY <1>3, Zenon DEF SamplesAfter

LEMMA HaltsMeans ==
  ASSUME NEW g, NEW p, NEW sd, NEW os, NEW s, NEW j, Planned(p),
         Followed(g, p, sd, os), Halts(g, p, sd, Len(os), s, j)
  PROVE  /\ j \in Nat /\ j <= Len(p.overlays) /\ Len(os) < Total(p)
         /\ \A i \in 1 .. j : KeyOf(p, sd, i) \in DOMAIN g
<1>1. /\ Len(os) \in Nat
      /\ \A i \in 1 .. Overlaid(p, Len(os)) : KeyOf(p, sd, i) \in DOMAIN g
      /\ Len(os) >= Len(p.overrides) => Overlaid(p, Len(os)) = Len(os) - Len(p.overrides)
  BY FollowedMeans
<1>2. Len(p.overrides) \in Nat /\ Len(p.overlays) \in Nat
  BY PlanTyped
<1>3. Total(p) = Len(p.overrides) + Len(p.overlays)
  BY Zenon DEF Total
<1> DEFINE n == Len(os)
           a == Len(p.overrides)
           b == Len(p.overlays)
<1>4. CASE n < a /\ j = 0
  <2>1. ASSUME NEW x \in Nat, NEW y \in Nat, NEW z \in Nat, x < y
        PROVE  0 \in Nat /\ 0 <= z /\ x < y + z /\ 1 .. 0 = {}
    BY <2>1
  <2>2. 0 \in Nat /\ 0 <= b /\ n < a + b /\ 1 .. 0 = {}
    BY <1>1, <1>2, <1>4, <2>1, Zenon
  <2> QED
    BY <1>3, <1>4, <2>2, Zenon
<1>5. CASE n >= a /\ n < Total(p) /\ j = n - a
  <2>1. ASSUME NEW x \in Nat, NEW y \in Nat, NEW z \in Nat, x >= y, x < y + z
        PROVE  x - y \in Nat /\ x - y <= z
    BY <2>1
  <2>2. j \in Nat /\ j <= b /\ j = Overlaid(p, n)
    BY <1>1, <1>2, <1>3, <1>5, <2>1, Zenon
  <2> QED
    BY <1>1, <1>5, <2>2, Zenon
<1>6. CASE n >= a /\ n < Total(p) /\ j = n - a + 1 /\ KeyOf(p, sd, j) \in DOMAIN g
  <2>1. ASSUME NEW x \in Nat, NEW y \in Nat, NEW z \in Nat, x >= y, x < y + z
        PROVE  /\ x - y + 1 \in Nat /\ x - y + 1 <= z
               /\ \A i \in 1 .. x - y + 1 : i = x - y + 1 \/ i \in 1 .. x - y
    BY <2>1
  <2>2. /\ j \in Nat /\ j <= b
        /\ \A i \in 1 .. j : i = j \/ i \in 1 .. Overlaid(p, n)
    BY <1>1, <1>2, <1>3, <1>6, <2>1, Zenon
  <2> QED
    BY <1>1, <1>6, <2>2, Zenon
<1> QED
  BY <1>4, <1>5, <1>6, Zenon DEF Halts

LEMMA EndedStays ==
  ASSUME NEW g, NEW h, NEW p, NEW m, Planned(p), Grows(g, h), Ended(g, p, m)
  PROVE  Ended(h, p, m)
<1> DEFINE os == m.overrides
           n == Len(os)
           sd == m.seed
<1>1. Followed(g, p, sd, os) /\ Followed(h, p, sd, os)
  <2>1. Followed(g, p, sd, os)
    BY Zenon DEF Ended
  <2> QED
    BY <2>1, FollowedStays
<1>2. PICK c : Course(os, n, c) /\ Stops(g, p, sd, m, c[n])
  BY Zenon DEF Ended
<1>3. Len(p.overlays) \in Nat /\ Len(p.overlays) <= Len(p.overlays)
  BY PlanTyped
<1> HIDE DEF os, n, sd
<1>4. CASE /\ n = Total(p)
           /\ m.overlaySamples = SamplesAfter(g, p, sd, Len(p.overlays))
           /\ m.scenario = IF Readable(c[n]) THEN c[n] ELSE None
  <2>1. \A i \in 1 .. Len(p.overlays) : KeyOf(p, sd, i) \in DOMAIN g
    <3>1. /\ n >= Len(p.overrides) => Overlaid(p, n) = n - Len(p.overrides)
          /\ \A i \in 1 .. Overlaid(p, n) : KeyOf(p, sd, i) \in DOMAIN g
      BY <1>1, FollowedMeans DEF n
    <3>2. Overlaid(p, n) = Len(p.overlays)
      <4>1. ASSUME NEW a \in Nat, NEW b \in Nat PROVE a + b >= a /\ (a + b) - a = b
        OBVIOUS
      <4>2. Len(p.overrides) \in Nat /\ Total(p) = Len(p.overrides) + Len(p.overlays)
        BY PlanTyped DEF Total
      <4>3. Total(p) >= Len(p.overrides) /\ Total(p) - Len(p.overrides) = Len(p.overlays)
        BY <1>3, <4>1, <4>2, Zenon
      <4> QED
        BY <1>4, <3>1, <4>3, Zenon
    <3> QED
      BY <3>1, <3>2, Zenon
  <2>2. SamplesAfter(h, p, sd, Len(p.overlays)) = SamplesAfter(g, p, sd, Len(p.overlays))
    BY <1>3, <2>1, SamplesStay
  <2>3. Stops(h, p, sd, m, c[n])
    BY <1>4, <2>2, Zenon DEF Stops, n, os
  <2> QED
    BY <1>1, <1>2, <2>3, Zenon DEF Ended, n, os, sd
<1>5. CASE /\ m.scenario = None
           /\ \E j : /\ Halts(g, p, sd, n, c[n], j)
                     /\ m.overlaySamples = SamplesAfter(g, p, sd, j)
  <2>1. PICK j : /\ Halts(g, p, sd, n, c[n], j)
                 /\ m.overlaySamples = SamplesAfter(g, p, sd, j)
    BY <1>5, Zenon
  <2>2. /\ j \in Nat /\ j <= Len(p.overlays)
        /\ \A i \in 1 .. j : KeyOf(p, sd, i) \in DOMAIN g
    BY <1>1, <2>1, HaltsMeans, Zenon DEF n
  <2>3. SamplesAfter(h, p, sd, j) = SamplesAfter(g, p, sd, j)
    BY <2>2, SamplesStay
  <2>4. Halts(h, p, sd, n, c[n], j)
    <3>1. CASE /\ n >= Len(p.overrides) /\ n < Total(p) /\ j = n - Len(p.overrides) + 1
               /\ p.overlays[j].choices # <<>>
               /\ KeyOf(p, sd, j) \in DOMAIN g
               /\ ~Applicable(Expected(g, p, sd, n + 1), c[n])
      <4>1. (n + 1) - Len(p.overrides) = j
        <5>1. ASSUME NEW x \in Nat, NEW y \in Nat PROVE (x + 1) - y = x - y + 1
          OBVIOUS
        <5>2. n \in Nat /\ Len(p.overrides) \in Nat
          BY <1>1, FollowedMeans, PlanTyped DEF n
        <5> QED
          BY <3>1, <5>1, <5>2, Zenon
      <4>2. KeyOf(p, sd, (n + 1) - Len(p.overrides)) \in DOMAIN g
        BY <3>1, <4>1, Zenon
      <4>3. Expected(h, p, sd, n + 1) = Expected(g, p, sd, n + 1)
        BY <4>2, ExpectedStays
      <4>4. KeyOf(p, sd, j) \in DOMAIN h
        BY <3>1, Zenon DEF Grows
      <4> QED
        BY <3>1, <4>3, <4>4, Zenon DEF Halts
    <3> QED
      BY <2>1, <3>1, Zenon DEF Halts
  <2>5. Stops(h, p, sd, m, c[n])
    BY <1>5, <2>1, <2>3, <2>4, Zenon DEF Stops, n, os
  <2> QED
    BY <1>1, <1>2, <2>5, Zenon DEF Ended, n, os, sd
<1> QED
  BY <1>2, <1>4, <1>5, Zenon DEF Stops, n, os

(***************************************************************************)
(* A run has no choice: where it halts, no other run of the same variant   *)
(* and seed goes on.                                                       *)
(***************************************************************************)
LEMMA NoneGoesFurther ==
  ASSUME NEW g, NEW p, NEW sd, NEW os, NEW ps, NEW c, NEW d, NEW j, Planned(p),
         Followed(g, p, sd, os), Followed(g, p, sd, ps),
         Course(os, Len(os), c), Course(ps, Len(ps), d),
         Halts(g, p, sd, Len(os), c[Len(os)], j)
  PROVE  ~(Len(os) < Len(ps))
<1> SUFFICES ASSUME Len(os) < Len(ps) PROVE FALSE
  OBVIOUS
<1> DEFINE n == Len(os)
           l == Len(ps)
<1>1. /\ n \in Nat /\ \A k \in 1 .. n : os[k] = Expected(g, p, sd, k)
  BY FollowedMeans
<1>2. /\ l \in Nat /\ \A k \in 1 .. l : ps[k] = Expected(g, p, sd, k)
      /\ \A i \in 1 .. Overlaid(p, l) : p.overlays[i].choices # <<>>
      /\ l >= Len(p.overrides) => Overlaid(p, l) = l - Len(p.overrides)
  BY FollowedMeans
<1>3. Course(os, n, c) /\ Course(ps, l, d) /\ n < l /\ Halts(g, p, sd, n, c[n], j)
  OBVIOUS
<1> HIDE DEF n, l
<1>4. n <= n /\ n <= l /\ n + 1 \in 1 .. l /\ (n + 1) - 1 = n
      /\ \A k \in 1 .. n : k \in 1 .. l
  BY <1>1, <1>2, <1>3
<1>5. c[n] = d[n]
  <2>1. \A k \in 1 .. n : os[k] = ps[k]
    BY <1>1, <1>2, <1>4, Zenon
  <2> QED
    BY <1>1, <1>2, <1>3, <1>4, <2>1, CourseAgrees
<1>6. Applicable(Expected(g, p, sd, n + 1), c[n])
  <2>1. Applicable(ps[n + 1], d[(n + 1) - 1])
    BY <1>3, <1>4 DEF Course
  <2>2. ps[n + 1] = Expected(g, p, sd, n + 1)
    BY <1>2, <1>4, Zenon
  <2> QED
    BY <1>4, <1>5, <2>1, <2>2, Zenon
<1>7. Len(p.overrides) \in Nat
  BY PlanTyped
<1>8. CASE n < Len(p.overrides) /\ ~Applicable(p.overrides[n + 1], c[n])
  <2>1. n + 1 <= Len(p.overrides)
    BY <1>1, <1>7, <1>8
  <2>2. Expected(g, p, sd, n + 1) = p.overrides[n + 1]
    BY <2>1, Zenon DEF Expected
  <2> QED
    BY <1>6, <1>8, <2>2, Zenon
<1>9. CASE /\ n >= Len(p.overrides) /\ j = n - Len(p.overrides)
           /\ p.overlays[j + 1].choices = <<>>
  <2>1. l >= Len(p.overrides) /\ j + 1 \in 1 .. l - Len(p.overrides)
    BY <1>1, <1>2, <1>3, <1>7, <1>9
  <2> QED
    BY <1>2, <1>9, <2>1, Zenon
<1>10. CASE ~Applicable(Expected(g, p, sd, n + 1), c[n])
  BY <1>6, <1>10, Zenon
<1> QED
  BY <1>3, <1>8, <1>9, <1>10, Zenon DEF Halts

LEMMA HaltsAlike ==
  ASSUME NEW g, NEW p, NEW sd, NEW n, NEW s, NEW i, NEW j, Planned(p), n \in Nat,
         Halts(g, p, sd, n, s, i), Halts(g, p, sd, n, s, j)
  PROVE  i = j
<1>1. Len(p.overrides) \in Nat
  BY PlanTyped
<1> DEFINE a == Len(p.overrides)
           L(k) == k = 0
           E(k) == k = n - a /\ p.overlays[k + 1].choices = <<>>
           M(k) == k = n - a + 1 /\ p.overlays[k].choices # <<>>
<1>2. /\ (n < a /\ L(i)) \/ (n >= a /\ E(i)) \/ (n >= a /\ M(i))
      /\ (n < a /\ L(j)) \/ (n >= a /\ E(j)) \/ (n >= a /\ M(j))
  BY Zenon DEF Halts
<1>3. ~(E(i) /\ M(j)) /\ ~(E(j) /\ M(i))
  OBVIOUS
<1>4. ~(n < a /\ n >= a)
  BY <1>1
<1>5. (L(i) /\ L(j) => i = j) /\ (E(i) /\ E(j) => i = j) /\ (M(i) /\ M(j) => i = j)
  BY Zenon
<1> HIDE DEF L, E, M
<1> QED
  BY <1>2, <1>3, <1>4, <1>5, Zenon

LEMMA SameRuns ==
  ASSUME NEW g, NEW p, NEW r, NEW q, Planned(p), Ended(g, p, r), Ended(g, p, q),
         r.seed = q.seed
  PROVE  /\ r.overrides = q.overrides
         /\ r.overlaySamples = q.overlaySamples
         /\ r.scenario = q.scenario
<1> DEFINE os == r.overrides
           ps == q.overrides
           sd == r.seed
<1>1. Followed(g, p, sd, os) /\ Followed(g, p, sd, ps)
  BY Zenon DEF Ended
<1>2. PICK c : Course(os, Len(os), c) /\ Stops(g, p, sd, r, c[Len(os)])
  BY Zenon DEF Ended
<1>3. PICK d : Course(ps, Len(ps), d) /\ Stops(g, p, sd, q, d[Len(ps)])
  BY Zenon DEF Ended
<1>4. /\ Len(os) \in Nat /\ Len(ps) \in Nat /\ Len(os) <= Total(p) /\ Len(ps) <= Total(p)
      /\ \A k \in 1 .. Len(os) : os[k] = Expected(g, p, sd, k)
      /\ \A k \in 1 .. Len(ps) : ps[k] = Expected(g, p, sd, k)
  <2> HIDE DEF os, ps, sd
  <2> QED
    BY <1>1, FollowedMeans
<1>5. Len(os) = Total(p) \/ \E i : Halts(g, p, sd, Len(os), c[Len(os)], i)
  BY <1>2, Zenon DEF Stops
<1>6. Len(ps) = Total(p) \/ \E i : Halts(g, p, sd, Len(ps), d[Len(ps)], i)
  BY <1>3, Zenon DEF Stops
<1>7. Len(os) = Len(ps)
  <2> HIDE DEF os, ps, sd
  <2>1. Total(p) \in Nat
    BY PlanTyped
  <2>2. ASSUME Len(os) < Len(ps) PROVE FALSE
    <3>1. Len(os) # Total(p)
      BY <1>4, <2>1, <2>2
    <3>2. PICK i : Halts(g, p, sd, Len(os), c[Len(os)], i)
      BY <1>5, <3>1, Zenon
    <3> QED
      BY <1>1, <1>2, <1>3, <2>2, <3>2, NoneGoesFurther, Zenon
  <2>3. ASSUME Len(ps) < Len(os) PROVE FALSE
    <3>1. Len(ps) # Total(p)
      BY <1>4, <2>1, <2>3
    <3>2. PICK i : Halts(g, p, sd, Len(ps), d[Len(ps)], i)
      BY <1>6, <3>1, Zenon
    <3> QED
      BY <1>1, <1>2, <1>3, <2>3, <3>2, NoneGoesFurther, Zenon
  <2> QED
    BY <1>4, <2>2, <2>3
<1>8. os = ps
  <2>1. os \in Seq(Override) /\ ps \in Seq(Override)
    BY <1>1, Zenon DEF Followed
  <2>2. \A k \in 1 .. Len(os) : os[k] = ps[k]
    BY <1>4, <1>7, Zenon
  <2> HIDE DEF os, ps
  <2> QED
    BY <1>7, <2>1, <2>2, SeqEqual
<1>9. c[Len(os)] = d[Len(os)]
  <2>1. Course(os, Len(os), d)
    BY <1>3, <1>8, Zenon
  <2> HIDE DEF os, ps, sd
  <2>2. ASSUME NEW n \in Nat, Course(os, n, c), Course(os, n, d) PROVE c[n] = d[n]
    <3>1. n <= n
      OBVIOUS
    <3> QED
      BY <2>2, <3>1, CourseAgrees
  <2> QED
    BY <1>2, <1>4, <2>1, <2>2, Zenon
<1>10. Stops(g, p, sd, q, c[Len(os)])
  BY <1>3, <1>7, <1>9, Zenon
<1> DEFINE s == c[Len(os)]
<1>11. ASSUME NEW j, Halts(g, p, sd, Len(os), s, j) PROVE Len(os) # Total(p)
  <2> HIDE DEF os, ps, s, sd
  <2>1. Total(p) \in Nat /\ Len(os) < Total(p)
    BY <1>1, <1>11, HaltsMeans, PlanTyped
  <2> QED
    BY <2>1
<1>12. CASE Len(os) = Total(p)
  <2>1. /\ r.overlaySamples = SamplesAfter(g, p, sd, Len(p.overlays))
        /\ r.scenario = IF Readable(s) THEN s ELSE None
    BY <1>2, <1>11, <1>12, Zenon DEF Stops
  <2>2. /\ q.overlaySamples = SamplesAfter(g, p, sd, Len(p.overlays))
        /\ q.scenario = IF Readable(s) THEN s ELSE None
    BY <1>8, <1>10, <1>11, <1>12, Zenon DEF Stops
  <2> QED
    BY <1>8, <2>1, <2>2, Zenon
<1>13. CASE Len(os) # Total(p)
  <2>1. PICK i : /\ Halts(g, p, sd, Len(os), s, i)
                 /\ r.overlaySamples = SamplesAfter(g, p, sd, i) /\ r.scenario = None
    BY <1>2, <1>13, Zenon DEF Stops
  <2>2. PICK j : /\ Halts(g, p, sd, Len(os), s, j)
                 /\ q.overlaySamples = SamplesAfter(g, p, sd, j) /\ q.scenario = None
    BY <1>8, <1>10, <1>13, Zenon DEF Stops
  <2>3. i = j
    BY <1>4, <2>1, <2>2, HaltsAlike, Zenon
  <2> QED
    BY <1>8, <2>1, <2>2, <2>3, Zenon
<1> QED
  BY <1>12, <1>13

\* What was run comes from the manifest.
LEMMA ReplaysFrom ==
  ASSUME NEW g, NEW p, NEW m, Planned(p), Ended(g, p, m), m.scenario # None
  PROVE  /\ m.scenario = Replayed(m.overrides)
         /\ Len(m.overrides) = Len(p.overrides) + Len(p.overlays)
         /\ SubSeq(m.overrides, 1, Len(p.overrides)) = p.overrides
<1> DEFINE os == m.overrides
           sd == m.seed
<1>1. Followed(g, p, sd, os)
  BY Zenon DEF Ended
<1>2. PICK c : Course(os, Len(os), c) /\ Stops(g, p, sd, m, c[Len(os)])
  BY Zenon DEF Ended
<1>3. Len(os) = Total(p) /\ m.scenario = c[Len(os)]
  BY <1>2, Zenon DEF Stops
<1>4. Len(os) \in Nat /\ \A k \in 1 .. Len(os) : os[k] = Expected(g, p, sd, k)
  <2> HIDE DEF os, sd
  <2> QED
    BY <1>1, FollowedMeans
<1>5. m.scenario = Replayed(os)
  <2>1. Replayed(os) = c[Len(os)]
    <3> HIDE DEF os
    <3> QED
      BY <1>2, <1>4, ReplayedIs
  <2> QED
    BY <1>3, <2>1, Zenon
<1>6. SubSeq(os, 1, Len(p.overrides)) = p.overrides
  <2>1. os \in Seq(Override) /\ p.overrides \in Seq(Override)
    BY <1>1, Zenon DEF Followed, Planned
  <2>2. PICK a \in Nat : a = Len(p.overrides)
    BY PlanTyped
  <2>3. a <= Len(os)
    BY <1>3, <2>2, PlanTyped
  <2>4. \A k \in 1 .. a : os[k] = p.overrides[k]
    <3>1. ASSUME NEW k \in 1 .. a PROVE k <= a /\ k \in 1 .. Len(os)
      BY <1>4, <2>3
    <3>2. ASSUME NEW k \in 1 .. a PROVE os[k] = p.overrides[k]
      BY <1>4, <2>2, <3>1, Zenon DEF Expected
    <3> QED
      BY <3>2
  <2> HIDE DEF os
  <2> DEFINE q == SubSeq(os, 1, a)
  <2>5. /\ q \in Seq(Override) /\ Len(q) = a
        /\ \A k \in 1 .. a : q[k] = os[k]
    BY <1>4, <2>1, <2>3
  <2> HIDE DEF q
  <2>6. q = p.overrides
    BY <2>1, <2>2, <2>4, <2>5, SeqEqual
  <2> QED
    BY <2>2, <2>6, Zenon DEF q
<1> QED
  BY <1>3, <1>5, <1>6, Zenon DEF Total

(***************************************************************************)
(* A run that has come some way, with scenario s and draws d.              *)
(***************************************************************************)
OnCourse(g, p, m, s, d) ==
  LET n == Len(m.overrides)
  IN  /\ Followed(g, p, m.seed, m.overrides)
      /\ \E c : Course(m.overrides, n, c) /\ s = c[n]
      /\ m.scenario = None
      /\ m.overlaySamples = SamplesAfter(g, p, m.seed, Overlaid(p, n))
      /\ \A id : Drawn(d, p, id) = Count(p, Overlaid(p, n), id)

LEMMA OverlaidNext ==
  ASSUME NEW p, NEW n, Planned(p), n \in Nat
  PROVE  /\ n < Len(p.overrides) => Overlaid(p, n) = 0 /\ Overlaid(p, n + 1) = 0
         /\ n >= Len(p.overrides) =>
              /\ Overlaid(p, n) = n - Len(p.overrides)
              /\ Overlaid(p, n + 1) = Overlaid(p, n) + 1
              /\ (n + 1) - Len(p.overrides) = Overlaid(p, n) + 1
              /\ Overlaid(p, n) \in Nat
<1> DEFINE o(a, b) == IF b <= a THEN 0 ELSE b - a
<1>1. ASSUME NEW a \in Nat
      PROVE  /\ n < a => o(a, n) = 0 /\ o(a, n + 1) = 0
             /\ n >= a => /\ o(a, n) = n - a /\ o(a, n + 1) = o(a, n) + 1
                          /\ (n + 1) - a = o(a, n) + 1 /\ o(a, n) \in Nat
  BY <1>1
<1>2. \A k : Overlaid(p, k) = o(Len(p.overrides), k)
  BY Zenon DEF Overlaid
<1>3. Len(p.overrides) \in Nat
  BY PlanTyped
<1> HIDE DEF o
<1> QED
  BY <1>1, <1>2, <1>3, Zenon

LEMMA FollowedLonger ==
  ASSUME NEW g, NEW p, NEW sd, NEW os, NEW o, Planned(p),
         Followed(g, p, sd, os), o \in Override, Len(os) < Total(p),
         o = Expected(g, p, sd, Len(os) + 1),
         Len(os) >= Len(p.overrides) =>
           /\ p.overlays[Overlaid(p, Len(os)) + 1].choices # <<>>
           /\ KeyOf(p, sd, Overlaid(p, Len(os)) + 1) \in DOMAIN g
  PROVE  Followed(g, p, sd, Append(os, o)) /\ Len(Append(os, o)) = Len(os) + 1
<1> DEFINE n == Len(os)
           ps == Append(os, o)
<1>1. /\ os \in Seq(Override) /\ n \in Nat
      /\ \A k \in 1 .. n : os[k] = Expected(g, p, sd, k)
      /\ \A j \in 1 .. Overlaid(p, n) :
           p.overlays[j].choices # <<>> /\ KeyOf(p, sd, j) \in DOMAIN g
  BY FollowedMeans, Zenon DEF Followed
<1>2. /\ ps \in Seq(Override) /\ Len(ps) = n + 1 /\ ps[n + 1] = o
      /\ \A k \in 1 .. n : ps[k] = os[k]
  <2>1. os \in Seq(Override)
    BY <1>1
  <2> QED
    BY <2>1, AppendProperties
<1>3. Total(p) \in Nat /\ Len(p.overrides) \in Nat
  BY PlanTyped
<1>4. n < Total(p) /\ o = Expected(g, p, sd, n + 1)
  OBVIOUS
<1>5. n >= Len(p.overrides) =>
           /\ p.overlays[Overlaid(p, n) + 1].choices # <<>>
           /\ KeyOf(p, sd, Overlaid(p, n) + 1) \in DOMAIN g
  OBVIOUS
<1> HIDE DEF n, ps
<1>6. n + 1 <= Total(p)
  BY <1>1, <1>3, <1>4
<1>7. ASSUME NEW k \in 1 .. n + 1 PROVE ps[k] = Expected(g, p, sd, k)
  <2>1. k = n + 1 \/ k \in 1 .. n
    BY <1>1
  <2> QED
    BY <1>1, <1>2, <1>4, <2>1, Zenon
<1>8. ASSUME NEW j \in 1 .. Overlaid(p, n + 1)
      PROVE  p.overlays[j].choices # <<>> /\ KeyOf(p, sd, j) \in DOMAIN g
  <2>1. CASE n < Len(p.overrides)
    <3>1. Overlaid(p, n + 1) = 0
      BY <1>1, <2>1, OverlaidNext
    <3> QED
      BY <3>1
  <2>2. CASE n >= Len(p.overrides)
    <3>1. Overlaid(p, n + 1) = Overlaid(p, n) + 1 /\ Overlaid(p, n) \in Nat
      BY <1>1, <2>2, OverlaidNext
    <3>2. j = Overlaid(p, n) + 1 \/ j \in 1 .. Overlaid(p, n)
      BY <3>1
    <3> QED
      BY <1>1, <1>5, <2>2, <3>2, Zenon
  <2> QED
    BY <1>1, <1>3, <2>1, <2>2
<1> QED
  BY <1>2, <1>6, <1>7, <1>8, Zenon DEF Followed, n, ps

LEMMA OnCourseMeans ==
  ASSUME NEW g, NEW p, NEW m, NEW s, NEW d, Planned(p), OnCourse(g, p, m, s, d)
  PROVE  /\ Followed(g, p, m.seed, m.overrides) /\ m.overrides \in Seq(Override)
         /\ Len(m.overrides) \in Nat /\ Len(m.overrides) <= Total(p)
         /\ m.scenario = None
         /\ m.overlaySamples =
              SamplesAfter(g, p, m.seed, Overlaid(p, Len(m.overrides)))
         /\ \A id : Drawn(d, p, id) = Count(p, Overlaid(p, Len(m.overrides)), id)
<1>1. Followed(g, p, m.seed, m.overrides)
  BY Zenon DEF OnCourse
<1>2. Len(m.overrides) \in Nat /\ Len(m.overrides) <= Total(p)
  BY <1>1, FollowedMeans
<1>3. m.overrides \in Seq(Override)
  BY <1>1, Zenon DEF Followed
<1> QED
  BY <1>1, <1>2, <1>3, Zenon DEF OnCourse

LEMMA OnCourseStays ==
  ASSUME NEW g, NEW h, NEW p, NEW m, NEW s, NEW d, Planned(p), Grows(g, h),
         OnCourse(g, p, m, s, d)
  PROVE  OnCourse(h, p, m, s, d)
<1> DEFINE j == Overlaid(p, Len(m.overrides))
<1>1. Followed(g, p, m.seed, m.overrides)
  BY Zenon DEF OnCourse
<1>2. Followed(h, p, m.seed, m.overrides)
  BY <1>1, FollowedStays
<1>3. /\ j \in Nat /\ j <= Len(p.overlays)
      /\ \A i \in 1 .. j : KeyOf(p, m.seed, i) \in DOMAIN g
  BY <1>1, FollowedMeans
<1> HIDE DEF j
<1>4. SamplesAfter(h, p, m.seed, j) = SamplesAfter(g, p, m.seed, j)
  BY <1>3, SamplesStay
<1> QED
  BY <1>2, <1>4, Zenon DEF OnCourse, j

LEMMA CourseStarts ==
  ASSUME NEW g, NEW p, NEW m, Planned(p), m.overrides = <<>>,
         m.overlaySamples = <<>>, m.scenario = None
  PROVE  OnCourse(g, p, m, Base, <<>>)
<1>1. /\ <<>> \in Seq(Override) /\ Len(<<>>) = 0 /\ 1 .. 0 = {} /\ 0 \in Nat
      /\ DOMAIN <<>> = {}
  OBVIOUS
<1>2. Len(p.overrides) \in Nat /\ Total(p) \in Nat
  BY PlanTyped
<1>3. Overlaid(p, 0) = 0 /\ 0 <= Total(p)
  BY <1>2 DEF Overlaid
<1>4. Followed(g, p, m.seed, <<>>)
  BY <1>1, <1>3, Zenon DEF Followed
<1>5. Course(<<>>, 0, [k \in 0 .. 0 |-> Base]) /\ [k \in 0 .. 0 |-> Base][0] = Base
  <2>1. [k \in 0 .. 0 |-> Base][0] = Base
    OBVIOUS
  <2> QED
    BY <2>1, CourseBegins, Zenon
<1>6. SamplesAfter(g, p, m.seed, 0) = <<>>
  <2>2. {p.overlays[j].id : j \in 1 .. 0} = {}
    OBVIOUS
  <2> DEFINE val(id) == Expected(g, p, m.seed, Len(p.overrides) + FirstOf(p, id)).value
  <2>3. SamplesAfter(g, p, m.seed, 0) = [id \in {} |-> val(id)]
    BY <2>2, Zenon DEF SamplesAfter
  <2> HIDE DEF val
  <2>4. [id \in {} |-> val(id)] = <<>>
    OBVIOUS
  <2> QED
    BY <2>3, <2>4, Zenon
<1>7. \A id : Drawn(<<>>, p, id) = Count(p, 0, id)
  BY <1>1, CountNone, Zenon DEF Drawn
<1> QED
  BY <1>1, <1>3, <1>4, <1>5, <1>6, <1>7, Zenon DEF OnCourse

LEMMA CourseLonger ==
  ASSUME NEW os, NEW o, NEW s, os \in Seq(Override), o \in Override,
         \E c : Course(os, Len(os), c) /\ s = c[Len(os)], Applicable(o, s)
  PROVE  \E c : /\ Course(Append(os, o), Len(os) + 1, c)
                /\ Applied(o, s) = c[Len(os) + 1]
<1>1. PICK c : Course(os, Len(os), c) /\ s = c[Len(os)]
  BY Zenon
<1>2. Applicable(o, c[Len(os)])
  BY <1>1, Zenon
<1>3. PICK d : /\ Course(Append(os, o), Len(os) + 1, d)
               /\ d[Len(os) + 1] = Applied(o, c[Len(os)])
  BY <1>1, <1>2, CourseGoesOn
<1> QED
  BY <1>1, <1>3, Zenon

OverrideDue(p, m, o) ==
  Len(m.overrides) < Len(p.overrides) /\ o = p.overrides[Len(m.overrides) + 1]

OverrideTaken(m, r, o) ==
  /\ r.overrides = Append(m.overrides, o) /\ r.seed = m.seed
  /\ r.overlaySamples = m.overlaySamples /\ r.scenario = m.scenario

\* An override more, and an overlay more.
LEMMA OverrideGoesOn ==
  ASSUME NEW g, NEW p, NEW m, NEW s, NEW d, NEW r, NEW o, Planned(p),
         OnCourse(g, p, m, s, d), OverrideDue(p, m, o), Applicable(o, s),
         OverrideTaken(m, r, o)
  PROVE  /\ OnCourse(g, p, r, Applied(o, s), d)
         /\ Len(r.overrides) = Len(m.overrides) + 1
<1> DEFINE n == Len(m.overrides)
<1>0. n < Len(p.overrides) /\ o = p.overrides[n + 1]
  BY Zenon DEF OverrideDue
<1>1. /\ Followed(g, p, m.seed, m.overrides) /\ m.overrides \in Seq(Override)
      /\ n \in Nat /\ m.scenario = None
      /\ m.overlaySamples = SamplesAfter(g, p, m.seed, Overlaid(p, n))
      /\ \A id : Drawn(d, p, id) = Count(p, Overlaid(p, n), id)
      /\ \E c : Course(m.overrides, n, c) /\ s = c[n]
  BY OnCourseMeans, Zenon DEF OnCourse
<1> HIDE DEF n
<1>2. /\ Len(p.overrides) \in Nat /\ Total(p) \in Nat /\ Total(p) >= Len(p.overrides)
      /\ \A k \in 1 .. Len(p.overrides) : p.overrides[k] \in Override
  BY PlanTyped
<1>3. /\ n + 1 \in 1 .. Len(p.overrides) /\ n + 1 <= Len(p.overrides) /\ n < Total(p)
      /\ ~(n >= Len(p.overrides))
  <2>1. ASSUME NEW x \in Nat, NEW a \in Nat, NEW t \in Nat, t >= a, x < a
        PROVE  x + 1 \in 1 .. a /\ x + 1 <= a /\ x < t /\ ~(x >= a)
    BY <2>1
  <2> QED
    BY <1>0, <1>1, <1>2, <2>1, Zenon
<1>4. o \in Override
  BY <1>0, <1>2, <1>3, Zenon
<1>5. o = Expected(g, p, m.seed, n + 1)
  BY <1>0, <1>3, Zenon DEF Expected
<1>6. /\ Followed(g, p, m.seed, Append(m.overrides, o))
      /\ Len(Append(m.overrides, o)) = n + 1
  BY <1>1, <1>3, <1>4, <1>5, FollowedLonger DEF n
<1>7. Overlaid(p, n) = 0 /\ Overlaid(p, n + 1) = 0
  BY <1>0, <1>1, OverlaidNext, Zenon
<1>8. \E c : Course(Append(m.overrides, o), n + 1, c) /\ Applied(o, s) = c[n + 1]
  BY <1>1, <1>4, CourseLonger DEF n
<1> QED
  BY <1>1, <1>6, <1>7, <1>8, Zenon DEF OnCourse, OverrideTaken, n

LEMMA SampledTyped ==
  ASSUME NEW x \in Overlay, NEW y \in Draws, x.choices # <<>>
  PROVE  AsOverride(x, y) \in Override
<1>1. x.choices \in Seq(Node) /\ x.target \in Targets
  BY DEF Overlay
<1>2. y \in Nat \ {0} /\ Len(x.choices) \in Nat \ {0}
  BY <1>1, ExperimentAssumption
<1>3. Sampled(x, y) \in Node
  BY <1>1, <1>2 DEF Sampled
<1> QED
  BY <1>1, <1>3 DEF AsOverride, Override

\* With j overlays behind, the next one draws for the key of number j + 1.
LEMMA OverlayNext ==
  ASSUME NEW g, NEW p, NEW m, NEW s, NEW d, Planned(p),
         OnCourse(g, p, m, s, d),
         Len(m.overrides) >= Len(p.overrides), Len(m.overrides) < Total(p)
  PROVE  LET n == Len(m.overrides)
             j == Overlaid(p, n)
         IN  /\ j \in Nat /\ j = n - Len(p.overrides)
             /\ (n + 1) - Len(p.overrides) = j + 1
             /\ j + 1 \in DOMAIN p.overlays /\ j + 1 <= Len(p.overlays)
             /\ p.overlays[j + 1] \in Overlay
             /\ KeyOf(p, m.seed, j + 1)
                  = <<m.seed, <<p.id, p.overlays[j + 1].id>>,
                      Drawn(d, p, p.overlays[j + 1].id)>>
             /\ Expected(g, p, m.seed, n + 1)
                  = AsOverride(p.overlays[j + 1], g[KeyOf(p, m.seed, j + 1)])
             /\ Len(p.overrides) + (j + 1) = n + 1
<1> DEFINE n == Len(m.overrides)
           j == Overlaid(p, n)
<1>0. n >= Len(p.overrides) /\ n < Total(p)
  OBVIOUS
<1>1. n \in Nat /\ \A id : Drawn(d, p, id) = Count(p, j, id)
  BY OnCourseMeans
<1>2. /\ Len(p.overrides) \in Nat /\ Len(p.overlays) \in Nat
      /\ \A k \in 1 .. Len(p.overlays) : p.overlays[k] \in Overlay
      /\ DOMAIN p.overlays = 1 .. Len(p.overlays)
  BY PlanTyped
<1>3. /\ j \in Nat /\ j = n - Len(p.overrides) /\ (n + 1) - Len(p.overrides) = j + 1
  BY <1>0, <1>1, OverlaidNext, Zenon
<1>4. n < Len(p.overrides) + Len(p.overlays)
  BY <1>0, Zenon DEF Total
<1> HIDE DEF j, n
<1>5. /\ j + 1 \in 1 .. Len(p.overlays) /\ j + 1 <= Len(p.overlays)
      /\ (j + 1) - 1 = j /\ ~(n + 1 <= Len(p.overrides))
      /\ Len(p.overrides) + (j + 1) = n + 1
  <2>1. ASSUME NEW z \in Nat, NEW a \in Nat, NEW b \in Nat, z < a + b, z >= a
        PROVE  /\ (z - a) + 1 \in 1 .. b /\ (z - a) + 1 <= b
               /\ ((z - a) + 1) - 1 = z - a /\ ~(z + 1 <= a)
               /\ a + ((z - a) + 1) = z + 1
    BY <2>1
  <2> DEFINE i == n - Len(p.overrides)
  <2>2. /\ i + 1 \in 1 .. Len(p.overlays) /\ i + 1 <= Len(p.overlays)
        /\ (i + 1) - 1 = i /\ ~(n + 1 <= Len(p.overrides))
        /\ Len(p.overrides) + (i + 1) = n + 1
    BY <1>0, <1>1, <1>2, <1>4, <2>1, Zenon
  <2> HIDE DEF i
  <2>3. i = j
    BY <1>3, Zenon DEF i
  <2> QED
    BY <2>2, <2>3, Zenon
<1>6. KeyOf(p, m.seed, j + 1)
        = <<m.seed, <<p.id, p.overlays[j + 1].id>>, Drawn(d, p, p.overlays[j + 1].id)>>
  BY <1>1, <1>5, Zenon DEF KeyOf
<1>7. Expected(g, p, m.seed, n + 1)
        = AsOverride(p.overlays[j + 1], g[KeyOf(p, m.seed, j + 1)])
  BY <1>3, <1>5, Zenon DEF Expected
<1> QED
  BY <1>2, <1>3, <1>5, <1>6, <1>7, Zenon DEF j, n

\* Overlay x draws y, and comes down to override o.
DrawnFor(g, p, m, d, x, y, o) ==
  LET n == Len(m.overrides)
      key == <<m.seed, <<p.id, x.id>>, Drawn(d, p, x.id)>>
  IN  /\ n >= Len(p.overrides) /\ n < Total(p)
      /\ x = p.overlays[(n + 1) - Len(p.overrides)]
      /\ x.choices # <<>> /\ y \in Draws
      /\ key \in DOMAIN g /\ g[key] = y
      /\ o = AsOverride(x, y)

Counted(p, d, e, x) == e = With(d, <<p.id, x.id>>, Drawn(d, p, x.id) + 1)

OverlayTaken(m, r, o, x) ==
  /\ r.overrides = Append(m.overrides, o) /\ r.seed = m.seed
  /\ r.overlaySamples = Emplaced(m.overlaySamples, x.id, o.value)
  /\ r.scenario = m.scenario

LEMMA OverlayGoesOn ==
  ASSUME NEW g, NEW p, NEW m, NEW s, NEW d, NEW r, NEW x, NEW y, NEW o, NEW e,
         Planned(p), OnCourse(g, p, m, s, d), DrawnFor(g, p, m, d, x, y, o),
         OverlayTaken(m, r, o, x), Applicable(o, s),
         Counted(p, d, e, x)
  PROVE  OnCourse(g, p, r, Applied(o, s), e) /\ Len(r.overrides) = Len(m.overrides) + 1
<1> DEFINE n == Len(m.overrides)
           j == Overlaid(p, n)
           key == <<m.seed, <<p.id, x.id>>, Drawn(d, p, x.id)>>
<1>0. /\ n >= Len(p.overrides) /\ n < Total(p)
      /\ x = p.overlays[(n + 1) - Len(p.overrides)]
      /\ x.choices # <<>> /\ y \in Draws
      /\ key \in DOMAIN g /\ g[key] = y
      /\ o = AsOverride(x, y)
  BY Zenon DEF DrawnFor
<1>1. /\ Followed(g, p, m.seed, m.overrides) /\ m.overrides \in Seq(Override)
      /\ n \in Nat /\ m.scenario = None
      /\ m.overlaySamples = SamplesAfter(g, p, m.seed, j)
      /\ \A id : Drawn(d, p, id) = Count(p, j, id)
      /\ \E c : Course(m.overrides, n, c) /\ s = c[n]
  BY OnCourseMeans, Zenon DEF OnCourse
<1>2. /\ j \in Nat /\ (n + 1) - Len(p.overrides) = j + 1
      /\ j + 1 \in DOMAIN p.overlays /\ j + 1 <= Len(p.overlays)
      /\ p.overlays[j + 1] \in Overlay
      /\ KeyOf(p, m.seed, j + 1)
           = <<m.seed, <<p.id, p.overlays[j + 1].id>>,
               Drawn(d, p, p.overlays[j + 1].id)>>
      /\ Expected(g, p, m.seed, n + 1)
           = AsOverride(p.overlays[j + 1], g[KeyOf(p, m.seed, j + 1)])
      /\ Len(p.overrides) + (j + 1) = n + 1
  <2>1. Len(m.overrides) >= Len(p.overrides) /\ Len(m.overrides) < Total(p)
    BY <1>0
  <2> HIDE DEF key
  <2>2. /\ j \in Nat /\ j = n - Len(p.overrides)
        /\ (n + 1) - Len(p.overrides) = j + 1
        /\ j + 1 \in DOMAIN p.overlays /\ j + 1 <= Len(p.overlays)
        /\ p.overlays[j + 1] \in Overlay
        /\ KeyOf(p, m.seed, j + 1)
             = <<m.seed, <<p.id, p.overlays[j + 1].id>>,
                 Drawn(d, p, p.overlays[j + 1].id)>>
        /\ Expected(g, p, m.seed, n + 1)
             = AsOverride(p.overlays[j + 1], g[KeyOf(p, m.seed, j + 1)])
        /\ Len(p.overrides) + (j + 1) = n + 1
    BY <2>1, OverlayNext
  <2> QED
    BY <2>2, Zenon
<1>3. Overlaid(p, n + 1) = j + 1
  BY <1>0, <1>1, OverlaidNext, Zenon
<1>4. x = p.overlays[j + 1]
  BY <1>0, <1>2, Zenon
<1>5. KeyOf(p, m.seed, j + 1) \in DOMAIN g /\ g[KeyOf(p, m.seed, j + 1)] = y
  BY <1>0, <1>2, <1>4, Zenon
<1>6. Expected(g, p, m.seed, n + 1) = o
  BY <1>0, <1>2, <1>4, <1>5, Zenon
<1>7. o \in Override
  BY <1>0, <1>2, <1>4, SampledTyped, Zenon
<1> HIDE DEF j, n, key
<1>8. /\ Followed(g, p, m.seed, Append(m.overrides, o))
      /\ Len(Append(m.overrides, o)) = n + 1
  BY <1>0, <1>1, <1>4, <1>5, <1>6, <1>7, FollowedLonger DEF j, n
<1>9. \E c : Course(Append(m.overrides, o), n + 1, c) /\ Applied(o, s) = c[n + 1]
  BY <1>1, <1>7, CourseLonger DEF n
<1>10. r.overlaySamples = SamplesAfter(g, p, m.seed, j + 1)
  <2>1. Len(p.overlays) \in Nat /\ DOMAIN p.overlays = 1 .. Len(p.overlays)
    BY PlanTyped
  <2>2. p.overlays[j + 1].id = x.id
    BY <1>4, Zenon
  <2>3. o.value = Expected(g, p, m.seed, Len(p.overrides) + (j + 1)).value
    BY <1>2, <1>6, Zenon
  <2>4. Emplaced(SamplesAfter(g, p, m.seed, j), x.id, o.value)
          = SamplesAfter(g, p, m.seed, j + 1)
    <3>1. Emplaced(SamplesAfter(g, p, m.seed, j), p.overlays[j + 1].id,
                   Expected(g, p, m.seed, Len(p.overrides) + (j + 1)).value)
            = SamplesAfter(g, p, m.seed, j + 1)
      <4>1. j \in Nat /\ j + 1 <= Len(p.overlays)
        BY <1>2, Zenon
      <4> QED
        BY <2>1, <4>1, SamplesLonger
    <3> QED
      BY <2>2, <2>3, <3>1, Zenon
  <2> QED
    BY <1>1, <2>4, Zenon DEF OverlayTaken
<1>11. ASSUME NEW id PROVE Drawn(e, p, id) = Count(p, j + 1, id)
  <2>1. /\ Count(p, j, id) \in Nat
        /\ Count(p, j + 1, id) = Count(p, j, id) + (IF x.id = id THEN 1 ELSE 0)
    <3>1. /\ Count(p, j, id) \in Nat
          /\ Count(p, j + 1, id) =
               Count(p, j, id) + (IF p.overlays[j + 1].id = id THEN 1 ELSE 0)
      BY <1>2, CountLonger
    <3> QED
      BY <1>4, <3>1, Zenon
  <2>2. /\ DOMAIN e = DOMAIN d \cup {<<p.id, x.id>>}
        /\ e[<<p.id, x.id>>] = Drawn(d, p, x.id) + 1
        /\ \A k \in DOMAIN d \ {<<p.id, x.id>>} : e[k] = d[k]
    BY DEF Counted, With
  <2>3. CASE x.id = id
    <3>1. Drawn(e, p, id) = Drawn(d, p, id) + 1
      BY <2>2, <2>3, Zenon DEF Drawn
    <3> QED
      BY <1>1, <2>1, <2>3, <3>1, Zenon
  <2>4. CASE x.id # id
    <3>1. <<p.id, id>> # <<p.id, x.id>>
      BY <2>4
    <3>2. Drawn(e, p, id) = Drawn(d, p, id)
      BY <2>2, <3>1, Zenon DEF Drawn
    <3>3. Count(p, j + 1, id) = Count(p, j, id)
      BY <2>1, <2>4
    <3> QED
      BY <1>1, <3>2, <3>3, Zenon
  <2> QED
    BY <2>3, <2>4
<1> QED
  BY <1>1, <1>3, <1>8, <1>9, <1>10, <1>11, Zenon DEF OnCourse, OverlayTaken, j, n

(***************************************************************************)
(* Where a run ends.                                                       *)
(***************************************************************************)
LEMMA CourseOver ==
  ASSUME NEW g, NEW p, NEW m, NEW s, NEW d, NEW r, OnCourse(g, p, m, s, d),
         r.overrides = m.overrides, r.seed = m.seed, Stops(g, p, m.seed, r, s)
  PROVE  Ended(g, p, r)
<1>1. /\ Followed(g, p, m.seed, m.overrides)
      /\ \E c : Course(m.overrides, Len(m.overrides), c) /\ s = c[Len(m.overrides)]
  BY Zenon DEF OnCourse
<1>2. PICK c : Course(m.overrides, Len(m.overrides), c) /\ s = c[Len(m.overrides)]
  BY <1>1, Zenon
<1>3. Stops(g, p, m.seed, r, c[Len(m.overrides)])
  BY <1>2, Zenon
<1> QED
  BY <1>1, <1>2, <1>3, Zenon DEF Ended

LEMMA CourseEnds ==
  ASSUME NEW g, NEW p, NEW m, NEW s, NEW d, NEW r, Planned(p),
         OnCourse(g, p, m, s, d), Len(m.overrides) >= Total(p),
         r.overrides = m.overrides, r.seed = m.seed,
         r.overlaySamples = m.overlaySamples,
         r.scenario = IF Readable(s) THEN s ELSE None
  PROVE  Ended(g, p, r)
<1>1. /\ Len(m.overrides) \in Nat /\ Len(m.overrides) <= Total(p)
      /\ m.overlaySamples = SamplesAfter(g, p, m.seed, Overlaid(p, Len(m.overrides)))
  BY OnCourseMeans, Zenon
<1>2. Total(p) \in Nat /\ Len(p.overrides) \in Nat /\ Len(p.overlays) \in Nat
  BY PlanTyped
<1>3. Len(m.overrides) = Total(p)
  BY <1>1, <1>2
<1>4. Overlaid(p, Total(p)) = Len(p.overlays)
  <2>1. ASSUME NEW a \in Nat, NEW b \in Nat
        PROVE  (IF a + b <= a THEN 0 ELSE (a + b) - a) = b
    OBVIOUS
  <2> QED
    BY <1>2, <2>1, Zenon DEF Overlaid, Total
<1>5. Stops(g, p, m.seed, r, s)
  BY <1>1, <1>3, <1>4, Zenon DEF Stops
<1> QED
  BY <1>5, CourseOver, Zenon

LEMMA OverrideHalts ==
  ASSUME NEW g, NEW p, NEW m, NEW s, NEW d, Planned(p), OnCourse(g, p, m, s, d),
         Len(m.overrides) < Len(p.overrides),
         ~Applicable(p.overrides[Len(m.overrides) + 1], s)
  PROVE  Ended(g, p, m)
<1>1. /\ Len(m.overrides) \in Nat /\ m.scenario = None
      /\ m.overlaySamples = SamplesAfter(g, p, m.seed, Overlaid(p, Len(m.overrides)))
  BY OnCourseMeans, Zenon
<1>2. Overlaid(p, Len(m.overrides)) = 0
  BY <1>1, OverlaidNext, Zenon
<1>3. Halts(g, p, m.seed, Len(m.overrides), s, 0)
  BY Zenon DEF Halts
<1>4. Stops(g, p, m.seed, m, s)
  BY <1>1, <1>2, <1>3, Zenon DEF Stops
<1> QED
  BY <1>4, CourseOver, Zenon

LEMMA OverlayEmpty ==
  ASSUME NEW g, NEW p, NEW m, NEW s, NEW d, Planned(p), OnCourse(g, p, m, s, d),
         Len(m.overrides) >= Len(p.overrides), Len(m.overrides) < Total(p),
         p.overlays[(Len(m.overrides) + 1) - Len(p.overrides)].choices = <<>>
  PROVE  Ended(g, p, m)
<1> DEFINE n == Len(m.overrides)
           j == Overlaid(p, n)
<1>1. /\ m.scenario = None
      /\ m.overlaySamples = SamplesAfter(g, p, m.seed, j)
  BY OnCourseMeans, Zenon
<1>2. j = n - Len(p.overrides) /\ (n + 1) - Len(p.overrides) = j + 1
  BY OverlayNext
<1>3. p.overlays[(n + 1) - Len(p.overrides)].choices = <<>>
  OBVIOUS
<1> HIDE DEF j
<1>4. Halts(g, p, m.seed, n, s, j)
  BY <1>2, <1>3, Zenon DEF Halts
<1>5. Stops(g, p, m.seed, m, s)
  BY <1>1, <1>4, Zenon DEF Stops
<1> QED
  BY <1>5, CourseOver, Zenon

OverlayHeld(m, r, o, x) ==
  /\ r.overrides = m.overrides /\ r.seed = m.seed /\ r.scenario = m.scenario
  /\ r.overlaySamples = Emplaced(m.overlaySamples, x.id, o.value)

LEMMA OverlayHalts ==
  ASSUME NEW g, NEW p, NEW m, NEW s, NEW d, NEW r, NEW x, NEW y, NEW o,
         Planned(p), OnCourse(g, p, m, s, d), DrawnFor(g, p, m, d, x, y, o),
         OverlayHeld(m, r, o, x),
         ~Applicable(o, s)
  PROVE  Ended(g, p, r)
<1> DEFINE n == Len(m.overrides)
           j == Overlaid(p, n)
           key == <<m.seed, <<p.id, x.id>>, Drawn(d, p, x.id)>>
<1>0. /\ n >= Len(p.overrides) /\ n < Total(p)
      /\ x = p.overlays[(n + 1) - Len(p.overrides)]
      /\ x.choices # <<>> /\ y \in Draws
      /\ key \in DOMAIN g /\ g[key] = y
      /\ o = AsOverride(x, y)
  BY Zenon DEF DrawnFor
<1>1. /\ m.scenario = None
      /\ m.overlaySamples = SamplesAfter(g, p, m.seed, j)
  BY OnCourseMeans, Zenon
<1>2. /\ j \in Nat /\ j = n - Len(p.overrides)
      /\ (n + 1) - Len(p.overrides) = j + 1
      /\ j + 1 \in DOMAIN p.overlays /\ j + 1 <= Len(p.overlays)
      /\ p.overlays[j + 1] \in Overlay
      /\ KeyOf(p, m.seed, j + 1)
           = <<m.seed, <<p.id, p.overlays[j + 1].id>>,
               Drawn(d, p, p.overlays[j + 1].id)>>
      /\ Expected(g, p, m.seed, n + 1)
           = AsOverride(p.overlays[j + 1], g[KeyOf(p, m.seed, j + 1)])
      /\ Len(p.overrides) + (j + 1) = n + 1
  <2>1. Len(m.overrides) >= Len(p.overrides) /\ Len(m.overrides) < Total(p)
    BY <1>0
  <2> HIDE DEF key
  <2> QED
    BY <2>1, OverlayNext
<1>3. x = p.overlays[j + 1]
  BY <1>0, <1>2, Zenon
<1>4. KeyOf(p, m.seed, j + 1) \in DOMAIN g /\ g[KeyOf(p, m.seed, j + 1)] = y
  BY <1>0, <1>2, <1>3, Zenon
<1>5. Expected(g, p, m.seed, n + 1) = o
  BY <1>0, <1>2, <1>3, <1>4, Zenon
<1> HIDE DEF j, n, key
<1>6. r.overlaySamples = SamplesAfter(g, p, m.seed, j + 1)
  <2>1. /\ Len(p.overlays) \in Nat /\ DOMAIN p.overlays = 1 .. Len(p.overlays)
        /\ j \in Nat /\ j + 1 <= Len(p.overlays)
    BY <1>2, PlanTyped
  <2>2. Emplaced(SamplesAfter(g, p, m.seed, j), p.overlays[j + 1].id,
                 Expected(g, p, m.seed, Len(p.overrides) + (j + 1)).value)
          = SamplesAfter(g, p, m.seed, j + 1)
    BY <2>1, SamplesLonger
  <2>3. p.overlays[j + 1].id = x.id
        /\ Expected(g, p, m.seed, Len(p.overrides) + (j + 1)).value = o.value
    BY <1>2, <1>3, <1>5, Zenon
  <2> QED
    BY <1>1, <2>2, <2>3, Zenon DEF OverlayHeld
<1>7. Halts(g, p, m.seed, n, s, j + 1)
  BY <1>0, <1>2, <1>3, <1>4, <1>5, Zenon DEF Halts
<1>8. Stops(g, p, m.seed, r, s)
  BY <1>1, <1>6, <1>7, Zenon DEF Stops, n, OverlayHeld
<1> QED
  BY <1>8, CourseOver, Zenon DEF OverlayHeld

\* What a run comes down to; the rest of its manifest is of no account.
LEMMA EndedAlike ==
  ASSUME NEW g, NEW p, NEW m, NEW r, Ended(g, p, m), r.overrides = m.overrides,
         r.seed = m.seed, r.overlaySamples = m.overlaySamples, r.scenario = m.scenario
  PROVE  Ended(g, p, r)
BY Zenon DEF Ended, Stops

LEMMA EmplacedGrows ==
  ASSUME NEW g, NEW k, NEW y, k \in DOMAIN g => y = g[k]
  PROVE  LET h == Emplaced(g, k, y)
         IN  Grows(g, h) /\ k \in DOMAIN h /\ h[k] = y
BY DEF Emplaced, With, Grows

LEMMA GrowsNot == ASSUME NEW g PROVE Grows(g, g)
BY DEF Grows

(***************************************************************************)
(* The invariant: runs have ended, and the run at hand is on its way.      *)
(***************************************************************************)
RunsEnded ==
  \A i \in DOMAIN runs :
    \E v \in 1 .. Len(Variants) :
      runs[i].variant = v /\ Ended(generator, Plan(v), runs[i])

InCourse ==
  Materializing =>
    /\ next = Len(manifest.overrides) + 1
    /\ \A v : v = variant => OnCourse(generator, Plan(v), manifest, scenario, drawn)

Measured ==
  Measuring => \A v : v = variant => Ended(generator, Plan(v), manifest)

Repeatable == RunsEnded /\ InCourse /\ Measured

LEMMA RunsStay ==
  ASSUME ExperimentInv, RunsEnded, UNCHANGED <<definition, runs>>,
         Grows(generator, generator')
  PROVE  RunsEnded'
<1>1. Variants' = Variants /\ definition \in Definition
  BY PlansKept DEF ExperimentInv, Typed
<1>2. \A v : Plan(v)' = Plan(v)
  BY PlanStays
<1>3. ASSUME NEW i \in DOMAIN runs'
      PROVE  \E v \in 1 .. Len(Variants) :
               runs'[i].variant = v /\ Ended(generator', Plan(v), runs'[i])
  <2>1. runs' = runs
    OBVIOUS
  <2>2. PICK v \in 1 .. Len(Variants) :
               runs[i].variant = v /\ Ended(generator, Plan(v), runs[i])
    BY <2>1, Zenon DEF RunsEnded
  <2>3. Planned(Plan(v))
    BY <1>1, PlanOf
  <2>4. Ended(generator', Plan(v), runs[i])
    BY <2>2, <2>3, EndedStays, Zenon
  <2> QED
    BY <2>1, <2>2, <2>4, Zenon
<1> QED
  BY <1>1, <1>2, <1>3, Zenon DEF RunsEnded

LEMMA RunsMore ==
  ASSUME ExperimentInv, RunsEnded, UNCHANGED definition,
         Grows(generator, generator'),
         NEW r, runs' = Append(runs, r), NEW v, v \in 1 .. Len(Variants),
         r.variant = v, Ended(generator', Plan(v), r)
  PROVE  RunsEnded'
<1>1. Variants' = Variants /\ definition \in Definition
  BY PlansKept DEF ExperimentInv, Typed
<1>2. \A w : Plan(w)' = Plan(w)
  BY PlanStays
<1>3. /\ DOMAIN runs' = DOMAIN runs \cup {Len(runs) + 1}
      /\ runs'[Len(runs) + 1] = r
      /\ \A i \in DOMAIN runs : runs'[i] = runs[i]
  BY Appended DEF ExperimentInv, Typed
<1>4. ASSUME NEW i \in DOMAIN runs'
      PROVE  \E w \in 1 .. Len(Variants) :
               runs'[i].variant = w /\ Ended(generator', Plan(w), runs'[i])
  <2>1. CASE i = Len(runs) + 1
    <3>1. runs'[i] = r
      BY <1>3, <2>1, Zenon
    <3> QED
      BY <3>1, Zenon
  <2>2. CASE i \in DOMAIN runs
    <3>1. runs'[i] = runs[i]
      BY <1>3, <2>2, Zenon
    <3>2. PICK w \in 1 .. Len(Variants) :
                 runs[i].variant = w /\ Ended(generator, Plan(w), runs[i])
      BY <2>2, Zenon DEF RunsEnded
    <3>3. Planned(Plan(w))
      BY <1>1, PlanOf
    <3>4. Ended(generator', Plan(w), runs[i])
      BY <3>2, <3>3, EndedStays, Zenon
    <3> QED
      BY <3>1, <3>2, <3>4, Zenon
  <2> QED
    BY <1>3, <2>1, <2>2, Zenon
<1> QED
  BY <1>1, <1>2, <1>4, Zenon DEF RunsEnded

\* The catch block reports a run that has come to its end.
LEMMA CaughtEnds ==
  ASSUME ExperimentInv, RunsEnded, Mid, UNCHANGED definition,
         Grows(generator, generator'),
         NEW m, DOMAIN m = ManifestFields, m.variant = variant, Caught(m),
         Ended(generator', Plan(variant), m)
  PROVE  Repeatable'
<1> DEFINE r == [m EXCEPT !.success = FALSE, !.exception = TRUE]
<1>1. runs' = Append(runs, r)
  BY DEF Caught
<1>2. /\ r.variant = m.variant /\ r.overrides = m.overrides /\ r.seed = m.seed
      /\ r.overlaySamples = m.overlaySamples /\ r.scenario = m.scenario
  BY DEF ManifestFields
<1> HIDE DEF r
<1>3. Ended(generator', Plan(variant), r)
  BY <1>2, EndedAlike, Zenon
<1>4. variant \in 1 .. Len(Variants) /\ r.variant = variant
  BY <1>2 DEF ExperimentInv, Typed, Positions
<1>5. RunsEnded'
  BY <1>1, <1>3, <1>4, RunsMore
<1>6. ~Materializing' /\ ~Measuring'
  <2>1. status' = "thrown" \/ phase' \in {"begin", "report"}
    BY DEF Caught, NextRun
  <2> QED
    BY <2>1 DEF Materializing, Measuring
<1> QED
  BY <1>5, <1>6, Zenon DEF Repeatable, InCourse, Measured

LEMMA RepeatableInit == Init => Repeatable
<1> SUFFICES ASSUME Init PROVE Repeatable
  OBVIOUS
<1>1. runs = <<>> /\ phase = "begin"
  BY DEF Init
<1>2. DOMAIN runs = {}
  BY <1>1
<1> QED
  BY <1>1, <1>2 DEF Repeatable, RunsEnded, InCourse, Measured, Materializing, Measuring

LEMMA BeginRunRepeats == ExperimentInv /\ Repeatable /\ BeginRun => Repeatable'
<1> SUFFICES ASSUME ExperimentInv, Repeatable, BeginRun PROVE Repeatable'
  OBVIOUS
<1>1. /\ phase' = "materialize" /\ next' = 1 /\ scenario' = Base /\ drawn' = <<>>
      /\ manifest' = NewManifest
      /\ UNCHANGED <<definition, variant, seed, generator, runs, status>>
  BY DEF BeginRun
<1>2. RunsEnded'
  <2>1. Grows(generator, generator')
    BY <1>1, GrowsNot, Zenon
  <2> QED
    BY <1>1, <2>1, RunsStay DEF Repeatable
<1>3. /\ NewManifest.overrides = <<>> /\ NewManifest.overlaySamples = <<>>
      /\ NewManifest.scenario = None
  BY DEF NewManifest
<1>4. ASSUME NEW v, v = variant
      PROVE  OnCourse(generator, Plan(v), NewManifest, Base, <<>>)
  <2>1. Planned(Plan(v))
    BY <1>4, PlanOf DEF ExperimentInv, Typed, Positions
  <2> QED
    BY <1>3, <2>1, CourseStarts
<1>5. InCourse'
  <2>1. \A v : Plan(v)' = Plan(v)
    BY <1>1, PlanStays
  <2>2. ASSUME NEW v, v = variant'
        PROVE  OnCourse(generator', Plan(v), manifest', scenario', drawn')
    BY <1>1, <1>4, <2>2, Zenon
  <2>3. next' = Len(manifest'.overrides) + 1
    BY <1>1, <1>3
  <2> QED
    BY <2>1, <2>2, <2>3, Zenon DEF InCourse
<1>6. ~Measuring'
  BY <1>1 DEF Measuring
<1> QED
  BY <1>2, <1>5, <1>6, Zenon DEF Repeatable, Measured

\* The run at hand, while it is on its way.
LEMMA AtWork ==
  ASSUME ExperimentInv, Repeatable, Materializing
  PROVE  /\ Mid /\ variant \in 1 .. Len(Variants) /\ definition \in Definition
         /\ DOMAIN manifest = ManifestFields
         /\ manifest.variant = variant /\ manifest.seed = SeedPlan[seed]
         /\ Planned(Plan(variant))
         /\ Plan(variant).id = Variants[variant].id
         /\ Plan(variant).overrides = OverridesOf(variant)
         /\ Plan(variant).overlays = OverlaysOf(variant)
         /\ OnCourse(generator, Plan(variant), manifest, scenario, drawn)
         /\ next = Len(manifest.overrides) + 1 /\ Len(manifest.overrides) \in Nat
<1>1. /\ Mid /\ variant \in 1 .. Len(Variants) /\ definition \in Definition
      /\ DOMAIN manifest = ManifestFields
  BY DEF Materializing, Mid, ExperimentInv, Typed, Positions
<1>2. manifest.variant = variant /\ manifest.seed = SeedPlan[seed]
  BY <1>1 DEF ExperimentInv, AtHand
<1>3. /\ Planned(Plan(variant))
      /\ Plan(variant).id = Variants[variant].id
      /\ Plan(variant).overrides = OverridesOf(variant)
      /\ Plan(variant).overlays = OverlaysOf(variant)
  BY <1>1, PlanOf
<1>4. /\ OnCourse(generator, Plan(variant), manifest, scenario, drawn)
      /\ next = Len(manifest.overrides) + 1
  BY Zenon DEF Repeatable, InCourse
<1>5. Len(manifest.overrides) \in Nat
  BY <1>3, <1>4, OnCourseMeans
<1> QED
  BY <1>1, <1>2, <1>3, <1>4, <1>5, Zenon

LEMMA GoesOn ==
  ASSUME ExperimentInv, Repeatable, Materializing, Grows(generator, generator'),
         UNCHANGED <<definition, variant, seed, phase, runs, status>>,
         next' = Len(manifest'.overrides) + 1,
         OnCourse(generator', Plan(variant), manifest', scenario', drawn')
  PROVE  Repeatable'
<1>1. RunsEnded'
  BY RunsStay DEF Repeatable
<1>2. \A v : Plan(v)' = Plan(v)
  BY PlanStays
<1>3. ASSUME NEW v, v = variant'
      PROVE  OnCourse(generator', Plan(v), manifest', scenario', drawn')
  BY <1>3, Zenon
<1>4. InCourse'
  BY <1>2, <1>3, Zenon DEF InCourse
<1>5. ~Measuring'
  BY DEF Materializing, Measuring
<1> QED
  BY <1>1, <1>4, <1>5, Zenon DEF Repeatable, Measured

LEMMA ApplyOverrideRepeats == ExperimentInv /\ Repeatable /\ ApplyOverride => Repeatable'
<1> SUFFICES ASSUME ExperimentInv, Repeatable, ApplyOverride PROVE Repeatable'
  OBVIOUS
<1> DEFINE p == Plan(variant)
           n == Len(manifest.overrides)
           o == OverridesOf(variant)[next]
<1>1. /\ Materializing /\ next \in DOMAIN OverridesOf(variant)
      /\ UNCHANGED <<definition, drawn, generator>>
  BY DEF ApplyOverride
<1>2. /\ Mid /\ DOMAIN manifest = ManifestFields /\ manifest.variant = variant
      /\ Planned(p) /\ p.overrides = OverridesOf(variant)
      /\ OnCourse(generator, p, manifest, scenario, drawn)
      /\ next = n + 1 /\ n \in Nat
  BY <1>1, AtWork, Zenon
<1>3. Grows(generator, generator')
  BY <1>1, GrowsNot, Zenon
<1>4. n < Len(p.overrides) /\ o = p.overrides[n + 1]
  <2>1. DOMAIN p.overrides = 1 .. Len(p.overrides) /\ Len(p.overrides) \in Nat
    BY <1>2, PlanTyped
  <2>2. n + 1 \in 1 .. Len(p.overrides)
    BY <1>1, <1>2, <2>1, Zenon
  <2> HIDE DEF p, n
  <2>3. n < Len(p.overrides)
    BY <1>2, <2>1, <2>2
  <2> QED
    BY <1>2, <2>3, Zenon DEF o
<1>5. CASE /\ Applicable(o, scenario)
           /\ scenario' = Applied(o, scenario)
           /\ manifest' = [manifest EXCEPT !.overrides = Append(@, o)]
           /\ next' = next + 1
           /\ UNCHANGED <<variant, seed, phase, runs, status>>
  <2>1. /\ manifest'.overrides = Append(manifest.overrides, o)
        /\ manifest'.seed = manifest.seed
        /\ manifest'.overlaySamples = manifest.overlaySamples
        /\ manifest'.scenario = manifest.scenario
    BY <1>2, <1>5 DEF ManifestFields
  <2>2. /\ OnCourse(generator, p, manifest', Applied(o, scenario), drawn)
        /\ Len(manifest'.overrides) = n + 1
    <3>1. /\ Applicable(o, scenario) /\ OverrideDue(p, manifest, o)
          /\ OverrideTaken(manifest, manifest', o)
      BY <1>4, <1>5, <2>1, Zenon DEF OverrideDue, OverrideTaken
    <3> HIDE DEF p, o
    <3>2. ASSUME NEW r, OverrideTaken(manifest, r, o)
          PROVE  /\ OnCourse(generator, p, r, Applied(o, scenario), drawn)
                 /\ Len(r.overrides) = Len(manifest.overrides) + 1
      <4>1. /\ Planned(p) /\ OnCourse(generator, p, manifest, scenario, drawn)
            /\ OverrideDue(p, manifest, o) /\ Applicable(o, scenario)
        BY <1>2, <3>1, Zenon
      <4> QED
        BY <3>2, <4>1, OverrideGoesOn
    <3> QED
      BY <3>1, <3>2, Zenon
  <2>3. next' = Len(manifest'.overrides) + 1
    BY <1>2, <1>5, <2>2
  <2>4. OnCourse(generator', p, manifest', scenario', drawn')
    BY <1>1, <1>5, <2>2, Zenon
  <2> QED
    BY <1>1, <1>3, <1>5, <2>3, <2>4, GoesOn
<1>6. CASE ~Applicable(o, scenario) /\ Caught(manifest)
  <2>1. Ended(generator, p, manifest)
    <3> HIDE DEF p
    <3> QED
      BY <1>2, <1>4, <1>6, OverrideHalts
  <2>2. Ended(generator', Plan(variant), manifest)
    BY <1>1, <2>1, Zenon
  <2> QED
    BY <1>1, <1>2, <1>3, <1>6, <2>2, CaughtEnds, Zenon DEF Repeatable
<1> QED
  BY <1>5, <1>6 DEF ApplyOverride

LEMMA ApplyOverlayRepeats == ExperimentInv /\ Repeatable /\ ApplyOverlay => Repeatable'
<1> SUFFICES ASSUME ExperimentInv, Repeatable, ApplyOverlay PROVE Repeatable'
  OBVIOUS
<1> DEFINE p == Plan(variant)
           n == Len(manifest.overrides)
           x == OverlaysOf(variant)[next - Len(OverridesOf(variant))]
           key == <<manifest.seed, <<p.id, x.id>>, Drawn(drawn, p, x.id)>>
<1>1. PICK y \in Yields(x) :
        /\ drawn' = With(drawn, Stream(x), CountOf(x) + 1)
        /\ generator' = Emplaced(generator, DrawnKey(x), y)
        /\ IF x.choices = <<>>
           THEN Caught(manifest) /\ UNCHANGED <<next, scenario>>
           ELSE LET o == AsOverride(x, y)
                    m == [manifest EXCEPT
                            !.overlaySamples = Emplaced(@, x.id, o.value)]
                IN  \/ /\ Applicable(o, scenario)
                       /\ scenario' = Applied(o, scenario)
                       /\ manifest' = [m EXCEPT !.overrides = Append(@, o)]
                       /\ next' = next + 1
                       /\ UNCHANGED <<variant, seed, phase, runs, status>>
                    \/ /\ ~Applicable(o, scenario)
                       /\ Caught(m)
                       /\ UNCHANGED <<next, scenario>>
  BY DEF ApplyOverlay
<1>2. /\ Materializing
      /\ next - Len(OverridesOf(variant)) \in DOMAIN OverlaysOf(variant)
      /\ UNCHANGED definition
  BY DEF ApplyOverlay
<1>3. /\ Mid /\ DOMAIN manifest = ManifestFields /\ manifest.variant = variant
      /\ manifest.seed = SeedPlan[seed]
      /\ Planned(p) /\ p.id = Variants[variant].id
      /\ p.overrides = OverridesOf(variant) /\ p.overlays = OverlaysOf(variant)
      /\ OnCourse(generator, p, manifest, scenario, drawn)
      /\ next = n + 1 /\ n \in Nat
  BY <1>2, AtWork, Zenon
<1>4. /\ n >= Len(p.overrides) /\ n < Total(p)
      /\ x = p.overlays[(n + 1) - Len(p.overrides)]
  <2>1. /\ DOMAIN p.overlays = 1 .. Len(p.overlays)
        /\ Len(p.overrides) \in Nat /\ Len(p.overlays) \in Nat
    BY <1>3, PlanTyped
  <2>2. (n + 1) - Len(p.overrides) \in 1 .. Len(p.overlays)
    BY <1>2, <1>3, <2>1, Zenon
  <2>3. n >= Len(p.overrides) /\ n < Len(p.overrides) + Len(p.overlays)
    <3>1. ASSUME NEW z \in Nat, NEW a \in Nat, NEW b \in Nat, (z + 1) - a \in 1 .. b
          PROVE  z >= a /\ z < a + b
      BY <3>1
    <3> QED
      BY <1>3, <2>1, <2>2, <3>1, Zenon
  <2> QED
    BY <1>3, <2>3, Zenon DEF Total
<1>5. Stream(x) = <<p.id, x.id>> /\ CountOf(x) = Drawn(drawn, p, x.id) /\ DrawnKey(x) = key
  BY <1>3, Zenon DEF Stream, CountOf, Drawn, DrawnKey
<1>6. y \in Draws /\ (key \in DOMAIN generator => y = generator[key])
  BY <1>1, <1>5 DEF Yields, ExperimentInv, Typed, GeneratorOK
<1> HIDE DEF p, n, x, key
<1>7. Grows(generator, generator') /\ key \in DOMAIN generator' /\ generator'[key] = y
  <2>1. generator' = Emplaced(generator, key, y)
    BY <1>1, <1>5, Zenon
  <2>2. /\ Grows(generator, Emplaced(generator, key, y))
        /\ key \in DOMAIN Emplaced(generator, key, y)
        /\ Emplaced(generator, key, y)[key] = y
    BY <1>6, EmplacedGrows
  <2> QED
    BY <2>1, <2>2, Zenon
<1>8. OnCourse(generator', p, manifest, scenario, drawn)
  BY <1>3, <1>7, OnCourseStays, Zenon
<1>9. CASE x.choices = <<>>
  <2>1. Caught(manifest)
    BY <1>1, <1>9
  <2>2. Ended(generator', Plan(variant), manifest)
    BY <1>3, <1>4, <1>8, <1>9, OverlayEmpty, Zenon DEF n, p
  <2> QED
    BY <1>2, <1>3, <1>7, <2>1, <2>2, CaughtEnds, Zenon DEF Repeatable
<1>10. CASE x.choices # <<>>
  <2> DEFINE o == AsOverride(x, y)
             m == [manifest EXCEPT !.overlaySamples = Emplaced(@, x.id, o.value)]
  <2>1. \/ /\ Applicable(o, scenario)
           /\ scenario' = Applied(o, scenario)
           /\ manifest' = [m EXCEPT !.overrides = Append(@, o)]
           /\ next' = next + 1
           /\ UNCHANGED <<variant, seed, phase, runs, status>>
        \/ ~Applicable(o, scenario) /\ Caught(m)
    BY <1>1, <1>10
  <2>2. DrawnFor(generator', p, manifest, drawn, x, y, o)
    BY <1>4, <1>6, <1>7, <1>10, Zenon DEF DrawnFor, key, n
  <2> HIDE DEF o
  <2>3. /\ DOMAIN m = ManifestFields /\ m.variant = variant
        /\ OverlayHeld(manifest, m, o, x)
    BY <1>3 DEF ManifestFields, OverlayHeld
  <2>4. CASE /\ Applicable(o, scenario)
             /\ scenario' = Applied(o, scenario)
             /\ manifest' = [m EXCEPT !.overrides = Append(@, o)]
             /\ next' = next + 1
             /\ UNCHANGED <<variant, seed, phase, runs, status>>
    <3>1. OverlayTaken(manifest, manifest', o, x)
      BY <1>3, <2>4 DEF ManifestFields, OverlayTaken
    <3> HIDE DEF m
    <3>2. Counted(p, drawn, drawn', x)
      BY <1>1, <1>5, Zenon DEF Counted
    <3>3. /\ OnCourse(generator', p, manifest', Applied(o, scenario), drawn')
          /\ Len(manifest'.overrides) = Len(manifest.overrides) + 1
      <4>1. ASSUME NEW r, NEW e, OverlayTaken(manifest, r, o, x), Counted(p, drawn, e, x)
            PROVE  /\ OnCourse(generator', p, r, Applied(o, scenario), e)
                   /\ Len(r.overrides) = Len(manifest.overrides) + 1
        <5>1. Planned(p) /\ Applicable(o, scenario)
          BY <1>3, <2>4, Zenon
        <5> QED
          BY <1>8, <2>2, <4>1, <5>1, OverlayGoesOn
      <4> QED
        BY <3>1, <3>2, <4>1, Zenon
    <3>4. next' = Len(manifest'.overrides) + 1
      BY <1>3, <2>4, <3>3 DEF n
    <3>5. OnCourse(generator', Plan(variant), manifest', scenario', drawn')
      BY <2>4, <3>3, Zenon DEF p
    <3> QED
      BY <1>2, <1>7, <2>4, <3>4, <3>5, GoesOn
  <2> HIDE DEF m
  <2>5. CASE ~Applicable(o, scenario) /\ Caught(m)
    <3>1. Ended(generator', Plan(variant), m)
      BY <1>3, <1>8, <2>2, <2>3, <2>5, OverlayHalts, Zenon DEF p, OverlayHeld
    <3> QED
      BY <1>2, <1>3, <1>7, <2>3, <2>5, <3>1, CaughtEnds, Zenon DEF Repeatable
  <2> QED
    BY <2>1, <2>4, <2>5
<1> QED
  BY <1>9, <1>10

LEMMA ExecuteRepeats == ExperimentInv /\ Repeatable /\ Execute => Repeatable'
<1> SUFFICES ASSUME ExperimentInv, Repeatable, Execute PROVE Repeatable'
  OBVIOUS
<1> DEFINE p == Plan(variant)
<1>1. /\ Materializing /\ next > Len(OverridesOf(variant)) + Len(OverlaysOf(variant))
      /\ UNCHANGED <<definition, generator>>
  BY DEF Execute, Materialized
<1>2. /\ Mid /\ DOMAIN manifest = ManifestFields /\ manifest.variant = variant
      /\ Planned(p) /\ definition \in Definition
      /\ p.overrides = OverridesOf(variant) /\ p.overlays = OverlaysOf(variant)
      /\ OnCourse(generator, p, manifest, scenario, drawn)
      /\ next = Len(manifest.overrides) + 1 /\ Len(manifest.overrides) \in Nat
  BY <1>1, AtWork, Zenon
<1>3. Grows(generator, generator')
  BY <1>1, GrowsNot, Zenon
<1> HIDE DEF p
<1>4. Len(manifest.overrides) >= Total(p)
  <2>1. Len(p.overrides) \in Nat /\ Len(p.overlays) \in Nat
    BY <1>2, PlanTyped
  <2>2. ASSUME NEW n \in Nat, NEW t \in Nat, n + 1 > t PROVE n >= t
    BY <2>2
  <2>3. Total(p) \in Nat /\ Len(manifest.overrides) + 1 > Total(p)
    <3>1. Total(p) \in Nat
      BY <1>2, PlanTyped
    <3> QED
      BY <1>1, <1>2, <3>1, Zenon DEF Total
  <2> QED
    BY <1>2, <2>2, <2>3, Zenon
<1>5. ASSUME NEW r, r.overrides = manifest.overrides, r.seed = manifest.seed,
             r.overlaySamples = manifest.overlaySamples,
             r.scenario = IF Readable(scenario) THEN scenario ELSE None
      PROVE  Ended(generator, p, r)
  BY <1>2, <1>4, <1>5, CourseEnds
<1>6. ASSUME NEW r, DOMAIN r = ManifestFields, r.variant = variant, Caught(r),
             Ended(generator, p, r)
      PROVE  Repeatable'
  <2>1. Ended(generator', Plan(variant), r)
    BY <1>1, <1>6, Zenon DEF p
  <2> QED
    BY <1>1, <1>2, <1>3, <1>6, <2>1, CaughtEnds, Zenon DEF Repeatable
<1>7. CASE ~Readable(scenario) /\ Caught(manifest)
  <2>1. manifest.scenario = IF Readable(scenario) THEN scenario ELSE None
    BY <1>2, <1>7, OnCourseMeans
  <2>2. Ended(generator, p, manifest)
    BY <1>5, <2>1
  <2> QED
    BY <1>2, <1>6, <1>7, <2>2
<1>8. CASE Readable(scenario) /\ Caught([manifest EXCEPT !.scenario = scenario])
  <2> DEFINE m == [manifest EXCEPT !.scenario = scenario]
  <2>1. /\ DOMAIN m = ManifestFields /\ m.variant = variant
        /\ m.overrides = manifest.overrides /\ m.seed = manifest.seed
        /\ m.overlaySamples = manifest.overlaySamples /\ m.scenario = scenario
    BY <1>2 DEF ManifestFields
  <2>2. Caught(m)
    BY <1>8
  <2> HIDE DEF m
  <2>3. Ended(generator, p, m)
    BY <1>5, <1>8, <2>1
  <2> QED
    BY <1>6, <2>1, <2>2, <2>3
<1>9. CASE /\ Readable(scenario)
           /\ \E ok \in BOOLEAN :
                manifest' = [manifest EXCEPT !.scenario = scenario, !.success = ok]
           /\ phase' = "metrics" /\ UNCHANGED <<variant, runs>>
  <2>1. /\ manifest'.overrides = manifest.overrides /\ manifest'.seed = manifest.seed
        /\ manifest'.overlaySamples = manifest.overlaySamples
        /\ manifest'.scenario = scenario
    BY <1>2, <1>9 DEF ManifestFields
  <2>2. Ended(generator, p, manifest')
    BY <1>5, <1>9, <2>1
  <2>3. \A v : Plan(v)' = Plan(v)
    BY <1>1, PlanStays
  <2>4. \A v : v = variant' => Ended(generator', Plan(v), manifest')
    BY <1>1, <1>9, <2>2, Zenon DEF p
  <2>5. Measured'
    BY <2>3, <2>4, Zenon DEF Measured
  <2>6. ~Materializing'
    BY <1>9 DEF Materializing
  <2>7. RunsEnded'
    BY <1>1, <1>3, <1>9, RunsStay DEF Repeatable
  <2> QED
    BY <2>5, <2>6, <2>7, Zenon DEF Repeatable, InCourse
<1> QED
  BY <1>7, <1>8, <1>9 DEF Execute

LEMMA AtMetrics ==
  ASSUME ExperimentInv, Repeatable, Measuring
  PROVE  /\ Mid /\ variant \in 1 .. Len(Variants)
         /\ DOMAIN manifest = ManifestFields /\ manifest.variant = variant
         /\ Ended(generator, Plan(variant), manifest)
<1>1. /\ Mid /\ variant \in 1 .. Len(Variants) /\ DOMAIN manifest = ManifestFields
  BY DEF Measuring, Mid, ExperimentInv, Typed, Positions
<1>2. manifest.variant = variant
  BY <1>1 DEF ExperimentInv, AtHand
<1>3. Ended(generator, Plan(variant), manifest)
  BY Zenon DEF Repeatable, Measured
<1> QED
  BY <1>1, <1>2, <1>3, Zenon

LEMMA ReadMetricRepeats == ExperimentInv /\ Repeatable /\ ReadMetric => Repeatable'
<1> SUFFICES ASSUME ExperimentInv, Repeatable, ReadMetric PROVE Repeatable'
  OBVIOUS
<1>1. Measuring /\ UNCHANGED <<definition, generator>>
  BY DEF ReadMetric
<1>2. /\ Mid /\ variant \in 1 .. Len(Variants)
      /\ DOMAIN manifest = ManifestFields /\ manifest.variant = variant
      /\ Ended(generator, Plan(variant), manifest)
  BY <1>1, AtMetrics, Zenon
<1>3. Grows(generator, generator')
  BY <1>1, GrowsNot, Zenon
<1>4. CASE Caught(manifest)
  <2>1. Ended(generator', Plan(variant), manifest)
    BY <1>1, <1>2, Zenon
  <2> QED
    BY <1>1, <1>2, <1>3, <1>4, <2>1, CaughtEnds, Zenon DEF Repeatable
<1>5. CASE /\ UNCHANGED <<variant, seed, phase, runs, status>>
           /\ \/ UNCHANGED manifest
              \/ \E f : manifest' = [manifest EXCEPT !.metrics = f]
  <2>1. /\ manifest'.overrides = manifest.overrides /\ manifest'.seed = manifest.seed
        /\ manifest'.overlaySamples = manifest.overlaySamples
        /\ manifest'.scenario = manifest.scenario
    BY <1>2, <1>5 DEF ManifestFields
  <2>2. Ended(generator, Plan(variant), manifest')
    <3>1. ASSUME NEW p, NEW r, Ended(generator, p, manifest),
                 r.overrides = manifest.overrides, r.seed = manifest.seed,
                 r.overlaySamples = manifest.overlaySamples,
                 r.scenario = manifest.scenario
          PROVE  Ended(generator, p, r)
      BY <3>1, EndedAlike
    <3> QED
      BY <1>2, <2>1, <3>1, Zenon
  <2>3. \A v : Plan(v)' = Plan(v)
    BY <1>1, PlanStays
  <2>4. \A v : v = variant' => Ended(generator', Plan(v), manifest')
    BY <1>1, <1>5, <2>2, Zenon
  <2>5. Measured'
    BY <2>3, <2>4, Zenon DEF Measured
  <2>6. ~Materializing'
    BY <1>1, <1>5 DEF Materializing, Measuring
  <2>7. RunsEnded'
    BY <1>1, <1>3, <1>5, RunsStay DEF Repeatable
  <2> QED
    BY <2>5, <2>6, <2>7, Zenon DEF Repeatable, InCourse
<1>6. PICK at, reading :
        \/ Caught(manifest)
        \/ UNCHANGED <<variant, seed, phase, manifest, runs, status>>
        \/ /\ manifest' = [manifest EXCEPT !.metrics = With(@, at, reading)]
           /\ UNCHANGED <<variant, seed, phase, runs, status>>
  BY Zenon DEF ReadMetric
<1> QED
  BY <1>4, <1>5, <1>6

LEMMA EndRunRepeats == ExperimentInv /\ Repeatable /\ EndRun => Repeatable'
<1> SUFFICES ASSUME ExperimentInv, Repeatable, EndRun PROVE Repeatable'
  OBVIOUS
<1>1. Measuring /\ UNCHANGED <<definition, generator>>
  BY DEF EndRun
<1>2. /\ Mid /\ variant \in 1 .. Len(Variants)
      /\ DOMAIN manifest = ManifestFields /\ manifest.variant = variant
      /\ Ended(generator, Plan(variant), manifest)
  BY <1>1, AtMetrics, Zenon
<1>3. Grows(generator, generator')
  BY <1>1, GrowsNot, Zenon
<1>4. Ended(generator', Plan(variant), manifest)
  BY <1>1, <1>2, Zenon
<1>5. CASE Caught(manifest)
  BY <1>1, <1>2, <1>3, <1>4, <1>5, CaughtEnds, Zenon DEF Repeatable
<1>6. CASE runs' = Append(runs, manifest) /\ NextRun
  <2>1. RunsEnded'
    BY <1>1, <1>2, <1>3, <1>4, <1>6, RunsMore DEF Repeatable
  <2>2. ~Materializing' /\ ~Measuring'
    BY <1>6 DEF NextRun, Materializing, Measuring
  <2> QED
    BY <2>1, <2>2, Zenon DEF Repeatable, InCourse, Measured
<1> QED
  BY <1>5, <1>6 DEF EndRun

LEMMA ReportRepeats == ExperimentInv /\ Repeatable /\ Report => Repeatable'
<1> SUFFICES ASSUME ExperimentInv, Repeatable, Report PROVE Repeatable'
  OBVIOUS
<1>1. phase = "report" /\ UNCHANGED <<definition, generator, runs, phase>>
  BY DEF Report
<1>2. Grows(generator, generator')
  BY <1>1, GrowsNot, Zenon
<1>3. RunsEnded'
  BY <1>1, <1>2, RunsStay DEF Repeatable
<1>4. ~Materializing' /\ ~Measuring'
  BY <1>1 DEF Materializing, Measuring
<1> QED
  BY <1>3, <1>4, Zenon DEF Repeatable, InCourse, Measured

LEMMA RepeatableKept == Repeatable /\ UNCHANGED vars => Repeatable'
<1> SUFFICES ASSUME Repeatable, UNCHANGED vars PROVE Repeatable'
  OBVIOUS
<1>1. Variants' = Variants /\ \A v : Plan(v)' = Plan(v)
  BY PlansKept, PlanStays DEF vars
<1>2. RunsEnded'
  BY <1>1 DEF Repeatable, RunsEnded, vars
<1>3. Materializing' = Materializing /\ Measuring' = Measuring
  BY DEF Materializing, Measuring, vars
<1>4. InCourse' /\ Measured'
  BY <1>1, <1>3 DEF Repeatable, InCourse, Measured, vars
<1> QED
  BY <1>2, <1>4, Zenon DEF Repeatable

LEMMA RepeatableRuns == ExperimentInv /\ Repeatable => Reproducible
<1> SUFFICES ASSUME ExperimentInv, Repeatable PROVE Reproducible
  OBVIOUS
<1>1. ASSUME NEW i \in DOMAIN runs
      PROVE  \E v \in 1 .. Len(Variants) :
               /\ runs[i].variant = v /\ Planned(Plan(v))
               /\ Plan(v).overrides = OverridesOf(v) /\ Plan(v).overlays = OverlaysOf(v)
               /\ Ended(generator, Plan(v), runs[i])
  <2>1. PICK v \in 1 .. Len(Variants) :
               runs[i].variant = v /\ Ended(generator, Plan(v), runs[i])
    BY Zenon DEF Repeatable, RunsEnded
  <2>2. /\ Planned(Plan(v))
        /\ Plan(v).overrides = OverridesOf(v) /\ Plan(v).overlays = OverlaysOf(v)
    BY PlanOf DEF ExperimentInv, Typed
  <2> QED
    BY <2>1, <2>2, Zenon
<1>2. ASSUME NEW i \in DOMAIN runs, runs[i].scenario # None
      PROVE  /\ runs[i].scenario = Replayed(runs[i].overrides)
             /\ Len(runs[i].overrides)
                  = Len(OverridesOf(runs[i].variant)) + Len(OverlaysOf(runs[i].variant))
             /\ SubSeq(runs[i].overrides, 1, Len(OverridesOf(runs[i].variant)))
                  = OverridesOf(runs[i].variant)
  <2>1. PICK v \in 1 .. Len(Variants) :
               /\ runs[i].variant = v /\ Planned(Plan(v))
               /\ Plan(v).overrides = OverridesOf(v) /\ Plan(v).overlays = OverlaysOf(v)
               /\ Ended(generator, Plan(v), runs[i])
    BY <1>1, Zenon
  <2>2. /\ runs[i].scenario = Replayed(runs[i].overrides)
        /\ Len(runs[i].overrides) = Len(Plan(v).overrides) + Len(Plan(v).overlays)
        /\ SubSeq(runs[i].overrides, 1, Len(Plan(v).overrides)) = Plan(v).overrides
    BY <1>2, <2>1, ReplaysFrom, Zenon
  <2> QED
    BY <2>1, <2>2, Zenon
<1>3. ASSUME NEW i \in DOMAIN runs, NEW j \in DOMAIN runs,
             runs[i].variant = runs[j].variant, runs[i].seed = runs[j].seed
      PROVE  /\ runs[i].overrides = runs[j].overrides
             /\ runs[i].overlaySamples = runs[j].overlaySamples
             /\ runs[i].scenario = runs[j].scenario
  <2>1. PICK v \in 1 .. Len(Variants) :
               /\ runs[i].variant = v /\ Planned(Plan(v))
               /\ Ended(generator, Plan(v), runs[i])
    BY <1>1, Zenon
  <2>2. PICK w \in 1 .. Len(Variants) :
               runs[j].variant = w /\ Ended(generator, Plan(w), runs[j])
    BY <1>1, Zenon
  <2>3. Ended(generator, Plan(v), runs[j])
    BY <1>3, <2>1, <2>2, Zenon
  <2> QED
    BY <1>3, <2>1, <2>3, SameRuns
<1>4. ReplaysFromManifest
  BY <1>2, Zenon DEF ReplaysFromManifest
<1>5. SameSeedSameScenario
  BY <1>3, Zenon DEF SameSeedSameScenario
<1> QED
  BY <1>4, <1>5, Zenon DEF Reproducible

\* Every run can be repeated, from its manifest or from its variant and seed
\* (run_experiment, apply_override, sample_overlay).
THEOREM RunsAreReproducible == Spec => []Reproducible
<1>1. Init => Repeatable
  BY RepeatableInit
<1>2. ExperimentInv /\ Repeatable /\ [Next]_vars => Repeatable'
  BY BeginRunRepeats, ApplyOverrideRepeats, ApplyOverlayRepeats, ExecuteRepeats,
     ReadMetricRepeats, EndRunRepeats, ReportRepeats, RepeatableKept, Zenon DEF Next
<1>3. ExperimentInv /\ Repeatable => Reproducible
  BY RepeatableRuns
<1> QED
  BY <1>1, <1>2, <1>3, ExperimentInvariant, PTL DEF Spec
=============================================================================
