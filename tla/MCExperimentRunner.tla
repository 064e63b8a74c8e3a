------------------------- MODULE MCExperimentRunner -------------------------
(***************************************************************************)
(* Small experiments for TLC.                                              *)
(***************************************************************************)
EXTENDS ExperimentRunner

CONSTANTS price, shops, table, field, nowhere, low, high, bad

Scalar(v) == [shape |-> "scalar", parts |-> <<v>>]
List(v) == [shape |-> "sequence", parts |-> <<v>>]
Map(v) == [shape |-> "map", parts |-> <<v>>]

SmallBase ==
  [t \in {price, shops, table, field} |->
     CASE t = price -> Scalar(low) [] t = shops -> List(low)
       [] t = table -> Map(low) [] t = field -> Scalar(low)]

To(target, op, value) == [target |-> target, op |-> op, value |-> value]
Choice(id, target, choices) == [id |-> id, target |-> target, choices |-> choices]
Measure(id, kind) == [id |-> id, kind |-> kind]
VariantOf(id, overrides, overlays) ==
  [id |-> id, overrides |-> overrides, overlays |-> overlays]

Plain == VariantOf("plain", <<>>, <<>>)
\* Grows a list, and samples a second time what the experiment samples.
Grown ==
  VariantOf("grown", <<To(shops, "append", List(high)), To(table, "merge", Map(high))>>,
            <<Choice("p", price, <<Scalar(low), Scalar(high)>>)>>)
\* The list becomes a scalar, and cannot be appended to or read any more.
Broken(rest) == VariantOf("broken", <<To(shops, "replace", Scalar(high))>> \o rest, <<>>)
\* What cannot be addressed, or not in this way.
Lost == VariantOf("lost", <<To(nowhere, "replace", Scalar(low))>>, <<>>)
Field == VariantOf("field", <<To(field, "append", Scalar(high))>>, <<>>)
Empty == VariantOf("empty", <<>>, <<Choice("e", field, <<>>)>>)
Aside == VariantOf("aside", <<>>, <<Choice("a", nowhere, <<Scalar(low)>>)>>)

Experiment(variants, seeds, metrics, failFast, details) ==
  [overrides |-> <<To(field, "replace", Scalar(high))>>,
   variants |-> variants, seeds |-> seeds,
   overlays |-> <<Choice("p", price, <<Scalar(high), Scalar(bad)>>)>>,
   metrics |-> metrics, failFast |-> failFast, details |-> details]

\* The same seed twice, with all that can go wrong after a run; every kind of
\* metric; two variants with two seeds; and variants that fail before they run.
Small ==
  {Experiment(<<Grown>>, <<1, 1>>,
              <<Measure("s", "runtime_stat"), Measure("x", "extension")>>, ff, TRUE) :
     ff \in BOOLEAN}
  \cup
  {Experiment(<<Plain>>, <<>>,
              <<Measure("s", "runtime_stat"), Measure("f", "typed_field_final"),
                Measure("x", "extension")>>, ff, TRUE) : ff \in BOOLEAN}
  \cup
  {Experiment(<<Plain, Grown>>, <<1, 2>>, <<>>, ff, TRUE) : ff \in BOOLEAN}
  \cup
  {Experiment(vs, seeds, <<>>, ff, FALSE) :
     vs \in {<<Broken(<<>>), Lost, Plain>>, <<Field, Empty, Aside>>,
             <<Broken(<<To(shops, "append", List(low))>>)>>, <<>>},
     seeds \in {<<>>, <<1, 2>>}, ff \in BOOLEAN}
=============================================================================
