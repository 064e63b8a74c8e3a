------------------------------ MODULE MCV1Run ------------------------------
(***************************************************************************)
(* Small scenarios of the first schema version for TLC.                    *)
(***************************************************************************)
EXTENDS V1Run

CONSTANTS price, tax, total, flag, label, rate, fee

From(u, f, w) == [source |-> u, fn |-> f, weight |-> w]

Set(v, x)   == [kind |-> "set", var |-> v, amount |-> x, fits |-> TRUE]
Delta(v, x) == [kind |-> "delta", var |-> v, amount |-> x, fits |-> TRUE]
Misfit(v)   == [kind |-> "set", var |-> v, amount |-> 0, fits |-> FALSE]

\* The total depends on the price directly and through the tax; the label
\* has an edge of its own, which never changes it.  Rate and fee form a cycle.
\* The validator refuses edges on texts and cycles; ScenarioCompiler, which is
\* public, compiles them, and run_scenario runs what it is given.
ShopEdges ==
  [v \in Vars |->
     CASE v = tax   -> <<From(price, "linear_scale", 2)>>
       [] v = total -> <<From(tax, "max_propagate", 1),
                         From(price, "linear_scale", 3)>>
       [] v = flag  -> <<From(total, "apply_discount", 1)>>
       [] v = label -> <<From(flag, "linear_scale", 1)>>
       [] v = rate  -> <<From(fee, "linear_scale", 1)>>
       [] v = fee   -> <<From(rate, "min_propagate", 1)>>
       [] OTHER     -> <<>>]
ShopKinds ==
  [v \in Vars |->
     CASE v = flag -> "boolean" [] v = label -> "text" [] OTHER -> "number"]

AllOne == [v \in Vars |-> 1]

\* Four events, three at time 2: one of a higher priority, one of a type
\* without callback, and the later ones about derived variables.
ShopTime     == [e \in Events |-> IF e = 2 THEN 1 ELSE 2]
ShopPriority == [e \in Events |-> IF e = 3 THEN 5 ELSE 0]

\* The third event, second in turn, may set a price that breaks a bound, which
\* the last one would mend, or may enter the cycle.
ShopPayloads ==
  [e \in Events |->
     CASE e = 1 -> {<<Set(price, 2), Delta(price, -4), Set(total, 7)>>}
       [] e = 2 -> {<<Delta(tax, 1), Misfit(price), Delta(label, 1)>>}
       [] e = 3 -> {<<Set(price, 3), Set(flag, 1)>>, <<Set(price, 4)>>,
                    <<Delta(price, 1), Set(rate, 2)>>}
       [] OTHER -> {<<>>}]

Bound(v, n, l) == [var |-> v, limit |-> n, level |-> l, readable |-> TRUE]
ShopConstraints ==
  {Bound(total, 9, "REJECT"), Bound(tax, 2, "WARN"),
   Bound(flag, 0, "AUTO_CORRECT")}
=============================================================================
