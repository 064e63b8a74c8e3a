--------------------------- MODULE MCPropagation ---------------------------
(***************************************************************************)
(* Small graphs for TLC.                                                   *)
(***************************************************************************)
EXTENDS PropagationLibrary

CONSTANTS price, tax, total, flag

From(u, f, w) == [source |-> u, fn |-> f, weight |-> w]

\* A diamond: total depends on price directly and through tax, and flag on it.
DiamondEdges ==
  [v \in Vars |->
     CASE v = tax   -> <<From(price, "linear_scale", 2)>>
       [] v = total -> <<From(tax, "additive", 1),
                         From(price, "linear_scale", 3)>>
       [] v = flag  -> <<From(total, "linear_scale", -1)>>
       [] OTHER     -> <<>>]
DiamondKinds == [v \in Vars |-> IF v = flag THEN "boolean" ELSE "number"]
DiamondStart == [v \in Vars |-> IF v = price THEN 1 ELSE 0]

=============================================================================
