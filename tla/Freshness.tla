----------------------------- MODULE Freshness -----------------------------
(***************************************************************************)
(* What the flags of the propagation engine promise, without worklist,     *)
(* recursion or arithmetic: a write makes everything downstream dirty at   *)
(* once, and a dirty variable becomes clean in one step, in which it gets  *)
(* a value while none of its sources is dirty.                             *)
(***************************************************************************)
CONSTANTS
  Vars,
  Depends  \* the pairs <<source, target>> of the graph

VARIABLES
  values,
  dirty,
  saved  \* the last checkpoint

vars == <<values, dirty, saved>>

ClosedUnder(C) == \A d \in Depends : d[1] \in C => d[2] \in C

\* S and everything that depends on it, directly or not.
Down(S) ==
  {v \in Vars : \A C \in SUBSET Vars : S \subseteq C /\ ClosedUnder(C) => v \in C}

SourcesOf(v) == {u \in Vars : <<u, v>> \in Depends}

OnlyChanges(v) ==
  /\ DOMAIN values' = DOMAIN values
  /\ \A w \in Vars \ {v} : values'[w] = values[w]

Init == dirty = {} /\ saved = [values |-> values, dirty |-> dirty]

Write(v) ==
  /\ OnlyChanges(v)
  /\ dirty' = dirty \cup Down({v})
  /\ UNCHANGED saved

Refresh(v) ==
  /\ v \in dirty
  /\ SourcesOf(v) \cap dirty = {}
  /\ OnlyChanges(v)
  /\ dirty' = dirty \ {v}
  /\ UNCHANGED saved

Save ==
  /\ saved' = [values |-> values, dirty |-> dirty]
  /\ UNCHANGED <<values, dirty>>

Restore ==
  /\ values' = saved.values
  /\ dirty' = saved.dirty
  /\ UNCHANGED saved

Next == (\E v \in Vars : Write(v) \/ Refresh(v)) \/ Save \/ Restore

Spec == Init /\ [][Next]_vars
=============================================================================
