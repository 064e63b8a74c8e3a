---------------------------- MODULE Propagation ----------------------------
(***************************************************************************)
(* The hybrid push-pull propagation engine: SimulationState and            *)
(* DependencyGraph of src/engine/simulation_engine.cpp.                    *)
(*                                                                         *)
(* A write marks the variable and everything downstream of it stale        *)
(* (push_invalidation, a worklist); a stale variable is recomputed on      *)
(* demand, its stale sources first (pull_recompute, a recursion).  Both    *)
(* are modelled step by step, because both leave the state half changed    *)
(* between steps, and because a pull can be cut short by an exception.     *)
(* This module has the state of the engine and its steps; the modules that *)
(* extend it say who calls the engine.                                     *)
(*                                                                         *)
(* Doubles are integers here, and the buffers of the four types are one    *)
(* function.  The worklist is a set, so that any order of visits is        *)
(* allowed where the code takes the last variable that was added.          *)
(***************************************************************************)
EXTENDS Integers, Sequences, FiniteSets

CONSTANTS
  Vars,         \* variable ids
  Kind,         \* variable -> "number", "boolean" or "text"
  Incoming,     \* variable -> sequence of the edges that lead to it
  InitialValue  \* variable -> value

Functions == {"linear_scale", "apply_discount", "additive", "max_propagate",
              "min_propagate"}

\* The compiler refuses an edge whose function is not registered.
ASSUME GraphAssumption ==
  /\ Kind \in [Vars -> {"number", "boolean", "text"}]
  /\ \A v \in Vars :
       Incoming[v] \in Seq([source : Vars, fn : Functions, weight : Int])
  /\ InitialValue \in [Vars -> Int]

\* reverse_adjacency_ and adjacency_list_: two views of the same edges.
Sources(v) == {Incoming[v][k].source : k \in DOMAIN Incoming[v]}
Targets(u) == {v \in Vars : u \in Sources(v)}

VARIABLES
  values,   \* variable -> value
  stale,    \* the variables flagged stale
  toVisit,  \* push_invalidation: the worklist
  visited,  \* push_invalidation: the variables already marked
  stack,    \* pull_recompute: the frames of the recursion
  thrown    \* the last pull ended with an exception

store  == <<values, stale>>
push   == <<toVisit, visited>>
engine == <<values, stale, toVisit, visited, stack, thrown>>

Idle == toVisit = {} /\ stack = <<>>

EngineInit ==
  /\ values = InitialValue
  /\ stale = {}
  /\ toVisit = {}
  /\ visited = {}
  /\ stack = <<>>
  /\ thrown = FALSE

-----------------------------------------------------------------------------
(***************************************************************************)
(* What the buffers make of a value.  A boolean keeps only whether a       *)
(* number differs from zero; a text, which an integer stands for here, has *)
(* no numeric value, counts as zero and takes no number.                   *)
(***************************************************************************)
Numeric(v) == IF Kind[v] = "text" THEN 0 ELSE values[v]

Stored(v, x) == IF Kind[v] = "boolean" THEN IF x = 0 THEN 0 ELSE 1 ELSE x

Combine(fn, target, source, weight) ==
  LET influence == source * weight
  IN CASE fn = "linear_scale"   -> influence
       [] fn = "apply_discount" -> target * (1 + influence)
       [] fn = "additive"       -> target + influence
       [] fn = "max_propagate"  -> IF influence > target THEN influence
                                                         ELSE target
       [] fn = "min_propagate"  -> IF influence < target THEN influence
                                                         ELSE target

-----------------------------------------------------------------------------
(***************************************************************************)
(* push_invalidation.                                                      *)
(***************************************************************************)
BeginPush(v) ==
  /\ toVisit' = {v}
  /\ visited' = {}
  /\ UNCHANGED <<stack, thrown>>

\* The bug of marking the direct dependents only.
VisitDirectOnly ==
  \E current \in toVisit :
    /\ stale' = stale \cup {current}
    /\ visited' = visited \cup {current}
    /\ toVisit' = (toVisit \ {current}) \cup
                  (IF visited = {} THEN Targets(current) \ visited' ELSE {})
    /\ UNCHANGED <<values, stack, thrown>>

\* The bug of a worklist that does not remember what it has visited.
VisitAgain ==
  \E current \in toVisit :
    /\ stale' = stale \cup {current}
    /\ visited' = visited \cup {current}
    /\ toVisit' = (toVisit \ {current}) \cup Targets(current)
    /\ UNCHANGED <<values, stack, thrown>>

Visit ==
  \E current \in toVisit :
    /\ stale' = stale \cup {current}
    /\ visited' = visited \cup {current}
    /\ toVisit' = (toVisit \ {current}) \cup (Targets(current) \ visited')
    /\ UNCHANGED <<values, stack, thrown>>

-----------------------------------------------------------------------------
(***************************************************************************)
(* pull_recompute.  A frame first walks its incoming edges to recompute    *)
(* the sources that are stale (pass "sources"), then walks them again to   *)
(* combine the values of the sources into its own (pass "edges").  The     *)
(* variables of the stack are the code's active_stack.                     *)
(***************************************************************************)
Frame(v) == [var |-> v, pass |-> "sources", next |-> 1, acc |-> 0]

Top == stack[Len(stack)]
Below == SubSeq(stack, 1, Len(stack) - 1)
Active == {stack[k].var : k \in DOMAIN stack}

Edge == Incoming[Top.var][Top.next]
EdgesLeft == Top.next <= Len(Incoming[Top.var])

BeginPull(v) ==
  /\ v \in stale
  /\ stack' = <<Frame(v)>>
  /\ thrown' = FALSE
  /\ UNCHANGED <<store, push>>

\* Recompute the source of the next edge, if it is stale.
Descend ==
  /\ stack # <<>> /\ Top.pass = "sources" /\ EdgesLeft
  /\ LET seen == Append(Below, [Top EXCEPT !.next = @ + 1])
     IN  \/ /\ Edge.source \notin stale
            /\ stack' = seen
         \/ /\ Edge.source \in stale \ Active
            /\ stack' = Append(seen, Frame(Edge.source))
  /\ UNCHANGED <<store, push, thrown>>

\* The source of the next edge is being recomputed already: the exception
\* unwinds the whole recursion, and leaves the flags as they are.
CycleDetected ==
  /\ stack # <<>> /\ Top.pass = "sources" /\ EdgesLeft
  /\ Edge.source \in stale \cap Active
  /\ stack' = <<>>
  /\ thrown' = TRUE
  /\ UNCHANGED <<store, push>>

\* The bug of an off-by-one that leaves the last source alone.
SourcesDoneOneEarly ==
  /\ stack # <<>> /\ Top.pass = "sources"
  /\ Top.next >= Len(Incoming[Top.var])
  /\ stack' = Append(Below, [Top EXCEPT !.pass = "edges", !.next = 1,
                                        !.acc = Numeric(Top.var)])
  /\ UNCHANGED <<store, push, thrown>>

SourcesDone ==
  /\ stack # <<>> /\ Top.pass = "sources" /\ ~EdgesLeft
  /\ stack' = Append(Below, [Top EXCEPT !.pass = "edges", !.next = 1,
                                        !.acc = Numeric(Top.var)])
  /\ UNCHANGED <<store, push, thrown>>

CombineEdge ==
  /\ stack # <<>> /\ Top.pass = "edges" /\ EdgesLeft
  /\ stack' = Append(Below, [Top EXCEPT !.next = @ + 1,
                    !.acc = Combine(Edge.fn, @, Numeric(Edge.source),
                                    Edge.weight)])
  /\ UNCHANGED <<store, push, thrown>>

\* The bug of clearing all flags when one variable is done.
FinishVariableClearAll ==
  /\ stack # <<>> /\ Top.pass = "edges" /\ ~EdgesLeft
  /\ values' = IF Incoming[Top.var] = <<>> \/ Kind[Top.var] = "text"
               THEN values
               ELSE [values EXCEPT ![Top.var] = Stored(Top.var, Top.acc)]
  /\ stale' = {}
  /\ stack' = Below
  /\ UNCHANGED <<push, thrown>>

\* A variable without incoming edges keeps its value and is only marked clean.
FinishVariable ==
  /\ stack # <<>> /\ Top.pass = "edges" /\ ~EdgesLeft
  /\ values' = IF Incoming[Top.var] = <<>> \/ Kind[Top.var] = "text"
               THEN values
               ELSE [values EXCEPT ![Top.var] = Stored(Top.var, Top.acc)]
  /\ stale' = stale \ {Top.var}
  /\ stack' = Below
  /\ UNCHANGED <<push, thrown>>

PullStep ==
  Descend \/ CycleDetected \/ SourcesDone \/ CombineEdge \/ FinishVariable

EngineStep == Visit \/ PullStep

-----------------------------------------------------------------------------
(***************************************************************************)
(* Properties of the engine, whoever calls it.                             *)
(***************************************************************************)
FrameOK(f) ==
  /\ f \in [var : Vars, pass : {"sources", "edges"}, next : Nat, acc : Int]
  /\ f.next \in 1 .. Len(Incoming[f.var]) + 1

\* The engine's buffers, flags, worklist and frames have their types; a push
\* and a pull are never under way at the same time.
EngineTypeOK ==
  /\ values \in [Vars -> Int]
  /\ stale \subseteq Vars
  /\ toVisit \subseteq Vars
  /\ visited \subseteq Vars
  /\ stack \in Seq([var : Vars, pass : {"sources", "edges"}, next : Nat,
                    acc : Int])
  /\ \A k \in DOMAIN stack : FrameOK(stack[k])
  /\ thrown \in BOOLEAN
  /\ toVisit = {} \/ stack = <<>>

\* Whatever is downstream of a stale variable is stale, or about to be marked
\* by the push under way: no variable is trusted whose sources are not.  It
\* also holds in the middle of a pull and after an exception has cut one short.
StaleClosed == \A u \in stale : Targets(u) \subseteq stale \cup toVisit

\* While a value is being combined its sources are clean, and the variables
\* below it on the stack are stale, distinct and downstream of it.
FrameSound(k) ==
  /\ stack[k].var \in stale
  /\ \A j \in DOMAIN stack : j # k => stack[j].var # stack[k].var
  /\ k < Len(stack) => /\ stack[k].pass = "sources"
                       /\ stack[k + 1].var \in Sources(stack[k].var)
  /\ stack[k].pass = "edges" => Sources(stack[k].var) \cap stale = {}

ComputedFromFresh == \A k \in DOMAIN stack : FrameSound(k)

\* A variable whose last incoming edge is linear_scale is a multiple of its
\* source whenever both are clean, unless neither has changed since the start:
\* the flags never vouch for a value that the graph contradicts.
CleanMeansConsistent ==
  \A v \in Vars \ (stale \cup toVisit) :
    LET n == Len(Incoming[v])
        e == Incoming[v][n]
    IN (n > 0 /\ e.fn = "linear_scale" /\ Kind[v] # "text") =>
          \/ e.source \in stale \cup toVisit
          \/ values[v] = Stored(v, Numeric(e.source) * e.weight)
          \/ values[v] = InitialValue[v]
             /\ values[e.source] = InitialValue[e.source]

\* Every call of the engine returns, also in a graph with cycles: the worklist
\* empties, and the recursion ends or is cut short.
CallsReturn == ~Idle ~> Idle
=============================================================================
