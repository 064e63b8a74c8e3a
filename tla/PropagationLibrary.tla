------------------------ MODULE PropagationLibrary ------------------------
(***************************************************************************)
(* The propagation engine as a library: a program writes variables and     *)
(* invalidates them, pulls the ones it reads, and saves and restores       *)
(* checkpoints, in any order.  Calls do not overlap.  The graph may have   *)
(* cycles, for only the validator of scenarios rejects those, and a        *)
(* program can build a graph without it.                                   *)
(***************************************************************************)
EXTENDS Propagation

CONSTANTS
  Inputs,   \* the variables the program writes
  Amounts,  \* the values it writes
  MaxCalls  \* bound on the writes and restores of a behaviour

ASSUME LibraryAssumption ==
  Inputs \subseteq Vars /\ Amounts \subseteq Int /\ MaxCalls \in Nat

VARIABLES
  calls,  \* writes and restores so far
  saved   \* the contents of the last checkpoint

libraryVars == <<engine, calls, saved>>

Write(v, x) ==
  /\ Idle /\ calls < MaxCalls
  /\ values' = [values EXCEPT ![v] = Stored(v, x)]
  /\ BeginPush(v)
  /\ calls' = calls + 1
  /\ UNCHANGED <<stale, saved>>

\* A call about a clean variable returns at once.
Pull(v) ==
  /\ Idle
  /\ BeginPull(v)
  /\ UNCHANGED <<calls, saved>>

\* save_checkpoint: values and flags are all the state there is between calls.
Save ==
  /\ Idle
  /\ saved' = [values |-> values, stale |-> stale]
  /\ UNCHANGED <<engine, calls>>

\* The bug of a checkpoint without flags.
RestoreValuesOnly ==
  /\ Idle /\ calls < MaxCalls
  /\ values' = saved.values
  /\ stale' = {}
  /\ calls' = calls + 1
  /\ UNCHANGED <<push, stack, thrown, saved>>

\* load_checkpoint.
Restore ==
  /\ Idle /\ calls < MaxCalls
  /\ values' = saved.values
  /\ stale' = saved.stale
  /\ calls' = calls + 1
  /\ UNCHANGED <<push, stack, thrown, saved>>

LibraryInit ==
  /\ EngineInit
  /\ calls = 0
  /\ saved = [values |-> InitialValue, stale |-> {}]

LibraryWork == EngineStep /\ UNCHANGED <<calls, saved>>

LibraryNext ==
  \/ \E v \in Inputs, x \in Amounts : Write(v, x)
  \/ \E v \in Vars : Pull(v)
  \/ Save
  \/ Restore
  \/ LibraryWork

LibrarySpec == LibraryInit /\ [][LibraryNext]_libraryVars

-----------------------------------------------------------------------------
\* The engine's variables, the call counter and the checkpoint have their
\* types.
LibraryTypeOK ==
  /\ EngineTypeOK
  /\ calls \in 0 .. MaxCalls
  /\ saved \in [values : [Vars -> Int], stale : SUBSET Vars]

\* No set of variables in which each has a source of its own: no cycle.
Acyclic ==
  \A S \in SUBSET Vars : S # {} => \E v \in S : Sources(v) \cap S = {}

\* In a graph without cycles no pull is ever cut short.
NeverThrown == Acyclic => ~thrown

\* The variables a pull may touch: its target and the stale ones upstream.
StaleUpstream(v) ==
  {u \in stale : \A C \in SUBSET Vars :
     v \in C /\ (\A w \in C : Sources(w) \cap stale \subseteq C) => u \in C}

\* A pull recomputes nothing but its target and stale variables that the
\* target is computed from, and leaves all the other flags alone.
PullIsMinimal ==
  [][stack # <<>> /\ stack' # stack =>
       /\ stale \ stale' \subseteq StaleUpstream(stack[1].var)
       /\ \A v \in Vars :
            values'[v] # values[v] => v \in StaleUpstream(stack[1].var)]_libraryVars

(***************************************************************************)
(* The flags seen from outside: while a push is under way, everything that *)
(* it is going to mark counts as marked.                                   *)
(***************************************************************************)
Depends == {d \in Vars \X Vars : d[1] \in Sources(d[2])}

Down(S) ==
  {v \in Vars : \A C \in SUBSET Vars :
     S \subseteq C /\ (\A u \in C : Targets(u) \subseteq C) => v \in C}

Fresh == INSTANCE Freshness WITH dirty <- Down(stale \cup toVisit),
           saved <- [values |-> saved.values, dirty |-> saved.stale]

\* Seen from outside a write makes all dependents dirty at once, and each
\* variable becomes clean in one step, after all of its sources.
ImplementsFreshness == Fresh!Spec
=============================================================================
