------------------------------- MODULE V1Run -------------------------------
(***************************************************************************)
(* A run of a scenario without agents or entities: run_scenario of         *)
(* src/noisiax.cpp, which drives the EventScheduler                        *)
(* (src/scheduler/event_scheduler.cpp) and the propagation engine.  For    *)
(* every event the payload is applied, one write at a time, then all the   *)
(* variables that are stale are pulled, and then the constraints are       *)
(* enforced, as they are once before the first event.                      *)
(***************************************************************************)
EXTENDS Propagation

CONSTANTS
  Events,      \* event handles, numbered in lexicographic order
  Time,        \* event -> timestamp
  Priority,    \* event -> priority
  Known,       \* the events whose type has a callback
  Payloads,    \* event -> the payloads it may have: sequences of writes
  Constraints  \* a set of constraints

WriteRecord ==
  [kind : {"set", "delta"}, var : Vars, amount : Int, fits : BOOLEAN]
Levels == {"REJECT", "WARN", "AUTO_CORRECT"}

ASSUME RunAssumption ==
  /\ Events \subseteq Nat
  /\ IsFiniteSet(Events)
  /\ Time \in [Events -> Nat]
  /\ Priority \in [Events -> Int]
  /\ Known \subseteq Events
  /\ Payloads \in [Events -> SUBSET Seq(WriteRecord)]
  /\ Constraints \subseteq
       [var : Vars, limit : Int, level : Levels, readable : BOOLEAN]

VARIABLES
  phase,    \* what the loop does next, or how the run has ended
  pending,  \* the scheduler's queue
  history,  \* event_history, the events popped so far
  writes,   \* the writes of the event that are still to do
  pulls,    \* the stale variables that are still to pull
  now       \* current_time

loop == <<phase, pending, history, writes, pulls, now>>
vars == <<engine, loop>>

Running == {"loop", "apply", "settle", "check"}

-----------------------------------------------------------------------------
(***************************************************************************)
(* The scheduler: earlier events first, then those of higher priority,     *)
(* then by handle.                                                         *)
(***************************************************************************)
\* The bug of sorting priorities in ascending order.
BeforeAscendingPriority(e, f) ==
  \/ Time[e] < Time[f]
  \/ Time[e] = Time[f] /\ Priority[e] < Priority[f]
  \/ Time[e] = Time[f] /\ Priority[e] = Priority[f] /\ e < f

Before(e, f) ==
  \/ Time[e] < Time[f]
  \/ Time[e] = Time[f] /\ Priority[e] > Priority[f]
  \/ Time[e] = Time[f] /\ Priority[e] = Priority[f] /\ e < f

\* process_next_event: an event of a type without callback is skipped, and is
\* in the history all the same.
PopEvent ==
  /\ phase = "loop" /\ Idle
  /\ \E e \in pending :
       /\ \A f \in pending \ {e} : Before(e, f)
       /\ pending' = pending \ {e}
       /\ history' = Append(history, e)
       /\ IF e \in Known
          THEN /\ writes' \in Payloads[e]
               /\ phase' = "apply"
               /\ UNCHANGED pulls
          ELSE /\ phase' = "settle"
               /\ pulls' = stale
               /\ UNCHANGED writes
  /\ UNCHANGED <<engine, now>>

-----------------------------------------------------------------------------
(***************************************************************************)
(* The callback (apply_event_payload).  A write whose text does not fit    *)
(* the variable's type, or a delta to a text, changes nothing and          *)
(* invalidates nothing.                                                    *)
(***************************************************************************)
Refused(w) == ~w.fits \/ (w.kind = "delta" /\ Kind[w.var] = "text")

Amount(w) == IF w.kind = "set" THEN w.amount ELSE values[w.var] + w.amount

ApplyWrite ==
  /\ phase = "apply" /\ Idle /\ writes # <<>>
  /\ LET w == Head(writes)
     IN IF Refused(w)
        THEN UNCHANGED engine
        ELSE /\ values' = [values EXCEPT ![w.var] = Stored(w.var, Amount(w))]
             /\ BeginPush(w.var)
             /\ UNCHANGED stale
  /\ writes' = Tail(writes)
  /\ UNCHANGED <<phase, pending, history, pulls, now>>

\* The bug of listing the stale variables before the payload is applied.
EndOfPayloadListsNothing ==
  /\ phase = "apply" /\ Idle /\ writes = <<>>
  /\ now' = Time[history[Len(history)]]
  /\ phase' = "settle"
  /\ pulls' = {}
  /\ UNCHANGED <<engine, pending, history, writes>>

\* The clock moves to the event's timestamp after its payload is applied, and
\* compute_stale_closure lists what is stale.
EndOfPayload ==
  /\ phase = "apply" /\ Idle /\ writes = <<>>
  /\ now' = Time[history[Len(history)]]
  /\ phase' = "settle"
  /\ pulls' = stale
  /\ UNCHANGED <<engine, pending, history, writes>>

-----------------------------------------------------------------------------
(***************************************************************************)
(* Settling: the listed variables are pulled, in any order here.  Those    *)
(* that an earlier pull has made clean are left alone.                     *)
(***************************************************************************)
PullNext ==
  /\ phase = "settle" /\ Idle /\ ~thrown
  /\ \E v \in pulls :
       /\ pulls' = pulls \ {v}
       /\ BeginPull(v) \/ (v \notin stale /\ UNCHANGED engine)
  /\ UNCHANGED <<phase, pending, history, writes, now>>

\* The bug of checking the constraints only after the last event.
SettledChecksLast ==
  /\ phase = "settle" /\ Idle /\ ~thrown /\ pulls = {}
  /\ phase' = IF pending = {} THEN "check" ELSE "loop"
  /\ UNCHANGED <<engine, pending, history, writes, pulls, now>>

Settled ==
  /\ phase = "settle" /\ Idle /\ ~thrown /\ pulls = {}
  /\ phase' = "check"
  /\ UNCHANGED <<engine, pending, history, writes, pulls, now>>

\* An exception of the engine ends the run with a runtime failure.
RuntimeFailure ==
  /\ phase = "settle" /\ Idle /\ thrown
  /\ phase' = "failed"
  /\ UNCHANGED <<engine, pending, history, writes, pulls, now>>

-----------------------------------------------------------------------------
(***************************************************************************)
(* enforce_constraints.  A constraint is the bound of one variable here.   *)
(* One that cannot be evaluated (it names an unknown or a text variable,   *)
(* or does not parse) ends the run whatever its level.                     *)
(***************************************************************************)
Holds(c) == values[c.var] <= c.limit

Unreadable(c) == ~c.readable \/ Kind[c.var] = "text"

Rejects(c) == Unreadable(c) \/ (~Holds(c) /\ c.level = "REJECT")

Enforce ==
  /\ phase = "check" /\ Idle
  /\ phase' = IF \E c \in Constraints : Rejects(c) THEN "rejected" ELSE "loop"
  /\ UNCHANGED <<engine, pending, history, writes, pulls, now>>

Succeed ==
  /\ phase = "loop" /\ Idle /\ pending = {}
  /\ phase' = "succeeded"
  /\ UNCHANGED <<engine, pending, history, writes, pulls, now>>

-----------------------------------------------------------------------------
Init ==
  /\ EngineInit
  /\ phase = "check"
  /\ pending = Events
  /\ history = <<>>
  /\ writes = <<>>
  /\ pulls = {}
  /\ now = 0

Run == EngineStep /\ UNCHANGED loop

Next ==
  \/ PopEvent \/ ApplyWrite \/ EndOfPayload \/ PullNext \/ Settled
  \/ RuntimeFailure \/ Enforce \/ Succeed \/ Run

Spec == Init /\ [][Next]_vars

\* One thread runs the loop without waiting for anything.
FairSpec == Spec /\ WF_vars(Next)

-----------------------------------------------------------------------------
\* The engine and the loop have their types, and the engine is at work only
\* while a payload is applied or the state settles.
RunTypeOK ==
  /\ EngineTypeOK
  /\ phase \in Running \cup {"rejected", "failed", "succeeded"}
  /\ pending \subseteq Events
  /\ history \in Seq(Events)
  /\ writes \in Seq(WriteRecord)
  /\ pulls \subseteq Vars
  /\ now \in Nat
  /\ phase \in {"apply", "settle"} \/ Idle

\* Constraints are enforced on a settled state: whatever the event wrote has
\* reached every variable downstream before a constraint looks at it.  A run
\* that succeeds or is rejected also leaves a settled state behind.
SettledWhenChecked ==
  phase \in {"check", "loop", "rejected", "succeeded"} => stale = {}

InOrder(e, f) ==
  /\ Time[e] <= Time[f]
  /\ Time[e] = Time[f] => Priority[e] >= Priority[f]
  /\ Time[e] = Time[f] /\ Priority[e] = Priority[f] => e < f

\* Events are handled in the order of the scheduler and none is handled twice
\* or forgotten, whatever the run does with them; the clock follows the events.
HandledInOrder ==
  /\ {history[k] : k \in DOMAIN history} = Events \ pending
  /\ \A j, k \in DOMAIN history :
       j < k => InOrder(history[j], history[k])
  /\ \A k \in DOMAIN history, e \in pending : InOrder(history[k], e)
  /\ \A e \in pending : now <= Time[e]

\* A run goes on to its next event, and succeeds after the last one, only in
\* states that keep every constraint that rejects.
SuccessKeepsConstraints ==
  phase \in {"loop", "succeeded"} =>
    \A c \in Constraints : c.level = "REJECT" => c.readable /\ Holds(c)
=============================================================================
