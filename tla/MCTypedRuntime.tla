--------------------------- MODULE MCTypedRuntime ---------------------------
(***************************************************************************)
(* Small typed layers for TLC.                                             *)
(***************************************************************************)
EXTENDS TypedRuntime

CONSTANTS bond, trail, flash, tick

WriteTo(role) == [op |-> "write", role |-> role]
Link(type, from, to, lasting) ==
  [op |-> "create", type |-> type, source |-> from, target |-> to,
   lasting |-> lasting]
Emit(type, prio, timed) ==
  [op |-> "emit", type |-> type, prio |-> prio, timed |-> timed]

System(kind, on, triggers, writes, creates, emits) ==
  [kind |-> kind, on |-> on, triggers |-> triggers, writes |-> writes,
   creates |-> creates, emits |-> emits]

Relation(serial, type, a, b, expires) ==
  [serial |-> serial, type |-> type, source |-> a, target |-> b,
   expires |-> expires]

Given(type, t, prio, handle) ==
  [type |-> type, t |-> t, prio |-> prio, handle |-> handle]

AllAtoms == [e \in Entities |-> "atom"]
Zero == [e \in Entities |-> 0]
Ranks == [type \in EventTypes |-> IF type = flash THEN 1 ELSE 2]

-----------------------------------------------------------------------------
\* Atoms form bonds in pairs at every tick, two per atom; a bond may outlive
\* a tick or not.  The bonds leave trails, two at the most; the scenario starts
\* with three, which the validator lets pass.  A system that the tick triggers
\* twice ends in a role that is not filled, because a single atom has no other.
AtomSystems ==
  << System("pair", "atom", <<tick>>, <<>>,
            <<Link(bond, "other", "self", TRUE)>>, <<>>),
     System("per_relation", bond, <<tick>>, <<>>,
            <<Link(trail, "other", "self", FALSE)>>, <<>>),
     System("per_entity", "atom", <<tick, tick>>, <<WriteTo("self")>>,
            <<Link(bond, "self", "other", FALSE)>>, <<>>) >>
AtomRelations == {Relation(1, bond, 1, 2, 2), Relation(2, trail, 1, 1, 1),
                  Relation(3, trail, 2, 1, 1), Relation(4, trail, 1, 2, Never)}
AtomTotal == [type \in RelationTypes |-> IF type = bond THEN 0 ELSE 2]
AtomPerEntity == [type \in RelationTypes |-> IF type = bond THEN 2 ELSE 0]

\* A lamp's flash emits ticks, and flashes for any time, past or future; an
\* event of the scenario has a handle that sorts last.
LampType == [e \in Entities |-> IF e = NEntities THEN "lamp" ELSE "atom"]
LampSystems ==
  << System("per_entity", "lamp", <<flash>>, <<>>, <<>>,
            <<Emit(flash, 1, TRUE), Emit(tick, 0, FALSE)>>) >> \o AtomSystems
LampEvents == << Given(flash, 1, 0, <<0, 0>>), Given(tick, 2, 0, <<9, 0>>) >>

NoEvents == <<>>
NoBounds == [type \in RelationTypes |-> 0]
=============================================================================
