----------------------- MODULE AgentMarketRefinement -----------------------
(***************************************************************************)
(* The agent runtime implements MarketService.  A ticket is a pending      *)
(* PURCHASE; the counter queue_size, on which the runtime bases admission, *)
(* does not exist in the abstract specification.                           *)
(***************************************************************************)
EXTENDS AgentMarket

Ticket(e) ==
  [id |-> e.ord, agent |-> e.agent, shop |-> e.shop, item |-> e.item]

Tickets == {Ticket(e) : e \in Pending("PURCHASE")}

Service == INSTANCE MarketService WITH waiting <- Tickets

\* Every step of the runtime is a step of the abstract service or leaves it
\* alone: customers are admitted only while the shop has room, each admission
\* is served exactly once, and only serving a customer moves money or stock.
ImplementsService == Service!Spec
=============================================================================
