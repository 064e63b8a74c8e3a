--------------------------- MODULE MarketService ---------------------------
(***************************************************************************)
(* What the shops of an agent-layer scenario promise, without events,      *)
(* time, counters or conversations: a customer gets a ticket for an offer  *)
(* it can buy while its shop has room, a ticket is served once, and        *)
(* serving it sells one unit of the offer, or refuses the sale if others   *)
(* bought the stock or the customer spent the money in the meantime.       *)
(***************************************************************************)
EXTENDS Integers, FiniteSets

CONSTANTS Offers, Price, QueueCapacity, InitialBudget, InitialStock

VARIABLES
  waiting,  \* the set of tickets [id, agent, shop, item]
  budget,   \* agent -> cents
  stock     \* offer -> units

vars == <<waiting, budget, stock>>

Init == waiting = {} /\ budget = InitialBudget /\ stock = InitialStock

OfferOf(k) == <<k.shop, k.item>>

CanBuy(k) ==
  /\ OfferOf(k) \in Offers
  /\ stock[OfferOf(k)] > 0
  /\ Price[OfferOf(k)] <= budget[k.agent]

HasRoom(s) ==
  \/ QueueCapacity[s] = 0
  \/ Cardinality({k \in waiting : k.shop = s}) < QueueCapacity[s]

Enter(k) ==
  /\ CanBuy(k)
  /\ HasRoom(k.shop)
  /\ \A w \in waiting : w.id # k.id
  /\ waiting' = waiting \cup {k}
  /\ UNCHANGED <<budget, stock>>

Sell(k) ==
  /\ CanBuy(k)
  /\ waiting' = waiting \ {k}
  /\ budget' = [budget EXCEPT ![k.agent] = @ - Price[OfferOf(k)]]
  /\ stock' = [stock EXCEPT ![OfferOf(k)] = @ - 1]

Refuse(k) ==
  /\ ~CanBuy(k)
  /\ waiting' = waiting \ {k}
  /\ UNCHANGED <<budget, stock>>

Next ==
  \/ \E k \in waiting' : Enter(k)
  \/ \E k \in waiting : Sell(k) \/ Refuse(k)

Spec == Init /\ [][Next]_vars
=============================================================================
