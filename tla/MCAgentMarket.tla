--------------------------- MODULE MCAgentMarket ---------------------------
(***************************************************************************)
(* Small markets for TLC.                                                  *)
(***************************************************************************)
EXTENDS AgentMarketRefinement

CONSTANTS s1, s2, skewer, corn, street, plaza, alley

\* Two agents at the plaza.
TwoStart  == [a \in Agents |-> plaza]
TwoBudget == [a \in Agents |-> IF a = 0 THEN 4 ELSE 3]
TwoPace   == [a \in Agents |-> a + 1]
TwoSlots  == {[a \in Agents |-> a + 1], [a \in Agents |-> 2 * a]}

\* Three agents, the third walking in from the alley.
TrioStart  == [a \in Agents |-> IF a = 2 THEN alley ELSE plaza]
TrioSlots  == {[a \in Agents |-> a + 1]}
TrioBudget == [a \in Agents |-> 2 - (a \div 2)]

\* With a third customer a queue of two can be full.
TrioCapacity == [s \in Shops |-> IF s = s1 THEN 2 ELSE 0]

\* One stall for two customers at a time, one without limit.
StallLocation == [s \in Shops |-> IF s = s1 THEN plaza ELSE alley]
StallService  == [s \in Shops |-> 2]
StallCapacity == [s \in Shops |-> IF s = s1 THEN 1 ELSE 0]

StallOffers == {<<s1, skewer>>, <<s2, corn>>} \cap (Shops \X Items)
StallPrice  == [o \in Offers |-> IF o[2] = skewer THEN 2 ELSE 1]
StallStock  == [o \in Offers |-> IF o[2] = skewer THEN 2 ELSE 1]

StreetTags == [i \in Items |-> IF i = skewer THEN <<street>> ELSE <<>>]

PlazaDistance ==
  [m \in Locations |-> [n \in Locations |-> IF m = n THEN 0 ELSE 3]]
=============================================================================
