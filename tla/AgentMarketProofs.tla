------------------------- MODULE AgentMarketProofs -------------------------
(***************************************************************************)
(* Theorems about the agent-layer runtime, for every market.               *)
(***************************************************************************)
EXTENDS AgentMarketRefinement, FiniteSetTheorems, TLAPS

LEMMA LimitsAreNat == MaxTime \in Nat /\ MaxEvents \in Nat
  BY MarketAssumption DEF MaxTime, MaxEvents, Lesser

LEMMA Sums ==
  ASSUME NEW m \in Nat, NEW n \in Nat
  PROVE  m + n \in Nat /\ m + n >= m /\ m + n >= n
  OBVIOUS

LEMMA AgentsFinite ==
  /\ IsFiniteSet(Agents)
  /\ Agents \subseteq Nat
  <1>1. 0 \in Int /\ NAgents - 1 \in Int
    BY MarketAssumption
  <1>2. QED
    BY <1>1, FS_Interval DEF Agents

LEMMA AgentBound ==
  /\ NAgents \in Nat
  /\ \A a \in Agents : a \in Nat /\ a < NAgents
  BY MarketAssumption DEF Agents

LEMMA EventFields ==
  ASSUME NEW f, EventOK(f)
  PROVE  /\ f \in EventRecord
         /\ f.t \in Nat /\ f.prio \in Int /\ f.ord \in Nat /\ f.span \in Nat
  BY DEF EventOK, EventRecord

(***************************************************************************)
(* What Pop and Schedule do to the queue, whatever the handler.            *)
(***************************************************************************)
New(S) ==
  /\ IsFiniteSet(S)
  /\ \A n \in S : EventOK(n) /\ n.t >= now' /\ n.ord >= nextOrdinal
  /\ \A n \in S : n.ord < nextOrdinal'
  /\ \A n, m \in S : n.ord = m.ord => n = m

LEMMA PopAdvances ==
  ASSUME QueueWellFormed, NEW e \in queue, NEW type, Pop(e, type)
  PROVE  /\ now' = e.t
         /\ \A f \in queue : f.t >= now'
  <1>1. \A f \in queue : f.t \in Nat
    BY EventFields DEF QueueWellFormed
  <1>2. \A f \in queue \ {e} : e.t <= f.t
    BY <1>1 DEF Pop, Due, IsTop, Before
  <1>3. QED
    BY <1>1, <1>2 DEF Pop, Due

LEMMA ScheduleKeepsQueue ==
  ASSUME QueueWellFormed, NEW e \in queue, NEW type, Pop(e, type),
         NEW S, NEW k \in Nat, Schedule(e, S, k), New(S), nextOrdinal \in Nat
  PROVE  QueueWellFormed'
  <1>1. IsFiniteSet(queue')
    <2>1. IsFiniteSet(queue \ {e})
      BY FS_RemoveElement DEF QueueWellFormed
    <2>2. QED
      BY <2>1, FS_Union DEF Schedule, New
  <1>2. \A f \in queue' : EventOK(f) /\ f.t >= now' /\ f.ord < nextOrdinal'
    <2>1. \A f \in queue : f.ord < nextOrdinal'
      BY EventFields DEF QueueWellFormed, Schedule
    <2>2. QED
      BY <2>1, PopAdvances DEF QueueWellFormed, Schedule, New
  <1>3. \A f, g \in queue' : f.ord = g.ord => f = g
    <2>1. \A f \in queue, g \in S : f.ord # g.ord
      BY EventFields DEF QueueWellFormed, New
    <2>2. QED
      BY <2>1 DEF QueueWellFormed, Schedule, New
  <1>4. QED
    BY <1>1, <1>2, <1>3 DEF QueueWellFormed

(***************************************************************************)
(* The events that handlers schedule are well formed.                      *)
(***************************************************************************)
LEMMA TypeNames ==
  EventTypes = {"DECIDE_PURCHASE", "INFLUENCE_DECAY", "MOVE_ARRIVE",
                "MOVE_START", "OBSERVE_PURCHASE", "PURCHASE", "QUEUE_ENTER",
                "SIM_END", "SIM_START", "TALK_END", "TALK_START"}
  BY DEF EventTypes, HandleRank

LEMMA DecisionOK ==
  ASSUME NEW a \in Agents, NEW t \in Nat, NEW p \in Nat \ {0}, NEW o \in Nat
  PROVE  LET d == Decision(a, t, p, o)
         IN  /\ EventOK(d) /\ d.t = t /\ d.ord = o
             /\ d.type = "DECIDE_PURCHASE" /\ d.agent = a
  BY TypeNames DEF Decision, Event, EventOK, EventRecord, Indices, ChainTypes

LEMMA DecisionAfterSale ==
  ASSUME NEW a \in Agents, now' \in Nat, nextOrdinal \in Nat
  PROVE  LET d == Decision(a, now' + 10, 5, nextOrdinal + NAgents + 1)
         IN /\ EventOK(d)
            /\ d.t = now' + 10 /\ d.ord = nextOrdinal + NAgents + 1
  <1> DEFINE t == now' + 10
             o == nextOrdinal + NAgents + 1
  <1>1. t \in Nat /\ o \in Nat
    BY AgentBound, Sums
  <1> HIDE DEF t, o
  <1>2. LET d == Decision(a, t, 5, o) IN EventOK(d) /\ d.t = t /\ d.ord = o
    BY <1>1, DecisionOK
  <1>3. QED
    BY <1>2 DEF t, o

LEMMA DecisionNumbered ==
  ASSUME NEW a \in Agents, NEW delay, NEW k, now' + delay \in Nat,
         nextOrdinal + k \in Nat
  PROVE  LET d == Decision(a, now' + delay, 5, nextOrdinal + k)
         IN EventOK(d) /\ d.t = now' + delay /\ d.ord = nextOrdinal + k
  <1> DEFINE t == now' + delay
             o == nextOrdinal + k
  <1>1. t \in Nat /\ o \in Nat
    OBVIOUS
  <1> HIDE DEF t, o
  <1>2. LET d == Decision(a, t, 5, o) IN EventOK(d) /\ d.t = t /\ d.ord = o
    BY <1>1, DecisionOK
  <1>3. QED
    BY <1>2 DEF t, o

LEMMA DecayOK ==
  ASSUME NEW a \in Agents, NEW t \in Nat, NEW o \in Nat
  PROVE  LET d == DecayEvent(a, t, o)
         IN  /\ EventOK(d) /\ d.t = t /\ d.ord = o
             /\ d.type = "INFLUENCE_DECAY" /\ d.agent = a
  BY TypeNames
  DEF DecayEvent, Event, EventOK, EventRecord, Indices, ChainTypes

LEMMA OfferParts ==
  ASSUME NEW o \in Offers
  PROVE  o[1] \in Shops /\ o[2] \in Items /\ o = <<o[1], o[2]>>
  BY MarketAssumption

LEMMA ChainOK ==
  ASSUME NEW e, EventOK(e), e.agent \in Agents, nextOrdinal \in Nat,
         NEW type \in ChainTypes, NEW t \in Nat, NEW p \in Nat \ {0},
         NEW o \in Offers, NEW n \in Nat
  PROVE  LET d == Step(e, type, t, p, o, n)
         IN  /\ EventOK(d) /\ d.t = t /\ d.ord = nextOrdinal
             /\ d.type = type /\ d.agent = e.agent /\ OfferOf(d) = o
  BY TypeNames, OfferParts
  DEF Step, Event, OfferOf, EventOK, EventRecord, Indices, ChainTypes

LEMMA OneNew ==
  ASSUME NEW e, NEW d, EventOK(d), d.t >= now', d.ord = nextOrdinal,
         nextOrdinal \in Nat, Schedule(e, {d}, 1)
  PROVE  New({d})
  <1>1. IsFiniteSet({d})
    BY FS_Singleton
  <1>2. nextOrdinal' = nextOrdinal + 1
    BY DEF Schedule
  <1>3. QED
    BY <1>1, <1>2 DEF New

LEMMA NoneNew == New({})
  BY FS_EmptySet DEF New

(***************************************************************************)
(* TypeOK and QueueWellFormed are preserved together, one lemma per        *)
(* handler: the types of the handler's own variables, and the events it    *)
(* schedules.                                                              *)
(***************************************************************************)
Typed == TypeOK /\ QueueWellFormed

LEMMA Popped ==
  ASSUME Typed, NEW e \in queue, NEW type, Pop(e, type)
  PROVE  /\ EventOK(e) /\ e.type = type
         /\ now' = e.t /\ now' \in Nat /\ processed' \in Nat
         /\ nextOrdinal \in Nat /\ processed \in Nat
         /\ phase = "running"
  BY EventFields DEF Typed, TypeOK, QueueWellFormed, Pop, Due

KernelOK ==
  /\ QueueWellFormed
  /\ phase \in {"running", "ended", "halted"}
  /\ now \in Nat /\ processed \in Nat /\ nextOrdinal \in Nat
  /\ queue \subseteq EventRecord

LEMMA KernelTyped ==
  ASSUME Typed, NEW e \in queue, NEW type, Pop(e, type),
         NEW S, NEW k \in Nat, Schedule(e, S, k), New(S)
  PROVE  KernelOK'
  <1>1. QueueWellFormed'
    BY ScheduleKeepsQueue DEF Typed, TypeOK
  <1>2. queue' \subseteq EventRecord
    BY <1>1, EventFields DEF QueueWellFormed
  <1>3. QED
    BY <1>1, <1>2, Popped DEF Typed, TypeOK, Schedule, KernelOK

LEMMA NothingScheduled ==
  ASSUME Typed, NEW e \in queue, NEW type, Pop(e, type), Schedule(e, {}, 0)
  PROVE  KernelOK'
  BY NoneNew, KernelTyped

LEMMA DecisionScheduled ==
  ASSUME Typed, NEW e \in queue, NEW type, Pop(e, type),
         NEW a \in Agents, NEW delay \in Nat, NEW p \in Nat \ {0},
         Schedule(e, {Decision(a, now' + delay, p, nextOrdinal)}, 1)
  PROVE  KernelOK'
  <1> DEFINE d == Decision(a, now' + delay, p, nextOrdinal)
  <1>1. now' + delay \in Nat /\ now' + delay >= now' /\ nextOrdinal \in Nat
    BY Popped
  <1>2. EventOK(d) /\ d.t = now' + delay /\ d.ord = nextOrdinal
    BY <1>1, DecisionOK
  <1> HIDE DEF d
  <1>3. New({d})
    BY <1>1, <1>2, OneNew DEF d
  <1>4. QED
    BY <1>3, KernelTyped DEF d

LEMMA StepScheduled ==
  ASSUME Typed, NEW e \in queue, NEW type, Pop(e, type), e.agent \in Agents,
         NEW next \in ChainTypes, NEW t \in Nat, t >= now',
         NEW p \in Nat \ {0}, NEW o \in Offers, NEW n \in Nat,
         Schedule(e, {Step(e, next, t, p, o, n)}, 1)
  PROVE  KernelOK'
  <1> DEFINE d == Step(e, next, t, p, o, n)
  <1>1. nextOrdinal \in Nat /\ EventOK(e)
    BY Popped
  <1>2. EventOK(d) /\ d.t = t /\ d.ord = nextOrdinal
    BY <1>1, ChainOK
  <1> HIDE DEF d
  <1>3. New({d})
    BY <1>1, <1>2, OneNew DEF d
  <1>4. QED
    BY <1>3, KernelTyped DEF d

LEMMA SimStartTyped ==
  ASSUME Typed, NEW e \in queue, SimStart(e)
  PROVE  Typed'
  <1> DEFINE D == [a \in Agents |-> Decision(a, 0, 10, nextOrdinal + a)]
             S == {Decision(a, 0, 10, nextOrdinal + a) : a \in Agents}
  <1>1. now' = 0 /\ nextOrdinal \in Nat
    BY Popped DEF SimStart, EventOK, SimStartEvent, Event
  <1>2. Schedule(e, S, NAgents) /\ Pop(e, "SIM_START")
    BY DEF SimStart
  <1>3. New(S)
    <2>1. IsFiniteSet(S)
      <3>1. D \in Surjection(Agents, S)
        BY DEF Surjection
      <3>2. QED
        BY <3>1, AgentsFinite, FS_Surjection
    <2>2. \A n \in S : \E a \in Agents :
             n = Decision(a, 0, 10, nextOrdinal + a)
             /\ EventOK(n) /\ n.t = 0 /\ n.ord = nextOrdinal + a
      BY <1>1, AgentsFinite, DecisionOK
    <2>3. nextOrdinal' = nextOrdinal + NAgents
      BY <1>2 DEF Schedule
    <2> HIDE DEF S
    <2>4. \A n \in S : /\ EventOK(n) /\ n.t >= now'
                      /\ n.ord >= nextOrdinal /\ n.ord < nextOrdinal'
      <3> SUFFICES ASSUME NEW n \in S
                   PROVE  /\ EventOK(n) /\ n.t >= now'
                          /\ n.ord >= nextOrdinal /\ n.ord < nextOrdinal'
        OBVIOUS
      <3>1. PICK a \in Agents :
              EventOK(n) /\ n.t = 0 /\ n.ord = nextOrdinal + a
        BY <2>2
      <3>2. QED
        BY <1>1, <2>3, <3>1, AgentBound
    <2>5. \A n, m \in S : n.ord = m.ord => n = m
      BY <1>1, <2>2, AgentsFinite
    <2>6. QED
      BY <2>1, <2>4, <2>5 DEF New
  <1>4. QED
    BY <1>2, <1>3, KernelTyped, AgentBound
    DEF SimStart, Typed, TypeOK, KernelOK, wallet, speech

LEMMA DecidePurchaseTyped ==
  ASSUME Typed, NEW e \in queue, DecidePurchase(e)
  PROVE  Typed'
  <1>1. Pop(e, "DECIDE_PURCHASE")
    BY DEF DecidePurchase
  <1>2. e.agent \in Agents /\ now' \in Nat
    BY <1>1, Popped DEF EventOK
  <1>3. KernelOK'
    <2>1. CASE Choose(e)
      <3>1. PICK o \in Offers :
              Schedule(e, {Step(e, "MOVE_START", now', 8, o, 0)}, 1)
        BY <2>1 DEF Choose, Candidates
      <3>2. QED
        BY <1>1, <1>2, <3>1, StepScheduled DEF ChainTypes
    <2>2. CASE NothingToBuy(e)
      BY <1>1, <1>2, <2>2, DecisionScheduled DEF NothingToBuy
    <2>3. QED
      BY <2>1, <2>2 DEF DecidePurchase
  <1>4. memories' \in [Agents -> SUBSET Memory]
    BY <1>2 DEF Typed, TypeOK, DecidePurchase, DecayMemories, Fresh
  <1>5. QED
    BY <1>3, <1>4
    DEF DecidePurchase, Typed, TypeOK, KernelOK, wallet, speech

LEMMA ChainEvent ==
  ASSUME Typed, NEW e \in queue, NEW type \in ChainTypes, Pop(e, type)
  PROVE  /\ e.agent \in Agents /\ e.shop \in Shops /\ e.item \in Items
         /\ OfferOf(e) \in Offers /\ e.span \in Nat
  BY Popped, EventFields, OfferParts DEF EventOK, OfferOf, ChainTypes

LEMMA MoveStartTyped ==
  ASSUME Typed, NEW e \in queue, MoveStart(e)
  PROVE  Typed'
  <1>1. Pop(e, "MOVE_START")
    BY DEF MoveStart
  <1>2. e.agent \in Agents /\ e.shop \in Shops /\ OfferOf(e) \in Offers
    BY <1>1, ChainEvent DEF ChainTypes
  <1>3. PICK jitter \in TravelJitter :
          LET travel == Distance[location[e.agent]][ShopLocation[e.shop]]
                          * Pace[e.agent] + jitter
          IN Schedule(e, {Step(e, "MOVE_ARRIVE", now' + travel, 8, OfferOf(e),
                               travel)}, 1)
    BY DEF MoveStart
  <1> DEFINE travel == Distance[location[e.agent]][ShopLocation[e.shop]]
                         * Pace[e.agent] + jitter
  <1>4. travel \in Nat
    <2>1. location[e.agent] \in Locations /\ ShopLocation[e.shop] \in Locations
      BY <1>2, MarketAssumption DEF Typed, TypeOK
    <2>2. Distance[location[e.agent]][ShopLocation[e.shop]] \in Nat
      BY <2>1, MarketAssumption
    <2>3. Pace[e.agent] \in Nat /\ jitter \in Nat
      BY <1>2, MarketAssumption
    <2>4. QED
      BY <2>2, <2>3
  <1>5. Schedule(e, {Step(e, "MOVE_ARRIVE", now' + travel, 8, OfferOf(e),
                          travel)}, 1)
    BY <1>3
  <1> HIDE DEF travel
  <1>6. KernelOK'
    <2>1. now' + travel \in Nat /\ now' + travel >= now'
      <3>1. now' \in Nat
        BY <1>1, Popped
      <3>2. QED
        BY <1>4, <3>1, Sums
    <2>2. QED
      BY <1>1, <1>2, <1>4, <1>5, <2>1, StepScheduled DEF ChainTypes
  <1>7. QED
    BY <1>6 DEF MoveStart, Typed, TypeOK, KernelOK, wallet, speech

LEMMA MoveArriveTyped ==
  ASSUME Typed, NEW e \in queue, MoveArrive(e)
  PROVE  Typed'
  <1>1. Pop(e, "MOVE_ARRIVE")
    BY DEF MoveArrive
  <1>2. /\ e.agent \in Agents /\ e.shop \in Shops /\ OfferOf(e) \in Offers
        /\ e.span \in Nat /\ now' \in Nat
    BY <1>1, ChainEvent, Popped DEF ChainTypes
  <1>3. KernelOK'
    BY <1>1, <1>2, StepScheduled DEF ChainTypes, MoveArrive
  <1>4. location' \in [Agents -> Locations]
    BY <1>2, MarketAssumption DEF MoveArrive, Typed, TypeOK
  <1>5. timeWalking' \in [Agents -> Nat]
    <2>1. /\ timeWalking \in [Agents -> Nat]
          /\ timeWalking' = [timeWalking EXCEPT ![e.agent] = @ + e.span]
      BY DEF MoveArrive, Typed, TypeOK
    <2>2. timeWalking[e.agent] + e.span \in Nat
      BY <1>2, <2>1
    <2>3. QED
      BY <2>1, <2>2
  <1>6. QED
    BY <1>3, <1>4, <1>5 DEF MoveArrive, Typed, TypeOK, KernelOK, wallet, speech

LEMMA QueueEnterTyped ==
  ASSUME Typed, NEW e \in queue, QueueEnter(e)
  PROVE  Typed'
  <1>1. Pop(e, "QUEUE_ENTER")
    BY DEF QueueEnter
  <1>2. /\ e.agent \in Agents /\ e.shop \in Shops /\ OfferOf(e) \in Offers
        /\ now' \in Nat
    BY <1>1, ChainEvent, Popped DEF ChainTypes
  <1>3. CASE Admit(e)
    <2>1. PICK jitter \in ServiceJitter :
            LET service == ServiceTime[e.shop] + jitter
            IN /\ queueSize' = [queueSize EXCEPT ![e.shop] = @ + 1]
               /\ timeQueueing' = [timeQueueing EXCEPT ![e.agent] = @ + service]
               /\ Schedule(e, {Step(e, "PURCHASE", now' + service, 7,
                                    OfferOf(e), 0)}, 1)
      BY <1>3 DEF Admit
    <2> DEFINE service == ServiceTime[e.shop] + jitter
    <2>2. service \in Nat /\ now' + service \in Nat /\ now' + service >= now'
      <3>1. ServiceTime[e.shop] \in Nat /\ jitter \in Nat
        BY <1>2, MarketAssumption
      <3>2. QED
        BY <1>2, <3>1
    <2>6. /\ queueSize' = [queueSize EXCEPT ![e.shop] = @ + 1]
          /\ timeQueueing' = [timeQueueing EXCEPT ![e.agent] = @ + service]
          /\ Schedule(e, {Step(e, "PURCHASE", now' + service, 7, OfferOf(e),
                               0)}, 1)
      BY <2>1
    <2> HIDE DEF service
    <2>3. KernelOK'
      BY <1>1, <1>2, <2>2, <2>6, StepScheduled DEF ChainTypes
    <2>4. queueSize' \in [Shops -> Nat] /\ timeQueueing' \in [Agents -> Nat]
      <3>1. queueSize \in [Shops -> Nat] /\ timeQueueing \in [Agents -> Nat]
        BY DEF Typed, TypeOK
      <3>2. queueSize[e.shop] + 1 \in Nat /\ timeQueueing[e.agent] + service \in Nat
        BY <1>2, <2>2, <3>1
      <3>3. QED
        BY <2>6, <3>1, <3>2
    <2>5. QED
      BY <2>3, <2>4 DEF QueueEnter, Typed, TypeOK, KernelOK, wallet, speech
  <1>4. CASE TurnAway(e)
    <2>1. KernelOK'
      BY <1>1, <1>2, <1>4, DecisionScheduled DEF TurnAway
    <2>2. QED
      BY <1>4, <2>1
      DEF QueueEnter, TurnAway, Typed, TypeOK, KernelOK, wallet, speech
  <1>5. QED
    BY <1>3, <1>4 DEF QueueEnter

LEMMA MinusOneTyped ==
  ASSUME Typed, NEW e, e.shop \in Shops, LeaveQueue(e)
  PROVE  queueSize' \in [Shops -> Nat]
  BY DEF Typed, TypeOK, LeaveQueue

\* A sale leaves the budget and the stock natural numbers.
LEMMA SaleTyped ==
  ASSUME Typed, NEW e, e.agent \in Agents, OfferOf(e) \in Offers,
         e.item \in Items, SaleStands(e), Pay(e)
  PROVE  /\ budget' \in [Agents -> Nat] /\ spent' \in [Agents -> Nat]
         /\ purchases' \in [Agents -> Seq(Items)] /\ stock' \in [Offers -> Nat]
  <1>1. Price[OfferOf(e)] \in Nat
    BY MarketAssumption
  <1>2. /\ budget[e.agent] \in Nat /\ spent[e.agent] \in Nat
        /\ stock[OfferOf(e)] \in Nat /\ purchases[e.agent] \in Seq(Items)
    BY DEF Typed, TypeOK
  <1>3. /\ budget[e.agent] - Price[OfferOf(e)] \in Nat
        /\ spent[e.agent] + Price[OfferOf(e)] \in Nat
        /\ stock[OfferOf(e)] - 1 \in Nat
    BY <1>1, <1>2 DEF SaleStands, Buyable
  <1>4. Append(purchases[e.agent], e.item) \in Seq(Items)
    BY <1>2
  <1>5. QED
    BY <1>3, <1>4 DEF Pay, Typed, TypeOK

Sighting(e, b) ==
  Event("OBSERVE_PURCHASE", now' + 1, 6, nextOrdinal + b, b, e.agent, e.shop,
        e.item, 0)

Proposal(e, b) ==
  Event("TALK_START", now' + 2, 6, nextOrdinal + NAgents, e.agent, b, e.shop,
        e.item, 0)

LEMMA ObservationOK ==
  ASSUME NEW a \in Agents, NEW b \in Agents, NEW s \in Shops, NEW i \in Items,
         NEW t \in Nat, NEW o \in Nat
  PROVE  LET n == Event("OBSERVE_PURCHASE", t, 6, o, b, a, s, i, 0)
         IN EventOK(n) /\ n.t = t /\ n.ord = o
  BY TypeNames DEF Event, EventOK, EventRecord, Indices, ChainTypes

LEMMA TalkOK ==
  ASSUME NEW a \in Agents, NEW b \in Agents, a # b, NEW s \in Shops,
         NEW i \in Items, NEW t \in Nat, NEW o \in Nat
  PROVE  LET n == Event("TALK_START", t, 6, o, a, b, s, i, 0)
         IN EventOK(n) /\ n.t = t /\ n.ord = o
  BY TypeNames DEF Event, EventOK, EventRecord, Indices, ChainTypes

LEMMA SightingOK ==
  ASSUME NEW e, e.agent \in Agents, e.shop \in Shops, e.item \in Items,
         now' \in Nat, nextOrdinal \in Nat, NEW b \in Agents
  PROVE  /\ EventOK(Sighting(e, b)) /\ Sighting(e, b).t = now' + 1
         /\ Sighting(e, b).ord = nextOrdinal + b
  <1>1. b \in Nat
    BY AgentBound
  <1> DEFINE t == now' + 1
             o == nextOrdinal + b
  <1>2. t \in Nat /\ o \in Nat
    BY <1>1, Sums
  <1>3. Sighting(e, b) =
          Event("OBSERVE_PURCHASE", t, 6, o, b, e.agent, e.shop, e.item, 0)
    BY DEF Sighting
  <1> HIDE DEF t, o
  <1>4. EventOK(Sighting(e, b)) /\ Sighting(e, b).t = t /\ Sighting(e, b).ord = o
    BY <1>2, <1>3, ObservationOK
  <1>5. QED
    BY <1>4 DEF t, o

LEMMA ProposalOK ==
  ASSUME NEW e, e.agent \in Agents, e.shop \in Shops, e.item \in Items,
         now' \in Nat, nextOrdinal \in Nat, NEW b \in Agents, b # e.agent
  PROVE  /\ EventOK(Proposal(e, b)) /\ Proposal(e, b).t = now' + 2
         /\ Proposal(e, b).ord = nextOrdinal + NAgents
  <1>1. NAgents \in Nat
    BY AgentBound
  <1>2. now' + 2 \in Nat /\ nextOrdinal + NAgents \in Nat
    BY <1>1, Sums
  <1>3. QED
    BY <1>2, TalkOK DEF Proposal

LEMMA SaleSchedules ==
  ASSUME Typed, NEW e \in queue, Pop(e, "PURCHASE"), Sale(e),
         budget'[e.agent] \in Nat
  PROVE  KernelOK'
  <1>1. /\ e.agent \in Agents /\ e.shop \in Shops /\ e.item \in Items
        /\ now' \in Nat /\ nextOrdinal \in Nat
    BY ChainEvent, Popped DEF ChainTypes
  <1> DEFINE a == e.agent
             seen == {Sighting(e, b) : b \in Observers(a)}
             talk(chats) == {Proposal(e, b) : b \in chats}
             d == Decision(a, now' + 10, 5, nextOrdinal + NAgents + 1)
             again == IF budget'[a] > LowBudget THEN {d} ELSE {}
  <1>2. PICK chats \in {{}, TalkPartners(a)} :
          Schedule(e, seen \cup talk(chats) \cup again, NAgents + 2)
    BY DEF Sale, Sighting, Proposal
  <1>3. /\ Observers(a) \subseteq Agents \ {a}
        /\ chats \subseteq Observers(a)
        /\ IsFiniteSet(Observers(a)) /\ IsFiniteSet(chats)
    BY <1>2, AgentsFinite, FS_Subset DEF Observers, TalkPartners
  <1>4. IsFiniteSet(seen)
    <2>1. [b \in Observers(a) |-> Sighting(e, b)] \in Surjection(Observers(a), seen)
      BY DEF Surjection
    <2>2. QED
      BY <1>3, <2>1, FS_Surjection
  <1>5. IsFiniteSet(talk(chats))
    <2>1. [b \in chats |-> Proposal(e, b)] \in Surjection(chats, talk(chats))
      BY DEF Surjection
    <2>2. QED
      BY <1>3, <2>1, FS_Surjection
  <1>6. IsFiniteSet(again)
    BY FS_Singleton, FS_EmptySet
  <1>7. \A b, c \in chats : b = c
    BY <1>2, <1>3, AgentBound DEF TalkPartners
  <1>8. EventOK(d) /\ d.t = now' + 10 /\ d.ord = nextOrdinal + NAgents + 1
    BY <1>1, DecisionAfterSale
  <1> HIDE DEF d
  <1>9. \A n \in seen : \E b \in Agents :
           n = Sighting(e, b) /\ EventOK(n) /\ n.t = now' + 1 /\ n.ord = nextOrdinal + b
    BY <1>1, <1>3, SightingOK
  <1>10. \A n \in talk(chats) : \E b \in chats :
           n = Proposal(e, b) /\ EventOK(n) /\ n.t = now' + 2
           /\ n.ord = nextOrdinal + NAgents
    BY <1>1, <1>3, ProposalOK
  <1>11. \A n \in again : n = d
    OBVIOUS
  <1>12. nextOrdinal' = nextOrdinal + NAgents + 2
    BY <1>1, <1>2, AgentBound DEF Schedule
  <1> HIDE DEF seen, talk, again
  <1>13. New(seen \cup talk(chats) \cup again)
    <2> DEFINE S == seen \cup talk(chats) \cup again
    <2>1. IsFiniteSet(S)
      BY <1>4, <1>5, <1>6, FS_Union
    <2>2. \A n \in seen : /\ EventOK(n) /\ n.t >= now'
                         /\ n.ord >= nextOrdinal /\ n.ord < nextOrdinal + NAgents
      BY <1>1, <1>9, AgentBound
    <2>3. \A n \in talk(chats) : EventOK(n) /\ n.t >= now' /\ n.ord = nextOrdinal + NAgents
      BY <1>1, <1>10
    <2>4. \A n \in S : /\ EventOK(n) /\ n.t >= now'
                      /\ n.ord >= nextOrdinal /\ n.ord < nextOrdinal'
      <3>1. \A n \in again : /\ EventOK(n) /\ n.t >= now'
                            /\ n.ord >= nextOrdinal /\ n.ord < nextOrdinal'
        BY <1>1, <1>8, <1>11, <1>12, AgentBound
      <3>2. \A n \in seen : n.ord < nextOrdinal'
        <4>1. \A n \in seen : n.ord \in Nat
          BY <2>2, EventFields
        <4>2. QED
          BY <1>1, <1>12, <2>2, <4>1, AgentBound
      <3>3. \A n \in talk(chats) : /\ n.ord >= nextOrdinal
                                  /\ n.ord < nextOrdinal'
        BY <1>1, <1>12, <2>3, AgentBound
      <3>4. QED
        BY <2>2, <2>3, <3>1, <3>2, <3>3
    <2>5. \A n, m \in S : n.ord = m.ord => n = m
      <3>1. \A n, m \in seen : n.ord = m.ord => n = m
        BY <1>1, <1>9, AgentBound
      <3>2. \A n, m \in talk(chats) : n = m
        BY <1>7, <1>10
      <3>3. \A n \in seen, m \in talk(chats) \cup again : n.ord # m.ord
        BY <1>1, <1>8, <1>11, <2>2, <2>3, AgentBound
      <3>4. \A n \in talk(chats), m \in again : n.ord # m.ord
        BY <1>1, <1>8, <1>11, <2>3, AgentBound
      <3>5. QED
        BY <1>11, <3>1, <3>2, <3>3, <3>4
    <2> HIDE DEF S
    <2>6. New(S)
      BY <2>1, <2>4, <2>5 DEF New
    <2>7. QED
      BY <2>6 DEF S
  <1>14. QED
    BY <1>2, <1>13, KernelTyped, AgentBound

LEMMA PurchaseTyped ==
  ASSUME Typed, NEW e \in queue, Purchase(e)
  PROVE  Typed'
  <1>1. Pop(e, "PURCHASE") /\ LeaveQueue(e)
    BY DEF Purchase
  <1>2. /\ e.agent \in Agents /\ e.shop \in Shops /\ e.item \in Items
        /\ OfferOf(e) \in Offers /\ now' \in Nat
    BY <1>1, ChainEvent, Popped DEF ChainTypes
  <1>3. queueSize' \in [Shops -> Nat]
    BY <1>1, <1>2, MinusOneTyped
  <1>4. CASE SaleStands(e) /\ Sale(e)
    <2>1. /\ budget' \in [Agents -> Nat] /\ spent' \in [Agents -> Nat]
          /\ purchases' \in [Agents -> Seq(Items)] /\ stock' \in [Offers -> Nat]
      BY <1>2, <1>4, SaleTyped DEF Sale
    <2>2. KernelOK'
      BY <1>1, <1>2, <1>4, <2>1, SaleSchedules
    <2>3. QED
      BY <1>3, <2>1, <2>2 DEF Purchase, Typed, TypeOK, KernelOK, speech
  <1>5. CASE NoSale(e)
    <2>1. KernelOK'
      BY <1>1, <1>2, <1>5, DecisionScheduled DEF NoSale
    <2>2. QED
      BY <1>3, <1>5, <2>1
      DEF Purchase, NoSale, Typed, TypeOK, KernelOK, wallet, speech
  <1>6. QED
    BY <1>4, <1>5 DEF Purchase

LEMMA TwoNew ==
  ASSUME NEW c, NEW d, EventOK(c), EventOK(d), c.t >= now', d.t >= now',
         nextOrdinal \in Nat, c.ord = nextOrdinal, d.ord = nextOrdinal + 1,
         NEW e, NEW S \in SUBSET {c, d}, NEW k \in Nat, k >= 2, Schedule(e, S, k)
  PROVE  New(S)
  <1>1. IsFiniteSet(S)
    <2>1. IsFiniteSet({c} \cup {d})
      BY FS_Singleton, FS_Union
    <2>2. S \subseteq {c} \cup {d}
      OBVIOUS
    <2>3. QED
      BY <2>1, <2>2, FS_Subset
  <1>2. nextOrdinal' = nextOrdinal + k
    BY DEF Schedule
  <1>3. \A n \in S : /\ EventOK(n) /\ n.t >= now'
                    /\ n.ord >= nextOrdinal /\ n.ord < nextOrdinal'
    BY <1>2
  <1>4. \A n, m \in S : n.ord = m.ord => n = m
    OBVIOUS
  <1>5. QED
    BY <1>1, <1>3, <1>4 DEF New

LEMMA ThreeNew ==
  ASSUME NEW b, NEW c, NEW d, EventOK(b), EventOK(c), EventOK(d),
         b.t >= now', c.t >= now', d.t >= now', nextOrdinal \in Nat,
         b.ord = nextOrdinal, c.ord = nextOrdinal + 1, d.ord = nextOrdinal + 2,
         NEW e, NEW S \in SUBSET {b, c, d}, Schedule(e, S, 3)
  PROVE  New(S)
  <1>1. IsFiniteSet(S)
    <2>1. IsFiniteSet({b} \cup {c})
      BY FS_Singleton, FS_Union
    <2>2. IsFiniteSet(({b} \cup {c}) \cup {d})
      BY <2>1, FS_Singleton, FS_Union
    <2>3. S \subseteq ({b} \cup {c}) \cup {d}
      OBVIOUS
    <2>4. QED
      BY <2>2, <2>3, FS_Subset
  <1>2. nextOrdinal' = nextOrdinal + 3
    BY DEF Schedule
  <1>3. \A n \in S : /\ EventOK(n) /\ n.t >= now'
                    /\ n.ord >= nextOrdinal /\ n.ord < nextOrdinal'
    BY <1>2
  <1>4. \A n, m \in S : n.ord = m.ord => n = m
    OBVIOUS
  <1>5. QED
    BY <1>1, <1>3, <1>4 DEF New

LEMMA InfluenceTyped ==
  ASSUME now' \in Nat, processed \in Nat, NEW x \in Items \cup Tags, NEW k \in Nat
  PROVE  Influence(x, k) \in Memory
  <1>1. now' + MemoryLife \in Nat
    BY Sums DEF MemoryLife
  <1>2. QED
    BY <1>1 DEF Influence, Memory

LEMMA RememberTyped ==
  ASSUME Typed, NEW b, NEW M \in SUBSET Memory, Remember(b, M)
  PROVE  memories' \in [Agents -> SUBSET Memory]
  <1>1. \A N \in SUBSET Memory : \A k : Newest(N, k) \in SUBSET Memory
    BY DEF Newest
  <1>2. CASE b \in Agents
    <2>1. memories[b] \cup M \in SUBSET Memory
      BY <1>2 DEF Typed, TypeOK
    <2>2. Newest(memories[b] \cup M, slots[b]) \in SUBSET Memory
      BY <1>1, <2>1
    <2>3. QED
      BY <2>2 DEF Remember, Typed, TypeOK
  <1>3. CASE b \notin Agents
    BY <1>3 DEF Remember, Typed, TypeOK
  <1>4. QED
    BY <1>2, <1>3

LEMMA ObservePurchaseTyped ==
  ASSUME Typed, NEW e \in queue, ObservePurchase(e)
  PROVE  Typed'
  <1> DEFINE b == e.agent
             c == DecayEvent(b, now' + MemoryLife, nextOrdinal)
             d == Decision(b, now' + 6, 5, nextOrdinal + 1)
             again == IF talking[b] THEN {} ELSE {d}
             S == {c} \cup again
             tags == ItemTags[e.item]
             learnt == {Influence(e.item, 0)} \cup
                       {Influence(tags[k], k) : k \in DOMAIN tags}
  <1>1. /\ Pop(e, "OBSERVE_PURCHASE") /\ Remember(b, learnt)
        /\ Schedule(e, S, 2)
    BY DEF ObservePurchase
  <1>2. /\ b \in Agents /\ e.item \in Items /\ now' \in Nat
        /\ nextOrdinal \in Nat /\ processed \in Nat
    BY <1>1, Popped DEF EventOK
  <1>3. /\ now' + MemoryLife \in Nat /\ now' + 6 \in Nat
        /\ now' + MemoryLife >= now' /\ now' + 6 >= now'
        /\ nextOrdinal + 1 \in Nat
    BY <1>2, Sums DEF MemoryLife
  <1>4. /\ EventOK(c) /\ c.t >= now' /\ c.ord = nextOrdinal
        /\ EventOK(d) /\ d.t >= now' /\ d.ord = nextOrdinal + 1
    <2>1. EventOK(c) /\ c.t = now' + MemoryLife /\ c.ord = nextOrdinal
      BY <1>2, <1>3, DecayOK
    <2>2. EventOK(d) /\ d.t = now' + 6 /\ d.ord = nextOrdinal + 1
      BY <1>2, <1>3, DecisionOK
    <2> HIDE DEF c, d
    <2>3. QED
      BY <1>3, <2>1, <2>2
  <1>5. learnt \in SUBSET Memory
    <2>1. tags \in Seq(Tags)
      BY <1>2, MarketAssumption
    <2>2. \A k \in DOMAIN tags : k \in Nat /\ tags[k] \in Tags
      BY <2>1
    <2>3. QED
      BY <1>2, <2>2, InfluenceTyped
  <1> HIDE DEF c, d, learnt
  <1>6. S \in SUBSET {c, d}
    OBVIOUS
  <1> HIDE DEF S
  <1>7. New(S)
    BY <1>1, <1>2, <1>4, <1>6, TwoNew
  <1>8. KernelOK'
    BY <1>1, <1>7, KernelTyped
  <1>9. memories' \in [Agents -> SUBSET Memory]
    BY <1>1, <1>5, RememberTyped
  <1>10. QED
    BY <1>8, <1>9 DEF ObservePurchase, Typed, TypeOK, KernelOK, wallet, speech

LEMMA TalkEvent ==
  ASSUME Typed, NEW e \in queue, NEW type \in {"TALK_START", "TALK_END"},
         Pop(e, type)
  PROVE  /\ e.agent \in Agents /\ e.source \in Agents /\ e.agent # e.source
         /\ e.shop \in Shops \cup {None} /\ e.item \in Items \cup {None}
         /\ e.span \in Nat
  BY Popped DEF EventOK, EventRecord

LEMMA TalkEndOK ==
  ASSUME NEW e, EventOK(e), e.agent \in Agents, e.source \in Agents \ {e.agent},
         NEW t \in Nat, NEW n \in Nat, nextOrdinal \in Nat
  PROVE  LET d == Step(e, "TALK_END", t, 6, OfferOf(e), n)
         IN EventOK(d) /\ d.t = t /\ d.ord = nextOrdinal
  BY TypeNames DEF Step, OfferOf, Event, EventOK, EventRecord, Indices, ChainTypes

LEMMA TalkStartTyped ==
  ASSUME Typed, NEW e \in queue, TalkStart(e)
  PROVE  Typed'
  <1>1. Pop(e, "TALK_START")
    BY DEF TalkStart
  <1>2. /\ e.agent \in Agents /\ e.source \in Agents \ {e.agent}
        /\ EventOK(e) /\ now' \in Nat /\ nextOrdinal \in Nat
    BY <1>1, TalkEvent, Popped
  <1>3. CASE Converse(e)
    <2>1. PICK duration \in TalkTime :
            Schedule(e, {Step(e, "TALK_END", now' + duration, 6, OfferOf(e),
                              duration)}, 1)
      BY <1>3 DEF Converse
    <2>2. duration \in Nat
      BY MarketAssumption
    <2> DEFINE t == now' + duration
               d == Step(e, "TALK_END", t, 6, OfferOf(e), duration)
    <2>3. t \in Nat /\ t >= now'
      BY <1>2, <2>2, Sums
    <2>4. Schedule(e, {d}, 1)
      BY <2>1
    <2> HIDE DEF t
    <2>5. EventOK(d) /\ d.t = t /\ d.ord = nextOrdinal
      BY <1>2, <2>2, <2>3, TalkEndOK
    <2> HIDE DEF d
    <2>6. New({d})
      BY <1>2, <2>3, <2>4, <2>5, OneNew
    <2>7. KernelOK'
      BY <1>1, <2>4, <2>6, KernelTyped
    <2>8. talking' \in [Agents -> BOOLEAN]
      BY <1>3 DEF Converse, Typed, TypeOK
    <2>9. partner' \in [Agents -> Indices]
      BY <1>2, <1>3 DEF Converse, Typed, TypeOK, Indices
    <2>10. QED
      BY <2>7, <2>8, <2>9 DEF TalkStart, Typed, TypeOK, KernelOK, wallet
  <1>4. CASE Busy(e)
    <2>1. KernelOK'
      BY <1>1, <1>4, NothingScheduled DEF Busy
    <2>2. QED
      BY <1>4, <2>1 DEF TalkStart, Busy, Typed, TypeOK, KernelOK, wallet
  <1>5. QED
    BY <1>3, <1>4 DEF TalkStart

LEMMA TalkEndTyped ==
  ASSUME Typed, NEW e \in queue, TalkEnd(e)
  PROVE  Typed'
  <1> DEFINE a == e.agent
             b == e.source
             c == DecayEvent(b, now' + MemoryLife, nextOrdinal)
             d1 == Decision(a, now' + 4, 5, nextOrdinal + 1)
             d2 == Decision(b, now' + 4, 5, nextOrdinal + 2)
             decay == IF purchases[a] # <<>> THEN {c} ELSE {}
             S == decay \cup {d1, d2}
  <1>1. /\ Pop(e, "TALK_END") /\ HearOf(e) /\ Schedule(e, S, 3)
        /\ timeTalking' = [x \in Agents |-> IF x \in {a, b}
                                           THEN timeTalking[x] + e.span
                                           ELSE timeTalking[x]]
        /\ talking' = [talking EXCEPT ![a] = FALSE, ![b] = FALSE]
        /\ partner' = [partner EXCEPT ![a] = None, ![b] = None]
    BY DEF TalkEnd
  <1>2. /\ a \in Agents /\ b \in Agents /\ a # b /\ e.span \in Nat
        /\ now' \in Nat /\ nextOrdinal \in Nat /\ processed \in Nat
    BY <1>1, Popped, TalkEvent
  <1>3. /\ now' + MemoryLife \in Nat /\ now' + 4 \in Nat
        /\ now' + MemoryLife >= now' /\ now' + 4 >= now'
        /\ nextOrdinal + 1 \in Nat /\ nextOrdinal + 2 \in Nat
    BY <1>2, Sums DEF MemoryLife
  <1>4. /\ EventOK(c) /\ c.t >= now' /\ c.ord = nextOrdinal
        /\ EventOK(d1) /\ d1.t >= now' /\ d1.ord = nextOrdinal + 1
        /\ EventOK(d2) /\ d2.t >= now' /\ d2.ord = nextOrdinal + 2
    <2>1. EventOK(c) /\ c.t = now' + MemoryLife /\ c.ord = nextOrdinal
      BY <1>2, <1>3, DecayOK
    <2> DEFINE d(x, k) == Decision(x, now' + 4, 5, nextOrdinal + k)
    <2>2. \A x \in Agents, k \in Nat :
             nextOrdinal + k \in Nat =>
               /\ EventOK(d(x, k)) /\ d(x, k).t = now' + 4
               /\ d(x, k).ord = nextOrdinal + k
      BY <1>3, DecisionNumbered
    <2>3. /\ EventOK(d1) /\ d1.t = now' + 4 /\ d1.ord = nextOrdinal + 1
          /\ EventOK(d2) /\ d2.t = now' + 4 /\ d2.ord = nextOrdinal + 2
      BY <1>2, <1>3, <2>2
    <2> HIDE DEF c, d1, d2
    <2>4. QED
      BY <1>3, <2>1, <2>2, <2>3
  <1> HIDE DEF c, d1, d2
  <1>5. S \in SUBSET {c, d1, d2}
    OBVIOUS
  <1> HIDE DEF S
  <1>6. New(S)
    BY <1>1, <1>2, <1>4, <1>5, ThreeNew
  <1>7. KernelOK'
    BY <1>1, <1>6, KernelTyped
  <1>8. talking' \in [Agents -> BOOLEAN]
    BY <1>1 DEF Typed, TypeOK
  <1>9. partner' \in [Agents -> Indices]
    BY <1>1 DEF Typed, TypeOK, Indices
  <1>10. timeTalking' \in [Agents -> Nat]
    <2>1. timeTalking \in [Agents -> Nat]
      BY DEF Typed, TypeOK
    <2>2. \A x \in Agents : timeTalking[x] + e.span \in Nat
      BY <1>2, <2>1
    <2>3. QED
      BY <1>1, <2>1, <2>2
  <1>11. memories' \in [Agents -> SUBSET Memory]
    <2>1. CASE purchases[a] # <<>>
      <3>1. purchases[a] \in Seq(Items)
        BY <1>2 DEF Typed, TypeOK
      <3>2. purchases[a][Len(purchases[a])] \in Items
        BY <2>1, <3>1
      <3>3. Influence(purchases[a][Len(purchases[a])], 0) \in Memory
        BY <1>2, <3>2, InfluenceTyped
      <3>4. QED
        BY <1>1, <2>1, <3>3, RememberTyped DEF HearOf
    <2>2. CASE purchases[a] = <<>>
      BY <1>1, <2>2 DEF HearOf, Typed, TypeOK
    <2>3. QED
      BY <2>1, <2>2
  <1>12. QED
    BY <1>7, <1>8, <1>9, <1>10, <1>11
    DEF TalkEnd, Typed, TypeOK, KernelOK, wallet

LEMMA InfluenceDecayTyped ==
  ASSUME Typed, NEW e \in queue, InfluenceDecay(e)
  PROVE  Typed'
  <1>1. Pop(e, "INFLUENCE_DECAY") /\ Schedule(e, {}, 0)
    BY DEF InfluenceDecay
  <1>2. e.agent \in Agents
    BY <1>1, Popped DEF EventOK
  <1>3. KernelOK'
    BY <1>1, NothingScheduled
  <1>4. memories' \in [Agents -> SUBSET Memory]
    BY <1>2 DEF Typed, TypeOK, InfluenceDecay, DecayMemories, Fresh
  <1>5. QED
    BY <1>3, <1>4 DEF InfluenceDecay, Typed, TypeOK, KernelOK, wallet, speech

\* Dropping events keeps the queue well formed.
LEMMA FewerEvents ==
  ASSUME QueueWellFormed, queue' \subseteq queue, nextOrdinal' = nextOrdinal,
         \A f \in queue : f.t >= now'
  PROVE  QueueWellFormed'
  <1>1. IsFiniteSet(queue')
    BY FS_Subset DEF QueueWellFormed
  <1>2. QED
    BY <1>1 DEF QueueWellFormed

LEMMA SimEndTyped ==
  ASSUME Typed, NEW e \in queue, SimEnd(e)
  PROVE  Typed'
  <1>1. Pop(e, "SIM_END") /\ queue' = queue \ {e} /\ nextOrdinal' = nextOrdinal
    BY DEF SimEnd
  <1>2. \A f \in queue : f.t >= now'
    BY <1>1, PopAdvances DEF Typed
  <1>3. QueueWellFormed'
    BY <1>1, <1>2, FewerEvents DEF Typed
  <1>4. QED
    BY <1>1, <1>3, Popped DEF SimEnd, Typed, TypeOK, wallet, speech

LEMMA LeaveLoopTyped ==
  ASSUME Typed, LeaveLoop
  PROVE  Typed'
  <1>1. /\ queue' \subseteq queue /\ nextOrdinal' = nextOrdinal /\ now' = now
        /\ phase' \in {"running", "ended", "halted"}
    BY DEF LeaveLoop
  <1>2. QueueWellFormed'
    BY <1>1, FewerEvents DEF Typed, QueueWellFormed
  <1>3. QED
    BY <1>1, <1>2 DEF LeaveLoop, Typed, TypeOK, wallet, speech

\* A crash leaves nothing to be typed but what was there.
LEMMA EraseFromEmptyTyped ==
  ASSUME Typed, NEW e \in queue, EraseFromEmpty(e)
  PROVE  Typed'
  <1>1. QueueWellFormed'
    BY DEF EraseFromEmpty, Typed, QueueWellFormed
  <1>2. QED
    BY <1>1 DEF EraseFromEmpty, Typed, TypeOK, wallet, speech

LEMMA InitTyped == Init => Typed
  <1> SUFFICES ASSUME Init PROVE Typed
    OBVIOUS
  <1>1. EventOK(SimStartEvent) /\ EventOK(SimEndEvent)
    BY TypeNames, LimitsAreNat
    DEF SimStartEvent, SimEndEvent, Event, EventOK, EventRecord, Indices,
        ChainTypes
  <1>2. /\ SimStartEvent.t = 0 /\ SimStartEvent.ord = 1
        /\ SimEndEvent.t = MaxTime /\ SimEndEvent.ord = 2
    BY DEF SimStartEvent, SimEndEvent, Event
  <1>3. IsFiniteSet({SimStartEvent} \cup {SimEndEvent})
    BY FS_Singleton, FS_Union
  <1>4. QueueWellFormed
    <2>1. queue = {SimStartEvent} \cup {SimEndEvent}
      BY DEF Init
    <2>2. now = 0 /\ nextOrdinal = 3
      BY DEF Init
    <2>3. QED
      BY <1>1, <1>2, <1>3, <2>1, <2>2, LimitsAreNat DEF QueueWellFormed
  <1>5. queue \subseteq EventRecord
    BY <1>4, EventFields DEF QueueWellFormed
  <1>6. QED
    BY <1>4, <1>5, MarketAssumption DEF Init, Typed, TypeOK, Indices

LEMMA NextTyped == Typed /\ [Next]_vars => Typed'
  <1> SUFFICES ASSUME Typed, [Next]_vars PROVE Typed'
    OBVIOUS
  <1>1. ASSUME NEW e \in queue, Handle(e) PROVE Typed'
    BY <1>1, SimStartTyped, DecidePurchaseTyped, MoveStartTyped,
       MoveArriveTyped, QueueEnterTyped, PurchaseTyped, ObservePurchaseTyped,
       TalkStartTyped, TalkEndTyped, InfluenceDecayTyped, SimEndTyped
    DEF Handle
  <1>2. CASE UNCHANGED vars
    BY <1>2 DEF vars, kernel, wallet, speech, Typed, TypeOK, QueueWellFormed
  <1>3. QED
    BY <1>1, <1>2, LeaveLoopTyped, EraseFromEmptyTyped DEF Next

(***************************************************************************)
(* The types of all variables hold in every reachable state of every       *)
(* market; in particular budgets and stocks never become negative.         *)
(***************************************************************************)
THEOREM TypeCorrect == Spec => []TypeOK
  <1>1. Typed => TypeOK
    BY DEF Typed
  <1>2. QED
    BY <1>1, InitTyped, NextTyped, PTL DEF Spec

(***************************************************************************)
(* Whatever the handlers schedule, no pending event lies in the past, and  *)
(* every one carries the agent, shop and item its handler will index with. *)
(***************************************************************************)
THEOREM QueueAlwaysWellFormed == Spec => []QueueWellFormed
  <1>1. Typed => QueueWellFormed
    BY DEF Typed
  <1>2. QED
    BY <1>1, InitTyped, NextTyped, PTL DEF Spec

(***************************************************************************)
(* Safety of the event loop and of conversations, and the refinement of    *)
(* MarketService.  Each proof strengthens its property with Typed, the     *)
(* inductive invariant above.                                              *)
(***************************************************************************)

LEMMA HandlePops ==
  ASSUME NEW e, Handle(e)
  PROVE  Pop(e, e.type)
  BY DEF Handle, SimStart, DecidePurchase, MoveStart, MoveArrive, QueueEnter,
         Purchase, ObservePurchase, TalkStart, TalkEnd, InfluenceDecay, SimEnd,
         Pop, Due

LEMMA PopOf ==
  ASSUME NEW e, NEW type, Pop(e, type)
  PROVE  e.type = type /\ phase = "running" /\ ~LimitReached /\ IsTop(e)
  BY DEF Pop, Due

(***************************************************************************)
(* What a handler does to the queue: the event itself leaves it, every     *)
(* other event stays, and what is new has one of the given types.          *)
(***************************************************************************)
Replaces(e, types) ==
  /\ queue \ {e} \subseteq queue'
  /\ \A n \in queue' : n \in queue \ {e} \/ n.type \in types

LEMMA ScheduleReplaces ==
  ASSUME NEW e, NEW S, NEW k, Schedule(e, S, k), NEW types,
         \A n \in S : n.type \in types
  PROVE  Replaces(e, types)
  BY DEF Schedule, Replaces

LEMMA EventTypesOf ==
  /\ \A a, t, p, o : Decision(a, t, p, o).type = "DECIDE_PURCHASE"
  /\ \A a, t, o : DecayEvent(a, t, o).type = "INFLUENCE_DECAY"
  /\ \A e, type, t, p, o, n : Step(e, type, t, p, o, n).type = type
  BY DEF Decision, DecayEvent, Step, Event

LEMMA HandlerReplaces ==
  ASSUME NEW e
  PROVE  /\ SimStart(e) => Replaces(e, {"DECIDE_PURCHASE"})
         /\ DecidePurchase(e) => Replaces(e, {"MOVE_START", "DECIDE_PURCHASE"})
         /\ MoveStart(e) => Replaces(e, {"MOVE_ARRIVE"})
         /\ MoveArrive(e) => Replaces(e, {"QUEUE_ENTER"})
         /\ QueueEnter(e) => Replaces(e, {"PURCHASE", "DECIDE_PURCHASE"})
         /\ Purchase(e) => Replaces(e, {"OBSERVE_PURCHASE", "TALK_START",
                                        "DECIDE_PURCHASE"})
         /\ ObservePurchase(e) => Replaces(e, {"INFLUENCE_DECAY",
                                               "DECIDE_PURCHASE"})
         /\ TalkStart(e) => Replaces(e, {"TALK_END"})
         /\ TalkEnd(e) => Replaces(e, {"INFLUENCE_DECAY", "DECIDE_PURCHASE"})
         /\ InfluenceDecay(e) => Replaces(e, {})
         /\ SimEnd(e) => Replaces(e, {})
  <1>1. SimStart(e) => Replaces(e, {"DECIDE_PURCHASE"})
    BY EventTypesOf, ScheduleReplaces DEF SimStart
  <1>2. DecidePurchase(e) => Replaces(e, {"MOVE_START", "DECIDE_PURCHASE"})
    <2> SUFFICES ASSUME DecidePurchase(e)
                 PROVE  Replaces(e, {"MOVE_START", "DECIDE_PURCHASE"})
      OBVIOUS
    <2>1. CASE Choose(e)
      BY <2>1, EventTypesOf, ScheduleReplaces DEF Choose
    <2>2. CASE NothingToBuy(e)
      BY <2>2, EventTypesOf, ScheduleReplaces DEF NothingToBuy
    <2>3. QED
      BY <2>1, <2>2 DEF DecidePurchase
  <1>3. MoveStart(e) => Replaces(e, {"MOVE_ARRIVE"})
    <2> SUFFICES ASSUME MoveStart(e) PROVE Replaces(e, {"MOVE_ARRIVE"})
      OBVIOUS
    <2>1. PICK t, n : Schedule(e, {Step(e, "MOVE_ARRIVE", t, 8, OfferOf(e), n)}, 1)
      BY DEF MoveStart
    <2>2. QED
      BY <2>1, EventTypesOf, ScheduleReplaces
  <1>4. MoveArrive(e) => Replaces(e, {"QUEUE_ENTER"})
    BY EventTypesOf, ScheduleReplaces DEF MoveArrive
  <1>5. QueueEnter(e) => Replaces(e, {"PURCHASE", "DECIDE_PURCHASE"})
    <2> SUFFICES ASSUME QueueEnter(e)
                 PROVE  Replaces(e, {"PURCHASE", "DECIDE_PURCHASE"})
      OBVIOUS
    <2>1. CASE Admit(e)
      BY <2>1, EventTypesOf, ScheduleReplaces DEF Admit
    <2>2. CASE TurnAway(e)
      BY <2>2, EventTypesOf, ScheduleReplaces DEF TurnAway
    <2>3. QED
      BY <2>1, <2>2 DEF QueueEnter
  <1>6. Purchase(e) => Replaces(e, {"OBSERVE_PURCHASE", "TALK_START",
                                    "DECIDE_PURCHASE"})
    <2> DEFINE types == {"OBSERVE_PURCHASE", "TALK_START", "DECIDE_PURCHASE"}
    <2> SUFFICES ASSUME Purchase(e)
                 PROVE  Replaces(e, types)
      OBVIOUS
    <2>1. CASE NoSale(e)
      BY <2>1, EventTypesOf, ScheduleReplaces DEF NoSale
    <2>2. CASE Sale(e)
      <3>1. PICK chats \in {{}, TalkPartners(e.agent)} :
              Schedule(e, {Sighting(e, b) : b \in Observers(e.agent)}
                            \cup {Proposal(e, b) : b \in chats}
                            \cup (IF budget'[e.agent] > LowBudget
                                  THEN {Decision(e.agent, now' + 10, 5,
                                                 nextOrdinal + NAgents + 1)}
                                  ELSE {}),
                       NAgents + 2)
        BY <2>2 DEF Sale, Sighting, Proposal
      <3>2. \A b : /\ Sighting(e, b).type \in types
                   /\ Proposal(e, b).type \in types
        BY DEF Sighting, Proposal, Event
      <3>3. QED
        BY <3>1, <3>2, EventTypesOf, ScheduleReplaces
    <2>3. QED
      BY <2>1, <2>2 DEF Purchase
  <1>7. ObservePurchase(e) => Replaces(e, {"INFLUENCE_DECAY",
                                           "DECIDE_PURCHASE"})
    BY EventTypesOf, ScheduleReplaces DEF ObservePurchase
  <1>8. TalkStart(e) => Replaces(e, {"TALK_END"})
    <2> SUFFICES ASSUME TalkStart(e) PROVE Replaces(e, {"TALK_END"})
      OBVIOUS
    <2>1. CASE Converse(e)
      BY <2>1, EventTypesOf, ScheduleReplaces DEF Converse
    <2>2. CASE Busy(e)
      BY <2>2, ScheduleReplaces DEF Busy
    <2>3. QED
      BY <2>1, <2>2 DEF TalkStart
  <1>9. TalkEnd(e) => Replaces(e, {"INFLUENCE_DECAY", "DECIDE_PURCHASE"})
    BY EventTypesOf, ScheduleReplaces DEF TalkEnd
  <1>10. InfluenceDecay(e) => Replaces(e, {})
    BY EventTypesOf, ScheduleReplaces DEF InfluenceDecay
  <1>11. SimEnd(e) => Replaces(e, {})
    BY DEF SimEnd, Replaces
  <1>12. QED
    BY <1>1, <1>2, <1>3, <1>4, <1>5, <1>6, <1>7, <1>8, <1>9, <1>10, <1>11

(***************************************************************************)
(* Time and the limit on events.                                           *)
(***************************************************************************)
WithinLimits == now <= MaxTime /\ processed <= MaxEvents

LEMMA StepWithinLimits ==
  ASSUME Typed, WithinLimits, Next
  PROVE  now' >= now /\ now' <= MaxTime /\ processed' <= MaxEvents
  <1>1. ASSUME NEW e \in queue, Handle(e)
        PROVE  now' >= now /\ now' <= MaxTime /\ processed' <= MaxEvents
    <2>1. Pop(e, e.type)
      BY <1>1, HandlePops
    <2>2. now' = e.t /\ e.t >= now /\ e.t <= MaxTime
      BY <2>1 DEF Pop, Due, Typed, QueueWellFormed
    <2>3. processed' = processed + 1 /\ processed < MaxEvents
      BY <2>1, LimitsAreNat DEF Pop, Due, LimitReached, Typed, TypeOK
    <2>4. QED
      BY <2>2, <2>3, LimitsAreNat DEF Typed, TypeOK
  <1>2. ASSUME LeaveLoop
        PROVE  now' >= now /\ now' <= MaxTime /\ processed' <= MaxEvents
    BY <1>2 DEF LeaveLoop, WithinLimits, Typed, TypeOK
  <1>3. ASSUME NEW e \in queue, EraseFromEmpty(e)
        PROVE  now' >= now /\ now' <= MaxTime /\ processed' <= MaxEvents
    BY <1>3 DEF EraseFromEmpty, WithinLimits, Typed, TypeOK
  <1>4. QED
    BY <1>1, <1>2, <1>3 DEF Next

(***************************************************************************)
(* Simulated time never runs backwards nor past MaxTime, and the limit on  *)
(* events is never exceeded.                                               *)
(***************************************************************************)
THEOREM TimeAndLimitHold == Spec => TimeAndLimit
  <1>1. Init => Typed /\ WithinLimits
    BY InitTyped, LimitsAreNat DEF Init, WithinLimits
  <1>2. Typed /\ WithinLimits /\ [Next]_vars => (Typed /\ WithinLimits)'
    <2>1. ASSUME Typed, WithinLimits, Next PROVE WithinLimits'
      BY <2>1, StepWithinLimits, LimitsAreNat DEF WithinLimits
    <2>2. ASSUME WithinLimits, UNCHANGED vars PROVE WithinLimits'
      BY <2>2 DEF WithinLimits, vars, kernel
    <2>3. QED
      BY <2>1, <2>2, NextTyped
  <1>3. Typed /\ WithinLimits /\ [Next]_vars =>
          [now' >= now /\ now' <= MaxTime /\ processed' <= MaxEvents]_vars
    BY StepWithinLimits
  <1>4. QED
    BY <1>1, <1>2, <1>3, PTL DEF Spec, TimeAndLimit

(***************************************************************************)
(* SIM_END stays pending to the end, and ends the run after everything     *)
(* that is due.                                                            *)
(***************************************************************************)
LEMMA SimEndFields ==
  /\ SimEndEvent.t = MaxTime /\ SimEndEvent.prio = -100
  /\ SimEndEvent.type = "SIM_END"
  /\ SimStartEvent.type = "SIM_START" /\ SimStartEvent.prio = 100
  BY DEF SimEndEvent, SimStartEvent, Event

LEMMA LeaveHalts ==
  ASSUME Typed, NothingDueIsDropped, LeaveLoop
  PROVE  phase' = "halted" /\ queue' = queue
  <1>1. SimEndEvent \in queue
    BY DEF LeaveLoop, NothingDueIsDropped
  <1>2. \A e \in queue : IsTop(e) => e.t <= MaxTime
    <2>1. \A e \in queue : e.t \in Nat
      BY EventFields DEF Typed, QueueWellFormed
    <2>2. QED
      BY <1>1, <2>1, SimEndFields, LimitsAreNat DEF IsTop, Before
  <1>3. LimitReached
    <2>1. \A e \in queue : e.t \in Nat
      BY EventFields DEF Typed, QueueWellFormed
    <2>2. QED
      BY <1>1, <1>2, <2>1, LimitsAreNat DEF LeaveLoop, MustLeave
  <1>4. QED
    BY <1>1, <1>3 DEF LeaveLoop

LEMMA SimEndIsLast ==
  ASSUME Typed, NEW e \in queue, SimEnd(e)
  PROVE  \A f \in queue \ {e} : f.t > MaxTime
  <1>1. e = SimEndEvent /\ IsTop(e)
    BY Popped DEF SimEnd, EventOK, Pop, Due
  <1>2. SUFFICES ASSUME NEW f \in queue, f # e PROVE f.t > MaxTime
    OBVIOUS
  <1>3. EventOK(f) /\ f.t \in Nat /\ f.prio \in Int
    BY EventFields DEF Typed, QueueWellFormed
  <1>4. f.prio > -100
    BY <1>1, <1>2, <1>3, SimEndFields DEF EventOK
  <1>5. Before(e, f)
    BY <1>1, <1>2 DEF IsTop
  <1>6. QED
    BY <1>1, <1>3, <1>4, <1>5, SimEndFields, LimitsAreNat DEF Before

LEMMA NothingDroppedNext ==
  ASSUME Typed, NothingDueIsDropped, [Next]_vars
  PROVE  NothingDueIsDropped'
  <1>1. ASSUME NEW e \in queue, SimEnd(e) PROVE NothingDueIsDropped'
    <2>1. phase' = "ended" /\ queue' = queue \ {e}
      BY <1>1 DEF SimEnd
    <2>2. QED
      BY <1>1, <2>1, SimEndIsLast DEF NothingDueIsDropped
  <1>2. ASSUME NEW e \in queue, Handle(e), ~SimEnd(e) PROVE NothingDueIsDropped'
    <2>1. /\ phase' = phase /\ phase = "running" /\ e.type # "SIM_END"
          /\ queue \ {e} \subseteq queue'
      BY <1>2 DEF Handle, SimStart, DecidePurchase, MoveStart, MoveArrive,
         QueueEnter, Purchase, ObservePurchase, TalkStart, TalkEnd,
         InfluenceDecay, Pop, Due, Schedule, Choose, NothingToBuy, Admit, TurnAway,
         Sale, NoSale, Converse, Busy
    <2>2. SimEndEvent \in queue'
      BY <2>1, SimEndFields DEF NothingDueIsDropped
    <2>3. QED
      BY <2>1, <2>2 DEF NothingDueIsDropped
  <1>3. ASSUME LeaveLoop PROVE NothingDueIsDropped'
    BY <1>3, LeaveHalts DEF NothingDueIsDropped
  <1>4. CASE UNCHANGED vars
    BY <1>4 DEF vars, kernel, NothingDueIsDropped
  <1>5. ASSUME NEW e \in queue, EraseFromEmpty(e) PROVE NothingDueIsDropped'
    BY <1>5 DEF EraseFromEmpty, NothingDueIsDropped
  <1>6. QED
    BY <1>1, <1>2, <1>3, <1>4, <1>5 DEF Next

LEMMA NothingDroppedInit == Init => NothingDueIsDropped
  BY DEF Init, NothingDueIsDropped

(***************************************************************************)
(* A run that ends by SIM_END has handled every event due by MaxTime: the  *)
(* priority of SIM_END is below that of any event a handler schedules.     *)
(***************************************************************************)
THEOREM NothingDueIsEverDropped == Spec => []NothingDueIsDropped
  BY InitTyped, NextTyped, NothingDroppedInit, NothingDroppedNext, PTL DEF Spec

(***************************************************************************)
(* Conversations.  Only TALK_START and TALK_END touch who talks to whom or *)
(* which TALK_END events are pending.                                      *)
(***************************************************************************)
LEMMA PendingKept ==
  ASSUME NEW e, NEW types, Replaces(e, types), NEW type, e.type # type,
         type \notin types
  PROVE  Pending(type)' = Pending(type)
  BY DEF Replaces, Pending

LEMMA PairedKept ==
  ASSUME ConversationsPaired, talking' = talking, partner' = partner,
         Pending("TALK_END")' = Pending("TALK_END")
  PROVE  ConversationsPaired'
  BY DEF ConversationsPaired

LEMMA TalkStartPaired ==
  ASSUME Typed, ConversationsPaired, NEW e \in queue, TalkStart(e)
  PROVE  ConversationsPaired'
  <1>1. e.type = "TALK_START" /\ Pop(e, "TALK_START")
    BY DEF TalkStart, Pop, Due
  <1>2. CASE Busy(e)
    <2>1. Replaces(e, {})
      BY <1>2, ScheduleReplaces DEF Busy
    <2>2. Pending("TALK_END")' = Pending("TALK_END")
      BY <1>1, <2>1, PendingKept
    <2>3. QED
      BY <1>2, <2>2, PairedKept DEF Busy
  <1>3. CASE MayConverse(e) /\ Converse(e)
    <2> DEFINE a == e.agent
               b == e.source
    <2>1. /\ a \in Agents /\ b \in Agents /\ a # b
          /\ ~talking[a] /\ ~talking[b]
      BY <1>1, <1>3, TalkEvent DEF MayConverse, CanTalk
    <2>2. PICK n : /\ queue' = (queue \ {e}) \cup {n} /\ n.type = "TALK_END"
                   /\ n.agent = a /\ n.source = b
      <3>1. PICK t, d : Schedule(e, {Step(e, "TALK_END", t, 6, OfferOf(e), d)}, 1)
        BY <1>3 DEF Converse
      <3> DEFINE m == Step(e, "TALK_END", t, 6, OfferOf(e), d)
      <3>2. m.type = "TALK_END" /\ m.agent = a /\ m.source = b
        BY DEF Step, Event
      <3>3. queue' = (queue \ {e}) \cup {m}
        BY <3>1 DEF Schedule
      <3> HIDE DEF m
      <3>4. QED
        BY <3>2, <3>3
    <2>3. Pending("TALK_END")' = Pending("TALK_END") \cup {n}
      BY <1>1, <2>2 DEF Pending
    <2>4. /\ talking' = [talking EXCEPT ![a] = TRUE, ![b] = TRUE]
          /\ partner' = [partner EXCEPT ![a] = b, ![b] = a]
      BY <1>3 DEF Converse
    <2>5. /\ talking \in [Agents -> BOOLEAN] /\ partner \in [Agents -> Indices]
          /\ None \notin Agents
      BY MarketAssumption DEF Typed, TypeOK
    <2> HIDE DEF a, b
    <2>6. /\ talking'[a] /\ talking'[b] /\ partner'[a] = b /\ partner'[b] = a
          /\ \A x \in Agents \ {a, b} : /\ talking'[x] = talking[x]
                                        /\ partner'[x] = partner[x]
      BY <2>1, <2>4, <2>5
    <2>7. partner[a] = None /\ partner[b] = None
      BY <2>1, <2>5 DEF ConversationsPaired
    <2>8. \A f \in Pending("TALK_END") : /\ f.agent \in Agents \ {a, b}
                                         /\ f.source \in Agents \ {a, b}
      <3> SUFFICES ASSUME NEW f \in Pending("TALK_END")
                   PROVE  /\ f.agent \in Agents \ {a, b}
                          /\ f.source \in Agents \ {a, b}
        OBVIOUS
      <3>1. f.agent \in Agents /\ f.source \in Agents
        BY DEF Pending, Typed, QueueWellFormed, EventOK
      <3>2. partner[f.agent] = f.source
        BY DEF ConversationsPaired
      <3>3. talking[f.agent] /\ partner[f.source] = f.agent
        BY <2>5, <3>1, <3>2 DEF ConversationsPaired
      <3>4. QED
        BY <2>5, <2>7, <3>1, <3>2, <3>3
    <2>9. \A x \in Agents \ {a, b} : talking[x] => partner[x] \in Agents \ {a, b}
      BY <2>5, <2>7 DEF ConversationsPaired, Indices
    <2>10. \A x \in Agents :
             /\ talking'[x] <=> partner'[x] # None
             /\ talking'[x] => /\ partner'[x] # x
                               /\ partner'[partner'[x]] = x
                               /\ \E f \in Pending("TALK_END")' :
                                    {f.agent, f.source} = {x, partner'[x]}
      <3> SUFFICES ASSUME NEW x \in Agents
                   PROVE
             /\ talking'[x] <=> partner'[x] # None
             /\ talking'[x] => /\ partner'[x] # x
                               /\ partner'[partner'[x]] = x
                               /\ \E f \in Pending("TALK_END")' :
                                    {f.agent, f.source} = {x, partner'[x]}
        OBVIOUS
      <3>1. CASE x \in {a, b}
        BY <2>1, <2>2, <2>3, <2>5, <2>6, <3>1
      <3>2. CASE x \notin {a, b}
        BY <2>3, <2>6, <2>9, <3>2 DEF ConversationsPaired
      <3>3. QED
        BY <3>1, <3>2
    <2>11. \A f \in Pending("TALK_END")' : partner'[f.agent] = f.source
      BY <2>2, <2>3, <2>6, <2>8 DEF ConversationsPaired
    <2>12. \A f, g \in Pending("TALK_END")' :
             f.agent \in {g.agent, g.source} => f = g
      BY <2>2, <2>3, <2>8 DEF ConversationsPaired
    <2>13. QED
      BY <2>10, <2>11, <2>12 DEF ConversationsPaired
  <1>4. QED
    BY <1>2, <1>3 DEF TalkStart

LEMMA TalkEndPaired ==
  ASSUME Typed, ConversationsPaired, NEW e \in queue, TalkEnd(e)
  PROVE  ConversationsPaired'
  <1> DEFINE a == e.agent
             b == e.source
  <1>1. Pop(e, "TALK_END") /\ e.type = "TALK_END"
    BY DEF TalkEnd, Pop, Due
  <1>2. a \in Agents /\ b \in Agents /\ a # b
    BY <1>1, TalkEvent
  <1>3. Pending("TALK_END")' = Pending("TALK_END") \ {e}
    <2>1. Replaces(e, {"INFLUENCE_DECAY", "DECIDE_PURCHASE"})
      BY HandlerReplaces
    <2>2. e \notin queue'
      BY <1>1, <2>1 DEF Replaces
    <2>3. QED
      BY <2>1, <2>2 DEF Replaces, Pending
  <1>4. /\ talking' = [talking EXCEPT ![a] = FALSE, ![b] = FALSE]
        /\ partner' = [partner EXCEPT ![a] = None, ![b] = None]
    BY DEF TalkEnd
  <1>5. /\ talking \in [Agents -> BOOLEAN] /\ partner \in [Agents -> Indices]
        /\ None \notin Agents
    BY MarketAssumption DEF Typed, TypeOK
  <1>6. e \in Pending("TALK_END")
    BY <1>1 DEF Pending
  <1>7. partner[a] = b /\ partner[b] = a
    BY <1>2, <1>5, <1>6 DEF ConversationsPaired
  <1> HIDE DEF a, b
  <1>8. /\ ~talking'[a] /\ ~talking'[b] /\ partner'[a] = None
        /\ partner'[b] = None
        /\ \A x \in Agents \ {a, b} : /\ talking'[x] = talking[x]
                                      /\ partner'[x] = partner[x]
    BY <1>2, <1>4, <1>5
  <1>9. \A x \in Agents \ {a, b} : talking[x] => partner[x] \in Agents \ {a, b}
    BY <1>5, <1>7 DEF ConversationsPaired, Indices
  <1>10. \A f \in Pending("TALK_END") \ {e} : f.agent \in Agents \ {a, b}
    <2> SUFFICES ASSUME NEW f \in Pending("TALK_END"), f # e
                 PROVE  f.agent \in Agents \ {a, b}
      OBVIOUS
    <2>1. f.agent \in Agents
      BY DEF Pending, Typed, QueueWellFormed, EventOK
    <2>2. QED
      BY <1>6, <2>1 DEF ConversationsPaired, a, b
  <1>11. \A x \in Agents :
           /\ talking'[x] <=> partner'[x] # None
           /\ talking'[x] => /\ partner'[x] # x
                             /\ partner'[partner'[x]] = x
                             /\ \E f \in Pending("TALK_END")' :
                                  {f.agent, f.source} = {x, partner'[x]}
    <2> SUFFICES ASSUME NEW x \in Agents
                 PROVE
           /\ talking'[x] <=> partner'[x] # None
           /\ talking'[x] => /\ partner'[x] # x
                             /\ partner'[partner'[x]] = x
                             /\ \E f \in Pending("TALK_END")' :
                                  {f.agent, f.source} = {x, partner'[x]}
      OBVIOUS
    <2>1. CASE x \in {a, b}
      BY <1>8, <2>1
    <2>2. CASE x \notin {a, b} /\ talking[x]
      <3>1. PICK f \in Pending("TALK_END") : {f.agent, f.source} = {x, partner[x]}
        BY <2>2 DEF ConversationsPaired
      <3>2. f # e
        BY <2>2, <3>1 DEF a, b
      <3>3. QED
        BY <1>3, <1>8, <1>9, <2>2, <3>1, <3>2 DEF ConversationsPaired
    <2>3. CASE x \notin {a, b} /\ ~talking[x]
      BY <1>8, <2>3 DEF ConversationsPaired
    <2>4. QED
      BY <2>1, <2>2, <2>3
  <1>12. \A f \in Pending("TALK_END")' : partner'[f.agent] = f.source
    BY <1>3, <1>8, <1>10 DEF ConversationsPaired
  <1>13. \A f, g \in Pending("TALK_END")' :
           f.agent \in {g.agent, g.source} => f = g
    BY <1>3 DEF ConversationsPaired
  <1>14. QED
    BY <1>11, <1>12, <1>13 DEF ConversationsPaired

LEMMA PairedNext ==
  ASSUME Typed, NothingDueIsDropped, ConversationsPaired, [Next]_vars
  PROVE  ConversationsPaired'
  <1>1. ASSUME NEW e \in queue, Handle(e), ~TalkStart(e), ~TalkEnd(e)
        PROVE  ConversationsPaired'
    <2>1. talking' = talking /\ partner' = partner
      BY <1>1 DEF Handle, SimStart, DecidePurchase, MoveStart, MoveArrive,
                  QueueEnter, Purchase, ObservePurchase, InfluenceDecay, SimEnd,
                  speech
    <2>2. PICK types : Replaces(e, types) /\ "TALK_END" \notin types
      BY <1>1, HandlerReplaces DEF Handle
    <2>3. e.type # "TALK_END"
      BY <1>1 DEF Handle, SimStart, DecidePurchase, MoveStart, MoveArrive,
                  QueueEnter, Purchase, ObservePurchase, InfluenceDecay, SimEnd,
                  Pop, Due
    <2>4. QED
      BY <2>1, <2>2, <2>3, PendingKept, PairedKept
  <1>2. ASSUME LeaveLoop PROVE ConversationsPaired'
    BY <1>2, LeaveHalts, PairedKept DEF LeaveLoop, speech, Pending
  <1>3. CASE UNCHANGED vars
    BY <1>3, PairedKept DEF vars, kernel, speech, Pending
  <1>4. ASSUME NEW e \in queue, EraseFromEmpty(e) PROVE ConversationsPaired'
    BY <1>4, PairedKept DEF EraseFromEmpty, speech, Pending
  <1>5. QED
    BY <1>1, <1>2, <1>3, <1>4, TalkStartPaired, TalkEndPaired DEF Next

LEMMA PairedInit == Init => ConversationsPaired
  <1> SUFFICES ASSUME Init PROVE ConversationsPaired
    OBVIOUS
  <1>1. Pending("TALK_END") = {}
    BY SimEndFields DEF Init, Pending
  <1>2. \A a \in Agents : ~talking[a] /\ partner[a] = None
    BY DEF Init
  <1>3. QED
    BY <1>1, <1>2 DEF ConversationsPaired

(***************************************************************************)
(* Agents converse in pairs, and every conversation has exactly one        *)
(* TALK_END to come: the test that TALK_START repeats is what keeps two    *)
(* proposals to one agent from cutting each other off.                     *)
(***************************************************************************)
THEOREM ConversationsArePaired == Spec => []ConversationsPaired
  BY InitTyped, NextTyped, NothingDroppedInit, NothingDroppedNext, PairedInit,
     PairedNext, PTL DEF Spec

(***************************************************************************)
(* Nobody drops out.  Each handler of a shopping event schedules the next  *)
(* event of the same chain, unless the agent has run out of money.         *)
(***************************************************************************)
HasNext(a) == \E n \in queue : n.agent = a /\ n.type \in ShoppingTypes

LEMMA NextOf ==
  ASSUME NEW e, NEW a, NEW d, NEW k, Schedule(e, {d}, k), d.agent = a,
         d.type \in ShoppingTypes
  PROVE  HasNext(a)'
  BY DEF Schedule, HasNext

LEMMA DecisionFields ==
  \A a, t, p, o : /\ Decision(a, t, p, o).agent = a
                  /\ Decision(a, t, p, o).type \in ShoppingTypes
  BY DEF Decision, Event, ShoppingTypes

LEMMA StepFields ==
  ASSUME NEW e, NEW type \in ShoppingTypes
  PROVE  \A t, p, o, n : /\ Step(e, type, t, p, o, n).agent = e.agent
                         /\ Step(e, type, t, p, o, n).type \in ShoppingTypes
  BY DEF Step, Event

LEMMA ChainContinues ==
  ASSUME NEW e,
         \/ DecidePurchase(e) \/ MoveStart(e) \/ MoveArrive(e)
         \/ QueueEnter(e) \/ Purchase(e)
  PROVE  budget'[e.agent] > LowBudget => HasNext(e.agent)'
  <1>1. CASE DecidePurchase(e)
    <2>1. CASE Choose(e)
      <3>1. PICK o \in Candidates(e.agent) :
              Schedule(e, {Step(e, "MOVE_START", now', 8, o, 0)}, 1)
        BY <2>1 DEF Choose
      <3>2. QED
        BY <3>1, StepFields, NextOf DEF ShoppingTypes
    <2>2. CASE NothingToBuy(e)
      BY <2>2, DecisionFields, NextOf DEF NothingToBuy
    <2>3. QED
      BY <1>1, <2>1, <2>2 DEF DecidePurchase
  <1>2. CASE MoveStart(e)
    <2>1. PICK t, n : Schedule(e, {Step(e, "MOVE_ARRIVE", t, 8, OfferOf(e), n)}, 1)
      BY <1>2 DEF MoveStart
    <2>2. QED
      BY <2>1, StepFields, NextOf DEF ShoppingTypes
  <1>3. CASE MoveArrive(e)
    BY <1>3, StepFields, NextOf DEF MoveArrive, ShoppingTypes
  <1>4. CASE QueueEnter(e)
    <2>1. CASE Admit(e)
      <3>1. PICK t : Schedule(e, {Step(e, "PURCHASE", t, 7, OfferOf(e), 0)}, 1)
        BY <2>1 DEF Admit
      <3>2. QED
        BY <3>1, StepFields, NextOf DEF ShoppingTypes
    <2>2. CASE TurnAway(e)
      BY <2>2, DecisionFields, NextOf DEF TurnAway
    <2>3. QED
      BY <1>4, <2>1, <2>2 DEF QueueEnter
  <1>5. CASE Purchase(e)
    <2>1. CASE Sale(e)
      <3> SUFFICES ASSUME budget'[e.agent] > LowBudget PROVE HasNext(e.agent)'
        OBVIOUS
      <3> DEFINE d == Decision(e.agent, now' + 10, 5, nextOrdinal + NAgents + 1)
      <3>1. d \in queue'
        BY <2>1 DEF Sale, Schedule
      <3>2. d.agent = e.agent /\ d.type \in ShoppingTypes
        BY DecisionFields
      <3> HIDE DEF d
      <3>3. QED
        BY <3>1, <3>2 DEF HasNext
    <2>2. CASE NoSale(e)
      BY <2>2, DecisionFields, NextOf DEF NoSale
    <2>3. QED
      BY <1>5, <2>1, <2>2 DEF Purchase
  <1>6. QED
    BY <1>1, <1>2, <1>3, <1>4, <1>5

LEMMA BudgetsFall ==
  ASSUME Typed, NEW e \in queue, Handle(e), NEW a \in Agents
  PROVE  budget'[a] <= budget[a]
  <1>0. budget \in [Agents -> Nat]
    BY DEF Typed, TypeOK
  <1>1. CASE Purchase(e) /\ Sale(e)
    <2>1. OfferOf(e) \in Offers
      BY <1>1, ChainEvent DEF Purchase, ChainTypes
    <2>2. Price[OfferOf(e)] \in Nat
      BY <2>1, MarketAssumption
    <2>3. budget' = [budget EXCEPT ![e.agent] = @ - Price[OfferOf(e)]]
      BY <1>1 DEF Sale, Pay
    <2>4. QED
      BY <1>0, <2>2, <2>3
  <1>2. CASE ~(Purchase(e) /\ Sale(e))
    <2>1. budget' = budget
      BY <1>2 DEF Handle, SimStart, DecidePurchase, MoveStart, MoveArrive,
         QueueEnter, Purchase, NoSale, ObservePurchase, TalkStart, TalkEnd,
         InfluenceDecay, SimEnd, wallet
    <2>2. QED
      BY <1>0, <2>1
  <1>3. QED
    BY <1>1, <1>2

LEMMA OpeningDecisions ==
  ASSUME NEW e, SimStart(e), NEW a \in Agents
  PROVE  HasNext(a)'
  <1> DEFINE d == Decision(a, 0, 10, nextOrdinal + a)
  <1>1. d \in queue'
    BY DEF SimStart, Schedule
  <1>2. d.agent = a /\ d.type \in ShoppingTypes
    BY DecisionFields
  <1> HIDE DEF d
  <1>3. QED
    BY <1>1, <1>2 DEF HasNext

LEMMA NobodyDropsOutNext ==
  ASSUME Typed, NothingDueIsDropped, NobodyDropsOut, [Next]_vars
  PROVE  NobodyDropsOut'
  <1>1. ASSUME NEW e \in queue, SimStart(e) PROVE NobodyDropsOut'
    BY <1>1, OpeningDecisions DEF NobodyDropsOut, HasNext
  <1>2. ASSUME NEW e \in queue, Handle(e), ~SimStart(e) PROVE NobodyDropsOut'
    <2>1. SUFFICES ASSUME NEW a \in Agents, budget'[a] > LowBudget,
                          SimStartEvent \notin queue'
                   PROVE  HasNext(a)'
      BY DEF NobodyDropsOut, HasNext
    <2>2. e.type # "SIM_START" /\ phase = "running"
      BY <1>2 DEF Handle, Pop, Due, DecidePurchase, MoveStart, MoveArrive,
         QueueEnter, Purchase, ObservePurchase, TalkStart, TalkEnd,
         InfluenceDecay, SimEnd
    <2>3. queue \ {e} \subseteq queue'
      BY <1>2, HandlerReplaces DEF Handle, Replaces
    <2>4. SimStartEvent \notin queue
      BY <2>1, <2>2, <2>3, SimEndFields
    <2>5. budget[a] > LowBudget
      <3>1. budget[a] \in Nat /\ budget'[a] \in Nat
        BY <1>2, NextTyped DEF Next, Typed, TypeOK
      <3>2. QED
        BY <1>2, <2>1, <3>1, BudgetsFall DEF LowBudget
    <2>6. PICK f \in queue : f.agent = a /\ f.type \in ShoppingTypes
      BY <2>2, <2>4, <2>5 DEF NobodyDropsOut
    <2>7. CASE f # e
      BY <2>3, <2>6, <2>7 DEF HasNext
    <2>8. CASE f = e
      <3>1. \/ DecidePurchase(e) \/ MoveStart(e) \/ MoveArrive(e)
            \/ QueueEnter(e) \/ Purchase(e)
        BY <1>2, <2>6, <2>8 DEF Handle, Pop, Due, ObservePurchase, TalkStart,
           TalkEnd, InfluenceDecay, SimEnd, ShoppingTypes
      <3>2. QED
        BY <2>1, <2>6, <2>8, <3>1, ChainContinues
    <2>9. QED
      BY <2>7, <2>8
  <1>3. ASSUME LeaveLoop PROVE NobodyDropsOut'
    BY <1>3, LeaveHalts DEF NobodyDropsOut
  <1>4. CASE UNCHANGED vars
    BY <1>4 DEF vars, kernel, wallet, NobodyDropsOut
  <1>5. ASSUME NEW e \in queue, EraseFromEmpty(e) PROVE NobodyDropsOut'
    BY <1>5 DEF EraseFromEmpty, NobodyDropsOut
  <1>6. QED
    BY <1>1, <1>2, <1>3, <1>4, <1>5 DEF Next

LEMMA NobodyDropsOutInit == Init => NobodyDropsOut
  BY DEF Init, NobodyDropsOut

(***************************************************************************)
(* While the run goes on, an agent with money left has an event pending    *)
(* that leads to its next decision.                                        *)
(***************************************************************************)
THEOREM NobodyEverDropsOut == Spec => []NobodyDropsOut
  BY InitTyped, NextTyped, NothingDroppedInit, NothingDroppedNext,
     NobodyDropsOutInit, NobodyDropsOutNext, PTL DEF Spec

(***************************************************************************)
(* The counter of a queue.  Only QUEUE_ENTER and PURCHASE touch it or the  *)
(* pending PURCHASE events.                                                *)
(***************************************************************************)
LEMMA CountedKept ==
  ASSUME QueueCounted, queueSize' = queueSize,
         Pending("PURCHASE")' = Pending("PURCHASE")
  PROVE  QueueCounted'
  BY DEF QueueCounted, InService

LEMMA InServiceFinite ==
  ASSUME Typed, NEW s
  PROVE  IsFiniteSet(InService(s))
  <1>1. InService(s) \subseteq queue
    BY DEF InService, Pending
  <1>2. QED
    BY <1>1, FS_Subset DEF Typed, QueueWellFormed

LEMMA QueueEnterCounted ==
  ASSUME Typed, QueueCounted, NEW e \in queue, QueueEnter(e)
  PROVE  QueueCounted'
  <1>1. Pop(e, "QUEUE_ENTER") /\ e.type = "QUEUE_ENTER"
    BY DEF QueueEnter, Pop, Due
  <1>2. e.shop \in Shops /\ nextOrdinal \in Nat
    BY <1>1, ChainEvent, Popped DEF ChainTypes
  <1>3. CASE TurnAway(e)
    <2>1. Replaces(e, {"DECIDE_PURCHASE"})
      BY <1>3, EventTypesOf, ScheduleReplaces DEF TurnAway
    <2>2. Pending("PURCHASE")' = Pending("PURCHASE")
      BY <1>1, <2>1, PendingKept
    <2>3. QED
      BY <1>3, <2>2, CountedKept DEF TurnAway
  <1>4. CASE Admit(e) /\ ~QueueFull(e.shop)
    <2>1. PICK t : Schedule(e, {Step(e, "PURCHASE", t, 7, OfferOf(e), 0)}, 1)
      BY <1>4 DEF Admit
    <2> DEFINE n == Step(e, "PURCHASE", t, 7, OfferOf(e), 0)
               shop == e.shop
    <2>2. n.type = "PURCHASE" /\ n.shop = shop /\ n.ord = nextOrdinal
      BY DEF Step, Event, OfferOf
    <2>3. queue' = (queue \ {e}) \cup {n}
      BY <2>1 DEF Schedule
    <2>4. queueSize' = [queueSize EXCEPT ![shop] = @ + 1]
      BY <1>4 DEF Admit
    <2>5. n \notin queue
      <3>1. \A f \in queue : f.ord \in Nat /\ f.ord < nextOrdinal
        BY EventFields DEF Typed, QueueWellFormed
      <3>2. QED
        BY <1>2, <2>2, <3>1
    <2>6. queueSize \in [Shops -> Nat] /\ QueueCapacity \in [Shops -> Nat]
      BY MarketAssumption DEF Typed, TypeOK
    <2> HIDE DEF n
    <2>7. shop \in Shops /\ ~QueueFull(shop)
      BY <1>2, <1>4
    <2> HIDE DEF shop
    <2>8. InService(shop)' = InService(shop) \cup {n}
      BY <1>1, <2>2, <2>3 DEF InService, Pending
    <2>9. \A s \in Shops \ {shop} : InService(s)' = InService(s)
      BY <1>1, <2>2, <2>3 DEF InService, Pending
    <2>10. Cardinality(InService(shop)') = Cardinality(InService(shop)) + 1
      <3>1. n \notin InService(shop) /\ IsFiniteSet(InService(shop))
        BY <2>5, InServiceFinite DEF InService, Pending
      <3>2. QED
        BY <2>8, <3>1, FS_AddElement
    <2>11. queueSize'[shop] = queueSize[shop] + 1
      BY <2>4, <2>6, <2>7
    <2>12. \A s \in Shops \ {shop} : queueSize'[s] = queueSize[s]
      BY <2>4, <2>6
    <2>13. QueueCapacity[shop] > 0 => queueSize'[shop] <= QueueCapacity[shop]
      BY <2>6, <2>7, <2>11 DEF QueueFull
    <2>14. QED
      BY <2>9, <2>10, <2>11, <2>12, <2>13 DEF QueueCounted
  <1>5. QED
    BY <1>3, <1>4 DEF QueueEnter

LEMMA PurchaseCounted ==
  ASSUME Typed, QueueCounted, NEW e \in queue, Purchase(e)
  PROVE  QueueCounted'
  <1> DEFINE shop == e.shop
  <1>1. Pop(e, "PURCHASE") /\ e.type = "PURCHASE" /\ LeaveQueue(e)
    BY DEF Purchase, Pop, Due
  <1>2. shop \in Shops
    BY <1>1, ChainEvent DEF ChainTypes
  <1>3. Replaces(e, {"OBSERVE_PURCHASE", "TALK_START", "DECIDE_PURCHASE"})
    BY HandlerReplaces
  <1>4. Pending("PURCHASE")' = Pending("PURCHASE") \ {e}
    <2>1. e \notin queue'
      BY <1>1, <1>3 DEF Replaces
    <2>2. QED
      BY <1>3, <2>1 DEF Replaces, Pending
  <1>5. InService(shop)' = InService(shop) \ {e}
    BY <1>4 DEF InService
  <1>6. \A s \in Shops \ {shop} : InService(s)' = InService(s)
    BY <1>4 DEF InService
  <1>7. e \in InService(shop) /\ IsFiniteSet(InService(shop))
    BY <1>1, InServiceFinite DEF InService, Pending
  <1>8. queueSize \in [Shops -> Nat] /\ QueueCapacity \in [Shops -> Nat]
    BY MarketAssumption DEF Typed, TypeOK
  <1>9. Cardinality(InService(shop)') = Cardinality(InService(shop)) - 1
    BY <1>5, <1>7, FS_RemoveElement
  <1>10. queueSize[shop] = Cardinality(InService(shop)) /\ queueSize[shop] > 0
    <2>1. queueSize[shop] = Cardinality(InService(shop))
      BY <1>2 DEF QueueCounted
    <2>2. Cardinality(InService(shop)) # 0
      BY <1>7, FS_EmptySet
    <2>3. QED
      BY <1>2, <1>8, <2>1, <2>2
  <1>11. queueSize' = [queueSize EXCEPT ![shop] = @ - 1]
    BY <1>1, <1>10 DEF LeaveQueue
  <1> HIDE DEF shop
  <1>12. queueSize'[shop] = queueSize[shop] - 1
    BY <1>2, <1>8, <1>11
  <1>13. \A s \in Shops \ {shop} : queueSize'[s] = queueSize[s]
    BY <1>8, <1>11
  <1>14. QueueCapacity[shop] > 0 => queueSize'[shop] <= QueueCapacity[shop]
    BY <1>2, <1>8, <1>12 DEF QueueCounted
  <1>15. QED
    BY <1>6, <1>9, <1>10, <1>12, <1>13, <1>14 DEF QueueCounted

LEMMA CountedNext ==
  ASSUME Typed, NothingDueIsDropped, QueueCounted, [Next]_vars
  PROVE  QueueCounted'
  <1>1. ASSUME NEW e \in queue, Handle(e), ~QueueEnter(e), ~Purchase(e)
        PROVE  QueueCounted'
    <2>1. queueSize' = queueSize
      BY <1>1 DEF Handle, SimStart, DecidePurchase, MoveStart, MoveArrive,
                  ObservePurchase, TalkStart, TalkEnd, InfluenceDecay, SimEnd
    <2>2. PICK types : Replaces(e, types) /\ "PURCHASE" \notin types
      BY <1>1, HandlerReplaces DEF Handle
    <2>3. e.type # "PURCHASE"
      BY <1>1 DEF Handle, SimStart, DecidePurchase, MoveStart, MoveArrive,
                  ObservePurchase, TalkStart, TalkEnd, InfluenceDecay, SimEnd,
                  Pop, Due
    <2>4. QED
      BY <2>1, <2>2, <2>3, PendingKept, CountedKept
  <1>2. ASSUME LeaveLoop PROVE QueueCounted'
    BY <1>2, LeaveHalts, CountedKept DEF LeaveLoop, Pending
  <1>3. CASE UNCHANGED vars
    BY <1>3, CountedKept DEF vars, kernel, Pending
  <1>4. ASSUME NEW e \in queue, EraseFromEmpty(e) PROVE QueueCounted'
    BY <1>4, CountedKept DEF EraseFromEmpty, Pending
  <1>5. QED
    BY <1>1, <1>2, <1>3, <1>4, QueueEnterCounted, PurchaseCounted DEF Next

LEMMA CountedInit == Init => QueueCounted
  <1> SUFFICES ASSUME Init PROVE QueueCounted
    OBVIOUS
  <1>1. \A s : InService(s) = {}
    BY SimEndFields DEF Init, InService, Pending
  <1>2. \A s \in Shops : queueSize[s] = 0 /\ QueueCapacity[s] \in Nat
    BY MarketAssumption DEF Init
  <1>3. QED
    BY <1>1, <1>2, FS_EmptySet DEF QueueCounted

(***************************************************************************)
(* queue_size is the number of customers whose PURCHASE is pending, and    *)
(* never exceeds the capacity of the shop.  At a PURCHASE the guard        *)
(* queue_size > 0 of the code therefore always holds.                      *)
(***************************************************************************)
THEOREM QueuesAreCounted == Spec => []QueueCounted
  BY InitTyped, NextTyped, NothingDroppedInit, NothingDroppedNext, CountedInit,
     CountedNext, PTL DEF Spec

-----------------------------------------------------------------------------
(***************************************************************************)
(* The agent-layer runtime implements MarketService, for every market.     *)
(***************************************************************************)
LEMMA ServiceInit == Init => Service!Init
  <1> SUFFICES ASSUME Init PROVE Service!Init
    OBVIOUS
  <1>1. Pending("PURCHASE") = {}
    BY SimEndFields DEF Init, Pending
  <1>2. Tickets = {}
    BY <1>1 DEF Tickets
  <1>3. QED
    BY <1>2 DEF Init, Service!Init

LEMMA ServiceUntouched ==
  ASSUME budget' = budget, stock' = stock,
         Pending("PURCHASE")' = Pending("PURCHASE")
  PROVE  UNCHANGED Service!vars
  BY DEF Service!vars, Tickets, Ticket

LEMMA TicketFields ==
  \A e : /\ Ticket(e).id = e.ord /\ Ticket(e).agent = e.agent
         /\ Ticket(e).shop = e.shop /\ Ticket(e).item = e.item
         /\ Service!OfferOf(Ticket(e)) = OfferOf(e)
  BY DEF Ticket, Service!OfferOf, OfferOf

\* What the abstract service calls affordable is what the handlers test.
LEMMA BuyableTicket ==
  \A e : Service!CanBuy(Ticket(e)) <=> Buyable(e.agent, OfferOf(e))
  BY TicketFields DEF Service!CanBuy, Buyable

LEMMA RoomForTicket ==
  ASSUME Typed, QueueCounted, NEW s \in Shops, ~QueueFull(s)
  PROVE  Service!HasRoom(s)
  <1> DEFINE T == {k \in Tickets : k.shop = s}
  <1>1. IsFiniteSet(InService(s))
    BY InServiceFinite
  <1>2. [e \in InService(s) |-> Ticket(e)] \in Surjection(InService(s), T)
    <2>1. \A e \in InService(s) : Ticket(e) \in T
      BY TicketFields DEF Tickets, InService
    <2>2. \A k \in T : \E e \in InService(s) : k = Ticket(e)
      BY TicketFields DEF Tickets, InService
    <2>3. QED
      BY <2>1, <2>2 DEF Surjection
  <1>3. IsFiniteSet(T) /\ Cardinality(T) <= Cardinality(InService(s))
    BY <1>1, <1>2, FS_Surjection
  <1>4. /\ Cardinality(T) \in Nat /\ queueSize[s] \in Nat
        /\ QueueCapacity[s] \in Nat /\ queueSize[s] = Cardinality(InService(s))
    <2>1. Cardinality(T) \in Nat
      BY <1>3, FS_CardinalityType
    <2>2. queueSize[s] \in Nat
      BY DEF Typed, TypeOK
    <2>3. QueueCapacity[s] \in Nat
      BY MarketAssumption
    <2>4. queueSize[s] = Cardinality(InService(s))
      BY DEF QueueCounted
    <2> HIDE DEF T
    <2>5. QED
      BY <2>1, <2>2, <2>3, <2>4
  <1> HIDE DEF T
  <1>5. QueueCapacity[s] = 0 \/ Cardinality(T) < QueueCapacity[s]
    <2>1. Cardinality(T) <= queueSize[s]
      BY <1>3, <1>4
    <2>2. QueueCapacity[s] = 0 \/ queueSize[s] < QueueCapacity[s]
      BY <1>4 DEF QueueFull
    <2>3. QED
      BY <1>4, <2>1, <2>2
  <1>6. QED
    <2>1. Service!Cardinality(T) = Cardinality(T)
      BY DEF Service!Cardinality, Cardinality
    <2>2. QED
      BY <1>5, <2>1 DEF T, Service!HasRoom

LEMMA QueueEnterServes ==
  ASSUME Typed, QueueCounted, NEW e \in queue, QueueEnter(e)
  PROVE  [Service!Next]_(Service!vars)
  <1>1. Pop(e, "QUEUE_ENTER") /\ e.type = "QUEUE_ENTER"
    BY DEF QueueEnter, Pop, Due
  <1>2. e.shop \in Shops /\ nextOrdinal \in Nat
    BY <1>1, ChainEvent, Popped DEF ChainTypes
  <1>3. CASE TurnAway(e)
    <2>1. Replaces(e, {"DECIDE_PURCHASE"})
      BY <1>3, EventTypesOf, ScheduleReplaces DEF TurnAway
    <2>2. Pending("PURCHASE")' = Pending("PURCHASE")
      BY <1>1, <2>1, PendingKept
    <2>3. QED
      BY <2>2, ServiceUntouched DEF QueueEnter, wallet
  <1>4. CASE Admit(e) /\ Buyable(e.agent, OfferOf(e)) /\ ~QueueFull(e.shop)
    <2>1. PICK t : Schedule(e, {Step(e, "PURCHASE", t, 7, OfferOf(e), 0)}, 1)
      BY <1>4 DEF Admit
    <2> DEFINE n == Step(e, "PURCHASE", t, 7, OfferOf(e), 0)
               k == Ticket(n)
    <2>2. /\ n.type = "PURCHASE" /\ n.shop = e.shop /\ n.ord = nextOrdinal
          /\ n.agent = e.agent /\ OfferOf(n) = OfferOf(e)
      BY DEF Step, Event, OfferOf
    <2>3. queue' = (queue \ {e}) \cup {n}
      BY <2>1 DEF Schedule
    <2> HIDE DEF n
    <2>4. Pending("PURCHASE")' = Pending("PURCHASE") \cup {n}
      BY <1>1, <2>2, <2>3 DEF Pending
    <2>5. Tickets' = Tickets \cup {k}
      BY <2>4 DEF Tickets, Ticket
    <2>6. Service!CanBuy(k)
      BY <1>4, <2>2, BuyableTicket
    <2>7. Service!HasRoom(k.shop)
      BY <1>2, <1>4, <2>2, RoomForTicket, TicketFields
    <2>8. \A w \in Tickets : w.id # k.id
      <3>1. \A f \in queue : f.ord \in Nat /\ f.ord < nextOrdinal
        BY EventFields DEF Typed, QueueWellFormed
      <3>2. QED
        BY <1>2, <2>2, <3>1, TicketFields DEF Tickets, Pending
    <2>9. budget' = budget /\ stock' = stock
      BY DEF QueueEnter, wallet
    <2>10. k \in Tickets' /\ Service!Enter(k)
      BY <2>5, <2>6, <2>7, <2>8, <2>9 DEF Service!Enter
    <2>11. QED
      BY <2>10 DEF Service!Next
  <1>5. QED
    BY <1>3, <1>4 DEF QueueEnter

LEMMA PurchaseServes ==
  ASSUME Typed, NEW e \in queue, Purchase(e)
  PROVE  Service!Next
  <1> DEFINE k == Ticket(e)
  <1>1. Pop(e, "PURCHASE") /\ e.type = "PURCHASE"
    BY DEF Purchase, Pop, Due
  <1>2. Replaces(e, {"OBSERVE_PURCHASE", "TALK_START", "DECIDE_PURCHASE"})
    BY HandlerReplaces
  <1>3. Pending("PURCHASE")' = Pending("PURCHASE") \ {e}
    <2>1. e \notin queue'
      BY <1>1, <1>2 DEF Replaces
    <2>2. QED
      BY <1>2, <2>1 DEF Replaces, Pending
  <1>4. e \in Pending("PURCHASE")
    BY <1>1 DEF Pending
  <1>5. \A f \in Pending("PURCHASE") : Ticket(f) = k => f = e
    BY TicketFields DEF Pending, Typed, QueueWellFormed
  <1>6. Tickets' = Tickets \ {k}
    <2>1. Tickets' = {Ticket(f) : f \in Pending("PURCHASE") \ {e}}
      BY <1>3 DEF Tickets, Ticket
    <2>2. QED
      BY <1>4, <1>5, <2>1 DEF Tickets
  <1>7. k \in Tickets
    BY <1>4 DEF Tickets
  <1>8. CASE SaleStands(e) /\ Sale(e)
    <2>1. Service!CanBuy(k)
      BY <1>8, BuyableTicket DEF SaleStands
    <2>2. /\ budget' = [budget EXCEPT ![k.agent] = @ - Price[Service!OfferOf(k)]]
          /\ stock' = [stock EXCEPT ![Service!OfferOf(k)] = @ - 1]
      BY <1>8, TicketFields DEF Sale, Pay
    <2>3. Service!Sell(k)
      BY <1>6, <2>1, <2>2 DEF Service!Sell
    <2>4. QED
      BY <1>7, <2>3 DEF Service!Next
  <1>9. CASE ~SaleStands(e) /\ NoSale(e)
    <2>1. ~Service!CanBuy(k)
      BY <1>9, BuyableTicket DEF SaleStands
    <2>2. budget' = budget /\ stock' = stock
      BY <1>9 DEF NoSale, wallet
    <2>3. Service!Refuse(k)
      BY <1>6, <2>1, <2>2 DEF Service!Refuse
    <2>4. QED
      BY <1>7, <2>3 DEF Service!Next
  <1>10. QED
    BY <1>8, <1>9 DEF Purchase

LEMMA ServiceNext ==
  ASSUME Typed, NothingDueIsDropped, QueueCounted, [Next]_vars
  PROVE  [Service!Next]_(Service!vars)
  <1>1. ASSUME NEW e \in queue, Handle(e), ~QueueEnter(e), ~Purchase(e)
        PROVE  [Service!Next]_(Service!vars)
    <2>1. budget' = budget /\ stock' = stock
      BY <1>1 DEF Handle, SimStart, DecidePurchase, MoveStart, MoveArrive,
                  ObservePurchase, TalkStart, TalkEnd, InfluenceDecay, SimEnd,
                  wallet
    <2>2. PICK types : Replaces(e, types) /\ "PURCHASE" \notin types
      BY <1>1, HandlerReplaces DEF Handle
    <2>3. e.type # "PURCHASE"
      BY <1>1 DEF Handle, SimStart, DecidePurchase, MoveStart, MoveArrive,
                  ObservePurchase, TalkStart, TalkEnd, InfluenceDecay, SimEnd,
                  Pop, Due
    <2>4. QED
      BY <2>1, <2>2, <2>3, PendingKept, ServiceUntouched
  <1>2. ASSUME LeaveLoop PROVE [Service!Next]_(Service!vars)
    BY <1>2, LeaveHalts, ServiceUntouched DEF LeaveLoop, Pending, wallet
  <1>3. CASE UNCHANGED vars
    BY <1>3, ServiceUntouched DEF vars, kernel, wallet, Pending
  <1>4. ASSUME NEW e \in queue, EraseFromEmpty(e) PROVE [Service!Next]_(Service!vars)
    BY <1>4, ServiceUntouched DEF EraseFromEmpty, Pending, wallet
  <1>5. QED
    BY <1>1, <1>2, <1>3, <1>4, QueueEnterServes, PurchaseServes DEF Next

(***************************************************************************)
(* Every behaviour of the runtime is one of the abstract service: tickets  *)
(* are given while a shop has room, each is served once, and only serving  *)
(* a customer who can still buy moves money or stock.                      *)
(***************************************************************************)
THEOREM RuntimeImplementsService == Spec => ImplementsService
  <1>1. Spec => [](Typed /\ NothingDueIsDropped /\ QueueCounted)
    BY InitTyped, NextTyped, NothingDroppedInit, NothingDroppedNext,
       CountedInit, CountedNext, PTL DEF Spec
  <1>2. QED
    BY <1>1, ServiceInit, ServiceNext, PTL
    DEF Spec, ImplementsService, Service!Spec

(***************************************************************************)
(* Memories.  Those of an agent are totally ordered, for no two have the   *)
(* same event and part; the newest are then as many as asked for.          *)
(***************************************************************************)
NoTies(M) == \A m, n \in M : m.event = n.event /\ m.part = n.part => m = n

LEMMA NewestBounded ==
  ASSUME NEW M \in SUBSET Memory, IsFiniteSet(M), NoTies(M), NEW k \in Nat
  PROVE  /\ Newest(M, k) \subseteq M
         /\ IsFiniteSet(Newest(M, k))
         /\ Cardinality(Newest(M, k)) <= k
  <1> DEFINE N == Newest(M, k)
             After(m) == {n \in M : Older(m, n)}
             rank == [m \in N |-> Cardinality(After(m))]
  <1>1. N \subseteq M /\ IsFiniteSet(N)
    BY FS_Subset DEF Newest
  <1>2. \A m \in M : IsFiniteSet(After(m)) /\ Cardinality(After(m)) \in Nat
    <2> SUFFICES ASSUME NEW m \in M
                 PROVE  IsFiniteSet(After(m)) /\ Cardinality(After(m)) \in Nat
      OBVIOUS
    <2>1. After(m) \in SUBSET M
      OBVIOUS
    <2> HIDE DEF After
    <2>2. QED
      BY <2>1, FS_Subset, FS_CardinalityType
  <1>3. \A m \in N : Cardinality(After(m)) < k
    BY DEF Newest
  <1>4. ASSUME NEW m \in M, NEW n \in M, Older(m, n)
        PROVE  Cardinality(After(m)) # Cardinality(After(n))
    <2>1. \A x \in M : x.event \in Nat /\ x.part \in Nat
      BY DEF Memory
    <2>2. After(n) \subseteq After(m)
      BY <1>4, <2>1 DEF Older
    <2>3. n \in After(m) /\ n \notin After(n)
      BY <1>4, <2>1 DEF Older
    <2>4. After(m) # After(n)
      BY <2>3
    <2> HIDE DEF After
    <2>5. QED
      BY <1>2, <2>2, <2>4, FS_Subset
  <1>5. \A m, n \in M : m # n => Older(m, n) \/ Older(n, m)
    BY DEF NoTies, Memory, Older
  <1>6. rank \in Injection(N, 0 .. k - 1)
    <2> HIDE DEF N, After
    <2>1. \A m \in N : Cardinality(After(m)) \in 0 .. k - 1
      BY <1>1, <1>2, <1>3
    <2>2. rank \in [N -> 0 .. k - 1]
      BY <2>1
    <2>3. \A m, n \in N : rank[m] = rank[n] => m = n
      BY <1>1, <1>4, <1>5
    <2>4. QED
      BY <2>2, <2>3 DEF Injection, IsInjective
  <1>7. IsFiniteSet(0 .. k - 1) /\ Cardinality(0 .. k - 1) = k
    BY FS_Interval
  <1>8. Cardinality(N) <= k
    BY <1>6, <1>7, FS_Injection
  <1>9. QED
    BY <1>1, <1>8

(***************************************************************************)
(* The invariant: what is remembered was written by an event already       *)
(* handled, and no two memories of an agent are of the same age.           *)
(***************************************************************************)
MemoriesMarked ==
  \A a \in Agents : /\ IsFiniteSet(memories[a]) /\ NoTies(memories[a])
                    /\ \A m \in memories[a] : m.event < processed

MemoriesKept == MemoriesMarked /\ HeldWithinSlots

LEMMA SlotsOf ==
  ASSUME Typed
  PROVE  \A a \in Agents : slots[a] \in Nat
  BY DEF Typed, TypeOK

LEMMA SlotsStay ==
  ASSUME [Next]_vars
  PROVE  slots' = slots
  BY DEF Next, vars, Handle, SimStart, DecidePurchase, MoveStart, MoveArrive,
         QueueEnter, Purchase, ObservePurchase, TalkStart, TalkEnd,
         InfluenceDecay, SimEnd, EraseFromEmpty, LeaveLoop

LEMMA DecayStaysDue ==
  ASSUME Typed, HeldWithinSlots, NEW e \in queue, NEW type,
         Pop(e, type), NEW types, Replaces(e, types),
         NEW a \in Agents, NEW m \in memories[a],
         type = "INFLUENCE_DECAY" /\ e.agent = a => m.expires > now'
  PROVE  /\ m.expires >= now'
         /\ \E d \in Pending("INFLUENCE_DECAY")' : d.agent = a /\ d.t = m.expires
  <1>1. PICK d \in queue : /\ d.type = "INFLUENCE_DECAY"
                           /\ d.agent = a /\ d.t = m.expires
    BY PopOf DEF HeldWithinSlots, Pending
  <1>2. now' = e.t /\ d.t >= now' /\ now' \in Nat
    BY <1>1, PopAdvances, EventFields DEF Typed, QueueWellFormed
  <1>3. e.type = type
    BY PopOf
  <1>4. d # e
    BY <1>1, <1>2, <1>3
  <1>5. d \in queue'
    BY <1>4 DEF Replaces
  <1>6. QED
    BY <1>1, <1>2, <1>5 DEF Pending

LEMMA FewerMemories ==
  ASSUME Typed, MemoriesKept, NEW e \in queue, NEW type, Pop(e, type),
         NEW types, Replaces(e, types),
         \A a \in Agents : memories'[a] \subseteq memories[a], slots' = slots,
         type = "INFLUENCE_DECAY" =>
           \A m \in memories'[e.agent] : m.expires > now'
  PROVE  MemoriesKept'
  <1> SUFFICES ASSUME NEW a \in Agents
               PROVE  /\ IsFiniteSet(memories'[a]) /\ NoTies(memories'[a])
                      /\ \A m \in memories'[a] : m.event < processed'
                      /\ Cardinality(memories'[a]) <= slots'[a]
                      /\ \A m \in memories'[a] :
                           /\ m.expires >= now'
                           /\ \E d \in Pending("INFLUENCE_DECAY")' :
                                d.agent = a /\ d.t = m.expires
    BY DEF MemoriesKept, MemoriesMarked, HeldWithinSlots
  <1>1. /\ IsFiniteSet(memories[a]) /\ NoTies(memories[a])
        /\ \A m \in memories[a] : m.event < processed
        /\ Cardinality(memories[a]) <= slots[a]
        /\ memories'[a] \subseteq memories[a]
    BY DEF MemoriesKept, MemoriesMarked, HeldWithinSlots
  <1>2. memories[a] \in SUBSET Memory /\ processed \in Nat
    BY DEF Typed, TypeOK
  <1>3. \A m \in memories'[a] : m.event < processed'
    BY <1>1, <1>2 DEF Pop, Due, Memory
  <1>4. /\ IsFiniteSet(memories'[a])
        /\ Cardinality(memories'[a]) <= slots'[a]
    <2>1. slots[a] \in Nat /\ slots'[a] = slots[a]
      BY SlotsOf
    <2>2. /\ IsFiniteSet(memories'[a])
          /\ Cardinality(memories'[a]) <= Cardinality(memories[a])
      BY <1>1, FS_Subset
    <2>3. Cardinality(memories'[a]) \in Nat /\ Cardinality(memories[a]) \in Nat
      BY <1>1, <2>2, FS_CardinalityType
    <2>4. QED
      BY <1>1, <2>1, <2>2, <2>3
  <1>5. NoTies(memories'[a])
    BY <1>1 DEF NoTies
  <1>6. \A m \in memories'[a] :
          /\ m.expires >= now'
          /\ \E d \in Pending("INFLUENCE_DECAY")' :
               d.agent = a /\ d.t = m.expires
    BY <1>1, DecayStaysDue DEF MemoriesKept
  <1>7. QED
    BY <1>1, <1>3, <1>4, <1>5, <1>6

\* What one event teaches: memories of one age, each with a part of its own.
Lesson(M) ==
  /\ M \in SUBSET Memory /\ IsFiniteSet(M) /\ NoTies(M)
  /\ \A m \in M : m.event = processed /\ m.expires = now' + MemoryLife

LEMMA Learnt ==
  ASSUME Typed, MemoriesKept, NEW e \in queue, NEW type, Pop(e, type),
         type # "INFLUENCE_DECAY", NEW types, Replaces(e, types),
         NEW b \in Agents, NEW M, Lesson(M), Remember(b, M), slots' = slots,
         \E d \in Pending("INFLUENCE_DECAY")' :
           d.agent = b /\ d.t = now' + MemoryLife
  PROVE  MemoriesKept'
  <1>0. /\ now' \in Nat /\ processed \in Nat /\ processed' = processed + 1
        /\ now' + MemoryLife >= now'
    BY Popped, Sums DEF MemoryLife, Pop, Due
  <1> SUFFICES ASSUME NEW a \in Agents
               PROVE  /\ IsFiniteSet(memories'[a]) /\ NoTies(memories'[a])
                      /\ \A m \in memories'[a] : m.event < processed'
                      /\ Cardinality(memories'[a]) <= slots'[a]
                      /\ \A m \in memories'[a] :
                           /\ m.expires >= now'
                           /\ \E d \in Pending("INFLUENCE_DECAY")' :
                                d.agent = a /\ d.t = m.expires
    BY DEF MemoriesKept, MemoriesMarked, HeldWithinSlots
  <1>1. /\ IsFiniteSet(memories[a]) /\ NoTies(memories[a])
        /\ \A m \in memories[a] : m.event < processed
        /\ Cardinality(memories[a]) <= slots[a]
    BY DEF MemoriesKept, MemoriesMarked, HeldWithinSlots
  <1>2. memories \in [Agents -> SUBSET Memory]
    BY DEF Typed, TypeOK
  <1>3. \A m \in memories[a] : m.event < processed' /\ m.event \in Nat
    BY <1>0, <1>1, <1>2 DEF Memory
  <1>4. \A m \in memories[a] :
          /\ m.expires >= now'
          /\ \E d \in Pending("INFLUENCE_DECAY")' :
               d.agent = a /\ d.t = m.expires
    BY DecayStaysDue DEF MemoriesKept
  <1>5. CASE a # b
    <2>1. memories'[a] = memories[a]
      BY <1>2, <1>5 DEF Remember
    <2>2. QED
      BY <1>1, <1>3, <1>4, <2>1
  <1>6. CASE a = b
    <2> DEFINE all == memories[b] \cup M
    <2>1. memories'[b] = Newest(all, slots[b])
      BY <1>2 DEF Remember
    <2>2. all \in SUBSET Memory /\ IsFiniteSet(all)
      BY <1>1, <1>2, <1>6, FS_Union DEF Lesson
    <2>3. NoTies(all)
      <3>1. \A m \in memories[b], n \in M : m.event # n.event
        BY <1>0, <1>1, <1>3, <1>6 DEF Lesson
      <3>2. QED
        BY <1>1, <1>6, <3>1 DEF NoTies, Lesson
    <2>4. /\ memories'[b] \subseteq all /\ IsFiniteSet(memories'[b])
          /\ Cardinality(memories'[b]) <= slots[b]
      <3> HIDE DEF all
      <3>1. QED
        BY <2>1, <2>2, <2>3, SlotsOf, NewestBounded
    <2>5. NoTies(memories'[b])
      BY <2>3, <2>4 DEF NoTies
    <2>6. \A m \in all : m.event < processed'
      BY <1>0, <1>3, <1>6 DEF Lesson
    <2>7. \A m \in all : /\ m.expires >= now'
                         /\ \E d \in Pending("INFLUENCE_DECAY")' :
                              d.agent = b /\ d.t = m.expires
      BY <1>0, <1>4, <1>6 DEF Lesson
    <2>8. QED
      BY <1>6, <2>4, <2>5, <2>6, <2>7
  <1>7. QED
    BY <1>5, <1>6

LEMMA DecayFields ==
  ASSUME NEW a, NEW t, NEW o
  PROVE  LET d == DecayEvent(a, t, o)
         IN  d.type = "INFLUENCE_DECAY" /\ d.agent = a /\ d.t = t
  BY DEF DecayEvent, Event

LEMMA OneLesson ==
  ASSUME now' \in Nat, processed \in Nat, NEW x \in Items
  PROVE  Lesson({Influence(x, 0)})
  <1>1. Influence(x, 0) \in Memory
    BY InfluenceTyped
  <1>2. IsFiniteSet({Influence(x, 0)})
    BY FS_Singleton
  <1>3. \A m \in {Influence(x, 0)} : m.event = processed /\ m.expires = now' + MemoryLife
    BY DEF Influence
  <1>4. QED
    BY <1>1, <1>2, <1>3 DEF Lesson, NoTies

LEMMA ItemLesson ==
  ASSUME now' \in Nat, processed \in Nat, NEW x \in Items
  PROVE  LET tags == ItemTags[x]
         IN  Lesson({Influence(x, 0)} \cup {Influence(tags[k], k) : k \in DOMAIN tags})
  <1> DEFINE tags == ItemTags[x]
             M == {Influence(tags[k], k) : k \in DOMAIN tags}
             told == [k \in DOMAIN tags |-> Influence(tags[k], k)]
  <1>1. tags \in Seq(Tags)
    BY MarketAssumption
  <1>2. \A k \in DOMAIN tags : k \in Nat \ {0} /\ tags[k] \in Tags
    BY <1>1
  <1>3. \A k \in DOMAIN tags : Influence(tags[k], k) \in Memory
    BY <1>2, InfluenceTyped
  <1>4. IsFiniteSet(M)
    <2>1. DOMAIN tags = 1 .. Len(tags) /\ Len(tags) \in Nat
      BY <1>1
    <2>2. 1 \in Int /\ Len(tags) \in Int
      BY <2>1
    <2>3. IsFiniteSet(1 .. Len(tags))
      BY <2>2, FS_Interval
    <2>4. told \in Surjection(DOMAIN tags, M)
      BY DEF Surjection
    <2>5. QED
      BY <2>1, <2>3, <2>4, FS_Surjection
  <1>5. NoTies({Influence(x, 0)} \cup M)
    BY <1>2 DEF NoTies, Influence
  <1>6. Lesson({Influence(x, 0)})
    BY OneLesson
  <1>7. IsFiniteSet({Influence(x, 0)} \cup M)
    BY <1>4, <1>6, FS_Union DEF Lesson
  <1>8. \A m \in M : m.event = processed /\ m.expires = now' + MemoryLife
    BY DEF Influence
  <1>9. QED
    BY <1>3, <1>5, <1>6, <1>7, <1>8 DEF Lesson

LEMMA ObservePurchaseRemembers ==
  ASSUME Typed, MemoriesKept, NEW e \in queue, ObservePurchase(e)
  PROVE  MemoriesKept'
  <1> DEFINE tags == ItemTags[e.item]
             M == {Influence(e.item, 0)} \cup
                  {Influence(tags[k], k) : k \in DOMAIN tags}
             d == DecayEvent(e.agent, now' + MemoryLife, nextOrdinal)
  <1>1. /\ Pop(e, "OBSERVE_PURCHASE") /\ Remember(e.agent, M) /\ d \in queue'
        /\ slots' = slots
    BY DEF ObservePurchase, Schedule
  <1>2. /\ e.agent \in Agents /\ e.item \in Items
        /\ now' \in Nat /\ processed \in Nat
    BY <1>1, Popped DEF EventOK
  <1>3. Lesson(M)
    BY <1>2, ItemLesson
  <1>4. d \in Pending("INFLUENCE_DECAY")'
    BY <1>1, DecayFields DEF Pending
  <1>5. d.agent = e.agent /\ d.t = now' + MemoryLife
    BY DecayFields
  <1>6. Replaces(e, {"INFLUENCE_DECAY", "DECIDE_PURCHASE"})
    BY HandlerReplaces
  <1> HIDE DEF M, d
  <1>7. QED
    BY <1>1, <1>2, <1>3, <1>4, <1>5, <1>6, Learnt

LEMMA TalkEndRemembers ==
  ASSUME Typed, MemoriesKept, NEW e \in queue, TalkEnd(e)
  PROVE  MemoriesKept'
  <1> DEFINE b == e.source
             bought == purchases[e.agent]
             x == bought[Len(bought)]
             d == DecayEvent(b, now' + MemoryLife, nextOrdinal)
  <1>1. Pop(e, "TALK_END") /\ HearOf(e) /\ slots' = slots
    BY DEF TalkEnd
  <1>2. /\ e.agent \in Agents /\ b \in Agents
        /\ now' \in Nat /\ processed \in Nat
    BY <1>1, Popped DEF EventOK
  <1>3. Replaces(e, {"INFLUENCE_DECAY", "DECIDE_PURCHASE"})
    BY HandlerReplaces
  <1>4. CASE bought = <<>>
    <2>1. memories' = memories
      BY <1>1, <1>4 DEF HearOf
    <2>2. QED
      BY <1>1, <1>3, <2>1, FewerMemories
  <1>5. CASE bought # <<>>
    <2>1. x \in Items
      <3>1. bought \in Seq(Items)
        BY <1>2 DEF Typed, TypeOK
      <3>2. QED
        BY <1>5, <3>1
    <2>2. Remember(b, {Influence(x, 0)})
      BY <1>1, <1>5 DEF HearOf
    <2>3. d \in queue'
      BY <1>5 DEF TalkEnd, Schedule
    <2>4. Lesson({Influence(x, 0)})
      BY <1>2, <2>1, OneLesson
    <2>5. d \in Pending("INFLUENCE_DECAY")' /\ d.agent = b
          /\ d.t = now' + MemoryLife
      BY <2>3, DecayFields DEF Pending
    <2> HIDE DEF d, x
    <2>6. QED
      BY <1>1, <1>2, <1>3, <2>2, <2>4, <2>5, Learnt
  <1>6. QED
    BY <1>4, <1>5

LEMMA DecayRemembers ==
  ASSUME Typed, MemoriesKept, NEW e \in queue, NEW type, Pop(e, type),
         NEW types, Replaces(e, types), DecayMemories(e.agent), slots' = slots
  PROVE  MemoriesKept'
  <1>1. memories \in [Agents -> SUBSET Memory]
    BY DEF Typed, TypeOK
  <1>2. \A a \in Agents : memories'[a] \subseteq memories[a]
    BY <1>1 DEF DecayMemories, Fresh
  <1>3. ASSUME type = "INFLUENCE_DECAY"
        PROVE  \A m \in memories'[e.agent] : m.expires > now'
    <2>1. e.agent \in Agents
      BY <1>3, Popped DEF EventOK
    <2>2. QED
      BY <1>1, <2>1 DEF DecayMemories, Fresh
  <1>4. QED
    BY <1>2, <1>3, FewerMemories

LEMMA MemoriesNext ==
  ASSUME Typed, MemoriesKept, [Next]_vars
  PROVE  MemoriesKept'
  <1>0. slots' = slots
    BY SlotsStay
  <1>1. ASSUME NEW e \in queue, Handle(e) PROVE MemoriesKept'
    <2>1. PICK types : Replaces(e, types)
      BY <1>1, HandlerReplaces DEF Handle
    <2>2. Pop(e, e.type)
      BY <1>1, HandlePops
    <2>3. CASE ObservePurchase(e)
      BY <2>3, ObservePurchaseRemembers
    <2>4. CASE TalkEnd(e)
      BY <2>4, TalkEndRemembers
    <2>5. CASE DecidePurchase(e) \/ InfluenceDecay(e)
      <3>1. DecayMemories(e.agent)
        BY <2>5 DEF DecidePurchase, InfluenceDecay
      <3>2. QED
        BY <1>0, <2>1, <2>2, <3>1, DecayRemembers
    <2>6. CASE \/ SimStart(e) \/ MoveStart(e) \/ MoveArrive(e) \/ QueueEnter(e)
               \/ Purchase(e) \/ TalkStart(e) \/ SimEnd(e)
      <3>1. memories' = memories
        BY <2>6 DEF SimStart, MoveStart, MoveArrive, QueueEnter, Purchase,
                    TalkStart, SimEnd
      <3>2. e.type # "INFLUENCE_DECAY"
        BY <2>6 DEF SimStart, MoveStart, MoveArrive, QueueEnter, Purchase,
                    TalkStart, SimEnd, Pop, Due
      <3>3. QED
        BY <1>0, <2>1, <2>2, <3>1, <3>2, FewerMemories
    <2>7. QED
      BY <1>1, <2>3, <2>4, <2>5, <2>6 DEF Handle
  <1>2. ASSUME LeaveLoop PROVE MemoriesKept'
    <2>1. /\ memories' = memories /\ now' = now /\ processed' = processed
          /\ phase' # "running"
      BY <1>2 DEF LeaveLoop
    <2>2. QED
      BY <1>0, <2>1 DEF MemoriesKept, MemoriesMarked, HeldWithinSlots
  <1>3. CASE UNCHANGED vars
    BY <1>0, <1>3 DEF vars, kernel, MemoriesKept, MemoriesMarked,
                HeldWithinSlots, Pending
  <1>4. ASSUME NEW e \in queue, EraseFromEmpty(e) PROVE MemoriesKept'
    BY <1>0, <1>4
    DEF EraseFromEmpty, MemoriesKept, MemoriesMarked, HeldWithinSlots, Pending
  <1>5. QED
    BY <1>1, <1>2, <1>3, <1>4 DEF Next

LEMMA MemoriesInit == Init => MemoriesKept
  <1> SUFFICES ASSUME Init PROVE MemoriesKept
    OBVIOUS
  <1>1. \A a \in Agents : memories[a] = {}
    BY DEF Init
  <1>2. \A a \in Agents : slots[a] \in Nat
    BY InitTyped, SlotsOf
  <1>3. QED
    BY <1>1, <1>2, FS_EmptySet
    DEF MemoriesKept, MemoriesMarked, HeldWithinSlots, NoTies

\* A handler ends the run or lets it go on: it does not crash.
LEMMA HandlersDoNotCrash ==
  ASSUME NEW e \in queue, Handle(e)
  PROVE  phase' # "crashed"
  <1>1. phase = "running"
    BY HandlePops, PopOf
  <1>2. phase' = phase \/ phase' = "ended"
    BY DEF Handle, SimStart, DecidePurchase, Choose, NothingToBuy, MoveStart,
           MoveArrive, QueueEnter, Admit, TurnAway, Purchase, Sale, NoSale,
           ObservePurchase, TalkStart, Converse, Busy, TalkEnd, InfluenceDecay,
           SimEnd, Schedule
  <1>3. QED
    BY <1>1, <1>2

\* An agent that has no memory and yet no room for one has no slots.
LEMMA FullAndEmptyHasNoSlots ==
  ASSUME Typed, NEW b \in Agents, FullAndEmpty(b)
  PROVE  slots[b] = 0
  <1>1. Cardinality(memories[b]) = 0
    BY FS_EmptySet DEF FullAndEmpty
  <1>2. QED
    BY <1>1, SlotsOf DEF FullAndEmpty

LEMMA CrashesNext ==
  ASSUME Typed, CrashesForWantOfSlots, [Next]_vars
  PROVE  CrashesForWantOfSlots'
  <1>0. slots' = slots
    BY SlotsStay
  <1>1. ASSUME NEW e \in queue, Handle(e) PROVE CrashesForWantOfSlots'
    BY <1>1, HandlersDoNotCrash DEF CrashesForWantOfSlots
  <1>2. ASSUME NEW e \in queue, EraseFromEmpty(e)
        PROVE  CrashesForWantOfSlots'
    <2>1. EventOK(e)
      BY DEF Typed, QueueWellFormed
    <2>2. PICK b \in {e.agent, e.source} :
             /\ FullAndEmpty(b)
             /\ \/ e.type = "OBSERVE_PURCHASE" /\ b = e.agent
                \/ e.type = "TALK_END" /\ b = e.source
      BY <1>2 DEF EraseFromEmpty
    <2>3. b \in Agents
      BY <2>1, <2>2 DEF EventOK
    <2>4. slots[b] = 0
      BY <2>2, <2>3, FullAndEmptyHasNoSlots
    <2>5. QED
      BY <1>0, <2>3, <2>4 DEF CrashesForWantOfSlots
  <1>3. ASSUME LeaveLoop PROVE CrashesForWantOfSlots'
    BY <1>3 DEF LeaveLoop, CrashesForWantOfSlots
  <1>4. CASE UNCHANGED vars
    BY <1>0, <1>4 DEF vars, kernel, CrashesForWantOfSlots
  <1>5. QED
    BY <1>1, <1>2, <1>3, <1>4 DEF Next

LEMMA CrashesInit == Init => CrashesForWantOfSlots
  BY DEF Init, CrashesForWantOfSlots

(***************************************************************************)
(* For every capacity a scenario may give, 0 included: an agent never      *)
(* remembers more than its slots hold, and whatever is not yet expired has *)
(* an INFLUENCE_DECAY of its own that will drop it, for every way in which *)
(* add_memory, decay_memories and the queue interleave.  The erase of      *)
(* add_memory meets an empty vector only where some agent has no slots.    *)
(***************************************************************************)
THEOREM MemoriesStayBounded == Spec => []MemoriesBoundedAndFresh
  <1>1. MemoriesKept /\ CrashesForWantOfSlots => MemoriesBoundedAndFresh
    BY DEF MemoriesKept, MemoriesBoundedAndFresh
  <1>2. QED
    BY <1>1, InitTyped, NextTyped, MemoriesInit, MemoriesNext, CrashesInit,
       CrashesNext, PTL DEF Spec

(***************************************************************************)
(* The ledger.  What is counted is piled up: on every d of a set lie the   *)
(* units 1 .. h[d].                                                        *)
(***************************************************************************)
Piles(D, h) == UNION {{<<d, k>> : k \in 1 .. h[d]} : d \in D}

LEMMA PilesOf ==
  ASSUME NEW D, NEW h, NEW x
  PROVE  x \in Piles(D, h) <=> \E d \in D : \E k \in 1 .. h[d] : x = <<d, k>>
  BY DEF Piles

\* The units that a pile grows by.
LEMMA Run ==
  ASSUME NEW m \in Nat, NEW n \in Nat
  PROVE  /\ IsFiniteSet(m + 1 .. m + n)
         /\ Cardinality(m + 1 .. m + n) = n
  <1>1. m + 1 \in Int /\ m + n \in Int
    OBVIOUS
  <1> DEFINE c == IF m + 1 > m + n THEN 0 ELSE m + n - (m + 1) + 1
  <1>2. IsFiniteSet(m + 1 .. m + n) /\ Cardinality(m + 1 .. m + n) = c
    BY <1>1, FS_Interval
  <1>3. c = n
    OBVIOUS
  <1>4. QED
    BY <1>2, <1>3

LEMMA PileGrows ==
  ASSUME NEW D, NEW h \in [D -> Nat], IsFiniteSet(Piles(D, h)),
         NEW d \in D, NEW n \in Nat, NEW g \in [D -> Nat],
         \A c \in D : g[c] = IF c = d THEN h[c] + n ELSE h[c]
  PROVE  /\ IsFiniteSet(Piles(D, g))
         /\ Cardinality(Piles(D, g)) = Cardinality(Piles(D, h)) + n
  <1> DEFINE new == {d} \X (h[d] + 1 .. h[d] + n)
  <1>0. h[d] \in Nat /\ h[d] + 1 \in Int /\ h[d] + n \in Int
    OBVIOUS
  <1>1. IsFiniteSet(new) /\ Cardinality(new) = n
    <2> DEFINE units == h[d] + 1 .. h[d] + n
    <2>1. IsFiniteSet(units) /\ Cardinality(units) = n
      BY <1>0, Run
    <2>2. IsFiniteSet({d}) /\ Cardinality({d}) = 1
      BY FS_Singleton
    <2> HIDE DEF units
    <2>3. /\ IsFiniteSet({d} \X units)
          /\ Cardinality({d} \X units) = 1 * n
      BY <2>1, <2>2, FS_Product
    <2>4. QED
      BY <2>3 DEF units
  <1>2. Piles(D, g) = Piles(D, h) \cup new
    <2>1. ASSUME NEW x PROVE x \in Piles(D, g) <=> x \in Piles(D, h) \/ x \in new
      <3>1. g[d] = h[d] + n /\ \A c \in D \ {d} : g[c] = h[c]
        OBVIOUS
      <3>2. x \in new <=> \E k \in h[d] + 1 .. h[d] + n : x = <<d, k>>
        OBVIOUS
      <3> HIDE DEF new
      <3>3. ASSUME x \in Piles(D, g) PROVE x \in Piles(D, h) \/ x \in new
        <4>0. PICK c \in D : \E k \in 1 .. g[c] : x = <<c, k>>
          <5>1. x \in Piles(D, g) <=> \E c \in D : \E k \in 1 .. g[c] : x = <<c, k>>
            BY PilesOf
          <5>2. QED
            BY <3>3, <5>1
        <4>1. PICK k \in 1 .. g[c] : x = <<c, k>>
          BY <4>0
        <4>2. CASE c = d
          <5>1. k \in 1 .. h[d] \/ k \in h[d] + 1 .. h[d] + n
            BY <1>0, <3>1, <4>2
          <5>2. QED
            BY <3>2, <4>1, <4>2, <5>1, PilesOf
        <4>3. CASE c # d
          BY <3>1, <4>1, <4>3, PilesOf
        <4>4. QED
          BY <4>2, <4>3
      <3>4. ASSUME x \in Piles(D, h) PROVE x \in Piles(D, g)
        <4>0. PICK c \in D : \E k \in 1 .. h[c] : x = <<c, k>>
          BY <3>4, PilesOf
        <4>1. PICK k \in 1 .. h[c] : x = <<c, k>>
          BY <4>0
        <4>2. k \in 1 .. g[c]
          BY <1>0, <3>1
        <4>3. QED
          BY <4>1, <4>2, PilesOf
      <3>5. ASSUME x \in new PROVE x \in Piles(D, g)
        <4>1. PICK k \in h[d] + 1 .. h[d] + n : x = <<d, k>>
          BY <3>2, <3>5
        <4>2. k \in 1 .. g[d]
          BY <1>0, <3>1
        <4>3. QED
          BY <4>1, <4>2, PilesOf
      <3>6. QED
        BY <3>3, <3>4, <3>5
    <2>2. QED
      BY <2>1
  <1>3. Piles(D, h) \cap new = {}
    <2>1. ASSUME NEW x \in Piles(D, h), x \in new PROVE FALSE
      <3>0. PICK c \in D : \E k \in 1 .. h[c] : x = <<c, k>>
        BY <2>1, PilesOf
      <3>1. PICK k \in 1 .. h[c] : x = <<c, k>>
        BY <3>0
      <3>2. PICK j \in h[d] + 1 .. h[d] + n : x = <<d, j>>
        BY <2>1
      <3>3. QED
        BY <1>0, <3>1, <3>2
    <2>2. QED
      BY <2>1
  <1>4. Cardinality(Piles(D, h)) \in Nat
    BY FS_CardinalityType
  <1> HIDE DEF new
  <1>5. Cardinality(Piles(D, h) \cap new) = 0
    BY <1>3, FS_EmptySet
  <1>6. /\ IsFiniteSet(Piles(D, h) \cup new)
        /\ Cardinality(Piles(D, h) \cup new) =
             Cardinality(Piles(D, h)) + Cardinality(new)
               - Cardinality(Piles(D, h) \cap new)
    BY <1>1, FS_Union
  <1>7. Cardinality(Piles(D, h) \cup new) = Cardinality(Piles(D, h)) + n
    BY <1>1, <1>4, <1>5, <1>6
  <1>8. QED
    BY <1>2, <1>6, <1>7, Zenon

LEMMA NoPiles ==
  ASSUME NEW D, NEW h, \A d \in D : h[d] = 0
  PROVE  Piles(D, h) = {}
  BY PilesOf

(***************************************************************************)
(* The four counts of the ledger.                                          *)
(***************************************************************************)
OffersOf(i) == {o \in Offers : o[2] = i}
SoldOf(i) == [o \in OffersOf(i) |-> Sold(o)]
Takings == [o \in Offers |-> Price[o] * Sold(o)]

LEMMA LedgerPiles ==
  /\ \A i : UnitsSold(i) = Piles(OffersOf(i), SoldOf(i))
  /\ MoneyTaken = Piles(Offers, Takings)
  /\ MoneySpent = Piles(Agents, spent)
  <1>1. ASSUME NEW i PROVE UnitsSold(i) = Piles(OffersOf(i), SoldOf(i))
    <2>1. \A o \in OffersOf(i) : SoldOf(i)[o] = Sold(o)
      BY DEF SoldOf
    <2>2. \A x : x \in UnitsSold(i) <=>
                   \E o \in OffersOf(i) : \E k \in 1 .. Sold(o) : x = <<o, k>>
      BY DEF UnitsSold, OffersOf
    <2>3. \A x : x \in UnitsSold(i) <=> x \in Piles(OffersOf(i), SoldOf(i))
      BY <2>1, <2>2, PilesOf
    <2>4. QED
      BY <2>3
  <1>2. MoneyTaken = Piles(Offers, Takings)
    BY DEF MoneyTaken, Piles, Takings
  <1>3. MoneySpent = Piles(Agents, spent)
    BY DEF MoneySpent, Piles
  <1>4. QED
    BY <1>1, <1>2, <1>3

LEMMA BoughtOf ==
  ASSUME NEW i, NEW x
  PROVE  x \in UnitsBought(i) <=>
           \E a \in Agents : \E k \in DOMAIN purchases[a] :
             purchases[a][k] = i /\ x = <<a, k>>
  BY DEF UnitsBought

LedgerCounted ==
  /\ \A o \in Offers : stock[o] <= InitialStock[o]
  /\ \A i \in Items : IsFiniteSet(UnitsSold(i)) /\ IsFiniteSet(UnitsBought(i))
  /\ IsFiniteSet(MoneySpent) /\ IsFiniteSet(MoneyTaken)

LedgerKept == LedgerCounted /\ LedgerBalanced

LEMMA LedgerTyped ==
  ASSUME Typed, LedgerCounted
  PROVE  /\ \A o \in Offers : Sold(o) \in Nat /\ Price[o] * Sold(o) \in Nat
         /\ \A i : SoldOf(i) \in [OffersOf(i) -> Nat]
         /\ Takings \in [Offers -> Nat]
         /\ spent \in [Agents -> Nat]
  <1>1. /\ stock \in [Offers -> Nat] /\ spent \in [Agents -> Nat]
        /\ InitialStock \in [Offers -> Nat] /\ Price \in [Offers -> Nat]
    BY MarketAssumption DEF Typed, TypeOK
  <1>2. \A o \in Offers : Sold(o) \in Nat
    BY <1>1 DEF Sold, LedgerCounted
  <1>3. \A m, n \in Nat : m * n \in Nat
    OBVIOUS
  <1>4. \A o \in Offers : Price[o] * Sold(o) \in Nat
    BY <1>1, <1>2, <1>3
  <1>5. QED
    BY <1>1, <1>2, <1>4 DEF SoldOf, OffersOf, Takings

(***************************************************************************)
(* A sale: one unit more is sold and bought of the item, and its price is  *)
(* spent and taken.                                                        *)
(***************************************************************************)
LEMMA Distributes ==
  ASSUME NEW p \in Nat, NEW n \in Nat
  PROVE  p * (n + 1) = p * n + p
  OBVIOUS

LEMMA StockFalls ==
  ASSUME Typed, LedgerCounted, NEW e, OfferOf(e) \in Offers, SaleStands(e), Pay(e)
  PROVE  /\ \A o \in Offers : stock'[o] <= InitialStock[o]
         /\ \A o \in Offers : Sold(o)' = IF o = OfferOf(e) THEN Sold(o) + 1
                                                           ELSE Sold(o)
  <1>1. /\ stock \in [Offers -> Nat] /\ InitialStock \in [Offers -> Nat]
    BY MarketAssumption DEF Typed, TypeOK
  <1>2. \A o \in Offers : stock'[o] = IF o = OfferOf(e) THEN stock[o] - 1 ELSE stock[o]
    BY <1>1 DEF Pay
  <1>3. QED
    BY <1>1, <1>2 DEF Sold, LedgerCounted

LEMMA SaleCounted ==
  ASSUME Typed, Typed', LedgerKept, NEW e, e.agent \in Agents,
         OfferOf(e) \in Offers, e.item \in Items, SaleStands(e), Pay(e)
  PROVE  LedgerKept'
  <1> DEFINE o == OfferOf(e)
             a == e.agent
             p == Price[o]
             line == purchases[a]
  <1>0. LedgerCounted /\ LedgerBalanced
    BY DEF LedgerKept
  <1>1. /\ p \in Nat /\ budget[a] \in Nat /\ spent[a] \in Nat
        /\ line \in Seq(Items) /\ o[2] = e.item
    BY MarketAssumption DEF Typed, TypeOK, OfferOf
  <1>2. /\ \A x \in Offers : stock'[x] <= InitialStock[x]
        /\ \A x \in Offers : Sold(x)' = IF x = o THEN Sold(x) + 1 ELSE Sold(x)
    BY <1>0, StockFalls
  <1>3. \A x \in Offers : Sold(x)' \in Nat
    BY <1>0, <1>2, LedgerTyped
  <1>4. \A b \in Agents : budget'[b] + spent'[b] = InitialBudget[b]
    <2>1. \A b \in Agents : /\ budget[b] \in Nat /\ spent[b] \in Nat
                            /\ budget[b] + spent[b] = InitialBudget[b]
      BY <1>0 DEF Typed, TypeOK, LedgerBalanced
    <2>2. \A b \in Agents :
            /\ budget'[b] = IF b = a THEN budget[b] - p ELSE budget[b]
            /\ spent'[b] = IF b = a THEN spent[b] + p ELSE spent[b]
      BY DEF Pay, Typed, TypeOK
    <2>3. QED
      BY <1>1, <2>1, <2>2
  <1>5. ASSUME NEW i \in Items
        PROVE  /\ IsFiniteSet(UnitsSold(i)')
               /\ Cardinality(UnitsSold(i)')
                    = Cardinality(UnitsSold(i)) + (IF i = e.item THEN 1 ELSE 0)
    <2>1. /\ UnitsSold(i) = Piles(OffersOf(i), SoldOf(i))
          /\ IsFiniteSet(UnitsSold(i))
      BY <1>0, LedgerPiles DEF LedgerCounted
    <2>9. UnitsSold(i)' = Piles(OffersOf(i), SoldOf(i)')
      <3>1. \A x \in OffersOf(i) : SoldOf(i)'[x] = Sold(x)'
        BY DEF SoldOf, OffersOf
      <3>2. \A x : x \in UnitsSold(i)' <=>
                     \E y \in OffersOf(i) : \E k \in 1 .. Sold(y)' : x = <<y, k>>
        BY DEF UnitsSold, OffersOf
      <3>3. \A x : x \in UnitsSold(i)' <=> x \in Piles(OffersOf(i), SoldOf(i)')
        BY <3>1, <3>2, PilesOf
      <3>4. QED
        BY <3>3
    <2>2. /\ SoldOf(i) \in [OffersOf(i) -> Nat]
          /\ SoldOf(i)' = [x \in OffersOf(i) |-> Sold(x)']
          /\ SoldOf(i)' \in [OffersOf(i) -> Nat]
      BY <1>0, <1>3, LedgerTyped DEF SoldOf, OffersOf
    <2>3. CASE i = e.item
      <3>1. o \in OffersOf(i)
        BY <1>1, <2>3 DEF OffersOf
      <3>2. SoldOf(i)' = [SoldOf(i) EXCEPT ![o] = @ + 1]
        BY <1>2, <2>2 DEF SoldOf, OffersOf
      <3> HIDE DEF o
      <3>3. QED
        BY <2>1, <2>2, <2>9, <2>3, <3>1, <3>2, PileGrows
    <2>4. CASE i # e.item
      <3>1. SoldOf(i)' = SoldOf(i)
        BY <1>1, <1>2, <2>2, <2>4 DEF SoldOf, OffersOf
      <3>2. Cardinality(UnitsSold(i)) \in Nat
        BY <2>1, FS_CardinalityType
      <3>3. QED
        BY <2>1, <2>9, <2>4, <3>1, <3>2
    <2>5. QED
      BY <2>3, <2>4
  <1>6. ASSUME NEW i \in Items
        PROVE  /\ IsFiniteSet(UnitsBought(i)')
               /\ Cardinality(UnitsBought(i)')
                    = Cardinality(UnitsBought(i)) + (IF i = e.item THEN 1 ELSE 0)
    <2> DEFINE n == Len(line) + 1
    <2>1. IsFiniteSet(UnitsBought(i)) /\ Cardinality(UnitsBought(i)) \in Nat
      BY <1>0, FS_CardinalityType DEF LedgerCounted
    <2>2. /\ purchases \in [Agents -> Seq(Items)]
          /\ \A b \in Agents : purchases'[b] = IF b = a THEN Append(line, e.item)
                                                        ELSE purchases[b]
      BY DEF Pay, Typed, TypeOK
    <2>3. /\ DOMAIN line = 1 .. Len(line) /\ Len(line) \in Nat
          /\ DOMAIN Append(line, e.item) = DOMAIN line \cup {n}
          /\ n \notin DOMAIN line
          /\ \A k \in DOMAIN line : Append(line, e.item)[k] = line[k]
          /\ Append(line, e.item)[n] = e.item
      BY <1>1
    <2>4. \A x : x \in UnitsBought(i)' <=>
            \E b \in Agents : \E k \in DOMAIN purchases'[b] :
              purchases'[b][k] = i /\ x = <<b, k>>
      BY DEF UnitsBought
    <2> HIDE DEF line, n
    <2>5. CASE i = e.item
      <3>1. UnitsBought(i)' = UnitsBought(i) \cup {<<a, n>>}
        <4>1. ASSUME NEW x
              PROVE  x \in UnitsBought(i)' <=> x \in UnitsBought(i) \/ x = <<a, n>>
          <5>0. a \in Agents
            OBVIOUS
          <5> HIDE DEF a
          <5>1. ASSUME x \in UnitsBought(i)'
                PROVE  x \in UnitsBought(i) \/ x = <<a, n>>
            <6>1. PICK b \in Agents : \E k \in DOMAIN purchases'[b] :
                         purchases'[b][k] = i /\ x = <<b, k>>
              BY <2>4, <5>1
            <6>2. PICK k \in DOMAIN purchases'[b] :
                         purchases'[b][k] = i /\ x = <<b, k>>
              BY <6>1
            <6>3. CASE b = a /\ k = n
              BY <6>2, <6>3
            <6>4. CASE b = a /\ k # n
              <7>1. k \in DOMAIN line /\ line[k] = i
                BY <2>2, <2>3, <6>2, <6>4
              <7>2. QED
                BY <6>2, <6>4, <7>1, BoughtOf DEF line
            <6>5. CASE b # a
              BY <2>2, <6>2, <6>5, BoughtOf
            <6>6. QED
              BY <6>3, <6>4, <6>5
          <5>2. ASSUME x \in UnitsBought(i) PROVE x \in UnitsBought(i)'
            <6>1. PICK b \in Agents : \E k \in DOMAIN purchases[b] :
                         purchases[b][k] = i /\ x = <<b, k>>
              BY <5>2, BoughtOf
            <6>2. PICK k \in DOMAIN purchases[b] :
                         purchases[b][k] = i /\ x = <<b, k>>
              BY <6>1
            <6>3. k \in DOMAIN purchases'[b] /\ purchases'[b][k] = i
              <7>1. CASE b = a
                BY <2>2, <2>3, <6>2, <7>1 DEF line
              <7>2. CASE b # a
                BY <2>2, <6>2, <7>2
              <7>3. QED
                BY <7>1, <7>2
            <6>4. QED
              BY <2>4, <6>2, <6>3
          <5>3. <<a, n>> \in UnitsBought(i)'
            <6>1. n \in DOMAIN purchases'[a] /\ purchases'[a][n] = i
              BY <2>2, <2>3, <2>5, <5>0
            <6>2. QED
              BY <2>4, <5>0, <6>1
          <5>4. QED
            BY <5>1, <5>2, <5>3
        <4>2. QED
          BY <4>1
      <3>2. <<a, n>> \notin UnitsBought(i)
        BY <2>3, BoughtOf DEF line
      <3> HIDE DEF a
      <3>3. Cardinality(UnitsBought(i) \cup {<<a, n>>})
              = Cardinality(UnitsBought(i)) + 1
            /\ IsFiniteSet(UnitsBought(i) \cup {<<a, n>>})
        BY <2>1, <3>2, FS_AddElement
      <3>4. QED
        BY <2>1, <2>5, <3>1, <3>3
    <2>6. CASE i # e.item
      <3>1. UnitsBought(i)' = UnitsBought(i)
        <4>1. ASSUME NEW x PROVE x \in UnitsBought(i)' <=> x \in UnitsBought(i)
          <5>0. a \in Agents
            OBVIOUS
          <5>1. line = purchases[a]
            BY DEF line
          <5> HIDE DEF a
          <5>2. \A b \in Agents : \A k :
                  k \in DOMAIN purchases'[b] /\ purchases'[b][k] = i
                    <=> k \in DOMAIN purchases[b] /\ purchases[b][k] = i
            <6>1. SUFFICES ASSUME NEW b \in Agents, NEW k
                           PROVE  k \in DOMAIN purchases'[b] /\ purchases'[b][k] = i
                    <=> k \in DOMAIN purchases[b] /\ purchases[b][k] = i
              OBVIOUS
            <6>2. CASE b = a
              BY <2>2, <2>3, <2>6, <5>1, <6>2
            <6>3. CASE b # a
              BY <2>2, <6>3
            <6>4. QED
              BY <6>2, <6>3
          <5>3. QED
            BY <2>4, <5>2, BoughtOf
        <4>2. QED
          BY <4>1
      <3>2. QED
        BY <2>1, <2>6, <3>1
    <2>7. QED
      BY <2>5, <2>6
  <1>7. /\ IsFiniteSet(MoneyTaken')
        /\ Cardinality(MoneyTaken') = Cardinality(MoneyTaken) + p
    <2>1. MoneyTaken = Piles(Offers, Takings) /\ IsFiniteSet(MoneyTaken)
      BY <1>0, LedgerPiles DEF LedgerCounted
    <2>9. MoneyTaken' = Piles(Offers, Takings')
      BY DEF MoneyTaken, Piles, Takings
    <2>2. \A x \in Offers : /\ Sold(x) \in Nat /\ Price[x] \in Nat
                            /\ Price[x] * Sold(x) \in Nat
      BY <1>0, LedgerTyped, MarketAssumption
    <2>3. Takings' = [x \in Offers |-> Price[x] * Sold(x)']
      BY DEF Takings
    <2>4. Price[o] * Sold(o)' = Price[o] * Sold(o) + p
      BY <1>2, <2>2, Distributes
    <2>5. Takings' = [Takings EXCEPT ![o] = @ + p]
      <3>1. \A x \in Offers : Price[x] * Sold(x)' =
              IF x = o THEN Price[x] * Sold(x) + p ELSE Price[x] * Sold(x)
        BY <1>2, <2>4
      <3>2. QED
        BY <2>3, <3>1 DEF Takings
    <2>6. Takings \in [Offers -> Nat] /\ Takings' \in [Offers -> Nat]
      <3>1. Takings \in [Offers -> Nat]
        BY <1>0, LedgerTyped
      <3>2. QED
        BY <1>1, <2>5, <3>1
    <2>8. o \in Offers
      OBVIOUS
    <2> HIDE DEF o, p
    <2>7. QED
      <3>1. \A x \in Offers : Takings'[x] = IF x = o THEN Takings[x] + p ELSE Takings[x]
        BY <2>5, <2>6
      <3>2. /\ IsFiniteSet(Piles(Offers, Takings'))
            /\ Cardinality(Piles(Offers, Takings')) = Cardinality(Piles(Offers, Takings)) + p
        <4>1. p \in Nat
          BY <1>1
        <4>2. IsFiniteSet(Piles(Offers, Takings))
          BY <2>1, Zenon
        <4>3. QED
          BY <2>6, <2>8, <3>1, <4>1, <4>2, PileGrows, Zenon
      <3>3. QED
        BY <2>1, <2>9, <3>2, Zenon
  <1>8. /\ IsFiniteSet(MoneySpent')
        /\ Cardinality(MoneySpent') = Cardinality(MoneySpent) + p
    <2>1. MoneySpent = Piles(Agents, spent) /\ IsFiniteSet(MoneySpent)
      BY <1>0, LedgerPiles DEF LedgerCounted
    <2>9. MoneySpent' = Piles(Agents, spent')
      BY DEF MoneySpent, Piles
    <2>2. /\ spent \in [Agents -> Nat] /\ spent' \in [Agents -> Nat]
          /\ spent' = [spent EXCEPT ![a] = @ + p]
      BY DEF Pay, Typed, TypeOK
    <2>8. a \in Agents
      OBVIOUS
    <2> HIDE DEF a, p
    <2>3. QED
      <3>1. \A b \in Agents : spent'[b] = IF b = a THEN spent[b] + p ELSE spent[b]
        BY <2>2
      <3>2. /\ IsFiniteSet(Piles(Agents, spent'))
            /\ Cardinality(Piles(Agents, spent')) = Cardinality(Piles(Agents, spent)) + p
        <4>1. spent \in [Agents -> Nat] /\ spent' \in [Agents -> Nat] /\ p \in Nat
          BY <1>1, <2>2
        <4>2. IsFiniteSet(Piles(Agents, spent))
          BY <2>1, Zenon
        <4>3. QED
          BY <2>8, <3>1, <4>1, <4>2, PileGrows, Zenon
      <3>3. QED
        BY <2>1, <2>9, <3>2, Zenon
  <1>9. LedgerCounted'
    BY <1>2, <1>5, <1>6, <1>7, <1>8 DEF LedgerCounted
  <1>10. LedgerBalanced'
    <2>1. /\ \A i \in Items : Cardinality(UnitsSold(i)) = Cardinality(UnitsBought(i))
          /\ Cardinality(MoneySpent) = Cardinality(MoneyTaken)
      BY <1>0 DEF LedgerBalanced
    <2>2. QED
      BY <1>4, <1>5, <1>6, <1>7, <1>8, <2>1 DEF LedgerBalanced
  <1>11. QED
    BY <1>9, <1>10 DEF LedgerKept

LEMMA LedgerUntouched ==
  ASSUME LedgerKept, UNCHANGED <<wallet, stock>>
  PROVE  LedgerKept'
  <1>1. /\ UNCHANGED <<budget, spent, purchases, stock>>
        /\ \A i : UnitsSold(i)' = UnitsSold(i) /\ UnitsBought(i)' = UnitsBought(i)
        /\ MoneySpent' = MoneySpent /\ MoneyTaken' = MoneyTaken
    BY DEF wallet, Sold, UnitsSold, UnitsBought, MoneySpent, MoneyTaken
  <1>2. LedgerCounted'
    BY <1>1 DEF LedgerKept, LedgerCounted
  <1>3. LedgerBalanced'
    BY <1>1 DEF LedgerKept, LedgerBalanced
  <1>4. QED
    BY <1>2, <1>3 DEF LedgerKept

LEMMA LedgerNext ==
  ASSUME Typed, LedgerKept, [Next]_vars
  PROVE  LedgerKept'
  <1>1. ASSUME NEW e \in queue, Purchase(e) PROVE LedgerKept'
    <2>1. Pop(e, "PURCHASE")
      BY <1>1 DEF Purchase
    <2>2. /\ e.agent \in Agents /\ OfferOf(e) \in Offers
      BY <2>1, Popped DEF EventOK, ChainTypes
    <2>3. e.item \in Items
      BY <2>2, MarketAssumption DEF OfferOf
    <2>4. CASE SaleStands(e)
      <3>1. Pay(e)
        BY <1>1, <2>4 DEF Purchase, Sale
      <3>2. QED
        BY <2>2, <2>3, <2>4, <3>1, NextTyped, SaleCounted
    <2>5. CASE ~SaleStands(e)
      BY <1>1, <2>5, LedgerUntouched DEF Purchase, NoSale
    <2>6. QED
      BY <2>4, <2>5
  <1>2. ASSUME NEW e \in queue, Handle(e), ~Purchase(e) PROVE LedgerKept'
    BY <1>2, LedgerUntouched
    DEF Handle, SimStart, DecidePurchase, MoveStart, MoveArrive, QueueEnter,
        ObservePurchase, TalkStart, TalkEnd, InfluenceDecay, SimEnd
  <1>3. ASSUME LeaveLoop PROVE LedgerKept'
    BY <1>3, LedgerUntouched DEF LeaveLoop
  <1>4. CASE UNCHANGED vars
    BY <1>4, LedgerUntouched DEF vars
  <1>5. ASSUME NEW e \in queue, EraseFromEmpty(e) PROVE LedgerKept'
    BY <1>5, LedgerUntouched DEF EraseFromEmpty
  <1>6. QED
    BY <1>1, <1>2, <1>3, <1>4, <1>5 DEF Next

LEMMA LedgerInit == Init => LedgerKept
  <1> SUFFICES ASSUME Init PROVE LedgerKept
    OBVIOUS
  <1>0. Typed
    BY InitTyped
  <1>1. /\ \A a \in Agents : /\ budget[a] = InitialBudget[a] /\ spent[a] = 0
                             /\ purchases[a] = <<>> /\ InitialBudget[a] \in Nat
        /\ \A o \in Offers : /\ stock[o] = InitialStock[o] /\ Sold(o) = 0
                             /\ InitialStock[o] \in Nat /\ Price[o] \in Nat
    BY MarketAssumption DEF Init, Sold
  <1>2. MoneyTaken = {} /\ MoneySpent = {}
    <2>1. \A o \in Offers : Takings[o] = 0
      BY <1>1 DEF Takings
    <2>2. QED
      BY <1>1, <2>1, LedgerPiles, NoPiles
  <1>3. ASSUME NEW i \in Items PROVE UnitsSold(i) = {} /\ UnitsBought(i) = {}
    <2>1. \A o \in OffersOf(i) : SoldOf(i)[o] = 0
      BY <1>1 DEF SoldOf, OffersOf
    <2>2. UnitsBought(i) = {}
      BY <1>1, BoughtOf
    <2>3. QED
      BY <2>1, <2>2, LedgerPiles, NoPiles
  <1>4. LedgerCounted
    <2>1. \A o \in Offers : stock[o] <= InitialStock[o]
      BY <1>1
    <2>2. IsFiniteSet(MoneySpent) /\ IsFiniteSet(MoneyTaken)
      BY <1>2, FS_EmptySet, Zenon
    <2>3. \A i \in Items : IsFiniteSet(UnitsSold(i)) /\ IsFiniteSet(UnitsBought(i))
      BY <1>3, FS_EmptySet, Zenon
    <2>4. QED
      BY <2>1, <2>2, <2>3 DEF LedgerCounted
  <1>5. LedgerBalanced
    <2>1. \A a \in Agents : budget[a] + spent[a] = InitialBudget[a]
      BY <1>1
    <2>2. Cardinality(MoneySpent) = Cardinality(MoneyTaken)
      BY <1>2, Zenon
    <2>3. \A i \in Items : Cardinality(UnitsSold(i)) = Cardinality(UnitsBought(i))
      BY <1>3, Zenon
    <2>4. QED
      BY <2>1, <2>2, <2>3 DEF LedgerBalanced
  <1>6. QED
    BY <1>4, <1>5 DEF LedgerKept

(***************************************************************************)
(* Money and goods are conserved in every market: agents end up with what  *)
(* they began with less what they spent, the units of an item that agents  *)
(* bought are those that left the shelves, and money spent is money taken. *)
(***************************************************************************)
THEOREM LedgerAlwaysBalances == Spec => []LedgerBalanced
  <1>1. LedgerKept => LedgerBalanced
    BY DEF LedgerKept
  <1>2. QED
    BY <1>1, InitTyped, NextTyped, LedgerInit, LedgerNext, PTL DEF Spec
=============================================================================
