---------------------------- MODULE AgentMarket ----------------------------
(***************************************************************************)
(* The agent-layer runtime: run_agent_layer_scenario of                    *)
(* src/engine/agent_runtime.cpp.  One loop pops the first event of a       *)
(* priority queue and runs its handler; the handlers are the actions       *)
(* below.  Each of them changes agents and shops and schedules further     *)
(* events, so that the "processes" of this system are chains of events:    *)
(*                                                                         *)
(*   DECIDE_PURCHASE -> MOVE_START -> MOVE_ARRIVE -> QUEUE_ENTER           *)
(*                   -> PURCHASE -> DECIDE_PURCHASE ...                    *)
(*                                                                         *)
(* An observation or the end of a conversation starts a further chain for  *)
(* the same agent, and nothing ever joins two chains: one agent may be     *)
(* walking, queueing at two shops and talking at the same simulated time.  *)
(*                                                                         *)
(* Time is counted in ticks of 0.1 time units, the unit of the runtime's   *)
(* shortest fixed delay, and money in cents.  A draw of the random number  *)
(* generator is a nondeterministic choice over what the draw can yield.    *)
(* Statistics that no handler reads (visited locations, influence and      *)
(* observation counters, the intent and destination of an agent) and the   *)
(* traces are left out.                                                    *)
(***************************************************************************)
EXTENDS Integers, Sequences, FiniteSets

CONSTANTS
  NAgents,        \* number of agents; an agent is its index, as in the code
  Shops, Items, Tags, Locations,
  StartLocation,  \* agent -> location
  InitialBudget,  \* agent -> cents
  Pace,           \* agent -> ticks to cover one unit of distance
  MemorySlots,    \* what scenarios give for agent -> capacity of its memory
  ShopLocation,   \* shop -> location
  ServiceTime,    \* shop -> ticks
  QueueCapacity,  \* shop -> capacity, 0 for no limit
  Offers,         \* the pairs <<shop, item>> of the shops' inventories
  Price,          \* offer -> cents
  InitialStock,   \* offer -> units
  ItemTags,       \* item -> sequence of tags
  Distance,       \* location -> location -> distance
  TravelJitter,   \* what the draw "congestion_jitter" can add, in ticks
  ServiceJitter,  \* what the draw "service_jitter" can add, in ticks
  TalkTime,       \* what the draw "conversation_duration" can yield, in ticks
  Duration,       \* world.duration, in ticks
  WorldMaxEvents, \* world.max_event_count
  OptionMaxTime,  \* RunOptions.max_time, 0 when unset
  OptionMaxEvents,\* RunOptions.max_events, 0 when unset
  None            \* the index -1: no agent, shop or item

Agents == 0 .. NAgents - 1

(***************************************************************************)
(* What validate_agent_layer guarantees of a scenario, and the ranges of   *)
(* the three draws (normalized is in [0, 1)).  The validator does not look *)
(* at memory_slots, a size_t: it may be 0.                                 *)
(***************************************************************************)
ASSUME MarketAssumption ==
  /\ NAgents \in Nat \ {0}
  /\ StartLocation \in [Agents -> Locations]
  /\ InitialBudget \in [Agents -> Nat]
  /\ Pace \in [Agents -> Nat]
  /\ MemorySlots \subseteq [Agents -> Nat]
  /\ ShopLocation \in [Shops -> Locations]
  /\ ServiceTime \in [Shops -> Nat]
  /\ QueueCapacity \in [Shops -> Nat]
  /\ Offers \subseteq Shops \X Items
  /\ Price \in [Offers -> Nat]
  /\ InitialStock \in [Offers -> Nat]
  /\ ItemTags \in [Items -> Seq(Tags)]
  /\ Distance \in [Locations -> [Locations -> Nat]]
  /\ TravelJitter \subseteq 0 .. 4
  /\ ServiceJitter \subseteq 0 .. 6
  /\ TalkTime \subseteq 4 .. 15
  /\ Duration \in Nat \ {0}
  /\ WorldMaxEvents \in Nat \ {0}
  /\ OptionMaxTime \in Nat
  /\ OptionMaxEvents \in Nat
  /\ None \notin Agents \cup Shops \cup Items

Lesser(m, n) == IF m <= n THEN m ELSE n

MaxTime == IF OptionMaxTime > 0 THEN Lesser(OptionMaxTime, Duration)
                                ELSE Duration

MaxEvents == IF OptionMaxEvents = 0
             THEN WorldMaxEvents
             ELSE Lesser(OptionMaxEvents, WorldMaxEvents)

VARIABLES
  phase,        \* "running", "ended" by SIM_END, "halted" by max_events or
                \* "crashed" in add_memory
  now,          \* current_time
  processed,    \* processed_events
  nextOrdinal,  \* next_ordinal
  queue,        \* the set of pending events
  location,     \* agent -> location
  budget,       \* agent -> cents
  spent,        \* agent -> cents, money_spent
  purchases,    \* agent -> sequence of items bought
  talking,      \* agent -> in_conversation
  partner,      \* agent -> conversation_partner
  slots,        \* agent -> memory_slots
  memories,     \* agent -> set of influences
  timeWalking, timeQueueing, timeTalking,  \* agent -> ticks
  stock,        \* offer -> units left
  queueSize     \* shop -> customers admitted and not yet served

kernel  == <<phase, now, processed, nextOrdinal, queue>>
wallet  == <<budget, spent, purchases>>
speech  == <<talking, partner, timeTalking>>
vars == <<kernel, location, wallet, speech, slots, memories, timeWalking,
          timeQueueing, stock, queueSize>>

-----------------------------------------------------------------------------
(***************************************************************************)
(* Events.  Two events at the same time and priority are ordered by their  *)
(* handles, the type name followed by the ordinal; HandleRank is the       *)
(* position of the type name in lexicographic order.                       *)
(***************************************************************************)
HandleRank ==
  [DECIDE_PURCHASE |-> 1, INFLUENCE_DECAY |-> 2, MOVE_ARRIVE |-> 3,
   MOVE_START |-> 4, OBSERVE_PURCHASE |-> 5, PURCHASE |-> 6,
   QUEUE_ENTER |-> 7, SIM_END |-> 8, SIM_START |-> 9, TALK_END |-> 10,
   TALK_START |-> 11]

EventTypes == DOMAIN HandleRank

Event(type, t, prio, ord, agent, source, shop, item, span) ==
  [type |-> type, t |-> t, prio |-> prio, ord |-> ord, agent |-> agent,
   source |-> source, shop |-> shop, item |-> item, span |-> span]

\* The bug of sorting priorities in ascending order.
BeforeAscendingPriority(e, f) ==
  \/ e.t < f.t
  \/ e.t = f.t /\ e.prio < f.prio
  \/ e.t = f.t /\ e.prio = f.prio /\ HandleRank[e.type] < HandleRank[f.type]
  \/ e.t = f.t /\ e.prio = f.prio /\ e.type = f.type /\ e.ord < f.ord

Before(e, f) ==
  \/ e.t < f.t
  \/ e.t = f.t /\ e.prio > f.prio
  \/ e.t = f.t /\ e.prio = f.prio /\ HandleRank[e.type] < HandleRank[f.type]
  \/ e.t = f.t /\ e.prio = f.prio /\ e.type = f.type /\ e.ord < f.ord

IsTop(e) == \A f \in queue \ {e} : Before(e, f)

\* The next decision of agent a.
Decision(a, t, prio, ord) ==
  Event("DECIDE_PURCHASE", t, prio, ord, a, None, None, None, 0)

\* The next event of the chain that e belongs to, about offer o; span is the
\* time its payload carries (as text with six decimals, which is exact for
\* whole ticks).
Step(e, type, t, prio, o, span) ==
  Event(type, t, prio, nextOrdinal, e.agent, e.source, o[1], o[2], span)

OfferOf(e) == <<e.shop, e.item>>

SimStartEvent == Event("SIM_START", 0, 100, 1, None, None, None, None, 0)
SimEndEvent ==
  Event("SIM_END", MaxTime, -100, 2, None, None, None, None, 0)

(***************************************************************************)
(* The loop head.  The limit is tested before the pop, so that it can also *)
(* stop a run whose only pending event is SIM_END.                         *)
(***************************************************************************)
LimitReached == processed >= MaxEvents

Due(e) ==
  /\ phase = "running"
  /\ ~LimitReached
  /\ IsTop(e)
  /\ e.t <= MaxTime

Pop(e, type) ==
  /\ Due(e)
  /\ e.type = type
  /\ now' = e.t
  /\ processed' = processed + 1

\* The handler of e schedules the events new, with ordinals in order.  Only
\* the order of ordinals matters: where the code skips an agent, a number is
\* left unused.
Schedule(e, new, count) ==
  /\ queue' = (queue \ {e}) \cup new
  /\ nextOrdinal' = nextOrdinal + count
  /\ UNCHANGED phase

-----------------------------------------------------------------------------
(***************************************************************************)
(* Memories (add_memory, decay_memories).  The vector of an agent is the   *)
(* set of its records; a record is older than another when it was written  *)
(* by an earlier event, or earlier by the same event.  Erasing the first   *)
(* element whenever the vector is full keeps its newest elements.  Without *)
(* slots the vector is full and empty: see EraseFromEmpty.                 *)
(***************************************************************************)
MemoryLife == 50

Memory == [about : Items \cup Tags, expires : Nat, event : Nat, part : Nat]

Older(m, n) == \/ m.event < n.event
               \/ m.event = n.event /\ m.part < n.part

Newest(M, size) ==
  {m \in M : Cardinality({n \in M : Older(m, n)}) < size}

Influence(about, part) ==
  [about |-> about, expires |-> now' + MemoryLife,
   event |-> processed, part |-> part]

FullAndEmpty(b) == memories[b] = {} /\ Cardinality(memories[b]) >= slots[b]

Remember(b, new) ==
  /\ ~FullAndEmpty(b)
  /\ memories' = [memories EXCEPT ![b] = Newest(@ \cup new, slots[b])]

\* The bug of keeping a memory at the instant it expires.
FreshInclusive(M, t) == {m \in M : m.expires >= t}

Fresh(M, t) == {m \in M : m.expires > t}

DecayMemories(a) ==
  memories' = [memories EXCEPT ![a] = Fresh(@, now')]

DecayEvent(a, t, ord) ==
  Event("INFLUENCE_DECAY", t, 3, ord, a, None, None, None, 0)

-----------------------------------------------------------------------------
(***************************************************************************)
(* SIM_START: every agent decides at time 0.                               *)
(***************************************************************************)
SimStart(e) ==
  /\ Pop(e, "SIM_START")
  /\ Schedule(e, {Decision(a, 0, 10, nextOrdinal + a) : a \in Agents}, NAgents)
  /\ UNCHANGED <<location, wallet, speech, slots, memories, timeWalking,
                 timeQueueing, stock, queueSize>>

(***************************************************************************)
(* DECIDE_PURCHASE: expired memories are dropped, then one of the offers   *)
(* that are in stock and affordable is drawn; every weight is positive, so *)
(* any of them can be.  With no such offer the agent decides again later.  *)
(***************************************************************************)
Buyable(a, o) == o \in Offers /\ stock[o] > 0 /\ Price[o] <= budget[a]

Candidates(a) == {o \in Offers : Buyable(a, o)}

Choose(e) ==
  \E o \in Candidates(e.agent) :
     Schedule(e, {Step(e, "MOVE_START", now', 8, o, 0)}, 1)

NothingToBuy(e) ==
  /\ Candidates(e.agent) = {}
  /\ Schedule(e, {Decision(e.agent, now' + 10, 5, nextOrdinal)}, 1)

DecidePurchase(e) ==
  /\ Pop(e, "DECIDE_PURCHASE")
  /\ DecayMemories(e.agent)
  /\ Choose(e) \/ NothingToBuy(e)
  /\ UNCHANGED <<location, wallet, speech, slots, timeWalking, timeQueueing,
                 stock, queueSize>>

(***************************************************************************)
(* MOVE_START, MOVE_ARRIVE: the journey is timed from the location the     *)
(* agent has at the start; the event carries the journey's time.           *)
(***************************************************************************)
MoveStart(e) ==
  /\ Pop(e, "MOVE_START")
  /\ \E jitter \in TravelJitter :
       LET travel == Distance[location[e.agent]][ShopLocation[e.shop]]
                       * Pace[e.agent] + jitter
       IN Schedule(e, {Step(e, "MOVE_ARRIVE", now' + travel, 8, OfferOf(e),
                            travel)}, 1)
  /\ UNCHANGED <<location, wallet, speech, slots, memories, timeWalking,
                 timeQueueing, stock, queueSize>>

MoveArrive(e) ==
  /\ Pop(e, "MOVE_ARRIVE")
  /\ location' = [location EXCEPT ![e.agent] = ShopLocation[e.shop]]
  /\ timeWalking' = [timeWalking EXCEPT ![e.agent] = @ + e.span]
  /\ Schedule(e, {Step(e, "QUEUE_ENTER", now', 7, OfferOf(e), 0)}, 1)
  /\ UNCHANGED <<wallet, speech, slots, memories, timeQueueing, stock,
                 queueSize>>

(***************************************************************************)
(* QUEUE_ENTER: an agent is admitted when its offer is still buyable and   *)
(* the queue has room; its whole service time is booked at once.           *)
(***************************************************************************)
\* The bug of comparing with > in place of >=.
QueueFullOneLate(s) == QueueCapacity[s] > 0 /\ queueSize[s] > QueueCapacity[s]

QueueFull(s) == QueueCapacity[s] > 0 /\ queueSize[s] >= QueueCapacity[s]

Admit(e) ==
  \E jitter \in ServiceJitter :
     LET service == ServiceTime[e.shop] + jitter
     IN /\ queueSize' = [queueSize EXCEPT ![e.shop] = @ + 1]
        /\ timeQueueing' = [timeQueueing EXCEPT ![e.agent] = @ + service]
        /\ Schedule(e, {Step(e, "PURCHASE", now' + service, 7, OfferOf(e),
                             0)}, 1)

\* The bug of a turned-away agent that is not asked to decide again.
TurnAwayForGood(e) ==
  /\ Schedule(e, {}, 0)
  /\ UNCHANGED <<timeQueueing, queueSize>>

TurnAway(e) ==
  /\ Schedule(e, {Decision(e.agent, now' + 8, 6, nextOrdinal)}, 1)
  /\ UNCHANGED <<timeQueueing, queueSize>>

QueueEnter(e) ==
  /\ Pop(e, "QUEUE_ENTER")
  /\ IF Buyable(e.agent, OfferOf(e)) /\ ~QueueFull(e.shop)
     THEN Admit(e) ELSE TurnAway(e)
  /\ UNCHANGED <<location, wallet, speech, slots, memories, timeWalking, stock>>

(***************************************************************************)
(* PURCHASE: the customer leaves the queue, and buys if the offer is still *)
(* buyable.  Agents at the same place observe the sale; with the one of    *)
(* lowest index a conversation may start, if neither is in one.            *)
(***************************************************************************)

SaleStands(e) == Buyable(e.agent, OfferOf(e))

\* The bug of releasing the place in the queue only when something is sold.
LeaveQueueOnSale(e) ==
  queueSize' = IF queueSize[e.shop] > 0 /\ SaleStands(e)
               THEN [queueSize EXCEPT ![e.shop] = @ - 1]
               ELSE queueSize

LeaveQueue(e) ==
  queueSize' = IF queueSize[e.shop] > 0
               THEN [queueSize EXCEPT ![e.shop] = @ - 1]
               ELSE queueSize

\* The bug of charging the agent without taking the unit off the shelf.
PayWithoutDelivery(e) ==
  LET o == OfferOf(e)
  IN /\ budget' = [budget EXCEPT ![e.agent] = @ - Price[o]]
     /\ spent' = [spent EXCEPT ![e.agent] = @ + Price[o]]
     /\ purchases' = [purchases EXCEPT ![e.agent] = Append(@, e.item)]
     /\ stock' = stock

Pay(e) ==
  LET o == OfferOf(e)
  IN /\ budget' = [budget EXCEPT ![e.agent] = @ - Price[o]]
     /\ spent' = [spent EXCEPT ![e.agent] = @ + Price[o]]
     /\ purchases' = [purchases EXCEPT ![e.agent] = Append(@, e.item)]
     /\ stock' = [stock EXCEPT ![o] = @ - 1]

\* An agent goes on shopping while it has more than 0.01.
LowBudget == 1

Observers(a) == {b \in Agents \ {a} : location[b] = location[a]}

CanTalk(a, b) == ~talking[a] /\ ~talking[b]

\* The first agent at the same place, if both can talk; else nobody.
TalkPartners(a) ==
  {b \in Observers(a) : (\A c \in Observers(a) : b <= c) /\ CanTalk(a, b)}

Sale(e) ==
  LET a == e.agent
      seen == {Event("OBSERVE_PURCHASE", now' + 1, 6, nextOrdinal + b, b, a,
                     e.shop, e.item, 0) : b \in Observers(a)}
      again == IF budget'[a] > LowBudget
               THEN {Decision(a, now' + 10, 5, nextOrdinal + NAgents + 1)}
               ELSE {}
  IN /\ Pay(e)
     /\ \E chats \in {{}, TalkPartners(a)} :
          LET talk == {Event("TALK_START", now' + 2, 6, nextOrdinal + NAgents,
                             a, b, e.shop, e.item, 0) : b \in chats}
          IN Schedule(e, seen \cup talk \cup again, NAgents + 2)

NoSale(e) ==
  /\ Schedule(e, {Decision(e.agent, now' + 10, 5, nextOrdinal)}, 1)
  /\ UNCHANGED <<wallet, stock>>

Purchase(e) ==
  /\ Pop(e, "PURCHASE")
  /\ LeaveQueue(e)
  /\ IF SaleStands(e) THEN Sale(e) ELSE NoSale(e)
  /\ UNCHANGED <<location, speech, slots, memories, timeWalking, timeQueueing>>

(***************************************************************************)
(* OBSERVE_PURCHASE: the observer remembers the item and each of its tags, *)
(* and decides again soon unless it is talking.                            *)
(***************************************************************************)
ObservePurchase(e) ==
  LET b == e.agent
      again == IF talking[b]
               THEN {}
               ELSE {Decision(b, now' + 6, 5, nextOrdinal + 1)}
      tags == ItemTags[e.item]
  IN /\ Pop(e, "OBSERVE_PURCHASE")
     /\ Remember(b, {Influence(e.item, 0)} \cup
                    {Influence(tags[k], k) : k \in DOMAIN tags})
     /\ Schedule(e, {DecayEvent(b, now' + MemoryLife, nextOrdinal)} \cup again, 2)
     /\ UNCHANGED <<location, wallet, speech, slots, timeWalking, timeQueueing,
                    stock, queueSize>>

(***************************************************************************)
(* TALK_START, TALK_END: the test made when the conversation was proposed  *)
(* is repeated, for either agent may have started another one since.       *)
(***************************************************************************)
Converse(e) ==
  /\ talking' = [talking EXCEPT ![e.agent] = TRUE, ![e.source] = TRUE]
  /\ partner' = [partner EXCEPT ![e.agent] = e.source, ![e.source] = e.agent]
  /\ \E duration \in TalkTime :
       Schedule(e, {Step(e, "TALK_END", now' + duration, 6, OfferOf(e),
                         duration)}, 1)

Busy(e) ==
  /\ Schedule(e, {}, 0)
  /\ UNCHANGED <<talking, partner>>

\* The bug of trusting the test made when the conversation was proposed.
MayConverseUnchecked(e) == TRUE

MayConverse(e) == CanTalk(e.agent, e.source)

TalkStart(e) ==
  /\ Pop(e, "TALK_START")
  /\ IF MayConverse(e) THEN Converse(e) ELSE Busy(e)
  /\ UNCHANGED <<location, wallet, timeTalking, slots, memories, timeWalking,
                 timeQueueing, stock, queueSize>>

\* The last item bought (last_purchase_item_index) is heard by the partner.
HearOf(e) ==
  LET bought == purchases[e.agent]
  IN IF bought # <<>>
     THEN Remember(e.source, {Influence(bought[Len(bought)], 0)})
     ELSE UNCHANGED memories

TalkEnd(e) ==
  LET a == e.agent
      b == e.source
      decay == IF purchases[a] # <<>>
               THEN {DecayEvent(b, now' + MemoryLife, nextOrdinal)}
               ELSE {}
  IN /\ Pop(e, "TALK_END")
     /\ timeTalking' = [c \in Agents |-> IF c \in {a, b}
                                        THEN timeTalking[c] + e.span
                                        ELSE timeTalking[c]]
     /\ talking' = [talking EXCEPT ![a] = FALSE, ![b] = FALSE]
     /\ partner' = [partner EXCEPT ![a] = None, ![b] = None]
     /\ HearOf(e)
     /\ Schedule(e, decay \cup {Decision(a, now' + 4, 5, nextOrdinal + 1),
                                Decision(b, now' + 4, 5, nextOrdinal + 2)}, 3)
     /\ UNCHANGED <<location, wallet, slots, timeWalking, timeQueueing, stock,
                    queueSize>>

InfluenceDecay(e) ==
  /\ Pop(e, "INFLUENCE_DECAY")
  /\ DecayMemories(e.agent)
  /\ Schedule(e, {}, 0)
  /\ UNCHANGED <<location, wallet, speech, slots, timeWalking, timeQueueing,
                 stock, queueSize>>

(***************************************************************************)
(* SIM_END leaves the loop.  So do an empty queue, the limit on events     *)
(* (which is reported as a failure) and an event past MaxTime.             *)
(***************************************************************************)
SimEnd(e) ==
  /\ Pop(e, "SIM_END")
  /\ phase' = "ended"
  /\ queue' = queue \ {e}
  /\ UNCHANGED <<nextOrdinal, location, wallet, speech, slots, memories,
                 timeWalking, timeQueueing, stock, queueSize>>

MustLeave ==
  \/ queue = {}
  \/ LimitReached
  \/ \E e \in queue : IsTop(e) /\ e.t > MaxTime

LeaveLoop ==
  /\ phase = "running"
  /\ MustLeave
  /\ phase' = IF queue # {} /\ LimitReached THEN "halted" ELSE "ended"
  /\ queue' = IF LimitReached THEN queue ELSE {e \in queue : ~IsTop(e)}
  /\ UNCHANGED <<now, processed, nextOrdinal, location, wallet, speech,
                 slots, memories, timeWalking, timeQueueing, stock, queueSize>>

(***************************************************************************)
(* add_memory of an agent without slots erases the first element of a      *)
(* vector that has none and never had one: what the build does is to       *)
(* destroy a string at an address before the null pointer, and to crash.   *)
(* Nothing is left of the process; the other variables keep what they were *)
(* before the event.                                                       *)
(***************************************************************************)
EraseFromEmpty(e) ==
  /\ Due(e)
  /\ \/ e.type = "OBSERVE_PURCHASE" /\ FullAndEmpty(e.agent)
     \/ /\ e.type = "TALK_END" /\ purchases[e.agent] # <<>>
        /\ FullAndEmpty(e.source)
  /\ phase' = "crashed"
  /\ UNCHANGED <<now, processed, nextOrdinal, queue, location, wallet, speech,
                 slots, memories, timeWalking, timeQueueing, stock, queueSize>>

-----------------------------------------------------------------------------
Init ==
  /\ phase = "running"
  /\ now = 0
  /\ processed = 0
  /\ nextOrdinal = 3
  /\ queue = {SimStartEvent, SimEndEvent}
  /\ location = StartLocation
  /\ budget = InitialBudget
  /\ spent = [a \in Agents |-> 0]
  /\ purchases = [a \in Agents |-> <<>>]
  /\ talking = [a \in Agents |-> FALSE]
  /\ partner = [a \in Agents |-> None]
  /\ slots \in MemorySlots
  /\ memories = [a \in Agents |-> {}]
  /\ timeWalking = [a \in Agents |-> 0]
  /\ timeQueueing = [a \in Agents |-> 0]
  /\ timeTalking = [a \in Agents |-> 0]
  /\ stock = InitialStock
  /\ queueSize = [s \in Shops |-> 0]

Handle(e) ==
  \/ SimStart(e)      \/ DecidePurchase(e)  \/ MoveStart(e)
  \/ MoveArrive(e)    \/ QueueEnter(e)      \/ Purchase(e)
  \/ ObservePurchase(e) \/ TalkStart(e)     \/ TalkEnd(e)
  \/ InfluenceDecay(e)  \/ SimEnd(e)

Next ==
  \/ \E e \in queue : Handle(e)
  \/ \E e \in queue : EraseFromEmpty(e)
  \/ LeaveLoop

Spec == Init /\ [][Next]_vars

\* The loop is a single thread that runs as long as it can.
FairSpec == Spec /\ WF_vars(Next)

-----------------------------------------------------------------------------
(***************************************************************************)
(* Properties.                                                             *)
(***************************************************************************)
Indices == Agents \cup {None}

EventRecord ==
  [type : EventTypes, t : Nat, prio : Int, ord : Nat, agent : Indices,
   source : Indices, shop : Shops \cup {None}, item : Items \cup {None},
   span : Nat]

\* Every variable of the runtime has its type; in particular no agent's
\* budget and no offer's stock is ever negative, although both are tested
\* one or two events before they are spent.
TypeOK ==
  /\ phase \in {"running", "ended", "halted", "crashed"}
  /\ now \in Nat
  /\ processed \in Nat
  /\ nextOrdinal \in Nat
  /\ queue \subseteq EventRecord
  /\ location \in [Agents -> Locations]
  /\ budget \in [Agents -> Nat]
  /\ spent \in [Agents -> Nat]
  /\ purchases \in [Agents -> Seq(Items)]
  /\ talking \in [Agents -> BOOLEAN]
  /\ partner \in [Agents -> Indices]
  /\ slots \in [Agents -> Nat]
  /\ memories \in [Agents -> SUBSET Memory]
  /\ timeWalking \in [Agents -> Nat]
  /\ timeQueueing \in [Agents -> Nat]
  /\ timeTalking \in [Agents -> Nat]
  /\ stock \in [Offers -> Nat]
  /\ queueSize \in [Shops -> Nat]

Pending(type) == {e \in queue : e.type = type}

InService(s) == {e \in Pending("PURCHASE") : e.shop = s}

\* The counter queue_size of a shop is exactly the number of its customers
\* whose PURCHASE is pending, and never exceeds a capacity that is set:
\* increments at QUEUE_ENTER and decrements at PURCHASE stay paired whatever
\* sales are refused in between.
QueueCounted ==
  \A s \in Shops :
    /\ queueSize[s] = Cardinality(InService(s))
    /\ QueueCapacity[s] > 0 => queueSize[s] <= QueueCapacity[s]

\* Two agents converse with each other or not at all, and every conversation
\* is ended by exactly one pending TALK_END; no TALK_END is pending that would
\* cut off somebody else's conversation.
ConversationsPaired ==
  /\ \A a \in Agents :
       /\ talking[a] <=> partner[a] # None
       /\ talking[a] => /\ partner[a] # a
                        /\ partner[partner[a]] = a
                        /\ \E e \in Pending("TALK_END") :
                             {e.agent, e.source} = {a, partner[a]}
  /\ \A e \in Pending("TALK_END") : partner[e.agent] = e.source
  /\ \A e, f \in Pending("TALK_END") : e.agent \in {f.agent, f.source} => e = f

ShoppingTypes ==
  {"DECIDE_PURCHASE", "MOVE_START", "MOVE_ARRIVE", "QUEUE_ENTER", "PURCHASE"}

\* Once the market is open, an agent that still has money has a pending event
\* that leads to its next decision: no refusal, full queue, conversation or
\* sold-out shelf makes it drop out of the simulation.
NobodyDropsOut ==
  (phase = "running" /\ SimStartEvent \notin queue) =>
    \A a \in Agents : budget[a] > LowBudget =>
      \E e \in queue : e.agent = a /\ e.type \in ShoppingTypes

\* Making room for a memory crashes only where some agent has no slots.
CrashesForWantOfSlots == phase = "crashed" => \E a \in Agents : slots[a] = 0

HeldWithinSlots ==
  \A a \in Agents :
    /\ Cardinality(memories[a]) <= slots[a]
    /\ \A m \in memories[a] :
         /\ m.expires >= now
         /\ phase = "running" =>
              \E e \in Pending("INFLUENCE_DECAY") :
                 e.agent = a /\ e.t = m.expires

\* An agent remembers no more than its slots hold, and nothing that has
\* expired before the present: each memory is dropped by its own
\* INFLUENCE_DECAY at the latest, even if the agent never decides again.  A
\* scenario without slots, which the validator accepts, is the only one in
\* which remembering can crash.
MemoriesBoundedAndFresh == CrashesForWantOfSlots /\ HeldWithinSlots

Sold(o) == InitialStock[o] - stock[o]

UnitsSold(i) ==
  UNION {{<<o, k>> : k \in 1 .. Sold(o)} : o \in {x \in Offers : x[2] = i}}

UnitsBought(i) ==
  UNION {{<<a, k>> : k \in {j \in DOMAIN purchases[a] : purchases[a][j] = i}}
           : a \in Agents}

MoneyTaken ==
  UNION {{<<o, k>> : k \in 1 .. Price[o] * Sold(o)} : o \in Offers}

MoneySpent == UNION {{<<a, k>> : k \in 1 .. spent[a]} : a \in Agents}

\* Nothing is sold that no agent has paid for and nothing is paid for that is
\* not taken from a shelf: of each item, the units that left the shelves of all
\* shops are as many as the agents bought; the money of the agents adds up to
\* what they started with, and what they spent is what the shelves are worth.
LedgerBalanced ==
  /\ \A a \in Agents : budget[a] + spent[a] = InitialBudget[a]
  /\ \A i \in Items : Cardinality(UnitsSold(i)) = Cardinality(UnitsBought(i))
  /\ Cardinality(MoneySpent) = Cardinality(MoneyTaken)

\* SIM_END is pending as long as the run is, so that the loop never finds an
\* empty queue nor an event past MaxTime; when SIM_END has run, every event due
\* by MaxTime was handled, those at MaxTime itself included.
NothingDueIsDropped ==
  /\ phase = "running" => SimEndEvent \in queue
  /\ phase = "ended" => \A e \in queue : e.t > MaxTime

(***************************************************************************)
(* The inductive part that the proofs rest on: what each type of event     *)
(* carries, that ordinals are unique, and that no event is in the past.    *)
(***************************************************************************)
ChainTypes == {"MOVE_START", "MOVE_ARRIVE", "QUEUE_ENTER", "PURCHASE"}

EventOK(e) ==
  /\ e \in EventRecord
  /\ e.type = "SIM_START" => e = SimStartEvent
  /\ e.type = "SIM_END" => e = SimEndEvent
  /\ e.type \notin {"SIM_START", "SIM_END"} => e.agent \in Agents /\ e.prio > 0
  /\ e.type \in ChainTypes => OfferOf(e) \in Offers
  /\ e.type = "OBSERVE_PURCHASE" => e.item \in Items
  /\ e.type \in {"TALK_START", "TALK_END"} => e.source \in Agents \ {e.agent}

\* Every pending event carries the indices its handler will use, lies at or
\* after the present and has an ordinal of its own, already given out.
QueueWellFormed ==
  /\ IsFiniteSet(queue)
  /\ \A e \in queue : EventOK(e) /\ e.t >= now /\ e.ord < nextOrdinal
  /\ \A e, f \in queue : e.ord = f.ord => e = f

\* Simulated time never runs backwards, and no event is handled after MaxTime
\* or beyond the limit on events.
TimeAndLimit ==
  [][now' >= now /\ now' <= MaxTime /\ processed' <= MaxEvents]_vars

DueService(a) ==
  \E e \in Pending("PURCHASE") : e.agent = a /\ e.t <= MaxTime

\* A customer admitted to a queue whose service is over by MaxTime is served
\* before the run ends, unless the limit on events halts the run or it crashes
\* for want of memory slots.
DueCustomersServed ==
  \A a \in Agents :
    DueService(a) ~> (~DueService(a) \/ phase \in {"halted", "crashed"})

=============================================================================
