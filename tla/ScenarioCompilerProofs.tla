----------------------- MODULE ScenarioCompilerProofs -----------------------
(***************************************************************************)
(* Theorems about validation, for every scenario: the search for cycles    *)
(* refuses exactly the scenarios whose graph has one, the report is exact, *)
(* what is accepted resolves its references and satisfies its initial      *)
(* constraints, and what is compiled has sound tables.                     *)
(***************************************************************************)
EXTENDS ScenarioCompiler, FiniteSetTheorems, SequenceTheorems, TLAPS

Calls == [node : Linked(scenario), left : SUBSET Linked(scenario)]

(***************************************************************************)
(* The inductive invariant.                                                *)
(***************************************************************************)
\* Every variable has one colour; the gray ones are those of the calls.
ColoursOK ==
  /\ Linked(scenario) = white \cup gray \cup black
  /\ white \cap gray = {} /\ white \cap black = {} /\ gray \cap black = {}
  /\ stack \in Seq(Calls)
  /\ gray = {stack[k].node : k \in DOMAIN stack}
  /\ \A j, k \in DOMAIN stack : stack[j].node = stack[k].node => j = k

\* A call is for a successor of the one below; the successors that a call has
\* done with are black, but for the one it waits for.
CallsOK ==
  \A k \in DOMAIN stack :
    /\ stack[k].left \subseteq Successors(scenario, stack[k].node)
    /\ k < Len(stack) =>
         stack[k + 1].node \in Successors(scenario, stack[k].node)
    /\ \A v \in Successors(scenario, stack[k].node) \ stack[k].left :
         v \in black \/ (k < Len(stack) /\ v = stack[k + 1].node)

\* What is black leads to what is black, and into no cycle.
BlackOK ==
  /\ \A v \in black : Successors(scenario, v) \subseteq black
  /\ \A nodes \in SUBSET black :
       nodes # {} => \E v \in nodes : Successors(scenario, v) \cap nodes = {}

ReportOK == \E results : report \in Seq(results)

SearchInv == ReportOK /\ ColoursOK /\ CallsOK /\ BlackOK /\ CyclesFound

(***************************************************************************)
(* The graph.                                                              *)
(***************************************************************************)
LEMMA SuccessorsLinked ==
  ASSUME NEW s, NEW v
  PROVE  Successors(s, v) \subseteq Linked(s)
  BY DEF Successors, Linked

\* A call on the stack that sees a gray successor is on a cycle: the part of
\* the stack from there on.
LEMMA BackEdgeCloses ==
  ASSUME ColoursOK, CallsOK, stack # <<>>,
         NEW v \in Top.left, v \in gray
  PROVE  Cyclic(scenario)
<1> DEFINE n == Len(stack)
<1>1. n \in Nat \ {0} /\ DOMAIN stack = 1 .. n
  BY DEF ColoursOK
<1>2. PICK i \in 1 .. n : stack[i].node = v
  BY <1>1 DEF ColoursOK
<1> DEFINE nodes == {stack[k].node : k \in i .. n}
<1>3. nodes \in SUBSET Linked(scenario) /\ nodes # {}
  <2>1. \A k \in i .. n : stack[k] \in Calls
    BY <1>1, <1>2 DEF ColoursOK
  <2>2. \A k \in i .. n : stack[k].node \in Linked(scenario)
    BY <2>1 DEF Calls
  <2>3. stack[i].node \in nodes
    BY <1>1, <1>2
  <2>4. nodes \subseteq Linked(scenario)
    BY <2>2
  <2>5. nodes # {}
    BY <2>3
  <2> QED
    BY <2>4, <2>5
<1>4. ASSUME NEW u \in nodes
      PROVE  Successors(scenario, u) \cap nodes # {}
  <2>1. PICK k \in i .. n : u = stack[k].node
    OBVIOUS
  <2>2. CASE k < n
    <3>1. stack[k + 1].node \in Successors(scenario, u)
      BY <1>1, <1>2, <2>1, <2>2 DEF CallsOK
    <3>2. stack[k + 1].node \in nodes
      BY <1>1, <1>2, <2>2
    <3> QED
      BY <3>1, <3>2
  <2>3. CASE k = n
    <3>1. v \in Successors(scenario, u)
      BY <1>1, <2>1, <2>3 DEF CallsOK, Top
    <3>2. v \in nodes
      BY <1>1, <1>2
    <3> QED
      BY <3>1, <3>2
  <2>4. k \in Int /\ n \in Int /\ k <= n
    BY <1>1
  <2>5. k < n \/ k = n
    BY <2>4
  <2> QED
    BY <2>2, <2>3, <2>5
<1> QED
  BY <1>3, <1>4 DEF Cyclic

(***************************************************************************)
(* The report.                                                             *)
(***************************************************************************)
LEMMA Appended ==
  ASSUME ReportOK, NEW r, report' = Append(report, r)
  PROVE  /\ ReportOK'
         /\ Len(report') = Len(report) + 1
         /\ DOMAIN report' = DOMAIN report \cup {Len(report) + 1}
         /\ report'[Len(report) + 1] = r
         /\ \A k \in DOMAIN report : report'[k] = report[k]
<1>1. PICK results : report \in Seq(results)
  BY DEF ReportOK
<1>2. report \in Seq(results \cup {r})
  BY <1>1
<1>3. /\ report' \in Seq(results \cup {r})
      /\ Len(report') = Len(report) + 1
      /\ \A k \in 1 .. Len(report) : report'[k] = report[k]
      /\ report'[Len(report) + 1] = r
  BY <1>2, AppendProperties
<1>4. ReportOK'
  BY <1>3 DEF ReportOK
<1>5. DOMAIN report = 1 .. Len(report) /\ Len(report) \in Nat
      /\ DOMAIN report' = 1 .. Len(report')
  BY <1>2, <1>3
<1> QED
  BY <1>3, <1>4, <1>5

\* A result of another gate leaves the verdict on cycles alone.
LEMMA OtherResult ==
  ASSUME ReportOK, CyclesFound, Rule # "cycle_detection",
         NEW passed, NEW level, NEW noted,
         AddNotedResult(passed, level, noted)
  PROVE  ReportOK' /\ CyclesFound' /\ scenario' = scenario
<1> DEFINE r == [rule |-> Rule, passed |-> passed, level |-> level, noted |-> noted]
<1>1. report' = Append(report, r) /\ scenario' = scenario
  BY DEF AddNotedResult
<1>2. r.rule # "cycle_detection"
  OBVIOUS
<1> HIDE DEF r
<1>3. ReportOK' /\ \A k \in DOMAIN report' :
        report'[k] = r \/ (k \in DOMAIN report /\ report'[k] = report[k])
  <2>1. /\ ReportOK'
        /\ DOMAIN report' = DOMAIN report \cup {Len(report) + 1}
        /\ report'[Len(report) + 1] = r
        /\ \A k \in DOMAIN report : report'[k] = report[k]
    BY <1>1, Appended
  <2> QED
    BY <2>1
<1> QED
  BY <1>1, <1>2, <1>3 DEF CyclesFound

LEMMA CycleResult ==
  ASSUME ReportOK, CyclesFound,
         NEW passed, passed <=> ~Cyclic(scenario),
         AddResult(passed, "REJECT")
  PROVE  ReportOK' /\ CyclesFound' /\ scenario' = scenario
<1> DEFINE r == [rule |-> Rule, passed |-> passed, level |-> "REJECT", noted |-> FALSE]
<1>1. report' = Append(report, r) /\ scenario' = scenario
  BY DEF AddResult, AddNotedResult
<1>2. r.passed <=> ~Cyclic(scenario)
  OBVIOUS
<1> HIDE DEF r
<1>3. ReportOK' /\ \A k \in DOMAIN report' :
        report'[k] = r \/ (k \in DOMAIN report /\ report'[k] = report[k])
  <2>1. /\ ReportOK'
        /\ DOMAIN report' = DOMAIN report \cup {Len(report) + 1}
        /\ report'[Len(report) + 1] = r
        /\ \A k \in DOMAIN report : report'[k] = report[k]
    BY <1>1, Appended
  <2> QED
    BY <2>1
<1>4. Cyclic(scenario)' <=> Cyclic(scenario)
  BY <1>1 DEF Cyclic, Linked, Edges, ElementsOf, Successors
<1> QED
  BY <1>1, <1>2, <1>3, <1>4 DEF CyclesFound

(***************************************************************************)
(* The steps.                                                              *)
(***************************************************************************)
LEMMA SearchInvInit == Init => SearchInv
<1> SUFFICES ASSUME Init PROVE SearchInv
  OBVIOUS
<1>1. ReportOK /\ CyclesFound
  BY DEF Init, ValidatorInit, ReportOK, CyclesFound
<1>2. ColoursOK /\ CallsOK
  BY DEF Init, ValidatorInit, ColoursOK, CallsOK
<1>3. BlackOK
  BY DEF Init, ValidatorInit, BlackOK
<1> QED
  BY <1>1, <1>2, <1>3 DEF SearchInv

\* Nothing but the search itself touches the colours and the calls.
LEMMA SearchUntouched ==
  ASSUME ColoursOK, CallsOK, BlackOK, UNCHANGED search, scenario' = scenario
  PROVE  ColoursOK' /\ CallsOK' /\ BlackOK'
<1>1. UNCHANGED <<white, gray, black, stack>>
  BY DEF search
<1>2. ColoursOK'
  BY <1>1 DEF ColoursOK, Calls
<1>3. CallsOK'
  BY <1>1 DEF CallsOK
<1>4. BlackOK'
  BY <1>1 DEF BlackOK
<1> QED
  BY <1>2, <1>3, <1>4

\* A step that leaves search, report and scenario alone.
LEMMA StutterKeeps ==
  ASSUME SearchInv, UNCHANGED <<search, report, scenario>>
  PROVE  SearchInv'
<1>1. ColoursOK' /\ CallsOK' /\ BlackOK'
  BY SearchUntouched DEF SearchInv
<1>2. ReportOK' /\ CyclesFound'
  BY DEF SearchInv, ReportOK, CyclesFound
<1> QED
  BY <1>1, <1>2 DEF SearchInv

\* A step that adds a result of another gate.
LEMMA OtherGateKeeps ==
  ASSUME SearchInv, Rule # "cycle_detection", UNCHANGED search,
         \E passed, level, noted : AddNotedResult(passed, level, noted)
  PROVE  SearchInv'
<1>1. ReportOK' /\ CyclesFound' /\ scenario' = scenario
  BY OtherResult DEF SearchInv
<1> QED
  BY <1>1, SearchUntouched DEF SearchInv

LEMMA GoalGateKeeps == SearchInv /\ GoalGate => SearchInv'
<1> SUFFICES ASSUME SearchInv, GoalGate PROVE SearchInv'
  OBVIOUS
<1>1. Rule # "cycle_detection" /\ UNCHANGED search
  BY DEF GoalGate
<1>2. \E passed, level, noted : AddNotedResult(passed, level, noted)
  BY Zenon DEF GoalGate, AddResult
<1> QED
  BY <1>1, <1>2, OtherGateKeeps

LEMMA WholeGateKeeps == SearchInv /\ WholeGate => SearchInv'
<1> SUFFICES ASSUME SearchInv, WholeGate PROVE SearchInv'
  OBVIOUS
<1>1. Rule # "cycle_detection" /\ UNCHANGED search
  BY DEF WholeGate
<1>2. \E passed, level, noted : AddNotedResult(passed, level, noted)
  BY Zenon DEF WholeGate, AddResult
<1> QED
  BY <1>1, <1>2, OtherGateKeeps

LEMMA NotingGateKeeps == SearchInv /\ NotingGate => SearchInv'
<1> SUFFICES ASSUME SearchInv, NotingGate PROVE SearchInv'
  OBVIOUS
<1>1. Rule # "cycle_detection" /\ UNCHANGED search
  BY DEF NotingGate
<1>2. \E passed, level, noted : AddNotedResult(passed, level, noted)
  BY Zenon DEF NotingGate, AddResult
<1> QED
  BY <1>1, <1>2, OtherGateKeeps

LEMMA WalkKeeps == SearchInv /\ WalkStep => SearchInv'
<1> SUFFICES ASSUME SearchInv, WalkStep PROVE SearchInv'
  OBVIOUS
<1>1. Rule # "cycle_detection" /\ UNCHANGED search
  BY DEF WalkStep, NoAgentLayer, RefuseWorld, AcceptElement, RefuseElement,
         RefuseEmpty, EndOfList, LayerThere, Walking, Walks, search
<1>2. \/ UNCHANGED <<search, report, scenario>>
      \/ \E passed, level, noted : AddNotedResult(passed, level, noted)
  <2>1. CASE NoAgentLayer \/ RefuseWorld \/ RefuseElement \/ RefuseEmpty
    BY <2>1, Zenon DEF NoAgentLayer, RefuseWorld, RefuseElement, RefuseEmpty,
                       AddResult
  <2>2. CASE AcceptElement
    BY <2>2 DEF AcceptElement, search
  <2>3. CASE EndOfList
    <3>1. CASE list < Len(Walks[Rule])
      BY <2>3, <3>1 DEF EndOfList, search
    <3>2. CASE ~(list < Len(Walks[Rule]))
      BY <2>3, <3>2, Zenon DEF EndOfList, AddResult
    <3> QED
      BY <3>1, <3>2
  <2> QED
    BY <2>1, <2>2, <2>3 DEF WalkStep
<1> QED
  BY <1>1, <1>2, OtherGateKeeps, StutterKeeps

\* The successors of a variable, and what a call knows of them.
LEMMA CallFacts ==
  ASSUME ColoursOK, stack # <<>>
  PROVE  /\ Len(stack) \in Nat \ {0} /\ DOMAIN stack = 1 .. Len(stack)
         /\ Len(stack) \in DOMAIN stack
         /\ Top \in Calls
         /\ Top.node \in gray
  BY DEF ColoursOK, Top

LEMMA StartVisitKeeps == SearchInv /\ StartVisit => SearchInv'
<1> SUFFICES ASSUME SearchInv, StartVisit PROVE SearchInv'
  OBVIOUS
<1>1. PICK v \in white : /\ white' = white \ {v}
                         /\ gray' = gray \cup {v}
                         /\ stack' = <<Call(v)>>
  BY DEF StartVisit
<1>2. stack = <<>> /\ scenario' = scenario /\ black' = black /\ report' = report
  BY DEF StartVisit
<1>3. Call(v) \in Calls
  <2>1. v \in Linked(scenario) /\ Successors(scenario, v) \subseteq Linked(scenario)
    BY SuccessorsLinked DEF SearchInv, ColoursOK
  <2> QED
    BY <2>1 DEF Call, Calls
<1>4. gray = {}
  BY <1>2 DEF SearchInv, ColoursOK
<1>5. ColoursOK'
  <2>1. stack' \in Seq(Calls) /\ DOMAIN stack' = {1} /\ stack'[1] = Call(v)
    BY <1>1, <1>3
  <2>2. (stack \in Seq(Calls))'
    BY <2>1, <1>2 DEF Calls
  <2>3. gray' = {v} /\ Call(v).node = v
    BY <1>1, <1>4 DEF Call
  <2>4. /\ Linked(scenario) = white' \cup gray' \cup black'
        /\ white' \cap gray' = {} /\ white' \cap black' = {} /\ gray' \cap black' = {}
    BY <1>1, <1>2, <1>4 DEF SearchInv, ColoursOK
  <2> QED
    BY <1>2, <2>1, <2>2, <2>3, <2>4 DEF ColoursOK
<1>6. CallsOK'
  <2>1. DOMAIN stack' = {1} /\ Len(stack') = 1 /\ stack'[1] = Call(v)
    BY <1>1
  <2>2. Call(v).node = v /\ Call(v).left = Successors(scenario, v)
    BY DEF Call
  <2> QED
    BY <1>2, <2>1, <2>2 DEF CallsOK
<1>7. BlackOK'
  BY <1>2 DEF SearchInv, BlackOK
<1>8. ReportOK' /\ CyclesFound'
  BY <1>2 DEF SearchInv, ReportOK, CyclesFound
<1> QED
  BY <1>5, <1>6, <1>7, <1>8 DEF SearchInv

LEMMA BackEdgeKeeps == SearchInv /\ BackEdge => SearchInv'
<1> SUFFICES ASSUME SearchInv, BackEdge PROVE SearchInv'
  OBVIOUS
<1>1. Cyclic(scenario)
  BY BackEdgeCloses DEF SearchInv, BackEdge
<1>2. ReportOK' /\ CyclesFound' /\ scenario' = scenario
  BY <1>1, CycleResult DEF SearchInv, BackEdge
<1> QED
  BY <1>2, SearchUntouched DEF SearchInv, BackEdge

LEMMA NoCycleKeeps == SearchInv /\ NoCycle => SearchInv'
<1> SUFFICES ASSUME SearchInv, NoCycle PROVE SearchInv'
  OBVIOUS
<1>1. gray = {}
  BY DEF SearchInv, ColoursOK, NoCycle
<1>2. black = Linked(scenario)
  BY <1>1 DEF SearchInv, ColoursOK, NoCycle
<1>3. ~Cyclic(scenario)
  BY <1>2 DEF SearchInv, BlackOK, Cyclic
<1>4. ReportOK' /\ CyclesFound' /\ scenario' = scenario
  BY <1>3, CycleResult DEF SearchInv, NoCycle
<1> QED
  BY <1>4, SearchUntouched DEF SearchInv, NoCycle

\* The stack without its top, and with another one.
LEMMA ReturnedFacts ==
  ASSUME ColoursOK, stack # <<>>
  PROVE  /\ Returned \in Seq(Calls)
         /\ Len(Returned) = Len(stack) - 1
         /\ \A k \in 1 .. (Len(stack) - 1) : Returned[k] = stack[k]
<1>1. stack \in Seq(Calls) /\ Len(stack) \in Nat \ {0}
  BY CallFacts DEF ColoursOK
<1> DEFINE m == Len(stack) - 1
<1>2. m \in Nat /\ \A k \in 1 .. m : stack[k] \in Calls
  BY <1>1
<1> HIDE DEF m
<1>3. /\ SubSeq(stack, 1, m) \in Seq(Calls)
      /\ Len(SubSeq(stack, 1, m)) = IF 1 <= m THEN m - 1 + 1 ELSE 0
      /\ \A k \in 1 .. m - 1 + 1 : SubSeq(stack, 1, m)[k] = stack[1 + k - 1]
  BY <1>2, SubSeqProperties
<1>4. /\ Len(SubSeq(stack, 1, m)) = m
      /\ \A k \in 1 .. m : SubSeq(stack, 1, m)[k] = stack[k]
  BY <1>2, <1>3
<1> QED
  BY <1>3, <1>4 DEF Returned, m

LEMMA Replaced ==
  ASSUME ColoursOK, stack # <<>>, NEW call \in Calls
  PROVE  /\ Append(Returned, call) \in Seq(Calls)
         /\ Len(Append(Returned, call)) = Len(stack)
         /\ Append(Returned, call)[Len(stack)] = call
         /\ \A k \in 1 .. (Len(stack) - 1) :
              Append(Returned, call)[k] = stack[k]
<1>1. /\ Returned \in Seq(Calls)
      /\ Len(Returned) = Len(stack) - 1
      /\ \A k \in 1 .. (Len(stack) - 1) : Returned[k] = stack[k]
  BY ReturnedFacts
<1>2. Len(stack) \in Nat
  BY CallFacts
<1>3. /\ Append(Returned, call) \in Seq(Calls)
      /\ Len(Append(Returned, call)) = Len(Returned) + 1
      /\ Append(Returned, call)[Len(Returned) + 1] = call
      /\ \A k \in 1 .. Len(Returned) : Append(Returned, call)[k] = Returned[k]
  BY <1>1, AppendProperties
<1> QED
  BY <1>1, <1>2, <1>3

LEMMA VisitNeighbourKeeps == SearchInv /\ VisitNeighbour => SearchInv'
<1> SUFFICES ASSUME SearchInv, VisitNeighbour PROVE SearchInv'
  OBVIOUS
<1> DEFINE n == Len(stack)
<1>0. ColoursOK /\ CallsOK /\ BlackOK /\ stack # <<>>
  BY DEF SearchInv, VisitNeighbour
<1>1. PICK v \in Top.left \cap white :
        /\ white' = white \ {v}
        /\ gray' = gray \cup {v}
        /\ stack' = Append(Append(Returned, [Top EXCEPT !.left = @ \ {v}]), Call(v))
  BY DEF VisitNeighbour
<1> DEFINE t == [Top EXCEPT !.left = @ \ {v}]
<1>2. scenario' = scenario /\ black' = black /\ report' = report
  BY DEF VisitNeighbour
<1>3. /\ n \in Nat \ {0} /\ DOMAIN stack = 1 .. n /\ n \in DOMAIN stack
      /\ Top \in Calls /\ Top = stack[n]
  BY <1>0, CallFacts DEF Top
<1>4. t \in Calls /\ t.node = Top.node /\ t.left = Top.left \ {v}
  BY <1>3 DEF Calls
<1>5. Call(v) \in Calls /\ Call(v).node = v /\ Call(v).left = Successors(scenario, v)
  <2>1. v \in Linked(scenario) /\ Successors(scenario, v) \subseteq Linked(scenario)
    BY <1>0, SuccessorsLinked DEF ColoursOK
  <2> QED
    BY <2>1 DEF Call, Calls
<1>6. /\ stack' \in Seq(Calls) /\ Len(stack') = n + 1 /\ DOMAIN stack' = 1 .. (n + 1)
      /\ stack'[n + 1] = Call(v) /\ stack'[n] = t
      /\ \A k \in 1 .. (n - 1) : stack'[k] = stack[k]
  <2> DEFINE u == Append(Returned, t)
  <2>1. /\ u \in Seq(Calls) /\ Len(u) = n /\ u[n] = t
        /\ \A k \in 1 .. (n - 1) : u[k] = stack[k]
    BY <1>0, <1>4, Replaced
  <2>2. stack' = Append(u, Call(v))
    BY <1>1
  <2> HIDE DEF t, u
  <2>3. /\ stack' \in Seq(Calls) /\ Len(stack') = n + 1 /\ stack'[n + 1] = Call(v)
        /\ \A k \in 1 .. n : stack'[k] = u[k]
    BY <1>5, <2>1, <2>2, AppendProperties
  <2>4. DOMAIN stack' = 1 .. (n + 1)
    BY <2>3
  <2>5. stack'[n] = t /\ \A k \in 1 .. (n - 1) : stack'[k] = stack[k]
    BY <1>3, <2>1, <2>3
  <2> QED
    BY <2>3, <2>4, <2>5
<1> HIDE DEF t
<1>7. \A k \in 1 .. n : stack'[k].node = stack[k].node
  <2> SUFFICES ASSUME NEW k \in 1 .. n PROVE stack'[k].node = stack[k].node
    OBVIOUS
  <2>1. k \in Int /\ n \in Int /\ 1 <= k /\ k <= n
    BY <1>3
  <2>2. k \in 1 .. (n - 1) \/ k = n
    BY <2>1
  <2> QED
    BY <1>3, <1>4, <1>6, <2>2
<1>8. ColoursOK'
  <2>1. (stack \in Seq(Calls))'
    BY <1>2, <1>6 DEF Calls
  <2>2. gray' = {stack'[k].node : k \in DOMAIN stack'}
    <3>1. gray = {stack[k].node : k \in 1 .. n}
      BY <1>0, <1>3 DEF ColoursOK
    <3>2. gray = {stack'[k].node : k \in 1 .. n}
      BY <1>7, <3>1
    <3>3. DOMAIN stack' = 1 .. n \cup {n + 1} /\ stack'[n + 1].node = v
      BY <1>3, <1>5, <1>6
    <3>4. gray' = gray \cup {v}
      BY <1>1
    <3> QED
      BY <3>2, <3>3, <3>4
  <2>3. v \notin gray
    BY <1>0 DEF ColoursOK
  <2>4. ASSUME NEW j \in DOMAIN stack', NEW k \in DOMAIN stack',
               stack'[j].node = stack'[k].node
        PROVE  j = k
    <3>1. CASE j = n + 1 /\ k = n + 1
      BY <3>1
    <3>2. CASE j \in 1 .. n /\ k = n + 1
      BY <1>0, <1>3, <1>5, <1>6, <1>7, <2>3, <2>4, <3>2 DEF ColoursOK
    <3>3. CASE k \in 1 .. n /\ j = n + 1
      BY <1>0, <1>3, <1>5, <1>6, <1>7, <2>3, <2>4, <3>3 DEF ColoursOK
    <3>4. CASE j \in 1 .. n /\ k \in 1 .. n
      BY <1>0, <1>3, <1>7, <2>4, <3>4 DEF ColoursOK
    <3> QED
      BY <1>3, <1>6, <3>1, <3>2, <3>3, <3>4
  <2>5. /\ Linked(scenario) = white' \cup gray' \cup black'
        /\ white' \cap gray' = {} /\ white' \cap black' = {} /\ gray' \cap black' = {}
    BY <1>0, <1>1, <1>2 DEF ColoursOK
  <2> QED
    BY <1>2, <2>1, <2>2, <2>4, <2>5 DEF ColoursOK
<1>9. CallsOK'
  <2> SUFFICES ASSUME NEW k \in DOMAIN stack'
               PROVE  /\ stack'[k].left \subseteq Successors(scenario, stack'[k].node)
                      /\ k < Len(stack') =>
                           stack'[k + 1].node \in Successors(scenario, stack'[k].node)
                      /\ \A w \in Successors(scenario, stack'[k].node) \ stack'[k].left :
                           w \in black \/ (k < Len(stack') /\ w = stack'[k + 1].node)
    BY <1>2 DEF CallsOK
  <2>1. CASE k \in 1 .. (n - 1)
    <3>1. k \in 1 .. n /\ k + 1 \in 1 .. n /\ k < n /\ k < n + 1
      BY <1>3, <2>1
    <3>2. stack'[k] = stack[k] /\ stack'[k + 1].node = stack[k + 1].node
      BY <1>6, <1>7, <2>1, <3>1
    <3> QED
      BY <1>0, <1>3, <1>6, <3>1, <3>2 DEF CallsOK
  <2>2. CASE k = n
    <3>1. /\ Top.left \subseteq Successors(scenario, Top.node)
          /\ \A w \in Successors(scenario, Top.node) \ Top.left : w \in black
      BY <1>0, <1>3 DEF CallsOK
    <3>2. stack'[k].left = Top.left \ {v} /\ stack'[k].node = Top.node
          /\ stack'[k + 1].node = v /\ k < Len(stack')
      BY <1>3, <1>4, <1>5, <1>6, <2>2
    <3> QED
      BY <1>1, <3>1, <3>2
  <2>3. CASE k = n + 1
    BY <1>3, <1>5, <1>6, <2>3
  <2> QED
    BY <1>3, <1>6, <2>1, <2>2, <2>3
<1>10. BlackOK'
  BY <1>0, <1>2 DEF BlackOK
<1>11. ReportOK' /\ CyclesFound'
  BY <1>2 DEF SearchInv, ReportOK, CyclesFound
<1> QED
  BY <1>8, <1>9, <1>10, <1>11 DEF SearchInv

LEMMA SkipNeighbourKeeps == SearchInv /\ SkipNeighbour => SearchInv'
<1> SUFFICES ASSUME SearchInv, SkipNeighbour PROVE SearchInv'
  OBVIOUS
<1> DEFINE n == Len(stack)
<1>0. ColoursOK /\ CallsOK /\ BlackOK /\ stack # <<>>
  BY DEF SearchInv, SkipNeighbour
<1>1. PICK v \in Top.left \ (gray \cup white) :
        stack' = Append(Returned, [Top EXCEPT !.left = @ \ {v}])
  BY DEF SkipNeighbour
<1> DEFINE t == [Top EXCEPT !.left = @ \ {v}]
<1>2. /\ scenario' = scenario /\ report' = report
      /\ white' = white /\ gray' = gray /\ black' = black
  BY DEF SkipNeighbour
<1>3. /\ n \in Nat \ {0} /\ DOMAIN stack = 1 .. n /\ n \in DOMAIN stack
      /\ Top \in Calls /\ Top = stack[n]
  BY <1>0, CallFacts DEF Top
<1>4. t \in Calls /\ t.node = Top.node /\ t.left = Top.left \ {v}
  BY <1>3 DEF Calls
<1>5. v \in black
  BY <1>0, <1>3 DEF ColoursOK, Calls
<1>6. stack' = Append(Returned, t)
  BY <1>1
<1> HIDE DEF t
<1>7. /\ stack' \in Seq(Calls) /\ Len(stack') = n /\ DOMAIN stack' = 1 .. n
      /\ stack'[n] = t /\ \A k \in 1 .. (n - 1) : stack'[k] = stack[k]
  BY <1>0, <1>4, <1>6, Replaced
<1>8. \A k \in 1 .. n : stack'[k].node = stack[k].node
  <2> SUFFICES ASSUME NEW k \in 1 .. n PROVE stack'[k].node = stack[k].node
    OBVIOUS
  <2>1. k \in Int /\ n \in Int /\ 1 <= k /\ k <= n
    BY <1>3
  <2>2. k \in 1 .. (n - 1) \/ k = n
    BY <2>1
  <2> QED
    BY <1>3, <1>4, <1>7, <2>2
<1>9. ColoursOK'
  <2>1. (stack \in Seq(Calls))'
    BY <1>2, <1>7 DEF Calls
  <2>2. gray' = {stack'[k].node : k \in DOMAIN stack'}
    BY <1>0, <1>2, <1>3, <1>7, <1>8 DEF ColoursOK
  <2>3. \A j, k \in DOMAIN stack' : stack'[j].node = stack'[k].node => j = k
    BY <1>0, <1>3, <1>7, <1>8 DEF ColoursOK
  <2> QED
    BY <1>0, <1>2, <2>1, <2>2, <2>3 DEF ColoursOK
<1>10. CallsOK'
  <2> SUFFICES ASSUME NEW k \in DOMAIN stack'
               PROVE  /\ stack'[k].left \subseteq Successors(scenario, stack'[k].node)
                      /\ k < Len(stack') =>
                           stack'[k + 1].node \in Successors(scenario, stack'[k].node)
                      /\ \A w \in Successors(scenario, stack'[k].node) \ stack'[k].left :
                           w \in black \/ (k < Len(stack') /\ w = stack'[k + 1].node)
    BY <1>2 DEF CallsOK
  <2>0. k \in Int /\ n \in Int /\ 1 <= k /\ k <= n
    BY <1>3, <1>7
  <2>1. CASE k \in 1 .. (n - 1)
    <3>1. k \in 1 .. n /\ k + 1 \in 1 .. n /\ k < n
      BY <2>0, <2>1
    <3>2. stack'[k] = stack[k] /\ stack'[k + 1].node = stack[k + 1].node
      BY <1>7, <1>8, <2>1, <3>1
    <3> QED
      BY <1>0, <1>3, <1>7, <3>1, <3>2 DEF CallsOK
  <2>2. CASE k = n
    <3>1. /\ Top.left \subseteq Successors(scenario, Top.node)
          /\ \A w \in Successors(scenario, Top.node) \ Top.left : w \in black
      BY <1>0, <1>3 DEF CallsOK
    <3>2. /\ stack'[k].left = Top.left \ {v} /\ stack'[k].node = Top.node
          /\ ~(k < Len(stack'))
      BY <1>3, <1>4, <1>7, <2>2
    <3> QED
      BY <1>5, <3>1, <3>2
  <2>3. k \in 1 .. (n - 1) \/ k = n
    BY <2>0
  <2> QED
    BY <2>1, <2>2, <2>3
<1>11. BlackOK'
  BY <1>0, <1>2 DEF BlackOK
<1>12. ReportOK' /\ CyclesFound'
  BY <1>2 DEF SearchInv, ReportOK, CyclesFound
<1> QED
  BY <1>9, <1>10, <1>11, <1>12 DEF SearchInv

LEMMA FinishVisitKeeps == SearchInv /\ FinishVisit => SearchInv'
<1> SUFFICES ASSUME SearchInv, FinishVisit PROVE SearchInv'
  OBVIOUS
<1> DEFINE n == Len(stack)
           v == Top.node
<1>0. ColoursOK /\ CallsOK /\ BlackOK /\ stack # <<>>
  BY DEF SearchInv, FinishVisit
<1>1. /\ gray' = gray \ {v} /\ black' = black \cup {v} /\ white' = white
      /\ stack' = Returned /\ Top.left = {}
      /\ scenario' = scenario /\ report' = report
  BY DEF FinishVisit
<1>2. /\ n \in Nat \ {0} /\ DOMAIN stack = 1 .. n /\ n \in DOMAIN stack
      /\ Top \in Calls /\ Top = stack[n] /\ v \in gray
  BY <1>0, CallFacts DEF Top
<1>3. /\ stack' \in Seq(Calls) /\ Len(stack') = n - 1 /\ DOMAIN stack' = 1 .. (n - 1)
      /\ \A k \in 1 .. (n - 1) : stack'[k] = stack[k]
  BY <1>0, <1>1, ReturnedFacts
<1>4. Successors(scenario, v) \subseteq black
  BY <1>0, <1>1, <1>2 DEF CallsOK
<1>5. v \notin black
  BY <1>0, <1>2 DEF ColoursOK
<1>6. ColoursOK'
  <2>1. (stack \in Seq(Calls))'
    BY <1>1, <1>3 DEF Calls
  <2>2. gray' = {stack'[k].node : k \in DOMAIN stack'}
    <3>1. ASSUME NEW u \in gray' PROVE \E k \in DOMAIN stack' : u = stack'[k].node
      <4>1. PICK k \in 1 .. n : u = stack[k].node
        BY <1>0, <1>1, <1>2 DEF ColoursOK
      <4>2. k # n
        BY <1>1, <1>2, <4>1
      <4>3. k \in Int /\ n \in Int /\ 1 <= k /\ k <= n
        BY <1>2
      <4>4. k \in 1 .. (n - 1)
        BY <4>2, <4>3
      <4> QED
        BY <1>3, <4>1, <4>4
    <3>2. ASSUME NEW k \in DOMAIN stack' PROVE stack'[k].node \in gray'
      <4>1. k \in 1 .. n /\ k # n /\ stack'[k] = stack[k]
        BY <1>2, <1>3
      <4> QED
        BY <1>0, <1>1, <1>2, <4>1 DEF ColoursOK
    <3> QED
      BY <3>1, <3>2
  <2>3. \A j, k \in DOMAIN stack' : stack'[j].node = stack'[k].node => j = k
    <3>1. DOMAIN stack' \subseteq DOMAIN stack
      BY <1>2, <1>3
    <3> QED
      BY <1>0, <1>3, <3>1 DEF ColoursOK
  <2>4. /\ Linked(scenario) = white' \cup gray' \cup black'
        /\ white' \cap gray' = {} /\ white' \cap black' = {} /\ gray' \cap black' = {}
    BY <1>0, <1>1, <1>2 DEF ColoursOK
  <2> QED
    BY <1>1, <2>1, <2>2, <2>3, <2>4 DEF ColoursOK
<1>7. CallsOK'
  <2> SUFFICES ASSUME NEW k \in DOMAIN stack'
               PROVE  /\ stack'[k].left \subseteq Successors(scenario, stack'[k].node)
                      /\ k < Len(stack') =>
                           stack'[k + 1].node \in Successors(scenario, stack'[k].node)
                      /\ \A w \in Successors(scenario, stack'[k].node) \ stack'[k].left :
                           w \in black' \/ (k < Len(stack') /\ w = stack'[k + 1].node)
    BY <1>1 DEF CallsOK
  <2>1. k \in DOMAIN stack /\ k < n /\ stack'[k] = stack[k]
    BY <1>2, <1>3
  <2>2. /\ stack[k].left \subseteq Successors(scenario, stack[k].node)
        /\ stack[k + 1].node \in Successors(scenario, stack[k].node)
        /\ \A w \in Successors(scenario, stack[k].node) \ stack[k].left :
             w \in black \/ w = stack[k + 1].node
    BY <1>0, <2>1 DEF CallsOK
  <2>3. CASE k + 1 = n
    <3>1. ~(k < Len(stack')) /\ stack[k + 1].node = v
      BY <1>2, <1>3, <2>3
    <3> QED
      BY <1>1, <2>1, <2>2, <3>1
  <2>4. CASE k + 1 # n
    <3>1. k < Len(stack') /\ stack'[k + 1] = stack[k + 1]
      BY <1>2, <1>3, <2>1, <2>4
    <3> QED
      BY <1>1, <2>1, <2>2, <3>1
  <2> QED
    BY <2>3, <2>4
<1>8. BlackOK'
  <2>1. \A u \in black' : Successors(scenario, u) \subseteq black'
    BY <1>0, <1>1, <1>4 DEF BlackOK
  <2>2. ASSUME NEW nodes \in SUBSET black', nodes # {}
        PROVE  \E u \in nodes : Successors(scenario, u) \cap nodes = {}
    <3>1. CASE nodes \ {v} = {}
      BY <1>4, <1>5, <2>2, <3>1
    <3>2. CASE nodes \ {v} # {}
      <4>1. PICK u \in nodes \ {v} : Successors(scenario, u) \cap (nodes \ {v}) = {}
        BY <1>0, <1>1, <3>2 DEF BlackOK
      <4>2. v \notin Successors(scenario, u)
        BY <1>0, <1>1, <1>5, <4>1 DEF BlackOK
      <4> QED
        BY <4>1, <4>2
    <3> QED
      BY <3>1, <3>2
  <2> QED
    BY <1>1, <2>1, <2>2 DEF BlackOK
<1>9. ReportOK' /\ CyclesFound'
  BY <1>1 DEF SearchInv, ReportOK, CyclesFound
<1> QED
  BY <1>6, <1>7, <1>8, <1>9 DEF SearchInv

(***************************************************************************)
(* The theorem.                                                            *)
(***************************************************************************)
LEMMA SearchInvStep == SearchInv /\ [Next]_vars => SearchInv'
<1> SUFFICES ASSUME SearchInv, [Next]_vars PROVE SearchInv'
  OBVIOUS
<1>1. CASE GoalGate \/ WholeGate \/ NotingGate
  BY <1>1, GoalGateKeeps, WholeGateKeeps, NotingGateKeeps
<1>2. CASE WalkStep
  BY <1>2, WalkKeeps
<1>3. CASE SearchStep
  BY <1>3, StartVisitKeeps, BackEdgeKeeps, VisitNeighbourKeeps,
     SkipNeighbourKeeps, FinishVisitKeeps, NoCycleKeeps DEF SearchStep
<1>4. CASE UNCHANGED validation
  BY <1>4, StutterKeeps DEF validation
<1> QED
  BY <1>1, <1>2, <1>3, <1>4
     DEF Next, ValidatorNext, Compile, Terminated, vars

\* Whatever the scenario, the search for cycles of the validator
\* (detect_cycle, dfs_visit) refuses it exactly when its dependency graph has
\* a cycle.
THEOREM CyclesAlwaysFound == Spec => []CyclesFound
<1>1. Init => SearchInv
  BY SearchInvInit
<1>2. SearchInv /\ [Next]_vars => SearchInv'
  BY SearchInvStep
<1>3. SearchInv => CyclesFound
  BY DEF SearchInv
<1> QED
  BY <1>1, <1>2, <1>3, PTL DEF Spec

(***************************************************************************)
(* What the report says of the lists.                                      *)
(***************************************************************************)
Lists == CoreLists \cup AgentLists \cup TypedLists

IsList(l) == Len(scenario[l]) \in Nat /\ DOMAIN scenario[l] = 1 .. Len(scenario[l])

ListsOK == \A l \in Lists : IsList(l)

Fine(l, k) == /\ Named(l, scenario[l][k])
              /\ Sound(scenario, l, scenario[l][k])

\* The walk of a gate: the lists that it is through with hold, and so does
\* what it has seen of the present one.
WalkOK ==
  Walking =>
    /\ list \in 1 .. Len(Walks[Rule])
    /\ at \in 1 .. (Len(Elements) + 1)
    /\ \A i \in 1 .. (list - 1) : ListHolds(scenario, Walks[Rule][i])
    /\ \A k \in 1 .. (at - 1) : Fine(ListName, k)
    /\ ListName \notin Anonymous =>
         /\ seen = {Elements[k].id : k \in 1 .. (at - 1)}
         /\ \A j, k \in 1 .. (at - 1) : Elements[j].id = Elements[k].id => j = k

Told == ListsOK /\ WalkOK /\ ReportExact

WalkInv == SearchInv /\ Told

LEMMA WalkLists ==
  ASSUME NEW rule \in DOMAIN Walks
  PROVE  /\ Len(Walks[rule]) \in Nat \ {0}
         /\ DOMAIN Walks[rule] = 1 .. Len(Walks[rule])
         /\ \A i \in 1 .. Len(Walks[rule]) : Walks[rule][i] \in Lists
<1>1. CASE rule = "agent_layer"
  BY <1>1 DEF Walks, Lists, AgentLists
<1>2. CASE rule = "typed_layer"
  BY <1>2 DEF Walks, Lists, TypedLists
<1>3. CASE rule \in {"assumptions", "entities", "variables", "dependencies",
                     "constraints", "events", "evaluation_criteria"}
  BY <1>3 DEF Walks, Lists, CoreLists
<1> QED
  BY <1>1, <1>2, <1>3 DEF Walks

\* What a walking gate promises, in terms of what it walks.
LEMMA WalkPromise ==
  ASSUME NEW s, NEW rule \in DOMAIN Walks
  PROVE  GateHolds(s, rule) <=>
           \/ rule = "agent_layer" /\ s.agent_layer = None
           \/ /\ rule = "agent_layer" => SoundAgentWorld(s.agent_layer)
              /\ rule = "typed_layer" => /\ s.agent_layer = None
                                         /\ SoundTypedWorld(s.typed_layer)
              /\ \A i \in 1 .. Len(Walks[rule]) : ListHolds(s, Walks[rule][i])
<1>1. CASE rule = "agent_layer"
  <2>1. AgentLists = {Walks[rule][i] : i \in 1 .. Len(Walks[rule])}
    BY <1>1 DEF Walks, AgentLists
  <2>2. GateHolds(s, rule) <=> (s.agent_layer # None =>
           SoundAgentWorld(s.agent_layer) /\ \A l \in AgentLists : ListHolds(s, l))
    BY <1>1 DEF GateHolds
  <2> QED
    BY <1>1, <2>1, <2>2
<1>2. CASE rule = "typed_layer"
  <2>1. TypedLists = {Walks[rule][i] : i \in 1 .. Len(Walks[rule])}
    BY <1>2 DEF Walks, TypedLists
  <2>2. GateHolds(s, rule) <=>
           (/\ s.agent_layer = None
            /\ SoundTypedWorld(s.typed_layer)
            /\ \A l \in TypedLists : ListHolds(s, l))
    BY <1>2 DEF GateHolds
  <2> QED
    BY <1>2, <2>1, <2>2
<1>3. CASE rule \in {"assumptions", "entities", "variables", "dependencies",
                     "constraints", "events", "evaluation_criteria"}
  <2>1. Len(Walks[rule]) = 1
    BY <1>3 DEF Walks
  <2>2. GateHolds(s, rule) <=> ListHolds(s, Walks[rule][1])
    BY <1>3 DEF GateHolds
  <2> QED
    BY <1>3, <2>1, <2>2
<1> QED
  BY <1>1, <1>2, <1>3 DEF Walks

\* A result that tells the truth about its gate, and the walk of the next gate
\* starts afresh.
LEMMA ResultExact ==
  ASSUME ReportOK, ReportExact, NEW passed, NEW level, NEW noted,
         AddNotedResult(passed, level, noted),
         passed <=> GateHolds(scenario, Rule)
  PROVE  ReportExact'
<1> DEFINE r == [rule |-> Rule, passed |-> passed, level |-> level, noted |-> noted]
           Harmless(x) == x.passed \/ x.level # "REJECT"
<1>1. /\ report' = Append(report, r) /\ scenario' = scenario
      /\ overall' = (overall /\ (passed \/ level # "REJECT"))
  BY Zenon DEF AddNotedResult
<1>2. /\ r.passed <=> GateHolds(scenario, r.rule)
      /\ Harmless(r) <=> (passed \/ level # "REJECT")
  OBVIOUS
<1> HIDE DEF r
<1>3. /\ DOMAIN report' = DOMAIN report \cup {Len(report) + 1}
      /\ report'[Len(report) + 1] = r
      /\ \A k \in DOMAIN report : report'[k] = report[k]
  BY <1>1, Appended
<1>4. ASSUME NEW k \in DOMAIN report'
      PROVE  report'[k].passed <=> GateHolds(scenario, report'[k].rule)
  <2>1. CASE k \in DOMAIN report
    BY <1>3, <2>1 DEF ReportExact
  <2>2. CASE k = Len(report) + 1
    BY <1>2, <1>3, <2>2
  <2> QED
    BY <1>3, <2>1, <2>2
<1>5. overall' <=> \A k \in DOMAIN report' : Harmless(report'[k])
  <2>1. overall <=> \A k \in DOMAIN report : Harmless(report[k])
    BY DEF ReportExact
  <2>2. (\A k \in DOMAIN report' : Harmless(report'[k]))
          <=> (\A k \in DOMAIN report : Harmless(report[k])) /\ Harmless(r)
    BY <1>3
  <2> HIDE DEF Harmless
  <2>3. overall' <=> overall /\ Harmless(r)
    BY <1>1, <1>2, Zenon
  <2> QED
    BY <2>1, <2>2, <2>3
<1>6. \A k \in DOMAIN report' :
        report'[k].passed <=> GateHolds(scenario', report'[k].rule)
  BY <1>1, <1>4
<1> QED
  BY <1>5, <1>6, Zenon DEF ReportExact

LEMMA WalkAfresh ==
  ASSUME ListsOK, scenario' = scenario, list' = 1, at' = 1, seen' = {}
  PROVE  ListsOK' /\ WalkOK'
<1>1. ListsOK'
  BY DEF ListsOK, IsList
<1>2. SUFFICES ASSUME Walking' PROVE WalkOK'
  BY <1>1 DEF WalkOK
<1>3. /\ Len(Walks[Rule']) \in Nat \ {0}
      /\ \A i \in 1 .. Len(Walks[Rule']) : Walks[Rule'][i] \in Lists
  BY <1>2, WalkLists DEF Walking
<1>4. ListName' = Walks[Rule'][1] /\ ListName' \in Lists
  BY <1>3 DEF ListName
<1>5. Len(Elements') \in Nat
  BY <1>1, <1>4 DEF ListsOK, IsList, Elements
<1>6. 1 .. (list' - 1) = {} /\ 1 .. (at' - 1) = {}
  OBVIOUS
<1>7. list' \in 1 .. Len(Walks[Rule']) /\ at' \in 1 .. (Len(Elements') + 1)
  BY <1>3, <1>5
<1>8. seen' = {Elements'[k].id : k \in 1 .. (at' - 1)}
  BY <1>6
<1> QED
  BY <1>6, <1>7, <1>8 DEF WalkOK

\* Every gate that ends.
LEMMA GateEnds ==
  ASSUME WalkInv, NEW passed, NEW level, NEW noted,
         AddNotedResult(passed, level, noted),
         passed <=> GateHolds(scenario, Rule)
  PROVE  Told'
<1>1. ReportExact'
  BY ResultExact DEF WalkInv, Told, SearchInv
<1>2. ListsOK' /\ WalkOK'
  BY WalkAfresh DEF WalkInv, Told, AddNotedResult
<1> QED
  BY <1>1, <1>2 DEF Told

LEMMA GatePasses ==
  ASSUME WalkInv, NEW level, NEW noted, AddNotedResult(TRUE, level, noted),
         GateHolds(scenario, Rule)
  PROVE  Told'
  BY GateEnds, Zenon

LEMMA GateRefuses ==
  ASSUME WalkInv, AddResult(FALSE, "REJECT"), ~GateHolds(scenario, Rule)
  PROVE  Told'
  BY GateEnds, Zenon DEF AddResult

LEMMA GoalGateTells == WalkInv /\ GoalGate => Told'
<1> SUFFICES ASSUME WalkInv, GoalGate PROVE Told'
  OBVIOUS
<1>1. Rule = "goal_statement"
  BY DEF GoalGate
<1>2. GateHolds(scenario, Rule) <=> scenario.goal = "long"
  BY <1>1 DEF GateHolds
<1>3. CASE scenario.goal = "empty" /\ AddResult(FALSE, "REJECT")
  BY <1>2, <1>3, GateRefuses
<1>4. CASE scenario.goal = "short" /\ AddResult(FALSE, "WARN")
  <2>1. ~GateHolds(scenario, Rule)
    BY <1>2, <1>4
  <2> QED
    BY <1>4, <2>1, GateEnds, Zenon DEF AddResult
<1>5. CASE scenario.goal = "long" /\ AddResult(TRUE, "REJECT")
  <2>1. GateHolds(scenario, Rule)
    BY <1>2, <1>5
  <2> QED
    BY <1>5, <2>1, GatePasses, Zenon DEF AddResult
<1> QED
  BY <1>3, <1>4, <1>5, Zenon DEF GoalGate

LEMMA WholeGateTells == WalkInv /\ WholeGate => Told'
<1> SUFFICES ASSUME WalkInv, WholeGate PROVE Told'
  OBVIOUS
<1>1. CASE Rule = "required_fields" /\ AddResult(RequiredFieldsPresent(scenario), "REJECT")
  <2>1. GateHolds(scenario, Rule) <=> RequiredFieldsPresent(scenario)
    BY <1>1 DEF GateHolds
  <2> QED
    BY <1>1, <2>1, GateEnds, Zenon DEF AddResult
<1>2. CASE Rule = "type_compatibility" /\ AddResult(TypesCompatible(scenario), "REJECT")
  <2>1. GateHolds(scenario, Rule) <=> TypesCompatible(scenario)
    BY <1>2 DEF GateHolds
  <2> QED
    BY <1>2, <2>1, GateEnds, Zenon DEF AddResult
<1>3. CASE Rule = "initial_constraints" /\ AddResult(InitialConstraintsPass(scenario), "REJECT")
  <2>1. GateHolds(scenario, Rule) <=> InitialConstraintsPass(scenario)
    BY <1>3 DEF GateHolds
  <2> QED
    BY <1>3, <2>1, GateEnds, Zenon DEF AddResult
<1> QED
  BY <1>1, <1>2, <1>3, Zenon DEF WholeGate

LEMMA NotingGateTells == WalkInv /\ NotingGate => Told'
<1> SUFFICES ASSUME WalkInv, NotingGate PROVE Told'
  OBVIOUS
<1>1. Rule \in {"unknown_fields", "anti_patterns", "orphan_variables",
               "fan_out_limits", "depth_limits"}
  BY DEF NotingGate
<1>2. GateHolds(scenario, Rule)
  BY <1>1 DEF GateHolds
<1>3. \E level, noted : AddNotedResult(TRUE, level, noted)
  BY Zenon DEF NotingGate, AddResult
<1> QED
  BY <1>2, <1>3, GatePasses

\* The gates that walk.
LEMMA WalkFacts ==
  ASSUME WalkInv, Walking
  PROVE  /\ Rule \in DOMAIN Walks
         /\ Len(Walks[Rule]) \in Nat \ {0}
         /\ list \in 1 .. Len(Walks[Rule])
         /\ ListName \in Lists
         /\ Len(Elements) \in Nat
         /\ DOMAIN Elements = 1 .. Len(Elements)
         /\ at \in 1 .. (Len(Elements) + 1)
<1>1. Rule \in DOMAIN Walks
  BY DEF Walking
<1>2. /\ Len(Walks[Rule]) \in Nat \ {0}
      /\ \A i \in 1 .. Len(Walks[Rule]) : Walks[Rule][i] \in Lists
  BY <1>1, WalkLists
<1>3. list \in 1 .. Len(Walks[Rule]) /\ at \in 1 .. (Len(Elements) + 1)
  BY DEF WalkInv, Told, WalkOK
<1>4. ListName \in Lists
  BY <1>2, <1>3 DEF ListName
<1>5. Len(Elements) \in Nat /\ DOMAIN Elements = 1 .. Len(Elements)
  BY <1>4 DEF WalkInv, Told, ListsOK, IsList, Elements
<1> QED
  BY <1>1, <1>2, <1>3, <1>4, <1>5

LEMMA NoAgentLayerTells == WalkInv /\ NoAgentLayer => Told'
<1> SUFFICES ASSUME WalkInv, NoAgentLayer PROVE Told'
  OBVIOUS
<1>1. Rule = "agent_layer" /\ scenario.agent_layer = None /\ Rule \in DOMAIN Walks
  BY DEF NoAgentLayer, Walking
<1>2. GateHolds(scenario, Rule)
  BY <1>1, WalkPromise
<1>3. AddNotedResult(TRUE, "REJECT", FALSE)
  BY DEF NoAgentLayer, AddResult
<1> QED
  BY <1>2, <1>3, GatePasses

\* What the promise comes to where there is a layer.
LEMMA LayerPromise ==
  ASSUME LayerThere
  PROVE  GateHolds(scenario, Rule) <=>
           Opens /\ \A i \in 1 .. Len(Walks[Rule]) :
                     ListHolds(scenario, Walks[Rule][i])
<1>1. Rule \in DOMAIN Walks /\ (Rule = "agent_layer" => scenario.agent_layer # None)
  BY DEF LayerThere, Walking
<1>2. GateHolds(scenario, Rule) <=>
        /\ Rule = "agent_layer" => SoundAgentWorld(scenario.agent_layer)
        /\ Rule = "typed_layer" => /\ scenario.agent_layer = None
                                   /\ SoundTypedWorld(scenario.typed_layer)
        /\ \A i \in 1 .. Len(Walks[Rule]) : ListHolds(scenario, Walks[Rule][i])
  BY <1>1, WalkPromise
<1>3. CASE Rule = "agent_layer"
  BY <1>2, <1>3 DEF Opens
<1>4. CASE Rule = "typed_layer"
  BY <1>2, <1>4 DEF Opens
<1>5. CASE Rule # "agent_layer" /\ Rule # "typed_layer"
  BY <1>2, <1>5 DEF Opens
<1> QED
  BY <1>3, <1>4, <1>5

LEMMA RefuseWorldTells == WalkInv /\ RefuseWorld => Told'
<1> SUFFICES ASSUME WalkInv, RefuseWorld PROVE Told'
  OBVIOUS
<1>1. LayerThere /\ ~Opens /\ AddResult(FALSE, "REJECT")
  BY DEF RefuseWorld
<1> QED
  BY <1>1, LayerPromise, GateRefuses

\* A list that does not hold refutes the promise.
LEMMA ListRefutes ==
  ASSUME WalkInv, LayerThere, ~ListHolds(scenario, ListName)
  PROVE  ~GateHolds(scenario, Rule)
<1>1. list \in 1 .. Len(Walks[Rule])
  BY WalkFacts DEF LayerThere
<1> QED
  BY <1>1, LayerPromise DEF ListName

LEMMA RefuseEmptyTells == WalkInv /\ RefuseEmpty => Told'
<1> SUFFICES ASSUME WalkInv, RefuseEmpty PROVE Told'
  OBVIOUS
<1>1. LayerThere /\ Elements = <<>> /\ ListName \notin MayBeEmpty
      /\ AddResult(FALSE, "REJECT")
  BY DEF RefuseEmpty
<1>2. ~ListHolds(scenario, ListName)
  BY <1>1 DEF ListHolds, Elements
<1> QED
  BY <1>1, <1>2, ListRefutes, GateRefuses

LEMMA RefuseElementTells == WalkInv /\ RefuseElement => Told'
<1> SUFFICES ASSUME WalkInv, RefuseElement PROVE Told'
  OBVIOUS
<1> DEFINE e == Elements[at]
<1>1. /\ LayerThere /\ Walking /\ at <= Len(Elements)
      /\ AddResult(FALSE, "REJECT")
      /\ ~(Named(ListName, e) /\ Fresh(e) /\ Sound(scenario, ListName, e))
  BY DEF RefuseElement, LayerThere
<1>2. at \in DOMAIN Elements /\ at \in Nat \ {0} /\ DOMAIN Elements = 1 .. Len(Elements)
      /\ Len(Elements) \in Nat
  BY <1>1, WalkFacts
<1>3. ~ListHolds(scenario, ListName)
  <2>1. CASE ~(Named(ListName, e) /\ Sound(scenario, ListName, e))
    BY <1>2, <2>1 DEF ListHolds, Elements
  <2>2. CASE ~Fresh(e)
    <3>1. ListName \notin Anonymous /\ e.id \in seen
      BY <2>2 DEF Fresh
    <3>2. seen = {Elements[k].id : k \in 1 .. (at - 1)}
      BY <1>1, <3>1 DEF WalkInv, Told, WalkOK
    <3>3. PICK k \in 1 .. (at - 1) : Elements[k].id = e.id
      BY <3>1, <3>2
    <3>4. k \in DOMAIN Elements /\ k # at
      BY <1>1, <1>2
    <3> QED
      BY <1>2, <3>1, <3>3, <3>4 DEF ListHolds, Elements
  <2> QED
    BY <1>1, <2>1, <2>2
<1> QED
  BY <1>1, <1>3, ListRefutes, GateRefuses

LEMMA AcceptElementTells == WalkInv /\ AcceptElement => Told'
<1> SUFFICES ASSUME WalkInv, AcceptElement PROVE Told'
  OBVIOUS
<1> DEFINE e == Elements[at]
           older == 1 .. (at - 1)
<1>1. /\ LayerThere /\ Walking /\ at <= Len(Elements)
      /\ Named(ListName, e) /\ Fresh(e) /\ Sound(scenario, ListName, e)
      /\ seen' = (IF ListName \in Anonymous THEN seen ELSE seen \cup {e.id})
      /\ at' = at + 1
      /\ UNCHANGED <<scenario, gate, list, report, overall>>
  BY DEF AcceptElement, LayerThere
<1>2. ReportExact' /\ ListsOK'
  BY <1>1, Zenon DEF WalkInv, Told, ReportExact, ListsOK, IsList
<1>3. Rule' = Rule /\ ListName' = ListName /\ Elements' = Elements
  BY <1>1 DEF Rule, ListName, Elements
<1>4. /\ list \in 1 .. Len(Walks[Rule])
      /\ \A i \in 1 .. (list - 1) : ListHolds(scenario, Walks[Rule][i])
      /\ \A k \in older : Fine(ListName, k)
      /\ ListName \notin Anonymous =>
           /\ seen = {Elements[k].id : k \in older}
           /\ \A j, k \in older : Elements[j].id = Elements[k].id => j = k
  BY <1>1 DEF WalkInv, Told, WalkOK
<1>5. at \in 1 .. (Len(Elements) + 1) /\ Len(Elements) \in Nat
  BY <1>1, WalkFacts
<1>6. 1 .. (at' - 1) = older \cup {at} /\ at' \in 1 .. (Len(Elements) + 1)
      /\ at \notin older
  BY <1>1, <1>5
<1> HIDE DEF older
<1>7. Fine(ListName, at)
  BY <1>1 DEF Fine, Elements
<1>8. \A k \in older \cup {at} : Fine(ListName, k)
  BY <1>4, <1>7
<1>9. ASSUME ListName \notin Anonymous
      PROVE  /\ seen' = {Elements[k].id : k \in older \cup {at}}
             /\ \A j, k \in older \cup {at} :
                  Elements[j].id = Elements[k].id => j = k
  <2>1. seen' = {Elements[k].id : k \in older} \cup {e.id}
    BY <1>1, <1>4, <1>9
  <2>2. e.id \notin {Elements[k].id : k \in older}
    BY <1>1, <1>4, <1>9 DEF Fresh
  <2> QED
    BY <1>4, <1>9, <2>1, <2>2
<1>10. /\ list' \in 1 .. Len(Walks[Rule'])
       /\ at' \in 1 .. (Len(Elements') + 1)
       /\ \A i \in 1 .. (list' - 1) : ListHolds(scenario', Walks[Rule'][i])
  BY <1>1, <1>3, <1>4, <1>6
<1>11. \A k \in 1 .. (at' - 1) :
         /\ Named(ListName', scenario'[ListName'][k])
         /\ Sound(scenario', ListName', scenario'[ListName'][k])
  BY <1>1, <1>3, <1>6, <1>8 DEF Fine
<1>12. ListName' \notin Anonymous =>
         /\ seen' = {Elements'[k].id : k \in 1 .. (at' - 1)}
         /\ \A j, k \in 1 .. (at' - 1) : Elements'[j].id = Elements'[k].id => j = k
  BY <1>3, <1>6, <1>9
<1>13. WalkOK'
  BY <1>10, <1>11, <1>12 DEF WalkOK, Fine
<1> QED
  BY <1>2, <1>13 DEF Told

\* At the end of a list all of it has been seen.
LEMMA ListSeen ==
  ASSUME WalkInv, Walking, at > Len(Elements),
         Elements = <<>> => ListName \in MayBeEmpty
  PROVE  ListHolds(scenario, ListName)
<1>1. at \in 1 .. (Len(Elements) + 1) /\ Len(Elements) \in Nat
      /\ DOMAIN Elements = 1 .. Len(Elements)
  BY WalkFacts
<1>2. DOMAIN Elements = 1 .. (at - 1)
  BY <1>1
<1>3. /\ \A k \in DOMAIN Elements : Fine(ListName, k)
      /\ ListName \notin Anonymous =>
           \A j, k \in DOMAIN Elements : Elements[j].id = Elements[k].id => j = k
  BY <1>2 DEF WalkInv, Told, WalkOK
<1> QED
  BY <1>3 DEF ListHolds, Elements, Fine

LEMMA EndOfListTells == WalkInv /\ EndOfList => Told'
<1> SUFFICES ASSUME WalkInv, EndOfList PROVE Told'
  OBVIOUS
<1>1. /\ LayerThere /\ Walking /\ Opens /\ at > Len(Elements)
      /\ Elements = <<>> => ListName \in MayBeEmpty
  BY DEF EndOfList, LayerThere
<1> DEFINE n == Len(Walks[Rule])
<1>2. /\ Rule \in DOMAIN Walks /\ n \in Nat /\ list \in 1 .. n
      /\ \A i \in 1 .. (list - 1) : ListHolds(scenario, Walks[Rule][i])
  BY <1>1, WalkFacts DEF WalkInv, Told, WalkOK
<1>3. ListHolds(scenario, Walks[Rule][list])
  BY <1>1, ListSeen DEF ListName
<1>4. 1 .. list = 1 .. (list - 1) \cup {list}
  BY <1>2
<1>5. \A i \in 1 .. list : ListHolds(scenario, Walks[Rule][i])
  BY <1>2, <1>3, <1>4
<1>6. CASE list < n
  <2>1. /\ list' = list + 1 /\ at' = 1 /\ seen' = {}
        /\ UNCHANGED <<scenario, gate, report, overall>>
    BY <1>6 DEF EndOfList
  <2>2. ReportExact' /\ ListsOK'
    BY <2>1, Zenon DEF WalkInv, Told, ReportExact, ListsOK, IsList
  <2>3. Rule' = Rule
    BY <2>1 DEF Rule
  <2>4. list' \in 1 .. n /\ 1 .. (list' - 1) = 1 .. list /\ 1 .. (at' - 1) = {}
    BY <1>2, <1>6, <2>1
  <2>5. ListName' \in Lists
    BY <1>2, <2>3, <2>4, WalkLists DEF ListName
  <2>6. Len(Elements') \in Nat
    BY <2>2, <2>5 DEF ListsOK, IsList, Elements
  <2>7. at' \in 1 .. (Len(Elements') + 1)
    BY <2>1, <2>6
  <2>8. seen' = {Elements'[k].id : k \in 1 .. (at' - 1)}
    BY <2>1, <2>4
  <2>9. WalkOK'
    BY <1>5, <2>1, <2>3, <2>4, <2>7, <2>8 DEF WalkOK
  <2> QED
    BY <2>2, <2>9 DEF Told
<1>7. CASE ~(list < n)
  <2>1. \E level : AddNotedResult(TRUE, level, FALSE)
    BY <1>7, Zenon DEF EndOfList, AddResult
  <2>2. list = n
    BY <1>2, <1>7
  <2>3. GateHolds(scenario, Rule)
    BY <1>1, <1>5, <2>2, LayerPromise
  <2> QED
    BY <2>1, <2>3, GatePasses
<1> QED
  BY <1>6, <1>7

(***************************************************************************)
(* The search, and the theorem.                                            *)
(***************************************************************************)
LEMMA QuietTells ==
  ASSUME WalkInv, UNCHANGED <<scenario, gate, walk, report, overall>>
  PROVE  Told'
<1>1. ReportExact' /\ ListsOK'
  BY Zenon DEF WalkInv, Told, ReportExact, ListsOK, IsList
<1>2. Walking' = Walking /\ Rule' = Rule /\ ListName' = ListName
      /\ Elements' = Elements /\ UNCHANGED <<list, at, seen>>
  BY DEF Walking, Running, Rule, ListName, Elements, walk
<1>3. WalkOK'
  BY <1>2 DEF WalkInv, Told, WalkOK, Fine
<1> QED
  BY <1>1, <1>3 DEF Told

LEMMA SearchTells == WalkInv /\ SearchStep => Told'
<1> SUFFICES ASSUME WalkInv, SearchStep PROVE Told'
  OBVIOUS
<1>1. Rule = "cycle_detection"
  BY DEF SearchStep, StartVisit, BackEdge, VisitNeighbour, SkipNeighbour,
         FinishVisit, NoCycle, Searching
<1>2. GateHolds(scenario, Rule) <=> ~Cyclic(scenario)
  BY <1>1 DEF GateHolds
<1>3. CASE BackEdge
  <2>1. Cyclic(scenario)
    BY <1>3, BackEdgeCloses DEF WalkInv, SearchInv, BackEdge
  <2> QED
    BY <1>2, <1>3, <2>1, GateRefuses DEF BackEdge
<1>4. CASE NoCycle
  <2>1. gray = {}
    BY <1>4 DEF WalkInv, SearchInv, ColoursOK, NoCycle
  <2>2. black = Linked(scenario)
    BY <1>4, <2>1 DEF WalkInv, SearchInv, ColoursOK, NoCycle
  <2>3. ~Cyclic(scenario)
    BY <2>2 DEF WalkInv, SearchInv, BlackOK, Cyclic
  <2>4. AddNotedResult(TRUE, "REJECT", FALSE)
    BY <1>4, Zenon DEF NoCycle, AddResult
  <2> QED
    BY <1>2, <2>3, <2>4, GatePasses
<1>5. CASE StartVisit \/ VisitNeighbour \/ SkipNeighbour \/ FinishVisit
  BY <1>5, QuietTells DEF StartVisit, VisitNeighbour, SkipNeighbour, FinishVisit
<1> QED
  BY <1>3, <1>4, <1>5 DEF SearchStep

LEMMA WalkInvInit == Init => WalkInv
<1> SUFFICES ASSUME Init PROVE WalkInv
  OBVIOUS
<1>1. SearchInv
  BY SearchInvInit
<1>2. ReportExact
  BY DEF Init, ValidatorInit, ReportExact
<1>3. ListsOK
  BY ScenariosAssumption DEF Init, ValidatorInit, ListsOK, IsList, Lists
<1>4. ASSUME Walking PROVE WalkOK
  <2>1. /\ Len(Walks[Rule]) \in Nat \ {0}
        /\ \A i \in 1 .. Len(Walks[Rule]) : Walks[Rule][i] \in Lists
    BY <1>4, WalkLists DEF Walking
  <2>2. list = 1 /\ at = 1 /\ seen = {}
    BY DEF Init, ValidatorInit
  <2>3. ListName \in Lists
    BY <2>1, <2>2 DEF ListName
  <2>4. Len(Elements) \in Nat
    BY <1>3, <2>3 DEF ListsOK, IsList, Elements
  <2>5. 1 .. (list - 1) = {} /\ 1 .. (at - 1) = {}
    BY <2>2
  <2>6. list \in 1 .. Len(Walks[Rule]) /\ at \in 1 .. (Len(Elements) + 1)
    BY <2>1, <2>2, <2>4
  <2>7. seen = {Elements[k].id : k \in 1 .. (at - 1)}
    BY <2>2, <2>5
  <2> QED
    BY <2>5, <2>6, <2>7 DEF WalkOK
<1>5. WalkOK
  BY <1>4 DEF WalkOK
<1> QED
  BY <1>1, <1>2, <1>3, <1>5 DEF WalkInv, Told

LEMMA WalkInvStep == WalkInv /\ [Next]_vars => WalkInv'
<1> SUFFICES ASSUME WalkInv, [Next]_vars PROVE WalkInv'
  OBVIOUS
<1>1. SearchInv'
  BY SearchInvStep DEF WalkInv
<1>2. CASE GoalGate \/ WholeGate \/ NotingGate
  BY <1>1, <1>2, GoalGateTells, WholeGateTells, NotingGateTells DEF WalkInv
<1>3. CASE WalkStep
  <2>1. Told'
    BY <1>3, NoAgentLayerTells, RefuseWorldTells, AcceptElementTells,
       RefuseElementTells, RefuseEmptyTells, EndOfListTells DEF WalkStep
  <2> QED
    BY <1>1, <2>1 DEF WalkInv
<1>4. CASE SearchStep
  BY <1>1, <1>4, SearchTells DEF WalkInv
<1>5. CASE UNCHANGED validation
  BY <1>1, <1>5, QuietTells DEF WalkInv, validation
<1> QED
  BY <1>2, <1>3, <1>4, <1>5
     DEF Next, ValidatorNext, Compile, Terminated, vars

\* Whatever the scenario, the report of the validator
\* (ScenarioValidator::validate) tells of every gate it has passed whether the
\* whole scenario satisfies it, and the verdict is that of the report.
THEOREM ReportsAreExact == Spec => []ReportExact
<1>1. Init => WalkInv
  BY WalkInvInit
<1>2. WalkInv /\ [Next]_vars => WalkInv'
  BY WalkInvStep
<1>3. WalkInv => ReportExact
  BY DEF WalkInv, Told
<1> QED
  BY <1>1, <1>2, <1>3, PTL DEF Spec

(***************************************************************************)
(* What an accepted scenario has been through.                             *)
(***************************************************************************)
\* Every gate that is behind has its result, at level REJECT where it refuses;
\* only a short goal statement is a failure that does not count.
GatesTold ==
  /\ gate \in Nat \ {0} /\ Len(report) = gate - 1
  /\ \A g \in 1 .. (gate - 1) :
       /\ report[g].rule = Gates(scenario)[g]
       /\ report[g].passed \/ report[g].level = "REJECT"
            \/ report[g].rule = "goal_statement"

LEMMA ResultTold ==
  ASSUME ReportOK, GatesTold, NEW passed, NEW level, NEW noted,
         AddNotedResult(passed, level, noted),
         passed \/ level = "REJECT" \/ Rule = "goal_statement"
  PROVE  GatesTold'
<1> DEFINE r == [rule |-> Rule, passed |-> passed, level |-> level, noted |-> noted]
<1>1. report' = Append(report, r) /\ gate' = gate + 1 /\ scenario' = scenario
  BY DEF AddNotedResult
<1>2. /\ r.rule = Gates(scenario)[gate]
      /\ r.passed \/ r.level = "REJECT" \/ r.rule = "goal_statement"
  BY DEF Rule
<1> HIDE DEF r
<1>3. /\ Len(report') = Len(report) + 1
      /\ report'[Len(report) + 1] = r
      /\ \A k \in DOMAIN report : report'[k] = report[k]
      /\ DOMAIN report = 1 .. Len(report)
  BY <1>1, Appended DEF ReportOK
<1>4. /\ gate \in Nat \ {0} /\ Len(report) = gate - 1
      /\ \A g \in 1 .. (gate - 1) :
           /\ report[g].rule = Gates(scenario)[g]
           /\ report[g].passed \/ report[g].level = "REJECT"
                \/ report[g].rule = "goal_statement"
  BY DEF GatesTold
<1>5. 1 .. (gate' - 1) = 1 .. (gate - 1) \cup {gate}
  BY <1>1, <1>4
<1>6. report'[gate] = r /\ \A g \in 1 .. (gate - 1) : report'[g] = report[g]
  BY <1>3, <1>4
<1>7. gate' \in Nat \ {0} /\ Len(report') = gate' - 1
  BY <1>1, <1>3, <1>4
<1>8. \A g \in 1 .. (gate' - 1) :
           /\ report'[g].rule = Gates(scenario')[g]
           /\ report'[g].passed \/ report'[g].level = "REJECT"
                \/ report'[g].rule = "goal_statement"
  BY <1>1, <1>2, <1>4, <1>5, <1>6
<1> QED
  BY <1>7, <1>8 DEF GatesTold

LEMMA GatesToldStep ==
  ASSUME ReportOK, GatesTold, [Next]_vars
  PROVE  GatesTold'
<1> DEFINE Counts(passed, level) ==
             passed \/ level = "REJECT" \/ Rule = "goal_statement"
           Ends == \E passed, level, noted :
             Counts(passed, level) /\ AddNotedResult(passed, level, noted)
<1>1. Ends => GatesTold'
  BY ResultTold
<1>2. UNCHANGED <<scenario, gate, report>> => GatesTold'
  BY DEF GatesTold
<1> DEFINE Ended == AddResult(FALSE, "REJECT") \/ (\E level : AddResult(TRUE, level))
<1>3. Ended => Ends
  BY Zenon DEF AddResult
<1>4. CASE GoalGate
  BY <1>1, <1>4, Zenon DEF GoalGate, AddResult
<1>5. CASE WholeGate
  BY <1>1, <1>5, Zenon DEF WholeGate, AddResult
<1>6. CASE NotingGate
  BY <1>1, <1>6, Zenon DEF NotingGate, AddResult
<1>7. CASE NoAgentLayer \/ RefuseWorld \/ RefuseElement \/ RefuseEmpty
           \/ BackEdge \/ NoCycle
  <2>1. Ended
    BY <1>7, Zenon DEF NoAgentLayer, RefuseWorld, RefuseElement, RefuseEmpty,
                       BackEdge, NoCycle
  <2> QED
    BY <1>1, <1>3, <2>1
<1>8. CASE EndOfList
  <2>1. CASE list < Len(Walks[Rule])
    BY <1>2, <1>8, <2>1 DEF EndOfList
  <2>2. CASE ~(list < Len(Walks[Rule]))
    <3>1. Ended
      BY <1>8, <2>2, Zenon DEF EndOfList
    <3> QED
      BY <1>1, <1>3, <3>1
  <2> QED
    BY <2>1, <2>2
<1>9. CASE AcceptElement \/ StartVisit \/ VisitNeighbour \/ SkipNeighbour
           \/ FinishVisit
  BY <1>2, <1>9 DEF AcceptElement, StartVisit, VisitNeighbour, SkipNeighbour,
                    FinishVisit
<1>10. CASE UNCHANGED validation
  BY <1>2, <1>10 DEF validation
<1> QED
  BY <1>4, <1>5, <1>6, <1>7, <1>8, <1>9, <1>10
     DEF Next, ValidatorNext, WalkStep, SearchStep, Compile, Terminated, vars

AcceptInv == WalkInv /\ GatesTold /\ scenario \in Scenarios

LEMMA AcceptInvInit == Init => AcceptInv
<1> SUFFICES ASSUME Init PROVE AcceptInv
  OBVIOUS
<1>1. WalkInv
  BY WalkInvInit
<1>2. GatesTold /\ scenario \in Scenarios
  BY DEF Init, ValidatorInit, GatesTold
<1> QED
  BY <1>1, <1>2 DEF AcceptInv

LEMMA AcceptInvStep == AcceptInv /\ [Next]_vars => AcceptInv'
<1> SUFFICES ASSUME AcceptInv, [Next]_vars PROVE AcceptInv'
  OBVIOUS
<1>1. WalkInv'
  BY WalkInvStep DEF AcceptInv
<1>2. GatesTold'
  BY GatesToldStep DEF AcceptInv, WalkInv, SearchInv
<1>3. scenario' = scenario
  BY DEF Next, ValidatorNext, WalkStep, SearchStep, Compile, Terminated, vars,
     validation, GoalGate, WholeGate, NotingGate, NoAgentLayer, RefuseWorld,
     AcceptElement, RefuseElement, RefuseEmpty, EndOfList, StartVisit, BackEdge,
     VisitNeighbour, SkipNeighbour, FinishVisit, NoCycle, AddResult,
     AddNotedResult
<1> QED
  BY <1>1, <1>2, <1>3 DEF AcceptInv

\* The gates in their places.
Names == {"goal_statement", "assumptions", "entities", "variables",
          "dependencies", "constraints", "events", "agent_layer", "typed_layer",
          "evaluation_criteria", "required_fields", "unknown_fields",
          "anti_patterns", "cycle_detection", "type_compatibility",
          "initial_constraints", "orphan_variables", "fan_out_limits",
          "depth_limits"}

LEMMA CoreGatesPlaces ==
  /\ Len(CoreGates) = 18 /\ DOMAIN CoreGates = 1 .. 18
  /\ \A rule \in {"variables", "dependencies", "constraints", "events",
                  "agent_layer", "evaluation_criteria", "initial_constraints"} :
       \E g \in 1 .. 18 : CoreGates[g] = rule
<1> DEFINE first == <<"goal_statement", "assumptions", "entities", "variables",
                      "dependencies", "constraints", "events", "agent_layer",
                      "evaluation_criteria">>
           last == <<"cycle_detection", "type_compatibility",
                     "initial_constraints", "orphan_variables",
                     "fan_out_limits", "depth_limits">>
           front == first \o CommonGates
<1>1. /\ first \in Seq(Names) /\ Len(first) = 9
      /\ first[4] = "variables" /\ first[5] = "dependencies"
      /\ first[6] = "constraints" /\ first[7] = "events"
      /\ first[8] = "agent_layer"
      /\ first[9] = "evaluation_criteria"
  BY DEF Names
<1>2. CommonGates \in Seq(Names) /\ Len(CommonGates) = 3
  BY DEF CommonGates, Names
<1>3. last \in Seq(Names) /\ Len(last) = 6 /\ last[3] = "initial_constraints"
  BY DEF Names
<1>4. CoreGates = (first \o CommonGates) \o last
  BY DEF CoreGates
<1> HIDE DEF first, last
<1>5. /\ front \in Seq(Names) /\ Len(front) = 12
      /\ \A k \in 1 .. 9 : front[k] = first[k]
  <2>1. /\ first \o CommonGates \in Seq(Names) /\ Len(first \o CommonGates) = Len(first) + Len(CommonGates)
        /\ \A i \in 1 .. Len(first) + Len(CommonGates) :
             (first \o CommonGates)[i] = IF i <= Len(first) THEN first[i] ELSE CommonGates[i - Len(first)]
    BY <1>1, <1>2, ConcatProperties
  <2>2. Len(first) = 9 /\ Len(first) + Len(CommonGates) = 12
    BY <1>1, <1>2
  <2>3. ASSUME NEW k \in 1 .. 9 PROVE front[k] = first[k]
    <3>1. k \in 1 .. 12 /\ k <= 9
      OBVIOUS
    <3> QED
      BY <2>1, <2>2, <3>1
  <2> QED
    BY <2>1, <2>2, <2>3
<1> HIDE DEF front
<1>6. /\ front \o last \in Seq(Names) /\ Len(front \o last) = 18
      /\ \A k \in 1 .. 12 : (front \o last)[k] = front[k]
      /\ (front \o last)[15] = last[3]
  <2>1. /\ front \o last \in Seq(Names) /\ Len(front \o last) = Len(front) + Len(last)
        /\ \A i \in 1 .. Len(front) + Len(last) :
             (front \o last)[i] = IF i <= Len(front) THEN front[i] ELSE last[i - Len(front)]
    BY <1>3, <1>5, ConcatProperties
  <2>0. Len(front \o last) = 18
    BY <1>3, <1>5, <2>1
  <2>2. ASSUME NEW k \in 1 .. 12 PROVE (front \o last)[k] = front[k]
    <3>1. k \in 1 .. 18 /\ k <= 12
      OBVIOUS
    <3>2. k \in 1 .. (Len(front) + Len(last)) /\ k <= Len(front)
      BY <1>3, <1>5, <3>1
    <3> QED
      BY <2>1, <3>2
  <2>3. (front \o last)[15] = last[15 - 12]
    BY <1>3, <1>5, <2>1
  <2>4. 15 - 12 = 3
    OBVIOUS
  <2> QED
    BY <2>0, <2>1, <2>2, <2>3, <2>4
<1>7. CoreGates = front \o last
  BY <1>4 DEF front
<1>8. /\ \A k \in {4, 5, 6, 7, 8, 9} : CoreGates[k] = first[k]
      /\ CoreGates[15] = last[3]
  <2>1. {4, 5, 6, 7, 8, 9} \subseteq 1 .. 9 /\ {4, 5, 6, 7, 8, 9} \subseteq 1 .. 12
    OBVIOUS
  <2> QED
    BY <1>5, <1>6, <1>7, <2>1
<1>11. /\ CoreGates[4] = "variables" /\ CoreGates[5] = "dependencies"
      /\ CoreGates[6] = "constraints" /\ CoreGates[7] = "events"
      /\ CoreGates[8] = "agent_layer"
      /\ CoreGates[9] = "evaluation_criteria"
      /\ CoreGates[15] = "initial_constraints"
  BY <1>1, <1>3, <1>8
<1>9. Len(CoreGates) = 18 /\ DOMAIN CoreGates = 1 .. 18
  <2>1. CoreGates \in Seq(Names) /\ Len(CoreGates) = 18
    BY <1>6, <1>7
  <2> QED
    BY <2>1
<1>10. {4, 5, 6, 7, 8, 9, 15} \subseteq 1 .. 18
  OBVIOUS
<1> QED
  BY <1>9, <1>10, <1>11

LEMMA TypedGatesPlaces ==
  /\ Len(TypedGates) = 6 /\ DOMAIN TypedGates = 1 .. 6
  /\ TypedGates[3] = "typed_layer"
<1> DEFINE first == <<"goal_statement", "assumptions", "typed_layer">>
<1>1. first \in Seq(Names) /\ Len(first) = 3 /\ first[3] = "typed_layer"
  BY DEF Names
<1>2. CommonGates \in Seq(Names) /\ Len(CommonGates) = 3
  BY DEF CommonGates, Names
<1>3. TypedGates = first \o CommonGates
  BY DEF TypedGates
<1> HIDE DEF first
<1>4. /\ first \o CommonGates \in Seq(Names) /\ Len(first \o CommonGates) = 6
      /\ (first \o CommonGates)[3] = first[3]
  <2>1. /\ first \o CommonGates \in Seq(Names) /\ Len(first \o CommonGates) = Len(first) + Len(CommonGates)
        /\ \A i \in 1 .. Len(first) + Len(CommonGates) :
             (first \o CommonGates)[i] = IF i <= Len(first) THEN first[i] ELSE CommonGates[i - Len(first)]
    BY <1>1, <1>2, ConcatProperties
  <2> QED
    BY <1>1, <1>2, <2>1
<1> QED
  BY <1>1, <1>3, <1>4

\* Whatever is accepted satisfies all its gates, but for the length of the goal.
LEMMA GatesHold ==
  ASSUME AcceptInv, Accepted, NEW g \in DOMAIN Gates(scenario),
         Gates(scenario)[g] # "goal_statement"
  PROVE  GateHolds(scenario, Gates(scenario)[g])
<1>1. /\ gate \in Nat \ {0} /\ Len(report) = gate - 1
      /\ \A k \in 1 .. (gate - 1) :
           /\ report[k].rule = Gates(scenario)[k]
           /\ report[k].passed \/ report[k].level = "REJECT"
                \/ report[k].rule = "goal_statement"
  BY DEF AcceptInv, GatesTold
<1>2. DOMAIN report = 1 .. (gate - 1)
  BY <1>1 DEF AcceptInv, WalkInv, SearchInv, ReportOK
<1>3. DOMAIN Gates(scenario) = 1 .. Len(Gates(scenario)) /\ Len(Gates(scenario)) \in Nat
  BY CoreGatesPlaces, TypedGatesPlaces DEF Gates
<1>4. g \in DOMAIN report
  BY <1>1, <1>2, <1>3 DEF Accepted, Running
<1>5. report[g].passed
  <2>1. report[g].passed \/ report[g].level # "REJECT"
    BY <1>4, Zenon DEF AcceptInv, WalkInv, Told, ReportExact, Accepted
  <2> QED
    BY <1>1, <1>2, <1>4, <2>1
<1> QED
  BY <1>1, <1>2, <1>4, <1>5, Zenon DEF AcceptInv, WalkInv, Told, ReportExact

\* All the elements of a list are sound.
AllSound(l) == \A e \in ElementsOf(scenario[l]) : Sound(scenario, l, e)

LEMMA HoldingSound ==
  ASSUME NEW l, ListHolds(scenario, l)
  PROVE  AllSound(l)
  BY DEF ListHolds, AllSound, ElementsOf

LEMMA CoreSound ==
  ASSUME AcceptInv, Accepted, scenario.typed_layer = None
  PROVE  /\ \A l \in {"variables", "dependency_edges", "constraints",
                     "evaluation_criteria"} : AllSound(l)
         /\ \A l \in AgentLists : AllSound(l)
         /\ InitialConstraintsPass(scenario)
<1>1. ASSUME NEW rule \in {"variables", "dependencies", "constraints",
                          "agent_layer", "evaluation_criteria",
                          "initial_constraints"}
      PROVE  GateHolds(scenario, rule)
  <2>1. Gates(scenario) = CoreGates
    BY DEF Gates
  <2>2. PICK g \in 1 .. 18 : CoreGates[g] = rule
    BY CoreGatesPlaces
  <2>3. g \in DOMAIN Gates(scenario) /\ Gates(scenario)[g] = rule
    BY <2>1, <2>2, CoreGatesPlaces
  <2>4. rule # "goal_statement"
    OBVIOUS
  <2> QED
    BY <2>3, <2>4, GatesHold
<1>2. AllSound("variables")
  <2>1. ListHolds(scenario, "variables")
    BY <1>1 DEF GateHolds, Walks
  <2> QED
    BY <2>1, HoldingSound
<1>3. AllSound("dependency_edges")
  <2>1. GateHolds(scenario, "dependencies")
    BY <1>1
  <2>2. ListHolds(scenario, "dependency_edges")
    BY <2>1 DEF GateHolds, Walks
  <2> QED
    BY <2>2, HoldingSound
<1>4. AllSound("constraints")
  <2>1. ListHolds(scenario, "constraints")
    BY <1>1 DEF GateHolds, Walks
  <2> QED
    BY <2>1, HoldingSound
<1>5. AllSound("evaluation_criteria")
  <2>1. ListHolds(scenario, "evaluation_criteria")
    BY <1>1 DEF GateHolds, Walks
  <2> QED
    BY <2>1, HoldingSound
<1>6. ASSUME NEW l \in AgentLists PROVE AllSound(l)
  <2>1. CASE scenario.agent_layer = None
    <3>1. scenario[l] = <<>>
      BY <2>1, ScenariosAssumption DEF AcceptInv
    <3> QED
      BY <3>1 DEF AllSound, ElementsOf
  <2>2. CASE scenario.agent_layer # None
    <3>1. GateHolds(scenario, "agent_layer")
      BY <1>1
    <3>2. ListHolds(scenario, l)
      BY <2>2, <3>1 DEF GateHolds
    <3> QED
      BY <3>2, HoldingSound
  <2> QED
    BY <2>1, <2>2
<1>7. InitialConstraintsPass(scenario)
  <2>1. GateHolds(scenario, "initial_constraints")
    BY <1>1
  <2> QED
    BY <2>1 DEF GateHolds
<1> QED
  BY <1>2, <1>3, <1>4, <1>5, <1>6, <1>7

LEMMA TypedSound ==
  ASSUME AcceptInv, Accepted, scenario.typed_layer # None,
         NEW l \in TypedLists
  PROVE  AllSound(l)
<1>1. Gates(scenario) = TypedGates
  BY DEF Gates
<1>2. 3 \in DOMAIN Gates(scenario) /\ Gates(scenario)[3] = "typed_layer"
  BY <1>1, TypedGatesPlaces
<1>3. GateHolds(scenario, "typed_layer")
  BY <1>2, GatesHold
<1>4. ListHolds(scenario, l)
  BY <1>3 DEF GateHolds
<1> QED
  BY <1>4, HoldingSound

(***************************************************************************)
(* Initial constraints.                                                    *)
(***************************************************************************)
\* What the parser of the validator lets pass, that of the runtime finds
\* satisfied.
LEMMA PassingHolds ==
  ASSUME NEW s, NEW expression, expression \in Seq(ElementsOf(expression)),
         InitiallyPasses(s, expression)
  PROVE  RuntimeHolds(s, expression)
<1> DEFINE n == Len(expression)
<1>1. n \in Nat \ {0} /\ DOMAIN expression = 1 .. n
  BY DEF InitiallyPasses
<1>2. /\ \A k \in 1 .. (n - 1) : ConjunctionFails(s, expression[k])
      /\ ConjunctionPasses(s, expression[n])
  BY DEF InitiallyPasses
<1>3. ASSUME NEW k \in 1 .. n
      PROVE  \A j \in DOMAIN expression[k] : Readable(s, expression[k][j])
  <2>1. k \in Int /\ n \in Int /\ 1 <= k /\ k <= n
    BY <1>1
  <2>2. k \in 1 .. (n - 1) \/ k = n
    BY <2>1
  <2> QED
    BY <1>2, <2>2 DEF ConjunctionFails, ConjunctionPasses
<1>4. RuntimeReads(s, expression)
  BY <1>1, <1>3 DEF RuntimeReads
<1>5. n \in DOMAIN expression /\ \A j \in DOMAIN expression[n] : True(s, expression[n][j])
  BY <1>1, <1>2 DEF ConjunctionPasses
<1> QED
  BY <1>4, <1>5 DEF RuntimeHolds

LEMMA AcceptedHold ==
  ASSUME AcceptInv
  PROVE  AcceptedConstraintsHold
<1> SUFFICES ASSUME Accepted, scenario.typed_layer = None,
                    NEW c \in ElementsOf(scenario.constraints)
             PROVE  RuntimeHolds(scenario, c.expression)
  BY DEF AcceptedConstraintsHold
<1>1. c.expression \in Seq(ElementsOf(c.expression))
  BY ScenariosAssumption DEF AcceptInv
<1>2. InitiallyPasses(scenario, c.expression)
  BY CoreSound DEF InitialConstraintsPass
<1> QED
  BY <1>1, <1>2, PassingHolds

\* Whatever the scenario, if validation accepts it then the runtime finds all
\* its constraints satisfied at the start, though the validator
\* (NumericConstraintParser) evaluates while it parses and the runtime
\* (ConstraintExpressionParser) reads everything first.
THEOREM AcceptedConstraintsAlwaysHold == Spec => []AcceptedConstraintsHold
<1>1. Init => AcceptInv
  BY AcceptInvInit
<1>2. AcceptInv /\ [Next]_vars => AcceptInv'
  BY AcceptInvStep
<1>3. AcceptInv => AcceptedConstraintsHold
  BY AcceptedHold
<1> QED
  BY <1>1, <1>2, <1>3, PTL DEF Spec

(***************************************************************************)
(* References.                                                             *)
(***************************************************************************)
Resolves(ref) == ref[2] \in Ids(scenario, ref[1])

LEMMA CoreResolves ==
  ASSUME AcceptInv, Accepted, scenario.typed_layer = None,
         NEW ref \in CoreReferences(scenario)
  PROVE  Resolves(ref)
<1>1. CASE \E v \in ElementsOf(scenario.variables) :
             v.entity_ref # "" /\ ref = <<"entities", v.entity_ref>>
  <2>1. PICK v \in ElementsOf(scenario.variables) :
             v.entity_ref # "" /\ ref = <<"entities", v.entity_ref>>
    BY <1>1
  <2>2. SoundVariable(scenario, v)
    BY CoreSound DEF AllSound, Sound
  <2> QED
    BY <2>1, <2>2 DEF SoundVariable, Resolves
<1>2. CASE \E v \in Linked(scenario) : ref = <<"variables", v>>
  <2>1. \A e \in ElementsOf(scenario.dependency_edges) :
          {e.source, e.target} \subseteq Ids(scenario, "variables")
    BY CoreSound DEF AllSound, Sound, SoundEdge
  <2> QED
    BY <1>2, <2>1 DEF Linked, Edges, Resolves
<1>3. CASE \E c \in ElementsOf(scenario.constraints) :
             \E v \in ElementsOf(c.affected) : ref = <<"variables", v>>
  BY <1>3, CoreSound DEF AllSound, Sound, SoundConstraint, Resolves
<1>4. CASE \E c \in ElementsOf(scenario.evaluation_criteria) :
             \E v \in ElementsOf(c.inputs) : ref = <<"variables", v>>
  BY <1>4, CoreSound DEF AllSound, Sound, SoundCriterion, Resolves
<1>5. CASE \E x \in ElementsOf(scenario.shops) :
             ref = <<"locations", x.location_ref>>
  BY <1>5, CoreSound DEF AllSound, Sound, SoundShop, Resolves, AgentLists
<1>6. CASE \E shop \in ElementsOf(scenario.shops) :
             \E x \in ElementsOf(shop.inventory) : ref = <<"items", x.item_id>>
  BY <1>6, CoreSound DEF AllSound, Sound, SoundShop, Resolves, AgentLists
<1>7. CASE \E a \in ElementsOf(scenario.agents) :
             \/ ref = <<"locations", a.start_location_ref>>
             \/ a.policy_ref # "" /\ ref = <<"policies", a.policy_ref>>
  <2>1. PICK a \in ElementsOf(scenario.agents) :
             \/ ref = <<"locations", a.start_location_ref>>
             \/ a.policy_ref # "" /\ ref = <<"policies", a.policy_ref>>
    BY <1>7
  <2>2. SoundAgent(scenario, a)
    BY CoreSound DEF AllSound, Sound, AgentLists
  <2>3. /\ a.start_location_ref \in Ids(scenario, "locations")
        /\ a.policy_ref # "" => a.policy_ref \in Ids(scenario, "policies")
    BY <2>2 DEF SoundAgent
  <2>4. CASE ref = <<"locations", a.start_location_ref>>
    BY <2>3, <2>4 DEF Resolves
  <2>5. CASE a.policy_ref # "" /\ ref = <<"policies", a.policy_ref>>
    BY <2>3, <2>5 DEF Resolves
  <2> QED
    BY <2>1, <2>4, <2>5
<1> QED
  BY <1>1, <1>2, <1>3, <1>4, <1>5, <1>6, <1>7 DEF CoreReferences

LEMMA SystemResolves ==
  ASSUME AcceptInv, Accepted, scenario.typed_layer # None,
         NEW e \in ElementsOf(scenario.systems),
         NEW ref \in SystemReferences(e)
  PROVE  Resolves(ref)
<1>1. SoundSystem(scenario, e)
  BY TypedSound DEF TypedLists, AllSound, Sound
<1>2. CASE \E t \in ElementsOf(e.triggered_by) : ref = <<"event_types", t>>
  BY <1>1, <1>2 DEF SoundSystem, Resolves
<1>3. CASE \E m \in ElementsOf(e.emit_events) : ref = <<"event_types", m.type_ref>>
  BY <1>1, <1>3 DEF SoundSystem, SoundEmit, Resolves
<1>4. CASE \E c \in ElementsOf(e.create_relations) :
             ref = <<"relation_types", c.type_ref>>
  BY <1>1, <1>4 DEF SoundSystem, SoundCreate, Resolves
<1>5. CASE \E w \in ElementsOf(e.writes) :
             ref = <<"component_types", w[Len(w) - 1]>>
  BY <1>1, <1>5 DEF SoundSystem, SoundWrite, Resolves
<1>6. CASE e.entity_type_ref # None /\ ref = <<"entity_types", e.entity_type_ref>>
  BY <1>1, <1>6 DEF SoundSystem, Given, Resolves
<1>7. CASE e.relation_type_ref # None
             /\ ref = <<"relation_types", e.relation_type_ref>>
  BY <1>1, <1>7 DEF SoundSystem, Given, Resolves
<1> QED
  BY <1>2, <1>3, <1>4, <1>5, <1>6, <1>7 DEF SystemReferences

LEMMA TypedResolves ==
  ASSUME AcceptInv, Accepted, scenario.typed_layer # None,
         NEW ref \in TypedReferences(scenario)
  PROVE  Resolves(ref)
<1>1. \A l \in TypedLists : AllSound(l)
  BY TypedSound
<1>2. CASE \E e \in ElementsOf(scenario.entity_types) :
             \E c \in ElementsOf(e.components) : ref = <<"component_types", c>>
  BY <1>1, <1>2 DEF TypedLists, AllSound, Sound, SoundEntityType, Resolves
<1>3. CASE \E e \in ElementsOf(scenario.typed_entities) :
             \/ ref = <<"entity_types", e.entity_type_ref>>
             \/ \E c \in e.components : ref = <<"component_types", c.id>>
  <2>1. PICK e \in ElementsOf(scenario.typed_entities) :
             \/ ref = <<"entity_types", e.entity_type_ref>>
             \/ \E c \in e.components : ref = <<"component_types", c.id>>
    BY <1>3
  <2>2. SoundTypedEntity(scenario, e)
    BY <1>1 DEF TypedLists, AllSound, Sound
  <2> QED
    BY <2>1, <2>2 DEF SoundTypedEntity, Resolves
<1>4. CASE \E e \in ElementsOf(scenario.relations) :
             \/ ref = <<"relation_types", e.type_ref>>
             \/ \E r \in {e.source, e.target} : ref = <<"typed_entities", r>>
  <2>1. PICK e \in ElementsOf(scenario.relations) :
             \/ ref = <<"relation_types", e.type_ref>>
             \/ \E r \in {e.source, e.target} : ref = <<"typed_entities", r>>
    BY <1>4
  <2>2. SoundRelation(scenario, e)
    BY <1>1 DEF TypedLists, AllSound, Sound
  <2> QED
    BY <2>1, <2>2 DEF SoundRelation, Resolves
<1>5. CASE \E e \in ElementsOf(scenario.initial_events) :
             ref = <<"event_types", e.type_ref>>
  BY <1>1, <1>5 DEF TypedLists, AllSound, Sound, SoundInitialEvent, Resolves
<1>6. CASE \E e \in ElementsOf(scenario.systems) : ref \in SystemReferences(e)
  BY <1>6, SystemResolves
<1> QED
  BY <1>2, <1>3, <1>4, <1>5, <1>6 DEF TypedReferences

LEMMA AcceptedResolve ==
  ASSUME AcceptInv
  PROVE  AcceptedReferencesResolve
<1>1. ASSUME Accepted, scenario.typed_layer # None,
             NEW ref \in TypedReferences(scenario)
      PROVE  ref[2] \in Ids(scenario, ref[1])
  BY <1>1, TypedResolves DEF Resolves
<1>2. ASSUME Accepted, scenario.typed_layer = None,
             NEW ref \in CoreReferences(scenario)
      PROVE  ref[2] \in Ids(scenario, ref[1])
  BY <1>2, CoreResolves DEF Resolves
<1> QED
  BY <1>1, <1>2 DEF AcceptedReferencesResolve

\* Whatever the scenario, if validation accepts it then everything a run of it
\* refers to is there: no gate leaves a kind of reference unchecked.
THEOREM AcceptedReferencesAlwaysResolve == Spec => []AcceptedReferencesResolve
<1>1. Init => AcceptInv
  BY AcceptInvInit
<1>2. AcceptInv /\ [Next]_vars => AcceptInv'
  BY AcceptInvStep
<1>3. AcceptInv => AcceptedReferencesResolve
  BY AcceptedResolve
<1> QED
  BY <1>1, <1>2, <1>3, PTL DEF Spec

(***************************************************************************)
(* The compiler.                                                           *)
(***************************************************************************)
BadRole(target) == Len(target) = 3 /\ target[1] \notin {"self", "other"}

LEMMA WriteThrowsOnRole ==
  ASSUME NEW kind, NEW target, SoundWrite(scenario, kind, target)
  PROVE  WriteThrows(scenario, target) <=> BadRole(target)
  BY DEF SoundWrite, WriteThrows, BadRole

LEMMA SystemThrowsOnRole ==
  ASSUME AcceptInv, Accepted, scenario.typed_layer # None,
         NEW e \in ElementsOf(scenario.systems)
  PROVE  SystemThrows(scenario, e) <=> \E target \in ElementsOf(e.writes) : BadRole(target)
<1>1. SoundSystem(scenario, e)
  BY TypedSound DEF TypedLists, AllSound, Sound
<1>2. \A target \in ElementsOf(e.writes) :
        WriteThrows(scenario, target) <=> BadRole(target)
  BY <1>1, WriteThrowsOnRole DEF SoundSystem
<1>3. /\ e.kind \in {"per_entity", "pair", "per_relation"}
      /\ ElementsOf(e.triggered_by) \subseteq Ids(scenario, "event_types")
      /\ e.entity_type_ref \in Ids(scenario, "entity_types") \cup {None}
      /\ e.relation_type_ref \in Ids(scenario, "relation_types") \cup {None}
  BY <1>1 DEF SoundSystem, Given
<1>4. \A c \in ElementsOf(e.create_relations) :
        /\ c.type_ref \in Ids(scenario, "relation_types")
        /\ {c.source, c.target} \subseteq {"self", "other"}
  BY <1>1 DEF SoundSystem, SoundCreate
<1>5. \A m \in ElementsOf(e.emit_events) : m.type_ref \in Ids(scenario, "event_types")
  BY <1>1 DEF SoundSystem, SoundEmit
<1> QED
  BY <1>2, <1>3, <1>4, <1>5 DEF SystemThrows

\* What is refused to an accepted scenario with a typed layer.
LEMMA TypedThrowsOnRole ==
  ASSUME AcceptInv, Accepted, scenario.typed_layer # None
  PROVE  TypedThrows(scenario) <=>
           \E e \in ElementsOf(scenario.systems) :
             \E target \in ElementsOf(e.writes) : BadRole(target)
<1>1. \A l \in TypedLists : AllSound(l)
  BY TypedSound
<1>2. \A e \in ElementsOf(scenario.entity_types) :
        ElementsOf(e.components) \subseteq Ids(scenario, "component_types")
  BY <1>1 DEF TypedLists, AllSound, Sound, SoundEntityType
<1>3. \A e \in ElementsOf(scenario.typed_entities) :
        e.entity_type_ref \in Ids(scenario, "entity_types")
  BY <1>1 DEF TypedLists, AllSound, Sound, SoundTypedEntity
<1>4. \A e \in ElementsOf(scenario.relations) :
        /\ e.type_ref \in Ids(scenario, "relation_types")
        /\ {e.source, e.target} \subseteq Ids(scenario, "typed_entities")
  BY <1>1 DEF TypedLists, AllSound, Sound, SoundRelation
<1>5. \A e \in ElementsOf(scenario.initial_events) :
        e.type_ref \in Ids(scenario, "event_types")
  BY <1>1 DEF TypedLists, AllSound, Sound, SoundInitialEvent
<1>6. (\E e \in ElementsOf(scenario.systems) : SystemThrows(scenario, e)) <=>
        \E e \in ElementsOf(scenario.systems) :
          \E target \in ElementsOf(e.writes) : BadRole(target)
  BY SystemThrowsOnRole
<1> QED
  BY <1>2, <1>3, <1>4, <1>5, <1>6 DEF TypedThrows

LEMMA CoreThrowsOnTypes ==
  ASSUME AcceptInv, Accepted
  PROVE  CoreThrows(scenario) <=>
           \/ \E v \in ElementsOf(scenario.variables) : v.type \in {"ENUM", "LIST"}
           \/ \E e \in Edges(scenario) : e.fn \notin Registered
<1>1. \A v \in ElementsOf(scenario.variables) :
        v.type \notin Buffers <=> v.type \in {"ENUM", "LIST"}
  BY ScenariosAssumption DEF AcceptInv, Buffers
<1>2. CASE scenario.typed_layer = None
  <2>1. \A shop \in ElementsOf(scenario.shops) : SoundShop(scenario, shop)
    BY <1>2, CoreSound DEF AllSound, Sound, AgentLists
  <2>2. \A shop \in ElementsOf(scenario.shops) :
          \A slot \in ElementsOf(shop.inventory) :
            slot.item_id \in Ids(scenario, "items")
    BY <2>1 DEF SoundShop
  <2> QED
    BY <1>1, <2>2 DEF CoreThrows
<1>3. CASE scenario.typed_layer # None
  <2>1. 3 \in DOMAIN Gates(scenario) /\ Gates(scenario)[3] = "typed_layer"
    BY <1>3, TypedGatesPlaces DEF Gates
  <2>2. GateHolds(scenario, "typed_layer")
    BY <2>1, GatesHold
  <2>3. scenario.agent_layer = None
    BY <2>2 DEF GateHolds
  <2> QED
    BY <1>1, <2>3 DEF CoreThrows
<1> QED
  BY <1>2, <1>3

LEMMA ThrowsOnUnsupported ==
  ASSUME AcceptInv, Accepted
  PROVE  CoreThrows(scenario) \/ TypedThrows(scenario) <=> Unsupported(scenario)
<1>1. CASE scenario.typed_layer = None
  <2>1. ~TypedThrows(scenario)
    BY <1>1 DEF TypedThrows
  <2> QED
    BY <1>1, <2>1, CoreThrowsOnTypes DEF Unsupported
<1>2. CASE scenario.typed_layer # None
  BY <1>2, CoreThrowsOnTypes, TypedThrowsOnRole DEF Unsupported, BadRole
<1> QED
  BY <1>1, <1>2

\* Nothing is compiled before the last gate.
CompileInv ==
  AcceptInv /\ (compiled # "pending" => ~Running) /\ CompilesUnlessUnsupported

LEMMA CompileInvStep == CompileInv /\ [Next]_vars => CompileInv'
<1> SUFFICES ASSUME CompileInv, [Next]_vars PROVE CompileInv'
  OBVIOUS
<1>1. AcceptInv'
  BY AcceptInvStep DEF CompileInv
<1>2. CASE ValidatorNext /\ UNCHANGED compiled
  <2>1. Running
    BY <1>2 DEF ValidatorNext, GoalGate, WholeGate, NotingGate, WalkStep,
       NoAgentLayer, RefuseWorld, AcceptElement, RefuseElement, RefuseEmpty,
       EndOfList, LayerThere, Walking, SearchStep, StartVisit, BackEdge,
       VisitNeighbour, SkipNeighbour, FinishVisit, NoCycle, Searching
  <2>2. compiled' = "pending"
    BY <1>2, <2>1 DEF CompileInv
  <2> QED
    BY <1>1, <2>2 DEF CompileInv, CompilesUnlessUnsupported
<1>3. CASE Compile
  <2>1. UNCHANGED <<scenario, gate, overall>>
    BY <1>3 DEF Compile, validation
  <2>2. ~Running /\ ~Running'
    BY <1>3, <2>1 DEF Compile, Running
  <2>3. /\ compiled' \in {"refused", "threw", "compiled"}
        /\ compiled' = "threw" =>
             overall /\ (CoreThrows(scenario) \/ TypedThrows(scenario))
        /\ compiled' = "compiled" =>
             overall /\ ~(CoreThrows(scenario) \/ TypedThrows(scenario))
    BY <1>3 DEF Compile
  <2>4. overall => (CoreThrows(scenario) \/ TypedThrows(scenario)
                      <=> Unsupported(scenario))
    BY <2>2, ThrowsOnUnsupported DEF CompileInv, Accepted
  <2>5. CompilesUnlessUnsupported'
    BY <2>1, <2>3, <2>4 DEF CompilesUnlessUnsupported
  <2> QED
    BY <1>1, <2>2, <2>5 DEF CompileInv
<1>4. CASE UNCHANGED vars
  <2>1. UNCHANGED <<scenario, gate, overall, compiled>>
    BY <1>4 DEF vars, validation
  <2>2. CompilesUnlessUnsupported' /\ (compiled # "pending" => ~Running)'
    BY <2>1 DEF CompileInv, CompilesUnlessUnsupported, Running
  <2> QED
    BY <1>1, <2>2 DEF CompileInv
<1> QED
  BY <1>2, <1>3, <1>4 DEF Next, Terminated

\* Whatever the scenario, what validation accepts compiles
\* (ScenarioCompiler::compile), but for what only the compiler checks: types
\* without buffer, functions that are not registered, roles of writes.
THEOREM AcceptedAlwaysCompiles == Spec => []CompilesUnlessUnsupported
<1>1. Init => CompileInv
  BY AcceptInvInit DEF Init, CompileInv, CompilesUnlessUnsupported
<1>2. CompileInv /\ [Next]_vars => CompileInv'
  BY CompileInvStep
<1>3. CompileInv => CompilesUnlessUnsupported
  BY DEF CompileInv
<1> QED
  BY <1>1, <1>2, <1>3, PTL DEF Spec

(***************************************************************************)
(* The tables.  First about counting: a larger set counts more, and the    *)
(* numbers of what is before an element are the places of an order.        *)
(***************************************************************************)
LEMMA CountsMore ==
  ASSUME NEW S, IsFiniteSet(S), NEW T \in SUBSET S
  PROVE  /\ IsFiniteSet(T) /\ Cardinality(S) \in Nat /\ Cardinality(T) \in Nat
         /\ Cardinality(T) <= Cardinality(S)
         /\ S # T => Cardinality(T) < Cardinality(S)
<1>1. IsFiniteSet(T) /\ Cardinality(T) <= Cardinality(S)
      /\ (Cardinality(S) = Cardinality(T) => S = T)
  BY FS_Subset
<1>2. Cardinality(S) \in Nat /\ Cardinality(T) \in Nat
  BY <1>1, FS_CardinalityType
<1>3. ASSUME NEW x \in Nat, NEW y \in Nat, y <= x, x # y PROVE y < x
  BY <1>3
<1>4. ASSUME S # T PROVE Cardinality(T) < Cardinality(S)
  BY <1>1, <1>2, <1>3, <1>4, Zenon
<1> QED
  BY <1>1, <1>2, <1>4

\* R is a strict total order of D.
Orders(R, D) ==
  /\ \A j \in D : <<j, j>> \notin R
  /\ \A i, j, k \in D : <<i, j>> \in R /\ <<j, k>> \in R => <<i, k>> \in R
  /\ \A j, k \in D : j # k => <<j, k>> \in R \/ <<k, j>> \in R

Earlier(R, D, k) == {j \in D : <<j, k>> \in R}

LEMMA EarlierGrows ==
  ASSUME NEW D, IsFiniteSet(D), NEW R, Orders(R, D),
         NEW j \in D, NEW k \in D, <<j, k>> \in R
  PROVE  Cardinality(Earlier(R, D, j)) < Cardinality(Earlier(R, D, k))
<1>1. IsFiniteSet(Earlier(R, D, k))
  BY FS_Subset DEF Earlier
<1>2. Earlier(R, D, j) \in SUBSET Earlier(R, D, k)
  BY DEF Earlier, Orders
<1>3. j \in Earlier(R, D, k) /\ j \notin Earlier(R, D, j)
  BY DEF Earlier, Orders
<1> QED
  BY <1>1, <1>2, <1>3, CountsMore

LEMMA PlacesFillUp ==
  ASSUME NEW n \in Nat, NEW R, Orders(R, 1 .. n)
  PROVE  {Cardinality(Earlier(R, 1 .. n, k)) : k \in 1 .. n} = 0 .. (n - 1)
<1> DEFINE D == 1 .. n
           Place(k) == Cardinality(Earlier(R, D, k))
           f == [k \in D |-> Place(k)]
           image == {Place(k) : k \in D}
<1>1. IsFiniteSet(D) /\ Cardinality(D) = n
  <2>1. ASSUME 1 > n PROVE n = 0
    BY <2>1
  <2> QED
    BY <2>1, FS_Interval
<1>2. ASSUME NEW k \in D PROVE Place(k) \in 0 .. (n - 1)
  <2>1. Earlier(R, D, k) \in SUBSET D /\ D # Earlier(R, D, k)
    BY DEF Earlier, Orders
  <2>2. Place(k) \in Nat /\ Place(k) < n
    BY <1>1, <2>1, CountsMore
  <2>3. ASSUME NEW p \in Nat, p < n PROVE p \in 0 .. (n - 1)
    BY <2>3
  <2> QED
    BY <2>2, <2>3, Zenon
<1>3. ASSUME NEW j \in D, NEW k \in D, j # k PROVE Place(j) # Place(k)
  <2>1. Place(j) \in Int /\ Place(k) \in Int
    BY <1>2
  <2>2. Place(j) < Place(k) \/ Place(k) < Place(j)
    <3>1. <<j, k>> \in R \/ <<k, j>> \in R
      BY <1>3 DEF Orders
    <3> QED
      BY <1>1, <3>1, EarlierGrows
  <2>3. ASSUME NEW p \in Int, NEW q \in Int, p < q \/ q < p PROVE p # q
    BY <2>3
  <2> QED
    BY <2>1, <2>2, <2>3, Zenon
<1> HIDE DEF Place
<1>4. f \in Bijection(D, image)
  <2>1. f \in [D -> image]
    OBVIOUS
  <2>2. \A j, k \in D : f[j] = f[k] => j = k
    BY <1>3
  <2>3. \A p \in image : \E k \in D : f[k] = p
    OBVIOUS
  <2> QED
    BY <2>1, <2>2, <2>3 DEF Bijection, Injection, Surjection, IsInjective
<1>5. ExistsBijection(D, image)
  BY <1>4 DEF ExistsBijection
<1>6. IsFiniteSet(image) /\ Cardinality(image) = n
  BY <1>1, <1>5, FS_Bijection
<1>7. IsFiniteSet(0 .. (n - 1)) /\ Cardinality(0 .. (n - 1)) = n
  <2>1. 0 \in Int /\ n - 1 \in Int /\ (IF 0 > n - 1 THEN 0 ELSE n - 1 - 0 + 1) = n
    OBVIOUS
  <2> QED
    BY <2>1, FS_Interval
<1>8. image \in SUBSET (0 .. (n - 1))
  BY <1>2
<1>9. image = 0 .. (n - 1)
  BY <1>6, <1>7, <1>8, FS_Subset
<1> QED
  BY <1>9 DEF Place

(***************************************************************************)
(* The buffers.                                                            *)
(***************************************************************************)
LEMMA OffsetsSound ==
  ASSUME NEW s, DOMAIN s.variables = 1 .. Len(s.variables), Len(s.variables) \in Nat
  PROVE  VariableTablesSound(s)
<1> DEFINE D == 1 .. Len(s.variables)
           Same(k) == {j \in D : s.variables[j].type = s.variables[k].type}
           Below(k) == {j \in 1 .. (k - 1) : s.variables[j].type = s.variables[k].type}
<1>1. DOMAIN s.variables = D /\ IsFiniteSet(D)
  BY FS_Interval
<1>2. ASSUME NEW k \in D
      PROVE  /\ Below(k) \subseteq Same(k) /\ IsFiniteSet(Same(k))
             /\ k \in Same(k) /\ k \notin Below(k)
  BY <1>1, FS_Subset
<1>3. ASSUME NEW k \in D PROVE Offset(s, k) < Cardinality(Same(k)) /\ Offset(s, k) \in Nat
  <2>1. Below(k) \in SUBSET Same(k) /\ IsFiniteSet(Same(k)) /\ Below(k) # Same(k)
    BY <1>2
  <2> QED
    BY <2>1, CountsMore DEF Offset
<1>4. ASSUME NEW j \in D, NEW k \in D, j < k, s.variables[j].type = s.variables[k].type
      PROVE  Offset(s, j) < Offset(s, k)
  <2>1. Below(j) \in SUBSET Below(k) /\ j \in Below(k) /\ j \notin Below(j)
    BY <1>4
  <2>2. IsFiniteSet(Below(k))
    BY <1>2, FS_Subset
  <2> QED
    BY <2>1, <2>2, CountsMore DEF Offset
<1>5. ASSUME NEW k \in D, NEW j \in D \ {k}, s.variables[j].type = s.variables[k].type
      PROVE  Offset(s, j) # Offset(s, k)
  <2>1. j < k \/ k < j
    OBVIOUS
  <2>2. Offset(s, j) < Offset(s, k) \/ Offset(s, k) < Offset(s, j)
    BY <1>4, <1>5, <2>1
  <2>3. Offset(s, j) \in Nat /\ Offset(s, k) \in Nat
    BY <1>3
  <2>4. ASSUME NEW p \in Nat, NEW q \in Nat, p < q \/ q < p PROVE p # q
    BY <2>4
  <2> QED
    BY <2>2, <2>3, <2>4, Zenon
<1> QED
  BY <1>1, <1>3, <1>5, Zenon DEF VariableTablesSound

(***************************************************************************)
(* The queue of events.                                                    *)
(***************************************************************************)
\* What the parser makes of the events, and the gate of the events accepts,
\* when no timestamp is NaN.
PlainEvents(events) ==
  /\ \A e \in events : /\ e.timestamp \in Int /\ e.timestamp # NaN
                       /\ e.priority \in Int /\ HandleRank[e.id] \in Int
  /\ \A e, f \in events : HandleRank[e.id] = HandleRank[f.id] => e.id = f.id

LEMMA BeforePlain ==
  ASSUME NEW events, PlainEvents(events), NEW e \in events, NEW f \in events
  PROVE  Before(e, f) <=>
           \/ e.timestamp < f.timestamp
           \/ /\ e.timestamp = f.timestamp
              /\ \/ e.priority > f.priority
                 \/ e.priority = f.priority /\ HandleRank[e.id] < HandleRank[f.id]
<1>1. /\ e.timestamp \in Int /\ e.timestamp # NaN /\ e.priority \in Int
      /\ f.timestamp \in Int /\ f.timestamp # NaN /\ f.priority \in Int
  BY DEF PlainEvents
<1>2. Less(e.timestamp, f.timestamp) <=> e.timestamp < f.timestamp
  BY <1>1 DEF Less
<1>3. ASSUME NEW t \in Int, NEW u \in Int, t < u PROVE t # u
  BY <1>3
<1>4. ASSUME NEW p \in Int, NEW q \in Int, p > q PROVE p # q
  BY <1>4
<1>5. CASE e.timestamp # f.timestamp
  BY <1>1, <1>2, <1>5, Zenon DEF Before
<1>6. CASE e.timestamp = f.timestamp /\ e.priority # f.priority
  <2>1. ~(e.timestamp < f.timestamp)
    BY <1>1, <1>3, <1>6, Zenon
  <2>2. Before(e, f) <=> e.priority > f.priority
    BY <1>1, <1>6, Zenon DEF Before
  <2> QED
    BY <1>6, <2>1, <2>2, Zenon
<1>7. CASE e.timestamp = f.timestamp /\ e.priority = f.priority
  <2>1. ~(e.timestamp < f.timestamp) /\ ~(e.priority > f.priority)
    BY <1>1, <1>3, <1>4, <1>7, Zenon
  <2>2. Before(e, f) <=> HandleRank[e.id] < HandleRank[f.id]
    BY <1>1, <1>7, Zenon DEF Before
  <2> QED
    BY <1>7, <2>1, <2>2, Zenon
<1> QED
  BY <1>5, <1>6, <1>7

\* The order of three numbers, the second of which descends.
Keys == Int \X Int \X Int

Precedes(a, b) ==
  a[1] < b[1] \/ (a[1] = b[1] /\ (a[2] > b[2] \/ (a[2] = b[2] /\ a[3] < b[3])))

LEMMA PrecedesOrders ==
  /\ \A a \in Keys : ~Precedes(a, a)
  /\ \A a, b \in Keys : Precedes(a, b) \/ Precedes(b, a) \/ a[3] = b[3]
  /\ \A a, b, c \in Keys : Precedes(a, b) /\ Precedes(b, c) => Precedes(a, c)
  BY DEF Precedes, Keys

LEMMA EventsInOrder ==
  ASSUME NEW s, DOMAIN s.events = 1 .. Len(s.events), Len(s.events) \in Nat,
         PlainEvents(ElementsOf(s.events)),
         \A j, k \in DOMAIN s.events : s.events[j].id = s.events[k].id => j = k
  PROVE  {QueuePlace(s, k) : k \in DOMAIN s.events} = 0 .. (Len(s.events) - 1)
<1> DEFINE n == Len(s.events)
           D == 1 .. n
           T(k) == s.events[k].timestamp
           P(k) == s.events[k].priority
           H(k) == HandleRank[s.events[k].id]
           Key(k) == <<T(k), P(k), H(k)>>
           R == {pair \in D \X D : Before(s.events[pair[1]], s.events[pair[2]])}
<1>1. DOMAIN s.events = D
  OBVIOUS
<1>2. ASSUME NEW k \in D PROVE Key(k) \in Keys
  BY <1>1 DEF PlainEvents, ElementsOf, Keys
<1>3. ASSUME NEW j \in D, NEW k \in D
      PROVE  <<j, k>> \in R <=> Precedes(Key(j), Key(k))
  <2>1. s.events[j] \in ElementsOf(s.events) /\ s.events[k] \in ElementsOf(s.events)
    BY <1>1 DEF ElementsOf
  <2>2. Before(s.events[j], s.events[k]) <=> Precedes(Key(j), Key(k))
    BY <2>1, BeforePlain DEF Precedes
  <2>3. <<j, k>> \in R <=> Before(s.events[j], s.events[k])
    OBVIOUS
  <2> QED
    BY <2>2, <2>3
<1>4. ASSUME NEW j \in D, NEW k \in D, Key(j)[3] = Key(k)[3] PROVE j = k
  <2>1. s.events[j] \in ElementsOf(s.events) /\ s.events[k] \in ElementsOf(s.events)
    BY <1>1 DEF ElementsOf
  <2>2. s.events[j].id = s.events[k].id
    BY <1>4, <2>1, Zenon DEF PlainEvents
  <2> QED
    BY <1>1, <2>2, Zenon
<1> HIDE DEF Key, R, D
<1>5. Orders(R, D)
  <2>1. \A j \in D : <<j, j>> \notin R
    BY <1>2, <1>3, PrecedesOrders, Zenon
  <2>2. ASSUME NEW i \in D, NEW j \in D, NEW k \in D,
               <<i, j>> \in R, <<j, k>> \in R
        PROVE  <<i, k>> \in R
    <3>1. Precedes(Key(i), Key(j)) /\ Precedes(Key(j), Key(k))
      BY <1>3, <2>2, Zenon
    <3>2. Precedes(Key(i), Key(k))
      BY <1>2, <3>1, PrecedesOrders, Zenon
    <3> QED
      BY <1>3, <3>2, Zenon
  <2>3. ASSUME NEW j \in D, NEW k \in D, j # k
        PROVE  <<j, k>> \in R \/ <<k, j>> \in R
    BY <1>2, <1>3, <1>4, <2>3, PrecedesOrders, Zenon
  <2> QED
    BY <2>1, <2>2, <2>3, Zenon DEF Orders
<1>6. ASSUME NEW k \in D PROVE QueuePlace(s, k) = Cardinality(Earlier(R, D, k))
  <2>1. {j \in DOMAIN s.events : Before(s.events[j], s.events[k])} = Earlier(R, D, k)
    BY <1>1 DEF R, Earlier
  <2> QED
    BY <2>1 DEF QueuePlace
<1>7. {Cardinality(Earlier(R, D, k)) : k \in D} = 0 .. (n - 1)
  BY <1>5, PlacesFillUp DEF D
<1> QED
  BY <1>1, <1>6, <1>7

(***************************************************************************)
(* The instances of a component.                                           *)
(***************************************************************************)
\* The entities, the entity types and the values of an entity.
TypedTables(s) ==
  /\ Len(s.typed_entities) \in Nat
  /\ DOMAIN s.typed_entities = 1 .. Len(s.typed_entities)
  /\ \A n \in DOMAIN s.typed_entities :
       /\ Len(ComponentsOf(s, n)) \in Nat
       /\ DOMAIN ComponentsOf(s, n) = 1 .. Len(ComponentsOf(s, n))
       /\ \A c, d \in s.typed_entities[n].components : c.id = d.id => c = d
       /\ \A c \in s.typed_entities[n].components : \A v, w \in c.fields :
            v.name = w.name => v = w

\* The instances of the first n entities: the entity and the place in its list.
Instances(s, component, n) ==
  UNION {{m} \X Listed(s, m, component) : m \in 1 .. n}

LEMMA InstancesFinite ==
  ASSUME NEW s, TypedTables(s), NEW component,
         NEW n \in 0 .. Len(s.typed_entities)
  PROVE  IsFiniteSet(Instances(s, component, n))
<1> DEFINE D == 1 .. n
           f == [m \in D |-> {m} \X Listed(s, m, component)]
           family == {{m} \X Listed(s, m, component) : m \in D}
<1>1. n \in Nat /\ D \subseteq DOMAIN s.typed_entities
  BY DEF TypedTables
<1>2. ASSUME NEW m \in D PROVE IsFiniteSet({m} \X Listed(s, m, component))
  <2>0. /\ Len(ComponentsOf(s, m)) \in Nat
        /\ DOMAIN ComponentsOf(s, m) = 1 .. Len(ComponentsOf(s, m))
    BY <1>1 DEF TypedTables
  <2>1. IsFiniteSet(DOMAIN ComponentsOf(s, m))
    BY <2>0, FS_Interval
  <2>2. IsFiniteSet(Listed(s, m, component))
    BY <2>1, FS_Subset DEF Listed
  <2>3. IsFiniteSet({m})
    BY FS_Singleton
  <2> QED
    BY <2>2, <2>3, FS_Product
<1>3. f \in Surjection(D, family)
  BY DEF Surjection
<1>4. IsFiniteSet(family)
  BY <1>1, <1>3, FS_Interval, FS_Surjection
<1>5. \A T \in family : IsFiniteSet(T)
  BY <1>2
<1> QED
  BY <1>4, <1>5, FS_UNION DEF Instances

LEMMA InstancesGrow ==
  ASSUME NEW s, TypedTables(s), NEW component,
         NEW n \in 0 .. Len(s.typed_entities), NEW m \in 0 .. n
  PROVE  /\ InstancesUpTo(s, component, m) <= InstancesUpTo(s, component, n)
         /\ InstancesUpTo(s, component, m) \in Nat
         /\ InstancesUpTo(s, component, n) \in Nat
         /\ (m < n /\ Listed(s, n, component) # {}) =>
              InstancesUpTo(s, component, m) < InstancesUpTo(s, component, n)
<1>1. n \in Nat /\ m \in Nat /\ m <= n
  BY DEF TypedTables
<1>2. IsFiniteSet(Instances(s, component, n))
  BY InstancesFinite
<1>3. Instances(s, component, m) \in SUBSET Instances(s, component, n)
  BY <1>1 DEF Instances
<1>4. ASSUME m < n, Listed(s, n, component) # {}
      PROVE  Instances(s, component, m) # Instances(s, component, n)
  <2>1. PICK p : p \in Listed(s, n, component)
    BY <1>4
  <2>2. <<n, p>> \in Instances(s, component, n)
    BY <1>1, <1>4, <2>1 DEF Instances
  <2>3. <<n, p>> \notin Instances(s, component, m)
    BY <1>1, <1>4 DEF Instances
  <2> QED
    BY <2>2, <2>3
<1>5. /\ InstancesUpTo(s, component, m) = Cardinality(Instances(s, component, m))
      /\ InstancesUpTo(s, component, n) = Cardinality(Instances(s, component, n))
  BY DEF InstancesUpTo, Instances
<1> QED
  BY <1>2, <1>3, <1>4, <1>5, CountsMore

\* The last instance of an entity leads back to it, and to no other.
LEMMA InstanceFound ==
  ASSUME NEW s, TypedTables(s), NEW component, NEW n \in DOMAIN s.typed_entities,
         Listed(s, n, component) # {}
  PROVE  InstanceToEntity(s, component, EntityToInstance(s, component, n)) = n
<1> DEFINE U(m) == InstancesUpTo(s, component, m)
           i == EntityToInstance(s, component, n)
           D == DOMAIN s.typed_entities
           Found(m) == U(m - 1) <= i /\ i < U(m)
<1>1. /\ D = 1 .. Len(s.typed_entities) /\ Len(s.typed_entities) \in Nat
      /\ i = U(n) - 1
  BY DEF TypedTables, EntityToInstance
<1>2. ASSUME NEW m \in D
      PROVE  m \in 0 .. Len(s.typed_entities) /\ m - 1 \in 0 .. m
             /\ m - 1 < m /\ m \in Int /\ m - 1 \in 0 .. Len(s.typed_entities)
  BY <1>1
<1>3. ASSUME NEW m \in D PROVE U(m) \in Nat /\ U(m - 1) \in Nat
  BY <1>2, InstancesGrow
<1>4. Found(n)
  <2>1. U(n - 1) < U(n)
    BY <1>2, InstancesGrow
  <2>2. ASSUME NEW x \in Nat, NEW y \in Nat, x < y PROVE x <= y - 1 /\ y - 1 < y
    BY <2>2
  <2> QED
    BY <1>1, <1>3, <2>1, <2>2
<1>5. ASSUME NEW m \in D, Found(m) PROVE m = n
  <2>1. CASE m < n
    <3>1. m \in 0 .. (n - 1) /\ n - 1 \in 0 .. Len(s.typed_entities)
      BY <1>1, <1>2, <2>1
    <3>2. U(m) <= U(n - 1)
      BY <3>1, InstancesGrow
    <3>3. ASSUME NEW x \in Nat, NEW y \in Nat, NEW z \in Nat,
                 x <= y, y <= z - 1, z - 1 < x
          PROVE  FALSE
      BY <3>3
    <3> QED
      BY <1>1, <1>3, <1>4, <1>5, <3>2, <3>3
  <2>2. CASE n < m
    <3>1. n \in 0 .. (m - 1) /\ m - 1 \in 0 .. Len(s.typed_entities)
      BY <1>1, <1>2, <2>2
    <3>2. U(n) <= U(m - 1)
      BY <3>1, InstancesGrow
    <3>3. ASSUME NEW x \in Nat, NEW y \in Nat, x <= y, y <= x - 1 PROVE FALSE
      BY <3>3
    <3> QED
      BY <1>1, <1>3, <1>5, <3>2, <3>3
  <2>3. m < n \/ n < m \/ m = n
    BY <1>2
  <2> QED
    BY <2>1, <2>2, <2>3
<1>6. InstanceToEntity(s, component, i) = CHOOSE m \in D : Found(m)
  BY DEF InstanceToEntity
<1> HIDE DEF Found, i
<1>7. (CHOOSE m \in D : Found(m)) = n
  BY <1>4, <1>5
<1> QED
  BY <1>6, <1>7 DEF i

LEMMA ComponentsSound ==
  ASSUME NEW s, TypedTables(s)
  PROVE  ComponentTablesSound(s)
<1> SUFFICES ASSUME NEW n \in DOMAIN s.typed_entities, NEW component
             PROVE  LET i == EntityToInstance(s, component, n)
                    IN IF component \in ElementsOf(ComponentsOf(s, n))
                       THEN /\ InstanceToEntity(s, component, i) = n
                            /\ \A c \in s.typed_entities[n].components :
                                 \A v \in c.fields :
                                   c.id = component =>
                                     InitialBuffer(s, component, v.name, i) = v.value
                       ELSE i = -1
  BY Zenon DEF ComponentTablesSound
<1> DEFINE i == EntityToInstance(s, component, n)
<1>1. component \in ElementsOf(ComponentsOf(s, n)) <=> Listed(s, n, component) # {}
  BY DEF ElementsOf, Listed
<1>2. CASE Listed(s, n, component) = {}
  <2>1. i = -1
    BY <1>2 DEF EntityToInstance
  <2> QED
    BY <1>1, <1>2, <2>1
<1>3. CASE Listed(s, n, component) # {}
  <2>1. InstanceToEntity(s, component, i) = n
    BY <1>3, InstanceFound
  <2>2. ASSUME NEW c \in s.typed_entities[n].components, NEW v \in c.fields,
               c.id = component
        PROVE  InitialBuffer(s, component, v.name, i) = v.value
    <3> DEFINE given == GivenValues(s, n, component, v.name)
    <3>1. v \in given
      BY <2>2 DEF GivenValues
    <3>2. ASSUME NEW w \in given PROVE w = v
      <4>1. PICK d \in s.typed_entities[n].components :
              d.id = component /\ w \in d.fields /\ w.name = v.name
        BY DEF GivenValues
      <4>2. d = c
        BY <2>2, <4>1 DEF TypedTables
      <4> QED
        BY <4>1, <4>2 DEF TypedTables
    <3> HIDE DEF given
    <3>3. given # {} /\ (CHOOSE w \in given : TRUE) = v
      BY <3>1, <3>2
    <3>4. InitialBuffer(s, component, v.name, i) =
            IF given # {} /\ EntityToInstance(s, component, n) = i
            THEN (CHOOSE w \in given : TRUE).value ELSE None
      BY <2>1 DEF InitialBuffer, given
    <3> QED
      BY <3>3, <3>4
  <2> QED
    BY <1>1, <1>3, <2>1, <2>2
<1> QED
  BY <1>2, <1>3

(***************************************************************************)
(* What validation makes sure of for the tables.                           *)
(***************************************************************************)
LEMMA EventsHold ==
  ASSUME AcceptInv, Accepted, scenario.typed_layer = None
  PROVE  \A j, k \in DOMAIN scenario.events :
           scenario.events[j].id = scenario.events[k].id => j = k
<1>1. PICK g \in 1 .. 18 : CoreGates[g] = "events"
  BY CoreGatesPlaces
<1>2. g \in DOMAIN Gates(scenario) /\ Gates(scenario)[g] = "events"
  BY <1>1, CoreGatesPlaces DEF Gates
<1>3. GateHolds(scenario, "events")
  BY <1>2, GatesHold
<1>4. ListHolds(scenario, "events")
  BY <1>3 DEF GateHolds, Walks
<1> QED
  BY <1>4 DEF ListHolds, Anonymous

LEMMA TypedHolds ==
  ASSUME AcceptInv, Accepted, scenario.typed_layer # None, NEW l \in TypedLists
  PROVE  ListHolds(scenario, l)
<1>1. 3 \in DOMAIN Gates(scenario) /\ Gates(scenario)[3] = "typed_layer"
  BY TypedGatesPlaces DEF Gates
<1>2. GateHolds(scenario, "typed_layer")
  BY <1>1, GatesHold
<1> QED
  BY <1>2 DEF GateHolds

\* Where ids are unique, the map of a list finds the element of an id.
LEMMA ElementFound ==
  ASSUME NEW s, NEW l, DOMAIN s[l] = 1 .. Len(s[l]), Len(s[l]) \in Nat,
         \A j, k \in DOMAIN s[l] : s[l][j].id = s[l][k].id => j = k,
         NEW id \in Ids(s, l)
  PROVE  Element(s, l, id) \in ElementsOf(s[l])
<1> DEFINE Last(k) == /\ s[l][k].id = id
                      /\ \A j \in DOMAIN s[l] : j > k => s[l][j].id # id
<1>1. PICK k \in DOMAIN s[l] : s[l][k].id = id
  BY DEF Ids, ElementsOf
<1>2. ASSUME NEW j \in DOMAIN s[l], j > k PROVE s[l][j].id # id
  <2>1. j # k
    BY <1>2
  <2> QED
    BY <1>1, <2>1
<1>3. (CHOOSE i \in DOMAIN s[l] : Last(i)) \in DOMAIN s[l]
  <2>1. Last(k)
    BY <1>1, <1>2
  <2> HIDE DEF Last
  <2> QED
    BY <2>1
<1>4. Element(s, l, id) = s[l][CHOOSE i \in DOMAIN s[l] : Last(i)]
  BY DEF Element
<1> HIDE DEF Last
<1> QED
  BY <1>3, <1>4 DEF ElementsOf

LEMMA ListsThere ==
  ASSUME AcceptInv, NEW l \in Lists
  PROVE  Len(scenario[l]) \in Nat /\ DOMAIN scenario[l] = 1 .. Len(scenario[l])
  BY DEF AcceptInv, WalkInv, Told, ListsOK, IsList

LEMMA TypedTablesThere ==
  ASSUME AcceptInv, Accepted, scenario.typed_layer # None
  PROVE  TypedTables(scenario)
<1>1. /\ Len(scenario.typed_entities) \in Nat
      /\ DOMAIN scenario.typed_entities = 1 .. Len(scenario.typed_entities)
      /\ Len(scenario.entity_types) \in Nat
      /\ DOMAIN scenario.entity_types = 1 .. Len(scenario.entity_types)
  BY ListsThere DEF Lists, TypedLists
<1> SUFFICES ASSUME NEW n \in DOMAIN scenario.typed_entities
    PROVE  /\ Len(ComponentsOf(scenario, n)) \in Nat
           /\ DOMAIN ComponentsOf(scenario, n) = 1 .. Len(ComponentsOf(scenario, n))
           /\ \A c, d \in scenario.typed_entities[n].components :
                c.id = d.id => c = d
           /\ \A c \in scenario.typed_entities[n].components :
                \A v, w \in c.fields : v.name = w.name => v = w
  BY <1>1, Zenon DEF TypedTables
<1> DEFINE e == scenario.typed_entities[n]
           type == Element(scenario, "entity_types", e.entity_type_ref)
<1>2. e \in ElementsOf(scenario.typed_entities)
  BY DEF ElementsOf
<1>3. e.entity_type_ref \in Ids(scenario, "entity_types")
  <2>1. SoundTypedEntity(scenario, e)
    BY <1>2, TypedSound DEF TypedLists, AllSound, Sound
  <2> QED
    BY <2>1 DEF SoundTypedEntity
<1>4. type \in ElementsOf(scenario.entity_types)
  <2>1. \A j, k \in DOMAIN scenario["entity_types"] :
          scenario["entity_types"][j].id = scenario["entity_types"][k].id => j = k
    BY TypedHolds DEF ListHolds, Anonymous, TypedLists
  <2> QED
    BY <1>1, <1>3, <2>1, ElementFound
<1>5. type.components \in Seq(ElementsOf(type.components))
  BY <1>4, ScenariosAssumption DEF AcceptInv
<1>6. ComponentsOf(scenario, n) = type.components
  BY DEF ComponentsOf
<1> HIDE DEF type
<1>7. /\ Len(ComponentsOf(scenario, n)) \in Nat
      /\ DOMAIN ComponentsOf(scenario, n) = 1 .. Len(ComponentsOf(scenario, n))
  BY <1>5, <1>6
<1>8. /\ \A c, d \in e.components : c.id = d.id => c = d
      /\ \A c \in e.components : \A v, w \in c.fields : v.name = w.name => v = w
  BY <1>2, ScenariosAssumption DEF AcceptInv
<1> QED
  BY <1>7, <1>8

LEMMA EventsQueued ==
  ASSUME AcceptInv, Accepted, scenario.typed_layer = None
  PROVE  EventsOrdered(scenario)
<1> SUFFICES ASSUME \A e \in ElementsOf(scenario.events) : e.timestamp # NaN
             PROVE  {QueuePlace(scenario, k) : k \in DOMAIN scenario.events}
                      = 0 .. (Len(scenario.events) - 1)
  BY DEF EventsOrdered
<1>1. scenario \in Scenarios
  BY DEF AcceptInv
<1>2. PlainEvents(ElementsOf(scenario.events))
  <2>1. \A e \in ElementsOf(scenario.events) :
          e.timestamp \in Int \cup {NaN} /\ e.priority \in Int
    BY <1>1, ScenariosAssumption
  <2>2. \A e, f \in ElementsOf(scenario.events) :
          /\ HandleRank[e.id] \in Int
          /\ HandleRank[e.id] = HandleRank[f.id] => e.id = f.id
    BY <1>1, HandleRankAssumption
  <2> QED
    BY <2>1, <2>2 DEF PlainEvents
<1>3. /\ Len(scenario.events) \in Nat
      /\ DOMAIN scenario.events = 1 .. Len(scenario.events)
  BY ListsThere DEF Lists, CoreLists
<1> QED
  BY <1>2, <1>3, EventsHold, EventsInOrder

LEMMA TablesSound == CompileInv => CompiledTablesSound
<1> SUFFICES ASSUME CompileInv, compiled = "compiled"
             PROVE  /\ VariableTablesSound(scenario)
                    /\ IF scenario.typed_layer # None
                       THEN ComponentTablesSound(scenario)
                       ELSE EventsOrdered(scenario)
  BY Zenon DEF CompiledTablesSound
<1>1. AcceptInv /\ Accepted
  BY DEF CompileInv, CompilesUnlessUnsupported, Accepted
<1>2. VariableTablesSound(scenario)
  <2>1. /\ Len(scenario.variables) \in Nat
        /\ DOMAIN scenario.variables = 1 .. Len(scenario.variables)
    BY <1>1, ListsThere DEF Lists, CoreLists
  <2> QED
    BY <2>1, OffsetsSound
<1>3. CASE scenario.typed_layer # None
  BY <1>1, <1>2, <1>3, TypedTablesThere, ComponentsSound
<1>4. CASE scenario.typed_layer = None
  BY <1>1, <1>2, <1>4, EventsQueued
<1> QED
  BY <1>3, <1>4

\* Whatever the scenario, the tables it is compiled into
\* (ScenarioCompiler::compile) are sound: variables have places of their own in
\* the buffers (build_parameter_handles), the queue has its events in one order
\* unless a timestamp is NaN (build_event_queue), and every entity finds the
\* values it was given in an instance of its own (compile_typed_layer).
THEOREM TablesAlwaysSound == Spec => []CompiledTablesSound
<1>1. Init => CompileInv
  BY AcceptInvInit DEF Init, CompileInv, CompilesUnlessUnsupported
<1>2. CompileInv /\ [Next]_vars => CompileInv'
  BY CompileInvStep
<1>3. CompileInv => CompiledTablesSound
  BY TablesSound
<1> QED
  BY <1>1, <1>2, <1>3, PTL DEF Spec
=============================================================================
