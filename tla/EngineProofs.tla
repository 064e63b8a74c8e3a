----------------------------- MODULE EngineProofs -----------------------------
(***************************************************************************)
(* Theorems about the propagation engine and what uses it, for every       *)
(* graph, with or without cycles: first the invariants that the engine's   *)
(* own steps preserve, whoever calls it; then a program that writes,       *)
(* pulls, saves and restores (PropagationLibrary), and the run loop of the *)
(* first schema version with every list of events and every set of         *)
(* constraints (V1Run).                                                    *)
(***************************************************************************)
EXTENDS PropagationLibrary, V1Run, SequenceTheorems, FiniteSetTheorems, TLAPS

Frames == [var : Vars, pass : {"sources", "edges"}, next : Nat, acc : Int]

(***************************************************************************)
(* The graph.                                                              *)
(***************************************************************************)
LEMMA EdgeOK ==
  ASSUME NEW v \in Vars, NEW k \in 1 .. Len(Incoming[v])
  PROVE  /\ Incoming[v][k].source \in Vars
         /\ Incoming[v][k].fn \in Functions
         /\ Incoming[v][k].weight \in Int
         /\ Incoming[v][k].source \in Sources(v)
  <1>1. Incoming[v] \in Seq([source : Vars, fn : Functions, weight : Int])
    BY GraphAssumption
  <1>2. Incoming[v][k] \in [source : Vars, fn : Functions, weight : Int]
    BY <1>1, ElementOfSeq
  <1>3. DOMAIN Incoming[v] = 1 .. Len(Incoming[v])
    BY <1>1
  <1> QED BY <1>2, <1>3 DEF Sources

LEMMA SourcesIndexed ==
  ASSUME NEW v \in Vars, NEW u \in Sources(v)
  PROVE  \E k \in 1 .. Len(Incoming[v]) : u = Incoming[v][k].source
  <1>1. Incoming[v] \in Seq([source : Vars, fn : Functions, weight : Int])
    BY GraphAssumption
  <1>2. DOMAIN Incoming[v] = 1 .. Len(Incoming[v])
    BY <1>1
  <1> QED BY <1>2 DEF Sources

LEMMA GraphFacts ==
  /\ \A v \in Vars : Sources(v) \subseteq Vars
  /\ \A v \in Vars : Len(Incoming[v]) \in Nat
  /\ \A u : Targets(u) \subseteq Vars
  /\ \A u, v : v \in Targets(u) <=> v \in Vars /\ u \in Sources(v)
  <1>1. \A v \in Vars : Sources(v) \subseteq Vars
    BY SourcesIndexed, EdgeOK
  <1>2. \A v \in Vars : Len(Incoming[v]) \in Nat
    BY GraphAssumption
  <1> QED BY <1>1, <1>2 DEF Targets

(***************************************************************************)
(* The values.                                                             *)
(***************************************************************************)
LEMMA StoredInt ==
  ASSUME NEW v, NEW x \in Int
  PROVE  Stored(v, x) \in Int
  BY DEF Stored

LEMMA NumericInt ==
  ASSUME NEW v \in Vars, values \in [Vars -> Int]
  PROVE  Numeric(v) \in Int
  BY DEF Numeric

LEMMA CombineInt ==
  ASSUME NEW fn \in Functions, NEW t \in Int, NEW s \in Int, NEW w \in Int
  PROVE  /\ Combine(fn, t, s, w) \in Int
         /\ fn = "linear_scale" => Combine(fn, t, s, w) = s * w
  <1>1. s * w \in Int
    OBVIOUS
  <1>2. PICK influence \in Int : influence = s * w
    BY <1>1
  <1>3. t * (1 + influence) \in Int /\ t + influence \in Int
    BY <1>2
  <1> QED BY <1>2, <1>3 DEF Combine, Functions

(***************************************************************************)
(* How a frame changes: it passes a source, is ready to combine, combines. *)
(***************************************************************************)
Passed(f) == [f EXCEPT !.next = @ + 1]
Ready(f, x) == [f EXCEPT !.pass = "edges", !.next = 1, !.acc = x]
Moved(f, x) == [f EXCEPT !.next = @ + 1, !.acc = x]

LEMMA FrameChanges ==
  ASSUME NEW f \in Frames, NEW x \in Int
  PROVE  /\ Passed(f) \in Frames
         /\ Passed(f).var = f.var
         /\ Passed(f).pass = f.pass
         /\ Passed(f).next = f.next + 1
         /\ Ready(f, x) \in Frames
         /\ Ready(f, x).var = f.var
         /\ Ready(f, x).pass = "edges"
         /\ Ready(f, x).next = 1
         /\ Moved(f, x) \in Frames
         /\ Moved(f, x).var = f.var
         /\ Moved(f, x).pass = f.pass
         /\ Moved(f, x).next = f.next + 1
         /\ Moved(f, x).acc = x
  <1>1. PICK m \in Nat : m = f.next + 1
    BY DEF Frames
  <1>2. /\ Passed(f) \in Frames /\ Passed(f).var = f.var
        /\ Passed(f).pass = f.pass /\ Passed(f).next = m
    BY <1>1 DEF Frames, Passed
  <1>3. /\ Ready(f, x) \in Frames /\ Ready(f, x).var = f.var
        /\ Ready(f, x).pass = "edges" /\ Ready(f, x).next = 1
    BY DEF Frames, Ready
  <1>4. /\ [f EXCEPT !.next = m, !.acc = x] \in Frames
        /\ [f EXCEPT !.next = m, !.acc = x].var = f.var
        /\ [f EXCEPT !.next = m, !.acc = x].pass = f.pass
        /\ [f EXCEPT !.next = m, !.acc = x].next = m
        /\ [f EXCEPT !.next = m, !.acc = x].acc = x
    BY DEF Frames
  <1> QED BY <1>1, <1>2, <1>3, <1>4 DEF Moved

LEMMA FrameFits ==
  ASSUME NEW f \in Frames, f.next \in 1 .. Len(Incoming[f.var]) + 1
  PROVE  FrameOK(f)
  BY DEF FrameOK, Frames

LEMMA NewFrame ==
  ASSUME NEW v \in Vars
  PROVE  /\ Frame(v) \in Frames
         /\ Frame(v).var = v
         /\ Frame(v).pass = "sources"
         /\ Frame(v).next = 1
         /\ FrameOK(Frame(v))
  <1>1. /\ Frame(v) \in Frames /\ Frame(v).var = v
        /\ Frame(v).pass = "sources" /\ Frame(v).next = 1
    BY DEF Frame, Frames
  <1>2. 1 \in 1 .. Len(Incoming[v]) + 1
    BY GraphFacts
  <1> QED BY <1>1, <1>2, FrameFits

(***************************************************************************)
(* The stack: replacing its top, pushing a frame on it, and popping it.    *)
(***************************************************************************)
LEMMA StackTop ==
  ASSUME stack \in Seq(Frames), stack # <<>>
  PROVE  /\ Len(stack) \in Nat \ {0}
         /\ DOMAIN stack = 1 .. Len(stack)
         /\ Top \in Frames
         /\ Top = stack[Len(stack)]
         /\ Below \in Seq(Frames)
         /\ Len(Below) = Len(stack) - 1
         /\ \A k \in 1 .. Len(stack) - 1 : Below[k] = stack[k]
         /\ \A k \in 1 .. Len(stack) : stack[k] \in Frames
  <1>1. Len(stack) \in Nat \ {0} /\ DOMAIN stack = 1 .. Len(stack)
    OBVIOUS
  <1>2. \A k \in 1 .. Len(stack) : stack[k] \in Frames
    BY ElementOfSeq
  <1>3. Top \in Frames /\ Top = stack[Len(stack)]
    BY <1>1, <1>2 DEF Top
  <1>4. Below \in Seq(Frames) /\ Len(Below) = Len(stack) - 1
    BY <1>1, <1>2, SubSeqProperties DEF Below
  <1>5. \A k \in 1 .. Len(stack) - 1 : Below[k] = stack[k]
    BY <1>1, <1>2, SubSeqProperties DEF Below
  <1> QED BY <1>1, <1>2, <1>3, <1>4, <1>5

LEMMA TopReplaced ==
  ASSUME stack \in Seq(Frames), stack # <<>>, NEW f \in Frames
  PROVE  /\ Append(Below, f) \in Seq(Frames)
         /\ Append(Below, f) # <<>>
         /\ Len(Append(Below, f)) = Len(stack)
         /\ DOMAIN Append(Below, f) = 1 .. Len(stack)
         /\ Append(Below, f)[Len(stack)] = f
         /\ \A k \in 1 .. Len(stack) - 1 : Append(Below, f)[k] = stack[k]
  <1>1. Below \in Seq(Frames) /\ Len(Below) = Len(stack) - 1
        /\ Len(stack) \in Nat \ {0}
        /\ \A k \in 1 .. Len(stack) - 1 : Below[k] = stack[k]
    BY StackTop
  <1>2. /\ Append(Below, f) \in Seq(Frames)
        /\ Len(Append(Below, f)) = Len(Below) + 1
        /\ \A k \in 1 .. Len(Below) : Append(Below, f)[k] = Below[k]
        /\ Append(Below, f)[Len(Below) + 1] = f
    BY <1>1, AppendProperties
  <1>3. Len(Append(Below, f)) = Len(stack)
    BY <1>1, <1>2
  <1> QED BY <1>1, <1>2, <1>3

LEMMA FramePushed ==
  ASSUME stack \in Seq(Frames), stack # <<>>, NEW f \in Frames, NEW g \in Frames
  PROVE  LET s == Append(Append(Below, f), g)
         IN  /\ s \in Seq(Frames)
             /\ s # <<>>
             /\ Len(s) = Len(stack) + 1
             /\ DOMAIN s = 1 .. Len(stack) + 1
             /\ s[Len(stack) + 1] = g
             /\ s[Len(stack)] = f
             /\ \A k \in 1 .. Len(stack) - 1 : s[k] = stack[k]
  <1> DEFINE t == Append(Below, f)
  <1>1. /\ t \in Seq(Frames) /\ Len(t) = Len(stack) /\ t[Len(stack)] = f
        /\ \A k \in 1 .. Len(stack) - 1 : t[k] = stack[k]
    BY TopReplaced
  <1>2. Len(stack) \in Nat \ {0}
    BY StackTop
  <1> HIDE DEF t
  <1>3. /\ Append(t, g) \in Seq(Frames) /\ Len(Append(t, g)) = Len(stack) + 1
        /\ \A k \in 1 .. Len(stack) : Append(t, g)[k] = t[k]
        /\ Append(t, g)[Len(stack) + 1] = g
    BY <1>1, AppendProperties
  <1>4. Append(t, g)[Len(stack)] = f
    BY <1>1, <1>2, <1>3
  <1>5. \A k \in 1 .. Len(stack) - 1 : Append(t, g)[k] = stack[k]
    BY <1>1, <1>2, <1>3
  <1>6. DOMAIN Append(t, g) = 1 .. Len(stack) + 1 /\ Append(t, g) # <<>>
    BY <1>2, <1>3
  <1> QED BY <1>3, <1>4, <1>5, <1>6 DEF t

-----------------------------------------------------------------------------
(***************************************************************************)
(* The inductive invariant.  ComputedFromFresh does not say why the        *)
(* sources of a frame are clean when it starts to combine: because those   *)
(* behind its position already are, but for the one being recomputed.  And *)
(* StaleClosed needs that what a push has visited is marked.               *)
(***************************************************************************)
SeenFresh(k) ==
  stack[k].pass = "sources" =>
    \A i \in 1 .. stack[k].next - 1 :
      Incoming[stack[k].var][i].source \in stale =>
        /\ k < Len(stack)
        /\ stack[k + 1].var = Incoming[stack[k].var][i].source

EngineInv ==
  /\ EngineTypeOK
  /\ StaleClosed
  /\ ComputedFromFresh
  /\ \A k \in DOMAIN stack : SeenFresh(k)
  /\ toVisit # {} => visited \subseteq stale

LEMMA EngineStarts ==
  ASSUME EngineInit
  PROVE  EngineInv
  <1>1. stack = <<>> /\ stack \in Seq(Frames) /\ DOMAIN stack = {}
    BY DEF EngineInit
  <1>2. EngineTypeOK
    BY <1>1, GraphAssumption DEF EngineInit, EngineTypeOK, Frames
  <1> QED BY <1>1, <1>2 DEF EngineInit, EngineInv, StaleClosed, ComputedFromFresh

LEMMA InvTop ==
  ASSUME EngineInv, stack # <<>>
  PROVE  /\ stack \in Seq(Frames)
         /\ Len(stack) \in Nat \ {0}
         /\ DOMAIN stack = 1 .. Len(stack)
         /\ toVisit = {}
         /\ Top = stack[Len(stack)]
         /\ Top \in Frames
         /\ FrameOK(Top)
         /\ FrameSound(Len(stack))
         /\ SeenFresh(Len(stack))
         /\ Top.var \in stale
         /\ \A k \in 1 .. Len(stack) - 1 : stack[k].var # Top.var
         /\ \A k \in 1 .. Len(stack) - 1 : stack[k].pass = "sources"
  <1>1. stack \in Seq(Frames) /\ toVisit = {}
    BY DEF EngineInv, EngineTypeOK, Frames
  <1>2. /\ Len(stack) \in Nat \ {0} /\ DOMAIN stack = 1 .. Len(stack)
        /\ Top = stack[Len(stack)] /\ Top \in Frames
    BY <1>1, StackTop
  <1>3. \A k \in 1 .. Len(stack) :
          FrameSound(k) /\ SeenFresh(k) /\ FrameOK(stack[k])
    BY <1>2 DEF EngineInv, EngineTypeOK, ComputedFromFresh
  <1>4. FrameOK(Top) /\ FrameSound(Len(stack)) /\ SeenFresh(Len(stack))
    BY <1>2, <1>3
  <1>5. Top.var \in stale /\ \A k \in 1 .. Len(stack) - 1 : stack[k].var # Top.var
    BY <1>2, <1>4 DEF FrameSound
  <1>6. \A k \in 1 .. Len(stack) - 1 : stack[k].pass = "sources"
    BY <1>2, <1>3 DEF FrameSound
  <1> QED BY <1>1, <1>2, <1>4, <1>5, <1>6

LEMMA VisitKeeps ==
  ASSUME EngineInv, Visit
  PROVE  EngineInv'
  <1>1. PICK current \in toVisit :
          /\ stale' = stale \cup {current}
          /\ visited' = visited \cup {current}
          /\ toVisit' = (toVisit \ {current}) \cup (Targets(current) \ visited')
          /\ UNCHANGED <<values, stack, thrown>>
    BY DEF Visit
  <1>2. stack = <<>> /\ stack' = <<>> /\ DOMAIN stack = {}
    BY <1>1 DEF EngineInv, EngineTypeOK
  <1>3. EngineTypeOK'
    BY <1>1, <1>2, GraphFacts DEF EngineInv, EngineTypeOK
  <1>4. visited' \subseteq stale'
    BY <1>1 DEF EngineInv
  <1>5. StaleClosed'
    <2> SUFFICES ASSUME NEW u \in stale', NEW t \in Targets(u)
                 PROVE  t \in stale' \cup toVisit'
      BY DEF StaleClosed, Targets
    <2>1. CASE u = current
      BY <2>1, <1>1, <1>4
    <2>2. CASE u # current
      BY <2>2, <1>1 DEF EngineInv, StaleClosed
    <2> QED BY <2>1, <2>2
  <1> QED BY <1>2, <1>3, <1>4, <1>5 DEF EngineInv, ComputedFromFresh

LEMMA BeginPushKeeps ==
  ASSUME EngineInv, Idle, NEW v \in Vars, BeginPush(v),
         values' \in [Vars -> Int], stale' = stale
  PROVE  EngineInv'
  <1>1. /\ toVisit = {} /\ stack = <<>> /\ toVisit' = {v} /\ visited' = {}
        /\ stack' = <<>> /\ thrown' = thrown /\ DOMAIN stack = {}
    BY DEF Idle, BeginPush
  <1>2. EngineTypeOK'
    BY <1>1 DEF EngineInv, EngineTypeOK
  <1>3. StaleClosed'
    BY <1>1 DEF EngineInv, StaleClosed, Targets
  <1> QED BY <1>1, <1>2, <1>3 DEF EngineInv, ComputedFromFresh

LEMMA BeginPullKeeps ==
  ASSUME EngineInv, Idle, NEW v \in Vars, BeginPull(v)
  PROVE  EngineInv'
  <1>1. /\ v \in stale /\ stack' = <<Frame(v)>> /\ thrown' = FALSE
        /\ UNCHANGED <<values, stale, toVisit, visited>>
        /\ toVisit = {}
    BY DEF BeginPull, Idle, store, push
  <1>2. Frame(v) \in Frames
    BY NewFrame
  <1>3. FrameOK(Frame(v))
    BY NewFrame
  <1>4. /\ <<Frame(v)>> \in Seq(Frames) /\ Len(<<Frame(v)>>) = 1
        /\ DOMAIN <<Frame(v)>> = {1} /\ <<Frame(v)>>[1] = Frame(v)
    BY <1>2
  <1>5. EngineTypeOK'
    BY <1>1, <1>3, <1>4 DEF EngineInv, EngineTypeOK, FrameOK, Frames
  <1>6. ComputedFromFresh'
    <2>1. FrameSound(1)'
      BY <1>1, <1>4 DEF FrameSound, Frame
    <2> QED BY <2>1, <1>1, <1>4 DEF ComputedFromFresh
  <1>7. \A k \in DOMAIN stack' : SeenFresh(k)'
    BY <1>1, <1>4 DEF SeenFresh, Frame
  <1>8. StaleClosed'
    BY <1>1 DEF EngineInv, StaleClosed, Targets
  <1> QED BY <1>1, <1>5, <1>6, <1>7, <1>8 DEF EngineInv

(***************************************************************************)
(* The three shapes of a step of a pull, first for any two stacks: a frame *)
(* that stays on top ...                                                   *)
(***************************************************************************)
Sound(s, S, k) ==
  /\ s[k].var \in S
  /\ \A j \in DOMAIN s : j # k => s[j].var # s[k].var
  /\ k < Len(s) => /\ s[k].pass = "sources"
                   /\ s[k + 1].var \in Sources(s[k].var)
  /\ s[k].pass = "edges" => Sources(s[k].var) \cap S = {}

Seen(s, S, k) ==
  s[k].pass = "sources" =>
    \A i \in 1 .. s[k].next - 1 :
      Incoming[s[k].var][i].source \in S =>
        k < Len(s) /\ s[k + 1].var = Incoming[s[k].var][i].source

WellStacked(s, S) == \A k \in DOMAIN s : Sound(s, S, k) /\ Seen(s, S, k)

LEMMA WellStackedNow ==
  (ComputedFromFresh /\ \A k \in DOMAIN stack : SeenFresh(k))
    <=> WellStacked(stack, stale)
  <1>1. \A k : FrameSound(k) <=> Sound(stack, stale, k)
    BY DEF FrameSound, Sound
  <1>2. \A k : SeenFresh(k) <=> Seen(stack, stale, k)
    BY DEF SeenFresh, Seen
  <1> QED BY <1>1, <1>2 DEF ComputedFromFresh, WellStacked

LEMMA WellStackedNext ==
  WellStacked(stack', stale') =>
    (ComputedFromFresh /\ \A k \in DOMAIN stack : SeenFresh(k))'
  <1>1. \A k : Sound(stack', stale', k) => FrameSound(k)'
    BY DEF FrameSound, Sound, Sources
  <1>2. \A k : Seen(stack', stale', k) => SeenFresh(k)'
    BY DEF SeenFresh, Seen
  <1> QED BY <1>1, <1>2 DEF ComputedFromFresh, WellStacked

LEMMA ReplacedStack ==
  ASSUME NEW n \in Nat \ {0}, NEW S,
         NEW s, Len(s) = n, DOMAIN s = 1 .. n, WellStacked(s, S),
         NEW t, Len(t) = n, DOMAIN t = 1 .. n,
         \A k \in 1 .. n - 1 : t[k] = s[k],
         t[n].var = s[n].var,
         t[n].pass = "edges" => Sources(t[n].var) \cap S = {},
         t[n].pass = "sources" =>
           \A i \in 1 .. t[n].next - 1 : Incoming[t[n].var][i].source \notin S
  PROVE  WellStacked(t, S)
  <1>1. \A k \in 1 .. n : t[k].var = s[k].var
    OBVIOUS
  <1> SUFFICES ASSUME NEW k \in 1 .. n
               PROVE  Sound(t, S, k) /\ Seen(t, S, k)
    BY DEF WellStacked
  <1>2. Sound(s, S, k) /\ Seen(s, S, k)
    BY DEF WellStacked
  <1>3. CASE k = n
    BY <1>1, <1>2, <1>3 DEF Sound, Seen
  <1>4. CASE k \in 1 .. n - 1
    <2>1. t[k] = s[k] /\ t[k + 1].var = s[k + 1].var
      BY <1>1, <1>4
    <2>2. Sound(t, S, k)
      BY <2>1, <1>1, <1>2 DEF Sound
    <2>3. Seen(t, S, k)
      BY <2>1, <1>2 DEF Seen
    <2> QED BY <2>2, <2>3
  <1> QED BY <1>3, <1>4

(***************************************************************************)
(* ... one that waits for a source of its own, at its position i ...       *)
(***************************************************************************)
IsPush(s, S, t, n, i) ==
  /\ Len(s) = n /\ DOMAIN s = 1 .. n /\ WellStacked(s, S)
  /\ Len(t) = n + 1 /\ DOMAIN t = 1 .. n + 1
  /\ \A k \in 1 .. n - 1 : t[k] = s[k]
  /\ s[n].pass = "sources" /\ t[n].pass = "sources" /\ t[n].var = s[n].var
  /\ s[n].next = i /\ t[n].next = i + 1
  /\ t[n + 1].pass = "sources" /\ t[n + 1].next = 1
  /\ t[n + 1].var = Incoming[t[n].var][i].source
  /\ t[n + 1].var \in S /\ t[n + 1].var \in Sources(t[n].var)
  /\ \A k \in 1 .. n : s[k].var # t[n + 1].var

LEMMA PushedStack ==
  ASSUME NEW n \in Nat \ {0}, NEW S, NEW s, NEW t, NEW i \in Nat,
         IsPush(s, S, t, n, i)
  PROVE  WellStacked(t, S)
  <1> USE DEF IsPush
  <1>1. \A k \in 1 .. n : t[k].var = s[k].var
    OBVIOUS
  <1>2. \A k \in 1 .. n : Sound(s, S, k) /\ Seen(s, S, k)
    BY DEF WellStacked
  <1>3. \A j, k \in 1 .. n + 1 : j # k => t[j].var # t[k].var
    <2>1. \A j, k \in 1 .. n : j # k => s[j].var # s[k].var
      BY <1>2 DEF Sound
    <2>2. \A j \in 1 .. n : t[j].var # t[n + 1].var
      BY <1>1
    <2>3. \A j, k \in 1 .. n : j # k => t[j].var # t[k].var
      BY <1>1, <2>1
    <2> SUFFICES ASSUME NEW j \in 1 .. n + 1, NEW k \in 1 .. n + 1, j # k
                 PROVE  t[j].var # t[k].var
      OBVIOUS
    <2>4. CASE j = n + 1 \/ k = n + 1
      BY <2>2, <2>4
    <2>5. CASE j \in 1 .. n /\ k \in 1 .. n
      BY <2>3, <2>5
    <2> QED BY <2>4, <2>5
  <1> SUFFICES ASSUME NEW k \in 1 .. n + 1
               PROVE  Sound(t, S, k) /\ Seen(t, S, k)
    BY DEF WellStacked
  <1>4. CASE k = n + 1
    BY <1>3, <1>4 DEF Sound, Seen
  <1>5. CASE k = n
    <2>1. Sound(t, S, k)
      BY <1>1, <1>2, <1>3, <1>5 DEF Sound
    <2>2. \A j \in 1 .. i - 1 : Incoming[t[n].var][j].source \notin S
      BY <1>2 DEF Seen
    <2>3. Seen(t, S, k)
      BY <2>2, <1>5 DEF Seen
    <2> QED BY <2>1, <2>3
  <1>6. CASE k \in 1 .. n - 1
    <2>1. t[k] = s[k] /\ t[k + 1].var = s[k + 1].var
      BY <1>1, <1>6
    <2>2. Sound(t, S, k)
      BY <2>1, <1>2, <1>3, <1>6 DEF Sound
    <2>3. Seen(t, S, k)
      BY <2>1, <1>2, <1>6 DEF Seen
    <2> QED BY <2>2, <2>3
  <1> QED BY <1>4, <1>5, <1>6

(***************************************************************************)
(* ... and one that is done.                                               *)
(***************************************************************************)
LEMMA PoppedStack ==
  ASSUME NEW n \in Nat \ {0}, NEW S,
         NEW s, Len(s) = n, DOMAIN s = 1 .. n, WellStacked(s, S),
         NEW t, Len(t) = n - 1, DOMAIN t = 1 .. n - 1,
         \A k \in 1 .. n - 1 : t[k] = s[k]
  PROVE  WellStacked(t, S \ {s[n].var})
  <1>2. \A k \in 1 .. n : Sound(s, S, k) /\ Seen(s, S, k)
    BY DEF WellStacked
  <1> SUFFICES ASSUME NEW k \in 1 .. n - 1
               PROVE  /\ Sound(t, S \ {s[n].var}, k)
                      /\ Seen(t, S \ {s[n].var}, k)
    BY DEF WellStacked
  <1>3. t[k] = s[k] /\ s[k].var # s[n].var
    BY <1>2 DEF Sound
  <1>4. Sound(t, S \ {s[n].var}, k)
    BY <1>2, <1>3 DEF Sound
  <1>5. Seen(t, S \ {s[n].var}, k)
    <2> SUFFICES ASSUME t[k].pass = "sources",
                        NEW i \in 1 .. t[k].next - 1,
                        Incoming[t[k].var][i].source \in S \ {s[n].var}
                 PROVE  /\ k < Len(t)
                        /\ t[k + 1].var = Incoming[t[k].var][i].source
      BY DEF Seen
    <2>1. s[k + 1].var = Incoming[s[k].var][i].source
      BY <1>2, <1>3 DEF Seen
    <2>2. k + 1 # n
      BY <2>1, <1>3
    <2>3. k + 1 \in 1 .. n - 1
      BY <2>2
    <2> QED BY <2>1, <2>3, <1>3
  <1> QED BY <1>4, <1>5

(***************************************************************************)
(* The steps of a pull.                                                    *)
(***************************************************************************)
LEMMA TopReplacedKeeps ==
  ASSUME EngineInv, stack # <<>>, stack' # <<>>,
         stack' \in Seq(Frames), Len(stack') = Len(stack),
         \A k \in 1 .. Len(stack) - 1 : stack'[k] = stack[k],
         NEW f, stack'[Len(stack)] = f, FrameOK(f), f.var = Top.var,
         f.pass = "edges" => Sources(f.var) \cap stale = {},
         f.pass = "sources" =>
           \A i \in 1 .. f.next - 1 : Incoming[f.var][i].source \notin stale,
         UNCHANGED <<store, push, thrown>>
  PROVE  EngineInv'
  <1>1. /\ UNCHANGED <<values, stale, toVisit, visited, thrown>>
        /\ toVisit = {}
    BY InvTop DEF store, push
  <1>2. PICK n \in Nat \ {0} : n = Len(stack)
    BY InvTop
  <1>3. PICK t : t = stack'
    OBVIOUS
  <1>4. /\ DOMAIN stack = 1 .. n /\ stack[n] = Top
        /\ WellStacked(stack, stale)
    BY <1>2, InvTop, WellStackedNow DEF EngineInv
  <1>5. /\ t \in Seq(Frames) /\ Len(t) = n /\ DOMAIN t = 1 .. n
        /\ t[n] = f /\ \A k \in 1 .. n - 1 : t[k] = stack[k]
    BY <1>2, <1>3
  <1>6. WellStacked(t, stale)
    <2>1. /\ t[n].var = stack[n].var
          /\ t[n].pass = "edges" => Sources(t[n].var) \cap stale = {}
          /\ t[n].pass = "sources" =>
               \A i \in 1 .. t[n].next - 1 :
                 Incoming[t[n].var][i].source \notin stale
      BY <1>4, <1>5
    <2>2. Len(stack) = n
      BY <1>2
    <2> QED BY <1>4, <1>5, <2>1, <2>2, ReplacedStack, Zenon
  <1>7. \A k \in DOMAIN t : FrameOK(t[k])
    BY <1>4, <1>5 DEF EngineInv, EngineTypeOK
  <1>8. EngineTypeOK'
    BY <1>1, <1>3, <1>5, <1>7 DEF EngineInv, EngineTypeOK, FrameOK, Frames
  <1>9. StaleClosed'
    BY <1>1 DEF EngineInv, StaleClosed, Targets
  <1> QED BY <1>1, <1>3, <1>6, <1>8, <1>9, WellStackedNext DEF EngineInv

\* What is known of the edge a frame is at.
LEMMA EdgeAtTop ==
  ASSUME EngineInv, stack # <<>>, EdgesLeft
  PROVE  /\ Edge.source \in Vars
         /\ Edge.fn \in Functions
         /\ Edge.weight \in Int
         /\ Edge.source \in Sources(Top.var)
         /\ Edge.source = Incoming[Top.var][Top.next].source
         /\ Top.next \in 1 .. Len(Incoming[Top.var])
         /\ Top.var \in Vars
  <1>1. Top \in Frames /\ FrameOK(Top)
    BY InvTop
  <1>2. Top.var \in Vars /\ Top.next \in 1 .. Len(Incoming[Top.var])
    BY <1>1, GraphFacts DEF EdgesLeft, FrameOK, Frames
  <1> QED BY <1>2, EdgeOK DEF Edge

\* The sources a frame has passed are clean while it is on top.
LEMMA PassedSources ==
  ASSUME EngineInv, stack # <<>>, Top.pass = "sources",
         NEW i \in 1 .. Top.next - 1
  PROVE  Incoming[Top.var][i].source \notin stale
  <1>1. SeenFresh(Len(stack)) /\ Top = stack[Len(stack)] /\ Len(stack) \in Nat
    BY InvTop
  <1> QED BY <1>1 DEF SeenFresh

LEMMA DescendKeeps ==
  ASSUME EngineInv, Descend
  PROVE  EngineInv'
  <1> DEFINE f == Passed(Top)
             g == Frame(Edge.source)
  <1>1. /\ stack # <<>> /\ Top.pass = "sources" /\ EdgesLeft
        /\ UNCHANGED <<store, push, thrown>>
    BY DEF Descend
  <1>2. stack \in Seq(Frames) /\ Top \in Frames /\ FrameOK(Top)
    BY <1>1, InvTop
  <1>3. /\ Edge.source \in Vars
        /\ Edge.source \in Sources(Top.var)
        /\ Edge.source = Incoming[Top.var][Top.next].source
        /\ Top.next \in 1 .. Len(Incoming[Top.var])
        /\ Top.var \in Vars
    BY <1>1, EdgeAtTop
  <1>4. /\ f \in Frames /\ f.var = Top.var /\ f.pass = "sources"
        /\ f.next = Top.next + 1 /\ FrameOK(f)
    <2>1. /\ f \in Frames /\ f.var = Top.var /\ f.pass = "sources"
          /\ f.next = Top.next + 1
      BY <1>1, <1>2, FrameChanges
    <2>2. Top.next + 1 \in 1 .. Len(Incoming[Top.var]) + 1
      BY <1>3, GraphFacts
    <2> QED BY <2>1, <2>2, FrameFits
  <1>5. /\ g \in Frames /\ g.var = Edge.source /\ g.pass = "sources"
        /\ g.next = 1 /\ FrameOK(g)
    BY <1>3, NewFrame
  <1>6. \/ Edge.source \notin stale /\ stack' = Append(Below, f)
        \/ /\ Edge.source \in stale \ Active
           /\ stack' = Append(Append(Below, f), g)
    BY DEF Descend, Passed
  <1> HIDE DEF f, g
  <1>7. CASE Edge.source \notin stale /\ stack' = Append(Below, f)
    <2>1. /\ stack' \in Seq(Frames) /\ stack' # <<>> /\ Len(stack') = Len(stack)
          /\ stack'[Len(stack)] = f
          /\ \A k \in 1 .. Len(stack) - 1 : stack'[k] = stack[k]
      BY <1>1, <1>2, <1>4, <1>7, TopReplaced
    <2>2. \A i \in 1 .. f.next - 1 : Incoming[f.var][i].source \notin stale
      BY <1>1, <1>3, <1>4, <1>7, PassedSources
    <2> QED BY <2>1, <2>2, <1>1, <1>4, TopReplacedKeeps
  <1>8. CASE /\ Edge.source \in stale \ Active
             /\ stack' = Append(Append(Below, f), g)
    <2>1. /\ UNCHANGED <<values, stale, toVisit, visited, thrown>>
          /\ toVisit = {}
      BY <1>1, InvTop DEF store, push
    <2>2. PICK n \in Nat \ {0} : n = Len(stack)
      BY <1>1, InvTop
    <2>3. PICK t : t = stack'
      OBVIOUS
    <2>4. /\ DOMAIN stack = 1 .. n /\ stack[n] = Top
          /\ WellStacked(stack, stale)
      BY <1>1, <2>2, InvTop, WellStackedNow DEF EngineInv
    <2>5. /\ t \in Seq(Frames) /\ t # <<>> /\ Len(t) = n + 1
          /\ DOMAIN t = 1 .. n + 1 /\ t[n] = f /\ t[n + 1] = g
          /\ \A k \in 1 .. n - 1 : t[k] = stack[k]
      BY <1>1, <1>2, <1>4, <1>5, <1>8, <2>2, <2>3, FramePushed
    <2>6. WellStacked(t, stale)
      <3>1. \A k \in 1 .. n : stack[k].var # t[n + 1].var
        BY <1>5, <1>8, <2>4, <2>5 DEF Active
      <3>2. t[n + 1].var = Incoming[t[n].var][Top.next].source
        BY <1>3, <1>4, <1>5, <2>5
      <3>3. PICK i \in Nat : i = Top.next
        BY <1>3, GraphFacts
      <3>4. /\ stack[n].pass = "sources" /\ stack[n].next = i
            /\ t[n].pass = "sources" /\ t[n].next = i + 1
            /\ t[n].var = stack[n].var
        BY <1>1, <1>4, <2>4, <2>5, <3>3
      <3>5. /\ t[n + 1].pass = "sources" /\ t[n + 1].next = 1
            /\ t[n + 1].var = Incoming[t[n].var][i].source
            /\ t[n + 1].var \in stale /\ t[n + 1].var \in Sources(t[n].var)
        BY <1>3, <1>4, <1>5, <1>8, <2>5, <3>2, <3>3
      <3>6. Len(stack) = n
        BY <2>2
      <3>7. IsPush(stack, stale, t, n, i)
        BY <2>4, <2>5, <3>1, <3>4, <3>5, <3>6 DEF IsPush
      <3> QED BY <3>3, <3>7, PushedStack
    <2>7. \A k \in DOMAIN t : FrameOK(t[k])
      <3>1. \A k \in 1 .. n - 1 : FrameOK(t[k])
        <4>1. \A k \in 1 .. n : FrameOK(stack[k])
          BY <2>4 DEF EngineInv, EngineTypeOK
        <4>2. \A k \in 1 .. n - 1 : t[k] = stack[k] /\ k \in 1 .. n
          BY <2>5
        <4> QED BY <4>1, <4>2
      <3>2. FrameOK(t[n]) /\ FrameOK(t[n + 1])
        BY <1>4, <1>5, <2>5
      <3>3. \A k \in 1 .. n + 1 : k \in 1 .. n - 1 \/ k = n \/ k = n + 1
        OBVIOUS
      <3> QED BY <2>5, <3>1, <3>2, <3>3, Zenon
    <2>8. EngineTypeOK'
      BY <2>1, <2>3, <2>5, <2>7 DEF EngineInv, EngineTypeOK, FrameOK, Frames
    <2>9. StaleClosed'
      BY <2>1 DEF EngineInv, StaleClosed, Targets
    <2> QED BY <2>1, <2>3, <2>6, <2>8, <2>9, WellStackedNext DEF EngineInv
  <1> QED BY <1>6, <1>7, <1>8

LEMMA CycleDetectedKeeps ==
  ASSUME EngineInv, CycleDetected
  PROVE  EngineInv'
  <1>1. /\ stack' = <<>> /\ thrown' = TRUE
        /\ UNCHANGED <<values, stale, toVisit, visited>>
        /\ toVisit = {}
    BY InvTop DEF CycleDetected, store, push
  <1>2. stack' \in Seq(Frames) /\ DOMAIN stack' = {}
    BY <1>1
  <1>3. EngineTypeOK'
    BY <1>1, <1>2 DEF EngineInv, EngineTypeOK, Frames
  <1>4. StaleClosed'
    BY <1>1 DEF EngineInv, StaleClosed, Targets
  <1> QED BY <1>1, <1>2, <1>3, <1>4 DEF EngineInv, ComputedFromFresh

LEMMA SourcesDoneKeeps ==
  ASSUME EngineInv, SourcesDone
  PROVE  EngineInv'
  <1> DEFINE f == Ready(Top, Numeric(Top.var))
  <1>1. /\ stack # <<>> /\ Top.pass = "sources" /\ ~EdgesLeft
        /\ stack' = Append(Below, f) /\ UNCHANGED <<store, push, thrown>>
    BY DEF SourcesDone, Ready
  <1>2. stack \in Seq(Frames) /\ Top \in Frames /\ FrameOK(Top)
    BY <1>1, InvTop
  <1>3. Top.var \in Vars /\ Numeric(Top.var) \in Int
    BY <1>2, NumericInt DEF EngineInv, EngineTypeOK, Frames
  <1>4. /\ f \in Frames /\ f.var = Top.var /\ f.pass = "edges" /\ FrameOK(f)
    <2>1. /\ f \in Frames /\ f.var = Top.var /\ f.pass = "edges" /\ f.next = 1
      BY <1>2, <1>3, FrameChanges
    <2>2. 1 \in 1 .. Len(Incoming[Top.var]) + 1
      BY <1>3, GraphFacts
    <2> QED BY <2>1, <2>2, FrameFits
  <1> HIDE DEF f
  <1>5. /\ stack' \in Seq(Frames) /\ stack' # <<>> /\ Len(stack') = Len(stack)
        /\ stack'[Len(stack)] = f
        /\ \A k \in 1 .. Len(stack) - 1 : stack'[k] = stack[k]
    BY <1>1, <1>2, <1>4, TopReplaced
  <1>6. Sources(f.var) \cap stale = {}
    <2> SUFFICES ASSUME NEW u \in Sources(Top.var)
                 PROVE  u \notin stale
      BY <1>4
    <2>1. PICK k \in 1 .. Len(Incoming[Top.var]) :
            u = Incoming[Top.var][k].source
      BY <1>3, SourcesIndexed
    <2>2. k \in 1 .. Top.next - 1
      BY <2>1, <1>1, <1>2, <1>3, GraphFacts DEF EdgesLeft, FrameOK
    <2> QED BY <2>1, <2>2, <1>1, PassedSources
  <1> QED BY <1>1, <1>4, <1>5, <1>6, TopReplacedKeeps

LEMMA CombineEdgeKeeps ==
  ASSUME EngineInv, CombineEdge
  PROVE  EngineInv'
  <1> DEFINE x == Combine(Edge.fn, Top.acc, Numeric(Edge.source), Edge.weight)
             f == Moved(Top, x)
  <1>1. /\ stack # <<>> /\ Top.pass = "edges" /\ EdgesLeft
        /\ UNCHANGED <<store, push, thrown>>
        /\ stack' = Append(Below, f)
    BY DEF CombineEdge, Moved
  <1>2. /\ stack \in Seq(Frames) /\ Top \in Frames /\ FrameOK(Top)
        /\ Top = stack[Len(stack)] /\ FrameSound(Len(stack))
    BY <1>1, InvTop
  <1>3. /\ Edge.source \in Vars /\ Edge.fn \in Functions /\ Edge.weight \in Int
        /\ Top.next \in 1 .. Len(Incoming[Top.var]) /\ Top.var \in Vars
    BY <1>1, EdgeAtTop
  <1>4. x \in Int
    <2>1. Numeric(Edge.source) \in Int /\ Top.acc \in Int
      BY <1>2, <1>3, NumericInt DEF EngineInv, EngineTypeOK, Frames
    <2> QED BY <2>1, <1>3, CombineInt
  <1> HIDE DEF x
  <1>5. /\ f \in Frames /\ f.var = Top.var /\ f.pass = "edges" /\ FrameOK(f)
    <2>1. /\ f \in Frames /\ f.var = Top.var /\ f.pass = Top.pass
          /\ f.next = Top.next + 1
      BY <1>2, <1>4, FrameChanges
    <2>2. Top.next + 1 \in 1 .. Len(Incoming[Top.var]) + 1
      BY <1>3, GraphFacts
    <2>3. Top.pass = "edges"
      BY <1>1
    <2> QED BY <2>1, <2>2, <2>3, FrameFits
  <1> HIDE DEF f
  <1>6. /\ stack' \in Seq(Frames) /\ stack' # <<>> /\ Len(stack') = Len(stack)
        /\ stack'[Len(stack)] = f
        /\ \A k \in 1 .. Len(stack) - 1 : stack'[k] = stack[k]
    BY <1>1, <1>2, <1>5, TopReplaced
  <1>7. Sources(f.var) \cap stale = {}
    BY <1>1, <1>2, <1>5 DEF FrameSound
  <1> QED BY <1>1, <1>5, <1>6, <1>7, TopReplacedKeeps

\* A variable becomes clean when no source of it is stale; its dependents are
\* all stale still, for the graph of a clean variable's sources is clean.
LEMMA FinishVariableKeeps ==
  ASSUME EngineInv, FinishVariable
  PROVE  EngineInv'
  <1>1. /\ stack # <<>> /\ Top.pass = "edges"
        /\ stale' = stale \ {Top.var} /\ stack' = Below
        /\ UNCHANGED <<toVisit, visited, thrown>>
    BY DEF FinishVariable, push
  <1>2. /\ stack \in Seq(Frames) /\ Top \in Frames
        /\ Top = stack[Len(stack)] /\ FrameSound(Len(stack)) /\ toVisit = {}
    BY <1>1, InvTop
  <1>3. PICK n \in Nat \ {0} : n = Len(stack)
    BY <1>1, InvTop
  <1>4. PICK t : t = stack'
    OBVIOUS
  <1>5. /\ DOMAIN stack = 1 .. n /\ stack[n] = Top
        /\ WellStacked(stack, stale)
    BY <1>1, <1>3, InvTop, WellStackedNow DEF EngineInv
  <1>6. /\ t \in Seq(Frames) /\ Len(t) = n - 1 /\ DOMAIN t = 1 .. n - 1
        /\ \A k \in 1 .. n - 1 : t[k] = stack[k]
    BY <1>1, <1>2, <1>3, <1>4, StackTop
  <1>7. WellStacked(t, stale \ {Top.var})
    BY <1>3, <1>5, <1>6, PoppedStack
  <1>8. values' \in [Vars -> Int]
    <2>1. values \in [Vars -> Int] /\ Top.acc \in Int
      BY <1>2 DEF EngineInv, EngineTypeOK, Frames
    <2>2. Stored(Top.var, Top.acc) \in Int
      BY <2>1, StoredInt
    <2> QED BY <2>1, <2>2 DEF FinishVariable
  <1>9. \A k \in DOMAIN t : FrameOK(t[k])
    BY <1>5, <1>6 DEF EngineInv, EngineTypeOK
  <1>10. EngineTypeOK'
    BY <1>1, <1>2, <1>4, <1>6, <1>8, <1>9
       DEF EngineInv, EngineTypeOK, FrameOK, Frames
  <1>11. StaleClosed'
    <2> SUFFICES ASSUME NEW u \in stale', NEW v \in Targets(u)
                 PROVE  v \in stale'
      BY DEF StaleClosed, Targets
    <2>1. v \in stale
      BY <1>1, <1>2 DEF EngineInv, StaleClosed
    <2>2. Sources(Top.var) \cap stale = {}
      BY <1>1, <1>2 DEF FrameSound
    <2>3. v # Top.var
      BY <2>2, <1>1, GraphFacts
    <2> QED BY <2>1, <2>3, <1>1
  <1> QED BY <1>1, <1>2, <1>4, <1>7, <1>10, <1>11, WellStackedNext DEF EngineInv

LEMMA EngineStepKeeps ==
  ASSUME EngineInv, EngineStep
  PROVE  EngineInv'
  BY VisitKeeps, DescendKeeps, CycleDetectedKeeps, SourcesDoneKeeps,
     CombineEdgeKeeps, FinishVariableKeeps DEF EngineStep, PullStep

LEMMA EngineUnchanged ==
  ASSUME EngineInv, UNCHANGED engine
  PROVE  EngineInv'
  <1>1. UNCHANGED <<values, stale, toVisit, visited, stack, thrown>>
    BY DEF engine
  <1>2. EngineTypeOK'
    BY <1>1 DEF EngineInv, EngineTypeOK, FrameOK
  <1>3. StaleClosed'
    BY <1>1 DEF EngineInv, StaleClosed, Targets, Sources
  <1>4. (ComputedFromFresh /\ \A k \in DOMAIN stack : SeenFresh(k))'
    BY <1>1, WellStackedNow, WellStackedNext DEF EngineInv
  <1> QED BY <1>1, <1>2, <1>3, <1>4 DEF EngineInv

-----------------------------------------------------------------------------
(***************************************************************************)
(* CleanMeansConsistent is inductive together with EngineInv and with what *)
(* a frame has computed when it has combined its last edge.                *)
(***************************************************************************)
Last(v) == Incoming[v][Len(Incoming[v])]

Follows(v) ==
  Len(Incoming[v]) > 0 /\ Last(v).fn = "linear_scale" /\ Kind[v] # "text"

Consistent(v) ==
  \/ Last(v).source \in stale \cup toVisit
  \/ values[v] = Stored(v, Numeric(Last(v).source) * Last(v).weight)
  \/ /\ values[v] = InitialValue[v]
     /\ values[Last(v).source] = InitialValue[Last(v).source]

Combined ==
  (stack # <<>> /\ Top.pass = "edges" /\ ~EdgesLeft /\ Follows(Top.var)) =>
    Top.acc = Numeric(Last(Top.var).source) * Last(Top.var).weight

ConsistentInv == CleanMeansConsistent /\ Combined

LEMMA CleanUnfolded ==
  CleanMeansConsistent <=>
    \A v \in Vars \ (stale \cup toVisit) : Follows(v) => Consistent(v)
  BY DEF CleanMeansConsistent, Follows, Consistent, Last

LEMMA CleanUnfoldedNext ==
  CleanMeansConsistent' <=>
    \A v \in Vars \ (stale' \cup toVisit') : Follows(v) => Consistent(v)'
  BY DEF CleanMeansConsistent, Follows, Consistent, Last, Stored

LEMMA LastOK ==
  ASSUME NEW v \in Vars, Follows(v)
  PROVE  /\ Last(v).source \in Sources(v)
         /\ Last(v).source \in Vars
         /\ Last(v).weight \in Int
  <1>1. Len(Incoming[v]) \in 1 .. Len(Incoming[v])
    BY GraphFacts DEF Follows
  <1> QED BY <1>1, EdgeOK DEF Last

\* Values do not change and the marked variables stay marked.
LEMMA MarkingKeepsConsistent ==
  ASSUME CleanMeansConsistent, values' = values,
         stale \cup toVisit \subseteq stale' \cup toVisit'
  PROVE  CleanMeansConsistent'
  <1> SUFFICES ASSUME NEW v \in Vars \ (stale' \cup toVisit'), Follows(v)
               PROVE  Consistent(v)'
    BY CleanUnfoldedNext
  <1>1. Consistent(v)
    BY CleanUnfolded
  <1> QED BY <1>1 DEF Consistent, Numeric, Stored

\* A write marks what it changes.
LEMMA WritingKeepsConsistent ==
  ASSUME CleanMeansConsistent, NEW v \in Vars, NEW x,
         values' = [values EXCEPT ![v] = x], values \in [Vars -> Int],
         v \in stale' \cup toVisit',
         stale \cup toVisit \subseteq stale' \cup toVisit'
  PROVE  CleanMeansConsistent'
  <1> SUFFICES ASSUME NEW w \in Vars \ (stale' \cup toVisit'), Follows(w)
               PROVE  Consistent(w)'
    BY CleanUnfoldedNext
  <1>1. Consistent(w) /\ Last(w).source \in Vars
    BY CleanUnfolded, LastOK
  <1>2. CASE Last(w).source = v
    BY <1>2 DEF Consistent
  <1>3. CASE Last(w).source # v
    <2>1. values'[w] = values[w] /\ values'[Last(w).source] = values[Last(w).source]
      BY <1>1, <1>3
    <2> QED BY <2>1, <1>1 DEF Consistent, Numeric, Stored
  <1> QED BY <1>2, <1>3

LEMMA PullBeginKeepsConsistent ==
  ASSUME EngineInv, ConsistentInv, NEW v, Idle, BeginPull(v)
  PROVE  ConsistentInv'
  <1>1. UNCHANGED <<values, stale, toVisit>> /\ stack' = <<Frame(v)>>
    BY DEF BeginPull, store, push
  <1>2. Len(<<Frame(v)>>) = 1 /\ <<Frame(v)>>[1].pass = "sources"
    BY DEF Frame
  <1>3. Combined'
    BY <1>1, <1>2 DEF Combined, Top
  <1> QED BY <1>1, <1>3, MarkingKeepsConsistent DEF ConsistentInv

LEMMA NoFrameCombined ==
  ASSUME stack' = <<>>
  PROVE  Combined'
  BY DEF Combined

LEMMA TopNext ==
  ASSUME stack \in Seq(Frames), stack # <<>>, NEW f \in Frames,
         stack' = Append(Below, f)
  PROVE  Top' = f
  BY TopReplaced DEF Top

LEMMA FinishVariableKeepsConsistent ==
  ASSUME EngineInv, ConsistentInv, FinishVariable
  PROVE  ConsistentInv'
  <1>1. /\ stack # <<>> /\ Top.pass = "edges" /\ ~EdgesLeft
        /\ values' = IF Incoming[Top.var] = <<>> \/ Kind[Top.var] = "text"
                     THEN values
                     ELSE [values EXCEPT ![Top.var] = Stored(Top.var, Top.acc)]
        /\ stale' = stale \ {Top.var} /\ stack' = Below /\ toVisit' = toVisit
    BY DEF FinishVariable, push
  <1>2. /\ stack \in Seq(Frames) /\ Top \in Frames /\ toVisit = {}
        /\ Top = stack[Len(stack)] /\ FrameSound(Len(stack))
        /\ Top.var \in stale
    BY <1>1, InvTop
  <1>3. Top.var \in Vars /\ values \in [Vars -> Int]
    BY <1>2 DEF EngineInv, EngineTypeOK, Frames
  <1>4. Sources(Top.var) \cap stale = {}
    BY <1>1, <1>2 DEF FrameSound
  <1>5. \A w \in Vars \ {Top.var} : values'[w] = values[w]
    BY <1>1, <1>3
  <1>6. Combined'
    <2>1. CASE Len(stack) = 1
      <3>1. Below = <<>>
        BY <2>1, <1>1, <1>2, StackTop, EmptySeq
      <3> QED BY <3>1, <1>1, NoFrameCombined
    <2>2. CASE Len(stack) # 1
      <3>1. PICK n \in Nat : n = Len(stack) /\ n > 1
        <4>1. PICK n \in Nat \ {0} : n = Len(stack)
          BY <1>1, InvTop
        <4>2. n > 1
          BY <4>1, <2>2
        <4> QED BY <4>1, <4>2
      <3>2. Top' = stack[n - 1]
        BY <3>1, <1>1, <1>2, StackTop DEF Top
      <3>3. stack[n - 1].pass = "sources"
        BY <3>1, <1>1, InvTop
      <3> QED BY <3>2, <3>3 DEF Combined
    <2> QED BY <2>1, <2>2
  <1>7. CleanMeansConsistent'
    <2> SUFFICES ASSUME NEW v \in Vars \ stale', Follows(v)
                 PROVE  Consistent(v)'
      BY CleanUnfoldedNext
    <2>1. Last(v).source \in Sources(v) /\ Last(v).source \in Vars
      BY LastOK
    <2>2. CASE v = Top.var
      <3>1. Incoming[v] # <<>> /\ Kind[v] # "text"
        BY GraphFacts DEF Follows
      <3>2. values'[v] = Stored(v, Top.acc)
        BY <3>1, <2>2, <1>1, <1>3
      <3>3. Top.acc = Numeric(Last(v).source) * Last(v).weight
        BY <2>2, <1>1 DEF ConsistentInv, Combined
      <3>4. Last(v).source # v
        BY <2>1, <2>2, <1>2, <1>4
      <3>5. Numeric(Last(v).source)' = Numeric(Last(v).source)
        BY <3>4, <2>1, <2>2, <1>5 DEF Numeric
      <3> QED BY <3>2, <3>3, <3>5 DEF Consistent, Stored
    <2>3. CASE v # Top.var
      <3>1. v \notin stale /\ Consistent(v)
        BY <2>3, <1>1, <1>2, CleanUnfolded DEF ConsistentInv
      <3>2. Last(v).source # Top.var
        BY <3>1, <2>1, <1>2, GraphFacts DEF EngineInv, StaleClosed
      <3>3. /\ values'[v] = values[v]
            /\ values'[Last(v).source] = values[Last(v).source]
        BY <3>2, <2>1, <2>3, <1>5
      <3> QED BY <3>1, <3>2, <3>3, <1>1, <1>2 DEF Consistent, Numeric, Stored
    <2> QED BY <2>2, <2>3
  <1> QED BY <1>6, <1>7 DEF ConsistentInv

LEMMA EngineStepKeepsConsistent ==
  ASSUME EngineInv, ConsistentInv, EngineStep
  PROVE  ConsistentInv'
  <1>1. CASE Visit
    <2>1. /\ stack' = <<>> /\ values' = values
          /\ stale \cup toVisit \subseteq stale' \cup toVisit'
      BY <1>1 DEF Visit, EngineInv, EngineTypeOK
    <2> QED BY <2>1, NoFrameCombined, MarkingKeepsConsistent DEF ConsistentInv
  <1>2. CASE Descend
    <2>1. /\ stack # <<>> /\ Top.pass = "sources"
          /\ UNCHANGED <<values, stale, toVisit>>
      BY <1>2 DEF Descend, store, push
    <2>2. Top'.pass = "sources"
      <3> DEFINE f == Passed(Top)
                 g == Frame(Edge.source)
      <3>1. stack \in Seq(Frames) /\ Top \in Frames
        BY <2>1, InvTop
      <3>2. f \in Frames /\ f.pass = "sources"
        BY <2>1, <3>1, FrameChanges
      <3>3. g \in Frames /\ g.pass = "sources"
        BY <1>2, EdgeAtTop, NewFrame DEF Descend
      <3>4. stack' = Append(Below, f) \/ stack' = Append(Append(Below, f), g)
        BY <1>2 DEF Descend, Passed
      <3> HIDE DEF f, g
      <3>5. CASE stack' = Append(Below, f)
        BY <3>5, <3>1, <3>2, <2>1, TopNext
      <3>6. CASE stack' = Append(Append(Below, f), g)
        BY <3>6, <3>1, <3>2, <3>3, <2>1, FramePushed DEF Top
      <3> QED BY <3>4, <3>5, <3>6
    <2>3. Combined'
      BY <2>2 DEF Combined
    <2> QED BY <2>1, <2>3, MarkingKeepsConsistent DEF ConsistentInv
  <1>3. CASE CycleDetected
    <2>1. stack' = <<>> /\ UNCHANGED <<values, stale, toVisit>>
      BY <1>3 DEF CycleDetected, store, push
    <2> QED BY <2>1, NoFrameCombined, MarkingKeepsConsistent DEF ConsistentInv
  <1>4. CASE SourcesDone
    <2> DEFINE f == Ready(Top, Numeric(Top.var))
    <2>1. /\ stack # <<>> /\ stack' = Append(Below, f)
          /\ UNCHANGED <<values, stale, toVisit>>
      BY <1>4 DEF SourcesDone, store, push, Ready
    <2>2. stack \in Seq(Frames) /\ Top \in Frames
      BY <2>1, InvTop
    <2>3. Numeric(Top.var) \in Int
      BY <2>2, NumericInt DEF EngineInv, EngineTypeOK, Frames
    <2>4. f \in Frames /\ f.var = Top.var /\ f.next = 1
      BY <2>2, <2>3, FrameChanges
    <2> HIDE DEF f
    <2>5. Top'.var = Top.var /\ Top'.next = 1
      BY <2>1, <2>2, <2>4, TopNext
    <2>6. Combined'
      <3>1. Top.var \in Vars
        BY <2>2 DEF Frames
      <3>2. Follows(Top.var) => 1 <= Len(Incoming[Top.var])
        BY <3>1, GraphFacts DEF Follows
      <3> QED BY <3>2, <2>5 DEF Combined, EdgesLeft, Follows, Last
    <2> QED BY <2>1, <2>6, MarkingKeepsConsistent DEF ConsistentInv
  <1>5. CASE CombineEdge
    <2> DEFINE x == Combine(Edge.fn, Top.acc, Numeric(Edge.source), Edge.weight)
               f == Moved(Top, x)
    <2>1. /\ stack # <<>> /\ stack' = Append(Below, f) /\ EdgesLeft
          /\ UNCHANGED <<values, stale, toVisit>>
      BY <1>5 DEF CombineEdge, store, push, Moved
    <2>2. stack \in Seq(Frames) /\ Top \in Frames
      BY <2>1, InvTop
    <2>3. /\ Edge.source \in Vars /\ Edge.fn \in Functions /\ Edge.weight \in Int
          /\ Top.next \in 1 .. Len(Incoming[Top.var]) /\ Top.var \in Vars
      BY <2>1, EdgeAtTop
    <2>4. Numeric(Edge.source) \in Int /\ Top.acc \in Int
      BY <2>2, <2>3, NumericInt DEF EngineInv, EngineTypeOK, Frames
    <2>5. /\ x \in Int
          /\ Edge.fn = "linear_scale" => x = Numeric(Edge.source) * Edge.weight
      BY <2>3, <2>4, CombineInt
    <2> HIDE DEF x
    <2>6. /\ f \in Frames /\ f.var = Top.var /\ f.next = Top.next + 1
          /\ f.acc = x
      BY <2>2, <2>5, FrameChanges
    <2> HIDE DEF f
    <2>7. Top' = f
      BY <2>1, <2>2, <2>6, TopNext
    <2>8. /\ Top'.var = Top.var /\ Top'.acc = x /\ Top'.next = Top.next + 1
      BY <2>6, <2>7
    <2>9. ASSUME ~EdgesLeft', Follows(Top.var)
          PROVE  x = Numeric(Last(Top.var).source) * Last(Top.var).weight
      <3>1. Top.next = Len(Incoming[Top.var])
        <4>1. PICK m \in Nat : m = Len(Incoming[Top.var])
          BY <2>3, GraphFacts
        <4>2. ~(Top.next + 1 <= m)
          BY <4>1, <2>8, <2>9 DEF EdgesLeft
        <4> QED BY <4>1, <4>2, <2>3
      <3>2. Edge = Last(Top.var)
        BY <3>1 DEF Edge, Last
      <3> QED BY <3>2, <2>5, <2>9 DEF Follows
    <2>10. Combined'
      BY <2>1, <2>8, <2>9 DEF Combined, Follows, Last, Numeric
    <2> QED BY <2>1, <2>10, MarkingKeepsConsistent DEF ConsistentInv
  <1>6. CASE FinishVariable
    BY <1>6, FinishVariableKeepsConsistent
  <1> QED BY <1>1, <1>2, <1>3, <1>4, <1>5, <1>6 DEF EngineStep, PullStep

LEMMA ConsistentUnchanged ==
  ASSUME ConsistentInv, UNCHANGED engine
  PROVE  ConsistentInv'
  <1>1. UNCHANGED <<values, stale, toVisit, stack>>
    BY DEF engine
  <1>2. Combined'
    BY <1>1 DEF ConsistentInv, Combined, Top, EdgesLeft, Numeric, Follows, Last
  <1> QED BY <1>1, <1>2, MarkingKeepsConsistent DEF ConsistentInv

(***************************************************************************)
(* The engine as a library.                                                *)
(***************************************************************************)
SavedOK ==
  /\ saved \in [values : [Vars -> Int], stale : SUBSET Vars]
  /\ \A u \in saved.stale : Targets(u) \subseteq saved.stale

LibraryInv ==
  /\ EngineInv
  /\ calls \in 0 .. MaxCalls
  /\ SavedOK

LEMMA LibraryStarts ==
  ASSUME LibraryInit
  PROVE  LibraryInv
  <1>1. EngineInv
    BY EngineStarts DEF LibraryInit
  <1>2. SavedOK
    BY GraphAssumption DEF LibraryInit, SavedOK
  <1> QED BY <1>1, <1>2, LibraryAssumption DEF LibraryInv, LibraryInit

LEMMA SavedUnchanged ==
  ASSUME SavedOK, saved' = saved
  PROVE  SavedOK'
  BY DEF SavedOK, Targets, Sources

LEMMA WriteKeeps ==
  ASSUME LibraryInv, NEW v \in Inputs, NEW x \in Amounts, Write(v, x)
  PROVE  LibraryInv'
  <1>1. v \in Vars /\ x \in Int /\ MaxCalls \in Nat
    BY LibraryAssumption
  <1>2. values' \in [Vars -> Int]
    BY <1>1, StoredInt DEF Write, LibraryInv, EngineInv, EngineTypeOK
  <1>3. EngineInv'
    BY <1>1, <1>2, BeginPushKeeps DEF Write, LibraryInv
  <1>4. calls' \in 0 .. MaxCalls
    BY <1>1 DEF Write, LibraryInv
  <1>5. SavedOK'
    BY SavedUnchanged DEF Write, LibraryInv
  <1> QED BY <1>3, <1>4, <1>5 DEF LibraryInv

LEMMA SaveKeeps ==
  ASSUME LibraryInv, Save
  PROVE  LibraryInv'
  <1>1. EngineInv'
    BY EngineUnchanged DEF Save, LibraryInv
  <1>2. /\ toVisit = {} /\ values \in [Vars -> Int] /\ stale \subseteq Vars
        /\ \A u \in stale : Targets(u) \subseteq stale
    BY DEF Save, Idle, LibraryInv, EngineInv, EngineTypeOK, StaleClosed
  <1>3. SavedOK'
    BY <1>2 DEF Save, SavedOK, Targets, Sources
  <1> QED BY <1>1, <1>3 DEF LibraryInv, Save

LEMMA RestoreKeeps ==
  ASSUME LibraryInv, Restore
  PROVE  LibraryInv'
  <1>1. /\ toVisit = {} /\ toVisit' = {} /\ stack = <<>> /\ stack' = <<>>
        /\ UNCHANGED <<visited, thrown, saved>>
        /\ values' = saved.values /\ stale' = saved.stale /\ DOMAIN stack' = {}
    BY DEF Restore, Idle, push
  <1>2. EngineTypeOK'
    BY <1>1 DEF LibraryInv, SavedOK, EngineInv, EngineTypeOK, Frames
  <1>3. StaleClosed'
    BY <1>1 DEF LibraryInv, SavedOK, StaleClosed, Targets
  <1>4. EngineInv'
    BY <1>1, <1>2, <1>3 DEF EngineInv, ComputedFromFresh
  <1>5. calls' \in 0 .. MaxCalls
    BY LibraryAssumption DEF Restore, LibraryInv
  <1>6. SavedOK'
    BY <1>1, SavedUnchanged DEF LibraryInv
  <1> QED BY <1>4, <1>5, <1>6 DEF LibraryInv

LEMMA LibraryStepKeeps ==
  ASSUME LibraryInv, [LibraryNext]_libraryVars
  PROVE  LibraryInv'
  <1>1. CASE \E v \in Inputs, x \in Amounts : Write(v, x)
    BY <1>1, WriteKeeps
  <1>2. CASE \E v \in Vars : Pull(v)
    <2>1. EngineInv'
      BY <1>2, BeginPullKeeps DEF Pull, LibraryInv
    <2>2. calls' = calls /\ saved' = saved
      BY <1>2 DEF Pull
    <2> QED BY <2>1, <2>2, SavedUnchanged DEF LibraryInv
  <1>3. CASE Save
    BY <1>3, SaveKeeps
  <1>4. CASE Restore
    BY <1>4, RestoreKeeps
  <1>5. CASE LibraryWork
    <2>1. EngineInv' /\ calls' = calls /\ saved' = saved
      BY <1>5, EngineStepKeeps DEF LibraryWork, LibraryInv
    <2> QED BY <2>1, SavedUnchanged DEF LibraryInv
  <1>6. CASE UNCHANGED libraryVars
    <2>1. EngineInv' /\ calls' = calls /\ saved' = saved
      BY <1>6, EngineUnchanged DEF libraryVars, LibraryInv
    <2> QED BY <2>1, SavedUnchanged DEF LibraryInv
  <1> QED BY <1>1, <1>2, <1>3, <1>4, <1>5, <1>6 DEF LibraryNext

\* LibraryInv holds in every state of every program.
LEMMA LibraryInvariant == LibrarySpec => []LibraryInv
  <1>1. LibraryInit => LibraryInv
    BY LibraryStarts
  <1>2. LibraryInv /\ [LibraryNext]_libraryVars => LibraryInv'
    BY LibraryStepKeeps
  <1> QED BY <1>1, <1>2, PTL DEF LibrarySpec

\* The engine's state has its type, and pushes and pulls never overlap.
THEOREM LibraryTypeCorrect == LibrarySpec => []LibraryTypeOK
  <1>1. LibraryInv => LibraryTypeOK
    BY DEF LibraryInv, SavedOK, EngineInv, LibraryTypeOK
  <1> QED BY <1>1, LibraryInvariant, PTL

\* No variable is trusted whose sources are not, in any state of a push, of a
\* pull, and after a pull that an exception has cut short.
THEOREM FlagsClosed == LibrarySpec => []StaleClosed
  <1>1. LibraryInv => StaleClosed
    BY DEF LibraryInv, EngineInv
  <1> QED BY <1>1, LibraryInvariant, PTL

\* A variable is computed from clean sources only.
THEOREM SourcesFirst == LibrarySpec => []ComputedFromFresh
  <1>1. LibraryInv => ComputedFromFresh
    BY DEF LibraryInv, EngineInv
  <1> QED BY <1>1, LibraryInvariant, PTL

-----------------------------------------------------------------------------
(***************************************************************************)
(* Exceptions need a cycle: the variables of the stack from the one that   *)
(* is met again upwards are a set in which each has a source of its own.   *)
(***************************************************************************)
LEMMA CycleFound ==
  ASSUME EngineInv, CycleDetected
  PROVE  ~Acyclic
  <1>1. /\ stack # <<>> /\ EdgesLeft /\ Edge.source \in stale \cap Active
    BY DEF CycleDetected
  <1>2. PICK n \in Nat \ {0} : n = Len(stack)
    BY <1>1, InvTop
  <1>3. /\ DOMAIN stack = 1 .. n /\ stack[n] = Top
        /\ \A k \in 1 .. n : FrameSound(k) /\ stack[k].var \in Vars
    BY <1>1, <1>2, InvTop
       DEF EngineInv, ComputedFromFresh, EngineTypeOK, FrameOK
  <1>4. PICK j \in 1 .. n : stack[j].var = Edge.source
    BY <1>1, <1>3 DEF Active
  <1> DEFINE S == {stack[k].var : k \in j .. n}
  <1>5. S \subseteq Vars /\ stack[j].var \in S
    BY <1>3
  <1>6. ASSUME NEW v \in S
        PROVE  Sources(v) \cap S # {}
    <2>1. PICK k \in j .. n : v = stack[k].var
      OBVIOUS
    <2>2. CASE k = n
      <3>1. Edge.source \in Sources(v)
        BY <2>1, <2>2, <1>1, <1>3, EdgeAtTop
      <3> QED BY <3>1, <1>4, <1>5
    <2>3. CASE k # n
      <3>1. k \in 1 .. n /\ k < n /\ k + 1 \in j .. n
        BY <2>3
      <3>2. stack[k + 1].var \in Sources(v)
        BY <2>1, <3>1, <1>2, <1>3 DEF FrameSound
      <3>3. stack[k + 1].var \in S
        BY <3>1
      <3> QED BY <3>2, <3>3
    <2> QED BY <2>2, <2>3
  <1> HIDE DEF S
  <1> QED BY <1>5, <1>6 DEF Acyclic

\* In a graph without cycles no pull is ever cut short.
THEOREM PullsComplete == LibrarySpec => []NeverThrown
  <1>1. LibraryInit => NeverThrown
    BY DEF LibraryInit, EngineInit, NeverThrown
  <1>2. LibraryInv /\ NeverThrown /\ [LibraryNext]_libraryVars => NeverThrown'
    <2> SUFFICES ASSUME LibraryInv, NeverThrown, [LibraryNext]_libraryVars, Acyclic
                 PROVE  ~thrown'
      BY DEF NeverThrown, Acyclic, Sources
    <2>1. ~thrown /\ EngineInv
      BY DEF NeverThrown, LibraryInv
    <2>2. ~CycleDetected
      BY <2>1, CycleFound
    <2> QED BY <2>1, <2>2
            DEF LibraryNext, Write, Pull, Save, Restore, LibraryWork, BeginPush, BeginPull,
                EngineStep, PullStep, Visit, Descend, SourcesDone, CombineEdge,
                FinishVariable, engine, libraryVars
  <1> QED BY <1>1, <1>2, LibraryInvariant, PTL DEF LibrarySpec

-----------------------------------------------------------------------------
(***************************************************************************)
(* Clean flags tell the truth, also after a restore: a checkpoint keeps    *)
(* what makes them true.                                                   *)
(***************************************************************************)
NumericIn(vals, v) == IF Kind[v] = "text" THEN 0 ELSE vals[v]

SavedConsistent ==
  \A v \in Vars \ saved.stale : Follows(v) =>
    \/ Last(v).source \in saved.stale
    \/ saved.values[v] =
         Stored(v, NumericIn(saved.values, Last(v).source) * Last(v).weight)
    \/ /\ saved.values[v] = InitialValue[v]
       /\ saved.values[Last(v).source] = InitialValue[Last(v).source]

LEMMA SavedConsistentUnchanged ==
  ASSUME SavedConsistent, saved' = saved
  PROVE  SavedConsistent'
  BY DEF SavedConsistent, NumericIn, Follows, Last, Stored

LEMMA ConsistentStarts ==
  ASSUME LibraryInit
  PROVE  ConsistentInv /\ SavedConsistent
  <1>1. values = InitialValue /\ stack = <<>>
    BY DEF LibraryInit, EngineInit
  <1>2. saved.values = InitialValue
    BY DEF LibraryInit
  <1>3. CleanMeansConsistent
    BY <1>1, CleanUnfolded DEF Consistent
  <1> QED BY <1>1, <1>2, <1>3 DEF ConsistentInv, Combined, SavedConsistent

LEMMA LibraryStepKeepsConsistent ==
  ASSUME LibraryInv, ConsistentInv, SavedConsistent, [LibraryNext]_libraryVars
  PROVE  ConsistentInv' /\ SavedConsistent'
  <1>1. ASSUME NEW v \in Inputs, NEW x \in Amounts, Write(v, x)
        PROVE  ConsistentInv' /\ SavedConsistent'
    <2>1. /\ v \in Vars /\ values' = [values EXCEPT ![v] = Stored(v, x)]
          /\ values \in [Vars -> Int] /\ saved' = saved
          /\ toVisit = {} /\ toVisit' = {v} /\ stale' = stale /\ stack' = <<>>
      BY <1>1, LibraryAssumption
         DEF Write, Idle, BeginPush, LibraryInv, EngineInv, EngineTypeOK
    <2>2. CleanMeansConsistent'
      BY <2>1, WritingKeepsConsistent DEF ConsistentInv
    <2> QED BY <2>1, <2>2, NoFrameCombined, SavedConsistentUnchanged
            DEF ConsistentInv
  <1>2. ASSUME NEW v \in Vars, Pull(v)
        PROVE  ConsistentInv' /\ SavedConsistent'
    BY <1>2, PullBeginKeepsConsistent, SavedConsistentUnchanged
       DEF Pull, LibraryInv
  <1>3. CASE Save
    <2>1. toVisit = {} /\ saved' = [values |-> values, stale |-> stale]
      BY <1>3 DEF Save, Idle
    <2>2. \A v \in Vars \ stale : Follows(v) => Consistent(v)
      BY <2>1, CleanUnfolded DEF ConsistentInv
    <2>3. SavedConsistent'
      BY <2>1, <2>2 DEF SavedConsistent, Consistent, NumericIn, Numeric,
                        Follows, Last, Stored
    <2>4. ConsistentInv'
      BY <1>3, ConsistentUnchanged DEF Save
    <2> QED BY <2>3, <2>4
  <1>4. CASE Restore
    <2>1. /\ toVisit' = {} /\ stack' = <<>> /\ saved' = saved
          /\ values' = saved.values /\ stale' = saved.stale
      BY <1>4 DEF Restore, Idle, push
    <2>2. CleanMeansConsistent'
      <3> SUFFICES ASSUME NEW v \in Vars \ saved.stale, Follows(v)
                   PROVE  Consistent(v)'
        BY <2>1, CleanUnfoldedNext
      <3>1. Numeric(Last(v).source)' = NumericIn(saved.values, Last(v).source)
        BY <2>1 DEF Numeric, NumericIn
      <3>2. \/ Last(v).source \in saved.stale
            \/ saved.values[v] =
                 Stored(v, NumericIn(saved.values, Last(v).source)
                             * Last(v).weight)
            \/ /\ saved.values[v] = InitialValue[v]
               /\ saved.values[Last(v).source] = InitialValue[Last(v).source]
        BY DEF SavedConsistent
      <3>3. CASE Last(v).source \in saved.stale
        BY <3>3, <2>1 DEF Consistent, Last
      <3>4. CASE saved.values[v] =
                   Stored(v, NumericIn(saved.values, Last(v).source)
                               * Last(v).weight)
        <4>1. PICK y : y = NumericIn(saved.values, Last(v).source)
                             * Last(v).weight
          OBVIOUS
        <4>2. values'[v] = Stored(v, y)
          BY <4>1, <3>4, <2>1
        <4>3. (Numeric(Last(v).source) * Last(v).weight)' = y
          <5>1. Last(v)' = Last(v)
            BY DEF Last
          <5> QED BY <4>1, <3>1, <5>1
        <4>4. (values[v] =
                 Stored(v, Numeric(Last(v).source) * Last(v).weight))'
          BY <4>2, <4>3 DEF Stored
        <4> QED BY <4>4 DEF Consistent
      <3>5. CASE /\ saved.values[v] = InitialValue[v]
                 /\ saved.values[Last(v).source] = InitialValue[Last(v).source]
        BY <3>5, <2>1 DEF Consistent, Last
      <3> QED BY <3>2, <3>3, <3>4, <3>5
    <2> QED BY <2>1, <2>2, NoFrameCombined, SavedConsistentUnchanged
            DEF ConsistentInv
  <1>5. CASE LibraryWork
    BY <1>5, EngineStepKeepsConsistent, SavedConsistentUnchanged
       DEF LibraryWork, LibraryInv
  <1>6. CASE UNCHANGED libraryVars
    BY <1>6, ConsistentUnchanged, SavedConsistentUnchanged DEF libraryVars
  <1> QED BY <1>1, <1>2, <1>3, <1>4, <1>5, <1>6 DEF LibraryNext

\* The flags never vouch for a value that the graph contradicts.
THEOREM CleanFlagsTellTheTruth == LibrarySpec => []CleanMeansConsistent
  <1>1. LibraryInit => ConsistentInv /\ SavedConsistent
    BY ConsistentStarts
  <1>2. LibraryInv /\ (ConsistentInv /\ SavedConsistent) /\ [LibraryNext]_libraryVars =>
          (ConsistentInv /\ SavedConsistent)'
    BY LibraryStepKeepsConsistent
  <1>3. ConsistentInv => CleanMeansConsistent
    BY DEF ConsistentInv
  <1> QED BY <1>1, <1>2, <1>3, LibraryInvariant, PTL DEF LibrarySpec

-----------------------------------------------------------------------------
(***************************************************************************)
(* The engine implements Freshness.  Visits, and the steps of a pull that  *)
(* do not finish a variable, are invisible: what is downstream of the      *)
(* marked variables stays the same.                                        *)
(***************************************************************************)
Closed(C) == \A u \in C : Targets(u) \subseteq C

LEMMA FreshClosed ==
  ASSUME NEW C \in SUBSET Vars
  PROVE  Fresh!ClosedUnder(C) <=> Closed(C)
  <1>1. \A u \in Vars : \A v \in Targets(u) : <<u, v>> \in Depends
    BY GraphFacts DEF Depends
  <1>2. \A d \in Depends : d[2] \in Targets(d[1]) /\ d[1] \in Vars
    BY GraphFacts DEF Depends
  <1>3. ASSUME Fresh!ClosedUnder(C)
        PROVE  Closed(C)
    <2> SUFFICES ASSUME NEW u \in C, NEW v \in Targets(u)
                 PROVE  v \in C
      BY DEF Closed
    <2>1. <<u, v>> \in Depends
      BY <1>1
    <2> QED BY <2>1, <1>3 DEF Fresh!ClosedUnder
  <1>4. ASSUME Closed(C)
        PROVE  Fresh!ClosedUnder(C)
    BY <1>2, <1>4 DEF Fresh!ClosedUnder, Closed
  <1> QED BY <1>3, <1>4

LEMMA FreshDown ==
  ASSUME NEW S
  PROVE  Fresh!Down(S) = Down(S)
  BY FreshClosed DEF Fresh!Down, Down, Closed

LEMMA DownLeast ==
  ASSUME NEW S \in SUBSET Vars
  PROVE  /\ S \subseteq Down(S)
         /\ Down(S) \subseteq Vars
         /\ Closed(Down(S))
         /\ \A C \in SUBSET Vars : S \subseteq C /\ Closed(C) => Down(S) \subseteq C
  <1>1. S \subseteq Down(S) /\ Down(S) \subseteq Vars
    BY DEF Down
  <1>2. Closed(Down(S))
    BY GraphFacts DEF Down, Closed
  <1> QED BY <1>1, <1>2 DEF Down, Closed

LEMMA DownOfClosed ==
  ASSUME NEW S \in SUBSET Vars, Closed(S)
  PROVE  Down(S) = S
  BY DownLeast

LEMMA DownBetween ==
  ASSUME NEW S \in SUBSET Vars, NEW T \in SUBSET Vars,
         S \subseteq T, T \subseteq Down(S)
  PROVE  Down(T) = Down(S)
  <1>1. Down(T) \subseteq Down(S)
    BY DownLeast
  <1>2. Down(S) \subseteq Down(T)
    BY DownLeast
  <1> QED BY <1>1, <1>2

LEMMA DownOfUnion ==
  ASSUME NEW S \in SUBSET Vars, NEW T \in SUBSET Vars, Closed(S)
  PROVE  Down(S \cup T) = S \cup Down(T)
  <1>1. Closed(S \cup Down(T)) /\ S \cup Down(T) \in SUBSET Vars
    BY DownLeast DEF Closed
  <1>2. Down(S \cup T) \subseteq S \cup Down(T)
    BY <1>1, DownLeast
  <1>3. S \cup Down(T) \subseteq Down(S \cup T)
    BY DownLeast
  <1> QED BY <1>2, <1>3

LEMMA FreshInit ==
  ASSUME LibraryInit
  PROVE  Fresh!Init
  <1>1. stale \cup toVisit = {} /\ saved = [values |-> values, stale |-> {}]
    BY DEF LibraryInit, EngineInit
  <1>2. Down(stale \cup toVisit) = {}
    BY <1>1, DownOfClosed DEF Closed
  <1> QED BY <1>1, <1>2 DEF Fresh!Init

LEMMA MarkedClosed ==
  ASSUME LibraryInv, toVisit = {}
  PROVE  Closed(stale) /\ Down(stale \cup toVisit) = stale
  <1>1. Closed(stale) /\ stale \in SUBSET Vars /\ stale \cup toVisit = stale
    BY DEF LibraryInv, EngineInv, EngineTypeOK, StaleClosed, Closed
  <1> QED BY <1>1, DownOfClosed

\* What is seen from outside of a step that changes neither the values nor
\* what is downstream of the marked variables.
LEMMA Invisible ==
  ASSUME values' = values, saved' = saved,
         Down(stale \cup toVisit)' = Down(stale \cup toVisit)
  PROVE  UNCHANGED Fresh!vars
  BY DEF Fresh!vars

LEMMA DownNext ==
  Down(stale \cup toVisit)' = Down(stale' \cup toVisit')
  BY DEF Down, Targets, Sources

LEMMA WriteIsWrite ==
  ASSUME LibraryInv, NEW v \in Inputs, NEW x \in Amounts, Write(v, x)
  PROVE  Fresh!Write(v)
  <1>1. /\ v \in Vars /\ values' = [values EXCEPT ![v] = Stored(v, x)]
        /\ toVisit = {} /\ toVisit' = {v} /\ stale' = stale /\ saved' = saved
        /\ values \in [Vars -> Int] /\ stale \in SUBSET Vars
    BY LibraryAssumption
       DEF Write, Idle, BeginPush, LibraryInv, EngineInv, EngineTypeOK
  <1>2. Down(stale \cup toVisit) = stale /\ Closed(stale)
    BY <1>1, MarkedClosed
  <1>3. Down(stale \cup toVisit)' = stale \cup Down({v})
    BY <1>1, <1>2, DownOfUnion, DownNext
  <1>4. Fresh!OnlyChanges(v)
    BY <1>1 DEF Fresh!OnlyChanges
  <1>5. Fresh!Down({v}) = Down({v})
    BY FreshDown
  <1>6. UNCHANGED [values |-> saved.values, dirty |-> saved.stale]
    BY <1>1
  <1> QED BY <1>2, <1>3, <1>4, <1>5, <1>6 DEF Fresh!Write

LEMMA FinishIsRefresh ==
  ASSUME LibraryInv, FinishVariable, saved' = saved
  PROVE  Fresh!Refresh(Top.var) /\ Top.var \in Vars
  <1>1. /\ stack # <<>> /\ Top.pass = "edges"
        /\ values' = IF Incoming[Top.var] = <<>> \/ Kind[Top.var] = "text"
                     THEN values
                     ELSE [values EXCEPT ![Top.var] = Stored(Top.var, Top.acc)]
        /\ stale' = stale \ {Top.var} /\ toVisit' = toVisit
    BY DEF FinishVariable, push
  <1>2. /\ Top \in Frames /\ toVisit = {}
        /\ Top = stack[Len(stack)] /\ FrameSound(Len(stack))
        /\ Top.var \in stale
    BY <1>1, InvTop DEF LibraryInv
  <1>3. Top.var \in Vars /\ values \in [Vars -> Int]
    BY <1>2 DEF LibraryInv, EngineInv, EngineTypeOK, Frames
  <1>4. Sources(Top.var) \cap stale = {}
    BY <1>1, <1>2 DEF FrameSound
  <1>5. Down(stale \cup toVisit) = stale
    BY <1>2, MarkedClosed
  <1>6. Down(stale \cup toVisit)' = stale'
    <2>1. EngineInv'
      BY FinishVariableKeeps DEF LibraryInv
    <2>2. stale' \in SUBSET Vars /\ Closed(stale')
      BY <2>1, <1>1, <1>2
         DEF EngineInv, EngineTypeOK, StaleClosed, Closed, Targets
    <2>3. stale' \cup toVisit' = stale'
      BY <1>1, <1>2
    <2> QED BY <2>2, <2>3, DownOfClosed, DownNext
  <1>7. Fresh!SourcesOf(Top.var) = Sources(Top.var)
    BY <1>3, GraphFacts DEF Fresh!SourcesOf, Depends
  <1>8. Fresh!OnlyChanges(Top.var)
    BY <1>1, <1>3 DEF Fresh!OnlyChanges
  <1>9. UNCHANGED [values |-> saved.values, dirty |-> saved.stale]
    OBVIOUS
  <1> QED BY <1>1, <1>2, <1>3, <1>4, <1>5, <1>6, <1>7, <1>8, <1>9
          DEF Fresh!Refresh

LEMMA VisitIsInvisible ==
  ASSUME LibraryInv, Visit, saved' = saved
  PROVE  UNCHANGED Fresh!vars
  <1>1. PICK current \in toVisit :
          /\ stale' = stale \cup {current}
          /\ visited' = visited \cup {current}
          /\ toVisit' = (toVisit \ {current}) \cup (Targets(current) \ visited')
          /\ values' = values
    BY DEF Visit
  <1> DEFINE S == stale \cup toVisit
             T == stale' \cup toVisit'
  <1>2. S \in SUBSET Vars /\ T \in SUBSET Vars
    BY <1>1, GraphFacts DEF LibraryInv, EngineInv, EngineTypeOK
  <1>3. S \subseteq T
    BY <1>1
  <1>4. T \subseteq Down(S)
    <2>1. S \subseteq Down(S) /\ Closed(Down(S))
      BY <1>2, DownLeast
    <2>2. Targets(current) \subseteq Down(S)
      BY <2>1 DEF Closed
    <2> QED BY <2>1, <2>2, <1>1
  <1>5. Down(T) = Down(S)
    BY <1>2, <1>3, <1>4, DownBetween
  <1> QED BY <1>1, <1>5, DownNext, Invisible

LEMMA StepIsStep ==
  ASSUME LibraryInv, [LibraryNext]_libraryVars
  PROVE  [Fresh!Next]_Fresh!vars
  <1>1. ASSUME NEW v \in Inputs, NEW x \in Amounts, Write(v, x)
        PROVE  Fresh!Next
    BY <1>1, WriteIsWrite, LibraryAssumption DEF Fresh!Next
  <1>2. ASSUME UNCHANGED <<values, stale, toVisit, saved>>
        PROVE  UNCHANGED Fresh!vars
    BY <1>2, DownNext, Invisible
  <1>3. ASSUME NEW v \in Vars, Pull(v)
        PROVE  UNCHANGED Fresh!vars
    BY <1>2, <1>3 DEF Pull, BeginPull, store, push
  <1>4. CASE Save
    <2>1. /\ toVisit = {} /\ saved' = [values |-> values, stale |-> stale]
          /\ values' = values /\ stale' = stale /\ toVisit' = toVisit
      BY <1>4 DEF Save, Idle, engine
    <2>2. /\ Down(stale \cup toVisit) = stale
          /\ Down(stale \cup toVisit)' = Down(stale \cup toVisit)
      BY <2>1, MarkedClosed, DownNext
    <2>3. Fresh!Save
      BY <2>1, <2>2 DEF Fresh!Save
    <2> QED BY <2>3 DEF Fresh!Next
  <1>5. CASE Restore
    <2>1. /\ toVisit' = {} /\ saved' = saved
          /\ values' = saved.values /\ stale' = saved.stale
      BY <1>5 DEF Restore, Idle, push
    <2>2. Down(stale \cup toVisit)' = saved.stale
      <3>1. saved.stale \in SUBSET Vars /\ Closed(saved.stale)
        BY DEF LibraryInv, SavedOK, Closed
      <3> QED BY <3>1, <2>1, DownOfClosed, DownNext
    <2>3. Fresh!Restore
      BY <2>1, <2>2 DEF Fresh!Restore
    <2> QED BY <2>3 DEF Fresh!Next
  <1>6. CASE LibraryWork
    <2>1. EngineStep /\ saved' = saved
      BY <1>6 DEF LibraryWork
    <2>2. CASE Visit
      BY <2>1, <2>2, VisitIsInvisible
    <2>3. CASE FinishVariable
      BY <2>1, <2>3, FinishIsRefresh DEF Fresh!Next
    <2>4. CASE Descend \/ CycleDetected \/ SourcesDone \/ CombineEdge
      BY <1>2, <2>1, <2>4
         DEF Descend, CycleDetected, SourcesDone, CombineEdge, store, push
    <2> QED BY <2>1, <2>2, <2>3, <2>4 DEF EngineStep, PullStep
  <1>7. CASE UNCHANGED libraryVars
    BY <1>2, <1>7 DEF libraryVars, engine
  <1> QED BY <1>1, <1>3, <1>4, <1>5, <1>6, <1>7 DEF LibraryNext

\* The engine implements Freshness: a write makes all its dependents dirty at
\* once, and each variable becomes clean in one step, after its sources.
THEOREM EngineImplementsFreshness == LibrarySpec => ImplementsFreshness
  <1>1. LibraryInit => Fresh!Init
    BY FreshInit
  <1>2. LibraryInv /\ [LibraryNext]_libraryVars => [Fresh!Next]_Fresh!vars
    BY StepIsStep
  <1> QED BY <1>1, <1>2, LibraryInvariant, PTL
          DEF LibrarySpec, ImplementsFreshness, Fresh!Spec

-----------------------------------------------------------------------------
(***************************************************************************)
(* What a pull touches.  The frames above the first are for stale sources  *)
(* of the frames below them, so that every set that has the target and the *)
(* stale sources of its own has them: there is no first one it lacks.      *)
(***************************************************************************)
LEMMA LeastElement ==
  ASSUME NEW T \in SUBSET Nat, T # {}
  PROVE  \E n \in T : \A m \in T : n <= m
<1> DEFINE Up == {0 .. n : n \in T}
<1>1. Up \in SUBSET FiniteSubsetsOf(Nat)
  <2>1. ASSUME NEW n \in T PROVE 0 .. n \in FiniteSubsetsOf(Nat)
    <3>1. 0 \in Int /\ n \in Int
      OBVIOUS
    <3>2. IsFiniteSet(0 .. n)
      BY <3>1, FS_Interval
    <3> QED
      BY <3>2 DEF FiniteSubsetsOf
  <2> QED
    BY <2>1
<1>2. Up # {}
  OBVIOUS
<1>3. \E x \in Up : \A y \in Up : ~(<<y, x>> \in StrictSubsetOrdering(Nat))
  <2> HIDE DEF Up
  <2> QED
    BY <1>1, <1>2, FS_StrictSubsetOrderingWellFounded, WFMin
<1>4. PICK n \in T : \A y \in Up : ~(<<y, 0 .. n>> \in StrictSubsetOrdering(Nat))
  BY <1>3
<1>5. ASSUME NEW m \in T PROVE n <= m
  <2>1. 0 .. m \in Up /\ 0 .. n \in Up
    OBVIOUS
  <2>2. 0 .. m \in FiniteSubsetsOf(Nat) /\ 0 .. n \in FiniteSubsetsOf(Nat)
    BY <1>1, <2>1
  <2>3. ~(0 .. m \subseteq 0 .. n /\ 0 .. m # 0 .. n)
    BY <1>4, <2>1, <2>2 DEF StrictSubsetOrdering, FiniteSubsetsOf
  <2>4. n \in Nat /\ m \in Nat
    OBVIOUS
  <2>5. ASSUME m < n PROVE FALSE
    <3>1. 0 .. m \subseteq 0 .. n
      BY <2>4, <2>5
    <3>2. n \in 0 .. n /\ n \notin 0 .. m
      BY <2>4, <2>5
    <3> QED
      BY <2>3, <3>1, <3>2
  <2> QED
    BY <2>4, <2>5
<1> QED
  BY <1>5

LEMMA StackUpstream ==
  ASSUME EngineInv, stack # <<>>, NEW k \in DOMAIN stack
  PROVE  stack[k].var \in StaleUpstream(stack[1].var)
  <1> DEFINE n == Len(stack)
  <1>1. n \in Nat \ {0} /\ DOMAIN stack = 1 .. n
    BY InvTop
  <1>2. \A j \in 1 .. n : FrameSound(j)
    BY <1>1 DEF EngineInv, ComputedFromFresh
  <1>3. stack[k].var \in stale
    BY <1>1, <1>2 DEF FrameSound
  <1>4. SUFFICES ASSUME NEW C \in SUBSET Vars, stack[1].var \in C,
                        \A w \in C : Sources(w) \cap stale \subseteq C
                 PROVE  stack[k].var \in C
    BY <1>3 DEF StaleUpstream
  <1> DEFINE T == {j \in 1 .. n : stack[j].var \notin C}
  <1>5. ASSUME T # {} PROVE FALSE
    <2>1. T \in SUBSET Nat
      BY <1>1
    <2>2. PICK j \in T : \A i \in T : j <= i
      <3> HIDE DEF T
      <3> QED BY <1>5, <2>1, LeastElement
    <2>3. j \in 1 .. n /\ j # 1
      BY <1>4
    <2>4. j - 1 \in 1 .. n /\ j - 1 < n /\ (j - 1) + 1 = j /\ ~(j <= j - 1)
      BY <1>1, <2>3
    <2>5. stack[j - 1].var \in C
      BY <2>2, <2>4
    <2>6. stack[j].var \in Sources(stack[j - 1].var)
      <3>1. FrameSound(j - 1)
        BY <1>2, <2>4
      <3>2. stack[(j - 1) + 1].var \in Sources(stack[j - 1].var)
        BY <3>1, <2>4, Zenon DEF FrameSound
      <3> QED BY <3>2, <2>4
    <2>7. stack[j].var \in stale
      BY <1>2, <2>3 DEF FrameSound
    <2> QED BY <1>4, <2>5, <2>6, <2>7
  <1> QED BY <1>1, <1>5

\* One variable of the stack is marked clean at a time, the last one, and no
\* other changes.
LEMMA PullTouches ==
  ASSUME EngineInv, [LibraryNext]_libraryVars, stack # <<>>, stack' # stack
  PROVE  /\ stale \ stale' \subseteq StaleUpstream(stack[1].var)
         /\ \A v \in Vars :
              values'[v] # values[v] => v \in StaleUpstream(stack[1].var)
  <1>1. EngineStep
    BY DEF LibraryNext, Write, Pull, Save, Restore, LibraryWork, Idle, libraryVars, engine
  <1>2. ~Visit
    BY DEF Visit
  <1>3. CASE Descend \/ CycleDetected \/ SourcesDone \/ CombineEdge
    <2>1. stale' = stale /\ values' = values
      BY <1>3 DEF Descend, CycleDetected, SourcesDone, CombineEdge, store
    <2> QED BY <2>1
  <1>4. CASE FinishVariable
    <2>1. /\ values' = IF Incoming[Top.var] = <<>> \/ Kind[Top.var] = "text"
                       THEN values
                       ELSE [values EXCEPT ![Top.var] = Stored(Top.var, Top.acc)]
          /\ stale' = stale \ {Top.var}
      BY <1>4 DEF FinishVariable
    <2>2. Top.var \in StaleUpstream(stack[1].var)
      <3>1. Len(stack) \in DOMAIN stack /\ Top = stack[Len(stack)]
        BY InvTop
      <3> QED BY <3>1, StackUpstream
    <2>3. values \in [Vars -> Int]
      BY DEF EngineInv, EngineTypeOK
    <2>4. \A v \in Vars \ {Top.var} : values'[v] = values[v]
      BY <2>1, <2>3
    <2> QED BY <2>1, <2>2, <2>4
  <1> QED BY <1>1, <1>2, <1>3, <1>4 DEF EngineStep, PullStep

\* A pull (pull_recompute) recomputes nothing but its target and the stale
\* variables that the target is computed from, in every graph, also when an
\* exception cuts it short, and leaves all the other flags alone.
THEOREM PullsAreMinimal == LibrarySpec => PullIsMinimal
  <1>1. EngineInv /\ [LibraryNext]_libraryVars =>
          [stack # <<>> /\ stack' # stack =>
             /\ stale \ stale' \subseteq StaleUpstream(stack[1].var)
             /\ \A v \in Vars :
                  values'[v] # values[v] => v \in StaleUpstream(stack[1].var)]_libraryVars
    BY PullTouches
  <1>2. LibraryInv => EngineInv
    BY DEF LibraryInv
  <1> QED BY <1>1, <1>2, LibraryInvariant, PTL DEF LibrarySpec, PullIsMinimal

-----------------------------------------------------------------------------
(***************************************************************************)
(* The run loop.                                                           *)
(***************************************************************************)
(***************************************************************************)
(* The inductive invariant: what is stale while the state settles is still *)
(* to pull, or is being pulled; and the history and the queue are in order *)
(* at every event.                                                         *)
(***************************************************************************)
LoopOK ==
  /\ phase \in Running \cup {"rejected", "failed", "succeeded"}
  /\ pending \subseteq Events
  /\ history \in Seq(Events)
  /\ writes \in Seq(WriteRecord)
  /\ pulls \subseteq Vars
  /\ now \in Nat
  /\ phase \in {"apply", "settle"} \/ Idle
  /\ phase = "apply" => history # <<>>

Pulled == IF stack = <<>> THEN {} ELSE {stack[1].var}

Settling ==
  phase = "settle" =>
    toVisit = {} /\ (thrown \/ stale \subseteq pulls \cup Pulled)

RunInv == EngineInv /\ LoopOK /\ SettledWhenChecked /\ Settling

LEMMA RunStarts ==
  ASSUME Init
  PROVE  RunInv
  <1>1. EngineInv /\ Idle /\ stale = {}
    BY EngineStarts DEF Init, EngineInit, Idle
  <1>2. LoopOK
    BY <1>1 DEF Init, LoopOK, Running
  <1> QED BY <1>1, <1>2 DEF Init, RunInv, SettledWhenChecked, Settling

LEMMA PopEventKeeps ==
  ASSUME RunInv, PopEvent
  PROVE  RunInv'
  <1>1. PICK e \in pending :
          /\ phase = "loop" /\ Idle
          /\ pending' = pending \ {e}
          /\ history' = Append(history, e)
          /\ \/ writes' \in Payloads[e] /\ phase' = "apply" /\ pulls' = pulls
             \/ phase' = "settle" /\ pulls' = stale /\ writes' = writes
          /\ UNCHANGED <<engine, now>>
    BY DEF PopEvent
  <1>2. e \in Events /\ Payloads[e] \subseteq Seq(WriteRecord)
    BY <1>1, RunAssumption DEF RunInv, LoopOK
  <1>3. EngineInv' /\ stale' = stale /\ stack' = stack /\ toVisit' = toVisit
    BY <1>1, EngineUnchanged DEF engine, RunInv
  <1>4. stale = {}
    BY <1>1 DEF RunInv, SettledWhenChecked
  <1>5. history' \in Seq(Events) /\ history' # <<>>
    BY <1>1, <1>2, AppendProperties DEF RunInv, LoopOK
  <1>6. LoopOK'
    BY <1>1, <1>2, <1>3, <1>4, <1>5 DEF RunInv, LoopOK, Running
  <1>7. SettledWhenChecked' /\ Settling'
    BY <1>1, <1>3, <1>4 DEF SettledWhenChecked, Settling, Idle
  <1> QED BY <1>3, <1>6, <1>7 DEF RunInv

LEMMA ApplyWriteKeeps ==
  ASSUME RunInv, ApplyWrite
  PROVE  RunInv'
  <1> DEFINE w == Head(writes)
  <1>1. /\ phase = "apply" /\ Idle /\ writes # <<>>
        /\ writes' = Tail(writes)
        /\ UNCHANGED <<phase, pending, history, pulls, now>>
    BY DEF ApplyWrite
  <1>2. w \in WriteRecord /\ Tail(writes) \in Seq(WriteRecord)
    BY <1>1, HeadTailProperties DEF RunInv, LoopOK
  <1>3. EngineInv'
    <2>1. CASE Refused(w)
      BY <2>1, EngineUnchanged DEF ApplyWrite, RunInv
    <2>2. CASE ~Refused(w)
      <3>1. /\ values' = [values EXCEPT ![w.var] = Stored(w.var, Amount(w))]
            /\ BeginPush(w.var) /\ stale' = stale
        BY <2>2 DEF ApplyWrite
      <3>2. w.var \in Vars /\ values \in [Vars -> Int]
        BY <1>2 DEF WriteRecord, RunInv, EngineInv, EngineTypeOK
      <3>3. Amount(w) \in Int
        BY <1>2, <3>2 DEF WriteRecord, Amount
      <3>4. values' \in [Vars -> Int]
        BY <3>1, <3>2, <3>3, StoredInt
      <3> QED BY <3>1, <3>2, <3>4, <1>1, BeginPushKeeps DEF RunInv
    <2> QED BY <2>1, <2>2
  <1>4. LoopOK'
    BY <1>1, <1>2 DEF RunInv, LoopOK
  <1> QED BY <1>1, <1>3, <1>4 DEF RunInv, SettledWhenChecked, Settling

LEMMA EndOfPayloadKeeps ==
  ASSUME RunInv, EndOfPayload
  PROVE  RunInv'
  <1>1. /\ phase = "apply" /\ Idle /\ phase' = "settle" /\ pulls' = stale
        /\ now' = Time[history[Len(history)]]
        /\ UNCHANGED <<engine, pending, history, writes>>
    BY DEF EndOfPayload
  <1>2. EngineInv' /\ stale' = stale /\ stack' = stack /\ toVisit' = toVisit
    BY <1>1, EngineUnchanged DEF engine, RunInv
  <1>3. now' \in Nat
    <2>1. history \in Seq(Events) /\ history # <<>>
      BY <1>1 DEF RunInv, LoopOK
    <2>2. history[Len(history)] \in Events
      BY <2>1, ElementOfSeq, EmptySeq
    <2> QED BY <2>2, <1>1, RunAssumption
  <1>4. stale \subseteq Vars
    BY DEF RunInv, EngineInv, EngineTypeOK
  <1>5. LoopOK'
    BY <1>1, <1>3, <1>4 DEF RunInv, LoopOK, Running
  <1>6. SettledWhenChecked' /\ Settling'
    BY <1>1, <1>2 DEF SettledWhenChecked, Settling, Idle
  <1> QED BY <1>2, <1>5, <1>6 DEF RunInv

LEMMA PullNextKeeps ==
  ASSUME RunInv, PullNext
  PROVE  RunInv'
  <1>1. PICK v \in pulls :
          /\ phase = "settle" /\ Idle /\ ~thrown
          /\ pulls' = pulls \ {v}
          /\ BeginPull(v) \/ (v \notin stale /\ UNCHANGED engine)
          /\ UNCHANGED <<phase, pending, history, writes, now>>
    BY DEF PullNext
  <1>2. v \in Vars /\ toVisit = {} /\ stack = <<>> /\ stale \subseteq pulls
    BY <1>1 DEF RunInv, LoopOK, Idle, Settling, Pulled
  <1>3. EngineInv'
    BY <1>1, <1>2, BeginPullKeeps, EngineUnchanged DEF RunInv
  <1>4. LoopOK'
    BY <1>1 DEF RunInv, LoopOK
  <1>5. Settling'
    <2>1. CASE BeginPull(v)
      <3>1. /\ stack' = <<Frame(v)>> /\ stale' = stale /\ toVisit' = toVisit
        BY <2>1 DEF BeginPull, store, push
      <3>2. Pulled' = {v}
        BY <3>1 DEF Pulled, Frame
      <3> QED BY <1>1, <1>2, <3>1, <3>2 DEF Settling
    <2>2. CASE v \notin stale /\ UNCHANGED engine
      BY <2>2, <1>1, <1>2 DEF Settling, engine
    <2> QED BY <1>1, <2>1, <2>2
  <1> QED BY <1>1, <1>3, <1>4, <1>5 DEF RunInv, SettledWhenChecked

\* Steps of the loop that leave the engine alone and end in a phase whose
\* state is settled, if it was before.
LEMMA PhaseKeeps ==
  ASSUME RunInv, Idle, UNCHANGED <<engine, pending, history, writes, pulls, now>>,
         phase' \in {"check", "loop", "rejected", "failed", "succeeded"},
         phase' # "failed" => stale = {}
  PROVE  RunInv'
  <1>1. EngineInv' /\ stale' = stale /\ stack' = stack /\ toVisit' = toVisit
    BY EngineUnchanged DEF engine, RunInv
  <1>2. LoopOK'
    BY <1>1 DEF RunInv, LoopOK, Running, Idle
  <1> QED BY <1>1, <1>2 DEF RunInv, SettledWhenChecked, Settling

\* The variable a pull was called for stays at the bottom of the stack.
LEMMA TopKept ==
  ASSUME EngineInv, stack # <<>>, Descend \/ SourcesDone \/ CombineEdge
  PROVE  stack' # <<>> /\ stack'[1].var = stack[1].var
  <1>1. stack \in Seq(Frames) /\ Top \in Frames /\ Top = stack[Len(stack)]
    BY InvTop
  <1>2. PICK n \in Nat \ {0} : n = Len(stack)
    BY InvTop
  <1>3. ASSUME NEW f \in Frames, f.var = Top.var, stack' = Append(Below, f)
        PROVE  stack' # <<>> /\ stack'[1].var = stack[1].var
    <2>1. /\ stack' # <<>> /\ stack'[n] = f
          /\ \A k \in 1 .. n - 1 : stack'[k] = stack[k]
      BY <1>1, <1>2, <1>3, TopReplaced
    <2>2. stack[n].var = f.var
      BY <1>1, <1>2, <1>3
    <2>3. n = 1 \/ 1 \in 1 .. n - 1
      OBVIOUS
    <2> QED BY <2>1, <2>2, <2>3
  <1>4. ASSUME NEW f \in Frames, f.var = Top.var, NEW g \in Frames,
               stack' = Append(Append(Below, f), g)
        PROVE  stack' # <<>> /\ stack'[1].var = stack[1].var
    <2>1. /\ stack' # <<>> /\ stack'[n] = f
          /\ \A k \in 1 .. n - 1 : stack'[k] = stack[k]
      BY <1>1, <1>2, <1>4, FramePushed
    <2>2. stack[n].var = f.var
      BY <1>1, <1>2, <1>4
    <2>3. n = 1 \/ 1 \in 1 .. n - 1
      OBVIOUS
    <2> QED BY <2>1, <2>2, <2>3
  <1>5. CASE Descend
    <2> DEFINE f == Passed(Top)
               g == Frame(Edge.source)
    <2>1. f \in Frames /\ f.var = Top.var
      BY <1>1, FrameChanges
    <2>2. g \in Frames
      BY <1>5, EdgeAtTop, NewFrame DEF Descend
    <2>3. stack' = Append(Below, f) \/ stack' = Append(Append(Below, f), g)
      BY <1>5 DEF Descend, Passed
    <2> HIDE DEF f, g
    <2> QED BY <2>1, <2>2, <2>3, <1>3, <1>4
  <1>6. CASE SourcesDone
    <2> DEFINE f == Ready(Top, Numeric(Top.var))
    <2>1. Numeric(Top.var) \in Int
      BY <1>1, NumericInt DEF EngineInv, EngineTypeOK, Frames
    <2>2. f \in Frames /\ f.var = Top.var
      BY <1>1, <2>1, FrameChanges
    <2>3. stack' = Append(Below, f)
      BY <1>6 DEF SourcesDone, Ready
    <2> HIDE DEF f
    <2> QED BY <2>2, <2>3, <1>3
  <1>7. CASE CombineEdge
    <2> DEFINE x == Combine(Edge.fn, Top.acc, Numeric(Edge.source), Edge.weight)
               f == Moved(Top, x)
    <2>1. stack' = Append(Below, f) /\ EdgesLeft
      BY <1>7 DEF CombineEdge, Moved
    <2>2. /\ Edge.source \in Vars /\ Edge.fn \in Functions /\ Edge.weight \in Int
      BY <2>1, EdgeAtTop
    <2>3. Numeric(Edge.source) \in Int /\ Top.acc \in Int
      BY <1>1, <2>2, NumericInt DEF EngineInv, EngineTypeOK, Frames
    <2>4. x \in Int
      BY <2>2, <2>3, CombineInt
    <2> HIDE DEF x
    <2>5. f \in Frames /\ f.var = Top.var
      BY <1>1, <2>4, FrameChanges
    <2> HIDE DEF f
    <2> QED BY <2>1, <2>5, <1>3
  <1> QED BY <1>5, <1>6, <1>7

LEMMA EngineKeepsRun ==
  ASSUME RunInv, Run
  PROVE  RunInv'
  <1>1. EngineStep /\ UNCHANGED <<phase, pending, history, writes, pulls, now>>
    BY DEF Run, loop
  <1>2. ~Idle
    BY <1>1 DEF EngineStep, PullStep, Visit, Descend, CycleDetected,
                SourcesDone, CombineEdge, FinishVariable, Idle
  <1>3. phase \in {"apply", "settle"}
    BY <1>2 DEF RunInv, LoopOK
  <1>4. EngineInv'
    BY <1>1, EngineStepKeeps DEF RunInv
  <1>5. LoopOK'
    BY <1>1, <1>3 DEF RunInv, LoopOK
  <1>6. SettledWhenChecked'
    BY <1>1, <1>3 DEF SettledWhenChecked
  <1>7. Settling'
    <2> SUFFICES ASSUME phase = "settle"
                 PROVE  /\ toVisit' = {}
                        /\ thrown' \/ stale' \subseteq pulls \cup Pulled'
      BY <1>1 DEF Settling
    <2>1. toVisit = {} /\ (thrown \/ stale \subseteq pulls \cup Pulled)
      BY DEF RunInv, Settling
    <2>2. stack # <<>> /\ stack \in Seq(Frames) /\ Top \in Frames
      BY <1>2, <2>1, InvTop DEF Idle, RunInv
    <2>3. PICK n \in Nat \ {0} : n = Len(stack)
      BY <2>2, InvTop DEF RunInv
    <2>4. CASE CycleDetected
      BY <2>4, <2>1 DEF CycleDetected, push
    <2>5. CASE Descend \/ SourcesDone \/ CombineEdge
      <3>1. stack' # <<>> /\ stack'[1].var = stack[1].var
        BY <2>5, <2>2, TopKept DEF RunInv
      <3>2. /\ stale' = stale /\ toVisit' = toVisit /\ thrown' = thrown
        BY <2>5 DEF Descend, SourcesDone, CombineEdge, store, push
      <3> QED BY <3>1, <3>2, <2>1, <2>2 DEF Pulled
    <2>6. CASE FinishVariable
      <3>1. /\ stack' = Below /\ stale' = stale \ {Top.var}
            /\ toVisit' = toVisit /\ thrown' = thrown
        BY <2>6 DEF FinishVariable, push
      <3>2. CASE n = 1
        <4>1. Top = stack[1]
          BY <3>2, <2>3 DEF Top
        <4> QED BY <4>1, <3>1, <2>1, <2>2 DEF Pulled
      <3>3. CASE n # 1
        <4>1. Len(Below) = n - 1 /\ Below[1] = stack[1] /\ Below \in Seq(Frames)
          BY <3>3, <2>2, <2>3, StackTop
        <4>2. Below # <<>>
          BY <4>1, <3>3, <2>3
        <4> QED BY <4>1, <4>2, <3>1, <2>1, <2>2 DEF Pulled
      <3> QED BY <3>2, <3>3
    <2> QED BY <1>1, <2>1, <2>4, <2>5, <2>6 DEF EngineStep, PullStep, Visit
  <1> QED BY <1>4, <1>5, <1>6, <1>7 DEF RunInv

LEMMA RunStepKeeps ==
  ASSUME RunInv, [Next]_vars
  PROVE  RunInv'
  <1>1. CASE Settled
    <2>1. /\ phase = "settle" /\ Idle /\ ~thrown /\ pulls = {} /\ phase' = "check"
          /\ UNCHANGED <<engine, pending, history, writes, pulls, now>>
      BY <1>1 DEF Settled
    <2>2. stale = {}
      BY <2>1 DEF RunInv, Settling, Pulled, Idle
    <2> QED BY <2>1, <2>2, PhaseKeeps
  <1>2. CASE RuntimeFailure
    BY <1>2, PhaseKeeps DEF RuntimeFailure
  <1>3. CASE Enforce
    BY <1>3, PhaseKeeps DEF Enforce, RunInv, SettledWhenChecked
  <1>4. CASE Succeed
    BY <1>4, PhaseKeeps DEF Succeed, RunInv, SettledWhenChecked
  <1>5. CASE UNCHANGED vars
    <2>1. EngineInv' /\ UNCHANGED <<stale, toVisit, stack, thrown>>
      BY <1>5, EngineUnchanged DEF vars, engine, RunInv
    <2>2. UNCHANGED <<phase, pending, history, writes, pulls, now>>
      BY <1>5 DEF vars, loop
    <2> QED BY <2>1, <2>2 DEF RunInv, LoopOK, SettledWhenChecked, Settling,
                              Pulled, Idle
  <1> QED BY <1>1, <1>2, <1>3, <1>4, <1>5, PopEventKeeps, ApplyWriteKeeps,
             EndOfPayloadKeeps, PullNextKeeps, EngineKeepsRun DEF Next

\* RunInv holds in every state of every run.
LEMMA RunInvariant == Spec => []RunInv
  <1>1. Init => RunInv
    BY RunStarts
  <1>2. RunInv /\ [Next]_vars => RunInv'
    BY RunStepKeeps
  <1> QED BY <1>1, <1>2, PTL DEF Spec

\* The engine and the loop have their types, and the engine is at work only
\* while a payload is applied or the state settles.
THEOREM RunTypeCorrect == Spec => []RunTypeOK
  <1>1. RunInv => RunTypeOK
    BY DEF RunInv, LoopOK, EngineInv, RunTypeOK
  <1> QED BY <1>1, RunInvariant, PTL

\* Constraints only see states in which no variable is stale.
THEOREM ConstraintsSeeSettledStates == Spec => []SettledWhenChecked
  <1>1. RunInv => SettledWhenChecked
    BY DEF RunInv
  <1> QED BY <1>1, RunInvariant, PTL

-----------------------------------------------------------------------------
\* What clean flags vouch for holds throughout a run.
THEOREM RunFlagsTellTheTruth == Spec => []CleanMeansConsistent
  <1>1. Init => ConsistentInv
    <2> SUFFICES ASSUME Init
                 PROVE  ConsistentInv
      OBVIOUS
    <2>1. values = InitialValue /\ stack = <<>>
      BY DEF Init, EngineInit
    <2>2. CleanMeansConsistent
      BY <2>1, CleanUnfolded DEF Consistent
    <2> QED BY <2>1, <2>2 DEF ConsistentInv, Combined
  <1>2. RunInv /\ ConsistentInv /\ [Next]_vars => ConsistentInv'
    <2> SUFFICES ASSUME RunInv, ConsistentInv, [Next]_vars
                 PROVE  ConsistentInv'
      OBVIOUS
    <2>1. CASE UNCHANGED engine
      BY <2>1, ConsistentUnchanged
    <2>2. CASE ApplyWrite
      <3> DEFINE w == Head(writes)
      <3>1. CASE Refused(w)
        BY <2>2, <3>1, ConsistentUnchanged DEF ApplyWrite
      <3>2. CASE ~Refused(w)
        <4>1. /\ values' = [values EXCEPT ![w.var] = Stored(w.var, Amount(w))]
              /\ toVisit = {} /\ toVisit' = {w.var} /\ stale' = stale
              /\ stack' = <<>> /\ writes # <<>>
          BY <2>2, <3>2 DEF ApplyWrite, BeginPush, Idle
        <4>2. w \in WriteRecord
          BY <4>1, HeadTailProperties DEF RunInv, LoopOK
        <4>3. w.var \in Vars /\ values \in [Vars -> Int]
          BY <4>2 DEF WriteRecord, RunInv, EngineInv, EngineTypeOK
        <4>4. CleanMeansConsistent'
          BY <4>1, <4>3, WritingKeepsConsistent DEF ConsistentInv
        <4> QED BY <4>1, <4>4, NoFrameCombined DEF ConsistentInv
      <3> QED BY <3>1, <3>2
    <2>3. CASE PullNext
      <3>1. PICK v \in pulls : /\ Idle
                              /\ \/ BeginPull(v)
                                 \/ v \notin stale /\ UNCHANGED engine
        BY <2>3 DEF PullNext
      <3> QED BY <3>1, PullBeginKeepsConsistent, ConsistentUnchanged DEF RunInv
    <2>4. CASE Run
      BY <2>4, EngineStepKeepsConsistent DEF Run, RunInv
    <2>5. \/ UNCHANGED engine \/ ApplyWrite \/ PullNext \/ Run
      BY DEF Next, PopEvent, EndOfPayload, Settled, RuntimeFailure, Enforce,
             Succeed, vars
    <2> QED BY <2>1, <2>2, <2>3, <2>4, <2>5
  <1>3. ConsistentInv => CleanMeansConsistent
    BY DEF ConsistentInv
  <1> QED BY <1>1, <1>2, <1>3, RunInvariant, PTL DEF Spec

-----------------------------------------------------------------------------
LEMMA EngineBusy ==
  ASSUME Run
  PROVE  ~Idle
  BY DEF Run, EngineStep, PullStep, Visit, Descend, CycleDetected, SourcesDone,
         CombineEdge, FinishVariable, Idle

\* A run goes on, and succeeds, only in states that keep the constraints.
THEOREM SuccessMeansConstraintsHold == Spec => []SuccessKeepsConstraints
  <1>1. Init => SuccessKeepsConstraints
    BY DEF Init, SuccessKeepsConstraints
  <1>2. RunInv /\ SuccessKeepsConstraints /\ [Next]_vars =>
          SuccessKeepsConstraints'
    <2> SUFFICES ASSUME RunInv, SuccessKeepsConstraints, [Next]_vars,
                        phase' \in {"loop", "succeeded"},
                        NEW c \in Constraints, c.level = "REJECT"
                 PROVE  c.readable /\ values'[c.var] <= c.limit
      BY DEF SuccessKeepsConstraints, Holds
    <2>1. CASE Enforce
      <3>1. values' = values /\ ~Rejects(c)
        BY <2>1 DEF Enforce, engine
      <3> QED BY <3>1 DEF Rejects, Unreadable, Holds
    <2>2. CASE Succeed \/ UNCHANGED vars
      <3>1. values' = values /\ phase \in {"loop", "succeeded"}
        BY <2>2 DEF Succeed, vars, engine, loop
      <3> QED BY <3>1 DEF SuccessKeepsConstraints, Holds
    <2>3. ~Run
      <3>1. Run => phase' = phase /\ ~Idle
        BY EngineBusy DEF Run, loop
      <3> QED BY <3>1 DEF RunInv, LoopOK
    <2> QED BY <2>1, <2>2, <2>3 DEF Next, PopEvent, ApplyWrite, EndOfPayload,
                                   PullNext, Settled, RuntimeFailure
  <1> QED BY <1>1, <1>2, RunInvariant, PTL DEF Spec

-----------------------------------------------------------------------------
LEMMA BeforeInOrder ==
  ASSUME NEW e \in Events, NEW f \in Events, Before(e, f)
  PROVE  InOrder(e, f)
  <1>1. /\ Time[e] \in Nat /\ Time[f] \in Nat
        /\ Priority[e] \in Int /\ Priority[f] \in Int
    BY RunAssumption
  <1> QED BY <1>1 DEF Before, InOrder

\* Events are handled in the scheduler's order, each at most once.
THEOREM EventsHandledInOrder == Spec => []HandledInOrder
  <1>1. Init => HandledInOrder
    <2> SUFFICES ASSUME Init
                 PROVE  HandledInOrder
      OBVIOUS
    <2>1. pending = Events /\ history = <<>> /\ now = 0
      BY DEF Init
    <2>2. \A e \in Events : 0 <= Time[e]
      BY RunAssumption
    <2> QED BY <2>1, <2>2 DEF HandledInOrder
  <1>2. RunInv /\ HandledInOrder /\ [Next]_vars => HandledInOrder'
    <2> SUFFICES ASSUME RunInv, HandledInOrder, [Next]_vars
                 PROVE  HandledInOrder'
      OBVIOUS
    <2>1. history \in Seq(Events) /\ pending \subseteq Events /\ now \in Nat
      BY DEF RunInv, LoopOK
    <2>2. CASE PopEvent
      <3>1. PICK e \in pending :
              /\ \A f \in pending \ {e} : Before(e, f)
              /\ pending' = pending \ {e}
              /\ history' = Append(history, e)
              /\ now' = now
        BY <2>2 DEF PopEvent
      <3>2. PICK n \in Nat : n = Len(history)
        BY <2>1
      <3>3. PICK h : h = history'
        OBVIOUS
      <3>4. /\ DOMAIN history = 1 .. n /\ DOMAIN h = 1 .. n + 1
            /\ h[n + 1] = e /\ \A k \in 1 .. n : h[k] = history[k]
        BY <2>1, <3>1, <3>2, <3>3, AppendProperties
      <3>5. \A k \in 1 .. n : InOrder(h[k], e)
        BY <3>1, <3>4 DEF HandledInOrder
      <3>6. \A j, k \in 1 .. n : j < k => InOrder(h[j], h[k])
        BY <3>4 DEF HandledInOrder
      <3>7. \A j, k \in DOMAIN h : j < k => InOrder(h[j], h[k])
        <4> SUFFICES ASSUME NEW j \in 1 .. n + 1, NEW k \in 1 .. n + 1, j < k
                     PROVE  InOrder(h[j], h[k])
          BY <3>4
        <4>1. CASE k = n + 1
          BY <4>1, <3>4, <3>5
        <4>2. CASE k # n + 1
          BY <4>2, <3>6
        <4> QED BY <4>1, <4>2
      <3>8. \A f \in pending' : InOrder(e, f)
        BY <2>1, <3>1, BeforeInOrder
      <3>9. \A k \in DOMAIN h, f \in pending' : InOrder(h[k], f)
        <4> SUFFICES ASSUME NEW k \in 1 .. n + 1, NEW f \in pending'
                     PROVE  InOrder(h[k], f)
          BY <3>4
        <4>1. CASE k = n + 1
          BY <4>1, <3>4, <3>8
        <4>2. CASE k # n + 1
          <5>1. k \in 1 .. n /\ f \in pending
            BY <4>2, <3>1
          <5> QED BY <5>1, <3>4 DEF HandledInOrder
        <4> QED BY <4>1, <4>2
      <3>10. {h[k] : k \in DOMAIN h} = Events \ pending'
        <4>1. {h[k] : k \in 1 .. n + 1} = {h[k] : k \in 1 .. n} \cup {h[n + 1]}
          OBVIOUS
        <4>2. {h[k] : k \in 1 .. n} = {history[k] : k \in 1 .. n}
          BY <3>4
        <4>3. {history[k] : k \in 1 .. n} = Events \ pending
          BY <3>4 DEF HandledInOrder
        <4> QED BY <4>1, <4>2, <4>3, <2>1, <3>1, <3>4
      <3>11. \A f \in pending' : now' <= Time[f]
        BY <3>1 DEF HandledInOrder
      <3> QED BY <3>3, <3>7, <3>9, <3>10, <3>11 DEF HandledInOrder, InOrder
    <2>3. CASE EndOfPayload
      <3>1. /\ phase = "apply" /\ now' = Time[history[Len(history)]]
            /\ UNCHANGED <<pending, history>>
        BY <2>3 DEF EndOfPayload
      <3>2. Len(history) \in DOMAIN history
        BY <2>1, <3>1 DEF RunInv, LoopOK
      <3>3. \A f \in pending : now' <= Time[f]
        BY <3>1, <3>2 DEF HandledInOrder, InOrder
      <3> QED BY <3>1, <3>3 DEF HandledInOrder, InOrder
    <2>4. CASE UNCHANGED <<pending, history, now>>
      BY <2>4 DEF HandledInOrder, InOrder
    <2>5. PopEvent \/ EndOfPayload \/ UNCHANGED <<pending, history, now>>
      BY DEF Next, ApplyWrite, PullNext, Settled, RuntimeFailure, Enforce,
             Succeed, Run, vars, loop
    <2> QED BY <2>2, <2>3, <2>4, <2>5
  <1> QED BY <1>1, <1>2, RunInvariant, PTL DEF Spec
===============================================================================
