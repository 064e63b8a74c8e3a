----------------------- MODULE ScenarioResolverProofs -----------------------
(***************************************************************************)
(* Proofs about the resolution of imports: types, each file opened once,   *)
(* circular imports reported when, and only when, there are any, and names *)
(* bound lexically in what is composed.                                    *)
(***************************************************************************)
EXTENDS ScenarioComposition, Integers, SequenceTheorems, FiniteSetTheorems,
        WellFoundedInduction, TLAPS

Ids == Seq(Names \cup Namespaces)

LEMMA ScenarioFields ==
  ASSUME NEW s \in Scenario
  PROVE  /\ s.items \in Seq(Item)
         /\ s.world \in Worlds \cup {None}
         /\ s = [items |-> s.items, world |-> s.world]
         /\ s # None
  BY FilesAssumption DEF Scenario

\* Prefixing a fragment gives a scenario (prefix_fragment).
LEMMA PrefixType ==
  ASSUME NEW ns \in Namespaces, NEW s \in Scenario
  PROVE  PrefixFragment(ns, s) \in Scenario
  <1> DEFINE items == [i \in DOMAIN s.items |->
                         [s.items[i] EXCEPT
                            !.id = Prefixed(ns, @),
                            !.refs = {Renamed(ns, r, s.items) : r \in @}]]
  <1>1. s.items \in Seq(Item) /\ s.world \in Worlds \cup {None}
    BY ScenarioFields
  <1>2. ASSUME NEW id \in Ids PROVE <<ns>> \o id \in Ids
    <2>1. <<ns>> \in Ids
      BY DEF Ids
    <2> QED BY <2>1, ConcatProperties DEF Ids
  <1>3. ASSUME NEW r \in Reference PROVE Renamed(ns, r, s.items) \in Reference
    <2>1. r.name \in Ids /\ <<ns>> \o r.name \in Ids
      BY <1>2 DEF Reference, Ids
    <2>2. <<ns>> \o r.name # <<>>
      BY <2>1 DEF Ids
    <2> QED BY <2>1, <2>2 DEF Renamed, Reference, Ids
  <1>4. \A i \in DOMAIN s.items : items[i] \in Item
    <2> SUFFICES ASSUME NEW i \in DOMAIN s.items PROVE items[i] \in Item
      OBVIOUS
    <2>1. s.items[i] \in Item
      BY <1>1
    <2>2. Prefixed(ns, s.items[i].id) \in Ids
      BY <1>2, <2>1 DEF Prefixed, Item, Ids
    <2>3. {Renamed(ns, r, s.items) : r \in s.items[i].refs} \in SUBSET Reference
      BY <1>3, <2>1 DEF Item
    <2>4. items[i] = [kind |-> s.items[i].kind,
                      id |-> Prefixed(ns, s.items[i].id),
                      refs |-> {Renamed(ns, r, s.items) : r \in s.items[i].refs}]
      BY <2>1 DEF Item
    <2> HIDE DEF items
    <2> QED BY <2>1, <2>2, <2>3, <2>4 DEF Item, Ids
  <1>5. DOMAIN s.items = 1 .. Len(s.items) /\ Len(s.items) \in Nat
    BY <1>1
  <1>6. items \in Seq(Item)
    <2>1. DOMAIN items = DOMAIN s.items
      OBVIOUS
    <2>2. items = [i \in 1 .. Len(s.items) |-> items[i]]
      BY <1>5
    <2> HIDE DEF items
    <2> QED BY <1>4, <1>5, <2>1, <2>2, SeqDef
  <1>7. PrefixFragment(ns, s) = [items |-> items, world |-> s.world]
    <2>1. \A v : [s EXCEPT !.items = v] = [items |-> v, world |-> s.world]
      BY DEF Scenario
    <2>2. PrefixFragment(ns, s) = [s EXCEPT !.items = items]
      BY Zenon DEF PrefixFragment
    <2> HIDE DEF items
    <2> QED BY <2>1, <2>2
  <1> HIDE DEF items
  <1> QED BY <1>1, <1>6, <1>7 DEF Scenario

LEMMA MergedType ==
  ASSUME NEW s \in Scenario, NEW t \in Scenario
  PROVE  Merged(s, t) \in Scenario
  <1>1. s.items \o t.items \in Seq(Item)
    BY ScenarioFields, ConcatProperties
  <1> QED BY <1>1, ScenarioFields DEF Merged, Scenario

-----------------------------------------------------------------------------
(***************************************************************************)
(* The inductive invariant.  What a call has already merged, and what has  *)
(* just been returned to it, is cached; a call is made for an import of    *)
(* the call below it; and the cache holds no cycle, because a file enters  *)
(* it after all of its imports.                                            *)
(***************************************************************************)
CallsAreImports ==
  /\ stack # <<>> => stack[1].file = Root
  /\ \A k \in 1 .. Len(stack) - 1 :
       /\ stack[k].next \in DOMAIN ImportsOf(stack[k].file)
       /\ stack[k + 1].file = ImportsOf(stack[k].file)[stack[k].next].path

MergedIsCached ==
  \A k \in DOMAIN stack : \A i \in DOMAIN ImportsOf(stack[k].file) :
    i < stack[k].next => ImportsOf(stack[k].file)[i].path \in DOMAIN cache

ReturnedIsCached ==
  returned # None =>
    /\ stack # <<>> => Top.next \in DOMAIN ImportsOf(Top.file)
    /\ Wanted \in DOMAIN cache

OpenedIsKnown ==
  {resolvedFiles[k] : k \in DOMAIN resolvedFiles} = visiting \cup DOMAIN cache

CacheAcyclic ==
  /\ ClosedUnderImport(DOMAIN cache)
  /\ \A S \in SUBSET DOMAIN cache : ~Cyclic(S)

ResolverInv ==
  /\ ResolverTypeOK
  /\ OpenedOnce
  /\ CallsAreImports
  /\ MergedIsCached
  /\ ReturnedIsCached
  /\ OpenedIsKnown
  /\ CacheAcyclic
  /\ visiting \subseteq Reachable
  /\ error = "circular" => HasCycle
  /\ status = "resolved" => returned # None /\ stack = <<>>

LEMMA ResolverStarts == Init => ResolverInv
  <1> SUFFICES ASSUME Init PROVE ResolverInv
    OBVIOUS
  <1>1. stack = <<>> /\ DOMAIN stack = {} /\ DOMAIN resolvedFiles = {}
        /\ DOMAIN cache = {} /\ Len(stack) = 0
    BY DEF Init
  <1>2. ResolverTypeOK
    BY <1>1, FilesAssumption DEF Init, ResolverTypeOK
  <1>3. OpenedOnce /\ MergedIsCached /\ OpenedIsKnown /\ ReturnedIsCached
    BY <1>1 DEF Init, OpenedOnce, MergedIsCached, OpenedIsKnown, ReturnedIsCached
  <1>4. CallsAreImports
    BY <1>1 DEF CallsAreImports
  <1>5. CacheAcyclic
    BY <1>1 DEF CacheAcyclic, ClosedUnderImport, Cyclic
  <1> QED BY <1>2, <1>3, <1>4, <1>5 DEF Init, ResolverInv

\* What is known of the innermost call and of the file it asks for.
LEMMA StackFacts ==
  ASSUME ResolverInv
  PROVE  /\ stack \in Seq(Frame)
         /\ Len(stack) \in Nat
         /\ DOMAIN stack = 1 .. Len(stack)
         /\ \A k \in DOMAIN stack :
              /\ stack[k].file \in Files
              /\ stack[k].next \in Nat \ {0}
              /\ stack[k].scenario \in Scenario
         /\ \A f \in Files : /\ ImportsOf(f) \in Seq(Import)
                             /\ disk[f].scenario \in Scenario
                             /\ Imported(f) \subseteq Files
         /\ stack # <<>> => /\ Len(stack) \in DOMAIN stack
                            /\ Len(stack) > 0
                            /\ Top \in Frame
                            /\ Top.file \in Files
         /\ stack = <<>> <=> Len(stack) = 0
  <1>1. stack \in Seq(Frame) /\ disk \in [Files -> Document]
    BY DEF ResolverInv, ResolverTypeOK
  <1>2. Len(stack) \in Nat /\ DOMAIN stack = 1 .. Len(stack)
        /\ (stack = <<>> <=> Len(stack) = 0)
    BY <1>1
  <1>3. \A k \in DOMAIN stack : stack[k] \in Frame
    BY <1>1
  <1>4. ASSUME NEW f \in Files
        PROVE  /\ ImportsOf(f) \in Seq(Import)
               /\ disk[f].scenario \in Scenario
               /\ Imported(f) \subseteq Files
    <2>1. ImportsOf(f) \in Seq(Import) /\ disk[f].scenario \in Scenario
      BY <1>1 DEF Document, ImportsOf
    <2>2. \A i \in DOMAIN ImportsOf(f) : ImportsOf(f)[i] \in Import
      BY <2>1
    <2> QED BY <2>1, <2>2 DEF Imported, Import
  <1>5. stack # <<>> => Len(stack) \in DOMAIN stack /\ Len(stack) > 0
    BY <1>2
  <1>6. stack # <<>> => Top \in Frame
    BY <1>3, <1>5 DEF Top
  <1>7. \A fr \in Frame : /\ fr.file \in Files
                          /\ fr.next \in Nat \ {0}
                          /\ fr.scenario \in Scenario
    BY DEF Frame
  <1> QED BY <1>1, <1>2, <1>3, <1>4, <1>5, <1>6, <1>7

LEMMA WantedFacts ==
  ASSUME ResolverInv,
         stack # <<>> => Top.next \in DOMAIN ImportsOf(Top.file)
  PROVE  /\ Wanted \in Files
         /\ stack # <<>> => Wanted \in Imported(Top.file)
  <1>1. CASE stack = <<>>
    BY <1>1, FilesAssumption DEF Wanted
  <1>2. CASE stack # <<>>
    <2>1. Wanted \in Imported(Top.file)
      BY <1>2 DEF Wanted, Imported
    <2> QED BY <1>2, <2>1, StackFacts
  <1> QED BY <1>1, <1>2

-----------------------------------------------------------------------------
LEMMA RootIsReachable == Root \in Reachable
  BY FilesAssumption DEF Reachable

LEMMA ImportsAreReachable ==
  ASSUME NEW f \in Reachable, NEW g \in Imported(f), g \in Files
  PROVE  g \in Reachable
  BY DEF Reachable, ClosedUnderImport

\* A call for a file that is being visited closes a cycle: the calls from that
\* file's own to the innermost one.
LEMMA CircularCall ==
  ASSUME ResolverInv, Calling, Wanted \in visiting
  PROVE  HasCycle
  <1>1. visiting = {stack[k].file : k \in DOMAIN stack} /\ visiting \subseteq Reachable
    BY DEF ResolverInv, OpenedOnce
  <1>2. PICK k \in DOMAIN stack : stack[k].file = Wanted
    BY <1>1
  <1>3. stack # <<>> /\ Wanted \in Imported(Top.file)
    BY <1>2, StackFacts, WantedFacts DEF Calling
  <1> DEFINE S == {stack[j].file : j \in k .. Len(stack)}
  <1>4. \A j \in k .. Len(stack) : j \in DOMAIN stack
    BY StackFacts
  <1>5. S \subseteq Reachable
    BY <1>1, <1>4
  <1>6. Wanted \in S
    BY <1>2, StackFacts
  <1>7. ASSUME NEW j \in k .. Len(stack)
        PROVE  Imported(stack[j].file) \cap S # {}
    <2>1. CASE j = Len(stack)
      BY <1>3, <1>6, <2>1 DEF Top
    <2>2. CASE j # Len(stack)
      <3>1. j \in 1 .. Len(stack) - 1 /\ j + 1 \in k .. Len(stack)
        <4>1. Len(stack) \in Nat /\ k \in 1 .. Len(stack)
          BY StackFacts
        <4> QED BY <4>1, <1>7, <2>2
      <3>2. stack[j + 1].file \in Imported(stack[j].file)
        BY <3>1 DEF ResolverInv, CallsAreImports, Imported
      <3> QED BY <3>1, <3>2
    <2> QED BY <2>1, <2>2
  <1>8. Cyclic(S)
    BY <1>6, <1>7 DEF Cyclic
  <1> QED BY <1>5, <1>8 DEF HasCycle

LEMMA CycleKept == ASSUME disk' = disk PROVE HasCycle' = HasCycle
  BY DEF HasCycle, Reachable, Cyclic, ClosedUnderImport, Imported, ImportsOf

LEMMA CacheKept ==
  ASSUME disk' = disk, cache' = cache, CacheAcyclic
  PROVE  CacheAcyclic'
  <1>1. ClosedUnderImport(DOMAIN cache)'
    BY DEF CacheAcyclic, ClosedUnderImport, Imported, ImportsOf
  <1>2. ASSUME NEW S \in SUBSET DOMAIN cache' PROVE ~Cyclic(S)'
    <2>1. Cyclic(S)' = Cyclic(S)
      BY DEF Cyclic, Imported, ImportsOf
    <2> QED BY <1>2, <2>1 DEF CacheAcyclic
  <1> QED BY <1>1, <1>2 DEF CacheAcyclic

\* The steps that throw.
LEMMA FailStep ==
  ASSUME ResolverInv, NEW what, Fail(what),
         what \in {"circular", "unreadable", "namespace", "duplicate", "world",
                   "invalid"},
         what = "circular" => HasCycle
  PROVE  ResolverInv'
  <1>1. UNCHANGED <<disk, visiting, cache, resolvedFiles, stack, returned>>
        /\ status' = "failed" /\ error' = what
    BY DEF Fail
  <1>2. ResolverTypeOK'
    BY <1>1 DEF ResolverInv, ResolverTypeOK
  <1>3. OpenedOnce' /\ CallsAreImports' /\ MergedIsCached' /\ OpenedIsKnown'
    <2>1. OpenedOnce'
      BY <1>1 DEF ResolverInv, OpenedOnce
    <2>2. CallsAreImports'
      BY <1>1 DEF ResolverInv, CallsAreImports, ImportsOf
    <2>3. MergedIsCached'
      BY <1>1 DEF ResolverInv, MergedIsCached, ImportsOf
    <2>4. OpenedIsKnown'
      BY <1>1 DEF ResolverInv, OpenedIsKnown
    <2> QED BY <2>1, <2>2, <2>3, <2>4
  <1>4. ReturnedIsCached'
    BY <1>1 DEF ResolverInv, ReturnedIsCached, ImportsOf, Wanted, Top
  <1>5. CacheAcyclic'
    BY <1>1, CacheKept DEF ResolverInv
  <1>6. (visiting \subseteq Reachable)'
    BY <1>1 DEF ResolverInv, Reachable, ClosedUnderImport, Imported, ImportsOf
  <1>7. HasCycle' = HasCycle
    BY <1>1, CycleKept
  <1> QED BY <1>1, <1>2, <1>3, <1>4, <1>5, <1>6, <1>7 DEF ResolverInv

LEMMA TakeFromCacheStep ==
  ASSUME ResolverInv, TakeFromCache
  PROVE  ResolverInv'
  <1>1. UNCHANGED <<disk, visiting, cache, resolvedFiles, stack, status, error>>
        /\ returned' = cache[Wanted] /\ Wanted \in DOMAIN cache
        /\ (stack # <<>> => Top.next \in DOMAIN ImportsOf(Top.file))
        /\ status = "running"
    BY DEF TakeFromCache, Calling, Running
  <1>2. ResolverTypeOK'
    BY <1>1 DEF ResolverInv, ResolverTypeOK
  <1>3. OpenedOnce' /\ CallsAreImports' /\ MergedIsCached' /\ OpenedIsKnown'
    <2>1. OpenedOnce'
      BY <1>1 DEF ResolverInv, OpenedOnce
    <2>2. CallsAreImports'
      BY <1>1 DEF ResolverInv, CallsAreImports, ImportsOf
    <2>3. MergedIsCached'
      BY <1>1 DEF ResolverInv, MergedIsCached, ImportsOf
    <2>4. OpenedIsKnown'
      BY <1>1 DEF ResolverInv, OpenedIsKnown
    <2> QED BY <2>1, <2>2, <2>3, <2>4
  <1>4. ReturnedIsCached'
    BY <1>1 DEF ReturnedIsCached, ImportsOf, Wanted, Top
  <1>5. CacheAcyclic'
    BY <1>1, CacheKept DEF ResolverInv
  <1>6. (visiting \subseteq Reachable)'
    BY <1>1 DEF ResolverInv, Reachable, ClosedUnderImport, Imported, ImportsOf
  <1>7. HasCycle' = HasCycle
    BY <1>1, CycleKept
  <1> QED BY <1>1, <1>2, <1>3, <1>4, <1>5, <1>6, <1>7 DEF ResolverInv

\* A file is opened: its call is the innermost one, and it is visited.
LEMMA OpenStep ==
  ASSUME ResolverInv, Open
  PROVE  ResolverInv'
  <1> DEFINE call == [file |-> Wanted, next |-> 1, scenario |-> disk[Wanted].scenario]
  <1>1. /\ UNCHANGED <<disk, cache, returned, status, error>>
        /\ visiting' = visiting \cup {Wanted}
        /\ resolvedFiles' = Append(resolvedFiles, Wanted)
        /\ stack' = Append(stack, call)
        /\ Wanted \notin visiting /\ Wanted \notin DOMAIN cache
        /\ (stack # <<>> => Top.next \in DOMAIN ImportsOf(Top.file))
        /\ status = "running" /\ returned = None
    BY DEF Open, Calling, Running
  <1>2. Wanted \in Files /\ (stack # <<>> => Wanted \in Imported(Top.file))
    BY <1>1, WantedFacts
  <1>3. call \in Frame
    BY <1>2, StackFacts DEF Frame
  <1>4. /\ stack' \in Seq(Frame)
        /\ Len(stack') = Len(stack) + 1 /\ Len(stack) \in Nat
        /\ DOMAIN stack = 1 .. Len(stack) /\ DOMAIN stack' = 1 .. Len(stack) + 1
        /\ \A k \in DOMAIN stack : stack'[k] = stack[k]
        /\ stack'[Len(stack) + 1] = call
    BY <1>1, <1>3, StackFacts
  <1>5. /\ resolvedFiles \in Seq(Files) /\ Len(resolvedFiles) \in Nat
        /\ DOMAIN resolvedFiles = 1 .. Len(resolvedFiles)
        /\ DOMAIN resolvedFiles' = 1 .. Len(resolvedFiles) + 1
        /\ \A k \in DOMAIN resolvedFiles : resolvedFiles'[k] = resolvedFiles[k]
        /\ resolvedFiles'[Len(resolvedFiles) + 1] = Wanted
        /\ resolvedFiles' \in Seq(Files)
    BY <1>1, <1>2 DEF ResolverInv, ResolverTypeOK
  <1>6. /\ call.file = Wanted /\ call.next = 1
    OBVIOUS
  <1> HIDE DEF call
  <1>7. ResolverTypeOK'
    BY <1>1, <1>2, <1>4, <1>5 DEF ResolverInv, ResolverTypeOK
  <1>8. OpenedOnce'
    <2>1. visiting' = {stack'[k].file : k \in DOMAIN stack'}
      BY <1>1, <1>4, <1>6 DEF ResolverInv, OpenedOnce
    <2>2. \A j \in DOMAIN stack : stack[j].file # Wanted
      BY <1>1 DEF ResolverInv, OpenedOnce
    <2>3. \A j, k \in DOMAIN stack' : stack'[j].file = stack'[k].file => j = k
      BY <1>4, <1>6, <2>2 DEF ResolverInv, OpenedOnce
    <2>4. \A j \in DOMAIN resolvedFiles : resolvedFiles[j] # Wanted
      BY <1>1 DEF ResolverInv, OpenedIsKnown
    <2>5. \A j, k \in DOMAIN resolvedFiles' : resolvedFiles'[j] = resolvedFiles'[k] => j = k
      BY <1>5, <2>4 DEF ResolverInv, OpenedOnce
    <2>6. visiting' \cap DOMAIN cache' = {}
      BY <1>1 DEF ResolverInv, OpenedOnce
    <2> QED BY <2>1, <2>3, <2>5, <2>6 DEF OpenedOnce
  <1>9. CallsAreImports'
    <2>1. stack'[1].file = Root
      <3>1. CASE stack = <<>>
        BY <1>4, <1>6, <3>1, StackFacts DEF Wanted
      <3>2. CASE stack # <<>>
        BY <1>4, <3>2, StackFacts DEF ResolverInv, CallsAreImports
      <3> QED BY <3>1, <3>2
    <2>2. ASSUME NEW k \in 1 .. Len(stack') - 1
          PROVE  /\ stack'[k].next \in DOMAIN ImportsOf(stack'[k].file)
                 /\ stack'[k + 1].file = ImportsOf(stack'[k].file)[stack'[k].next].path
      <3>1. k \in DOMAIN stack /\ stack'[k] = stack[k] /\ stack # <<>>
        BY <1>4, StackFacts
      <3>2. CASE k = Len(stack)
        BY <1>1, <1>4, <1>6, <3>1, <3>2 DEF Wanted, Top
      <3>3. CASE k # Len(stack)
        <4>1. k \in 1 .. Len(stack) - 1 /\ k + 1 \in DOMAIN stack
          BY <1>4, <3>1, <3>3
        <4> QED BY <1>4, <3>1, <4>1 DEF ResolverInv, CallsAreImports
      <3> QED BY <3>2, <3>3
    <2>3. \A f : ImportsOf(f)' = ImportsOf(f)
      BY <1>1 DEF ImportsOf
    <2> QED BY <2>1, <2>2, <2>3 DEF CallsAreImports
  <1>10. MergedIsCached'
    <2> SUFFICES ASSUME NEW k \in DOMAIN stack', NEW i \in DOMAIN ImportsOf(stack'[k].file),
                        i < stack'[k].next
                 PROVE  ImportsOf(stack'[k].file)[i].path \in DOMAIN cache
      BY <1>1 DEF MergedIsCached, ImportsOf
    <2>1. CASE k \in DOMAIN stack
      BY <1>4, <2>1 DEF ResolverInv, MergedIsCached
    <2>2. CASE k = Len(stack) + 1
      <3>1. ImportsOf(Wanted) \in Seq(Import)
        BY <1>2, StackFacts
      <3>2. i \in Nat \ {0} /\ i < 1
        BY <1>4, <1>6, <2>2, <3>1
      <3> QED BY <3>2
    <2> QED BY <1>4, <2>1, <2>2
  <1>11. ReturnedIsCached'
    BY <1>1 DEF ReturnedIsCached
  <1>12. OpenedIsKnown'
    BY <1>1, <1>5 DEF ResolverInv, OpenedIsKnown
  <1>13. CacheAcyclic'
    BY <1>1, CacheKept DEF ResolverInv
  <1>14. (visiting \subseteq Reachable)'
    <2>1. Wanted \in Reachable
      <3>1. CASE stack = <<>>
        BY <3>1, RootIsReachable DEF Wanted
      <3>2. CASE stack # <<>>
        <4>1. Top.file \in Reachable
          BY <3>2, StackFacts DEF ResolverInv, OpenedOnce, Top
        <4> QED BY <1>2, <3>2, <4>1, ImportsAreReachable
      <3> QED BY <3>1, <3>2
    <2>2. Reachable' = Reachable
      BY <1>1 DEF Reachable, ClosedUnderImport, Imported, ImportsOf
    <2> QED BY <1>1, <2>1, <2>2 DEF ResolverInv
  <1>15. HasCycle' = HasCycle
    BY <1>1, CycleKept
  <1> QED
    BY <1>1, <1>7, <1>8, <1>9, <1>10, <1>11, <1>12, <1>13, <1>14, <1>15
    DEF ResolverInv

\* What was returned is merged: the call goes on to its next import.
LEMMA ComposeStep ==
  ASSUME ResolverInv, Compose
  PROVE  ResolverInv'
  <1> DEFINE call == Advanced(Top)
  <1>1. /\ UNCHANGED <<disk, visiting, cache, resolvedFiles, status, error>>
        /\ returned' = None
        /\ stack # <<>> /\ returned # None /\ status = "running"
        /\ ImportsOf(Top.file)[Top.next].ns # Malformed
    BY DEF Compose, Composing, Running
  <1>2. stack' = [stack EXCEPT ![Len(stack)] = call]
    BY DEF Compose
  <1>3. Top.next \in DOMAIN ImportsOf(Top.file) /\ Wanted \in DOMAIN cache
        /\ Wanted = ImportsOf(Top.file)[Top.next].path
    BY <1>1 DEF ResolverInv, ReturnedIsCached, Wanted
  <1>4. Fragment \in Scenario
    <2>1. ImportsOf(Top.file)[Top.next] \in Import /\ returned \in Scenario
      BY <1>1, <1>3, StackFacts DEF ResolverInv, ResolverTypeOK
    <2>2. ImportsOf(Top.file)[Top.next].ns \in Namespaces \cup {None}
      BY <1>1, <2>1 DEF Import
    <2> QED BY <2>1, <2>2, PrefixType DEF Fragment, InNamespace
  <1>5. call \in Frame /\ call.file = Top.file /\ call.next = Top.next + 1
    <2>1. Top \in Frame
      BY <1>1, StackFacts
    <2>2. Merged(Top.scenario, Fragment) \in Scenario /\ Top.next + 1 \in Nat \ {0}
      BY <1>4, <2>1, MergedType DEF Frame
    <2> QED BY <2>1, <2>2 DEF Frame, Advanced
  <1> HIDE DEF call
  <1>6. /\ stack \in Seq(Frame) /\ Len(stack) \in Nat
        /\ DOMAIN stack = 1 .. Len(stack) /\ Len(stack) \in DOMAIN stack
    BY <1>1, StackFacts
  <1>7. /\ stack' \in Seq(Frame) /\ Len(stack') = Len(stack)
        /\ DOMAIN stack' = DOMAIN stack
        /\ \A k \in DOMAIN stack : k # Len(stack) => stack'[k] = stack[k]
        /\ stack'[Len(stack)] = call
        /\ stack' # <<>>
    BY <1>2, <1>5, <1>6
  <1>8. \A k \in DOMAIN stack : stack'[k].file = stack[k].file
    BY <1>5, <1>7 DEF Top
  <1>9. ResolverTypeOK'
    BY <1>1, <1>7 DEF ResolverInv, ResolverTypeOK
  <1>10. OpenedOnce'
    BY <1>1, <1>7, <1>8 DEF ResolverInv, OpenedOnce
  <1>11. \A f : ImportsOf(f)' = ImportsOf(f)
    BY <1>1 DEF ImportsOf
  <1>12. CallsAreImports'
    <2>1. stack'[1].file = Root
      BY <1>1, <1>6, <1>8 DEF ResolverInv, CallsAreImports
    <2>2. ASSUME NEW k \in 1 .. Len(stack') - 1
          PROVE  /\ stack'[k].next \in DOMAIN ImportsOf(stack'[k].file)
                 /\ stack'[k + 1].file = ImportsOf(stack'[k].file)[stack'[k].next].path
      <3>1. k \in 1 .. Len(stack) - 1 /\ k \in DOMAIN stack /\ k + 1 \in DOMAIN stack
            /\ k # Len(stack)
        <4>1. Len(stack') = Len(stack) /\ Len(stack) \in Nat
              /\ DOMAIN stack = 1 .. Len(stack)
          BY <1>6, <1>7
        <4>2. k \in 1 .. Len(stack) - 1
          BY <2>2, <4>1
        <4> HIDE <2>2
        <4> QED BY <4>1, <4>2
      <3>2. stack'[k] = stack[k] /\ stack'[k + 1].file = stack[k + 1].file
        BY <1>7, <1>8, <3>1
      <3> QED BY <3>1, <3>2 DEF ResolverInv, CallsAreImports
    <2> QED BY <1>11, <2>1, <2>2 DEF CallsAreImports
  <1>13. MergedIsCached'
    <2> SUFFICES ASSUME NEW k \in DOMAIN stack, NEW i \in DOMAIN ImportsOf(stack[k].file),
                        i < stack'[k].next
                 PROVE  ImportsOf(stack[k].file)[i].path \in DOMAIN cache
      BY <1>1, <1>7, <1>8, <1>11 DEF MergedIsCached
    <2>1. CASE i < stack[k].next
      BY <2>1 DEF ResolverInv, MergedIsCached
    <2>2. CASE ~(i < stack[k].next)
      <3>1. k = Len(stack)
        BY <1>7, <2>2
      <3>2. i \in Nat /\ Top.next \in Nat
        <4>1. ImportsOf(stack[k].file) \in Seq(Import) /\ stack[k].next \in Nat
          BY StackFacts
        <4> QED BY <3>1, <4>1 DEF Top
      <3>3. i = Top.next
        BY <1>5, <1>7, <2>2, <3>1, <3>2 DEF Top
      <3> QED BY <1>3, <3>1, <3>3 DEF Top
    <2> QED BY <2>1, <2>2
  <1>14. ReturnedIsCached'
    BY <1>1 DEF ReturnedIsCached
  <1>15. OpenedIsKnown'
    BY <1>1 DEF ResolverInv, OpenedIsKnown
  <1>16. CacheAcyclic'
    BY <1>1, CacheKept DEF ResolverInv
  <1>17. (visiting \subseteq Reachable)'
    BY <1>1 DEF ResolverInv, Reachable, ClosedUnderImport, Imported, ImportsOf
  <1>18. HasCycle' = HasCycle
    BY <1>1, CycleKept
  <1> QED
    BY <1>1, <1>9, <1>10, <1>12, <1>13, <1>14, <1>15, <1>16, <1>17, <1>18
    DEF ResolverInv

\* A call returns when all of its imports are cached: its file joins them, and
\* closes no cycle, as no file that is cached imports it.
LEMMA ReturnedFileClosesNoCycle ==
  ASSUME CacheAcyclic, NEW f, f \notin DOMAIN cache,
         Imported(f) \subseteq DOMAIN cache
  PROVE  /\ ClosedUnderImport(DOMAIN cache \cup {f})
         /\ \A S \in SUBSET (DOMAIN cache \cup {f}) : ~Cyclic(S)
  <1>1. ClosedUnderImport(DOMAIN cache \cup {f})
    BY DEF CacheAcyclic, ClosedUnderImport
  <1>2. SUFFICES ASSUME NEW S \in SUBSET (DOMAIN cache \cup {f}), Cyclic(S)
                 PROVE  FALSE
    BY <1>1
  <1>3. \A g \in S : Imported(g) \subseteq DOMAIN cache
    BY DEF CacheAcyclic, ClosedUnderImport
  <1>4. \A g \in S : Imported(g) \cap (S \ {f}) # {}
    <2> SUFFICES ASSUME NEW g \in S PROVE Imported(g) \cap (S \ {f}) # {}
      OBVIOUS
    <2>1. PICK h \in Imported(g) : h \in S
      BY <1>2 DEF Cyclic
    <2>2. h # f
      BY <1>3, <2>1
    <2> QED BY <2>1, <2>2
  <1>5. Cyclic(S \ {f}) /\ S \ {f} \in SUBSET DOMAIN cache
    <2>1. PICK g : g \in S
      BY <1>2 DEF Cyclic
    <2>2. S \ {f} # {}
      BY <1>4, <2>1
    <2> QED BY <1>4, <2>2 DEF Cyclic
  <1> QED BY <1>5 DEF CacheAcyclic

LEMMA ReturnStep ==
  ASSUME ResolverInv, Return
  PROVE  ResolverInv'
  <1> DEFINE f == Top.file
             n == Len(stack)
  <1>1. /\ UNCHANGED <<disk, resolvedFiles, status, error>>
        /\ visiting' = visiting \ {f}
        /\ returned' = Top.scenario
        /\ stack' = SubSeq(stack, 1, n - 1)
        /\ stack # <<>> /\ status = "running"
        /\ Top.next \notin DOMAIN ImportsOf(f)
    BY DEF Return, Running
  <1>2. cache' = [g \in DOMAIN cache \cup {f} |->
                    IF g \in DOMAIN cache THEN cache[g] ELSE Top.scenario]
    BY DEF Return
  <1>3. /\ n \in Nat /\ n > 0 /\ n \in DOMAIN stack
        /\ DOMAIN stack = 1 .. n /\ stack \in Seq(Frame)
        /\ f \in Files /\ Top.scenario \in Scenario /\ Top.next \in Nat \ {0}
        /\ f = stack[n].file /\ Top = stack[n]
    BY <1>1, StackFacts DEF Top
  <1>4. /\ stack' \in Seq(Frame) /\ Len(stack') = n - 1
        /\ DOMAIN stack' = 1 .. n - 1
        /\ \A k \in 1 .. n - 1 : k \in DOMAIN stack /\ stack'[k] = stack[k]
    <2>1. n - 1 \in Nat
      BY <1>3
    <2>2. SubSeq(stack, 1, n - 1) \in Seq(Frame) /\ Len(SubSeq(stack, 1, n - 1)) = n - 1
      BY <1>3, <2>1, SubSeqProperties
    <2>3. \A k \in 1 .. n - 1 : SubSeq(stack, 1, n - 1)[k] = stack[k]
      BY <1>3, <2>1
    <2> HIDE DEF n
    <2> QED BY <1>1, <1>3, <2>2, <2>3
  <1>5. DOMAIN cache' = DOMAIN cache \cup {f}
    BY <1>2
  <1>6. Imported(f) \subseteq DOMAIN cache
    <2>1. ASSUME NEW i \in DOMAIN ImportsOf(f) PROVE ImportsOf(f)[i].path \in DOMAIN cache
      <3>1. ImportsOf(f) \in Seq(Import)
        BY <1>3, StackFacts
      <3>2. i < Top.next
        <4>1. Len(ImportsOf(f)) \in Nat /\ DOMAIN ImportsOf(f) = 1 .. Len(ImportsOf(f))
          BY <3>1
        <4> HIDE DEF f
        <4> QED BY <1>1, <1>3, <4>1
      <3> QED BY <1>3, <3>2 DEF ResolverInv, MergedIsCached
    <2> QED BY <2>1 DEF Imported
  <1>7. f \in visiting /\ f \notin DOMAIN cache
    BY <1>3 DEF ResolverInv, OpenedOnce
  <1> HIDE DEF f, n
  <1>8. ResolverTypeOK'
    <2>1. \A g \in DOMAIN cache' : cache'[g] \in Scenario
      BY <1>2, <1>3 DEF ResolverInv, ResolverTypeOK
    <2>2. visiting' \subseteq Files /\ DOMAIN cache' \subseteq Files
      BY <1>1, <1>3, <1>5 DEF ResolverInv, ResolverTypeOK
    <2> QED BY <1>1, <1>3, <1>4, <2>1, <2>2 DEF ResolverInv, ResolverTypeOK
  <1>9. OpenedOnce'
    <2>1. ASSUME NEW g \in visiting, g # f
          PROVE  \E k \in 1 .. n - 1 : g = stack[k].file
      <3>1. PICK k \in DOMAIN stack : g = stack[k].file
        BY <2>1 DEF ResolverInv, OpenedOnce
      <3>2. k # n
        BY <1>3, <2>1, <3>1
      <3> QED BY <1>3, <3>1, <3>2
    <2>2. ASSUME NEW k \in 1 .. n - 1
          PROVE  stack[k].file \in visiting /\ stack[k].file # f
      <3>1. k # n /\ k \in DOMAIN stack
        BY <1>3
      <3> QED BY <1>3, <3>1 DEF ResolverInv, OpenedOnce
    <2>3. visiting' = {stack'[k].file : k \in DOMAIN stack'}
      BY <1>1, <1>4, <2>1, <2>2
    <2>4. \A j, k \in DOMAIN stack' : stack'[j].file = stack'[k].file => j = k
      BY <1>4 DEF ResolverInv, OpenedOnce
    <2>5. visiting' \cap DOMAIN cache' = {}
      BY <1>1, <1>5 DEF ResolverInv, OpenedOnce
    <2> QED BY <1>1, <2>3, <2>4, <2>5 DEF ResolverInv, OpenedOnce
  <1>10. \A g : ImportsOf(g)' = ImportsOf(g)
    BY <1>1 DEF ImportsOf
  <1>11. CallsAreImports'
    <2>1. stack' # <<>> => stack'[1].file = Root
      BY <1>1, <1>3, <1>4 DEF ResolverInv, CallsAreImports
    <2>2. ASSUME NEW k \in 1 .. Len(stack') - 1
          PROVE  /\ stack'[k].next \in DOMAIN ImportsOf(stack'[k].file)
                 /\ stack'[k + 1].file = ImportsOf(stack'[k].file)[stack'[k].next].path
      <3>1. k \in 1 .. n - 1 /\ k + 1 \in 1 .. n - 1 /\ k \in 1 .. Len(stack) - 1
        BY <1>3, <1>4 DEF n
      <3>2. stack'[k] = stack[k] /\ stack'[k + 1] = stack[k + 1]
        BY <1>4, <3>1
      <3> QED BY <3>1, <3>2 DEF ResolverInv, CallsAreImports
    <2> QED BY <1>10, <2>1, <2>2 DEF CallsAreImports
  <1>12. MergedIsCached'
    BY <1>4, <1>5, <1>10 DEF ResolverInv, MergedIsCached
  <1>13. ReturnedIsCached'
    <2>1. CASE n = 1
      <3>1. stack' = <<>>
        BY <1>4, <2>1
      <3>2. f = Root
        BY <1>1, <1>3, <2>1 DEF ResolverInv, CallsAreImports
      <3> QED BY <1>5, <3>1, <3>2 DEF ReturnedIsCached, Wanted
    <2>2. CASE n # 1
      <3>1. n - 1 \in 1 .. Len(stack) - 1 /\ n - 1 \in 1 .. n - 1
            /\ (n - 1) + 1 = n
        BY <1>3, <2>2 DEF n
      <3>2. /\ stack[n - 1].next \in DOMAIN ImportsOf(stack[n - 1].file)
            /\ f = ImportsOf(stack[n - 1].file)[stack[n - 1].next].path
        BY <1>3, <3>1 DEF ResolverInv, CallsAreImports
      <3>3. stack' # <<>> /\ Top' = stack[n - 1]
        BY <1>4, <3>1 DEF Top
      <3> QED BY <1>5, <1>10, <3>2, <3>3 DEF ReturnedIsCached, Wanted
    <2> QED BY <2>1, <2>2
  <1>14. OpenedIsKnown'
    BY <1>1, <1>5, <1>7 DEF ResolverInv, OpenedIsKnown
  <1>15. CacheAcyclic'
    <2>1. /\ ClosedUnderImport(DOMAIN cache \cup {f})
          /\ \A S \in SUBSET (DOMAIN cache \cup {f}) : ~Cyclic(S)
      BY <1>6, <1>7, ReturnedFileClosesNoCycle DEF ResolverInv
    <2>2. ClosedUnderImport(DOMAIN cache)'
      BY <1>5, <1>10, <2>1 DEF ClosedUnderImport, Imported
    <2>3. ASSUME NEW S \in SUBSET DOMAIN cache' PROVE ~Cyclic(S)'
      <3>1. Cyclic(S)' = Cyclic(S)
        BY <1>10 DEF Cyclic, Imported
      <3>2. S \in SUBSET (DOMAIN cache \cup {f})
        BY <1>5, <2>3
      <3> QED BY <2>1, <3>1, <3>2
    <2> QED BY <2>2, <2>3 DEF CacheAcyclic
  <1>16. (visiting \subseteq Reachable)'
    <2>1. Reachable' = Reachable
      BY <1>1 DEF Reachable, ClosedUnderImport, Imported, ImportsOf
    <2> QED BY <1>1, <2>1 DEF ResolverInv
  <1>17. HasCycle' = HasCycle
    BY <1>1, CycleKept
  <1> QED
    BY <1>1, <1>8, <1>9, <1>11, <1>12, <1>13, <1>14, <1>15, <1>16, <1>17
    DEF ResolverInv

LEMMA ResolvedStep ==
  ASSUME ResolverInv, Validate, status' = "resolved"
  PROVE  ResolverInv'
  <1>1. /\ UNCHANGED <<disk, visiting, cache, resolvedFiles, stack, returned, error>>
        /\ returned # None /\ stack = <<>>
    BY DEF Validate, Fail
  <1>2. ResolverTypeOK'
    BY <1>1 DEF ResolverInv, ResolverTypeOK
  <1>3. OpenedOnce'
    BY <1>1 DEF ResolverInv, OpenedOnce
  <1>4. CallsAreImports'
    BY <1>1 DEF ResolverInv, CallsAreImports, ImportsOf
  <1>5. MergedIsCached'
    BY <1>1 DEF ResolverInv, MergedIsCached, ImportsOf
  <1>6. OpenedIsKnown'
    BY <1>1 DEF ResolverInv, OpenedIsKnown
  <1>7. ReturnedIsCached'
    BY <1>1 DEF ResolverInv, ReturnedIsCached, ImportsOf, Wanted, Top
  <1>8. CacheAcyclic'
    BY <1>1, CacheKept DEF ResolverInv
  <1>9. (visiting \subseteq Reachable)'
    BY <1>1 DEF ResolverInv, Reachable, ClosedUnderImport, Imported, ImportsOf
  <1>10. HasCycle' = HasCycle
    BY <1>1, CycleKept
  <1> QED
    BY <1>1, <1>2, <1>3, <1>4, <1>5, <1>6, <1>7, <1>8, <1>9, <1>10
    DEF ResolverInv

LEMMA ResolverStep == ResolverInv /\ [Next]_vars => ResolverInv'
  <1> SUFFICES ASSUME ResolverInv, [Next]_vars PROVE ResolverInv'
    OBVIOUS
  <1>1. CASE RefuseCircular
    BY <1>1, CircularCall, FailStep DEF RefuseCircular
  <1>2. CASE TakeFromCache
    BY <1>2, TakeFromCacheStep
  <1>3. CASE Open
    BY <1>3, OpenStep
  <1>4. CASE FailToRead
    BY <1>4, FailStep DEF FailToRead
  <1>5. CASE RefuseImport
    <2>1. \/ Fail("namespace")
          \/ Fail("duplicate")
          \/ Fail("world")
      BY <1>5 DEF RefuseImport
    <2>2. \A what \in {"namespace", "duplicate", "world"} :
            what # "circular" /\ (Fail(what) => ResolverInv')
      BY FailStep
    <2> QED BY <2>1, <2>2
  <1>6. CASE Compose
    BY <1>6, ComposeStep
  <1>7. CASE Return
    BY <1>7, ReturnStep
  <1>8. CASE Validate
    <2>1. Fail("invalid") \/ status' = "resolved"
      BY <1>8 DEF Validate
    <2> QED BY <1>8, <2>1, FailStep, ResolvedStep
  <1>9. CASE UNCHANGED vars
    <2>1. UNCHANGED <<disk, visiting, cache, resolvedFiles, stack, returned,
                      status, error>>
      BY <1>9 DEF vars
    <2>2. ResolverTypeOK' /\ OpenedOnce' /\ OpenedIsKnown'
      <3>1. ResolverTypeOK'
        BY <2>1 DEF ResolverInv, ResolverTypeOK
      <3>2. OpenedOnce'
        BY <2>1 DEF ResolverInv, OpenedOnce
      <3>3. OpenedIsKnown'
        BY <2>1 DEF ResolverInv, OpenedIsKnown
      <3> QED BY <3>1, <3>2, <3>3
    <2>3. CallsAreImports'
      BY <2>1 DEF ResolverInv, CallsAreImports, ImportsOf
    <2>4. MergedIsCached'
      BY <2>1 DEF ResolverInv, MergedIsCached, ImportsOf
    <2>5. ReturnedIsCached'
      BY <2>1 DEF ResolverInv, ReturnedIsCached, ImportsOf, Wanted, Top
    <2>6. CacheAcyclic'
      BY <2>1, CacheKept DEF ResolverInv
    <2>7. (visiting \subseteq Reachable)'
      BY <2>1 DEF ResolverInv, Reachable, ClosedUnderImport, Imported, ImportsOf
    <2>8. HasCycle' = HasCycle
      BY <2>1, CycleKept
    <2> QED BY <2>1, <2>2, <2>3, <2>4, <2>5, <2>6, <2>7, <2>8 DEF ResolverInv
  <1> QED
    BY <1>1, <1>2, <1>3, <1>4, <1>5, <1>6, <1>7, <1>8, <1>9 DEF Next

THEOREM ResolverInvariant == Spec => []ResolverInv
  BY ResolverStarts, ResolverStep, PTL DEF Spec

\* The resolver keeps its types (ResolveContext, resolve_definition).
THEOREM ResolverTypeCorrect == Spec => []ResolverTypeOK
  <1>1. ResolverInv => ResolverTypeOK
    BY DEF ResolverInv
  <1> QED BY <1>1, ResolverInvariant, PTL

\* The visited files are those of the calls under way, and no file is opened
\* a second time (the set visiting and the cache of resolve_definition).
THEOREM FilesAreOpenedOnce == Spec => []OpenedOnce
  <1>1. ResolverInv => OpenedOnce
    BY DEF ResolverInv
  <1> QED BY <1>1, ResolverInvariant, PTL

\* Circular imports are reported if, and only if, the root reaches one.
THEOREM CyclesAreReported == Spec => []CircularImportsReported
  <1>1. ResolverInv => CircularImportsReported
    <2> SUFFICES ASSUME ResolverInv, status = "resolved" PROVE ~HasCycle
      BY DEF ResolverInv, CircularImportsReported
    <2>1. Root \in DOMAIN cache
      BY DEF ResolverInv, ReturnedIsCached, Wanted
    <2>2. Reachable \subseteq DOMAIN cache
      BY <2>1 DEF ResolverInv, ResolverTypeOK, CacheAcyclic, Reachable
    <2> QED BY <2>2 DEF ResolverInv, CacheAcyclic, HasCycle
  <1> QED BY <1>1, ResolverInvariant, PTL

(***************************************************************************)
(* Induction over the naturals.  Its statement in the library takes a      *)
(* predicate as a parameter; as a set it follows from the order of the     *)
(* finite sets by inclusion, which is well-founded.                        *)
(***************************************************************************)
LEMMA LeastElement ==
  ASSUME NEW T \in SUBSET Nat, T # {}
  PROVE  \E n \in T : \A m \in T : n <= m
<1> DEFINE Up == {0 .. n : n \in T}
<1>1. Up \in SUBSET FiniteSubsetsOf(Nat)
  <2>1. ASSUME NEW n \in T PROVE 0 .. n \in FiniteSubsetsOf(Nat)
    <3>1. 0 \in Int /\ n \in Int
      OBVIOUS
    <3>2. IsFiniteSet(0 .. n)
      BY <3>1, FS_Interval
    <3> QED
      BY <3>2 DEF FiniteSubsetsOf
  <2> QED
    BY <2>1
<1>2. Up # {}
  OBVIOUS
<1>3. \E x \in Up : \A y \in Up : ~(<<y, x>> \in StrictSubsetOrdering(Nat))
  <2> HIDE DEF Up
  <2> QED
    BY <1>1, <1>2, FS_StrictSubsetOrderingWellFounded, WFMin
<1>4. PICK n \in T : \A y \in Up : ~(<<y, 0 .. n>> \in StrictSubsetOrdering(Nat))
  BY <1>3
<1>5. ASSUME NEW m \in T PROVE n <= m
  <2>1. 0 .. m \in Up /\ 0 .. n \in Up
    OBVIOUS
  <2>2. 0 .. m \in FiniteSubsetsOf(Nat) /\ 0 .. n \in FiniteSubsetsOf(Nat)
    BY <1>1, <2>1
  <2>3. ~(0 .. m \subseteq 0 .. n /\ 0 .. m # 0 .. n)
    BY <1>4, <2>1, <2>2 DEF StrictSubsetOrdering, FiniteSubsetsOf
  <2>4. n \in Nat /\ m \in Nat
    OBVIOUS
  <2>5. ASSUME m < n PROVE FALSE
    <3>1. 0 .. m \subseteq 0 .. n
      BY <2>4, <2>5
    <3>2. n \in 0 .. n /\ n \notin 0 .. m
      BY <2>4, <2>5
    <3> QED
      BY <2>3, <3>1, <3>2
  <2> QED
    BY <2>4, <2>5
<1> QED
  BY <1>5

LEMMA Induction ==
  ASSUME NEW T, 0 \in T, \A n \in Nat : n \in T => n + 1 \in T
  PROVE  Nat \subseteq T
<1>1. ASSUME Nat \ T # {} PROVE FALSE
  <2>1. PICK n \in Nat \ T : \A m \in Nat \ T : n <= m
    BY <1>1, LeastElement
  <2>2. n # 0 /\ n - 1 \in Nat /\ n - 1 \notin Nat \ T
    BY <2>1
  <2> QED
    BY <2>1, <2>2
<1> QED
  BY <1>1

\* Two functions that start alike and go on alike are alike.
LEMMA Agree ==
  ASSUME NEW m \in Nat, NEW f, NEW g, f[0] = g[0],
         \A k \in 1 .. m : f[k - 1] = g[k - 1] => f[k] = g[k]
  PROVE  \A k \in 0 .. m : f[k] = g[k]
<1> DEFINE T == {k \in Nat : k <= m => f[k] = g[k]}
<1>1. 0 \in T
  OBVIOUS
<1>2. ASSUME NEW n \in Nat, n \in T PROVE n + 1 \in T
  <2>1. CASE n + 1 <= m
    <3>1. f[n] = g[n] /\ n + 1 \in 1 .. m /\ (n + 1) - 1 = n
      BY <1>2, <2>1
    <3>2. f[n + 1] = g[n + 1]
      BY <3>1
    <3> QED
      BY <3>2
  <2>2. CASE ~(n + 1 <= m)
    BY <2>2
  <2> QED
    BY <2>1, <2>2
<1>3. Nat \subseteq T
  <2> HIDE DEF T
  <2> QED
    BY <1>1, <1>2, Induction
<1>4. ASSUME NEW k \in 0 .. m PROVE f[k] = g[k]
  <2>1. k \in Nat /\ k <= m
    OBVIOUS
  <2>2. k \in T
    BY <1>3, <2>1
  <2> QED
    BY <2>1, <2>2
<1> QED
  BY <1>4

(***************************************************************************)
(* Paths of imports.  Those of ImportPaths are as long as a path without a *)
(* repetition can be; the proofs follow paths of any length, and show at   *)
(* the end that in what is resolved there are no longer ones.              *)
(***************************************************************************)
DiskOK == disk \in [Files -> Document]

Segments == Names \cup Namespaces \cup {Malformed}
Target(site) == ImportAt(site).path
Via(site, path) == <<site>> \o path
Paths(file) == {path \in Seq(ImportSites) : Chained(file, path)}

LEMMA SiteFacts ==
  ASSUME DiskOK, NEW site \in ImportSites
  PROVE  /\ site = <<site[1], site[2]>>
         /\ site[1] \in Files
         /\ site[2] \in DOMAIN ImportsOf(site[1])
         /\ site[2] \in Nat \ {0}
         /\ ImportAt(site) \in Import
         /\ Target(site) \in Files
         /\ NamespaceOf(site) \in Seq(Segments)
<1>1. PICK f \in Files : site \in {f} \X DOMAIN ImportsOf(f)
  BY DEF ImportSites
<1>2. ImportsOf(f) \in Seq(Import)
  BY DEF DiskOK, Document, ImportsOf
<1>3. site = <<site[1], site[2]>> /\ site[1] = f /\ site[2] \in DOMAIN ImportsOf(f)
  BY <1>1
<1>4. site[2] \in Nat \ {0} /\ ImportsOf(f)[site[2]] \in Import
  BY <1>2, <1>3
<1>5. ImportAt(site) \in Import
  BY <1>3, <1>4 DEF ImportAt
<1>6. ImportAt(site).path \in Files /\ ImportAt(site).ns \in Segments \cup {None}
  BY <1>5 DEF Import, Segments
<1>7. NamespaceOf(site) \in Seq(Segments)
  BY <1>6 DEF NamespaceOf
<1> QED
  BY <1>3, <1>4, <1>5, <1>6, <1>7 DEF Target

LEMMA SiteOf ==
  ASSUME NEW f \in Files, NEW n \in DOMAIN ImportsOf(f)
  PROVE  /\ <<f, n>> \in ImportSites
         /\ ImportAt(<<f, n>>) = ImportsOf(f)[n]
  BY DEF ImportSites, ImportAt

(***************************************************************************)
(* The namespaces along a path.                                            *)
(***************************************************************************)
Collected(path, n, f) ==
  f = [k \in 0 .. n |->
         IF k = 0 THEN <<>>
         ELSE NamespaceOf(path[n + 1 - k]) \o f[k - 1]]

LEMMA QualifierIs ==
  ASSUME NEW path
  PROVE  Qualifier(path) = (CHOOSE f : Collected(path, Len(path), f))[Len(path)]
  BY DEF Qualifier, Collected

LEMMA CollectedExists ==
  ASSUME NEW path, NEW m \in Nat
  PROVE  \E f : Collected(path, m, f)
<1> DEFINE Step(f, n) ==
             f = [k \in 0 .. n |->
                    IF k = 0 THEN <<>>
                    ELSE NamespaceOf(path[m + 1 - k]) \o f[k - 1]]
           T == {n \in Nat : \E f : Step(f, n)}
<1>1. 0 \in T
  <2>1. Step([k \in 0 .. 0 |-> <<>>], 0)
    OBVIOUS
  <2> QED
    BY <2>1
<1>2. ASSUME NEW n \in Nat, n \in T PROVE n + 1 \in T
  <2>1. PICK f : Step(f, n)
    BY <1>2
  <2> DEFINE last == NamespaceOf(path[m + 1 - (n + 1)]) \o f[n]
             g == [k \in 0 .. n + 1 |-> IF k = n + 1 THEN last ELSE f[k]]
  <2>2. \A k \in 0 .. n : f[k] =
          IF k = 0 THEN <<>> ELSE NamespaceOf(path[m + 1 - k]) \o f[k - 1]
    BY <2>1
  <2>3. \A k \in 0 .. n + 1 : g[k] =
          IF k = 0 THEN <<>> ELSE NamespaceOf(path[m + 1 - k]) \o g[k - 1]
    <3>1. SUFFICES ASSUME NEW k \in 0 .. n + 1
                   PROVE  g[k] = IF k = 0 THEN <<>>
                                 ELSE NamespaceOf(path[m + 1 - k]) \o g[k - 1]
      OBVIOUS
    <3>2. CASE k = n + 1
      <4>1. g[k] = last /\ k # 0 /\ k - 1 = n /\ g[k - 1] = f[n]
        BY <3>2
      <4> QED
        BY <3>2, <4>1
    <3>3. CASE k # n + 1
      <4>1. k \in 0 .. n /\ g[k] = f[k]
        BY <3>3
      <4>2. k # 0 => g[k - 1] = f[k - 1]
        BY <3>3
      <4> HIDE DEF g
      <4> QED
        BY <2>2, <4>1, <4>2
    <3> QED
      BY <3>2, <3>3
  <2>4. Step(g, n + 1)
    <3>1. g = [k \in 0 .. n + 1 |-> g[k]]
      OBVIOUS
    <3> HIDE DEF g
    <3> QED
      BY <2>3, <3>1
  <2> HIDE DEF g, Step
  <2> QED
    BY <2>4
<1>3. Nat \subseteq T
  <2> HIDE DEF T
  <2> QED
    BY <1>1, <1>2, Induction
<1>4. \E f : Step(f, m)
  BY <1>3
<1> QED
  BY <1>4 DEF Collected

LEMMA QualifierCollected ==
  ASSUME NEW path, Len(path) \in Nat
  PROVE  \E f : Collected(path, Len(path), f) /\ Qualifier(path) = f[Len(path)]
<1>1. \E f : Collected(path, Len(path), f)
  BY CollectedExists
<1>2. Collected(path, Len(path), CHOOSE f : Collected(path, Len(path), f))
  BY <1>1, Zenon
<1> QED
  BY <1>2, QualifierIs, Zenon

LEMMA QualifierEmpty == Qualifier(<<>>) = <<>>
<1>1. PICK f : Collected(<<>>, Len(<<>>), f) /\ Qualifier(<<>>) = f[Len(<<>>)]
  BY QualifierCollected
<1>2. Len(<<>>) = 0
  OBVIOUS
<1>3. f[0] = <<>>
  BY <1>1, <1>2 DEF Collected
<1> QED
  BY <1>1, <1>2, <1>3

\* p is q with one import before it.
OneMore(p, m, q, n) ==
  /\ Len(p) = m /\ Len(q) = n /\ m = n + 1
  /\ \A k \in 1 .. n : p[k + 1] = q[k]

LEMMA QualifierLonger ==
  ASSUME NEW p, NEW q, NEW n \in Nat, NEW m \in Nat, OneMore(p, m, q, n)
  PROVE  Qualifier(p) = NamespaceOf(p[1]) \o Qualifier(q)
<1>1. m = n + 1 /\ \A k \in 1 .. n : p[k + 1] = q[k]
  BY Zenon DEF OneMore
<1>2. PICK f : Collected(q, n, f) /\ Qualifier(q) = f[n]
  BY QualifierCollected DEF OneMore
<1>3. PICK g : Collected(p, m, g) /\ Qualifier(p) = g[m]
  BY QualifierCollected DEF OneMore
<1>4. /\ \A k \in 0 .. n : f[k] =
           IF k = 0 THEN <<>> ELSE NamespaceOf(q[n + 1 - k]) \o f[k - 1]
      /\ \A k \in 0 .. m : g[k] =
           IF k = 0 THEN <<>> ELSE NamespaceOf(p[m + 1 - k]) \o g[k - 1]
  BY <1>2, <1>3 DEF Collected
<1>5. f[0] = g[0]
  <2>1. 0 \in 0 .. n /\ 0 \in 0 .. m
    OBVIOUS
  <2> QED
    BY <1>4, <2>1
<1>6. ASSUME NEW k \in 1 .. n, f[k - 1] = g[k - 1] PROVE f[k] = g[k]
  <2>1. k \in 0 .. n /\ k \in 0 .. m /\ k # 0
    BY <1>1
  <2>2. PICK j \in 1 .. n : j = n + 1 - k
    OBVIOUS
  <2>3. m + 1 - k = j + 1 /\ p[j + 1] = q[j]
    BY <1>1, <2>2
  <2> QED
    BY <1>4, <1>6, <2>1, <2>2, <2>3
<1>7. \A k \in 0 .. n : f[k] = g[k]
  BY <1>5, <1>6, Agree
<1>8. m \in 0 .. m /\ m # 0 /\ m - 1 = n /\ m + 1 - m = 1 /\ n \in 0 .. n
  BY <1>1
<1>9. g[m] = NamespaceOf(p[1]) \o f[n]
  BY <1>4, <1>7, <1>8
<1> QED
  BY <1>2, <1>3, <1>9

LEMMA ViaFacts ==
  ASSUME NEW site \in ImportSites, NEW q \in Seq(ImportSites)
  PROVE  /\ Via(site, q) \in Seq(ImportSites)
         /\ Via(site, q) # <<>>
         /\ Len(q) \in Nat
         /\ Len(Via(site, q)) = Len(q) + 1
         /\ Via(site, q)[1] = site
         /\ \A k \in 1 .. Len(q) : Via(site, q)[k + 1] = q[k]
<1>1. <<site>> \in Seq(ImportSites) /\ Len(<<site>>) = 1 /\ <<site>>[1] = site
  OBVIOUS
<1>2. Len(q) \in Nat
  OBVIOUS
<1>3. /\ Via(site, q) \in Seq(ImportSites)
      /\ Len(Via(site, q)) = 1 + Len(q)
      /\ \A i \in 1 .. 1 + Len(q) :
           Via(site, q)[i] = IF i <= 1 THEN <<site>>[i] ELSE q[i - 1]
  BY <1>1, ConcatProperties DEF Via
<1> QED
  BY <1>1, <1>2, <1>3

LEMMA QualifierVia ==
  ASSUME NEW site \in ImportSites, NEW q \in Seq(ImportSites)
  PROVE  Qualifier(Via(site, q)) = NamespaceOf(site) \o Qualifier(q)
<1>1. /\ Len(q) \in Nat
      /\ Len(Via(site, q)) = Len(q) + 1
      /\ Via(site, q)[1] = site
      /\ \A k \in 1 .. Len(q) : Via(site, q)[k + 1] = q[k]
  BY ViaFacts
<1>2. PICK n \in Nat : n = Len(q)
  BY <1>1
<1>3. PICK m \in Nat : m = n + 1
  OBVIOUS
<1>4. Len(Via(site, q)) = m /\ \A k \in 1 .. n : Via(site, q)[k + 1] = q[k]
  BY <1>1, <1>2, <1>3
<1>5. Qualifier(Via(site, q)) = NamespaceOf(Via(site, q)[1]) \o Qualifier(q)
  BY <1>2, <1>3, <1>4, QualifierLonger DEF OneMore
<1> QED
  BY <1>1, <1>5

\* Every path that is not empty has a first import.
LEMMA Split ==
  ASSUME NEW p \in Seq(ImportSites), p # <<>>
  PROVE  /\ Tail(p) \in Seq(ImportSites)
         /\ p[1] \in ImportSites
         /\ p = Via(p[1], Tail(p))
         /\ Len(Tail(p)) = Len(p) - 1
<1>1. /\ Tail(p) \in Seq(ImportSites) /\ Len(Tail(p)) = Len(p) - 1
      /\ \A i \in 1 .. Len(Tail(p)) : Tail(p)[i] = p[i + 1]
  BY HeadTailProperties
<1>2. Len(p) \in Nat /\ Len(p) > 0 /\ p[1] \in ImportSites
  BY EmptySeq
<1>3. /\ Via(p[1], Tail(p)) \in Seq(ImportSites)
      /\ Len(Via(p[1], Tail(p))) = Len(p)
      /\ Via(p[1], Tail(p))[1] = p[1]
      /\ \A k \in 1 .. Len(p) - 1 : Via(p[1], Tail(p))[k + 1] = p[k + 1]
  <2>1. PICK q \in Seq(ImportSites) :
          /\ q = Tail(p) /\ Len(q) = Len(p) - 1
          /\ \A i \in 1 .. Len(q) : q[i] = p[i + 1]
    BY <1>1
  <2>2. /\ Via(p[1], q) \in Seq(ImportSites)
        /\ Len(Via(p[1], q)) = Len(q) + 1
        /\ Via(p[1], q)[1] = p[1]
        /\ \A k \in 1 .. Len(q) : Via(p[1], q)[k + 1] = q[k]
    BY <1>2, ViaFacts
  <2>3. Len(Via(p[1], q)) = Len(p)
    BY <1>2, <2>1, <2>2
  <2>4. \A k \in 1 .. Len(p) - 1 : Via(p[1], q)[k + 1] = p[k + 1]
    BY <2>1, <2>2
  <2> QED
    BY <2>1, <2>2, <2>3, <2>4
<1>4. ASSUME NEW i \in 1 .. Len(p) PROVE Via(p[1], Tail(p))[i] = p[i]
  <2>1. CASE i = 1
    BY <1>3, <2>1
  <2>2. CASE i # 1
    <3>1. i - 1 \in 1 .. Len(p) - 1 /\ (i - 1) + 1 = i
      BY <1>2, <2>2
    <3> QED
      BY <1>3, <3>1
  <2> QED
    BY <2>1, <2>2
<1>5. Via(p[1], Tail(p)) = p
  BY <1>3, <1>4, SeqEqual
<1> QED
  BY <1>1, <1>2, <1>5

LEMMA QualifierType ==
  ASSUME DiskOK
  PROVE  \A p \in Seq(ImportSites) : Qualifier(p) \in Seq(Segments)
<1> DEFINE T == {n \in Nat : \A p \in Seq(ImportSites) :
                              Len(p) = n => Qualifier(p) \in Seq(Segments)}
<1>1. 0 \in T
  BY QualifierEmpty, EmptySeq
<1>2. ASSUME NEW n \in Nat, n \in T PROVE n + 1 \in T
  <2>1. ASSUME NEW p \in Seq(ImportSites), Len(p) = n + 1
        PROVE  Qualifier(p) \in Seq(Segments)
    <3>1. p # <<>>
      BY <2>1
    <3>2. Tail(p) \in Seq(ImportSites) /\ p[1] \in ImportSites
          /\ p = Via(p[1], Tail(p)) /\ Len(Tail(p)) = n
      BY <2>1, <3>1, Split
    <3>3. Qualifier(Tail(p)) \in Seq(Segments)
      BY <1>2, <3>2
    <3>4. NamespaceOf(p[1]) \in Seq(Segments)
      BY <3>2, SiteFacts
    <3>5. Qualifier(Via(p[1], Tail(p))) = NamespaceOf(p[1]) \o Qualifier(Tail(p))
      BY <3>2, QualifierVia
    <3>6. NamespaceOf(p[1]) \o Qualifier(Tail(p)) \in Seq(Segments)
      BY <3>3, <3>4, ConcatProperties
    <3> QED
      BY <3>2, <3>5, <3>6, Zenon
  <2> QED
    BY <2>1
<1>3. Nat \subseteq T
  <2> HIDE DEF T
  <2> QED
    BY <1>1, <1>2, Induction
<1> QED
  BY <1>3

LEMMA DiskFacts ==
  ASSUME DiskOK, NEW f \in Files
  PROVE  /\ ImportsOf(f) \in Seq(Import)
         /\ disk[f].scenario \in Scenario
         /\ disk[f].scenario.items \in Seq(Item)
<1>1. disk[f] \in Document
  BY DEF DiskOK
<1>2. disk[f].scenario \in Scenario /\ ImportsOf(f) \in Seq(Import)
  BY <1>1 DEF Document, ImportsOf
<1> QED
  BY <1>2 DEF Scenario

LEMMA EmptyPath ==
  ASSUME NEW f
  PROVE  <<>> \in Paths(f) /\ FileAt(f, <<>>) = f
<1>1. <<>> \in Seq(ImportSites) /\ Len(<<>>) = 0
  OBVIOUS
<1>2. Chained(f, <<>>)
  BY <1>1 DEF Chained
<1> QED
  BY <1>1, <1>2 DEF Paths, FileAt

\* Behind the first import of a path comes a path of the file imported.
LEMMA PathVia ==
  ASSUME NEW f, NEW site \in ImportSites, NEW q \in Seq(ImportSites)
  PROVE  Via(site, q) \in Paths(f)
           <=> site[1] = f /\ q \in Paths(Target(site))
<1> DEFINE p == Via(site, q)
<1>1. /\ p \in Seq(ImportSites) /\ p # <<>>
      /\ Len(q) \in Nat /\ Len(p) = Len(q) + 1 /\ p[1] = site
      /\ \A k \in 1 .. Len(q) : p[k + 1] = q[k]
  BY ViaFacts
<1> HIDE DEF p
<1>2. q # <<>> <=> Len(q) > 0
  BY <1>1, EmptySeq
<1>3. ASSUME Chained(f, p) PROVE site[1] = f /\ Chained(Target(site), q)
  <2>1. /\ p[1][1] = f
        /\ \A k \in 1 .. Len(q) : p[k + 1][1] = ImportAt(p[k]).path
    BY <1>1, <1>3 DEF Chained
  <2>2. q # <<>> => q[1][1] = Target(site)
    <3>1. CASE Len(q) > 0
      <4>1. 1 \in 1 .. Len(q) /\ p[1 + 1] = q[1]
        BY <1>1, <3>1
      <4>2. p[1 + 1][1] = ImportAt(p[1]).path
        BY <2>1, <4>1
      <4> QED
        BY <1>1, <4>1, <4>2 DEF Target
    <3> QED
      BY <1>2, <3>1
  <2>3. ASSUME NEW k \in 1 .. Len(q) - 1
        PROVE  q[k + 1][1] = ImportAt(q[k]).path
    <3>1. PICK j \in 1 .. Len(q) : j = k + 1 /\ k \in 1 .. Len(q)
      BY <1>1
    <3>2. p[j + 1] = q[j] /\ p[j] = q[k]
      BY <1>1, <3>1
    <3>3. p[j + 1][1] = ImportAt(p[j]).path
      BY <2>1
    <3> QED
      BY <3>1, <3>2, <3>3
  <2> QED
    BY <1>1, <2>1, <2>2, <2>3 DEF Chained
<1>4. ASSUME site[1] = f, Chained(Target(site), q) PROVE Chained(f, p)
  <2>1. /\ q # <<>> => q[1][1] = Target(site)
        /\ \A k \in 1 .. Len(q) - 1 : q[k + 1][1] = ImportAt(q[k]).path
    BY <1>4 DEF Chained
  <2>2. ASSUME NEW k \in 1 .. Len(p) - 1
        PROVE  p[k + 1][1] = ImportAt(p[k]).path
    <3>1. k \in 1 .. Len(q) /\ p[k + 1] = q[k]
      BY <1>1
    <3>2. CASE k = 1
      BY <1>1, <1>2, <2>1, <3>1, <3>2 DEF Target
    <3>3. CASE k # 1
      <4>1. PICK j \in 1 .. Len(q) - 1 : k = j + 1
        BY <1>1, <3>1, <3>3
      <4>2. p[j + 1] = q[j]
        BY <1>1, <4>1
      <4>3. q[j + 1][1] = ImportAt(q[j]).path
        BY <2>1
      <4> QED
        BY <3>1, <4>1, <4>2, <4>3
    <3> QED
      BY <3>2, <3>3
  <2>3. p[1][1] = f
    BY <1>1, <1>4
  <2> QED
    BY <2>2, <2>3 DEF Chained
<1>5. p \in Paths(f) <=> Chained(f, p)
  BY <1>1 DEF Paths
<1>6. q \in Paths(Target(site)) <=> Chained(Target(site), q)
  BY DEF Paths
<1>7. p \in Paths(f) <=> site[1] = f /\ q \in Paths(Target(site))
  BY <1>3, <1>4, <1>5, <1>6
<1> QED
  BY <1>7 DEF p

LEMMA FileVia ==
  ASSUME NEW f, NEW site \in ImportSites, NEW q \in Seq(ImportSites)
  PROVE  FileAt(f, Via(site, q)) = FileAt(Target(site), q)
<1>1. /\ Via(site, q) # <<>>
      /\ Len(q) \in Nat /\ Len(Via(site, q)) = Len(q) + 1 /\ Via(site, q)[1] = site
      /\ \A k \in 1 .. Len(q) : Via(site, q)[k + 1] = q[k]
  BY ViaFacts
<1>2. FileAt(f, Via(site, q)) = ImportAt(Via(site, q)[Len(q) + 1]).path
  BY <1>1 DEF FileAt
<1>3. CASE q = <<>>
  <2>1. Len(q) = 0
    BY <1>3
  <2> QED
    BY <1>1, <1>2, <1>3, <2>1 DEF FileAt, Target
<1>4. CASE q # <<>>
  <2>1. Len(q) \in 1 .. Len(q)
    BY <1>1, <1>4, EmptySeq
  <2>2. Via(site, q)[Len(q) + 1] = q[Len(q)]
    BY <1>1, <2>1
  <2> QED
    BY <1>2, <1>4, <2>2 DEF FileAt
<1> QED
  BY <1>3, <1>4

LEMMA FileAtType ==
  ASSUME DiskOK, NEW f \in Files, NEW p \in Seq(ImportSites)
  PROVE  FileAt(f, p) \in Files
<1>1. CASE p = <<>>
  BY <1>1 DEF FileAt
<1>2. CASE p # <<>>
  <2>1. p[Len(p)] \in ImportSites
    BY <1>2, EmptySeq
  <2> QED
    BY <1>2, <2>1, SiteFacts DEF FileAt, Target
<1> QED
  BY <1>1, <1>2

LEMMA ItemsAtType ==
  ASSUME DiskOK, NEW f \in Files, NEW p \in Seq(ImportSites)
  PROVE  /\ ItemsAt(f, p) \in Seq(Item)
         /\ \A i \in DOMAIN ItemsAt(f, p) :
              /\ ItemsAt(f, p)[i] \in Item
              /\ ItemsAt(f, p)[i].id \in Seq(Segments)
<1>1. ItemsAt(f, p) \in Seq(Item)
  BY FileAtType, DiskFacts DEF ItemsAt
<1>2. \A i \in DOMAIN ItemsAt(f, p) : ItemsAt(f, p)[i] \in Item
  BY <1>1
<1>3. ASSUME NEW item \in Item PROVE item.id \in Seq(Segments)
  <2>1. item.id \in Seq(Names \cup Namespaces)
    BY DEF Item
  <2>2. Names \cup Namespaces \subseteq Segments
    BY DEF Segments
  <2> QED
    BY <2>1, <2>2, SeqMonotonic
<1> QED
  BY <1>1, <1>2, <1>3

LEMMA QualifiedVia ==
  ASSUME DiskOK, NEW site \in ImportSites, NEW q \in Seq(ImportSites),
         NEW id \in Seq(Segments)
  PROVE  /\ Qualified(q, id) \in Seq(Segments)
         /\ Qualified(q, id) = <<>> <=> id = <<>>
         /\ id # <<>> => Qualified(Via(site, q), id)
                           = NamespaceOf(site) \o Qualified(q, id)
<1>1. Qualifier(q) \in Seq(Segments) /\ NamespaceOf(site) \in Seq(Segments)
  BY QualifierType, SiteFacts
<1>2. Qualifier(q) \o id \in Seq(Segments)
      /\ (Qualifier(q) \o id = <<>> <=> Qualifier(q) = <<>> /\ id = <<>>)
  BY <1>1, ConcatProperties, ConcatEqualIffEmpty
<1>3. (NamespaceOf(site) \o Qualifier(q)) \o id
        = NamespaceOf(site) \o (Qualifier(q) \o id)
  BY <1>1, ConcatAssociative
<1>4. Qualifier(Via(site, q)) = NamespaceOf(site) \o Qualifier(q)
  BY QualifierVia
<1>5. Qualified(q, id) = IF id = <<>> THEN <<>> ELSE Qualifier(q) \o id
  BY DEF Qualified
<1>6. Qualified(Via(site, q), id)
        = IF id = <<>> THEN <<>> ELSE Qualifier(Via(site, q)) \o id
  BY DEF Qualified
<1>7. <<>> \in Seq(Segments)
  OBVIOUS
<1> QED
  BY <1>2, <1>3, <1>4, <1>5, <1>6, <1>7

(***************************************************************************)
(* What a file makes known, and what a name means, along any path.         *)
(***************************************************************************)
Known(file, kind) ==
  UNION {{Qualified(path, id) :
            id \in DeclaredIn(ItemsAt(file, path), kind) \ {<<>>}} :
         path \in Paths(file)}

Around(file, path, ref) ==
  {k \in 0 .. Len(path) :
     ref.name \in Known(FileAt(file, SubSeq(path, 1, k)), ref.kind)}

Meant(file, path, ref) ==
  IF Around(file, path, ref) = {} THEN ref
  ELSE [ref EXCEPT !.name =
          Qualifier(SubSeq(path, 1, Largest(Around(file, path, ref)))) \o @]

\* An importer knows what its import knows, under the import's namespace.
LEMMA KnownVia ==
  ASSUME DiskOK, NEW site \in ImportSites, NEW kind,
         NEW x \in Known(Target(site), kind)
  PROVE  /\ x \in Seq(Segments)
         /\ x # <<>>
         /\ NamespaceOf(site) \o x \in Known(site[1], kind)
<1>1. PICK q \in Paths(Target(site)) :
        \E id \in DeclaredIn(ItemsAt(Target(site), q), kind) \ {<<>>} :
          x = Qualified(q, id)
  BY DEF Known
<1>2. PICK id \in DeclaredIn(ItemsAt(Target(site), q), kind) \ {<<>>} :
        x = Qualified(q, id)
  BY <1>1
<1>3. q \in Seq(ImportSites)
  BY DEF Paths
<1>4. Target(site) \in Files
  BY SiteFacts
<1>5. id \in Seq(Segments)
  BY <1>3, <1>4, ItemsAtType DEF DeclaredIn
<1>6. /\ x \in Seq(Segments) /\ x # <<>>
      /\ Qualified(Via(site, q), id) = NamespaceOf(site) \o x
  <2>1. id # <<>>
    BY <1>2
  <2>2. /\ Qualified(q, id) \in Seq(Segments)
        /\ Qualified(q, id) # <<>>
        /\ Qualified(Via(site, q), id) = NamespaceOf(site) \o Qualified(q, id)
    BY <1>3, <1>5, <2>1, QualifiedVia
  <2> QED
    BY <1>2, <2>2
<1>7. Via(site, q) \in Paths(site[1])
  BY <1>3, PathVia
<1>8. ItemsAt(site[1], Via(site, q)) = ItemsAt(Target(site), q)
  BY <1>3, FileVia DEF ItemsAt
<1>9. Qualified(Via(site, q), id) \in Known(site[1], kind)
  BY <1>2, <1>7, <1>8 DEF Known
<1> QED
  BY <1>6, <1>9

LEMMA KnownType ==
  ASSUME DiskOK, NEW f \in Files, NEW kind
  PROVE  \A x \in Known(f, kind) : x \in Seq(Segments) /\ x # <<>>
<1> SUFFICES ASSUME NEW x \in Known(f, kind)
             PROVE  x \in Seq(Segments) /\ x # <<>>
  OBVIOUS
<1>1. PICK q \in Paths(f) :
        \E id \in DeclaredIn(ItemsAt(f, q), kind) \ {<<>>} : x = Qualified(q, id)
  BY DEF Known
<1>2. PICK id \in DeclaredIn(ItemsAt(f, q), kind) \ {<<>>} : x = Qualified(q, id)
  BY <1>1
<1>3. q \in Seq(ImportSites)
  BY DEF Paths
<1>4. id \in Seq(Segments)
  BY <1>3, ItemsAtType DEF DeclaredIn
<1>5. Qualifier(q) \in Seq(Segments)
  BY <1>3, QualifierType
<1>6. x = Qualifier(q) \o id
  BY <1>2 DEF Qualified
<1> QED
  BY <1>2, <1>4, <1>5, <1>6, ConcatProperties, ConcatEqualIffEmpty

LEMMA PrefixFacts ==
  ASSUME NEW q \in Seq(ImportSites), NEW k \in 0 .. Len(q)
  PROVE  /\ SubSeq(q, 1, k) \in Seq(ImportSites)
         /\ Len(SubSeq(q, 1, k)) = k
         /\ \A i \in 1 .. k : SubSeq(q, 1, k)[i] = q[i]
<1>1. Len(q) \in Nat /\ k \in Int /\ 1 \in Int
  OBVIOUS
<1>2. \A i \in 1 .. k : q[i] \in ImportSites
  BY <1>1
<1>3. /\ SubSeq(q, 1, k) \in Seq(ImportSites)
      /\ Len(SubSeq(q, 1, k)) = IF 1 <= k THEN k - 1 + 1 ELSE 0
      /\ \A i \in 1 .. k - 1 + 1 : SubSeq(q, 1, k)[i] = q[1 + i - 1]
  BY <1>1, <1>2, SubSeqProperties
<1> QED
  BY <1>1, <1>3

LEMMA PrefixVia ==
  ASSUME NEW site \in ImportSites, NEW q \in Seq(ImportSites),
         NEW k \in 0 .. Len(q)
  PROVE  SubSeq(Via(site, q), 1, k + 1) = Via(site, SubSeq(q, 1, k))
<1> DEFINE p == Via(site, q)
           r == SubSeq(q, 1, k)
<1>1. /\ p \in Seq(ImportSites)
      /\ Len(q) \in Nat /\ Len(p) = Len(q) + 1 /\ p[1] = site
      /\ \A i \in 1 .. Len(q) : p[i + 1] = q[i]
  BY ViaFacts
<1>2. /\ r \in Seq(ImportSites) /\ Len(r) = k
      /\ \A i \in 1 .. k : r[i] = q[i]
  BY PrefixFacts
<1> HIDE DEF p, r
<1>3. /\ Via(site, r) \in Seq(ImportSites)
      /\ Len(Via(site, r)) = k + 1 /\ Via(site, r)[1] = site
      /\ \A i \in 1 .. k : Via(site, r)[i + 1] = r[i]
  BY <1>2, ViaFacts
<1>4. k + 1 \in 0 .. Len(p)
  BY <1>1
<1>5. /\ SubSeq(p, 1, k + 1) \in Seq(ImportSites)
      /\ Len(SubSeq(p, 1, k + 1)) = k + 1
      /\ \A i \in 1 .. k + 1 : SubSeq(p, 1, k + 1)[i] = p[i]
  BY <1>1, <1>4, PrefixFacts
<1>6. ASSUME NEW i \in 1 .. k + 1 PROVE p[i] = Via(site, r)[i]
  <2>1. CASE i = 1
    BY <1>1, <1>3, <2>1
  <2>2. CASE i # 1
    <3>1. PICK j \in 1 .. k : i = j + 1
      BY <2>2
    <3>2. j \in 1 .. Len(q)
      BY <1>1
    <3> QED
      BY <1>1, <1>2, <1>3, <3>1, <3>2
  <2> QED
    BY <2>1, <2>2
<1>7. SubSeq(p, 1, k + 1) = Via(site, r)
  BY <1>3, <1>5, <1>6, SeqEqual
<1> QED
  BY <1>7 DEF p, r

\* What a file on a path knows, the file at the start of the path knows under
\* the namespaces in between.
LEMMA KnownAbove ==
  ASSUME DiskOK
  PROVE  \A k \in Nat : \A g \in Files : \A q \in Paths(g) : \A kind, x :
           k <= Len(q) /\ x \in Known(FileAt(g, SubSeq(q, 1, k)), kind)
             => Qualifier(SubSeq(q, 1, k)) \o x \in Known(g, kind)
<1> DEFINE Lifted(k, g, q) ==
             \A kind, x :
               k <= Len(q) /\ x \in Known(FileAt(g, SubSeq(q, 1, k)), kind)
                 => Qualifier(SubSeq(q, 1, k)) \o x \in Known(g, kind)
           T == {k \in Nat : \A g \in Files : \A q \in Paths(g) : Lifted(k, g, q)}
<1>1. 0 \in T
  <2>1. ASSUME NEW g \in Files, NEW q \in Paths(g) PROVE Lifted(0, g, q)
    <3>1. SubSeq(q, 1, 0) = <<>>
      BY SubSeqEmpty
    <3>2. FileAt(g, SubSeq(q, 1, 0)) = g /\ Qualifier(SubSeq(q, 1, 0)) = <<>>
      BY <3>1, EmptyPath, QualifierEmpty
    <3>3. ASSUME NEW kind, NEW x \in Known(g, kind) PROVE <<>> \o x \in Known(g, kind)
      <4>1. x \in Seq(Segments)
        BY KnownType
      <4>2. <<>> \o x = x
        BY <4>1, ConcatEmptySeq
      <4> QED
        BY <4>2
    <3> QED
      BY <3>2, <3>3
  <2> QED
    BY <2>1
<1>2. ASSUME NEW k \in Nat, k \in T PROVE k + 1 \in T
  <2>1. ASSUME NEW g \in Files, NEW q \in Paths(g), NEW kind, NEW x,
               k + 1 <= Len(q), x \in Known(FileAt(g, SubSeq(q, 1, k + 1)), kind)
        PROVE  Qualifier(SubSeq(q, 1, k + 1)) \o x \in Known(g, kind)
    <3>1. q \in Seq(ImportSites) /\ Len(q) \in Nat
      BY DEF Paths
    <3>2. q # <<>>
      BY <2>1, <3>1
    <3>3. PICK site \in ImportSites : site = q[1]
      BY <3>1, <3>2, Split
    <3>4. PICK r \in Seq(ImportSites) : r = Tail(q) /\ q = Via(site, r)
                                        /\ Len(r) = Len(q) - 1
      BY <3>1, <3>2, <3>3, Split
    <3>5. site[1] = g /\ r \in Paths(Target(site))
      <4>1. Via(site, r) \in Paths(g)
        BY <3>4
      <4> QED
        BY <4>1, PathVia
    <3>6. k \in 0 .. Len(r)
      BY <2>1, <3>1, <3>4
    <3>7. SubSeq(q, 1, k + 1) = Via(site, SubSeq(r, 1, k))
          /\ SubSeq(r, 1, k) \in Seq(ImportSites)
      BY <3>4, <3>6, PrefixVia, PrefixFacts
    <3> DEFINE s == SubSeq(r, 1, k)
    <3>8. FileAt(g, SubSeq(q, 1, k + 1)) = FileAt(Target(site), s)
      BY <3>7, FileVia
    <3>9. x \in Known(FileAt(Target(site), s), kind) /\ k <= Len(r)
      BY <2>1, <3>6, <3>8
    <3>10. Target(site) \in Files
      BY SiteFacts
    <3>11. Lifted(k, Target(site), r)
      BY <1>2, <3>5, <3>10
    <3>12. Qualifier(s) \o x \in Known(Target(site), kind)
      BY <3>9, <3>11
    <3>13. NamespaceOf(site) \o (Qualifier(s) \o x) \in Known(g, kind)
      BY <3>5, <3>12, KnownVia
    <3>14. x \in Seq(Segments)
      <4>1. FileAt(Target(site), s) \in Files
        BY <3>7, <3>10, FileAtType
      <4> QED
        BY <3>9, <4>1, KnownType
    <3>15. Qualifier(SubSeq(q, 1, k + 1)) = NamespaceOf(site) \o Qualifier(s)
      BY <3>7, QualifierVia
    <3>16. NamespaceOf(site) \in Seq(Segments) /\ Qualifier(s) \in Seq(Segments)
      BY <3>7, SiteFacts, QualifierType
    <3>17. (NamespaceOf(site) \o Qualifier(s)) \o x
             = NamespaceOf(site) \o (Qualifier(s) \o x)
      BY <3>14, <3>16, ConcatAssociative
    <3> QED
      BY <3>13, <3>15, <3>17
  <2> QED
    BY <2>1
<1>3. Nat \subseteq T
  <2> HIDE DEF T
  <2> QED
    BY <1>1, <1>2, Induction
<1> QED
  BY <1>3

Innermost(k, file, path, ref) ==
  k \in Around(file, path, ref) /\ \A j \in Around(file, path, ref) : j <= k

Upto(path, k) == SubSeq(path, 1, k)
Named(ref, name) == [ref EXCEPT !.name = name]

LEMMA NamedFacts ==
  ASSUME NEW ref \in Reference, NEW name
  PROVE  /\ Named(ref, name).name = name
         /\ Named(ref, name).kind = ref.kind
         /\ Named(ref, name).role = ref.role
         /\ Named(ref, ref.name) = ref
         /\ \A other : Named(Named(ref, name), other) = Named(ref, other)
  BY DEF Named, Reference

LEMMA MeantInside ==
  ASSUME NEW f, NEW p \in Seq(ImportSites), NEW ref, NEW k,
         Innermost(k, f, p, ref)
  PROVE  Meant(f, p, ref) = Named(ref, Qualifier(Upto(p, k)) \o ref.name)
<1> DEFINE A == Around(f, p, ref)
           inner == Largest(A)
<1>1. A \subseteq 0 .. Len(p) /\ Len(p) \in Nat
  BY DEF Around
<1>2. k \in A /\ \A i \in A : i <= k
  BY DEF Innermost
<1> HIDE DEF A
<1>3. inner \in A /\ \A i \in A : i <= inner
  BY <1>2 DEF Largest
<1>4. inner = k
  <2> HIDE DEF inner
  <2>1. inner <= k /\ k <= inner
    BY <1>2, <1>3
  <2>2. inner \in Nat /\ k \in Nat
    BY <1>1, <1>2, <1>3
  <2> QED
    BY <2>1, <2>2
<1>5. A # {}
  BY <1>2
<1>6. Meant(f, p, ref) = [ref EXCEPT !.name = Qualifier(SubSeq(p, 1, inner)) \o @]
  BY <1>5 DEF Meant, A
<1> QED
  BY <1>4, <1>6 DEF Upto, Named

LEMMA MeantOutside ==
  ASSUME NEW f, NEW p, NEW ref, Around(f, p, ref) = {}
  PROVE  Meant(f, p, ref) = ref
  BY DEF Meant

LEMMA InnermostExists ==
  ASSUME NEW f, NEW p \in Seq(ImportSites), NEW ref, Around(f, p, ref) # {}
  PROVE  \E k \in 0 .. Len(p) : Innermost(k, f, p, ref)
<1> DEFINE A == Around(f, p, ref)
           T == {Len(p) - k : k \in A}
<1>1. A \subseteq 0 .. Len(p) /\ Len(p) \in Nat /\ A # {}
  BY DEF Around
<1> HIDE DEF A
<1>2. T \in SUBSET Nat /\ T # {}
  BY <1>1
<1>3. PICK n \in T : \A m \in T : n <= m
  <2> HIDE DEF T
  <2> QED
    BY <1>2, LeastElement
<1>4. PICK k \in A : n = Len(p) - k
  BY <1>3
<1>5. ASSUME NEW j \in A PROVE j <= k
  <2>1. Len(p) - j \in T
    OBVIOUS
  <2>2. Len(p) - k <= Len(p) - j
    BY <1>3, <1>4, <2>1
  <2>3. j \in Nat /\ k \in Nat
    BY <1>1, <1>4
  <2> QED
    BY <1>1, <2>2, <2>3
<1>6. Innermost(k, f, p, ref)
  BY <1>4, <1>5 DEF Innermost, A
<1> QED
  BY <1>1, <1>4, <1>6

\* The fragments around an item are those it had in the import, one further
\* in, and perhaps the importer itself.
LEMMA AroundVia ==
  ASSUME NEW site \in ImportSites, NEW q \in Seq(ImportSites), NEW ref
  PROVE  /\ \A k \in 0 .. Len(q) :
              k + 1 \in Around(site[1], Via(site, q), ref)
                <=> k \in Around(Target(site), q, ref)
         /\ \A j \in Around(site[1], Via(site, q), ref) :
              j # 0 => j \in 1 .. Len(q) + 1
<1>1. Len(q) \in Nat /\ Len(Via(site, q)) = Len(q) + 1
  BY ViaFacts
<1>2. ASSUME NEW k \in 0 .. Len(q)
      PROVE  k + 1 \in Around(site[1], Via(site, q), ref)
               <=> k \in Around(Target(site), q, ref)
  <2>1. SubSeq(Via(site, q), 1, k + 1) = Via(site, SubSeq(q, 1, k))
        /\ SubSeq(q, 1, k) \in Seq(ImportSites)
    BY PrefixVia, PrefixFacts
  <2>2. FileAt(site[1], SubSeq(Via(site, q), 1, k + 1))
          = FileAt(Target(site), SubSeq(q, 1, k))
    BY <2>1, FileVia
  <2>3. k + 1 \in 0 .. Len(Via(site, q))
    BY <1>1
  <2> QED
    BY <2>2, <2>3 DEF Around
<1>3. \A j \in Around(site[1], Via(site, q), ref) : j # 0 => j \in 1 .. Len(q) + 1
  BY <1>1 DEF Around
<1> QED
  BY <1>2, <1>3

\* What a name means to the importer is what it means to the import, under the
\* import's namespace if it is the name of something there.
LEMMA MeantVia ==
  ASSUME DiskOK, NEW site \in ImportSites, NEW q \in Paths(Target(site)),
         NEW ref \in Reference, NEW m, m = Meant(Target(site), q, ref)
  PROVE  /\ m.name \in Seq(Segments) \ {<<>>}
         /\ m = Named(ref, m.name)
         /\ Meant(site[1], Via(site, q), ref)
              = IF m.name \in Known(Target(site), ref.kind)
                THEN Named(ref, NamespaceOf(site) \o m.name) ELSE m
<1> DEFINE g == Target(site)
           f == site[1]
           p == Via(site, q)
<1>1. q \in Seq(ImportSites) /\ p \in Seq(ImportSites) /\ g \in Files
      /\ NamespaceOf(site) \in Seq(Segments) /\ Len(q) \in Nat
  <2>1. q \in Seq(ImportSites)
    BY DEF Paths
  <2> QED
    BY <2>1, ViaFacts, SiteFacts
<1>2. ref.name \in Seq(Segments) \ {<<>>}
  <2>1. ref.name \in Seq(Names \cup Namespaces) \ {<<>>}
    BY DEF Reference
  <2>2. Names \cup Namespaces \subseteq Segments
    BY DEF Segments
  <2> QED
    BY <2>1, <2>2, SeqMonotonic
<1>3. /\ \A k \in 0 .. Len(q) :
           k + 1 \in Around(f, p, ref) <=> k \in Around(g, q, ref)
      /\ \A j \in Around(f, p, ref) : j # 0 => j \in 1 .. Len(q) + 1
  BY <1>1, AroundVia
<1>4. ref = Named(ref, ref.name)
  BY NamedFacts
<1>a. m = Meant(g, q, ref)
  OBVIOUS
<1>b. ASSUME NEW k \in 0 .. Len(q)
      PROVE  /\ Upto(q, k) \in Seq(ImportSites)
             /\ Qualifier(Upto(p, k + 1)) = NamespaceOf(site) \o Qualifier(Upto(q, k))
  <2>1. Upto(q, k) \in Seq(ImportSites)
    BY <1>1, PrefixFacts DEF Upto
  <2>2. Upto(p, k + 1) = Via(site, Upto(q, k))
    BY <1>1, PrefixVia DEF Upto
  <2>3. Qualifier(Via(site, Upto(q, k))) = NamespaceOf(site) \o Qualifier(Upto(q, k))
    BY <2>1, QualifierVia
  <2> QED
    BY <2>1, <2>2, <2>3
<1> HIDE DEF f, g, p
<1>5. CASE Around(g, q, ref) = {}
  <2>1. m = ref
    BY <1>5, <1>a, MeantOutside
  <2>2. ref.name \notin Known(g, ref.kind)
    <3>1. 0 \notin Around(g, q, ref) /\ 0 \in 0 .. Len(q)
      BY <1>1, <1>5
    <3>2. SubSeq(q, 1, 0) = <<>>
      BY SubSeqEmpty
    <3>3. FileAt(g, SubSeq(q, 1, 0)) = g
      BY <3>2, EmptyPath
    <3> QED
      BY <3>1, <3>3 DEF Around
  <2>3. Meant(f, p, ref) = ref
    <3>1. CASE Around(f, p, ref) = {}
      BY <3>1, MeantOutside
    <3>2. CASE Around(f, p, ref) # {}
      <4>1. \A j \in Around(f, p, ref) : j = 0
        <5> SUFFICES ASSUME NEW j \in Around(f, p, ref), j # 0 PROVE FALSE
          OBVIOUS
        <5>1. Len(q) \in Nat /\ j \in 1 .. Len(q) + 1
          BY <1>1, <1>3
        <5>2. PICK k \in 0 .. Len(q) : j = k + 1
          BY <5>1
        <5> QED
          BY <1>3, <1>5, <5>2
      <4>2. Innermost(0, f, p, ref)
        BY <3>2, <4>1 DEF Innermost
      <4>3. Meant(f, p, ref) = Named(ref, Qualifier(Upto(p, 0)) \o ref.name)
        BY <1>1, <4>2, MeantInside
      <4>4. Qualifier(Upto(p, 0)) = <<>>
        <5>1. Upto(p, 0) = <<>>
          BY SubSeqEmpty DEF Upto
        <5> QED
          BY <5>1, QualifierEmpty
      <4>5. <<>> \o ref.name = ref.name
        BY <1>2, ConcatEmptySeq
      <4> QED
        BY <1>4, <4>3, <4>4, <4>5, Zenon
    <3> QED
      BY <3>1, <3>2
  <2> QED
    BY <1>2, <1>4, <2>1, <2>2, <2>3 DEF f, g, p
<1>6. CASE Around(g, q, ref) # {}
  <2>1. PICK k \in 0 .. Len(q) : Innermost(k, g, q, ref)
    BY <1>1, <1>6, InnermostExists
  <2>2. Innermost(k + 1, f, p, ref)
    <3>1. k \in Around(g, q, ref) /\ \A i \in Around(g, q, ref) : i <= k
      BY <2>1 DEF Innermost
    <3>2. ASSUME NEW j \in Around(f, p, ref) PROVE j <= k + 1
      <4>1. CASE j = 0
        BY <4>1
      <4>2. CASE j # 0
        <5>1. Len(q) \in Nat /\ j \in 1 .. Len(q) + 1
          BY <1>1, <1>3, <4>2
        <5>2. PICK i \in 0 .. Len(q) : j = i + 1
          BY <5>1
        <5>3. i <= k
          BY <1>3, <3>1, <5>2
        <5> QED
          BY <5>2, <5>3
      <4> QED
        BY <4>1, <4>2
    <3> QED
      BY <1>3, <3>1, <3>2 DEF Innermost
  <2> DEFINE pre == Qualifier(Upto(q, k))
  <2>3. /\ m = Named(ref, pre \o ref.name)
        /\ Meant(f, p, ref) = Named(ref, Qualifier(Upto(p, k + 1)) \o ref.name)
    <3>1. m = Named(ref, pre \o ref.name)
      BY <1>1, <1>a, <2>1, MeantInside
    <3>2. Meant(f, p, ref) = Named(ref, Qualifier(Upto(p, k + 1)) \o ref.name)
      BY <1>1, <2>2, MeantInside
    <3> QED
      BY <3>1, <3>2
  <2>4. Upto(q, k) \in Seq(ImportSites)
        /\ Qualifier(Upto(p, k + 1)) = NamespaceOf(site) \o pre
    BY <1>b
  <2>5. pre \in Seq(Segments)
    BY <2>4, QualifierType
  <2> HIDE DEF pre
  <2>6. (NamespaceOf(site) \o pre) \o ref.name = NamespaceOf(site) \o (pre \o ref.name)
    <3>1. PICK name \in Seq(Segments) : name = ref.name
      BY <1>2
    <3>2. NamespaceOf(site) \in Seq(Segments)
      BY <1>1
    <3>3. (NamespaceOf(site) \o pre) \o name = NamespaceOf(site) \o (pre \o name)
      BY <2>5, <3>2, ConcatAssociative
    <3> QED
      BY <3>1, <3>3
  <2>7. pre \o ref.name \in Seq(Segments) \ {<<>>}
    BY <1>2, <2>5, ConcatProperties, ConcatEqualIffEmpty
  <2>8. m.name = pre \o ref.name /\ m = Named(ref, pre \o ref.name)
    <3>1. \A name : Named(ref, name).name = name
      BY NamedFacts
    <3> QED
      BY <2>3, <3>1, Zenon
  <2>9. Meant(f, p, ref) = Named(ref, NamespaceOf(site) \o m.name)
    <3>1. Meant(f, p, ref) = Named(ref, (NamespaceOf(site) \o pre) \o ref.name)
      BY <2>3, <2>4
    <3> QED
      BY <2>6, <2>8, <3>1, Zenon
  <2>10. m.name \in Known(g, ref.kind)
    <3>1. ref.name \in Known(FileAt(g, SubSeq(q, 1, k)), ref.kind)
      BY <2>1 DEF Innermost, Around
    <3>2. k \in Nat /\ k <= Len(q)
      BY <1>1
    <3>3. q \in Paths(g)
      BY DEF g
    <3>4. Qualifier(SubSeq(q, 1, k)) \o ref.name \in Known(g, ref.kind)
      BY <1>1, <3>1, <3>2, <3>3, KnownAbove
    <3>5. Qualifier(SubSeq(q, 1, k)) = pre
      BY DEF pre, Upto
    <3> QED
      BY <2>8, <3>4, <3>5
  <2> QED
    BY <2>7, <2>8, <2>9, <2>10 DEF f, g, p
<1> QED
  BY <1>5, <1>6

(***************************************************************************)
(* A scenario composed so far: it has one item for every occurrence of an  *)
(* item on a path that starts with an import already merged.               *)
(***************************************************************************)
Copy(file, o) ==
  LET item == ItemsAt(file, o[1])[o[2]]
  IN  [kind |-> item.kind, id |-> Qualified(o[1], item.id),
       refs |-> {Meant(file, o[1], r) : r \in Unqualified(item.refs)}]

Stripped(item) == [item EXCEPT !.refs = Unqualified(@)]

PathsBefore(file, n) == {p \in Paths(file) : p # <<>> => p[1][2] < n}
OccurrencesBefore(file, n) ==
  UNION {{p} \X DOMAIN ItemsAt(file, p) : p \in PathsBefore(file, n)}

Matches(file, n, s, b) ==
  /\ b \in [DOMAIN s.items -> OccurrencesBefore(file, n)]
  /\ \A i, j \in DOMAIN s.items : b[i] = b[j] => i = j
  /\ \A o \in OccurrencesBefore(file, n) : \E i \in DOMAIN s.items : b[i] = o
  /\ \A i \in DOMAIN s.items : Stripped(s.items[i]) = Copy(file, b[i])

Composed(file, n, s) == s \in Scenario /\ \E b : Matches(file, n, s, b)
Whole(file, s) == Composed(file, Len(ImportsOf(file)) + 1, s)

LEMMA StrippedFacts ==
  ASSUME NEW item \in Item
  PROVE  Stripped(item) = [kind |-> item.kind, id |-> item.id,
                           refs |-> Unqualified(item.refs)]
  BY DEF Stripped, Item

LEMMA OccurrenceFacts ==
  ASSUME NEW f, NEW n, NEW o \in OccurrencesBefore(f, n)
  PROVE  /\ o = <<o[1], o[2]>>
         /\ o[1] \in Paths(f)
         /\ o[1] # <<>> => o[1][1][2] < n
         /\ o[1] \in Seq(ImportSites)
         /\ o[2] \in DOMAIN ItemsAt(f, o[1])
  BY DEF OccurrencesBefore, PathsBefore, Paths

LEMMA AllPaths ==
  ASSUME DiskOK, NEW f \in Files
  PROVE  PathsBefore(f, Len(ImportsOf(f)) + 1) = Paths(f)
<1> SUFFICES ASSUME NEW p \in Paths(f), p # <<>>
             PROVE  p[1][2] < Len(ImportsOf(f)) + 1
  BY DEF PathsBefore
<1>1. p \in Seq(ImportSites) /\ p[1][1] = f
  BY DEF Paths, Chained
<1>2. p[1] \in ImportSites
  BY <1>1, Split
<1>3. p[1][2] \in DOMAIN ImportsOf(f)
  BY <1>1, <1>2, SiteFacts
<1>4. ImportsOf(f) \in Seq(Import)
  BY DiskFacts
<1>5. DOMAIN ImportsOf(f) = 1 .. Len(ImportsOf(f)) /\ Len(ImportsOf(f)) \in Nat
  BY <1>4
<1> QED
  BY <1>3, <1>5

\* What a composed scenario declares is what its file makes known.
LEMMA DeclaredIsKnown ==
  ASSUME DiskOK, NEW g \in Files, NEW t, Whole(g, t), NEW kind, NEW name, name # <<>>
  PROVE  name \in DeclaredIn(t.items, kind) <=> name \in Known(g, kind)
<1> DEFINE n == Len(ImportsOf(g)) + 1
<1>1. PICK b : Matches(g, n, t, b)
  BY DEF Whole, Composed
<1>2. t.items \in Seq(Item)
  BY ScenarioFields DEF Whole, Composed
<1>3. ASSUME NEW i \in DOMAIN t.items
      PROVE  /\ b[i] \in OccurrencesBefore(g, n)
             /\ b[i][1] \in Paths(g) /\ b[i][2] \in DOMAIN ItemsAt(g, b[i][1])
             /\ t.items[i].kind = ItemsAt(g, b[i][1])[b[i][2]].kind
             /\ t.items[i].id = Qualified(b[i][1], ItemsAt(g, b[i][1])[b[i][2]].id)
  <2>1. b[i] \in OccurrencesBefore(g, n) /\ Stripped(t.items[i]) = Copy(g, b[i])
    BY <1>1 DEF Matches
  <2>2. t.items[i] \in Item
    BY <1>2
  <2>3. /\ Stripped(t.items[i]).kind = t.items[i].kind
        /\ Stripped(t.items[i]).id = t.items[i].id
    BY <2>2, StrippedFacts
  <2>4. /\ Copy(g, b[i]).kind = ItemsAt(g, b[i][1])[b[i][2]].kind
        /\ Copy(g, b[i]).id = Qualified(b[i][1], ItemsAt(g, b[i][1])[b[i][2]].id)
    BY DEF Copy
  <2>5. b[i][1] \in Paths(g) /\ b[i][2] \in DOMAIN ItemsAt(g, b[i][1])
    BY <2>1, OccurrenceFacts
  <2> QED
    BY <2>1, <2>3, <2>4, <2>5
<1>4. ASSUME name \in DeclaredIn(t.items, kind) PROVE name \in Known(g, kind)
  <2>1. PICK i \in DOMAIN t.items : t.items[i].kind = kind /\ t.items[i].id = name
    BY <1>4 DEF DeclaredIn
  <2> DEFINE p == b[i][1]
             item == ItemsAt(g, p)[b[i][2]]
  <2>2. /\ p \in Paths(g) /\ b[i][2] \in DOMAIN ItemsAt(g, p)
        /\ item.kind = kind /\ Qualified(p, item.id) = name
    BY <1>3, <2>1
  <2>3. item.id # <<>>
    BY <2>2 DEF Qualified
  <2>4. item.id \in DeclaredIn(ItemsAt(g, p), kind) \ {<<>>}
    BY <2>2, <2>3 DEF DeclaredIn
  <2> HIDE DEF p, item
  <2> QED
    BY <2>2, <2>4 DEF Known
<1>5. ASSUME name \in Known(g, kind) PROVE name \in DeclaredIn(t.items, kind)
  <2>1. PICK p \in Paths(g) :
          \E id \in DeclaredIn(ItemsAt(g, p), kind) \ {<<>>} : name = Qualified(p, id)
    BY <1>5 DEF Known
  <2>2. PICK j \in DOMAIN ItemsAt(g, p) :
          ItemsAt(g, p)[j].kind = kind /\ name = Qualified(p, ItemsAt(g, p)[j].id)
    BY <2>1 DEF DeclaredIn
  <2>3. <<p, j>> \in OccurrencesBefore(g, n)
    BY <2>2, AllPaths DEF OccurrencesBefore
  <2>4. PICK i \in DOMAIN t.items : b[i] = <<p, j>>
    BY <1>1, <2>3 DEF Matches
  <2>5. t.items[i].kind = kind /\ t.items[i].id = name
    BY <1>3, <2>2, <2>4
  <2> QED
    BY <2>5 DEF DeclaredIn
<1> QED
  BY <1>4, <1>5

\* What renaming makes of a reference when the import returns.
LEMMA RenamedReference ==
  ASSUME DiskOK, NEW site \in ImportSites, NEW q \in Paths(Target(site)),
         NEW ref \in Reference, ref.role = None, NEW t, Whole(Target(site), t),
         NEW ns, ns = ImportAt(site).ns, NEW m, m = Meant(Target(site), q, ref)
  PROVE  /\ m.role = None
         /\ Meant(site[1], Via(site, q), ref)
              = IF ns = None THEN m ELSE Renamed(ns, m, t.items)
<1>1. /\ m.name \in Seq(Segments) \ {<<>>}
      /\ m = Named(ref, m.name)
      /\ Meant(site[1], Via(site, q), ref)
              = IF m.name \in Known(Target(site), ref.kind)
                THEN Named(ref, NamespaceOf(site) \o m.name) ELSE m
  BY MeantVia
<1>2. PICK name : name = m.name /\ name \in Seq(Segments) \ {<<>>}
  BY <1>1
<1>3. m = Named(ref, name)
  BY <1>1, <1>2
<1>4. m.role = None /\ m.kind = ref.kind
      /\ \A other : Named(m, other) = Named(ref, other)
  <2>1. /\ Named(ref, name).kind = ref.kind
        /\ Named(ref, name).role = ref.role
        /\ \A other : Named(Named(ref, name), other) = Named(ref, other)
    BY NamedFacts
  <2> QED
    BY <1>3, <2>1, Zenon
<1>5. Target(site) \in Files
  BY SiteFacts
<1>6. CASE ns = None
  <2>1. NamespaceOf(site) = <<>>
    BY <1>6 DEF NamespaceOf
  <2>2. <<>> \o name = name
    BY <1>2, ConcatEmptySeq
  <2>3. Meant(site[1], Via(site, q), ref) = m
    BY <1>1, <1>2, <1>3, <2>1, <2>2
  <2> QED
    BY <1>4, <1>6, <2>3
<1>7. CASE ns # None
  <2>1. NamespaceOf(site) = <<ns>>
    BY <1>7 DEF NamespaceOf
  <2>2. name \in DeclaredIn(t.items, ref.kind) <=> name \in Known(Target(site), ref.kind)
    BY <1>2, <1>5, DeclaredIsKnown
  <2>3. Renamed(ns, m, t.items)
          = IF m.role = None /\ m.name \in DeclaredIn(t.items, m.kind)
            THEN Named(m, <<ns>> \o m.name) ELSE m
    BY DEF Renamed, Named
  <2>4. Renamed(ns, m, t.items)
          = IF name \in Known(Target(site), ref.kind)
            THEN Named(ref, <<ns>> \o name) ELSE m
    BY <1>2, <1>4, <2>2, <2>3
  <2> QED
    BY <1>1, <1>2, <1>4, <1>7, <2>1, <2>4
<1> QED
  BY <1>6, <1>7

Moved(site, o) == <<Via(site, o[1]), o[2]>>

\* The references of an item of the import, without a role.
RefsVia(site, o) ==
  {Meant(site[1], Via(site, o[1]), r) :
     r \in Unqualified(ItemsAt(Target(site), o[1])[o[2]].refs)}

LEMMA CopyVia ==
  ASSUME DiskOK, NEW site \in ImportSites,
         NEW n, NEW o \in OccurrencesBefore(Target(site), n)
  PROVE  LET item == ItemsAt(Target(site), o[1])[o[2]]
         IN  /\ item \in Item
             /\ Copy(Target(site), o)
                  = [kind |-> item.kind, id |-> Qualified(o[1], item.id),
                     refs |-> {Meant(Target(site), o[1], r) :
                                 r \in Unqualified(item.refs)}]
             /\ Copy(site[1], Moved(site, o))
                  = [kind |-> item.kind,
                     id |-> IF item.id = <<>> THEN <<>>
                            ELSE NamespaceOf(site) \o Qualified(o[1], item.id),
                     refs |-> RefsVia(site, o)]
             /\ Qualified(o[1], item.id) \in Seq(Segments)
             /\ Qualified(o[1], item.id) = <<>> <=> item.id = <<>>
<1> DEFINE g == Target(site)
           q == o[1]
           item == ItemsAt(g, q)[o[2]]
<1>1. q \in Paths(g) /\ q \in Seq(ImportSites) /\ o[2] \in DOMAIN ItemsAt(g, q)
  BY OccurrenceFacts
<1>2. item \in Item /\ item.id \in Seq(Segments)
  BY <1>1, SiteFacts, ItemsAtType
<1>3. /\ Qualified(q, item.id) \in Seq(Segments)
      /\ Qualified(q, item.id) = <<>> <=> item.id = <<>>
      /\ item.id # <<>> => Qualified(Via(site, q), item.id)
                            = NamespaceOf(site) \o Qualified(q, item.id)
  BY <1>1, <1>2, QualifiedVia
<1>4. Qualified(Via(site, q), item.id)
        = IF item.id = <<>> THEN <<>> ELSE NamespaceOf(site) \o Qualified(q, item.id)
  BY <1>3 DEF Qualified
<1>5. ItemsAt(site[1], Via(site, q)) = ItemsAt(g, q)
  BY <1>1, FileVia DEF ItemsAt
<1>6. /\ Moved(site, o)[1] = Via(site, q) /\ Moved(site, o)[2] = o[2]
      /\ ItemsAt(site[1], Moved(site, o)[1])[Moved(site, o)[2]] = item
  BY <1>5 DEF Moved
<1>7. Copy(site[1], Moved(site, o))
        = [kind |-> item.kind, id |-> Qualified(Via(site, q), item.id),
           refs |-> RefsVia(site, o)]
  <2>1. \A x : x = item =>
          Copy(site[1], Moved(site, o))
            = [kind |-> x.kind, id |-> Qualified(Via(site, q), x.id),
               refs |-> {Meant(site[1], Via(site, q), r) : r \in Unqualified(x.refs)}]
    BY <1>6, Zenon DEF Copy
  <2> QED
    BY <2>1, Zenon DEF RefsVia
<1> HIDE DEF item
<1>8. Copy(site[1], Moved(site, o))
        = [kind |-> item.kind,
           id |-> IF item.id = <<>> THEN <<>>
                  ELSE NamespaceOf(site) \o Qualified(q, item.id),
           refs |-> RefsVia(site, o)]
  BY <1>4, <1>7
<1> QED
  BY <1>2, <1>3, <1>8 DEF Copy, item

LEMMA NewItem ==
  ASSUME NEW mine \in Item, NEW id, NEW refs
  PROVE  [mine EXCEPT !.id = id, !.refs = refs]
           = [kind |-> mine.kind, id |-> id, refs |-> refs]
<1> DEFINE new == [mine EXCEPT !.id = id, !.refs = refs]
           made == [kind |-> mine.kind, id |-> id, refs |-> refs]
           Fields == {"kind", "id", "refs"}
<1>1. DOMAIN mine = Fields /\ mine = [x \in Fields |-> mine[x]]
  BY DEF Item
<1>2. new = [x \in Fields |-> new[x]]
  BY <1>1
<1>3. made = [x \in Fields |-> made[x]]
  OBVIOUS
<1>4. new["kind"] = made["kind"] /\ new["id"] = made["id"]
      /\ new["refs"] = made["refs"]
  BY <1>1
<1> HIDE DEF new, made
<1>5. new = made
  BY <1>2, <1>3, <1>4
<1> QED
  BY <1>5 DEF new, made

Brought(ns, items, item) ==
  IF ns = None THEN item
  ELSE [item EXCEPT !.id = Prefixed(ns, @),
                    !.refs = {Renamed(ns, r, items) : r \in @}]

\* An item of the import, renamed as its importer renames it, is the copy that
\* its path from the importer asks for.
LEMMA RenamedItem ==
  ASSUME DiskOK, NEW site \in ImportSites, NEW t, Whole(Target(site), t),
         NEW n, NEW o \in OccurrencesBefore(Target(site), n),
         NEW mine \in Item, Stripped(mine) = Copy(Target(site), o),
         NEW ns, ns = ImportAt(site).ns
  PROVE  Copy(site[1], Moved(site, o)) = Stripped(Brought(ns, t.items, mine))
<1> DEFINE g == Target(site)
           q == o[1]
           item == ItemsAt(g, q)[o[2]]
           R == Unqualified(item.refs)
<1>1. /\ item \in Item
      /\ Copy(g, o) = [kind |-> item.kind, id |-> Qualified(q, item.id),
                       refs |-> {Meant(g, q, r) : r \in R}]
      /\ Copy(site[1], Moved(site, o))
                  = [kind |-> item.kind,
                     id |-> IF item.id = <<>> THEN <<>>
                            ELSE NamespaceOf(site) \o Qualified(q, item.id),
                     refs |-> RefsVia(site, o)]
      /\ Qualified(q, item.id) \in Seq(Segments)
      /\ Qualified(q, item.id) = <<>> <=> item.id = <<>>
  BY CopyVia
<1>2. q \in Paths(g)
  BY OccurrenceFacts
<1>3. \A r \in R : r \in Reference /\ r.role = None
  BY <1>1 DEF Unqualified, Item
<1>4. RefsVia(site, o) = {Meant(site[1], Via(site, q), r) : r \in R}
  BY DEF RefsVia
<1>5. Stripped(mine) = [kind |-> mine.kind, id |-> mine.id,
                        refs |-> Unqualified(mine.refs)]
  BY StrippedFacts
<1> HIDE DEF g, q, item, R
<1>6. /\ mine.kind = item.kind /\ mine.id = Qualified(q, item.id)
      /\ Unqualified(mine.refs) = {Meant(g, q, r) : r \in R}
  BY <1>1, <1>5 DEF g
<1>7. \A r \in R :
        /\ Meant(g, q, r).role = None
        /\ Meant(site[1], Via(site, q), r)
             = IF ns = None THEN Meant(g, q, r)
               ELSE Renamed(ns, Meant(g, q, r), t.items)
  BY <1>2, <1>3, RenamedReference DEF g
<1>8. CASE ns = None
  <2>1. NamespaceOf(site) = <<>>
    BY <1>8 DEF NamespaceOf
  <2>2. RefsVia(site, o) = Unqualified(mine.refs)
    BY <1>4, <1>6, <1>7, <1>8
  <2>3. <<>> \o Qualified(q, item.id) = Qualified(q, item.id)
    BY <1>1, ConcatEmptySeq
  <2>4. Copy(site[1], Moved(site, o)) = Stripped(mine)
    BY <1>1, <1>5, <1>6, <2>1, <2>2, <2>3
  <2> QED
    BY <1>8, <2>4 DEF Brought
<1>9. CASE ns # None
  <2> DEFINE new == [mine EXCEPT !.id = Prefixed(ns, @),
                                 !.refs = {Renamed(ns, r, t.items) : r \in @}]
  <2>1. NamespaceOf(site) = <<ns>>
    BY <1>9 DEF NamespaceOf
  <2>2. Stripped(new) = [kind |-> mine.kind, id |-> Prefixed(ns, mine.id),
                         refs |-> Unqualified({Renamed(ns, r, t.items) : r \in mine.refs})]
    <3> DEFINE refs == {Renamed(ns, r, t.items) : r \in mine.refs}
    <3>1. \A id, rs : Stripped([mine EXCEPT !.id = id, !.refs = rs])
                      = [kind |-> mine.kind, id |-> id, refs |-> Unqualified(rs)]
      <4> SUFFICES ASSUME NEW id, NEW rs
                   PROVE  Stripped([mine EXCEPT !.id = id, !.refs = rs])
                            = [kind |-> mine.kind, id |-> id, refs |-> Unqualified(rs)]
        OBVIOUS
      <4>2. [mine EXCEPT !.id = id, !.refs = rs]
              = [kind |-> mine.kind, id |-> id, refs |-> rs]
        BY NewItem
      <4>3. Stripped([kind |-> mine.kind, id |-> id, refs |-> rs])
              = [kind |-> mine.kind, id |-> id, refs |-> Unqualified(rs)]
        BY DEF Stripped
      <4> QED
        BY <4>2, <4>3, Zenon
    <3>2. new = [mine EXCEPT !.id = Prefixed(ns, mine.id), !.refs = refs]
      BY Zenon
    <3> HIDE DEF refs, new
    <3>3. Stripped(new) = [kind |-> mine.kind, id |-> Prefixed(ns, mine.id),
                           refs |-> Unqualified(refs)]
      BY <3>1, <3>2, Zenon
    <3> QED
      BY <3>3 DEF refs
  <2>3. Unqualified({Renamed(ns, r, t.items) : r \in mine.refs})
          = {Renamed(ns, r, t.items) : r \in Unqualified(mine.refs)}
    <3>1. \A r \in mine.refs : Renamed(ns, r, t.items).role = r.role
      BY DEF Renamed, Item, Reference
    <3> QED
      BY <3>1 DEF Unqualified
  <2>4. RefsVia(site, o) = {Renamed(ns, r, t.items) : r \in Unqualified(mine.refs)}
    BY <1>4, <1>6, <1>7, <1>9
  <2>5. Prefixed(ns, mine.id)
          = IF item.id = <<>> THEN <<>> ELSE <<ns>> \o Qualified(q, item.id)
    BY <1>1, <1>6 DEF Prefixed
  <2>6. Copy(site[1], Moved(site, o)) = Stripped(new)
    BY <1>1, <1>6, <2>1, <2>2, <2>3, <2>4, <2>5
  <2>7. Brought(ns, t.items, mine) = new
    BY <1>9, Zenon DEF Brought
  <2> QED
    BY <2>6, <2>7, Zenon
<1> QED
  BY <1>8, <1>9

\* The fragment that is merged has the copies that paths through the import
\* ask for.
LEMMA FragmentItems ==
  ASSUME DiskOK, NEW site \in ImportSites, NEW t, NEW n,
         Whole(Target(site), t), NEW c,
         n = Len(ImportsOf(Target(site))) + 1, Matches(Target(site), n, t, c),
         NEW ns, ns = ImportAt(site).ns, ns # Malformed
  PROVE  /\ InNamespace(ns, t) \in Scenario
         /\ DOMAIN InNamespace(ns, t).items = DOMAIN t.items
         /\ \A i \in DOMAIN t.items :
              Stripped(InNamespace(ns, t).items[i])
                = Copy(site[1], Moved(site, c[i]))
<1>1. ns \in Namespaces \cup {None}
  <2>1. ImportAt(site) \in Import
    BY SiteFacts
  <2> QED
    BY <2>1 DEF Import
<1>2. t \in Scenario /\ t.items \in Seq(Item)
  BY ScenarioFields DEF Whole, Composed
<1>3. InNamespace(ns, t) \in Scenario
  BY <1>1, <1>2, PrefixType DEF InNamespace
<1>4. ns # None =>
        InNamespace(ns, t).items
          = [i \in DOMAIN t.items |->
               [t.items[i] EXCEPT !.id = Prefixed(ns, @),
                                  !.refs = {Renamed(ns, r, t.items) : r \in @}]]
  <2>1. \A v : [t EXCEPT !.items = v].items = v
    BY <1>2 DEF Scenario
  <2> QED
    BY <2>1, Zenon DEF InNamespace, PrefixFragment
<1>5. ns = None => InNamespace(ns, t).items = t.items
  BY DEF InNamespace
<1>6. DOMAIN InNamespace(ns, t).items = DOMAIN t.items
  BY <1>4, <1>5
<1>7. ASSUME NEW i \in DOMAIN t.items
      PROVE  Stripped(InNamespace(ns, t).items[i]) = Copy(site[1], Moved(site, c[i]))
  <2>1. InNamespace(ns, t).items[i]
          = Brought(ns, t.items, t.items[i])
    BY <1>4, <1>5, Zenon DEF Brought
  <2>2. /\ c[i] \in OccurrencesBefore(Target(site), n)
        /\ Stripped(t.items[i]) = Copy(Target(site), c[i])
    BY DEF Matches
  <2>3. t.items[i] \in Item
    BY <1>2
  <2>4. Copy(site[1], Moved(site, c[i]))
          = Stripped(Brought(ns, t.items, t.items[i]))
    BY <2>2, <2>3, RenamedItem
  <2> QED
    BY <2>1, <2>4, Zenon
<1> QED
  BY <1>3, <1>6, <1>7

\* The paths before the next import are those before this one and those that
\* start with it.
LEMMA NextOccurrences ==
  ASSUME DiskOK, NEW site \in ImportSites, NEW n,
         n = Len(ImportsOf(Target(site))) + 1
  PROVE  /\ \A o \in OccurrencesBefore(site[1], site[2]) :
              o \in OccurrencesBefore(site[1], site[2] + 1)
         /\ \A o \in OccurrencesBefore(Target(site), n) :
              /\ Moved(site, o) \in OccurrencesBefore(site[1], site[2] + 1)
              /\ Moved(site, o) \notin OccurrencesBefore(site[1], site[2])
         /\ \A o \in OccurrencesBefore(site[1], site[2] + 1) :
              \/ o \in OccurrencesBefore(site[1], site[2])
              \/ \E x \in OccurrencesBefore(Target(site), n) : o = Moved(site, x)
         /\ \A x, y \in OccurrencesBefore(Target(site), n) :
              Moved(site, x) = Moved(site, y) => x = y
<1> DEFINE f == site[1]
           k == site[2]
           g == Target(site)
<1>1. k \in Nat \ {0} /\ site = <<f, k>> /\ g \in Files
  BY SiteFacts
<1>2. PathsBefore(g, n) = Paths(g)
  BY <1>1, AllPaths
<1>3. ASSUME NEW q \in Paths(g)
      PROVE  /\ q \in Seq(ImportSites)
             /\ Via(site, q) \in Paths(f) /\ Via(site, q) # <<>>
             /\ Via(site, q)[1][2] = k
             /\ Via(site, q) \in PathsBefore(f, k + 1)
             /\ Via(site, q) \notin PathsBefore(f, k)
             /\ ItemsAt(f, Via(site, q)) = ItemsAt(g, q)
  <2>1. q \in Seq(ImportSites)
    BY DEF Paths
  <2>2. Via(site, q) \in Paths(f)
    BY <2>1, PathVia
  <2>3. Via(site, q) # <<>> /\ Via(site, q)[1] = site
    BY <2>1, ViaFacts
  <2>4. ItemsAt(f, Via(site, q)) = ItemsAt(g, q)
    BY <2>1, FileVia DEF ItemsAt
  <2> QED
    BY <1>1, <2>1, <2>2, <2>3, <2>4 DEF PathsBefore
<1>4. ASSUME NEW p \in PathsBefore(f, k + 1), p \notin PathsBefore(f, k)
      PROVE  \E q \in Paths(g) : p = Via(site, q)
  <2>1. p \in Paths(f) /\ p # <<>> /\ p[1][2] < k + 1 /\ ~(p[1][2] < k)
    BY <1>4 DEF PathsBefore
  <2>2. p \in Seq(ImportSites)
    BY <2>1 DEF Paths
  <2>3. PICK q \in Seq(ImportSites), s \in ImportSites : s = p[1] /\ p = Via(s, q)
    BY <2>1, <2>2, Split
  <2>4. s[1] = f /\ q \in Paths(Target(s))
    <3>1. Via(s, q) \in Paths(f)
      BY <2>1, <2>3
    <3> QED
      BY <3>1, PathVia
  <2>5. s[2] \in Nat /\ s = <<s[1], s[2]>>
    BY SiteFacts
  <2>6. s[2] = k
    BY <1>1, <2>1, <2>3, <2>5
  <2>7. s = site
    BY <1>1, <2>4, <2>5, <2>6
  <2> QED
    BY <2>3, <2>4, <2>7
<1>5. ASSUME NEW x \in Paths(g), NEW y \in Paths(g), Via(site, x) = Via(site, y)
      PROVE  x = y
  <2>1. x \in Seq(ImportSites) /\ y \in Seq(ImportSites)
    BY DEF Paths
  <2>2. /\ Len(x) \in Nat /\ Len(y) \in Nat
        /\ Len(Via(site, x)) = Len(x) + 1 /\ Len(Via(site, y)) = Len(y) + 1
        /\ \A i \in 1 .. Len(x) : Via(site, x)[i + 1] = x[i]
        /\ \A i \in 1 .. Len(y) : Via(site, y)[i + 1] = y[i]
    BY <2>1, ViaFacts
  <2>3. Len(x) = Len(y)
    BY <1>5, <2>2
  <2>4. \A i \in 1 .. Len(x) : x[i] = y[i]
    BY <1>5, <2>2, <2>3
  <2> QED
    BY <2>1, <2>3, <2>4, SeqEqual
<1> HIDE DEF f, k, g
<1>6. ASSUME NEW o \in OccurrencesBefore(f, k) PROVE o \in OccurrencesBefore(f, k + 1)
  <2>1. \A p \in PathsBefore(f, k) : p \in PathsBefore(f, k + 1)
    <3> SUFFICES ASSUME NEW p \in PathsBefore(f, k), p # <<>> PROVE p[1][2] < k + 1
      BY DEF PathsBefore
    <3>1. p \in Seq(ImportSites) /\ p[1][2] < k
      BY DEF PathsBefore, Paths
    <3>2. p[1][2] \in Nat
      BY <3>1, Split, SiteFacts
    <3> QED
      BY <1>1, <3>1, <3>2
  <2> QED
    BY <2>1 DEF OccurrencesBefore
<1>7. ASSUME NEW o \in OccurrencesBefore(g, n)
      PROVE  /\ Moved(site, o) \in OccurrencesBefore(f, k + 1)
             /\ Moved(site, o) \notin OccurrencesBefore(f, k)
  <2>1. o[1] \in Paths(g) /\ o[2] \in DOMAIN ItemsAt(g, o[1])
    BY OccurrenceFacts
  <2>2. /\ Via(site, o[1]) \in PathsBefore(f, k + 1)
        /\ Via(site, o[1]) \notin PathsBefore(f, k)
        /\ o[2] \in DOMAIN ItemsAt(f, Via(site, o[1]))
    BY <1>3, <2>1
  <2> QED
    BY <2>2 DEF OccurrencesBefore, Moved
<1>8. ASSUME NEW o \in OccurrencesBefore(f, k + 1), o \notin OccurrencesBefore(f, k)
      PROVE  \E x \in OccurrencesBefore(g, n) : o = Moved(site, x)
  <2>1. PICK p \in PathsBefore(f, k + 1) : o \in {p} \X DOMAIN ItemsAt(f, p)
    BY DEF OccurrencesBefore
  <2>2. p \notin PathsBefore(f, k)
    BY <1>8, <2>1 DEF OccurrencesBefore
  <2>3. PICK q \in Paths(g) : p = Via(site, q)
    BY <1>4, <2>2
  <2>4. PICK j \in DOMAIN ItemsAt(g, q) : o = <<p, j>>
    BY <1>3, <2>1, <2>3
  <2>5. <<q, j>> \in OccurrencesBefore(g, n)
    BY <1>2 DEF OccurrencesBefore
  <2>6. o = Moved(site, <<q, j>>)
    BY <2>3, <2>4 DEF Moved
  <2> QED
    BY <2>5, <2>6
<1>9. ASSUME NEW x \in OccurrencesBefore(g, n), NEW y \in OccurrencesBefore(g, n),
             Moved(site, x) = Moved(site, y)
      PROVE  x = y
  <2>1. x[1] \in Paths(g) /\ y[1] \in Paths(g)
        /\ x = <<x[1], x[2]>> /\ y = <<y[1], y[2]>>
    BY OccurrenceFacts
  <2>2. Via(site, x[1]) = Via(site, y[1]) /\ x[2] = y[2]
    BY <1>9 DEF Moved
  <2>3. x[1] = y[1]
    BY <1>5, <2>1, <2>2
  <2> QED
    BY <2>1, <2>2, <2>3, Zenon
<1> QED
  BY <1>6, <1>7, <1>8, <1>9 DEF f, k, g

\* What is read from a file refers to itself as it is written.
LEMMA MeantAtHome ==
  ASSUME NEW f, NEW ref \in Reference
  PROVE  Meant(f, <<>>, ref) = ref
<1>1. <<>> \in Seq(ImportSites) /\ Len(<<>>) = 0
  OBVIOUS
<1>2. CASE Around(f, <<>>, ref) = {}
  BY <1>2, MeantOutside
<1>3. CASE Around(f, <<>>, ref) # {}
  <2>1. PICK k \in 0 .. Len(<<>>) : Innermost(k, f, <<>>, ref)
    BY <1>1, <1>3, InnermostExists
  <2>2. Innermost(0, f, <<>>, ref)
    <3>1. k = 0
      BY <1>1
    <3> QED
      BY <2>1, <3>1
  <2>3. Meant(f, <<>>, ref) = Named(ref, Qualifier(Upto(<<>>, 0)) \o ref.name)
    BY <1>1, <2>2, MeantInside
  <2>4. Qualifier(Upto(<<>>, 0)) = <<>>
    <3>1. Upto(<<>>, 0) = <<>>
      BY SubSeqEmpty DEF Upto
    <3> QED
      BY <3>1, QualifierEmpty
  <2>5. PICK name \in Seq(Names \cup Namespaces) : name = ref.name
    BY DEF Reference
  <2>6. <<>> \o name = name
    BY ConcatEmptySeq
  <2>7. Named(ref, ref.name) = ref
    BY NamedFacts
  <2> QED
    BY <2>3, <2>4, <2>5, <2>6, <2>7
<1> QED
  BY <1>2, <1>3

LEMMA OpenedComposed ==
  ASSUME DiskOK, NEW f \in Files
  PROVE  Composed(f, 1, disk[f].scenario)
<1> DEFINE s == disk[f].scenario
           b == [i \in DOMAIN s.items |-> <<<<>>, i>>]
<1>1. s \in Scenario /\ s.items \in Seq(Item)
  BY DiskFacts
<1>2. ItemsAt(f, <<>>) = s.items
  BY EmptyPath DEF ItemsAt
<1>3. PathsBefore(f, 1) = {<<>>}
  <2>1. <<>> \in PathsBefore(f, 1)
    BY EmptyPath DEF PathsBefore
  <2>2. ASSUME NEW p \in PathsBefore(f, 1), p # <<>> PROVE FALSE
    <3>1. p \in Seq(ImportSites) /\ p[1][2] < 1
      BY <2>2 DEF PathsBefore, Paths
    <3>2. p[1][2] \in Nat \ {0}
      BY <2>2, <3>1, Split, SiteFacts
    <3> QED
      BY <3>1, <3>2
  <2> QED
    BY <2>1, <2>2
<1>4. OccurrencesBefore(f, 1) = {<<<<>>, i>> : i \in DOMAIN s.items}
  BY <1>2, <1>3 DEF OccurrencesBefore
<1>5. ASSUME NEW i \in DOMAIN s.items PROVE Stripped(s.items[i]) = Copy(f, b[i])
  <2> DEFINE item == s.items[i]
             o == <<<<>>, i>>
  <2>1. item \in Item /\ item.id \in Seq(Names \cup Namespaces)
        /\ item.refs \subseteq Reference
    <3>1. s.items[i] \in Item
      BY <1>1
    <3> QED
      BY <3>1 DEF Item
  <2>2. Qualified(<<>>, item.id) = item.id
    <3>1. PICK id \in Seq(Names \cup Namespaces) : id = item.id
      BY <2>1
    <3>2. <<>> \o id = id
      BY ConcatEmptySeq
    <3>3. Qualified(<<>>, id) = IF id = <<>> THEN <<>> ELSE <<>> \o id
      BY QualifierEmpty DEF Qualified
    <3> HIDE DEF item
    <3> QED
      BY <3>1, <3>2, <3>3
  <2>3. {Meant(f, <<>>, r) : r \in Unqualified(item.refs)} = Unqualified(item.refs)
    <3>1. \A r \in Unqualified(item.refs) : Meant(f, <<>>, r) = r
      BY <2>1, MeantAtHome DEF Unqualified
    <3> HIDE DEF item
    <3> QED
      BY <3>1
  <2>4. ItemsAt(f, o[1])[o[2]] = item /\ o[1] = <<>>
    BY <1>2
  <2>5. b[i] = o
    OBVIOUS
  <2>6. Stripped(item) = [kind |-> item.kind, id |-> item.id,
                          refs |-> Unqualified(item.refs)]
    BY <2>1, StrippedFacts
  <2> HIDE DEF item, o, b
  <2>7. Copy(f, o) = [kind |-> item.kind, id |-> Qualified(<<>>, item.id),
                      refs |-> {Meant(f, <<>>, r) : r \in Unqualified(item.refs)}]
    BY <2>4, Zenon DEF Copy
  <2>8. Stripped(item) = Copy(f, b[i])
    BY <2>2, <2>3, <2>5, <2>6, <2>7
  <2> QED
    BY <2>8 DEF item
<1>6. Matches(f, 1, s, b)
  <2>1. b \in [DOMAIN s.items -> OccurrencesBefore(f, 1)]
    BY <1>4
  <2>2. \A i, j \in DOMAIN s.items : b[i] = b[j] => i = j
    OBVIOUS
  <2>3. \A o \in OccurrencesBefore(f, 1) : \E i \in DOMAIN s.items : b[i] = o
    BY <1>4
  <2> HIDE DEF b
  <2> QED
    BY <1>5, <2>1, <2>2, <2>3 DEF Matches
<1> HIDE DEF b
<1> QED
  BY <1>1, <1>6 DEF Composed

\* Merging an import composes the file up to its next import.
LEMMA ImportComposed ==
  ASSUME DiskOK, NEW site \in ImportSites, NEW s, Composed(site[1], site[2], s),
         NEW t, Whole(Target(site), t),
         NEW ns, ns = ImportAt(site).ns, ns # Malformed
  PROVE  Composed(site[1], site[2] + 1, Merged(s, InNamespace(ns, t)))
<1> DEFINE f == site[1]
           k == site[2]
           g == Target(site)
           n == Len(ImportsOf(g)) + 1
           u == InNamespace(ns, t)
           z == Merged(s, u)
           before == OccurrencesBefore(f, k)
           after == OccurrencesBefore(f, k + 1)
           there == OccurrencesBefore(g, n)
<1>1. PICK b : Matches(f, k, s, b)
  BY DEF Composed
<1>2. PICK c : Matches(g, n, t, c)
  BY DEF Whole, Composed
<1>3. /\ u \in Scenario /\ DOMAIN u.items = DOMAIN t.items
      /\ \A i \in DOMAIN t.items : Stripped(u.items[i]) = Copy(f, Moved(site, c[i]))
  BY <1>2, FragmentItems
<1>4. /\ \A o \in before : o \in after
      /\ \A o \in there : Moved(site, o) \in after /\ Moved(site, o) \notin before
      /\ \A o \in after : o \in before \/ \E x \in there : o = Moved(site, x)
      /\ \A x, y \in there : Moved(site, x) = Moved(site, y) => x = y
  BY NextOccurrences
<1>5. s \in Scenario
  BY DEF Composed
<1>6. z \in Scenario /\ z.items = s.items \o u.items
  <2>1. z \in Scenario
    BY <1>3, <1>5, MergedType
  <2> QED
    BY <2>1 DEF Merged
<1> DEFINE L == Len(s.items)
           M == Len(u.items)
<1>7. /\ L \in Nat /\ M \in Nat
      /\ DOMAIN s.items = 1 .. L /\ DOMAIN t.items = 1 .. M
      /\ DOMAIN z.items = 1 .. L + M
      /\ \A i \in 1 .. L : z.items[i] = s.items[i]
      /\ \A i \in 1 .. M : z.items[L + i] = u.items[i]
  <2>1. s.items \in Seq(Item) /\ u.items \in Seq(Item)
    BY <1>3, <1>5, ScenarioFields
  <2>2. /\ L \in Nat /\ M \in Nat /\ DOMAIN s.items = 1 .. L /\ DOMAIN u.items = 1 .. M
    BY <2>1
  <2>3. /\ z.items \in Seq(Item) /\ Len(z.items) = L + M
        /\ \A i \in 1 .. L + M :
             z.items[i] = IF i <= L THEN s.items[i] ELSE u.items[i - L]
    <3>1. \A v, w \in Seq(Item) :
            /\ v \o w \in Seq(Item) /\ Len(v \o w) = Len(v) + Len(w)
            /\ \A i \in 1 .. Len(v) + Len(w) :
                 (v \o w)[i] = IF i <= Len(v) THEN v[i] ELSE w[i - Len(v)]
      BY ConcatProperties
    <3>2. z.items = s.items \o u.items
      BY <1>6
    <3> HIDE DEF z, u
    <3>3. PICK v \in Seq(Item), w \in Seq(Item) : v = s.items /\ w = u.items
      BY <2>1
    <3>4. L = Len(v) /\ M = Len(w) /\ z.items = v \o w
      BY <3>2, <3>3
    <3> HIDE DEF L, M
    <3>5. /\ z.items \in Seq(Item) /\ Len(z.items) = L + M
          /\ \A i \in 1 .. L + M :
               z.items[i] = IF i <= L THEN v[i] ELSE w[i - L]
      BY <3>1, <3>4
    <3> QED
      BY <3>3, <3>5
  <2> HIDE DEF z, u, L, M
  <2>4. DOMAIN z.items = 1 .. L + M
    BY <2>3
  <2>5. ASSUME NEW i \in 1 .. M PROVE z.items[L + i] = u.items[i]
    <3>1. L + i \in 1 .. L + M /\ ~(L + i <= L) /\ (L + i) - L = i
      BY <2>2
    <3> QED
      BY <2>3, <3>1
  <2>6. ASSUME NEW i \in 1 .. L PROVE z.items[i] = s.items[i]
    BY <2>2, <2>3
  <2> QED
    BY <1>3, <2>2, <2>4, <2>5, <2>6
<1>8. /\ b \in [1 .. L -> before]
      /\ \A i, j \in 1 .. L : b[i] = b[j] => i = j
      /\ \A o \in before : \E i \in 1 .. L : b[i] = o
      /\ \A i \in 1 .. L : Stripped(s.items[i]) = Copy(f, b[i])
  BY <1>1, <1>7 DEF Matches
<1>9. /\ c \in [1 .. M -> there]
      /\ \A i, j \in 1 .. M : c[i] = c[j] => i = j
      /\ \A o \in there : \E i \in 1 .. M : c[i] = o
  BY <1>2, <1>7 DEF Matches
<1> DEFINE d == [i \in 1 .. L + M |->
                   IF i <= L THEN b[i] ELSE Moved(site, c[i - L])]
<1> HIDE DEF f, k, g, n, u, z, before, after, there, L, M
<1>10. ASSUME NEW i \in 1 .. L + M
       PROVE  \/ i \in 1 .. L /\ d[i] = b[i] /\ d[i] \in before
              \/ \E j \in 1 .. M : /\ i = L + j /\ d[i] = Moved(site, c[j])
                                   /\ c[j] \in there /\ d[i] \notin before
  <2>1. CASE i <= L
    BY <1>7, <1>8, <2>1
  <2>2. CASE ~(i <= L)
    <3>1. PICK j \in 1 .. M : i = L + j /\ j = i - L
      BY <1>7, <2>2
    <3>2. d[i] = Moved(site, c[j]) /\ c[j] \in there
      BY <1>9, <2>2, <3>1
    <3> QED
      BY <1>4, <3>1, <3>2
  <2> QED
    BY <2>1, <2>2
<1>11. /\ \A i \in 1 .. L : i \in 1 .. L + M /\ d[i] = b[i]
       /\ \A j \in 1 .. M : L + j \in 1 .. L + M /\ d[L + j] = Moved(site, c[j])
  <2>1. ASSUME NEW j \in 1 .. M
        PROVE  L + j \in 1 .. L + M /\ ~(L + j <= L) /\ (L + j) - L = j
    BY <1>7
  <2> QED
    BY <1>7, <2>1
<1>12. d \in [1 .. L + M -> after]
  <2>1. \A i \in 1 .. L + M : d[i] \in after
    <3> HIDE DEF d
    <3> QED
      BY <1>4, <1>10
  <2>2. d = [i \in 1 .. L + M |-> d[i]]
    OBVIOUS
  <2> HIDE DEF d
  <2> QED
    BY <2>1, <2>2
<1> HIDE DEF d
<1>13. ASSUME NEW i \in 1 .. L + M, NEW j \in 1 .. L + M, d[i] = d[j] PROVE i = j
  <2>1. CASE i \in 1 .. L /\ d[i] = b[i] /\ d[i] \in before
    <3>1. j \in 1 .. L /\ d[j] = b[j]
      BY <1>10, <1>13, <2>1
    <3> QED
      BY <1>8, <1>13, <2>1, <3>1
  <2>2. CASE \E x \in 1 .. M : /\ i = L + x /\ d[i] = Moved(site, c[x])
                               /\ c[x] \in there /\ d[i] \notin before
    <3>1. PICK x \in 1 .. M : i = L + x /\ d[i] = Moved(site, c[x]) /\ c[x] \in there
      BY <2>2
    <3>2. PICK y \in 1 .. M : j = L + y /\ d[j] = Moved(site, c[y]) /\ c[y] \in there
      BY <1>10, <1>13, <2>2
    <3>3. c[x] = c[y]
      BY <1>4, <1>13, <3>1, <3>2
    <3>4. x = y
      BY <1>9, <3>3
    <3> QED
      BY <3>1, <3>2, <3>4
  <2> QED
    BY <1>10, <2>1, <2>2
<1>14. ASSUME NEW o \in after PROVE \E i \in 1 .. L + M : d[i] = o
  <2>1. CASE o \in before
    BY <1>8, <1>11, <2>1
  <2>2. CASE o \notin before
    <3>1. PICK x \in there : o = Moved(site, x)
      BY <1>4, <2>2
    <3>2. PICK j \in 1 .. M : c[j] = x
      BY <1>9
    <3> QED
      BY <1>11, <3>1, <3>2
  <2> QED
    BY <2>1, <2>2
<1>15. ASSUME NEW i \in 1 .. L + M PROVE Stripped(z.items[i]) = Copy(f, d[i])
  <2>1. CASE i \in 1 .. L
    BY <1>7, <1>8, <1>11, <2>1
  <2>2. CASE i \notin 1 .. L
    <3>1. PICK j \in 1 .. M : i = L + j /\ d[i] = Moved(site, c[j])
      BY <1>10, <2>2
    <3>2. z.items[L + j] = u.items[j]
      BY <1>7
    <3>3. Stripped(u.items[j]) = Copy(f, Moved(site, c[j]))
      BY <1>3, <1>7
    <3> QED
      BY <3>1, <3>2, <3>3
  <2> QED
    BY <2>1, <2>2
<1>16. Matches(f, k + 1, z, d)
  BY <1>7, <1>12, <1>13, <1>14, <1>15 DEF Matches, after
<1>17. Composed(f, k + 1, z)
  BY <1>6, <1>16 DEF Composed
<1> QED
  BY <1>17 DEF f, k, z, u

(***************************************************************************)
(* The files do not change, nor does what they ask for.                    *)
(***************************************************************************)
LEMMA PathsKept ==
  ASSUME disk' = disk
  PROVE  /\ \A f : ImportsOf(f)' = ImportsOf(f)
         /\ \A site : ImportAt(site)' = ImportAt(site)
                      /\ NamespaceOf(site)' = NamespaceOf(site)
         /\ \A f : Paths(f)' = Paths(f)
         /\ \A f, p : ItemsAt(f, p)' = ItemsAt(f, p) /\ FileAt(f, p)' = FileAt(f, p)
<1>1. \A f : ImportsOf(f)' = ImportsOf(f)
  BY DEF ImportsOf
<1>2. \A site : ImportAt(site)' = ImportAt(site)
  BY <1>1 DEF ImportAt
<1>3. \A site : NamespaceOf(site)' = NamespaceOf(site)
  BY <1>2 DEF NamespaceOf
<1>4. ImportSites' = ImportSites
  BY <1>1 DEF ImportSites
<1>5. \A f, p : Chained(f, p)' = Chained(f, p)
  BY <1>2 DEF Chained
<1>6. \A f : Paths(f)' = Paths(f)
  BY <1>4, <1>5 DEF Paths
<1>7. \A f, p : FileAt(f, p)' = FileAt(f, p)
  BY <1>2 DEF FileAt
<1>8. \A f, p : ItemsAt(f, p)' = ItemsAt(f, p)
  BY <1>7 DEF ItemsAt
<1> QED
  BY <1>1, <1>2, <1>3, <1>6, <1>7, <1>8

LEMMA CopiesKept ==
  ASSUME disk' = disk
  PROVE  \A f, o : Copy(f, o)' = Copy(f, o)
<1>1. \A p : Qualifier(p)' = Qualifier(p)
  <2> SUFFICES ASSUME NEW p PROVE Qualifier(p)' = Qualifier(p)
    OBVIOUS
  <2>1. \A f : Collected(p, Len(p), f)' = Collected(p, Len(p), f)
    BY PathsKept DEF Collected
  <2>2. Qualifier(p)' = (CHOOSE f : Collected(p, Len(p), f)')[Len(p)]
    BY Zenon DEF Qualifier, Collected
  <2>3. Qualifier(p) = (CHOOSE f : Collected(p, Len(p), f))[Len(p)]
    BY QualifierIs
  <2> QED
    BY <2>1, <2>2, <2>3
<1>2. \A p, id : Qualified(p, id)' = Qualified(p, id)
  BY <1>1 DEF Qualified
<1>3. \A f, kind : Known(f, kind)' = Known(f, kind)
  BY <1>2, PathsKept DEF Known
<1>4. \A f, p, ref : Around(f, p, ref)' = Around(f, p, ref)
  BY <1>3, PathsKept DEF Around
<1>5. \A f, p, ref : Meant(f, p, ref)' = Meant(f, p, ref)
  BY <1>1, <1>4 DEF Meant
<1> QED
  BY <1>2, <1>5, PathsKept DEF Copy

LEMMA ComposedKept ==
  ASSUME disk' = disk
  PROVE  /\ \A f, n, s : Composed(f, n, s)' = Composed(f, n, s)
         /\ \A f, s : Whole(f, s)' = Whole(f, s)
<1>1. \A f, n : OccurrencesBefore(f, n)' = OccurrencesBefore(f, n)
  <2>1. \A f, n : PathsBefore(f, n)' = PathsBefore(f, n)
    BY PathsKept DEF PathsBefore
  <2> QED
    BY <2>1, PathsKept DEF OccurrencesBefore
<1>2. \A f, n, s, b : Matches(f, n, s, b)' = Matches(f, n, s, b)
  BY <1>1, CopiesKept DEF Matches
<1>3. \A f, n, s : Composed(f, n, s)' = Composed(f, n, s)
  BY <1>2 DEF Composed
<1> QED
  BY <1>3, PathsKept DEF Whole

(***************************************************************************)
(* In what is resolved no path passes a file twice.                        *)
(***************************************************************************)
Passed(file, path, k) == FileAt(file, Upto(path, k))

LEMMA PassedFacts ==
  ASSUME DiskOK, NEW f \in Files, NEW p \in Paths(f)
  PROVE  /\ Len(p) \in Nat
         /\ Passed(f, p, 0) = f
         /\ \A k \in 0 .. Len(p) : Passed(f, p, k) \in Files
         /\ \A k \in 1 .. Len(p) : Passed(f, p, k) \in Imported(Passed(f, p, k - 1))
<1>1. p \in Seq(ImportSites) /\ Len(p) \in Nat
  BY DEF Paths
<1>2. /\ p # <<>> => p[1][1] = f
      /\ \A k \in 1 .. Len(p) - 1 : p[k + 1][1] = ImportAt(p[k]).path
  BY DEF Paths, Chained
<1>3. Passed(f, p, 0) = f
  <2>1. Upto(p, 0) = <<>>
    BY SubSeqEmpty DEF Upto
  <2> QED
    BY <2>1, EmptyPath DEF Passed
<1>4. ASSUME NEW k \in 1 .. Len(p) PROVE Passed(f, p, k) = Target(p[k])
  <2>1. k \in 0 .. Len(p)
    BY <1>1
  <2>2. /\ Len(Upto(p, k)) = k /\ Upto(p, k)[k] = p[k]
        /\ Upto(p, k) \in Seq(ImportSites)
    BY <1>1, <2>1, PrefixFacts DEF Upto
  <2>3. Upto(p, k) # <<>>
    BY <2>2
  <2> QED
    BY <2>2, <2>3 DEF Passed, FileAt, Target
<1>5. \A k \in 0 .. Len(p) : Passed(f, p, k) \in Files
  <2>1. \A k \in 1 .. Len(p) : p[k] \in ImportSites
    BY <1>1
  <2>2. \A k \in 1 .. Len(p) : Target(p[k]) \in Files
    BY <2>1, SiteFacts
  <2> QED
    BY <1>1, <1>3, <1>4, <2>2
<1>6. ASSUME NEW k \in 1 .. Len(p)
      PROVE  Passed(f, p, k) \in Imported(Passed(f, p, k - 1))
  <2>1. p[k] \in ImportSites
    BY <1>1
  <2>2. p[k][1] = Passed(f, p, k - 1)
    <3>1. CASE k = 1
      <4>1. p # <<>>
        BY <1>1, <3>1
      <4> QED
        BY <1>2, <1>3, <3>1, <4>1
    <3>2. CASE k # 1
      <4>1. PICK j \in 1 .. Len(p) - 1 : k = j + 1 /\ j = k - 1
        BY <1>1, <3>2
      <4>2. p[j + 1][1] = ImportAt(p[j]).path
        BY <1>2
      <4>3. j \in 1 .. Len(p)
        BY <1>1
      <4> QED
        BY <1>4, <4>1, <4>2, <4>3 DEF Target
    <3> QED
      BY <3>1, <3>2
  <2>3. p[k][2] \in DOMAIN ImportsOf(p[k][1])
        /\ Target(p[k]) = ImportsOf(p[k][1])[p[k][2]].path
    BY <2>1, SiteFacts DEF Target, ImportAt
  <2> QED
    BY <1>4, <2>2, <2>3 DEF Imported
<1> QED
  BY <1>1, <1>3, <1>5, <1>6

LEMMA PassedReachable ==
  ASSUME DiskOK, NEW f \in Reachable, NEW p \in Paths(f)
  PROVE  \A k \in 0 .. Len(p) : Passed(f, p, k) \in Reachable
<1> DEFINE T == {k \in Nat : k <= Len(p) => Passed(f, p, k) \in Reachable}
<1>1. f \in Files
  BY DEF Reachable
<1>2. /\ Len(p) \in Nat
      /\ Passed(f, p, 0) = f
      /\ \A k \in 0 .. Len(p) : Passed(f, p, k) \in Files
      /\ \A k \in 1 .. Len(p) : Passed(f, p, k) \in Imported(Passed(f, p, k - 1))
  BY <1>1, PassedFacts
<1>3. 0 \in T
  BY <1>2
<1>4. ASSUME NEW k \in Nat, k \in T PROVE k + 1 \in T
  <2> SUFFICES ASSUME k + 1 <= Len(p) PROVE Passed(f, p, k + 1) \in Reachable
    OBVIOUS
  <2>1. k + 1 \in 1 .. Len(p) /\ k + 1 \in 0 .. Len(p) /\ (k + 1) - 1 = k
        /\ k <= Len(p)
    BY <1>2
  <2>2. Passed(f, p, k) \in Reachable
    BY <1>4, <2>1
  <2>3. Passed(f, p, k + 1) \in Imported(Passed(f, p, k))
        /\ Passed(f, p, k + 1) \in Files
    BY <1>2, <2>1
  <2> QED
    BY <2>2, <2>3, ImportsAreReachable
<1>5. Nat \subseteq T
  <2> HIDE DEF T
  <2> QED
    BY <1>3, <1>4, Induction
<1>6. ASSUME NEW k \in 0 .. Len(p) PROVE Passed(f, p, k) \in Reachable
  <2>1. k \in Nat /\ k <= Len(p)
    BY <1>2
  <2>2. k \in T
    BY <1>5, <2>1
  <2> QED
    BY <2>1, <2>2
<1> QED
  BY <1>6

LEMMA PathsAreShort ==
  ASSUME DiskOK, ~HasCycle, NEW f \in Reachable, NEW p \in Paths(f)
  PROVE  Len(p) + 1 <= Cardinality(Files)
<1>1. f \in Files
  BY DEF Reachable
<1>2. /\ Len(p) \in Nat
      /\ \A k \in 0 .. Len(p) : Passed(f, p, k) \in Reachable
      /\ \A k \in 1 .. Len(p) : Passed(f, p, k) \in Imported(Passed(f, p, k - 1))
  BY <1>1, PassedFacts, PassedReachable
<1>3. ASSUME NEW i \in 0 .. Len(p), NEW j \in 0 .. Len(p), i < j,
             Passed(f, p, i) = Passed(f, p, j)
      PROVE  FALSE
  <2> DEFINE S == {Passed(f, p, k) : k \in i .. j - 1}
  <2>1. S \in SUBSET Reachable
    <3>1. \A k \in i .. j - 1 : k \in 0 .. Len(p)
      BY <1>2
    <3> QED
      BY <1>2, <3>1
  <2>2. Passed(f, p, i) \in S
    BY <1>2, <1>3
  <2>3. ASSUME NEW k \in i .. j - 1 PROVE Imported(Passed(f, p, k)) \cap S # {}
    <3>1. k + 1 \in 1 .. Len(p) /\ (k + 1) - 1 = k
      BY <1>2
    <3>2. Passed(f, p, k + 1) \in Imported(Passed(f, p, k))
      BY <1>2, <3>1
    <3>3. Passed(f, p, k + 1) \in S
      <4>1. CASE k + 1 = j
        BY <1>3, <2>2, <4>1
      <4>2. CASE k + 1 # j
        <5>1. k + 1 \in i .. j - 1
          BY <1>2, <4>2
        <5> QED
          BY <5>1
      <4> QED
        BY <4>1, <4>2
    <3> QED
      BY <3>2, <3>3
  <2>4. Cyclic(S)
    BY <2>2, <2>3 DEF Cyclic
  <2> HIDE DEF S
  <2> QED
    BY <2>1, <2>4 DEF HasCycle
<1> DEFINE N == [k \in 0 .. Len(p) |-> Passed(f, p, k)]
<1>4. N \in Injection(0 .. Len(p), Files)
  <2>1. N \in [0 .. Len(p) -> Files]
    BY <1>2 DEF Reachable
  <2>2. ASSUME NEW i \in 0 .. Len(p), NEW j \in 0 .. Len(p), N[i] = N[j] PROVE i = j
    <3>1. Passed(f, p, i) = Passed(f, p, j)
      BY <2>2
    <3>2. ~(i < j) /\ ~(j < i)
      BY <1>3, <3>1
    <3>3. i \in Int /\ j \in Int
      BY <1>2
    <3> QED
      BY <3>2, <3>3
  <2> HIDE DEF N
  <2> QED
    BY <2>1, <2>2 DEF Injection, IsInjective
<1>5. IsFiniteSet(Files)
  BY FilesAssumption
<1>6. Cardinality(0 .. Len(p)) <= Cardinality(Files)
  <2> HIDE DEF N
  <2> QED
    BY <1>4, <1>5, FS_Injection
<1>7. Cardinality(0 .. Len(p)) = Len(p) + 1
  <2>1. 0 \in Int /\ Len(p) \in Int /\ ~(0 > Len(p))
    BY <1>2
  <2>2. Cardinality(0 .. Len(p)) = IF 0 > Len(p) THEN 0 ELSE Len(p) - 0 + 1
    BY <2>1, FS_Interval
  <2> QED
    BY <1>2, <2>1, <2>2
<1> QED
  BY <1>6, <1>7

LEMMA ImportPathsAreAll ==
  ASSUME DiskOK, ~HasCycle, NEW f \in Reachable
  PROVE  ImportPaths(f) = Paths(f)
<1>1. Cardinality(Files) \in Nat
  BY FilesAssumption, FS_CardinalityType
<1>2. ASSUME NEW p \in Paths(f) PROVE p \in ImportPaths(f)
  <2>1. p \in Seq(ImportSites) /\ Chained(f, p)
    BY DEF Paths
  <2>2. Len(p) \in 0 .. Cardinality(Files) - 1
    BY <1>1, <2>1, PathsAreShort
  <2>3. p \in [1 .. Len(p) -> ImportSites]
    BY <2>1
  <2> QED
    BY <2>1, <2>2, <2>3 DEF ImportPaths
<1>3. ASSUME NEW p \in ImportPaths(f) PROVE p \in Paths(f)
  <2>1. PICK n \in 0 .. Cardinality(Files) - 1 : p \in [1 .. n -> ImportSites]
    BY DEF ImportPaths
  <2>2. n \in Nat
    BY <1>1
  <2>3. p \in Seq(ImportSites)
    BY <2>1, <2>2
  <2> QED
    BY <2>3 DEF ImportPaths, Paths
<1> QED
  BY <1>2, <1>3

\* Of what is resolved the paths of bounded length tell all.
LEMMA ScopesAreKnown ==
  ASSUME DiskOK, ~HasCycle
  PROVE  /\ Occurrences(Root) = OccurrencesBefore(Root, Len(ImportsOf(Root)) + 1)
         /\ \A o \in Occurrences(Root) :
              Instance(Root, o[1], ItemsAt(Root, o[1])[o[2]]) = Copy(Root, o)
<1>1. Root \in Reachable /\ Root \in Files
  BY RootIsReachable, FilesAssumption
<1>2. ImportPaths(Root) = Paths(Root)
  BY <1>1, ImportPathsAreAll
<1>3. Occurrences(Root) = OccurrencesBefore(Root, Len(ImportsOf(Root)) + 1)
  BY <1>1, <1>2, AllPaths DEF Occurrences, OccurrencesBefore
<1>4. ASSUME NEW g \in Reachable, NEW kind PROVE Scope(g, kind) = Known(g, kind)
  BY ImportPathsAreAll DEF Scope, Known
<1>5. ASSUME NEW p \in Paths(Root), NEW ref PROVE Bound(Root, p, ref) = Meant(Root, p, ref)
  <2>1. \A k \in 0 .. Len(p) : FileAt(Root, SubSeq(p, 1, k)) \in Reachable
    BY <1>1, PassedReachable DEF Passed, Upto
  <2>2. Enclosing(Root, p, ref) = Around(Root, p, ref)
    BY <1>4, <2>1 DEF Around, Enclosing
  <2> QED
    BY <2>2, Zenon DEF Meant, Bound
<1>6. ASSUME NEW o \in Occurrences(Root)
      PROVE  Instance(Root, o[1], ItemsAt(Root, o[1])[o[2]]) = Copy(Root, o)
  <2>1. o[1] \in Paths(Root)
    BY <1>3, OccurrenceFacts
  <2>2. \A r : Bound(Root, o[1], r) = Meant(Root, o[1], r)
    BY <1>5, <2>1
  <2>3. \A item : Instance(Root, o[1], item)
          = [kind |-> item.kind, id |-> Qualified(o[1], item.id),
             refs |-> {Meant(Root, o[1], r) : r \in Unqualified(item.refs)}]
    BY <2>2 DEF Instance
  <2> QED
    BY <2>3, Zenon DEF Copy
<1> QED
  BY <1>3, <1>6

(***************************************************************************)
(* The invariant of composition: every call has composed what its merged   *)
(* imports contribute; what is cached, and what is returned, is whole.     *)
(***************************************************************************)
NextInBounds ==
  \A k \in DOMAIN stack : stack[k].next \in 1 .. Len(ImportsOf(stack[k].file)) + 1

CallsComposed ==
  \A k \in DOMAIN stack : Composed(stack[k].file, stack[k].next, stack[k].scenario)

CacheWhole == \A f \in DOMAIN cache : Whole(f, cache[f])

ReturnedWhole == returned # None => Whole(Wanted, returned)

CompositionInv ==
  /\ NextInBounds
  /\ CallsComposed
  /\ CacheWhole
  /\ ReturnedWhole

LEMMA CompositionStarts == Init => CompositionInv
<1> SUFFICES ASSUME Init PROVE CompositionInv
  OBVIOUS
<1>1. DOMAIN stack = {} /\ DOMAIN cache = {} /\ returned = None
  BY DEF Init
<1> QED
  BY <1>1 DEF CompositionInv, NextInBounds, CallsComposed, CacheWhole, ReturnedWhole

LEMMA ResolverDisk == ASSUME ResolverInv PROVE DiskOK
  BY DEF ResolverInv, ResolverTypeOK, DiskOK

LEMMA CompositionKept ==
  ASSUME CompositionInv, disk' = disk, stack' = stack, cache' = cache, returned' = returned
  PROVE  CompositionInv'
<1>1. \A f : ImportsOf(f)' = ImportsOf(f)
  BY PathsKept
<1>2. NextInBounds'
  BY <1>1 DEF CompositionInv, NextInBounds
<1>3. CallsComposed'
  BY ComposedKept DEF CompositionInv, CallsComposed
<1>4. CacheWhole'
  BY ComposedKept DEF CompositionInv, CacheWhole
<1>5. ReturnedWhole'
  <2>1. Wanted' = Wanted
    BY <1>1 DEF Wanted, Top
  <2> QED
    BY <2>1, ComposedKept DEF CompositionInv, ReturnedWhole
<1> QED
  BY <1>2, <1>3, <1>4, <1>5 DEF CompositionInv

LEMMA TakenWhole ==
  ASSUME ResolverInv, CompositionInv, TakeFromCache
  PROVE  CompositionInv'
<1>1. /\ disk' = disk /\ cache' = cache /\ stack' = stack
      /\ returned' = cache[Wanted] /\ Wanted \in DOMAIN cache
  BY DEF TakeFromCache
<1>2. \A f : ImportsOf(f)' = ImportsOf(f)
  BY <1>1, PathsKept
<1>3. NextInBounds'
  BY <1>1, <1>2 DEF CompositionInv, NextInBounds
<1>4. CallsComposed'
  BY <1>1, ComposedKept DEF CompositionInv, CallsComposed
<1>5. CacheWhole'
  BY <1>1, ComposedKept DEF CompositionInv, CacheWhole
<1>6. ReturnedWhole'
  <2>1. Wanted' = Wanted
    BY <1>1, <1>2 DEF Wanted, Top
  <2>2. Whole(Wanted, cache[Wanted])
    BY <1>1 DEF CompositionInv, CacheWhole
  <2> QED
    BY <1>1, <2>1, <2>2, ComposedKept DEF ReturnedWhole
<1> QED
  BY <1>3, <1>4, <1>5, <1>6 DEF CompositionInv

LEMMA OpenedStarts ==
  ASSUME ResolverInv, CompositionInv, Open
  PROVE  CompositionInv'
<1> DEFINE call == [file |-> Wanted, next |-> 1, scenario |-> disk[Wanted].scenario]
<1>1. /\ disk' = disk /\ cache' = cache /\ returned' = None
      /\ stack' = Append(stack, call)
      /\ Wanted \in Files
  <2>1. Wanted \in Files
    BY WantedFacts DEF Open, Calling
  <2> QED
    BY <2>1 DEF Open, Calling
<1>2. \A f : ImportsOf(f)' = ImportsOf(f)
  BY <1>1, PathsKept
<1>3. DiskOK
  BY ResolverDisk
<1>4. Composed(call.file, call.next, call.scenario)
  BY <1>1, <1>3, OpenedComposed
<1>5. call.next \in 1 .. Len(ImportsOf(call.file)) + 1
  BY <1>1, StackFacts
<1>6. /\ stack \in Seq(Frame) /\ Len(stack) \in Nat
      /\ DOMAIN stack = 1 .. Len(stack)
  BY StackFacts
<1> HIDE DEF call
<1>7. \A k \in DOMAIN stack' :
        \/ k \in DOMAIN stack /\ stack'[k] = stack[k]
        \/ stack'[k] = call
  BY <1>1, <1>6
<1>8. NextInBounds'
  BY <1>2, <1>5, <1>7 DEF CompositionInv, NextInBounds
<1>9. CallsComposed'
  <2>1. \A k \in DOMAIN stack' : Composed(stack'[k].file, stack'[k].next, stack'[k].scenario)
    BY <1>4, <1>7 DEF CompositionInv, CallsComposed
  <2> QED
    BY <1>1, <2>1, ComposedKept DEF CallsComposed
<1>10. CacheWhole'
  BY <1>1, ComposedKept DEF CompositionInv, CacheWhole
<1> QED
  BY <1>1, <1>8, <1>9, <1>10 DEF CompositionInv, ReturnedWhole

LEMMA ImportIsComposed ==
  ASSUME ResolverInv, CompositionInv, Compose
  PROVE  CompositionInv'
<1> DEFINE call == Advanced(Top)
           site == <<Top.file, Top.next>>
<1>1. /\ disk' = disk /\ cache' = cache /\ returned' = None
      /\ stack # <<>> /\ returned # None
      /\ ImportsOf(Top.file)[Top.next].ns # Malformed
      /\ stack' = [stack EXCEPT ![Len(stack)] = call]
  BY DEF Compose, Composing
<1>2. \A f : ImportsOf(f)' = ImportsOf(f)
  BY <1>1, PathsKept
<1>3. DiskOK
  BY ResolverDisk
<1>4. /\ Top.next \in DOMAIN ImportsOf(Top.file)
      /\ Wanted = ImportsOf(Top.file)[Top.next].path
  BY <1>1 DEF ResolverInv, ReturnedIsCached, Wanted
<1>5. /\ stack \in Seq(Frame) /\ Len(stack) \in Nat
      /\ DOMAIN stack = 1 .. Len(stack) /\ Len(stack) \in DOMAIN stack
      /\ Top \in Frame /\ Top.file \in Files
  BY <1>1, StackFacts
<1>6. site \in ImportSites
  BY <1>4, <1>5 DEF ImportSites
<1>7. Composed(site[1], site[2], Top.scenario)
  BY <1>5 DEF CompositionInv, CallsComposed, Top
<1>8. Whole(Target(site), returned)
  <2>1. Target(site) = Wanted
    BY <1>4 DEF Target, ImportAt
  <2> QED
    BY <1>1, <2>1 DEF CompositionInv, ReturnedWhole
<1>9. Composed(site[1], site[2] + 1, Merged(Top.scenario, Fragment))
  <2> DEFINE ns == ImportAt(site).ns
  <2>1. ns = ImportsOf(Top.file)[Top.next].ns /\ ns # Malformed
    BY <1>1 DEF ImportAt
  <2>2. Fragment = InNamespace(ns, returned)
    BY <2>1 DEF Fragment
  <2> HIDE DEF ns, site
  <2>3. \A m : m = ImportAt(site).ns /\ m # Malformed =>
          Composed(site[1], site[2] + 1, Merged(Top.scenario, InNamespace(m, returned)))
    BY <1>3, <1>6, <1>7, <1>8, ImportComposed
  <2> QED
    BY <2>1, <2>2, <2>3 DEF ns
<1>10. /\ call.file = Top.file /\ call.next = Top.next + 1
       /\ call.scenario = Merged(Top.scenario, Fragment)
  BY <1>5 DEF Frame, Advanced
<1>11. Composed(call.file, call.next, call.scenario)
  BY <1>9, <1>10
<1>12. call.next \in 1 .. Len(ImportsOf(call.file)) + 1
  <2>1. ImportsOf(Top.file) \in Seq(Import)
    BY <1>5, StackFacts
  <2>2. Top.next \in 1 .. Len(ImportsOf(Top.file)) /\ Len(ImportsOf(Top.file)) \in Nat
    BY <1>4, <2>1
  <2> HIDE DEF call
  <2> QED
    BY <1>10, <2>2
<1> HIDE DEF call, site
<1>13. \A k \in DOMAIN stack' :
         \/ k \in DOMAIN stack /\ stack'[k] = stack[k]
         \/ stack'[k] = call
  BY <1>1, <1>5
<1>14. NextInBounds'
  BY <1>2, <1>12, <1>13 DEF CompositionInv, NextInBounds
<1>15. CallsComposed'
  <2>1. \A k \in DOMAIN stack' : Composed(stack'[k].file, stack'[k].next, stack'[k].scenario)
    BY <1>11, <1>13 DEF CompositionInv, CallsComposed
  <2> QED
    BY <1>1, <2>1, ComposedKept DEF CallsComposed
<1>16. CacheWhole'
  BY <1>1, ComposedKept DEF CompositionInv, CacheWhole
<1> QED
  BY <1>1, <1>14, <1>15, <1>16 DEF CompositionInv, ReturnedWhole

LEMMA ReturnedIsWhole ==
  ASSUME ResolverInv, CompositionInv, Return
  PROVE  CompositionInv'
<1> DEFINE f == Top.file
           n == Len(stack)
<1>1. /\ disk' = disk
      /\ returned' = Top.scenario
      /\ stack' = SubSeq(stack, 1, n - 1)
      /\ cache' = [g \in DOMAIN cache \cup {f} |->
                     IF g \in DOMAIN cache THEN cache[g] ELSE Top.scenario]
      /\ stack # <<>>
      /\ Top.next \notin DOMAIN ImportsOf(f)
  BY DEF Return
<1>2. \A g : ImportsOf(g)' = ImportsOf(g)
  BY <1>1, PathsKept
<1>3. /\ n \in Nat /\ n > 0 /\ n \in DOMAIN stack
      /\ DOMAIN stack = 1 .. n /\ stack \in Seq(Frame)
      /\ f \in Files /\ Top.next \in Nat \ {0}
      /\ f = stack[n].file /\ Top = stack[n]
  BY <1>1, StackFacts DEF Top
<1>4. /\ Len(stack') = n - 1
      /\ DOMAIN stack' = 1 .. n - 1
      /\ \A k \in 1 .. n - 1 : k \in DOMAIN stack /\ stack'[k] = stack[k]
  <2>1. n - 1 \in Nat
    BY <1>3
  <2>2. SubSeq(stack, 1, n - 1) \in Seq(Frame) /\ Len(SubSeq(stack, 1, n - 1)) = n - 1
    BY <1>3, <2>1, SubSeqProperties
  <2>3. \A k \in 1 .. n - 1 : SubSeq(stack, 1, n - 1)[k] = stack[k]
    BY <1>3, <2>1
  <2> HIDE DEF n
  <2> QED
    BY <1>1, <1>3, <2>2, <2>3
<1>5. Whole(f, Top.scenario)
  <2>1. Composed(f, Top.next, Top.scenario)
    BY <1>3 DEF CompositionInv, CallsComposed
  <2>2. Top.next \in 1 .. Len(ImportsOf(f)) + 1
    BY <1>3 DEF CompositionInv, NextInBounds
  <2>3. ImportsOf(f) \in Seq(Import)
    BY <1>3, StackFacts
  <2>4. Len(ImportsOf(f)) \in Nat /\ DOMAIN ImportsOf(f) = 1 .. Len(ImportsOf(f))
    BY <2>3
  <2> HIDE DEF f
  <2>5. Top.next = Len(ImportsOf(f)) + 1
    BY <1>1, <1>3, <2>2, <2>4
  <2> QED
    BY <2>1, <2>5 DEF Whole
<1> HIDE DEF f, n
<1>6. NextInBounds'
  BY <1>2, <1>4 DEF CompositionInv, NextInBounds
<1>7. CallsComposed'
  <2>1. \A k \in DOMAIN stack' : Composed(stack'[k].file, stack'[k].next, stack'[k].scenario)
    BY <1>4 DEF CompositionInv, CallsComposed
  <2>2. \A g, m, s : Composed(g, m, s)' = Composed(g, m, s)
    BY <1>1, ComposedKept
  <2> QED
    BY <2>1, <2>2 DEF CallsComposed
<1>8. CacheWhole'
  <2>1. \A g \in DOMAIN cache' : Whole(g, cache'[g])
    BY <1>1, <1>5 DEF CompositionInv, CacheWhole
  <2> QED
    BY <1>1, <2>1, ComposedKept DEF CacheWhole
<1>9. ReturnedWhole'
  <2>1. CASE n = 1
    <3>1. stack' = <<>>
      BY <1>1, <1>3, <2>1
    <3>2. f = Root
      BY <1>1, <1>3, <2>1 DEF ResolverInv, CallsAreImports
    <3>3. Wanted' = f
      BY <3>1, <3>2 DEF Wanted
    <3> QED
      BY <1>1, <1>5, <3>3, ComposedKept DEF ReturnedWhole
  <2>2. CASE n # 1
    <3>1. n - 1 \in 1 .. Len(stack) - 1 /\ n - 1 \in 1 .. n - 1
          /\ (n - 1) + 1 = n
      BY <1>3, <2>2 DEF n
    <3>2. f = ImportsOf(stack[n - 1].file)[stack[n - 1].next].path
      BY <1>3, <3>1 DEF ResolverInv, CallsAreImports
    <3>3. stack' # <<>> /\ Top' = stack[n - 1]
      BY <1>4, <3>1 DEF Top
    <3>4. Wanted' = f
      BY <1>2, <3>2, <3>3 DEF Wanted
    <3> QED
      BY <1>1, <1>5, <3>4, ComposedKept DEF ReturnedWhole
  <2> QED
    BY <2>1, <2>2
<1> QED
  BY <1>6, <1>7, <1>8, <1>9 DEF CompositionInv

LEMMA CompositionStep ==
  ResolverInv /\ CompositionInv /\ [Next]_vars => CompositionInv'
<1> SUFFICES ASSUME ResolverInv, CompositionInv, [Next]_vars PROVE CompositionInv'
  OBVIOUS
<1>1. CASE RefuseCircular
  BY <1>1, CompositionKept DEF RefuseCircular, Fail
<1>2. CASE TakeFromCache
  BY <1>2, TakenWhole
<1>3. CASE Open
  BY <1>3, OpenedStarts
<1>4. CASE FailToRead
  BY <1>4, CompositionKept DEF FailToRead, Fail
<1>5. CASE RefuseImport
  BY <1>5, CompositionKept DEF RefuseImport, Fail
<1>6. CASE Compose
  BY <1>6, ImportIsComposed
<1>7. CASE Return
  BY <1>7, ReturnedIsWhole
<1>8. CASE Validate
  BY <1>8, CompositionKept DEF Validate, Fail
<1>9. CASE UNCHANGED vars
  BY <1>9, CompositionKept DEF vars
<1> QED
  BY <1>1, <1>2, <1>3, <1>4, <1>5, <1>6, <1>7, <1>8, <1>9 DEF Next

\* What is resolved is what the paths of imports give.
LEMMA ResolvedBindsLexically ==
  ASSUME ResolverInv, CompositionInv, CircularImportsReported
  PROVE  NamesBindLexically
<1> SUFFICES ASSUME status = "resolved"
             PROVE  /\ {[returned.items[i] EXCEPT !.refs = Unqualified(@)] :
                          i \in DOMAIN returned.items}
                         = {Instance(Root, o[1], ItemsAt(Root, o[1])[o[2]]) :
                              o \in Occurrences(Root)}
                    /\ Len(returned.items) = Cardinality(Occurrences(Root))
  BY DEF NamesBindLexically
<1>1. stack = <<>> /\ returned # None /\ ~HasCycle /\ DiskOK
  BY ResolverDisk DEF ResolverInv, CircularImportsReported
<1>2. Whole(Root, returned)
  BY <1>1 DEF CompositionInv, ReturnedWhole, Wanted
<1> DEFINE n == Len(ImportsOf(Root)) + 1
           O == OccurrencesBefore(Root, n)
<1>3. PICK b : Matches(Root, n, returned, b)
  BY <1>2 DEF Whole, Composed
<1>4. returned.items \in Seq(Item)
  BY <1>2, ScenarioFields DEF Whole, Composed
<1>5. /\ Occurrences(Root) = O
      /\ \A o \in O : Instance(Root, o[1], ItemsAt(Root, o[1])[o[2]]) = Copy(Root, o)
  BY <1>1, ScopesAreKnown
<1>6. /\ b \in [DOMAIN returned.items -> O]
      /\ \A i, j \in DOMAIN returned.items : b[i] = b[j] => i = j
      /\ \A o \in O : \E i \in DOMAIN returned.items : b[i] = o
      /\ \A i \in DOMAIN returned.items : Stripped(returned.items[i]) = Copy(Root, b[i])
  BY <1>3 DEF Matches
<1> HIDE DEF n, O
<1>7. {[returned.items[i] EXCEPT !.refs = Unqualified(@)] : i \in DOMAIN returned.items}
        = {Instance(Root, o[1], ItemsAt(Root, o[1])[o[2]]) : o \in O}
  <2>1. \A i \in DOMAIN returned.items :
          b[i] \in O /\ Stripped(returned.items[i])
            = Instance(Root, b[i][1], ItemsAt(Root, b[i][1])[b[i][2]])
    BY <1>5, <1>6
  <2>2. {Stripped(returned.items[i]) : i \in DOMAIN returned.items}
          = {Instance(Root, o[1], ItemsAt(Root, o[1])[o[2]]) : o \in O}
    BY <1>6, <2>1
  <2> QED
    BY <2>2 DEF Stripped
<1>8. Len(returned.items) = Cardinality(O)
  <2>1. DOMAIN returned.items = 1 .. Len(returned.items) /\ Len(returned.items) \in Nat
    BY <1>4
  <2>2. IsFiniteSet(DOMAIN returned.items)
        /\ Cardinality(DOMAIN returned.items) = Len(returned.items)
    BY <2>1, FS_Interval
  <2>3. b \in Bijection(DOMAIN returned.items, O)
    BY <1>6 DEF Bijection, Injection, Surjection, IsInjective
  <2>4. ExistsBijection(DOMAIN returned.items, O)
    BY <2>3 DEF ExistsBijection
  <2> QED
    BY <2>2, <2>4, FS_Bijection
<1> QED
  BY <1>5, <1>7, <1>8

THEOREM CompositionInvariant == Spec => []CompositionInv
<1> QED
  BY CompositionStarts, CompositionStep, ResolverInvariant, PTL DEF Spec

\* A name means after composition what the innermost fragment around it calls
\* so, and every item comes once for every path of imports to its file, however
\* resolve_definition shares fragments by its cache.
THEOREM NamesAlwaysBindLexically == Spec => []NamesBindLexically
<1>1. ResolverInv /\ CompositionInv /\ CircularImportsReported => NamesBindLexically
  BY ResolvedBindsLexically
<1> QED
  BY <1>1, ResolverInvariant, CompositionInvariant, CyclesAreReported, PTL
=============================================================================
