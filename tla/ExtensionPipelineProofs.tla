----------------------- MODULE ExtensionPipelineProofs -----------------------
(***************************************************************************)
(* What the module ExtensionPipeline promises, proved for every set of     *)
(* files, every table of versions and every number of generations.  What   *)
(* holds of a text wherever it comes from is proved in ScenarioTextProofs. *)
(***************************************************************************)
EXTENDS ExtensionPipeline, ScenarioTextProofs

(***************************************************************************)
(* Declarations, one after the other.                                      *)
(***************************************************************************)
Merging(dst, src, n, f) ==
  f = [k \in 0 .. n |->
         IF k = 0 THEN {dst}
         ELSE UNION {MergeDeclaration(declared, src[k]) : declared \in f[k - 1]}]

LEMMA MergeDeclaredIs ==
  ASSUME NEW dst, NEW src
  PROVE  MergeDeclared(dst, src) = (CHOOSE f : Merging(dst, src, Len(src), f))[Len(src)]
  BY DEF MergeDeclared, Merging

LEMMA MergingExists ==
  ASSUME NEW dst, NEW src
  PROVE  \A n \in Nat : \E f : Merging(dst, src, n, f)
  <1> DEFINE T == {n \in Nat : \E f : Merging(dst, src, n, f)}
             After(set, k) == UNION {MergeDeclaration(declared, src[k]) : declared \in set}
  <1>1. 0 \in T
    <2> DEFINE g == [k \in 0 .. 0 |-> {dst}]
    <2>1. Merging(dst, src, 0, g)
      BY DEF Merging
    <2> QED BY <2>1
  <1>2. ASSUME NEW n \in Nat, n \in T PROVE n + 1 \in T
    <2>1. PICK f : Merging(dst, src, n, f)
      BY <1>2
    <2> DEFINE g == [k \in 0 .. n + 1 |-> IF k = n + 1 THEN After(f[n], n + 1) ELSE f[k]]
    <2> HIDE DEF After
    <2>2. f = [k \in 0 .. n |-> IF k = 0 THEN {dst} ELSE After(f[k - 1], k)]
      BY <2>1 DEF Merging, After
    <2>3. \A k \in 0 .. n + 1 : g[k] = IF k = 0 THEN {dst} ELSE After(g[k - 1], k)
      <3>1. ASSUME NEW k \in 0 .. n + 1 PROVE g[k] = IF k = 0 THEN {dst} ELSE After(g[k - 1], k)
        <4>1. CASE k = n + 1
          <5>1. k # 0 /\ k - 1 = n /\ n \in 0 .. n + 1 /\ n # n + 1
            BY <4>1
          <5> QED BY <4>1, <5>1
        <4>2. CASE k = 0
          BY <4>2, <2>2
        <4>3. CASE k \in 1 .. n
          <5>1. k - 1 \in 0 .. n + 1 /\ k - 1 # n + 1 /\ k # n + 1 /\ k \in 0 .. n /\ k # 0
            BY <4>3
          <5> QED BY <4>3, <5>1, <2>2
        <4> QED BY <4>1, <4>2, <4>3
      <3> QED BY <3>1
    <2>4. Merging(dst, src, n + 1, g)
      <3>1. g = [k \in 0 .. n + 1 |-> IF k = 0 THEN {dst} ELSE After(g[k - 1], k)]
        BY <2>3
      <3> HIDE DEF g
      <3> QED BY <3>1 DEF Merging, After
    <2> HIDE DEF g
    <2> QED BY <2>4
  <1> HIDE DEF T
  <1>3. Nat \subseteq T
    BY <1>1, <1>2, Induction
  <1> QED BY <1>3 DEF T

LEMMA OneMerged ==
  ASSUME NEW declared, IsList(declared), NEW ext, NEW d \in MergeDeclaration(declared, ext)
  PROVE  IsList(d) /\ Ran(d) = Ran(declared) \cup {ext}
  <1> DEFINE same == {i \in DOMAIN declared : declared[i].id = ext.id}
             last == CHOOSE i \in same : \A j \in same : j <= i
  <1>1. CASE same = {}
    <2>1. d = Append(declared, ext)
      BY <1>1 DEF MergeDeclaration
    <2> QED BY <2>1, ListAppended
  <1>2. CASE same # {}
    <2>1. d = declared /\ declared[last] = ext
      BY <1>2 DEF MergeDeclaration
    <2>2. last \in same
      <3>1. same \in SUBSET (1 .. Len(declared)) /\ Len(declared) \in Nat
        BY ListIs
      <3>2. \E i \in same : \A j \in same : j <= i
        <4> HIDE DEF same
        <4> QED BY <3>1, <1>2, GreatestElement
      <3> QED BY <3>2
    <2>3. ext \in Ran(declared)
      BY <2>1, <2>2 DEF Ran
    <2> QED BY <2>1, <2>3
  <1> QED BY <1>1, <1>2

\* Merging keeps all declarations of both, and no others.
LEMMA AllMerged ==
  ASSUME NEW dst, IsList(dst), NEW src, IsList(src), NEW d \in MergeDeclared(dst, src)
  PROVE  IsList(d) /\ Ran(d) = Ran(dst) \cup Ran(src)
  <1>1. Len(src) \in Nat /\ DOMAIN src = 1 .. Len(src)
    BY ListIs
  <1>2. PICK f : Merging(dst, src, Len(src), f) /\ d \in f[Len(src)]
    <2>1. \E f : Merging(dst, src, Len(src), f)
      BY <1>1, MergingExists
    <2> QED BY <2>1, MergeDeclaredIs
  <1> DEFINE Fine(k) == \A e \in f[k] : IsList(e) /\ Ran(e) = Ran(dst) \cup {src[i] : i \in 1 .. k}
             T == {k \in Nat : k <= Len(src) => Fine(k)}
  <1>3. \A k \in 0 .. Len(src) :
          f[k] = IF k = 0 THEN {dst}
                 ELSE UNION {MergeDeclaration(declared, src[k]) : declared \in f[k - 1]}
    BY <1>2 DEF Merging
  <1>4. 0 \in T
    <2>1. f[0] = {dst}
      <3>1. 0 \in 0 .. Len(src)
        BY <1>1
      <3> QED BY <3>1, <1>3
    <2>2. 1 .. 0 = {}
      OBVIOUS
    <2>3. {src[i] : i \in 1 .. 0} = {}
      BY <2>2
    <2> QED BY <2>1, <2>3
  <1>5. ASSUME NEW n \in Nat, n \in T PROVE n + 1 \in T
    <2>1. SUFFICES ASSUME n + 1 <= Len(src), NEW e \in f[n + 1]
                   PROVE  IsList(e) /\ Ran(e) = Ran(dst) \cup {src[i] : i \in 1 .. n + 1}
      OBVIOUS
    <2>2. /\ n + 1 \in 0 .. Len(src) /\ n + 1 # 0 /\ (n + 1) - 1 = n /\ n <= Len(src)
          /\ 1 .. n + 1 = (1 .. n) \cup {n + 1}
      BY <1>1, <2>1
    <2>3. PICK declared \in f[n] : e \in MergeDeclaration(declared, src[n + 1])
      <3>1. f[n + 1] = UNION {MergeDeclaration(one, src[n + 1]) : one \in f[(n + 1) - 1]}
        BY <1>3, <2>2
      <3>2. f[n + 1] = UNION {MergeDeclaration(one, src[n + 1]) : one \in f[n]}
        BY <3>1, <2>2
      <3>3. e \in UNION {MergeDeclaration(one, src[n + 1]) : one \in f[n]}
        BY <2>1, <3>2
      <3> QED BY <3>3
    <2>4. IsList(declared) /\ Ran(declared) = Ran(dst) \cup {src[i] : i \in 1 .. n}
      BY <1>5, <2>2
    <2>5. IsList(e) /\ Ran(e) = Ran(declared) \cup {src[n + 1]}
      BY <2>3, <2>4, OneMerged
    <2>6. {src[i] : i \in 1 .. n + 1} = {src[i] : i \in 1 .. n} \cup {src[n + 1]}
      BY <2>2
    <2> QED BY <2>4, <2>5, <2>6
  <1>6. Len(src) \in T
    <2> HIDE DEF T
    <2> QED BY <1>1, <1>4, <1>5, Induction
  <1>7. Ran(src) = {src[i] : i \in 1 .. Len(src)}
    BY <1>1 DEF Ran
  <1> QED BY <1>2, <1>6, <1>7, <1>1

(***************************************************************************)
(* What has been read is declared, and what is declared has been read.     *)
(***************************************************************************)
ReadBefore(n) ==
  {Root} \cup {TextOf(At(Imports[i], "path")) : i \in {j \in DOMAIN Imports : j < n}}
PathsRead == IF stage = "read" THEN ReadBefore(at) ELSE Paths

DeclarationsOf(path) == UNION {Ran(list) : list \in DeclaredExtensions(files[path])}

\* The lists that a file holds for this, and the texts, which hold none.
FilesSound ==
  /\ Root \in DOMAIN files
  /\ IsList(Imports)
  /\ \A path \in DOMAIN files : IsList(ItemsOf(At(files[path], "extensions")))

TextsSound ==
  /\ IsList(texts)
  /\ \A g \in DOMAIN texts : texts[g].node = "map" /\ DOMAIN texts[g].at \subseteq CoreKeys

AuthoringKept ==
  /\ authoring = [x \in {"scenario", "declared", "blocks"} |-> authoring[x]]
  /\ IsList(authoring.declared)
  /\ Ran(authoring.declared) = UNION {DeclarationsOf(path) : path \in PathsRead}
  /\ \A path \in PathsRead :
       KeysOf(files[path]) \ (CoreKeys \cup ReservedKeys) \subseteq DOMAIN authoring.blocks

Resolvable ==
  /\ \A ext \in Ran(authoring.declared) : CanResolve(ext)
  /\ DOMAIN authoring.blocks \subseteq Declared

Busy == {"check", "transform", "finish", "resolved"}

DeclarationInv ==
  /\ FilesSound /\ TextsSound
  /\ stage \in {"read", "failed"} \cup Busy
  /\ stage = "read" => at \in 0 .. Len(Imports) + 1
  /\ stage = "read" /\ at # 0 => AuthoringKept /\ ImportsRead
  /\ stage \in Busy => AuthoringKept /\ Resolvable
  /\ stage = "resolved" => texts # <<>>

LEMMA ListReads ==
  ASSUME NEW node, ListsAreSequences(node), NEW key
  PROVE  IsList(ItemsOf(At(node, key)))
  <1>1. CASE key \in KeysOf(node)
    BY <1>1 DEF ListsAreSequences, IsList, Ran, At
  <1>2. CASE key \notin KeysOf(node)
    BY <1>2, EmptyList DEF At, ItemsOf, Missing
  <1> QED BY <1>1, <1>2

LEMMA DeclarationStarts ==
  ASSUME Init
  PROVE  DeclarationInv
  <1>1. Root \in DOMAIN files /\ \A path \in DOMAIN files : ListsAreSequences(files[path])
    BY FilesAssumption DEF Init
  <1>2. FilesSound
    BY <1>1, ListReads DEF FilesSound, Imports
  <1>3. TextsSound
    BY EmptyList DEF Init, TextsSound
  <1>4. Len(Imports) \in Nat
    BY <1>2, ListIs DEF FilesSound
  <1> QED BY <1>2, <1>3, <1>4 DEF Init, DeclarationInv, Busy

\* Whatever an action leaves alone keeps its part of the invariant.
LEMMA FilesKept ==
  ASSUME FilesSound, files' = files
  PROVE  /\ FilesSound' /\ Imports' = Imports /\ Paths' = Paths
         /\ ImportsRead' = ImportsRead
         /\ \A path : DeclarationsOf(path)' = DeclarationsOf(path)
         /\ \A n : ReadBefore(n)' = ReadBefore(n)
  BY DEF FilesSound, Imports, Paths, DeclarationsOf, ReadBefore, ImportsRead

LEMMA TextsKept ==
  ASSUME TextsSound, texts' = texts
  PROVE  TextsSound'
  BY DEF TextsSound

LEMMA DeclaredIs ==
  Declared = {ext.id : ext \in Ran(authoring.declared)}
  BY DEF Declared, Ran

LEMMA AuthoringStays ==
  ASSUME FilesSound, AuthoringKept, files' = files, PathsRead' = PathsRead,
         authoring'.declared = authoring.declared, authoring'.blocks = authoring.blocks,
         authoring' = [x \in {"scenario", "declared", "blocks"} |-> authoring'[x]]
  PROVE  AuthoringKept' /\ (Resolvable => Resolvable')
  <1>1. \A path : DeclarationsOf(path)' = DeclarationsOf(path)
    BY FilesKept
  <1>2. UNION {DeclarationsOf(path) : path \in PathsRead}
          = (UNION {DeclarationsOf(path) : path \in PathsRead})'
    BY <1>1
  <1>3. AuthoringKept'
    BY <1>2 DEF AuthoringKept
  <1>4. Resolvable => Resolvable'
    BY DEF Resolvable, Declared
  <1> QED BY <1>3, <1>4

LEMMA FailKeeps ==
  ASSUME DeclarationInv, Fail
  PROVE  DeclarationInv'
  BY FilesKept, TextsKept DEF DeclarationInv, Fail, Busy

\* What a file says by itself.
LEMMA AuthoredGives ==
  ASSUME NEW doc, IsList(ItemsOf(At(doc, "extensions"))), NEW own \in Authored(doc)
  PROVE  /\ own = [x \in {"scenario", "declared", "blocks"} |-> own[x]]
         /\ own.scenario \in Deserialize(Sanitized(doc))
         /\ own.declared \in DeclaredExtensions(doc)
         /\ own.blocks = ExtensionBlocks(doc)
         /\ IsList(own.declared)
         /\ Ran(own.declared) = UNION {Ran(list) : list \in DeclaredExtensions(doc)}
  <1> DEFINE reads == [scenario |-> Deserialize(Sanitized(doc)),
                       declared |-> DeclaredExtensions(doc), blocks |-> {ExtensionBlocks(doc)}]
  <1>1. own = [x \in DOMAIN reads |-> own[x]] /\ \A x \in DOMAIN reads : own[x] \in reads[x]
    <2>1. own \in Whole(reads)
      BY DEF Authored
    <2> HIDE DEF reads
    <2> QED BY <2>1, WholeGiven
  <1>2. DOMAIN reads = {"scenario", "declared", "blocks"}
    OBVIOUS
  <1>3. /\ own.scenario \in Deserialize(Sanitized(doc))
        /\ own.declared \in DeclaredExtensions(doc)
        /\ own.blocks = ExtensionBlocks(doc)
    BY <1>1, <1>2
  <1> DEFINE node == At(doc, "extensions")
  <1>4. \/ DeclaredExtensions(doc) = {<<>>}
        \/ /\ node.node = "sequence"
           /\ DeclaredExtensions(doc) = {[i \in DOMAIN node.items |-> Declaration(node.items[i])]}
    <2>1. node = Missing => node.node # "sequence"
      BY DEF Missing
    <2>2. CASE node = Missing
      <3>1. DeclaredExtensions(doc) = {<<>>}
        BY <2>1, <2>2, Zenon DEF DeclaredExtensions
      <3> QED BY <3>1
    <2>3. CASE node # Missing /\ node.node = "sequence"
      <3>1. DeclaredExtensions(doc) =
              IF \A i \in DOMAIN node.items : DeclarationReads(node.items[i])
              THEN {[i \in DOMAIN node.items |-> Declaration(node.items[i])]} ELSE {}
        BY <2>3, Zenon DEF DeclaredExtensions
      <3> QED BY <1>3, <2>3, <3>1
    <2>4. CASE node # Missing /\ node.node # "sequence"
      <3>1. DeclaredExtensions(doc) = {}
        BY <2>4, Zenon DEF DeclaredExtensions
      <3> QED BY <1>3, <3>1
    <2> QED BY <2>2, <2>3, <2>4
  <1>5. DeclaredExtensions(doc) = {own.declared}
    BY <1>3, <1>4
  <1>6. IsList(own.declared)
    <2>1. CASE own.declared = <<>>
      BY <2>1, EmptyList
    <2>2. CASE /\ node.node = "sequence"
               /\ own.declared = [i \in DOMAIN node.items |-> Declaration(node.items[i])]
      <3>1. ItemsOf(node) = node.items
        BY <2>2 DEF ItemsOf
      <3> DEFINE d == own.declared
                 l == node.items
      <3>2. IsList(l) /\ DOMAIN d = DOMAIN l /\ d = [i \in DOMAIN d |-> d[i]]
        BY <2>2, <3>1
      <3>3. IsList(d)
        <4> HIDE DEF d, l
        <4> QED BY <3>2, ListLike
      <3> QED BY <3>3
    <2> QED BY <1>3, <1>4, <2>1, <2>2
  <1> QED BY <1>1, <1>2, <1>3, <1>5, <1>6

LEMMA BlocksOf ==
  ASSUME NEW doc
  PROVE  DOMAIN ExtensionBlocks(doc) = KeysOf(doc) \ (CoreKeys \cup ReservedKeys)
  BY DEF ExtensionBlocks

BlocksMerged(dst, src) == MergeMaps(MergeNodes, dst, src)

LEMMA BlocksMergedKeys ==
  ASSUME NEW dst, NEW src, NEW b \in BlocksMerged(dst, src)
  PROVE  DOMAIN b = DOMAIN dst \cup DOMAIN src
  <1> DEFINE reads == [key \in DOMAIN dst \cup DOMAIN src |->
                         CASE key \notin DOMAIN src -> {dst[key]}
                           [] key \notin DOMAIN dst -> {src[key]}
                           [] OTHER -> MergeNodes(dst[key], src[key])]
  <1>1. b \in Whole(reads)
    BY Zenon DEF BlocksMerged, MergeMaps
  <1>2. DOMAIN reads = DOMAIN dst \cup DOMAIN src
    BY Zenon
  <1>3. b = [x \in DOMAIN reads |-> b[x]]
    <2> HIDE DEF reads
    <2> QED BY <1>1, WholeGiven
  <1>4. DOMAIN b = DOMAIN reads
    <2> HIDE DEF reads
    <2> QED BY <1>3
  <1> QED BY <1>2, <1>4

LEMMA ComposedGives ==
  ASSUME NEW dst, NEW src, NEW all \in Composed(dst, src)
  PROVE  /\ all = [x \in {"scenario", "declared", "blocks"} |-> all[x]]
         /\ all.scenario \in MergeScenario(dst.scenario, src.scenario)
         /\ all.declared \in MergeDeclared(dst.declared, src.declared)
         /\ all.blocks \in BlocksMerged(dst.blocks, src.blocks)
  <1> DEFINE reads == [scenario |-> MergeScenario(dst.scenario, src.scenario),
                       declared |-> MergeDeclared(dst.declared, src.declared),
                       blocks |-> BlocksMerged(dst.blocks, src.blocks)]
  <1>1. all = [x \in DOMAIN reads |-> all[x]] /\ \A x \in DOMAIN reads : all[x] \in reads[x]
    <2>1. all \in Whole(reads)
      BY DEF Composed, BlocksMerged
    <2> HIDE DEF reads
    <2> QED BY <2>1, WholeGiven
  <1> QED BY <1>1

LEMMA ReadRootKeeps ==
  ASSUME DeclarationInv, ReadRoot
  PROVE  DeclarationInv'
  <1>1. CASE Fail
    BY <1>1, FailKeeps
  <1>2. CASE ~Fail
    <2>1. /\ stage = "read" /\ at = 0 /\ ImportsRead /\ authoring' \in Authored(files[Root])
          /\ at' = 1 /\ UNCHANGED <<files, stage, lowered, texts>>
      BY <1>2 DEF ReadRoot
    <2>2. FilesSound /\ TextsSound /\ Len(Imports) \in Nat
      BY ListIs DEF DeclarationInv, FilesSound
    <2>3. FilesSound' /\ TextsSound' /\ Imports' = Imports /\ ImportsRead'
      BY <2>1, <2>2, FilesKept, TextsKept
    <2>4. IsList(ItemsOf(At(files[Root], "extensions")))
      BY <2>2 DEF FilesSound
    <2>5. /\ authoring' = [x \in {"scenario", "declared", "blocks"} |-> authoring'[x]]
          /\ authoring'.blocks = ExtensionBlocks(files[Root])
          /\ IsList(authoring'.declared)
          /\ Ran(authoring'.declared) = DeclarationsOf(Root)
      BY <2>1, <2>4, AuthoredGives DEF DeclarationsOf
    <2>6. ReadBefore(1) = {Root}
      <3>1. \A j \in DOMAIN Imports : ~(j < 1)
        BY <2>2, ListIs DEF FilesSound
      <3> QED BY <3>1 DEF ReadBefore
    <2>7. PathsRead' = {Root}
      BY <2>1, <2>2, <2>6, FilesKept DEF PathsRead
    <2>8. AuthoringKept'
      <3>1. \A path : DeclarationsOf(path)' = DeclarationsOf(path)
        BY <2>1, <2>2, FilesKept
      <3>2. (UNION {DeclarationsOf(path) : path \in PathsRead})' = DeclarationsOf(Root)
        BY <2>7, <3>1
      <3> QED BY <2>1, <2>5, <2>7, <3>2, BlocksOf DEF AuthoringKept
    <2> QED BY <2>1, <2>2, <2>3, <2>8 DEF DeclarationInv, Busy
  <1> QED BY <1>1, <1>2

LEMMA ReadImportKeeps ==
  ASSUME DeclarationInv, ReadImport
  PROVE  DeclarationInv'
  <1> DEFINE path == TextOf(At(Imports[at], "path"))
  <1>1. CASE Fail
    BY <1>1, FailKeeps
  <1>2. CASE ~Fail
    <2>1. PICK own : /\ path \in DOMAIN files
                     /\ own \in Authored(files[path])
                     /\ authoring' \in Composed(authoring, own)
      BY <1>2 DEF ReadImport
    <2>2. /\ stage = "read" /\ at \in DOMAIN Imports
          /\ at' = at + 1 /\ UNCHANGED <<files, stage, lowered, texts>>
      BY <1>2 DEF ReadImport
    <2>3. /\ FilesSound /\ TextsSound /\ Len(Imports) \in Nat /\ DOMAIN Imports = 1 .. Len(Imports)
          /\ AuthoringKept
      <3>1. FilesSound /\ TextsSound
        BY DEF DeclarationInv
      <3>2. Len(Imports) \in Nat /\ DOMAIN Imports = 1 .. Len(Imports)
        BY <3>1, ListIs DEF FilesSound
      <3>3. at # 0
        BY <2>2, <3>2
      <3> QED BY <2>2, <3>1, <3>2, <3>3 DEF DeclarationInv
    <2>31. ImportsRead
      <3>1. at # 0
        BY <2>2, <2>3
      <3> QED BY <2>2, <3>1 DEF DeclarationInv
    <2>4. FilesSound' /\ TextsSound' /\ Imports' = Imports /\ ImportsRead'
      BY <2>2, <2>3, <2>31, FilesKept, TextsKept
    <2>6. path \in DOMAIN files /\ IsList(ItemsOf(At(files[path], "extensions")))
      BY <2>1, <2>3 DEF FilesSound
    <2>7. /\ own.blocks = ExtensionBlocks(files[path]) /\ IsList(own.declared)
          /\ Ran(own.declared) = DeclarationsOf(path)
      BY <2>1, <2>6, AuthoredGives DEF DeclarationsOf
    <2>8. /\ authoring' = [x \in {"scenario", "declared", "blocks"} |-> authoring'[x]]
          /\ authoring'.declared \in MergeDeclared(authoring.declared, own.declared)
          /\ authoring'.blocks \in BlocksMerged(authoring.blocks, own.blocks)
      BY <2>1, ComposedGives
    <2>9. /\ IsList(authoring'.declared)
          /\ Ran(authoring'.declared) = Ran(authoring.declared) \cup DeclarationsOf(path)
      BY <2>3, <2>7, <2>8, AllMerged DEF AuthoringKept
    <2>10. DOMAIN authoring'.blocks = DOMAIN authoring.blocks \cup DOMAIN own.blocks
      BY <2>8, BlocksMergedKeys
    <2>11. ReadBefore(at + 1) = ReadBefore(at) \cup {path}
      <3>1. {j \in DOMAIN Imports : j < at + 1} = {j \in DOMAIN Imports : j < at} \cup {at}
        BY <2>2, <2>3
      <3> QED BY <3>1 DEF ReadBefore
    <2>12. PathsRead = ReadBefore(at) /\ PathsRead' = ReadBefore(at) \cup {path}
      BY <2>2, <2>3, <2>11, FilesKept DEF PathsRead
    <2>13. AuthoringKept'
      <3>1. \A p : DeclarationsOf(p)' = DeclarationsOf(p)
        BY <2>2, <2>3, FilesKept
      <3>2. (UNION {DeclarationsOf(p) : p \in PathsRead})'
              = (UNION {DeclarationsOf(p) : p \in PathsRead}) \cup DeclarationsOf(path)
        BY <2>12, <3>1
      <3>3. \A p \in PathsRead' :
              KeysOf(files[p]) \ (CoreKeys \cup ReservedKeys) \subseteq DOMAIN authoring'.blocks
        BY <2>3, <2>7, <2>10, <2>12, BlocksOf DEF AuthoringKept
      <3> QED BY <2>2, <2>3, <2>8, <2>9, <3>2, <3>3 DEF AuthoringKept
    <2>14. at' \in 0 .. Len(Imports) + 1
      BY <2>2, <2>3
    <2> QED BY <2>2, <2>4, <2>13, <2>14 DEF DeclarationInv, Busy
  <1> QED BY <1>1, <1>2


\* The version and the extensions are looked up, or there are none.
LEMMA DiscoverGives ==
  ASSUME Discover
  PROVE  /\ stage = "read" /\ at = Len(Imports) + 1
         /\ \/ Fail
            \/ /\ authoring.declared = <<>> /\ DOMAIN authoring.blocks = {}
               /\ GoTo("finish") /\ UNCHANGED <<files, authoring, lowered, texts>>
            \/ /\ \A i \in DOMAIN authoring.declared : CanResolve(authoring.declared[i])
               /\ AllDeclared /\ GoTo("check") /\ lowered' = AuthoringRoot
               /\ UNCHANGED <<files, authoring, texts>>
  BY Zenon DEF Discover

LEMMA DiscoverKeeps ==
  ASSUME DeclarationInv, Discover
  PROVE  DeclarationInv'
  <1>1. CASE Fail
    BY <1>1, FailKeeps
  <1>2. CASE ~Fail
    <2>1. /\ stage = "read" /\ at = Len(Imports) + 1
          /\ stage' \in {"finish", "check"} /\ UNCHANGED <<files, authoring, texts>>
          /\ \A i \in DOMAIN authoring.declared : CanResolve(authoring.declared[i])
          /\ DOMAIN authoring.blocks \subseteq Declared
      <3>1. CASE authoring.declared = <<>> /\ DOMAIN authoring.blocks = {}
        BY <1>2, <3>1, DiscoverGives DEF GoTo
      <3> QED BY <1>2, <3>1, DiscoverGives DEF GoTo, AllDeclared
    <2>2. /\ FilesSound /\ TextsSound /\ Len(Imports) \in Nat /\ DOMAIN Imports = 1 .. Len(Imports)
          /\ AuthoringKept
      <3>1. FilesSound /\ TextsSound
        BY DEF DeclarationInv
      <3>2. Len(Imports) \in Nat /\ DOMAIN Imports = 1 .. Len(Imports)
        BY <3>1, ListIs DEF FilesSound
      <3>3. at # 0
        BY <2>1, <3>2
      <3> QED BY <2>1, <3>1, <3>2, <3>3 DEF DeclarationInv
    <2>3. FilesSound' /\ TextsSound' /\ Paths' = Paths
      BY <2>1, <2>2, FilesKept, TextsKept
    <2>4. PathsRead' = PathsRead
      <3>1. {j \in DOMAIN Imports : j < at} = DOMAIN Imports
        BY <2>1, <2>2
      <3>2. ReadBefore(at) = Paths
        BY <3>1 DEF ReadBefore, Paths
      <3> QED BY <2>1, <2>3, <3>2 DEF PathsRead
    <2>5. AuthoringKept' /\ (Resolvable => Resolvable')
      BY <2>1, <2>2, <2>4, AuthoringStays DEF AuthoringKept
    <2>6. Resolvable
      BY <2>1 DEF Resolvable, Ran
    <2> QED BY <2>1, <2>3, <2>5, <2>6 DEF DeclarationInv, Busy
  <1> QED BY <1>1, <1>2

\* From then on nothing is declared and no file is read.
LEMMA StageKeeps ==
  ASSUME DeclarationInv, stage \in Busy, stage' \in Busy, files' = files,
         authoring'.declared = authoring.declared, authoring'.blocks = authoring.blocks,
         authoring' = [x \in {"scenario", "declared", "blocks"} |-> authoring'[x]],
         TextsSound', stage' = "resolved" => texts' # <<>>
  PROVE  DeclarationInv'
  <1>1. FilesSound /\ AuthoringKept /\ Resolvable
    BY DEF DeclarationInv
  <1>2. FilesSound' /\ Paths' = Paths
    BY <1>1, FilesKept
  <1>3. PathsRead' = PathsRead
    BY <1>2 DEF PathsRead, Busy
  <1>4. AuthoringKept' /\ Resolvable'
    BY <1>1, <1>3, AuthoringStays
  <1> QED BY <1>2, <1>4 DEF DeclarationInv, Busy

LEMMA CheckKeeps ==
  ASSUME DeclarationInv, CheckBlocks
  PROVE  DeclarationInv'
  <1>1. CASE Fail
    BY <1>1, FailKeeps
  <1>2. CASE ~Fail
    <2>1. stage = "check" /\ stage' = "transform" /\ UNCHANGED <<files, authoring, lowered, texts>>
      BY <1>2 DEF CheckBlocks, GoTo
    <2>2. TextsSound' /\ AuthoringKept
      BY <2>1, TextsKept DEF DeclarationInv, Busy
    <2> QED BY <2>1, <2>2, StageKeeps DEF Busy, AuthoringKept
  <1> QED BY <1>1, <1>2

LEMMA TransformKeeps ==
  ASSUME DeclarationInv, Transform
  PROVE  DeclarationInv'
  <1>1. CASE Fail
    BY <1>1, FailKeeps
  <1>2. CASE ~Fail
    <2>1. stage = "transform" /\ UNCHANGED <<files, stage, authoring, texts>>
      BY <1>2 DEF Transform
    <2>2. TextsSound' /\ AuthoringKept
      BY <2>1, TextsKept DEF DeclarationInv, Busy
    <2> QED BY <2>1, <2>2, StageKeeps DEF Busy, AuthoringKept
  <1> QED BY <1>1, <1>2

LEMMA LowerKeeps ==
  ASSUME DeclarationInv, Lower
  PROVE  DeclarationInv'
  <1>1. CASE Fail
    BY <1>1, FailKeeps
  <1>2. CASE ~Fail
    <2>1. /\ stage = "transform" /\ stage' = "finish" /\ UNCHANGED <<files, lowered, texts>>
          /\ \E s : authoring' = [authoring EXCEPT !.scenario = s]
      BY <1>2 DEF Lower, GoTo
    <2>2. TextsSound' /\ AuthoringKept
      BY <2>1, TextsKept DEF DeclarationInv, Busy
    <2>3. /\ authoring'.declared = authoring.declared /\ authoring'.blocks = authoring.blocks
          /\ authoring' = [x \in {"scenario", "declared", "blocks"} |-> authoring'[x]]
      BY <2>1, <2>2 DEF AuthoringKept
    <2> QED BY <2>1, <2>2, <2>3, StageKeeps DEF Busy
  <1> QED BY <1>1, <1>2

\* A text has the keys of a scenario only.
LEMMA SerializedKeys ==
  ASSUME NEW s
  PROVE  Serialize(s).node = "map" /\ DOMAIN Serialize(s).at \subseteq CoreKeys
  <1> DEFINE written == {k \in DOMAIN Scenario.fields : IsWritten(Scenario.fields[k], s[k])}
             made == [key \in written |-> WriteField(Write3, Scenario.fields[key].kind, s[key])]
  <1>1. Scenario.kind = "part"
    BY DEF Scenario, Part
  <1>2. Serialize(s) = Map(made)
    BY <1>1, Zenon DEF Serialize, Write4, WritePart
  <1>3. DOMAIN made \subseteq CoreKeys
    BY Zenon DEF CoreKeys
  <1> HIDE DEF made
  <1> QED BY <1>2, <1>3, ComputedIs DEF Map

LEMMA FinishKeeps ==
  ASSUME DeclarationInv, Finish
  PROVE  DeclarationInv'
  <1> DEFINE scenario == Canonical(authoring.scenario)
             text == Serialize(scenario)
  <1>1. /\ stage = "finish" /\ stage' = "resolved" /\ UNCHANGED <<files, lowered>>
        /\ authoring' = [authoring EXCEPT !.scenario = scenario]
        /\ texts' = Append(texts, text)
    BY DEF Finish, GoTo
  <1> HIDE DEF scenario
  <1>2. TextsSound /\ AuthoringKept
    BY <1>1 DEF DeclarationInv, Busy
  <1>3. text.node = "map" /\ DOMAIN text.at \subseteq CoreKeys
    BY SerializedKeys
  <1> HIDE DEF text
  <1>4. TextsSound' /\ texts' # <<>>
    <2>1. /\ IsList(texts') /\ Len(texts') = Len(texts) + 1 /\ Len(texts) \in Nat
          /\ DOMAIN texts = 1 .. Len(texts) /\ DOMAIN texts' = 1 .. Len(texts')
          /\ \A i \in DOMAIN texts : texts'[i] = texts[i]
          /\ texts'[Len(texts) + 1] = text
      BY <1>1, <1>2, ListAppended, ListIs DEF TextsSound
    <2>2. ASSUME NEW g \in DOMAIN texts'
          PROVE  texts'[g].node = "map" /\ DOMAIN texts'[g].at \subseteq CoreKeys
      <3>1. g \in DOMAIN texts \/ g = Len(texts) + 1
        BY <2>1
      <3> QED BY <2>1, <3>1, <1>2, <1>3 DEF TextsSound
    <2>3. texts' # <<>>
      BY <2>1, EmptyList
    <2> QED BY <2>1, <2>2, <2>3 DEF TextsSound
  <1>5. /\ authoring'.declared = authoring.declared /\ authoring'.blocks = authoring.blocks
        /\ authoring' = [x \in {"scenario", "declared", "blocks"} |-> authoring'[x]]
    BY <1>1, <1>2 DEF AuthoringKept
  <1> QED BY <1>1, <1>4, <1>5, StageKeeps DEF Busy

LEMMA ResolveAgainKeeps ==
  ASSUME DeclarationInv, ResolveAgain
  PROVE  DeclarationInv'
  <1>1. /\ files' = [path \in {Root} |-> texts[Len(texts)]] /\ texts' = texts
        /\ stage' = "read" /\ at' = 0 /\ TextsSound /\ texts # <<>>
    BY DEF ResolveAgain, DeclarationInv
  <1>2. /\ texts[Len(texts)].node = "map" /\ DOMAIN texts[Len(texts)].at \subseteq CoreKeys
    <2>1. Len(texts) \in DOMAIN texts
      <3>1. Len(texts) \in Nat /\ DOMAIN texts = 1 .. Len(texts) /\ texts = [i \in DOMAIN texts |-> texts[i]]
        BY <1>1, ListIs DEF TextsSound
      <3>2. Len(texts) # 0
        BY <1>1, <3>1 DEF TextsSound, IsList
      <3> QED BY <3>1, <3>2
    <2> QED BY <1>1, <2>1 DEF TextsSound
  <1>3. files'[Root] = texts[Len(texts)] /\ DOMAIN files' = {Root}
    BY <1>1
  <1>4. At(texts[Len(texts)], "imports") = Missing /\ At(texts[Len(texts)], "extensions") = Missing
    <2>1. "imports" \notin CoreKeys /\ "extensions" \notin CoreKeys
      BY DEF CoreKeys, Scenario, Part
    <2> QED BY <1>2, <2>1 DEF At, KeysOf
  <1>5. ItemsOf(Missing) = <<>>
    BY DEF ItemsOf, Missing
  <1>6. FilesSound'
    BY <1>3, <1>4, <1>5, EmptyList DEF FilesSound, Imports
  <1>7. Len(Imports') = 0
    BY <1>3, <1>4, <1>5, EmptyList DEF Imports
  <1> QED BY <1>1, <1>6, <1>7, TextsKept DEF DeclarationInv, Busy

LEMMA DeclarationStep ==
  ASSUME DeclarationInv, [Next]_vars
  PROVE  DeclarationInv'
  <1>1. CASE UNCHANGED vars
    BY <1>1 DEF vars, DeclarationInv, FilesSound, TextsSound, AuthoringKept, Resolvable, PathsRead,
                ReadBefore, Paths, Imports, ImportsRead, Declared, DeclarationsOf
  <1> QED BY <1>1, ReadRootKeeps, ReadImportKeeps, DiscoverKeeps, CheckKeeps, TransformKeeps,
             LowerKeeps, FinishKeeps, ResolveAgainKeeps DEF Next, Terminated

LEMMA DeclarationInvariant == Spec => []DeclarationInv
  <1>1. Init => DeclarationInv
    BY DeclarationStarts
  <1>2. DeclarationInv /\ [Next]_vars => DeclarationInv'
    BY DeclarationStep
  <1> QED BY <1>1, <1>2, PTL DEF Spec

\* For every set of files, what resolve_scenario resolves satisfies every
\* declaration of every file it has read (merge_declared_extensions,
\* resolve_declared), and each section of these files is of the core schema or
\* of an extension that one of them declares.
THEOREM EveryDeclarationIsHonoured == Spec => []DeclarationsHonoured
  <1>1. ASSUME DeclarationInv PROVE DeclarationsHonoured
    <2> SUFFICES ASSUME stage = "resolved" PROVE DeclarationsHonoured
      BY DEF DeclarationsHonoured
    <2> DEFINE all == UNION {{list[i] : i \in DOMAIN list} :
                               list \in UNION {DeclaredExtensions(files[path]) : path \in Paths}}
    <2>1. AuthoringKept /\ Resolvable /\ PathsRead = Paths
      BY <1>1 DEF DeclarationInv, Busy, PathsRead
    <2>2. all = Ran(authoring.declared)
      <3>1. all = UNION {DeclarationsOf(path) : path \in Paths}
        <4>1. ASSUME NEW ext \in all PROVE ext \in UNION {DeclarationsOf(path) : path \in Paths}
          <5>1. PICK path \in Paths : \E list \in DeclaredExtensions(files[path]) : ext \in Ran(list)
            BY <4>1 DEF Ran
          <5> QED BY <5>1 DEF DeclarationsOf
        <4>2. ASSUME NEW ext \in UNION {DeclarationsOf(path) : path \in Paths} PROVE ext \in all
          <5>1. PICK path \in Paths : \E list \in DeclaredExtensions(files[path]) : ext \in Ran(list)
            BY <4>2 DEF DeclarationsOf
          <5> QED BY <5>1 DEF Ran
        <4> QED BY <4>1, <4>2
      <3> QED BY <2>1, <3>1 DEF AuthoringKept
    <2>3. \A ext \in all : CanResolve(ext)
      BY <2>1, <2>2 DEF Resolvable
    <2>4. Declared = {ext.id : ext \in all}
      BY <2>2, DeclaredIs
    <2>5. \A path \in Paths :
            KeysOf(files[path]) \subseteq CoreKeys \cup ReservedKeys \cup {ext.id : ext \in all}
      BY <2>1, <2>4 DEF AuthoringKept, Resolvable
    <2> QED BY <2>3, <2>5 DEF DeclarationsHonoured
  <1> QED BY <1>1, DeclarationInvariant, PTL

(***************************************************************************)
(* Variants: what is parsed from what a variant is printed as.             *)
(***************************************************************************)
LEMMA VariantOf ==
  ASSUME NEW is, NEW taken, NEW value \in Variant(is, taken)
  PROVE  \E text \in taken : /\ value = [is |-> is, texts |-> <<text>>]
                             /\ value.is = is /\ value.texts = <<text>> /\ value.texts[1] = text
  BY DEF Variant

LEMMA VariantIs ==
  ASSUME NEW is, NEW text
  PROVE  /\ Variant(is, {text}) = {[is |-> is, texts |-> <<text>>]}
         /\ Variant(is, {}) = {}
  BY DEF Variant

LEMMA TakeOne ==
  ASSUME NEW reader, NEW text
  PROVE  Take(reader, text) = {} \/ \E taken : Take(reader, text) = {taken}
  BY DEF Take

\* What a reader makes of a text, it makes of what it has made.
LEMMA TakeAgain ==
  ASSUME NEW reader \in Readers \ {"stod"}, NEW text, NEW taken \in Take(reader, text)
  PROVE  Take(reader, taken) = {taken}
  <1>1. reader \notin {"text", "goal"}
    BY DEF Readers, Names
  <1>2. text \in DOMAIN Taken[reader] /\ taken = Taken[reader][text]
    BY <1>1 DEF Take
  <1> QED BY <1>2, TextAssumption

TypedTypes == [INTEGER |-> "integer", FLOAT |-> "real", BOOLEAN |-> "flag"]
TypedNames == [INTEGER |-> "int64_t", FLOAT |-> "double", BOOLEAN |-> "bool"]

LEMMA TypedScalarIs ==
  ASSUME NEW text, NEW type
  PROVE  ParseTypedScalar(text, type) =
           IF type \in DOMAIN TypedTypes /\ Take(TypedTypes[type], text) # {}
           THEN Variant(TypedNames[type], Take(TypedTypes[type], text))
           ELSE Variant("string", {text})
  <1>1. DOMAIN TypedTypes = {"INTEGER", "FLOAT", "BOOLEAN"}
    BY DEF TypedTypes
  <1>2. \A is : \A reader : Variant(is, Take(reader, text)) = {} <=> Take(reader, text) = {}
    BY DEF Variant
  <1>3. CASE type = "INTEGER"
    <2>1. ParseTypedScalar(text, type) =
            IF Variant("int64_t", Take("integer", text)) = {} THEN Variant("string", {text})
            ELSE Variant("int64_t", Take("integer", text))
      BY <1>3, Zenon DEF ParseTypedScalar
    <2>2. TypedTypes[type] = "integer" /\ TypedNames[type] = "int64_t"
      BY <1>3 DEF TypedTypes, TypedNames
    <2> QED BY <1>1, <1>2, <1>3, <2>1, <2>2
  <1>4. CASE type = "FLOAT"
    <2>1. ParseTypedScalar(text, type) =
            IF Variant("double", Take("real", text)) = {} THEN Variant("string", {text})
            ELSE Variant("double", Take("real", text))
      BY <1>4, Zenon DEF ParseTypedScalar
    <2>2. TypedTypes[type] = "real" /\ TypedNames[type] = "double"
      BY <1>4 DEF TypedTypes, TypedNames
    <2> QED BY <1>1, <1>2, <1>4, <2>1, <2>2
  <1>5. CASE type = "BOOLEAN"
    <2>1. ParseTypedScalar(text, type) =
            IF Variant("bool", Take("flag", text)) = {} THEN Variant("string", {text})
            ELSE Variant("bool", Take("flag", text))
      BY <1>5, Zenon DEF ParseTypedScalar
    <2>2. TypedTypes[type] = "flag" /\ TypedNames[type] = "bool"
      BY <1>5 DEF TypedTypes, TypedNames
    <2> QED BY <1>1, <1>2, <1>5, <2>1, <2>2
  <1>6. CASE type \notin {"INTEGER", "FLOAT", "BOOLEAN"}
    <2>1. type # "INTEGER" /\ type # "FLOAT" /\ type # "BOOLEAN"
      BY <1>6
    <2>2. ParseTypedScalar(text, type) = Variant("string", {text})
      BY <2>1, Zenon DEF ParseTypedScalar
    <2> QED BY <1>1, <1>6, <2>2
  <1> QED BY <1>3, <1>4, <1>5, <1>6

\* A typed value is one that some text has for some type.
TypedValue(value) == \E text, type : value \in ParseTypedScalar(text, type)

LEMMA TypedOne ==
  ASSUME NEW text, NEW type
  PROVE  \E value : ParseTypedScalar(text, type) = {value}
  <1>1. CASE type \in DOMAIN TypedTypes /\ Take(TypedTypes[type], text) # {}
    <2>1. PICK taken : Take(TypedTypes[type], text) = {taken}
      BY <1>1, TakeOne
    <2>2. ParseTypedScalar(text, type) = Variant(TypedNames[type], {taken})
      BY <1>1, <2>1, TypedScalarIs
    <2>3. ParseTypedScalar(text, type) = {[is |-> TypedNames[type], texts |-> <<taken>>]}
      BY <2>2 DEF Variant
    <2> QED BY <2>3
  <1>2. CASE ~(type \in DOMAIN TypedTypes /\ Take(TypedTypes[type], text) # {})
    <2>1. ParseTypedScalar(text, type) = Variant("string", {text})
      BY <1>2, TypedScalarIs
    <2>2. ParseTypedScalar(text, type) = {[is |-> "string", texts |-> <<text>>]}
      BY <2>1 DEF Variant
    <2> QED BY <2>2
  <1> QED BY <1>1, <1>2

LEMMA TypedAgain ==
  ASSUME NEW text, NEW type, NEW value \in ParseTypedScalar(text, type)
  PROVE  /\ value.is # "strings"
         /\ ParseTypedScalar(value.texts[1], type) = {value}
  <1>1. CASE type \in DOMAIN TypedTypes /\ Take(TypedTypes[type], text) # {}
    <2>1. PICK taken \in Take(TypedTypes[type], text) :
            /\ value = [is |-> TypedNames[type], texts |-> <<taken>>]
            /\ value.is = TypedNames[type] /\ value.texts[1] = taken
      <3>1. value \in Variant(TypedNames[type], Take(TypedTypes[type], text))
        BY <1>1, TypedScalarIs
      <3> QED BY <3>1, VariantOf
    <2>2. TypedTypes[type] \in Readers \ {"stod"} /\ TypedNames[type] # "strings"
      BY <1>1 DEF TypedTypes, TypedNames, Readers
    <2>3. Take(TypedTypes[type], taken) = {taken}
      BY <2>1, <2>2, TakeAgain
    <2>4. ParseTypedScalar(taken, type) = Variant(TypedNames[type], {taken})
      BY <1>1, <2>3, TypedScalarIs
    <2> QED BY <2>1, <2>2, <2>4, VariantIs
  <1>2. CASE ~(type \in DOMAIN TypedTypes /\ Take(TypedTypes[type], text) # {})
    <2>1. ParseTypedScalar(text, type) = Variant("string", {text})
      BY <1>2, TypedScalarIs
    <2>2. value = [is |-> "string", texts |-> <<text>>]
      BY <2>1 DEF Variant
    <2>3. value.is = "string" /\ value.texts[1] = text
      BY <2>2
    <2> QED BY <2>1, <2>2, <2>3, VariantIs
  <1> QED BY <1>1, <1>2

LEMMA ValueAgainIs ==
  ASSUME NEW value, NEW type
  PROVE  ParseTypedScalar(value.texts[1], type) = {ValueAgain(value, type)}
  <1>1. PICK again : ParseTypedScalar(value.texts[1], type) = {again}
    BY TypedOne
  <1>2. (CHOOSE x \in {again} : TRUE) = again
    OBVIOUS
  <1> QED BY <1>1, <1>2 DEF ValueAgain

LEMMA ValueStays ==
  ASSUME NEW text, NEW type, NEW value \in ParseTypedScalar(text, type)
  PROVE  ValueAgain(value, type) = value
  <1>1. {ValueAgain(value, type)} = {value}
    BY TypedAgain, ValueAgainIs
  <1> QED BY <1>1

\* A typed value is written as a scalar, and read by a type.
LEMMA TypedWritten ==
  ASSUME NEW value, TypedValue(value), NEW type
  PROVE  /\ WriteVariant(value) = Scalar(value.texts[1])
         /\ ReadTyped(WriteVariant(value), type) = {ValueAgain(value, type)}
  <1>1. value.is # "strings"
    BY TypedAgain DEF TypedValue
  <1>2. WriteVariant(value) = Scalar(value.texts[1])
    BY <1>1 DEF WriteVariant
  <1> QED BY <1>2, ValueAgainIs, ScalarText DEF ReadTyped

(***************************************************************************)
(* The values of a variable, by its type.                                  *)
(***************************************************************************)
Parsed(value, type) == \E text : value \in ParseScalarValue(text, type)

LEMMA ScalarParsed ==
  ASSUME NEW text, NEW type
  PROVE  /\ type = "INTEGER" => ParseScalarValue(text, type) = Variant("int64_t", Take("stoll", text))
         /\ type = "FLOAT" => ParseScalarValue(text, type) = Variant("double", Take("stod", text))
         /\ type = "BOOLEAN" => ParseScalarValue(text, type) =
              Variant("bool", {IF text \in {"true", "1", "yes"} THEN "true" ELSE "false"})
         /\ type \notin {"INTEGER", "FLOAT", "BOOLEAN"} =>
              ParseScalarValue(text, type) = Variant("string", {text})
  <1>1. CASE type = "INTEGER"
    <2>1. type # "FLOAT" /\ type # "BOOLEAN" /\ type \in {"INTEGER", "FLOAT", "BOOLEAN"}
      BY <1>1
    <2> QED BY <1>1, <2>1, Zenon DEF ParseScalarValue
  <1>2. CASE type = "FLOAT"
    <2>1. type # "INTEGER" /\ type # "BOOLEAN" /\ type \in {"INTEGER", "FLOAT", "BOOLEAN"}
      BY <1>2
    <2> QED BY <1>2, <2>1, Zenon DEF ParseScalarValue
  <1>3. CASE type = "BOOLEAN"
    <2>1. type # "INTEGER" /\ type # "FLOAT" /\ type \in {"INTEGER", "FLOAT", "BOOLEAN"}
      BY <1>3
    <2> QED BY <1>3, <2>1, Zenon DEF ParseScalarValue
  <1>4. CASE type \notin {"INTEGER", "FLOAT", "BOOLEAN"}
    <2>1. type # "INTEGER" /\ type # "FLOAT" /\ type # "BOOLEAN"
      BY <1>4
    <2> QED BY <1>4, <2>1, Zenon DEF ParseScalarValue
  <1> QED BY <1>1, <1>2, <1>3, <1>4

\* A value that was parsed is parsed again from its text, unless the text is one
\* that std::stod does not take.
LEMMA ParsedAgain ==
  ASSUME NEW value, NEW type, Parsed(value, type)
  PROVE  /\ value.is # "strings"
         /\ value.is = "int64_t" => type = "INTEGER" /\ value = [is |-> "int64_t", texts |-> value.texts]
         /\ ParseScalarValue(value.texts[1], type) = IF NotANumber(value) THEN {} ELSE {value}
  <1>1. PICK text : value \in ParseScalarValue(text, type)
    BY DEF Parsed
  <1>2. CASE type = "INTEGER"
    <2>1. value \in Variant("int64_t", Take("stoll", text))
      BY <1>1, <1>2, ScalarParsed
    <2>2. PICK taken \in Take("stoll", text) : value = [is |-> "int64_t", texts |-> <<taken>>]
      BY <2>1 DEF Variant
    <2>3. Take("stoll", taken) = {taken}
      BY TakeAgain DEF Readers
    <2>4. ParseScalarValue(taken, type) = {value}
      <3>1. ParseScalarValue(taken, type) = Variant("int64_t", {taken})
        BY <1>2, <2>3, ScalarParsed
      <3> QED BY <2>2, <3>1 DEF Variant
    <2>5. value.texts[1] = taken /\ value.is = "int64_t" /\ value.texts = <<taken>>
      BY <2>2
    <2> QED BY <1>2, <2>2, <2>4, <2>5 DEF NotANumber
  <1>3. CASE type = "FLOAT"
    <2>1. value \in Variant("double", Take("stod", text))
      BY <1>1, <1>3, ScalarParsed
    <2>2. PICK taken \in Take("stod", text) : value = [is |-> "double", texts |-> <<taken>>]
      BY <2>1 DEF Variant
    <2>3. text \in DOMAIN Taken["stod"] /\ taken = Taken["stod"][text]
      BY <2>2 DEF Take
    <2>4. value.texts[1] = taken /\ value.is = "double"
      BY <2>2
    <2>5. Take("stod", taken) = IF taken \in NotNumbers THEN {} ELSE {taken}
      <3>1. CASE taken \in NotNumbers
        <4>1. taken \notin DOMAIN Taken["stod"]
          BY <3>1, TextAssumption
        <4> QED BY <3>1, <4>1 DEF Take
      <3>2. CASE taken \notin NotNumbers
        BY <2>3, <3>2, TextAssumption
      <3> QED BY <3>1, <3>2
    <2>6. ParseScalarValue(taken, type) = Variant("double", IF taken \in NotNumbers THEN {} ELSE {taken})
      BY <1>3, <2>5, ScalarParsed
    <2>7. ParseScalarValue(taken, type) = IF taken \in NotNumbers THEN {} ELSE {value}
      BY <2>2, <2>6 DEF Variant
    <2> QED BY <2>4, <2>7 DEF NotANumber
  <1>4. CASE type = "BOOLEAN"
    <2> DEFINE said == IF text \in {"true", "1", "yes"} THEN "true" ELSE "false"
    <2>1. value \in Variant("bool", {said})
      BY <1>1, <1>4, ScalarParsed
    <2>2. value = [is |-> "bool", texts |-> <<said>>]
      BY <2>1 DEF Variant
    <2>3. value.texts[1] = said /\ value.is = "bool"
      BY <2>2
    <2>4. (IF said \in {"true", "1", "yes"} THEN "true" ELSE "false") = said
      OBVIOUS
    <2>5. ParseScalarValue(said, type) = Variant("bool", {said})
      BY <1>4, <2>4, ScalarParsed
    <2>6. ParseScalarValue(said, type) = {value}
      BY <2>2, <2>5 DEF Variant
    <2> QED BY <2>3, <2>6 DEF NotANumber
  <1>5. CASE type \notin {"INTEGER", "FLOAT", "BOOLEAN"}
    <2>1. ParseScalarValue(text, type) = Variant("string", {text})
      BY <1>5, ScalarParsed
    <2>2. value = [is |-> "string", texts |-> <<text>>]
      BY <1>1, <2>1 DEF Variant
    <2>3. value.texts[1] = text /\ value.is = "string"
      BY <2>2
    <2>4. ParseScalarValue(text, type) = {value}
      BY <2>1, <2>2 DEF Variant
    <2> QED BY <2>3, <2>4 DEF NotANumber
  <1> QED BY <1>2, <1>3, <1>4, <1>5

\* The integer that a default is if none is given.
NotGiven == [is |-> "int64_t", texts |-> <<"0">>]

DefaultMade(value, type) ==
  \/ Parsed(value, type)
  \/ /\ value = [is |-> "strings", texts |-> value.texts]
     /\ value.texts = [i \in DOMAIN value.texts |-> value.texts[i]]
  \/ value = NotGiven

LEMMA DefaultRead ==
  ASSUME NEW value, NEW type, DefaultMade(value, type)
  PROVE  ReadDefault(WriteVariant(value), type) =
           IF NotANumber(value) THEN {} ELSE {DefaultAgain(value, type)}
  <1>1. \A text : ReadDefault(Scalar(text), type) = ParseScalarValue(text, type)
    BY ScalarText DEF ReadDefault, Scalar
  <1>2. CASE Parsed(value, type)
    <2>1. WriteVariant(value) = Scalar(value.texts[1])
      BY <1>2, ParsedAgain DEF WriteVariant
    <2>2. DefaultAgain(value, type) = value
      <3>1. CASE value.is # "int64_t"
        BY <3>1 DEF DefaultAgain
      <3>2. CASE value.is = "int64_t"
        <4>1. type = "INTEGER" /\ type # "BOOLEAN" /\ value = [is |-> "int64_t", texts |-> value.texts]
          BY <1>2, <3>2, ParsedAgain
        <4>2. DefaultAgain(value, type) = [is |-> "int64_t", texts |-> value.texts]
          BY <3>2, <4>1, Zenon DEF DefaultAgain
        <4> QED BY <4>1, <4>2
      <3> QED BY <3>1, <3>2
    <2> QED BY <1>1, <1>2, <2>1, <2>2, ParsedAgain
  <1>3. CASE /\ value = [is |-> "strings", texts |-> value.texts]
             /\ value.texts = [i \in DOMAIN value.texts |-> value.texts[i]]
    <2> DEFINE node == WriteVariant(value)
    <2>1. value.is = "strings"
      BY <1>3
    <2>2. node.node = "sequence" /\ node.items = [i \in DOMAIN value.texts |-> Scalar(value.texts[i])]
      BY <2>1, ComputedIs DEF WriteVariant, Sequence
    <2>3. /\ DOMAIN node.items = DOMAIN value.texts
          /\ \A i \in DOMAIN node.items : HasText(node.items[i]) /\ TextOf(node.items[i]) = value.texts[i]
      BY <2>2, ScalarText
    <2>4. [i \in DOMAIN node.items |-> TextOf(node.items[i])] = value.texts
      BY <1>3, <2>3
    <2>5. ReadDefault(node, type) =
            {[is |-> "strings", texts |-> [i \in DOMAIN node.items |-> TextOf(node.items[i])]]}
      BY <2>2, <2>3 DEF ReadDefault
    <2>6. DefaultAgain(value, type) = value /\ ~NotANumber(value)
      BY <2>1 DEF DefaultAgain, NotANumber
    <2> QED BY <1>3, <2>4, <2>5, <2>6
  <1>4. CASE value = NotGiven
    <2>1. WriteVariant(value) = Scalar("0") /\ ~NotANumber(value) /\ value.is = "int64_t" /\ value.texts = <<"0">>
      BY <1>4 DEF NotGiven, WriteVariant, NotANumber
    <2>2. ParseScalarValue("0", type) = {DefaultAgain(value, type)}
      <3>1. CASE type = "INTEGER"
        <4>1. ParseScalarValue("0", type) = Variant("int64_t", {"0"})
          BY <3>1, ScalarParsed, TextAssumption
        <4>2. type # "BOOLEAN"
          BY <3>1
        <4>3. DefaultAgain(value, type) = [is |-> "int64_t", texts |-> <<"0">>]
          BY <2>1, <3>1, <4>2, Zenon DEF DefaultAgain
        <4> QED BY <4>1, <4>3 DEF Variant
      <3>2. CASE type = "FLOAT"
        <4>1. ParseScalarValue("0", type) = Variant("double", {"0"})
          BY <3>2, ScalarParsed, TextAssumption
        <4>2. type # "BOOLEAN" /\ type # "INTEGER"
          BY <3>2
        <4>3. DefaultAgain(value, type) = [is |-> "double", texts |-> <<"0">>]
          BY <2>1, <3>2, <4>2, Zenon DEF DefaultAgain
        <4> QED BY <4>1, <4>3 DEF Variant
      <3>3. CASE type = "BOOLEAN"
        <4>1. "0" \notin {"true", "1", "yes"}
          OBVIOUS
        <4>2. ParseScalarValue("0", type) = Variant("bool", {"false"})
          BY <3>3, <4>1, ScalarParsed
        <4>3. type # "FLOAT" /\ type # "INTEGER"
          BY <3>3
        <4>4. DefaultAgain(value, type) = [is |-> "bool", texts |-> <<"false">>]
          BY <2>1, <3>3, <4>3, Zenon DEF DefaultAgain
        <4> QED BY <4>2, <4>4 DEF Variant
      <3>4. CASE type \notin {"INTEGER", "FLOAT", "BOOLEAN"}
        <4>1. ParseScalarValue("0", type) = Variant("string", {"0"})
          BY <3>4, ScalarParsed
        <4>2. type # "FLOAT" /\ type # "INTEGER" /\ type # "BOOLEAN"
          BY <3>4
        <4>3. DefaultAgain(value, type) = [is |-> "string", texts |-> <<"0">>]
          BY <2>1, <4>2, Zenon DEF DefaultAgain
        <4> QED BY <4>1, <4>3 DEF Variant
      <3> QED BY <3>1, <3>2, <3>3, <3>4
    <2> QED BY <1>1, <2>1, <2>2
  <1> QED BY <1>2, <1>3, <1>4 DEF DefaultMade

LEMMA DefaultGiven ==
  ASSUME NEW node, NEW type, NEW value \in ReadDefault(node, type)
  PROVE  DefaultMade(value, type)
  <1>1. CASE node.node = "scalar"
    BY <1>1 DEF ReadDefault, DefaultMade, Parsed
  <1>2. CASE node.node = "sequence"
    <2>1. value = [is |-> "strings", texts |-> [i \in DOMAIN node.items |-> TextOf(node.items[i])]]
      BY <1>2 DEF ReadDefault
    <2> QED BY <2>1 DEF DefaultMade
  <1>3. CASE node.node # "scalar" /\ node.node # "sequence"
    <2>1. ReadDefault(node, type) = Variant("int64_t", {"0"})
      BY <1>3, Zenon DEF ReadDefault
    <2> QED BY <2>1 DEF DefaultMade, Variant, NotGiven
  <1> QED BY <1>1, <1>2, <1>3

\* It is read the same a second time.
LEMMA DefaultSettled ==
  ASSUME NEW value, NEW type, DefaultMade(value, type)
  PROVE  /\ DefaultMade(DefaultAgain(value, type), type)
         /\ DefaultAgain(DefaultAgain(value, type), type) = DefaultAgain(value, type)
  <1> DEFINE again == DefaultAgain(value, type)
  <1>1. CASE value.is # "int64_t"
    BY <1>1 DEF DefaultAgain
  <1>2. CASE value.is = "int64_t"
    <2>1. again = [is |-> again.is, texts |-> again.texts]
      BY <1>2 DEF DefaultAgain
    <2>2. again \in ReadDefault(WriteVariant(value), type)
      BY <1>2, DefaultRead DEF NotANumber
    <2>3. DefaultMade(again, type)
      BY <2>2, DefaultGiven
    <2>4. again.is = "int64_t" => type = "INTEGER"
      <3>1. again.is = CASE type = "INTEGER" -> "int64_t" [] type = "FLOAT" -> "double"
                         [] type = "BOOLEAN" -> "bool" [] OTHER -> "string"
        BY <1>2 DEF DefaultAgain
      <3>2. "double" # "int64_t" /\ "bool" # "int64_t" /\ "string" # "int64_t"
        OBVIOUS
      <3> QED BY <3>1, <3>2, Zenon
    <2>5. CASE again.is = "int64_t"
      <3>1. type # "BOOLEAN" /\ type = "INTEGER"
        BY <2>4, <2>5
      <3>2. DefaultAgain(again, type) = [is |-> "int64_t", texts |-> again.texts]
        <4> HIDE DEF again
        <4> QED BY <2>5, <3>1, Zenon DEF DefaultAgain
      <3> QED BY <2>1, <2>3, <2>5, <3>2
    <2>6. CASE again.is # "int64_t"
      <3>1. DefaultAgain(again, type) = again
        BY <2>6 DEF DefaultAgain
      <3> QED BY <2>3, <3>1
    <2> QED BY <2>5, <2>6
  <1> QED BY <1>1, <1>2

(***************************************************************************)
(* Fields that hold one value, on each level.                              *)
(***************************************************************************)
LEMMA LeafField1 ==
  ASSUME NEW kind, kind.kind \notin Nested \cup {"part"}
  PROVE  /\ \A node, around, layer :
              Field1(kind, node, around, layer) = ReadLeaf(kind, node, around, layer)
         /\ \A v : FieldNode1(kind, v) = WriteLeaf(kind, v)
  BY PlainField1, PlainPart1

LEMMA LeafField2 ==
  ASSUME NEW kind, kind.kind \notin Nested \cup {"part"}
  PROVE  /\ \A node, around, layer :
              Field2(kind, node, around, layer) = ReadLeaf(kind, node, around, layer)
         /\ \A v : FieldNode2(kind, v) = WriteLeaf(kind, v)
  BY PlainField2, PlainPart1, PlainPart2

LEMMA LeafField3 ==
  ASSUME NEW kind, kind.kind \notin Nested \cup {"part"}
  PROVE  /\ \A node, around, layer :
              Field3(kind, node, around, layer) = ReadLeaf(kind, node, around, layer)
         /\ \A v : FieldNode3(kind, v) = WriteLeaf(kind, v)
  BY PlainField3, PlainPart1, PlainPart2, PlainPart3

LEMMA ScalarLeaf ==
  ASSUME NEW kind, kind.kind = "scalar"
  PROVE  /\ \A node, around, layer :
              ReadLeaf(kind, node, around, layer) =
                IF Readable(kind.reader, node) THEN Take(kind.reader, TextOf(node)) ELSE {}
         /\ \A v : WriteLeaf(kind, v) = Scalar(Printed(kind.reader, v))
  BY DEF ReadLeaf, WriteLeaf

LEMMA ScalarGiven ==
  ASSUME NEW kind, kind.kind = "scalar", NEW node, NEW around, NEW layer,
         NEW v \in ReadLeaf(kind, node, around, layer)
  PROVE  node # Missing /\ v \in Take(kind.reader, TextOf(node))
  <1>1. Readable(kind.reader, node) /\ v \in Take(kind.reader, TextOf(node))
    BY ScalarLeaf
  <1>2. node.node \in {"scalar", "null"}
    BY <1>1 DEF Readable, HasText
  <1> QED BY <1>1, <1>2 DEF Missing

(***************************************************************************)
(* A variable.                                                             *)
(***************************************************************************)
VariableLimits == {"min_value", "max_value"}

VariableMade(v) ==
  /\ v = [key \in DOMAIN Variable.fields |-> v[key]]
  /\ \A key \in DOMAIN Variable.fields \ ({"default_value"} \cup VariableLimits) :
       HeldField2(Variable.fields[key], v[key])
  /\ DefaultMade(v.default_value, v.type)
  /\ \A key \in VariableLimits : v[key] = Nothing \/ Parsed(v[key], v.type)

VariableUnreadable(v) ==
  \/ NotANumber(v.default_value)
  \/ \E key \in VariableLimits : v[key] # Nothing /\ NotANumber(v[key])

VariableType == Of("variableType")

LEMMA VariableFields ==
  /\ Variable.kind = "part"
  /\ DOMAIN Variable.fields = {"variable_id", "entity_ref", "type", "default_value", "min_value",
                               "max_value", "enum_values", "description"}
  /\ \A key \in {"variable_id", "description"} : Variable.fields[key] = Required(Text)
  /\ Variable.fields.entity_ref = Filled(Text) /\ Variable.fields.enum_values = Filled(ListOf(Text))
  /\ Variable.fields.type = Required(VariableType)
  /\ Variable.fields.default_value = Required(Default)
  /\ \A key \in VariableLimits : Variable.fields[key] = Optional(Bound)
  BY DEF Part, Variable, VariableType, VariableLimits

LEMMA VariableSteady ==
  \A key \in DOMAIN Variable.fields \ ({"default_value"} \cup VariableLimits) :
    SteadyField2(Variable.fields[key])
  <1>1. SteadyLeaf(VariableType)
    BY DEF SteadyLeaf, VariableType, Of, Readers, Names
  <1>2. SteadyField2(Required(VariableType))
    BY <1>1, KindsSteady2, FieldsSteady2
  <1>3. SteadyField2(Required(Text)) /\ SteadyField2(Filled(Text)) /\ SteadyField2(Filled(ListOf(Text)))
    BY PlainFields2
  <1>4. DOMAIN Variable.fields \ ({"default_value"} \cup VariableLimits) =
          {"variable_id", "description", "entity_ref", "enum_values", "type"}
    BY VariableFields DEF VariableLimits
  <1> QED BY <1>2, <1>3, <1>4, VariableFields

LEMMA DefaultLeaf ==
  ASSUME NEW node, NEW around, NEW layer, NEW type, TextOf(At(around, "type")) = type
  PROVE  /\ ReadLeaf(Default, node, around, layer) = ReadDefault(node, type)
         /\ ReadLeaf(Bound, node, around, layer) =
              IF HasText(node) THEN ParseScalarValue(TextOf(node), type) ELSE {}
         /\ \A v : WriteLeaf(Default, v) = WriteVariant(v) /\ WriteLeaf(Bound, v) = WriteVariant(v)
  <1>1. Default.kind = "default" /\ Bound.kind = "bound"
    BY DEF Default, Bound
  <1>2. Default.kind # "scalar" /\ Bound.kind # "scalar" /\ Bound.kind # "default"
        /\ Default.kind \in {"default", "bound"} /\ Bound.kind \in {"default", "bound"}
    BY <1>1
  <1> QED BY <1>1, <1>2, Zenon DEF ReadLeaf, WriteLeaf

LEMMA LeafKinds ==
  \A kind \in {Default, Bound, VariableType} : kind.kind \notin Nested \cup {"part"}
  BY DEF Default, Bound, VariableType, Of, Nested

LEMMA VariableGiven ==
  ASSUME NEW node, NEW around, NEW layer, NEW v \in Read3(Variable, node, around, layer)
  PROVE  VariableMade(v)
  <1>1. /\ node.node = "map" /\ DOMAIN node.at \subseteq DOMAIN Variable.fields
        /\ v = [key \in DOMAIN Variable.fields |-> v[key]]
        /\ \A key \in DOMAIN Variable.fields :
             v[key] \in IF key \in DOMAIN node.at
                        THEN Field2(Variable.fields[key].kind, node.at[key], node, layer)
                        ELSE Variable.fields[key].missing
    <2>1. Variable.kind = "part"
      BY VariableFields
    <2> QED BY <2>1, PartGiven3
  <1>2. ASSUME NEW key \in DOMAIN Variable.fields \ ({"default_value"} \cup VariableLimits)
        PROVE  HeldField2(Variable.fields[key], v[key])
    BY <1>1, VariableSteady, FieldHeld2
  <1>3. \A kind : Required(kind).kind = kind /\ Required(kind).missing = {}
                  /\ Optional(kind).kind = kind /\ Optional(kind).missing = {Nothing}
    BY DEF Required, Optional
  <1>4. TextOf(At(node, "type")) = v.type
    <2>1. "type" \in DOMAIN node.at /\ v.type \in Field2(VariableType, node.at["type"], node, layer)
      BY <1>1, <1>3, VariableFields
    <2>2. v.type \in ReadLeaf(VariableType, node.at["type"], node, layer)
      BY <2>1, LeafKinds, LeafField2
    <2>3. v.type \in Take("variableType", TextOf(node.at["type"]))
      BY <2>2, ScalarLeaf DEF VariableType, Of
    <2>4. v.type = TextOf(node.at["type"])
      BY <2>3, TextAssumption DEF Take, Names
    <2> QED BY <1>1, <2>1, <2>4 DEF At, KeysOf
  <1>5. DefaultMade(v.default_value, v.type)
    <2>1. v.default_value \in Field2(Default, node.at["default_value"], node, layer)
      BY <1>1, <1>3, VariableFields
    <2>2. v.default_value \in ReadDefault(node.at["default_value"], v.type)
      BY <1>4, <2>1, LeafKinds, LeafField2, DefaultLeaf
    <2> QED BY <2>2, DefaultGiven
  <1>6. ASSUME NEW key \in VariableLimits PROVE v[key] = Nothing \/ Parsed(v[key], v.type)
    <2>1. key \in DOMAIN Variable.fields
      BY VariableFields DEF VariableLimits
    <2>2. v[key] = Nothing \/ v[key] \in Field2(Bound, node.at[key], node, layer)
      BY <1>1, <1>3, <2>1, VariableFields
    <2>3. ASSUME v[key] \in Field2(Bound, node.at[key], node, layer) PROVE Parsed(v[key], v.type)
      <3>1. v[key] \in ReadLeaf(Bound, node.at[key], node, layer)
        BY <2>3, LeafKinds, LeafField2
      <3>2. v[key] \in ParseScalarValue(TextOf(node.at[key]), v.type)
        BY <1>4, <3>1, DefaultLeaf
      <3> QED BY <3>2 DEF Parsed
    <2> QED BY <2>2, <2>3
  <1> QED BY <1>1, <1>2, <1>5, <1>6 DEF VariableMade

\* What is written for a variable is read as it, but for a default that was not
\* given; and it is refused if one of its numbers is.
LEMMA VariableRead ==
  ASSUME NEW v, VariableMade(v), NEW around, NEW layer
  PROVE  Read3(Variable, Write3(Variable, v), around, layer) =
           IF VariableUnreadable(v) THEN {} ELSE {VariableAgain(v)}
  <1> DEFINE node == Write3(Variable, v)
  <1>1. \A kind : /\ Required(kind).kind = kind /\ Required(kind).written = "always"
                  /\ Optional(kind).kind = kind /\ Optional(kind).written = "given"
                  /\ Optional(kind).missing = {Nothing}
    BY DEF Required, Optional
  <1>2. IsWritten(Variable.fields.type, v.type) /\ IsWritten(Variable.fields.default_value, v.default_value)
    BY <1>1, VariableFields, WrittenWhen
  <1>3. \A key \in VariableLimits : IsWritten(Variable.fields[key], v[key]) <=> v[key] # Nothing
    BY <1>1, VariableFields, WrittenWhen
  <1>4. TextOf(At(node, "type")) = v.type
    <2>1. node.node = "map" /\ "type" \in DOMAIN node.at /\ node.at["type"] = FieldNode2(VariableType, v.type)
      BY <1>1, <1>2, PartWritten3, VariableFields
    <2>2. FieldNode2(VariableType, v.type) = WriteLeaf(VariableType, v.type)
      BY LeafKinds, LeafField2
    <2>3. WriteLeaf(VariableType, v.type) = Scalar(v.type)
      BY ScalarLeaf DEF VariableType, Of, Printed
    <2> QED BY <2>1, <2>2, <2>3 DEF TextOf, At, KeysOf, Scalar
  <1>5. Field2(Default, FieldNode2(Default, v.default_value), node, layer) =
          IF NotANumber(v.default_value) THEN {} ELSE {DefaultAgain(v.default_value, v.type)}
    <2>1. Field2(Default, FieldNode2(Default, v.default_value), node, layer) =
            ReadDefault(WriteVariant(v.default_value), v.type)
      BY <1>4, LeafKinds, LeafField2, DefaultLeaf
    <2> QED BY <2>1, DefaultRead DEF VariableMade
  <1>6. ASSUME NEW key \in VariableLimits, v[key] # Nothing
        PROVE  Field2(Bound, FieldNode2(Bound, v[key]), node, layer) =
                 IF NotANumber(v[key]) THEN {} ELSE {v[key]}
    <2>1. Parsed(v[key], v.type)
      BY <1>6 DEF VariableMade
    <2>2. WriteVariant(v[key]) = Scalar(v[key].texts[1])
      BY <2>1, ParsedAgain DEF WriteVariant
    <2>3. Field2(Bound, FieldNode2(Bound, v[key]), node, layer) = ParseScalarValue(v[key].texts[1], v.type)
      BY <1>4, <2>2, LeafKinds, LeafField2, DefaultLeaf, ScalarText
    <2> QED BY <2>1, <2>3, ParsedAgain
  <1>7. CASE VariableUnreadable(v)
    <2>1. CASE NotANumber(v.default_value)
      <3>1. "default_value" \in DOMAIN Variable.fields /\ Variable.fields["default_value"].kind = Default
        BY <1>1, VariableFields
      <3>2. Field2(Default, FieldNode2(Default, v["default_value"]), node, layer) = {}
        BY <1>5, <2>1
      <3>3. Read3(Variable, node, around, layer) = {}
        BY <1>2, <3>1, <3>2, VariableFields, PartRefused3
      <3> QED BY <1>7, <3>3
    <2>2. ASSUME NEW key \in VariableLimits, v[key] # Nothing, NotANumber(v[key])
          PROVE  Read3(Variable, node, around, layer) = {}
      <3>1. key \in DOMAIN Variable.fields /\ Variable.fields[key].kind = Bound
        BY <1>1, VariableFields DEF VariableLimits
      <3> QED BY <1>3, <1>6, <2>2, <3>1, VariableFields, PartRefused3
    <2> QED BY <1>7, <2>1, <2>2 DEF VariableUnreadable
  <1>8. CASE ~VariableUnreadable(v)
    <2> DEFINE u == VariableAgain(v)
    <2>1. /\ u = [key \in DOMAIN Variable.fields |-> u[key]]
          /\ u.default_value = DefaultAgain(v.default_value, v.type)
          /\ \A key \in DOMAIN Variable.fields \ {"default_value"} : u[key] = v[key]
      BY VariableFields DEF VariableMade, VariableAgain
    <2>2. ASSUME NEW key \in DOMAIN Variable.fields
          PROVE  IF IsWritten(Variable.fields[key], v[key])
                 THEN Field2(Variable.fields[key].kind, FieldNode2(Variable.fields[key].kind, v[key]),
                             node, layer) = {u[key]}
                 ELSE Variable.fields[key].missing = {u[key]}
      <3>1. CASE key = "default_value"
        BY <1>1, <1>2, <1>5, <1>8, <2>1, <3>1, VariableFields DEF VariableUnreadable
      <3>2. CASE key \in VariableLimits
        <4>1. Variable.fields[key].kind = Bound /\ Variable.fields[key].missing = {Nothing} /\ u[key] = v[key]
          BY <1>1, <2>1, <3>2, VariableFields DEF VariableLimits
        <4> QED BY <1>3, <1>6, <1>8, <3>2, <4>1 DEF VariableUnreadable
      <3>3. CASE key \notin {"default_value"} \cup VariableLimits
        <4>1. HeldField2(Variable.fields[key], v[key]) /\ u[key] = v[key]
          BY <2>1, <3>3 DEF VariableMade
        <4> QED BY <4>1 DEF HeldField2, AgainField2
      <3> QED BY <3>1, <3>2, <3>3
    <2>3. Variable.kind = "part" /\ u = [key \in DOMAIN Variable.fields |-> u[key]]
      BY <2>1, VariableFields
    <2>4. \A key \in DOMAIN Variable.fields :
            IF IsWritten(Variable.fields[key], v[key])
            THEN Field2(Variable.fields[key].kind, FieldNode2(Variable.fields[key].kind, v[key]),
                        Write3(Variable, v), layer) = {u[key]}
            ELSE Variable.fields[key].missing = {u[key]}
      BY <2>2
    <2> HIDE DEF u, node
    <2>5. Read3(Variable, Write3(Variable, v), around, layer) = {u}
      BY <2>3, <2>4, PartOfFields3
    <2> QED BY <1>8, <2>5 DEF u
  <1> QED BY <1>7, <1>8

(***************************************************************************)
(* Declared types: the text of a layer declares what the layer does.       *)
(***************************************************************************)
Declares ==
  [component_types |-> ComponentType, relation_types |-> RelationType, event_types |-> EventType]
DeclaredFields ==
  [component_types |-> "fields", relation_types |-> "payload_fields",
   event_types |-> "payload_fields"]

\* A node says of a row of declarations what the row says.
DeclaresLike(node, row, id, fields, field) ==
  /\ TextOf(At(node, id)) = row[id]
  /\ At(At(node, fields), field) # Missing <=> field \in DOMAIN row[fields]
  /\ field \in DOMAIN row[fields] => TextOf(At(At(node, fields), field)) = row[fields][field]

LEMMA DeclaredSame ==
  ASSUME NEW layer, NEW list, NEW id, NEW fields, NEW name, NEW field, NEW rows,
         IsList(rows), DOMAIN rows = DOMAIN ItemsOf(At(layer, list)),
         \A i \in DOMAIN rows :
           DeclaresLike(ItemsOf(At(layer, list))[i], rows[i], id, fields, field)
  PROVE  DeclaredType(layer, list, id, fields, name, field) = DeclaredIn(rows, id, fields, name, field)
  <1> DEFINE declared == ItemsOf(At(layer, list))
             found == {i \in DOMAIN declared : /\ TextOf(At(declared[i], id)) = name
                                               /\ At(At(declared[i], fields), field) # Missing}
             among == {i \in DOMAIN rows : rows[i][id] = name /\ field \in DOMAIN rows[i][fields]}
             last == CHOOSE i \in found : \A j \in found : j <= i
             final == CHOOSE i \in among : \A j \in among : j <= i
  <1>1. found = among
    BY DEF DeclaresLike
  <1>2. last = final
    BY <1>1
  <1>3. DeclaredType(layer, list, id, fields, name, field) =
          IF found = {} THEN "STRING" ELSE TextOf(At(At(declared[last], fields), field))
    BY Zenon DEF DeclaredType
  <1>4. DeclaredIn(rows, id, fields, name, field) =
          IF among = {} THEN "STRING" ELSE rows[final][fields][field]
    BY Zenon DEF DeclaredIn
  <1>5. CASE found = {}
    BY <1>1, <1>3, <1>4, <1>5
  <1>6. CASE found # {}
    <2>1. \E i \in among : \A j \in among : j <= i
      <3>1. Len(rows) \in Nat /\ among \in SUBSET (1 .. Len(rows)) /\ among # {}
        BY <1>1, <1>6, ListIs
      <3> HIDE DEF among
      <3> QED BY <3>1, GreatestElement
    <2>2. final \in among
      BY <2>1
    <2>3. TextOf(At(At(declared[last], fields), field)) = rows[final][fields][field]
      <3> HIDE DEF last, final
      <3> QED BY <1>2, <2>2 DEF DeclaresLike
    <2> HIDE DEF found, among, last, final
    <2> QED BY <1>1, <1>3, <1>4, <1>6, <2>3
  <1> QED BY <1>5, <1>6

LEMMA DeclaringKinds ==
  \A list \in DOMAIN Declares :
    LET kind == Declares[list]
    IN  /\ kind.kind = "part" /\ {TypedIds[list], DeclaredFields[list]} \subseteq DOMAIN kind.fields
        /\ kind.fields[TypedIds[list]] = Required(Text)
        /\ kind.fields[DeclaredFields[list]] \in {Required(Table(FieldType)), Filled(Table(FieldType))}
        /\ TypedLayer.fields[list] = Listed(ListOf(kind)) /\ list \in DOMAIN TypedLayer.fields
  <1>1. DOMAIN Declares = {"component_types", "relation_types", "event_types"}
    BY DEF Declares
  <1>2. /\ Declares["component_types"] = ComponentType /\ TypedIds["component_types"] = "component_type_id"
        /\ DeclaredFields["component_types"] = "fields"
    BY DEF Declares, TypedIds, DeclaredFields
  <1>3. /\ Declares["relation_types"] = RelationType /\ TypedIds["relation_types"] = "relation_type_id"
        /\ DeclaredFields["relation_types"] = "payload_fields"
    BY DEF Declares, TypedIds, DeclaredFields
  <1>4. /\ Declares["event_types"] = EventType /\ TypedIds["event_types"] = "event_type_id"
        /\ DeclaredFields["event_types"] = "payload_fields"
    BY DEF Declares, TypedIds, DeclaredFields
  <1>5. /\ ComponentType.kind = "part" /\ DOMAIN ComponentType.fields = {"component_type_id", "fields"}
        /\ ComponentType.fields["component_type_id"] = Required(Text)
        /\ ComponentType.fields["fields"] = Required(Table(FieldType))
    BY DEF ComponentType, Part
  <1>6. /\ RelationType.kind = "part"
        /\ {"relation_type_id", "payload_fields"} \subseteq DOMAIN RelationType.fields
        /\ RelationType.fields["relation_type_id"] = Required(Text)
        /\ RelationType.fields["payload_fields"] = Filled(Table(FieldType))
    BY DEF RelationType, Part
  <1>7. /\ EventType.kind = "part" /\ {"event_type_id", "payload_fields"} \subseteq DOMAIN EventType.fields
        /\ EventType.fields["event_type_id"] = Required(Text)
        /\ EventType.fields["payload_fields"] = Filled(Table(FieldType))
    BY DEF EventType, Part
  <1>8. /\ {"component_types", "relation_types", "event_types"} \subseteq DOMAIN TypedLayer.fields
        /\ TypedLayer.fields["component_types"] = Listed(ListOf(ComponentType))
        /\ TypedLayer.fields["relation_types"] = Listed(ListOf(RelationType))
        /\ TypedLayer.fields["event_types"] = Listed(ListOf(EventType))
    BY DEF TypedLayer, Part
  <1> QED BY <1>1, <1>2, <1>3, <1>4, <1>5, <1>6, <1>7, <1>8

LEMMA TableKinds ==
  /\ Text.kind = "scalar" /\ Text.reader = "text"
  /\ FieldType.kind = "scalar" /\ FieldType.reader = "fieldType"
  /\ \A kind : Table(kind).kind = "table" /\ Table(kind).of = kind
  /\ Text.kind \notin Nested \cup {"part"} /\ FieldType.kind # "part"
  /\ \A kind : Required(kind).kind = kind /\ Required(kind).written = "always" /\ Required(kind).missing = {}
  /\ \A kind : Filled(kind).kind = kind /\ Filled(kind).written = "filled"
               /\ (kind.kind # "scalar" => Filled(kind).missing = {<<>>})
  /\ \A kind : ListOf(kind).kind = "list" /\ ListOf(kind).of = kind
  /\ \A kind : Listed(kind).kind = kind /\ Listed(kind).written = "always"
               /\ (kind.kind # "scalar" => Listed(kind).missing = {<<>>})
  BY DEF Text, FieldType, Of, Table, Nested, Required, Filled, Empty, ListOf, Listed

LEMMA RowWrittenDeclares ==
  ASSUME NEW list \in DOMAIN Declares, NEW row, NEW field
  PROVE  DeclaresLike(Write2(Declares[list], row), row, TypedIds[list], DeclaredFields[list], field)
  <1> DEFINE kind == Declares[list]
             node == Write2(kind, row)
             id == TypedIds[list]
             fields == DeclaredFields[list]
  <1>1. /\ kind.kind = "part" /\ id \in DOMAIN kind.fields /\ fields \in DOMAIN kind.fields
        /\ kind.fields[id] = Required(Text)
        /\ kind.fields[fields] \in {Required(Table(FieldType)), Filled(Table(FieldType))}
    BY DeclaringKinds
  <1> SUFFICES DeclaresLike(node, row, id, fields, field)
    OBVIOUS
  <1> HIDE DEF kind, id, fields
  <1>2. /\ node.node = "map"
        /\ DOMAIN node.at = {k \in DOMAIN kind.fields : IsWritten(kind.fields[k], row[k])}
        /\ \A key \in DOMAIN node.at : node.at[key] = FieldNode1(kind.fields[key].kind, row[key])
    BY <1>1, PartWritten2
  <1>3. TextOf(At(node, id)) = row[id]
    <2>1. id \in DOMAIN node.at /\ node.at[id] = FieldNode1(Text, row[id])
      <3>1. kind.fields[id].kind = Text /\ kind.fields[id].written = "always"
        BY <1>1, TableKinds
      <3>2. IsWritten(kind.fields[id], row[id])
        BY <3>1, WrittenWhen
      <3> QED BY <1>1, <1>2, <3>1, <3>2
    <2>2. FieldNode1(Text, row[id]) = Scalar(row[id])
      BY TableKinds, LeafField1, ScalarLeaf DEF Printed
    <2> QED BY <1>2, <2>1, <2>2 DEF At, KeysOf, TextOf, Scalar
  <1>4. kind.fields[fields].kind = Table(FieldType)
    BY <1>1, TableKinds
  <1>5. CASE fields \in DOMAIN node.at
    <2> DEFINE table == At(node, fields)
    <2>1. table = FieldNode1(Table(FieldType), row[fields])
      BY <1>2, <1>4, <1>5 DEF At, KeysOf
    <2>2. table = Map([key \in DOMAIN row[fields] |-> Write1(FieldType, row[fields][key])])
      BY <2>1, TableKinds DEF FieldNode1, WriteField
    <2>3. \A v : Write1(FieldType, v) = Scalar(v)
      BY TableKinds, PlainPart1, ScalarLeaf DEF Printed
    <2>4. table.node = "map" /\ table.at = [key \in DOMAIN row[fields] |-> Scalar(row[fields][key])]
      BY <2>2, <2>3, ComputedIs DEF Map
    <2> HIDE DEF table
    <2>5. CASE field \in DOMAIN row[fields]
      <3>1. At(table, field) = Scalar(row[fields][field])
        BY <2>4, <2>5 DEF At, KeysOf
      <3> QED BY <1>3, <2>5, <3>1 DEF DeclaresLike, table, Scalar, Missing, TextOf
    <2>6. CASE field \notin DOMAIN row[fields]
      <3>1. At(table, field) = Missing
        BY <2>4, <2>6 DEF At, KeysOf
      <3> QED BY <1>3, <2>6, <3>1 DEF DeclaresLike, table
    <2> QED BY <2>5, <2>6
  <1>6. CASE fields \notin DOMAIN node.at
    <2>1. kind.fields[fields].written = "filled" /\ kind.fields[fields].kind.kind # "scalar"
      <3>1. kind.fields[fields].written # "always"
        BY <1>1, <1>2, <1>6, WrittenWhen
      <3> QED BY <1>1, <1>4, <3>1, TableKinds
    <2>2. DOMAIN row[fields] = {}
      BY <1>1, <1>2, <1>6, <2>1, WrittenWhen
    <2>3. At(node, fields) = Missing
      BY <1>2, <1>6 DEF At, KeysOf
    <2>4. At(Missing, field) = Missing
      BY DEF At, KeysOf, Missing
    <2> QED BY <1>3, <2>2, <2>3, <2>4 DEF DeclaresLike
  <1> QED BY <1>5, <1>6

LEMMA RowReadDeclares ==
  ASSUME NEW list \in DOMAIN Declares, NEW node, NEW around, NEW layer, NEW field,
         NEW row \in Read2(Declares[list], node, around, layer)
  PROVE  DeclaresLike(node, row, TypedIds[list], DeclaredFields[list], field)
  <1> DEFINE kind == Declares[list]
             id == TypedIds[list]
             fields == DeclaredFields[list]
  <1>1. /\ kind.kind = "part" /\ id \in DOMAIN kind.fields /\ fields \in DOMAIN kind.fields
        /\ kind.fields[id] = Required(Text)
        /\ kind.fields[fields] \in {Required(Table(FieldType)), Filled(Table(FieldType))}
    BY DeclaringKinds
  <1>2. row \in Read2(kind, node, around, layer)
    OBVIOUS
  <1> SUFFICES DeclaresLike(node, row, id, fields, field)
    OBVIOUS
  <1> HIDE DEF kind, id, fields
  <1>3. /\ node.node = "map" /\ DOMAIN node.at \subseteq DOMAIN kind.fields
        /\ row = [key \in DOMAIN kind.fields |-> row[key]]
        /\ \A key \in DOMAIN kind.fields :
             row[key] \in IF key \in DOMAIN node.at
                          THEN Field1(kind.fields[key].kind, node.at[key], node, layer)
                          ELSE kind.fields[key].missing
    BY <1>1, <1>2, PartGiven2
  <1>4. TextOf(At(node, id)) = row[id]
    <2>1. id \in DOMAIN node.at /\ row[id] \in Field1(Text, node.at[id], node, layer)
      BY <1>1, <1>3, TableKinds
    <2>2. row[id] \in Take("text", TextOf(node.at[id]))
      BY <2>1, TableKinds, LeafField1, ScalarGiven
    <2> QED BY <1>3, <2>1, <2>2 DEF At, KeysOf, Take
  <1>5. kind.fields[fields].kind = Table(FieldType)
    BY <1>1, TableKinds
  <1>6. CASE fields \in DOMAIN node.at
    <2> DEFINE table == At(node, fields)
    <2>1. row[fields] \in Field1(Table(FieldType), table, node, layer)
      BY <1>1, <1>3, <1>5, <1>6 DEF At, KeysOf
    <2> DEFINE reads == [key \in DOMAIN table.at |-> Read1(FieldType, table.at[key], table, Null)]
    <2>2. table.node = "map" /\ row[fields] \in Whole(reads)
      <3>1. Table(FieldType).kind = "table" /\ Table(FieldType).of = FieldType
        BY TableKinds
      <3>2. table.node = "map"
        BY <2>1, <3>1 DEF Field1, ReadField
      <3> QED BY <2>1, <3>1, <3>2 DEF Field1, ReadField, ReadMap
    <2>3. row[fields] = [x \in DOMAIN reads |-> row[fields][x]]
          /\ \A x \in DOMAIN reads : row[fields][x] \in reads[x]
      <3> HIDE DEF reads
      <3> QED BY <2>2, WholeGiven
    <2>4. DOMAIN row[fields] = DOMAIN table.at
      BY <2>3
    <2>5. ASSUME NEW key \in DOMAIN table.at
          PROVE  table.at[key] # Missing /\ TextOf(table.at[key]) = row[fields][key]
      <3>1. row[fields][key] \in Read1(FieldType, table.at[key], table, Null)
        BY <2>3
      <3>2. table.at[key] # Missing /\ row[fields][key] \in Take("fieldType", TextOf(table.at[key]))
        BY <3>1, TableKinds, PlainPart1, ScalarGiven
      <3> QED BY <3>2, TextAssumption DEF Take, Names
    <2> HIDE DEF table
    <2>6. CASE field \in DOMAIN row[fields]
      <3>1. At(table, field) = table.at[field]
        BY <2>2, <2>4, <2>6 DEF At, KeysOf
      <3>2. At(table, field) # Missing /\ TextOf(At(table, field)) = row[fields][field]
        BY <2>4, <2>5, <2>6, <3>1
      <3> QED BY <1>4, <2>6, <3>2 DEF DeclaresLike, table
    <2>7. CASE field \notin DOMAIN row[fields]
      <3>1. At(table, field) = Missing
        BY <2>4, <2>7 DEF At, KeysOf
      <3> QED BY <1>4, <2>7, <3>1 DEF DeclaresLike, table
    <2> QED BY <2>6, <2>7
  <1>7. CASE fields \notin DOMAIN node.at
    <2>1. row[fields] \in {<<>>}
      <3>1. row[fields] \in kind.fields[fields].missing
        BY <1>1, <1>3, <1>7
      <3>2. CASE kind.fields[fields] = Required(Table(FieldType))
        BY <3>1, <3>2, TableKinds
      <3>3. CASE kind.fields[fields] = Filled(Table(FieldType))
        <4>1. Table(FieldType).kind # "scalar"
          BY TableKinds
        <4>2. Filled(Table(FieldType)).missing = {<<>>}
          BY <4>1, TableKinds
        <4> QED BY <3>1, <3>3, <4>2
      <3> QED BY <1>1, <3>2, <3>3
    <2>2. DOMAIN row[fields] = {}
      BY <2>1
    <2>3. At(node, fields) = Missing
      BY <1>3, <1>7 DEF At, KeysOf
    <2>4. At(Missing, field) = Missing
      BY DEF At, KeysOf, Missing
    <2> QED BY <1>4, <2>2, <2>3, <2>4 DEF DeclaresLike
  <1> QED BY <1>6, <1>7

(***************************************************************************)
(* Typed values, in the payloads and components of a layer.                *)
(***************************************************************************)
TypedValues(values) ==
  /\ values = [f \in DOMAIN values |-> values[f]]
  /\ \A f \in DOMAIN values : TypedValue(values[f])

PayloadRows == {Relation, InitialEvent}

PayloadMade(kind, row) ==
  /\ row = [key \in DOMAIN kind.fields |-> row[key]]
  /\ \A key \in DOMAIN kind.fields \ {"payload"} : HeldField1(kind.fields[key], row[key])
  /\ TypedValues(row.payload)

PayloadKind(kind) == kind.fields["payload"].kind

PayloadType(kind, row, layer, f) ==
  DeclaredType(layer, PayloadKind(kind).list, PayloadKind(kind).id, "payload_fields",
               row[PayloadKind(kind).ref], f)

LEMMA PayloadRowFields ==
  ASSUME NEW kind \in PayloadRows
  PROVE  /\ kind.kind = "part"
         /\ "payload" \in DOMAIN kind.fields /\ PayloadKind(kind).kind = "payload"
         /\ kind.fields["payload"] = Filled(PayloadKind(kind))
         /\ PayloadKind(kind).ref \in DOMAIN kind.fields \ {"payload"}
         /\ kind.fields[PayloadKind(kind).ref] = Required(Text)
         /\ \A key \in DOMAIN kind.fields \ {"payload"} : SteadyField1(kind.fields[key])
  <1>1. CASE kind = Relation
    <2>1. /\ Relation.kind = "part"
          /\ DOMAIN Relation.fields = {"relation_type", "source", "target", "expires_at", "payload"}
          /\ \A key \in {"relation_type", "source", "target"} : Relation.fields[key] = Required(Text)
          /\ Relation.fields["expires_at"] = Optional(Real)
      BY DEF Relation, Part
    <2>2. Relation.fields["payload"] = Filled(Payload("relation_type", "relation_types", "relation_type_id"))
      BY DEF Relation, Part
    <2>3. PayloadKind(Relation) = Payload("relation_type", "relation_types", "relation_type_id")
      BY <2>2 DEF PayloadKind, Filled
    <2>4. PayloadKind(Relation).kind = "payload" /\ PayloadKind(Relation).ref = "relation_type"
      BY <2>3 DEF Payload
    <2>5. SteadyField1(Required(Text)) /\ SteadyField1(Optional(Real))
      BY PlainFields1
    <2> QED BY <1>1, <2>1, <2>2, <2>3, <2>4, <2>5
  <1>2. CASE kind = InitialEvent
    <2>1. /\ InitialEvent.kind = "part"
          /\ DOMAIN InitialEvent.fields = {"event_type", "timestamp", "priority", "event_handle", "payload"}
          /\ InitialEvent.fields["event_type"] = Required(Text)
          /\ InitialEvent.fields["timestamp"] = Required(Real)
          /\ InitialEvent.fields["priority"] = Otherwise(Integer, "0")
          /\ InitialEvent.fields["event_handle"] = Filled(Text)
      BY DEF InitialEvent, Part
    <2>2. InitialEvent.fields["payload"] = Filled(Payload("event_type", "event_types", "event_type_id"))
      BY DEF InitialEvent, Part
    <2>3. PayloadKind(InitialEvent) = Payload("event_type", "event_types", "event_type_id")
      BY <2>2 DEF PayloadKind, Filled
    <2>4. PayloadKind(InitialEvent).kind = "payload" /\ PayloadKind(InitialEvent).ref = "event_type"
      BY <2>3 DEF Payload
    <2>5. /\ SteadyField1(Required(Text)) /\ SteadyField1(Required(Real)) /\ SteadyField1(Filled(Text))
          /\ SteadyField1(Otherwise(Integer, "0"))
      BY PlainFields1, DefaultsSteady1
    <2> QED BY <1>2, <2>1, <2>2, <2>3, <2>4, <2>5
  <1> QED BY <1>1, <1>2 DEF PayloadRows

LEMMA PayloadLeaf ==
  ASSUME NEW kind, kind.kind = "payload"
  PROVE  /\ \A node, around, layer :
              ReadLeaf(kind, node, around, layer) = ReadPayload(kind, node, around, layer)
         /\ \A v : WriteLeaf(kind, v) = Map([f \in DOMAIN v |-> WriteVariant(v[f])])
         /\ kind.kind \notin Nested \cup {"part", "scalar"}
  <1>1. kind.kind # "scalar" /\ kind.kind # "default" /\ kind.kind # "bound"
        /\ kind.kind # "components" /\ kind.kind \notin {"default", "bound"}
    OBVIOUS
  <1> QED BY <1>1, Zenon DEF ReadLeaf, WriteLeaf, Nested

LEMMA PayloadGiven ==
  ASSUME NEW kind, NEW node, NEW around, NEW layer, NEW v \in ReadPayload(kind, node, around, layer)
  PROVE  /\ TypedValues(v)
         /\ \A f \in DOMAIN v :
              ValueAgain(v[f], DeclaredType(layer, kind.list, kind.id, "payload_fields",
                                            TextOf(At(around, kind.ref)), f)) = v[f]
  <1> DEFINE Type(f) == DeclaredType(layer, kind.list, kind.id, "payload_fields",
                                     TextOf(At(around, kind.ref)), f)
             reads == [f \in DOMAIN node.at |-> ReadTyped(node.at[f], Type(f))]
  <1>1. v \in Whole(reads)
    BY DEF ReadPayload
  <1>2. v = [f \in DOMAIN reads |-> v[f]] /\ \A f \in DOMAIN reads : v[f] \in reads[f]
    <2> HIDE DEF reads
    <2> QED BY <1>1, WholeGiven
  <1>3. ASSUME NEW f \in DOMAIN v PROVE TypedValue(v[f]) /\ ValueAgain(v[f], Type(f)) = v[f]
    <2>1. v[f] \in ReadTyped(node.at[f], Type(f))
      BY <1>2
    <2> HIDE DEF Type
    <2>2. v[f] \in ParseTypedScalar(TextOf(node.at[f]), Type(f))
      BY <2>1 DEF ReadTyped
    <2> QED BY <2>2, ValueStays DEF TypedValue
  <1> QED BY <1>2, <1>3 DEF TypedValues

LEMMA PayloadRead ==
  ASSUME NEW kind, NEW v, TypedValues(v), NEW around, NEW layer, NEW u,
         u = [f \in DOMAIN v |->
                ValueAgain(v[f], DeclaredType(layer, kind.list, kind.id, "payload_fields",
                                              TextOf(At(around, kind.ref)), f))]
  PROVE  ReadPayload(kind, Map([f \in DOMAIN v |-> WriteVariant(v[f])]), around, layer) = {u}
  <1> DEFINE Type(f) == DeclaredType(layer, kind.list, kind.id, "payload_fields",
                                     TextOf(At(around, kind.ref)), f)
             node == Map([f \in DOMAIN v |-> WriteVariant(v[f])])
             reads == [f \in DOMAIN node.at |-> ReadTyped(node.at[f], Type(f))]
  <1>1. node.node = "map" /\ node.at = [f \in DOMAIN v |-> WriteVariant(v[f])]
    BY ComputedIs DEF Map
  <1>2. ASSUME NEW f \in DOMAIN v PROVE ReadTyped(node.at[f], Type(f)) = {u[f]}
    <2>1. ReadTyped(WriteVariant(v[f]), Type(f)) = {ValueAgain(v[f], Type(f))}
      <3> HIDE DEF Type
      <3> QED BY TypedWritten DEF TypedValues
    <2> QED BY <1>1, <2>1
  <1>3. ReadPayload(kind, node, around, layer) = Whole(reads)
    BY <1>1 DEF ReadPayload
  <1>4. DOMAIN reads = DOMAIN v /\ (\A f \in DOMAIN reads : reads[f] = {u[f]})
        /\ u = [f \in DOMAIN v |-> u[f]]
    BY <1>1, <1>2
  <1>5. Whole(reads) = {u}
    <2> HIDE DEF reads
    <2> QED BY <1>4, WholeOf
  <1> QED BY <1>3, <1>5

LEMMA PayloadRowGiven ==
  ASSUME NEW kind \in PayloadRows, NEW node, NEW around, NEW layer,
         NEW row \in Read2(kind, node, around, layer)
  PROVE  /\ PayloadMade(kind, row)
         /\ \A f \in DOMAIN row.payload :
              ValueAgain(row.payload[f], PayloadType(kind, row, layer, f)) = row.payload[f]
  <1> DEFINE ref == PayloadKind(kind).ref
  <1>1. kind.kind = "part"
    BY PayloadRowFields
  <1>2. /\ node.node = "map" /\ DOMAIN node.at \subseteq DOMAIN kind.fields
        /\ row = [key \in DOMAIN kind.fields |-> row[key]]
        /\ \A key \in DOMAIN kind.fields :
             row[key] \in IF key \in DOMAIN node.at
                          THEN Field1(kind.fields[key].kind, node.at[key], node, layer)
                          ELSE kind.fields[key].missing
    BY <1>1, PartGiven2
  <1>3. ASSUME NEW key \in DOMAIN kind.fields \ {"payload"} PROVE HeldField1(kind.fields[key], row[key])
    BY <1>2, PayloadRowFields, FieldHeld1
  <1>4. TextOf(At(node, ref)) = row[ref]
    <2>1. ref \in DOMAIN kind.fields /\ kind.fields[ref].kind = Text /\ kind.fields[ref].missing = {}
      BY PayloadRowFields, TableKinds
    <2> HIDE DEF ref
    <2>2. ref \in DOMAIN node.at /\ row[ref] \in Field1(Text, node.at[ref], node, layer)
      BY <1>2, <2>1
    <2>3. row[ref] \in Take("text", TextOf(node.at[ref]))
      BY <2>2, TableKinds, LeafField1, ScalarGiven
    <2> QED BY <1>2, <2>2, <2>3 DEF At, KeysOf, Take
  <1>5. /\ TypedValues(row.payload)
        /\ \A f \in DOMAIN row.payload :
              ValueAgain(row.payload[f], PayloadType(kind, row, layer, f)) = row.payload[f]
    <2>1. PayloadKind(kind).kind = "payload" /\ "payload" \in DOMAIN kind.fields
          /\ kind.fields["payload"].kind = PayloadKind(kind)
          /\ kind.fields["payload"].missing = {<<>>}
      <3>1. PayloadKind(kind).kind = "payload" /\ PayloadKind(kind).kind # "scalar"
        BY PayloadRowFields
      <3> QED BY <3>1, PayloadRowFields, TableKinds
    <2>2. CASE "payload" \in DOMAIN node.at
      <3>1. row.payload \in Field1(PayloadKind(kind), node.at["payload"], node, layer)
        BY <1>2, <2>1, <2>2
      <3>2. row.payload \in ReadPayload(PayloadKind(kind), node.at["payload"], node, layer)
        BY <2>1, <3>1, PayloadLeaf, LeafField1
      <3> QED BY <1>4, <3>2, PayloadGiven DEF PayloadType
    <2>3. CASE "payload" \notin DOMAIN node.at
      <3>1. row.payload = <<>>
        BY <1>2, <2>1, <2>3
      <3>2. ASSUME NEW v, v = <<>> PROVE v = [f \in DOMAIN v |-> v[f]] /\ DOMAIN v = {}
        BY <3>2
      <3> QED BY <3>1, <3>2 DEF TypedValues
    <2> QED BY <2>2, <2>3
  <1> QED BY <1>2, <1>3, <1>5 DEF PayloadMade

LEMMA PayloadRowRead ==
  ASSUME NEW kind \in PayloadRows, NEW row, PayloadMade(kind, row), NEW around, NEW layer, NEW u,
         u = [row EXCEPT !.payload =
                [f \in DOMAIN row.payload |-> ValueAgain(row.payload[f], PayloadType(kind, row, layer, f))]]
  PROVE  Read2(kind, Write2(kind, row), around, layer) = {u}
  <1> DEFINE node == Write2(kind, row)
             ref == PayloadKind(kind).ref
  <1>1. kind.kind = "part"
    BY PayloadRowFields
  <1>2. /\ node.node = "map"
        /\ DOMAIN node.at = {k \in DOMAIN kind.fields : IsWritten(kind.fields[k], row[k])}
        /\ \A key \in DOMAIN node.at : node.at[key] = FieldNode1(kind.fields[key].kind, row[key])
    BY <1>1, PartWritten2
  <1>3. TextOf(At(node, ref)) = row[ref]
    <2>1. ref \in DOMAIN kind.fields /\ kind.fields[ref].kind = Text /\ kind.fields[ref].written = "always"
      BY PayloadRowFields, TableKinds
    <2> HIDE DEF ref
    <2>2. ref \in DOMAIN node.at
      BY <1>2, <2>1, WrittenWhen
    <2>3. node.at[ref] = Scalar(row[ref])
      BY <1>2, <2>1, <2>2, TableKinds, LeafField1, ScalarLeaf DEF Printed
    <2> QED BY <1>2, <2>2, <2>3 DEF At, KeysOf, TextOf, Scalar
  <1>4. /\ u = [key \in DOMAIN kind.fields |-> u[key]]
        /\ u["payload"] = [f \in DOMAIN row.payload |->
                             ValueAgain(row.payload[f], PayloadType(kind, row, layer, f))]
        /\ \A key \in DOMAIN kind.fields \ {"payload"} : u[key] = row[key]
    BY PayloadRowFields DEF PayloadMade
  <1>5. ASSUME NEW key \in DOMAIN kind.fields
        PROVE  IF IsWritten(kind.fields[key], row[key])
               THEN Field1(kind.fields[key].kind, FieldNode1(kind.fields[key].kind, row[key]),
                           node, layer) = {u[key]}
               ELSE kind.fields[key].missing = {u[key]}
    <2>1. CASE key # "payload"
      <3>1. HeldField1(kind.fields[key], row[key]) /\ u[key] = row[key]
        BY <1>4, <2>1 DEF PayloadMade
      <3> QED BY <3>1 DEF HeldField1, AgainField1
    <2>2. CASE key = "payload"
      <3>1. PayloadKind(kind).kind = "payload" /\ PayloadKind(kind).kind # "scalar"
        BY PayloadRowFields
      <3>2. /\ kind.fields[key].kind = PayloadKind(kind) /\ kind.fields[key].missing = {<<>>}
            /\ kind.fields[key].written = "filled"
        BY <2>2, <3>1, PayloadRowFields, TableKinds
      <3>3. IsWritten(kind.fields[key], row[key]) <=> DOMAIN row.payload # {}
        BY <2>2, <3>1, <3>2, WrittenWhen
      <3>4. CASE DOMAIN row.payload # {}
        <4>1. Field1(PayloadKind(kind), FieldNode1(PayloadKind(kind), row.payload), node, layer) =
                ReadPayload(PayloadKind(kind), Map([f \in DOMAIN row.payload |-> WriteVariant(row.payload[f])]),
                            node, layer)
          BY <3>1, PayloadLeaf, LeafField1
        <4>2. u["payload"] =
                [f \in DOMAIN row.payload |->
                   ValueAgain(row.payload[f],
                     DeclaredType(layer, PayloadKind(kind).list, PayloadKind(kind).id, "payload_fields",
                                  TextOf(At(node, PayloadKind(kind).ref)), f))]
          BY <1>3, <1>4 DEF PayloadType
        <4>3. Field1(PayloadKind(kind), FieldNode1(PayloadKind(kind), row.payload), node, layer) = {u["payload"]}
          <5> DEFINE values == row.payload
                     again == u["payload"]
          <5>1. TypedValues(values)
            BY DEF PayloadMade
          <5>2. again = [f \in DOMAIN values |->
                   ValueAgain(values[f],
                     DeclaredType(layer, PayloadKind(kind).list, PayloadKind(kind).id, "payload_fields",
                                  TextOf(At(node, PayloadKind(kind).ref)), f))]
            BY <4>2
          <5>3. Field1(PayloadKind(kind), FieldNode1(PayloadKind(kind), values), node, layer) =
                  ReadPayload(PayloadKind(kind), Map([f \in DOMAIN values |-> WriteVariant(values[f])]),
                              node, layer)
            BY <4>1
          <5> HIDE DEF values, again, node
          <5>4. ASSUME NEW p, NEW w,
                       w = [f \in DOMAIN values |->
                              ValueAgain(values[f], DeclaredType(layer, p.list, p.id, "payload_fields",
                                                                 TextOf(At(node, p.ref)), f))]
                PROVE  ReadPayload(p, Map([f \in DOMAIN values |-> WriteVariant(values[f])]),
                                   node, layer) = {w}
            BY <5>1, <5>4, PayloadRead
          <5>5. Field1(PayloadKind(kind), FieldNode1(PayloadKind(kind), values), node, layer) = {again}
            BY <5>2, <5>3, <5>4
          <5> QED BY <5>5 DEF values, again, node
        <4> QED BY <2>2, <3>2, <3>3, <3>4, <4>3
      <3>5. CASE DOMAIN row.payload = {}
        <4>1. u["payload"] = <<>>
          BY <1>4, <3>5
        <4> QED BY <2>2, <3>2, <3>3, <3>5, <4>1
      <3> QED BY <3>4, <3>5
    <2> QED BY <2>1, <2>2
  <1>6. ASSUME NEW w, w = [key \in DOMAIN kind.fields |-> w[key]],
               \A key \in DOMAIN kind.fields :
                 IF IsWritten(kind.fields[key], row[key])
                 THEN Field1(kind.fields[key].kind, FieldNode1(kind.fields[key].kind, row[key]),
                             node, layer) = {w[key]}
                 ELSE kind.fields[key].missing = {w[key]}
        PROVE  Read2(kind, node, around, layer) = {w}
    BY <1>1, <1>6, PartOfFields2
  <1> QED BY <1>4, <1>5, <1>6

ComponentsMade(components) ==
  /\ components = [c \in DOMAIN components |-> components[c]]
  /\ \A c \in DOMAIN components : DOMAIN components[c] # {} /\ TypedValues(components[c])

EntityMade(row) ==
  /\ row = [key \in DOMAIN TypedEntity.fields |-> row[key]]
  /\ \A key \in DOMAIN TypedEntity.fields \ {"components"} : HeldField1(TypedEntity.fields[key], row[key])
  /\ ComponentsMade(row.components)

ComponentValueType(layer, c, f) ==
  DeclaredType(layer, "component_types", "component_type_id", "fields", c, f)

ComponentsNode(v) == Map([c \in DOMAIN v |-> Map([f \in DOMAIN v[c] |-> WriteVariant(v[c][f])])])

LEMMA ComponentsLeaf ==
  /\ Components.kind = "components"
  /\ Components.kind \notin Nested \cup {"part", "scalar"}
  /\ \A node, around, layer : ReadLeaf(Components, node, around, layer) = ReadComponents(node, layer)
  /\ \A v : WriteLeaf(Components, v) = ComponentsNode(v)
  <1>1. Components.kind = "components"
    BY DEF Components
  <1>2. /\ Components.kind # "scalar" /\ Components.kind # "default" /\ Components.kind # "bound"
        /\ Components.kind \notin {"default", "bound"}
        /\ Components.kind \notin Nested \cup {"part", "scalar"}
    BY <1>1 DEF Nested
  <1> QED BY <1>1, <1>2, Zenon DEF ReadLeaf, WriteLeaf, ComponentsNode

LEMMA ComponentsGiven ==
  ASSUME NEW node, NEW layer, NEW v \in ReadComponents(node, layer)
  PROVE  /\ ComponentsMade(v)
         /\ \A c \in DOMAIN v : \A f \in DOMAIN v[c] :
              ValueAgain(v[c][f], ComponentValueType(layer, c, f)) = v[c][f]
  <1> DEFINE Of1(c) == [f \in DOMAIN node.at[c].at |->
                          ReadTyped(node.at[c].at[f], ComponentValueType(layer, c, f))]
             full == {d \in DOMAIN node.at : DOMAIN node.at[d].at # {}}
             reads == [c \in full |-> Whole(Of1(c))]
  <1>1. v \in Whole(reads)
    BY DEF ReadComponents, ComponentValueType
  <1>2. v = [c \in DOMAIN reads |-> v[c]] /\ \A c \in DOMAIN reads : v[c] \in reads[c]
    <2> HIDE DEF reads
    <2> QED BY <1>1, WholeGiven
  <1>3. v = [c \in full |-> v[c]] /\ \A c \in full : v[c] \in Whole(Of1(c))
    BY <1>2
  <1>4. ASSUME NEW c \in full
        PROVE  /\ DOMAIN v[c] # {} /\ TypedValues(v[c])
               /\ \A f \in DOMAIN v[c] : ValueAgain(v[c][f], ComponentValueType(layer, c, f)) = v[c][f]
    <2>1. v[c] \in Whole(Of1(c))
      BY <1>3
    <2>2. v[c] = [f \in DOMAIN Of1(c) |-> v[c][f]] /\ \A f \in DOMAIN Of1(c) : v[c][f] \in Of1(c)[f]
      <3> DEFINE one == Of1(c)
                 w == v[c]
      <3>1. w \in Whole(one)
        BY <2>1
      <3> HIDE DEF one, w
      <3>2. w = [f \in DOMAIN one |-> w[f]] /\ \A f \in DOMAIN one : w[f] \in one[f]
        BY <3>1, WholeGiven
      <3> QED BY <3>2 DEF one, w
    <2>3. DOMAIN v[c] = DOMAIN node.at[c].at /\ v[c] = [f \in DOMAIN v[c] |-> v[c][f]]
      BY <2>2
    <2>4. ASSUME NEW f \in DOMAIN v[c]
          PROVE  TypedValue(v[c][f]) /\ ValueAgain(v[c][f], ComponentValueType(layer, c, f)) = v[c][f]
      <3>1. v[c][f] \in ReadTyped(node.at[c].at[f], ComponentValueType(layer, c, f))
        BY <2>2, <2>3
      <3>2. v[c][f] \in ParseTypedScalar(TextOf(node.at[c].at[f]), ComponentValueType(layer, c, f))
        BY <3>1 DEF ReadTyped
      <3> QED BY <3>2, ValueStays DEF TypedValue
    <2> QED BY <2>3, <2>4 DEF TypedValues
  <1>5. DOMAIN v = full /\ v = [c \in DOMAIN v |-> v[c]]
    BY <1>3
  <1> HIDE DEF full
  <1> QED BY <1>4, <1>5 DEF ComponentsMade

LEMMA ComponentsRead ==
  ASSUME NEW v, ComponentsMade(v), NEW layer, NEW u,
         u = [c \in DOMAIN v |-> [f \in DOMAIN v[c] |-> ValueAgain(v[c][f], ComponentValueType(layer, c, f))]]
  PROVE  ReadComponents(ComponentsNode(v), layer) = {u}
  <1> DEFINE node == ComponentsNode(v)
             Of1(c) == [f \in DOMAIN node.at[c].at |->
                          ReadTyped(node.at[c].at[f], ComponentValueType(layer, c, f))]
             full == {d \in DOMAIN node.at : DOMAIN node.at[d].at # {}}
             reads == [c \in full |-> Whole(Of1(c))]
  <1>1. node.node = "map" /\ DOMAIN node.at = DOMAIN v
        /\ \A c \in DOMAIN v : /\ node.at[c].node = "map"
                               /\ node.at[c].at = [f \in DOMAIN v[c] |-> WriteVariant(v[c][f])]
    BY ComputedIs DEF Map, ComponentsNode
  <1>2. full = DOMAIN v
    BY <1>1 DEF ComponentsMade
  <1>3. ReadComponents(node, layer) = Whole(reads)
    <2>1. ~(node.node # "map" \/ (\E c \in DOMAIN node.at : node.at[c].node # "map"))
      BY <1>1
    <2> QED BY <2>1 DEF ReadComponents, ComponentValueType
  <1>4. ASSUME NEW c \in DOMAIN v PROVE Whole(Of1(c)) = {u[c]}
    <2>1. /\ DOMAIN Of1(c) = DOMAIN v[c]
          /\ \A f \in DOMAIN v[c] : Of1(c)[f] = ReadTyped(WriteVariant(v[c][f]), ComponentValueType(layer, c, f))
      BY <1>1
    <2>2. \A f \in DOMAIN v[c] : Of1(c)[f] = {ValueAgain(v[c][f], ComponentValueType(layer, c, f))}
      BY <2>1, TypedWritten DEF ComponentsMade, TypedValues
    <2>3. /\ u[c] = [f \in DOMAIN v[c] |-> u[c][f]]
          /\ \A f \in DOMAIN v[c] : Of1(c)[f] = {u[c][f]}
      BY <2>2
    <2> DEFINE one == Of1(c)
               w == u[c]
    <2>4. w = [f \in DOMAIN one |-> w[f]] /\ \A f \in DOMAIN one : one[f] = {w[f]}
      BY <2>1, <2>3
    <2> HIDE DEF one, w
    <2>5. Whole(one) = {w}
      BY <2>4, WholeOf
    <2> QED BY <2>5 DEF one, w
  <1>5. DOMAIN reads = DOMAIN v /\ u = [c \in DOMAIN v |-> u[c]]
        /\ \A c \in DOMAIN v : reads[c] = {u[c]}
    <2>1. u = [c \in DOMAIN v |-> u[c]]
      OBVIOUS
    <2> HIDE DEF Of1, full
    <2> QED BY <1>2, <1>4, <2>1
  <1>6. Whole(reads) = {u}
    <2> HIDE DEF reads
    <2> QED BY <1>5, WholeOf
  <1> QED BY <1>3, <1>6

LEMMA EntityFields ==
  /\ TypedEntity.kind = "part"
  /\ DOMAIN TypedEntity.fields = {"entity_id", "entity_type", "components"}
  /\ TypedEntity.fields["components"] = Listed(Components)
  /\ \A key \in {"entity_id", "entity_type"} :
       TypedEntity.fields[key] = Required(Text) /\ SteadyField1(TypedEntity.fields[key])
  <1>1. /\ TypedEntity.kind = "part"
        /\ DOMAIN TypedEntity.fields = {"entity_id", "entity_type", "components"}
        /\ TypedEntity.fields["components"] = Listed(Components)
        /\ \A key \in {"entity_id", "entity_type"} : TypedEntity.fields[key] = Required(Text)
    BY DEF TypedEntity, Part
  <1> QED BY <1>1, PlainFields1

LEMMA EntityGiven ==
  ASSUME NEW node, NEW around, NEW layer, NEW row \in Read2(TypedEntity, node, around, layer)
  PROVE  /\ EntityMade(row)
         /\ \A c \in DOMAIN row.components : \A f \in DOMAIN row.components[c] :
              ValueAgain(row.components[c][f], ComponentValueType(layer, c, f)) = row.components[c][f]
  <1>1. /\ node.node = "map" /\ DOMAIN node.at \subseteq DOMAIN TypedEntity.fields
        /\ row = [key \in DOMAIN TypedEntity.fields |-> row[key]]
        /\ \A key \in DOMAIN TypedEntity.fields :
             row[key] \in IF key \in DOMAIN node.at
                          THEN Field1(TypedEntity.fields[key].kind, node.at[key], node, layer)
                          ELSE TypedEntity.fields[key].missing
    <2>1. TypedEntity.kind = "part"
      BY EntityFields
    <2> QED BY <2>1, PartGiven2
  <1>2. ASSUME NEW key \in DOMAIN TypedEntity.fields \ {"components"}
        PROVE  HeldField1(TypedEntity.fields[key], row[key])
    BY <1>1, EntityFields, FieldHeld1
  <1>3. /\ ComponentsMade(row.components)
        /\ \A c \in DOMAIN row.components : \A f \in DOMAIN row.components[c] :
             ValueAgain(row.components[c][f], ComponentValueType(layer, c, f)) = row.components[c][f]
    <2>1. "components" \in DOMAIN TypedEntity.fields /\ TypedEntity.fields["components"].kind = Components
          /\ TypedEntity.fields["components"].missing = {<<>>}
      <3>1. Components.kind # "scalar"
        BY ComponentsLeaf
      <3> QED BY <3>1, EntityFields, TableKinds
    <2>2. CASE "components" \in DOMAIN node.at
      <3>1. row.components \in Field1(Components, node.at["components"], node, layer)
        BY <1>1, <2>1, <2>2
      <3>2. row.components \in ReadComponents(node.at["components"], layer)
        BY <3>1, ComponentsLeaf, LeafField1
      <3> QED BY <3>2, ComponentsGiven
    <2>3. CASE "components" \notin DOMAIN node.at
      <3>1. row.components = <<>>
        BY <1>1, <2>1, <2>3
      <3>2. ASSUME NEW v, v = <<>> PROVE v = [f \in DOMAIN v |-> v[f]] /\ DOMAIN v = {}
        BY <3>2
      <3> QED BY <3>1, <3>2 DEF ComponentsMade
    <2> QED BY <2>2, <2>3
  <1> QED BY <1>1, <1>2, <1>3 DEF EntityMade

ComponentsAgain(components, layer) ==
  [c \in DOMAIN components |->
     [f \in DOMAIN components[c] |-> ValueAgain(components[c][f], ComponentValueType(layer, c, f))]]

LEMMA EntityRead ==
  ASSUME NEW row, EntityMade(row), NEW around, NEW layer, NEW u,
         u = [row EXCEPT !.components = ComponentsAgain(row.components, layer)]
  PROVE  Read2(TypedEntity, Write2(TypedEntity, row), around, layer) = {u}
  <1> SUFFICES ASSUME NEW kind, kind = TypedEntity
               PROVE  Read2(kind, Write2(kind, row), around, layer) = {u}
    OBVIOUS
  <1> DEFINE node == Write2(kind, row)
  <1>1. /\ u = [key \in DOMAIN kind.fields |-> u[key]]
        /\ u["components"] = ComponentsAgain(row.components, layer)
        /\ \A key \in DOMAIN kind.fields \ {"components"} : u[key] = row[key]
    BY EntityFields DEF EntityMade
  <1>2. ASSUME NEW key \in DOMAIN kind.fields
        PROVE  IF IsWritten(kind.fields[key], row[key])
               THEN Field1(kind.fields[key].kind, FieldNode1(kind.fields[key].kind, row[key]),
                           node, layer) = {u[key]}
               ELSE kind.fields[key].missing = {u[key]}
    <2>1. CASE key # "components"
      <3>1. HeldField1(kind.fields[key], row[key]) /\ u[key] = row[key]
        BY <1>1, <2>1 DEF EntityMade
      <3> QED BY <3>1 DEF HeldField1, AgainField1
    <2>2. CASE key = "components"
      <3>1. kind.fields[key].kind = Components /\ IsWritten(kind.fields[key], row[key])
        <4>1. kind.fields[key] = Listed(Components)
          BY <2>2, EntityFields
        <4>2. Listed(Components).kind = Components /\ Listed(Components).written = "always"
          BY TableKinds
        <4> QED BY <4>1, <4>2, WrittenWhen
      <3>2. Field1(Components, FieldNode1(Components, row.components), node, layer) =
              ReadComponents(ComponentsNode(row.components), layer)
        <4>1. Components.kind \notin Nested \cup {"part"}
          BY ComponentsLeaf
        <4> QED BY <4>1, ComponentsLeaf, LeafField1
      <3>3. ASSUME NEW v, ComponentsMade(v), NEW w, w = ComponentsAgain(v, layer)
            PROVE  ReadComponents(ComponentsNode(v), layer) = {w}
        BY <3>3, ComponentsRead DEF ComponentsAgain
      <3>4. Field1(Components, FieldNode1(Components, row.components), node, layer) = {u["components"]}
        BY <1>1, <3>2, <3>3 DEF EntityMade
      <3> QED BY <2>2, <3>1, <3>4
    <2> QED BY <2>1, <2>2
  <1>3. ASSUME NEW w, w = [key \in DOMAIN kind.fields |-> w[key]],
               \A key \in DOMAIN kind.fields :
                 IF IsWritten(kind.fields[key], row[key])
                 THEN Field1(kind.fields[key].kind, FieldNode1(kind.fields[key].kind, row[key]),
                             node, layer) = {w[key]}
                 ELSE kind.fields[key].missing = {w[key]}
        PROVE  Read2(kind, node, around, layer) = {w}
    <2>1. kind.kind = "part"
      BY EntityFields
    <2> QED BY <1>3, <2>1, PartOfFields2
  <1> QED BY <1>1, <1>2, <1>3

(***************************************************************************)
(* Lists of rows.                                                          *)
(***************************************************************************)
LEMMA ListFieldGiven2 ==
  ASSUME NEW kind, NEW node, node.node = "map", ListsAreSequences(node), NEW layer, NEW key, NEW v,
         v \in IF key \in DOMAIN node.at THEN Field2(ListOf(kind), node.at[key], node, layer)
              ELSE Listed(ListOf(kind)).missing
  PROVE  /\ IsList(v) /\ DOMAIN v = DOMAIN ItemsOf(At(node, key))
         /\ \A i \in DOMAIN v : v[i] \in Read2(kind, ItemsOf(At(node, key))[i], Null, layer)
  <1> DEFINE items == ItemsOf(At(node, key))
  <1>1. IsList(items)
    BY ListReads
  <1>2. ListOf(kind).kind = "list" /\ ListOf(kind).of = kind /\ Listed(ListOf(kind)).missing = {<<>>}
    <2>1. ListOf(kind).kind = "list" /\ ListOf(kind).of = kind
      BY TableKinds
    <2> QED BY <2>1, TableKinds
  <1>3. CASE key \in DOMAIN node.at
    <2>1. At(node, key) = node.at[key] /\ v \in Field2(ListOf(kind), node.at[key], node, layer)
      BY <1>3 DEF At, KeysOf
    <2>2. /\ v = [i \in DOMAIN items |-> v[i]]
          /\ \A i \in DOMAIN items : v[i] \in Read2(kind, items[i], Null, layer)
      BY <1>2, <2>1, ListGiven2
    <2> HIDE DEF items
    <2>3. DOMAIN v = DOMAIN items /\ v = [i \in DOMAIN v |-> v[i]]
      BY <2>2
    <2>4. IsList(v)
      BY <1>1, <2>3, ListLike
    <2> QED BY <2>2, <2>3, <2>4 DEF items
  <1>4. CASE key \notin DOMAIN node.at
    <2>1. v = <<>>
      BY <1>2, <1>4
    <2>2. items = <<>>
      BY <1>4 DEF At, KeysOf, ItemsOf, Missing
    <2>3. DOMAIN <<>> = {}
      OBVIOUS
    <2> QED BY <2>1, <2>2, <2>3, EmptyList
  <1> QED BY <1>3, <1>4

LEMMA ListFieldAgain2 ==
  ASSUME NEW kind, NEW v, IsList(v), \A i \in DOMAIN v : Again2(kind, v[i])
  PROVE  HeldField2(Listed(ListOf(kind)), v)
  <1>1. /\ ListOf(kind).kind = "list" /\ ListOf(kind).of = kind
        /\ Listed(ListOf(kind)).kind = ListOf(kind) /\ Listed(ListOf(kind)).written = "always"
    BY TableKinds
  <1>2. v = [i \in DOMAIN v |-> v[i]]
    BY ListIs
  <1>3. AgainField2(ListOf(kind), v)
    BY <1>1, <1>2, ListAgain2
  <1> QED BY <1>1, <1>3, WrittenWhen DEF HeldField2

LEMMA ListFieldGiven3 ==
  ASSUME NEW kind, NEW node, node.node = "map", ListsAreSequences(node), NEW layer, NEW key, NEW v,
         v \in IF key \in DOMAIN node.at THEN Field3(ListOf(kind), node.at[key], node, layer)
              ELSE Listed(ListOf(kind)).missing
  PROVE  /\ IsList(v) /\ DOMAIN v = DOMAIN ItemsOf(At(node, key))
         /\ \A i \in DOMAIN v : v[i] \in Read3(kind, ItemsOf(At(node, key))[i], Null, layer)
  <1> DEFINE items == ItemsOf(At(node, key))
  <1>1. IsList(items)
    BY ListReads
  <1>2. ListOf(kind).kind = "list" /\ ListOf(kind).of = kind /\ Listed(ListOf(kind)).missing = {<<>>}
    <2>1. ListOf(kind).kind = "list" /\ ListOf(kind).of = kind
      BY TableKinds
    <2> QED BY <2>1, TableKinds
  <1>3. CASE key \in DOMAIN node.at
    <2>1. At(node, key) = node.at[key] /\ v \in Field3(ListOf(kind), node.at[key], node, layer)
      BY <1>3 DEF At, KeysOf
    <2>2. /\ v = [i \in DOMAIN items |-> v[i]]
          /\ \A i \in DOMAIN items : v[i] \in Read3(kind, items[i], Null, layer)
      BY <1>2, <2>1, ListGiven3
    <2> HIDE DEF items
    <2>3. DOMAIN v = DOMAIN items /\ v = [i \in DOMAIN v |-> v[i]]
      BY <2>2
    <2>4. IsList(v)
      BY <1>1, <2>3, ListLike
    <2> QED BY <2>2, <2>3, <2>4 DEF items
  <1>4. CASE key \notin DOMAIN node.at
    <2>1. v = <<>>
      BY <1>2, <1>4
    <2>2. items = <<>>
      BY <1>4 DEF At, KeysOf, ItemsOf, Missing
    <2>3. DOMAIN <<>> = {}
      OBVIOUS
    <2> QED BY <2>1, <2>2, <2>3, EmptyList
  <1> QED BY <1>3, <1>4

LEMMA ListFieldAgain3 ==
  ASSUME NEW kind, NEW v, IsList(v), \A i \in DOMAIN v : Again3(kind, v[i])
  PROVE  HeldField3(Listed(ListOf(kind)), v)
  <1>1. /\ ListOf(kind).kind = "list" /\ ListOf(kind).of = kind
        /\ Listed(ListOf(kind)).kind = ListOf(kind) /\ Listed(ListOf(kind)).written = "always"
    BY TableKinds
  <1>2. v = [i \in DOMAIN v |-> v[i]]
    BY ListIs
  <1>3. AgainField3(ListOf(kind), v)
    BY <1>1, <1>2, ListAgain3
  <1> QED BY <1>1, <1>3, WrittenWhen DEF HeldField3

(***************************************************************************)
(* The agent layer.                                                        *)
(***************************************************************************)
AgentMade(l) ==
  /\ l = [key \in DOMAIN AgentLayer.fields |-> l[key]]
  /\ HeldField2(AgentLayer.fields["world"], l["world"])
  /\ \A key \in DOMAIN AgentIds :
       /\ IsList(l[key])
       /\ \A i \in DOMAIN l[key] : Again2(AgentLayer.fields[key].kind.of, l[key][i])

LEMMA AgentFields ==
  /\ AgentLayer.kind = "part"
  /\ DOMAIN AgentLayer.fields = {"world"} \cup DOMAIN AgentIds
  /\ "world" \notin DOMAIN AgentIds
  /\ SteadyField2(AgentLayer.fields["world"])
  /\ \A key \in DOMAIN AgentIds :
       /\ AgentLayer.fields[key] = Listed(ListOf(AgentLayer.fields[key].kind.of))
       /\ Steady2(AgentLayer.fields[key].kind.of)
  <1>1. DOMAIN AgentIds = {"locations", "items", "shops", "agents", "policies"}
    BY DEF AgentIds
  <1>2. /\ AgentLayer.kind = "part"
        /\ DOMAIN AgentLayer.fields = {"world", "locations", "items", "shops", "agents", "policies"}
    BY DEF AgentLayer, Part
  <1>3. AgentLayer.fields["world"] = Required(AgentWorld)
    BY DEF AgentLayer, Part
  <1>4. SteadyField2(AgentLayer.fields["world"])
    BY <1>3, Level2Structs, PartFields2
  <1>5. /\ AgentLayer.fields["locations"] = Listed(ListOf(Location))
        /\ AgentLayer.fields["items"] = Listed(ListOf(Good))
        /\ AgentLayer.fields["shops"] = Listed(ListOf(Shop))
        /\ AgentLayer.fields["agents"] = Listed(ListOf(Agent))
        /\ AgentLayer.fields["policies"] = Listed(ListOf(Policy))
    BY DEF AgentLayer, Part
  <1>6. \A kind : Listed(ListOf(kind)).kind.of = kind
    BY DEF Listed, ListOf
  <1>7. \A kind \in {Location, Good, Shop, Agent, Policy} : Steady2(kind)
    BY Level2Structs
  <1> QED BY <1>1, <1>2, <1>4, <1>5, <1>6, <1>7

LEMMA AgentGiven ==
  ASSUME NEW node, ListsAreSequences(node), NEW around, NEW layer,
         NEW l \in Read3(AgentLayer, node, around, layer)
  PROVE  AgentMade(l)
  <1>1. /\ node.node = "map" /\ DOMAIN node.at \subseteq DOMAIN AgentLayer.fields
        /\ l = [key \in DOMAIN AgentLayer.fields |-> l[key]]
        /\ \A key \in DOMAIN AgentLayer.fields :
             l[key] \in IF key \in DOMAIN node.at
                        THEN Field2(AgentLayer.fields[key].kind, node.at[key], node, layer)
                        ELSE AgentLayer.fields[key].missing
    <2>1. AgentLayer.kind = "part"
      BY AgentFields
    <2> QED BY <2>1, PartGiven3
  <1>2. HeldField2(AgentLayer.fields["world"], l["world"])
    BY <1>1, AgentFields, FieldHeld2
  <1>3. ASSUME NEW key \in DOMAIN AgentIds
        PROVE  /\ IsList(l[key])
               /\ \A i \in DOMAIN l[key] : Again2(AgentLayer.fields[key].kind.of, l[key][i])
    <2> DEFINE kind == AgentLayer.fields[key].kind.of
               v == l[key]
    <2>1. AgentLayer.fields[key] = Listed(ListOf(kind)) /\ Steady2(kind) /\ key \in DOMAIN AgentLayer.fields
      BY AgentFields
    <2>2. v \in IF key \in DOMAIN node.at THEN Field2(AgentLayer.fields[key].kind, node.at[key], node, layer)
                ELSE AgentLayer.fields[key].missing
      BY <1>1, <2>1
    <2> HIDE DEF kind, v
    <2>3. v \in IF key \in DOMAIN node.at THEN Field2(ListOf(kind), node.at[key], node, layer)
                ELSE Listed(ListOf(kind)).missing
      BY <2>1, <2>2, TableKinds
    <2>4. IsList(v) /\ \A i \in DOMAIN v : v[i] \in Read2(kind, ItemsOf(At(node, key))[i], Null, layer)
      BY <1>1, <2>3, ListFieldGiven2
    <2>5. \A i \in DOMAIN v : Again2(kind, v[i])
      BY <2>1, <2>4, PartKeeps2
    <2> QED BY <2>4, <2>5 DEF kind, v
  <1> QED BY <1>1, <1>2, <1>3 DEF AgentMade

LEMMA AgentRead ==
  ASSUME NEW l, AgentMade(l)
  PROVE  Again3(AgentLayer, l)
  <1>1. ASSUME NEW key \in DOMAIN AgentLayer.fields PROVE HeldField2(AgentLayer.fields[key], l[key])
    <2>1. CASE key = "world"
      BY <2>1 DEF AgentMade
    <2>2. CASE key \in DOMAIN AgentIds
      <3>1. HeldField2(Listed(ListOf(AgentLayer.fields[key].kind.of)), l[key])
        BY <2>2, ListFieldAgain2 DEF AgentMade
      <3> QED BY <2>2, <3>1, AgentFields
    <2> QED BY <2>1, <2>2, AgentFields
  <1>2. HeldPart2(AgentLayer, l)
    BY <1>1, AgentFields DEF HeldPart2, AgentMade
  <1> QED BY <1>2, PartAgain3

(***************************************************************************)
(* The typed layer.                                                        *)
(***************************************************************************)
RowKind(key) == TypedLayer.fields[key].kind.of

TypedRowMade(key, row) ==
  IF key = "entities" THEN EntityMade(row)
  ELSE IF key \in {"relations", "initial_events"} THEN PayloadMade(RowKind(key), row)
  ELSE Again2(RowKind(key), row)

TypedMade(l) ==
  /\ l = [key \in DOMAIN TypedLayer.fields |-> l[key]]
  /\ HeldField2(TypedLayer.fields["world"], l["world"])
  /\ \A key \in DOMAIN TypedIds :
       IsList(l[key]) /\ \A i \in DOMAIN l[key] : TypedRowMade(key, l[key][i])

LEMMA TypedFields ==
  /\ TypedLayer.kind = "part"
  /\ DOMAIN TypedLayer.fields = {"world"} \cup DOMAIN TypedIds
  /\ "world" \notin DOMAIN TypedIds
  /\ {"entities", "relations", "initial_events"} \cup DOMAIN Declares \subseteq DOMAIN TypedIds
  /\ SteadyField2(TypedLayer.fields["world"])
  /\ \A key \in DOMAIN TypedIds : TypedLayer.fields[key] = Listed(ListOf(RowKind(key)))
  /\ \A key \in DOMAIN TypedIds \ {"entities", "relations", "initial_events"} : Steady2(RowKind(key))
  /\ RowKind("entities") = TypedEntity /\ RowKind("relations") = Relation
  /\ RowKind("initial_events") = InitialEvent
  /\ \A list \in DOMAIN Declares : RowKind(list) = Declares[list]
  <1>1. /\ DOMAIN TypedIds = {"component_types", "entity_types", "entities", "relation_types",
                              "relations", "event_types", "initial_events", "systems"}
        /\ DOMAIN Declares = {"component_types", "relation_types", "event_types"}
    BY DEF TypedIds, Declares
  <1>2. /\ TypedLayer.kind = "part"
        /\ DOMAIN TypedLayer.fields = {"world", "component_types", "entity_types", "entities",
             "relation_types", "relations", "event_types", "initial_events", "systems"}
    BY DEF TypedLayer, Part
  <1>3. TypedLayer.fields["world"] = Required(TypedWorld)
    BY DEF TypedLayer, Part
  <1>4. SteadyField2(TypedLayer.fields["world"])
    BY <1>3, Level2Structs, PartFields2
  <1>5. /\ TypedLayer.fields["component_types"] = Listed(ListOf(ComponentType))
        /\ TypedLayer.fields["entity_types"] = Listed(ListOf(EntityType))
        /\ TypedLayer.fields["entities"] = Listed(ListOf(TypedEntity))
        /\ TypedLayer.fields["relation_types"] = Listed(ListOf(RelationType))
    BY DEF TypedLayer, Part
  <1>6. /\ TypedLayer.fields["relations"] = Listed(ListOf(Relation))
        /\ TypedLayer.fields["event_types"] = Listed(ListOf(EventType))
        /\ TypedLayer.fields["initial_events"] = Listed(ListOf(InitialEvent))
        /\ TypedLayer.fields["systems"] = Listed(ListOf(TypedSystem))
    BY DEF TypedLayer, Part
  <1>7. \A kind : Listed(ListOf(kind)).kind.of = kind
    BY DEF Listed, ListOf
  <1>8. /\ RowKind("component_types") = ComponentType /\ RowKind("entity_types") = EntityType
        /\ RowKind("entities") = TypedEntity /\ RowKind("relation_types") = RelationType
        /\ RowKind("relations") = Relation /\ RowKind("event_types") = EventType
        /\ RowKind("initial_events") = InitialEvent /\ RowKind("systems") = TypedSystem
    BY <1>5, <1>6, <1>7 DEF RowKind
  <1>9. \A kind \in {ComponentType, EntityType, RelationType, EventType, TypedSystem} : Steady2(kind)
    BY Level2Structs
  <1>10. /\ Declares["component_types"] = ComponentType /\ Declares["relation_types"] = RelationType
         /\ Declares["event_types"] = EventType
    BY DEF Declares
  <1> QED BY <1>1, <1>2, <1>4, <1>5, <1>6, <1>8, <1>9, <1>10

TypesAgree(node, l) ==
  \A list \in DOMAIN Declares : \A name, f :
    DeclaredType(node, list, TypedIds[list], DeclaredFields[list], name, f) =
      DeclaredIn(l[list], TypedIds[list], DeclaredFields[list], name, f)

LEMMA TypesAgreeOn ==
  ASSUME NEW node, NEW l, TypesAgree(node, l)
  PROVE  /\ \A c, f : ComponentValueType(node, c, f) =
                        DeclaredIn(l.component_types, "component_type_id", "fields", c, f)
         /\ \A row, f : PayloadType(Relation, row, node, f) =
                          DeclaredIn(l.relation_types, "relation_type_id", "payload_fields",
                                     row.relation_type, f)
         /\ \A row, f : PayloadType(InitialEvent, row, node, f) =
                          DeclaredIn(l.event_types, "event_type_id", "payload_fields",
                                     row.event_type, f)
  <1>1. DOMAIN Declares = {"component_types", "relation_types", "event_types"}
    BY DEF Declares
  <1>2. /\ TypedIds["component_types"] = "component_type_id" /\ DeclaredFields["component_types"] = "fields"
        /\ TypedIds["relation_types"] = "relation_type_id" /\ DeclaredFields["relation_types"] = "payload_fields"
        /\ TypedIds["event_types"] = "event_type_id" /\ DeclaredFields["event_types"] = "payload_fields"
    BY DEF TypedIds, DeclaredFields
  <1>3. /\ PayloadKind(Relation) = Payload("relation_type", "relation_types", "relation_type_id")
        /\ PayloadKind(InitialEvent) = Payload("event_type", "event_types", "event_type_id")
    BY DEF PayloadKind, Filled, Relation, InitialEvent, Part
  <1>4. /\ PayloadKind(Relation).ref = "relation_type" /\ PayloadKind(Relation).list = "relation_types"
        /\ PayloadKind(Relation).id = "relation_type_id"
        /\ PayloadKind(InitialEvent).ref = "event_type" /\ PayloadKind(InitialEvent).list = "event_types"
        /\ PayloadKind(InitialEvent).id = "event_type_id"
    BY <1>3 DEF Payload
  <1> QED BY <1>1, <1>2, <1>4 DEF TypesAgree, ComponentValueType, PayloadType

(***************************************************************************)
(* A layer that is written or read declares the types that its node does.  *)
(***************************************************************************)
LEMMA ListWritten2 ==
  ASSUME NEW kind, kind.kind = "list", NEW v
  PROVE  ItemsOf(FieldNode2(kind, v)) = [i \in DOMAIN v |-> Write2(kind.of, v[i])]
  <1>1. FieldNode2(kind, v) = Sequence([i \in DOMAIN v |-> Write2(kind.of, v[i])])
    BY DEF FieldNode2, WriteField
  <1> QED BY <1>1, ComputedIs DEF Sequence, ItemsOf

LEMMA TypesWritten ==
  ASSUME NEW l, TypedMade(l)
  PROVE  TypesAgree(Write3(TypedLayer, l), l)
  <1> DEFINE node == Write3(TypedLayer, l)
  <1>1. ASSUME NEW list \in DOMAIN Declares, NEW name, NEW f
        PROVE  DeclaredType(node, list, TypedIds[list], DeclaredFields[list], name, f) =
                 DeclaredIn(l[list], TypedIds[list], DeclaredFields[list], name, f)
    <2> DEFINE kind == Declares[list]
               rows == l[list]
    <2>1. /\ list \in DOMAIN TypedLayer.fields /\ list \in DOMAIN TypedIds
          /\ TypedLayer.fields[list] = Listed(ListOf(kind))
      BY TypedFields, DeclaringKinds
    <2>2. IsList(rows)
      BY <2>1 DEF TypedMade
    <2>3. IsWritten(TypedLayer.fields[list], l[list])
      <3>1. TypedLayer.fields[list].written = "always"
        BY <2>1, TableKinds
      <3> QED BY <3>1, WrittenWhen
    <2>4. /\ node.node = "map" /\ list \in DOMAIN node.at
          /\ node.at[list] = FieldNode2(ListOf(kind), l[list])
      <3>1. TypedLayer.kind = "part"
        BY TypedFields
      <3>2. /\ node.node = "map" /\ list \in DOMAIN node.at
            /\ node.at[list] = FieldNode2(TypedLayer.fields[list].kind, l[list])
        BY <2>1, <2>3, <3>1, PartWritten3
      <3>3. TypedLayer.fields[list].kind = ListOf(kind)
        BY <2>1, TableKinds
      <3> QED BY <3>2, <3>3
    <2>5. At(node, list) = FieldNode2(ListOf(kind), rows)
      BY <2>4 DEF At, KeysOf
    <2>6. ItemsOf(At(node, list)) = [i \in DOMAIN rows |-> Write2(kind, rows[i])]
      <3>1. ListOf(kind).kind = "list" /\ ListOf(kind).of = kind
        BY TableKinds
      <3> HIDE DEF node, kind, rows
      <3> QED BY <2>5, <3>1, ListWritten2
    <2>7. \A i \in DOMAIN rows :
            DeclaresLike(ItemsOf(At(node, list))[i], rows[i], TypedIds[list], DeclaredFields[list], f)
      BY <2>6, RowWrittenDeclares
    <2>8. DOMAIN rows = DOMAIN ItemsOf(At(node, list))
      BY <2>6
    <2> HIDE DEF node, kind, rows
    <2>9. DeclaredType(node, list, TypedIds[list], DeclaredFields[list], name, f) =
            DeclaredIn(rows, TypedIds[list], DeclaredFields[list], name, f)
      BY <2>2, <2>7, <2>8, DeclaredSame
    <2> QED BY <2>9 DEF rows
  <1> QED BY <1>1 DEF TypesAgree

\* The lists of a typed layer that is read.
LEMMA TypedListGiven ==
  ASSUME NEW node, ListsAreSequences(node), NEW around, NEW layer,
         NEW l \in Read3(TypedLayer, node, around, layer), NEW key \in DOMAIN TypedIds
  PROVE  /\ IsList(l[key]) /\ DOMAIN l[key] = DOMAIN ItemsOf(At(node, key))
         /\ \A i \in DOMAIN l[key] :
              l[key][i] \in Read2(RowKind(key), ItemsOf(At(node, key))[i], Null, layer)
  <1> DEFINE kind == RowKind(key)
             v == l[key]
  <1>1. /\ node.node = "map"
        /\ v \in IF key \in DOMAIN node.at THEN Field2(TypedLayer.fields[key].kind, node.at[key], node, layer)
                 ELSE TypedLayer.fields[key].missing
    <2>1. TypedLayer.kind = "part" /\ key \in DOMAIN TypedLayer.fields
      BY TypedFields
    <2> QED BY <2>1, PartGiven3
  <1>2. TypedLayer.fields[key] = Listed(ListOf(kind))
    BY TypedFields
  <1> HIDE DEF kind, v
  <1>3. v \in IF key \in DOMAIN node.at THEN Field2(ListOf(kind), node.at[key], node, layer)
              ELSE Listed(ListOf(kind)).missing
    BY <1>1, <1>2, TableKinds
  <1>4. /\ IsList(v) /\ DOMAIN v = DOMAIN ItemsOf(At(node, key))
        /\ \A i \in DOMAIN v : v[i] \in Read2(kind, ItemsOf(At(node, key))[i], Null, layer)
    BY <1>1, <1>3, ListFieldGiven2
  <1> QED BY <1>4 DEF kind, v

LEMMA TypesRead ==
  ASSUME NEW node, ListsAreSequences(node), NEW around, NEW layer,
         NEW l \in Read3(TypedLayer, node, around, layer)
  PROVE  TypesAgree(node, l)
  <1>1. ASSUME NEW list \in DOMAIN Declares, NEW name, NEW f
        PROVE  DeclaredType(node, list, TypedIds[list], DeclaredFields[list], name, f) =
                 DeclaredIn(l[list], TypedIds[list], DeclaredFields[list], name, f)
    <2> DEFINE kind == Declares[list]
               rows == l[list]
    <2>1. list \in DOMAIN TypedIds /\ RowKind(list) = kind
      BY TypedFields
    <2>2. /\ IsList(rows) /\ DOMAIN rows = DOMAIN ItemsOf(At(node, list))
          /\ \A i \in DOMAIN rows : rows[i] \in Read2(kind, ItemsOf(At(node, list))[i], Null, layer)
      <3>1. /\ IsList(l[list]) /\ DOMAIN l[list] = DOMAIN ItemsOf(At(node, list))
            /\ \A i \in DOMAIN l[list] :
                 l[list][i] \in Read2(RowKind(list), ItemsOf(At(node, list))[i], Null, layer)
        BY <2>1, TypedListGiven
      <3> QED BY <2>1, <3>1
    <2>3. \A i \in DOMAIN rows :
            DeclaresLike(ItemsOf(At(node, list))[i], rows[i], TypedIds[list], DeclaredFields[list], f)
      BY <2>2, RowReadDeclares
    <2> HIDE DEF kind, rows
    <2>4. DeclaredType(node, list, TypedIds[list], DeclaredFields[list], name, f) =
            DeclaredIn(rows, TypedIds[list], DeclaredFields[list], name, f)
      BY <2>2, <2>3, DeclaredSame
    <2> QED BY <2>4 DEF rows
  <1> QED BY <1>1 DEF TypesAgree

(***************************************************************************)
(* Reading and writing a typed layer.                                      *)
(***************************************************************************)
LEMMA LayerAgainRows ==
  ASSUME NEW l, l # Nothing, l = [key \in DOMAIN l |-> l[key]],
         {"entities", "relations", "initial_events"} \subseteq DOMAIN l
  PROVE  /\ LayerAgain(l) = [key \in DOMAIN l |-> LayerAgain(l)[key]]
         /\ LayerAgain(l).entities = [i \in DOMAIN l.entities |-> EntityAgain(l.entities[i], l)]
         /\ LayerAgain(l).relations = [i \in DOMAIN l.relations |-> RelationAgain(l.relations[i], l)]
         /\ LayerAgain(l).initial_events =
              [i \in DOMAIN l.initial_events |-> EventAgain(l.initial_events[i], l)]
         /\ \A key \in DOMAIN l \ {"entities", "relations", "initial_events"} :
              LayerAgain(l)[key] = l[key]
  BY DEF LayerAgain

\* The rows whose values are read by declared types.
EntityAgainIn(row, node) == [row EXCEPT !.components = ComponentsAgain(row.components, node)]
PayloadAgainIn(kind, row, node) ==
  [row EXCEPT !.payload =
     [f \in DOMAIN row.payload |-> ValueAgain(row.payload[f], PayloadType(kind, row, node, f))]]

LEMMA RowsAgainIn ==
  ASSUME NEW node, NEW l, TypesAgree(node, l)
  PROVE  /\ \A row : EntityAgain(row, l) = EntityAgainIn(row, node)
         /\ \A row : RelationAgain(row, l) = PayloadAgainIn(Relation, row, node)
         /\ \A row : EventAgain(row, l) = PayloadAgainIn(InitialEvent, row, node)
  <1>1. ASSUME NEW row PROVE EntityAgain(row, l) = EntityAgainIn(row, node)
    BY TypesAgreeOn DEF EntityAgain, EntityAgainIn, ComponentsAgain
  <1>2. ASSUME NEW row PROVE RelationAgain(row, l) = PayloadAgainIn(Relation, row, node)
    BY TypesAgreeOn DEF RelationAgain, PayloadAgain, PayloadAgainIn
  <1>3. ASSUME NEW row PROVE EventAgain(row, l) = PayloadAgainIn(InitialEvent, row, node)
    BY TypesAgreeOn DEF EventAgain, PayloadAgain, PayloadAgainIn
  <1> QED BY <1>1, <1>2, <1>3

LEMMA EntityStays ==
  ASSUME NEW around, NEW node, NEW layer, NEW row \in Read2(TypedEntity, node, around, layer)
  PROVE  EntityAgainIn(row, layer) = row
  <1>1. /\ EntityMade(row)
        /\ \A c \in DOMAIN row.components : \A f \in DOMAIN row.components[c] :
             ValueAgain(row.components[c][f], ComponentValueType(layer, c, f)) = row.components[c][f]
    BY EntityGiven
  <1>2. /\ row = [key \in DOMAIN row |-> row[key]] /\ "components" \in DOMAIN row
        /\ row.components = [c \in DOMAIN row.components |-> row.components[c]]
        /\ \A c \in DOMAIN row.components :
             row.components[c] = [f \in DOMAIN row.components[c] |-> row.components[c][f]]
    BY <1>1, EntityFields DEF EntityMade, ComponentsMade, TypedValues
  <1>3. ComponentsAgain(row.components, layer) = row.components
    <2> DEFINE v == row.components
    <2>1. ASSUME NEW c \in DOMAIN v
          PROVE  [f \in DOMAIN v[c] |-> ValueAgain(v[c][f], ComponentValueType(layer, c, f))] = v[c]
      <3>1. [f \in DOMAIN v[c] |-> ValueAgain(v[c][f], ComponentValueType(layer, c, f))]
              = [f \in DOMAIN v[c] |-> v[c][f]]
        BY <1>1
      <3> QED BY <1>2, <3>1
    <2>2. ComponentsAgain(v, layer) = [c \in DOMAIN v |-> v[c]]
      BY <2>1 DEF ComponentsAgain
    <2> QED BY <1>2, <2>2
  <1> QED BY <1>2, <1>3 DEF EntityAgainIn

LEMMA PayloadStays ==
  ASSUME NEW kind \in PayloadRows, NEW around, NEW node, NEW layer,
         NEW row \in Read2(kind, node, around, layer)
  PROVE  PayloadAgainIn(kind, row, layer) = row
  <1>1. /\ PayloadMade(kind, row)
        /\ \A f \in DOMAIN row.payload :
             ValueAgain(row.payload[f], PayloadType(kind, row, layer, f)) = row.payload[f]
    BY PayloadRowGiven
  <1>2. /\ row = [key \in DOMAIN row |-> row[key]] /\ "payload" \in DOMAIN row
        /\ row.payload = [f \in DOMAIN row.payload |-> row.payload[f]]
    BY <1>1, PayloadRowFields DEF PayloadMade, TypedValues
  <1>3. [f \in DOMAIN row.payload |-> ValueAgain(row.payload[f], PayloadType(kind, row, layer, f))]
          = row.payload
    BY <1>1, <1>2
  <1> QED BY <1>2, <1>3 DEF PayloadAgainIn

LEMMA TypedGiven ==
  ASSUME NEW node, ListsAreSequences(node), NEW around,
         NEW l \in Read3(TypedLayer, node, around, node)
  PROVE  TypedMade(l) /\ LayerAgain(l) = l
  <1>1. /\ l = [key \in DOMAIN TypedLayer.fields |-> l[key]]
        /\ HeldField2(TypedLayer.fields["world"], l["world"])
    <2>1. /\ l = [key \in DOMAIN TypedLayer.fields |-> l[key]]
          /\ \A key \in DOMAIN TypedLayer.fields :
               l[key] \in IF key \in DOMAIN node.at
                          THEN Field2(TypedLayer.fields[key].kind, node.at[key], node, node)
                          ELSE TypedLayer.fields[key].missing
      <3>1. TypedLayer.kind = "part"
        BY TypedFields
      <3> QED BY <3>1, PartGiven3
    <2> QED BY <2>1, TypedFields, FieldHeld2
  <1>2. \A key \in DOMAIN TypedIds :
          /\ IsList(l[key])
          /\ \A i \in DOMAIN l[key] :
               l[key][i] \in Read2(RowKind(key), ItemsOf(At(node, key))[i], Null, node)
    BY TypedListGiven
  <1>3. ASSUME NEW key \in DOMAIN TypedIds, NEW i \in DOMAIN l[key]
        PROVE  TypedRowMade(key, l[key][i])
    <2>1. l[key][i] \in Read2(RowKind(key), ItemsOf(At(node, key))[i], Null, node)
      BY <1>2
    <2>2. CASE key = "entities"
      <3>1. EntityMade(l[key][i])
        BY <2>1, <2>2, TypedFields, EntityGiven
      <3> QED BY <2>2, <3>1 DEF TypedRowMade
    <2>3. CASE key \in {"relations", "initial_events"}
      <3>1. RowKind(key) \in PayloadRows
        BY <2>3, TypedFields DEF PayloadRows
      <3>2. PayloadMade(RowKind(key), l[key][i])
        BY <2>1, <3>1, PayloadRowGiven
      <3> QED BY <2>3, <3>2 DEF TypedRowMade
    <2>4. CASE key \notin {"entities", "relations", "initial_events"}
      <3>1. Steady2(RowKind(key))
        BY <2>4, TypedFields
      <3>2. Again2(RowKind(key), l[key][i])
        BY <2>1, <3>1, PartKeeps2
      <3> QED BY <2>4, <3>2 DEF TypedRowMade
    <2> QED BY <2>2, <2>3, <2>4
  <1>4. TypedMade(l)
    BY <1>1, <1>2, <1>3 DEF TypedMade
  <1>5. LayerAgain(l) = l
    <2>1. CASE l = Nothing
      BY <2>1 DEF LayerAgain
    <2>2. CASE l # Nothing
      <3>1. /\ l = [key \in DOMAIN l |-> l[key]]
            /\ {"entities", "relations", "initial_events"} \subseteq DOMAIN l
        BY <1>1, TypedFields
      <3>2. /\ \A row : EntityAgain(row, l) = EntityAgainIn(row, node)
            /\ \A row : RelationAgain(row, l) = PayloadAgainIn(Relation, row, node)
            /\ \A row : EventAgain(row, l) = PayloadAgainIn(InitialEvent, row, node)
        BY TypesRead, RowsAgainIn
      <3>3. \A key \in {"entities", "relations", "initial_events"} :
              IsList(l[key]) /\ l[key] = [i \in DOMAIN l[key] |-> l[key][i]]
        BY <1>2, ListIs, TypedFields
      <3>4. \A i \in DOMAIN l.entities : EntityAgain(l.entities[i], l) = l.entities[i]
        BY <1>2, <3>2, EntityStays, TypedFields
      <3>5. \A i \in DOMAIN l.relations : RelationAgain(l.relations[i], l) = l.relations[i]
        <4>1. ASSUME NEW i \in DOMAIN l.relations PROVE PayloadAgainIn(Relation, l.relations[i], node) = l.relations[i]
          <5>1. l.relations[i] \in Read2(Relation, ItemsOf(At(node, "relations"))[i], Null, node)
            BY <1>2, TypedFields
          <5>2. Relation \in PayloadRows
            BY DEF PayloadRows
          <5> QED BY <5>1, <5>2, PayloadStays
        <4> QED BY <3>2, <4>1
      <3>6. \A i \in DOMAIN l.initial_events : EventAgain(l.initial_events[i], l) = l.initial_events[i]
        <4>1. ASSUME NEW i \in DOMAIN l.initial_events
              PROVE  PayloadAgainIn(InitialEvent, l.initial_events[i], node) = l.initial_events[i]
          <5>1. l.initial_events[i] \in Read2(InitialEvent, ItemsOf(At(node, "initial_events"))[i], Null, node)
            BY <1>2, TypedFields
          <5>2. InitialEvent \in PayloadRows
            BY DEF PayloadRows
          <5> QED BY <5>1, <5>2, PayloadStays
        <4> QED BY <3>2, <4>1
      <3>7. /\ [i \in DOMAIN l.entities |-> EntityAgain(l.entities[i], l)] = l.entities
            /\ [i \in DOMAIN l.relations |-> RelationAgain(l.relations[i], l)] = l.relations
            /\ [i \in DOMAIN l.initial_events |-> EventAgain(l.initial_events[i], l)] = l.initial_events
        BY <3>3, <3>4, <3>5, <3>6
      <3>8. \A key \in DOMAIN l : LayerAgain(l)[key] = l[key]
        BY <2>2, <3>1, <3>7, LayerAgainRows
      <3>9. LayerAgain(l) = [key \in DOMAIN l |-> LayerAgain(l)[key]]
        BY <2>2, <3>1, LayerAgainRows
      <3> QED BY <3>1, <3>8, <3>9
    <2> QED BY <2>1, <2>2
  <1> QED BY <1>4, <1>5

LEMMA TypedRead ==
  ASSUME NEW l, TypedMade(l), l # Nothing, NEW around
  PROVE  Read3(TypedLayer, Write3(TypedLayer, l), around, Write3(TypedLayer, l)) = {LayerAgain(l)}
  <1> DEFINE node == Write3(TypedLayer, l)
             u == LayerAgain(l)
  <1>1. TypesAgree(node, l)
    BY TypesWritten
  <1>2. /\ l = [key \in DOMAIN l |-> l[key]] /\ DOMAIN l = DOMAIN TypedLayer.fields
        /\ {"entities", "relations", "initial_events"} \subseteq DOMAIN l
    BY TypedFields DEF TypedMade
  <1>3. /\ u = [key \in DOMAIN l |-> u[key]]
        /\ u.entities = [i \in DOMAIN l.entities |-> EntityAgain(l.entities[i], l)]
        /\ u.relations = [i \in DOMAIN l.relations |-> RelationAgain(l.relations[i], l)]
        /\ u.initial_events = [i \in DOMAIN l.initial_events |-> EventAgain(l.initial_events[i], l)]
        /\ \A key \in DOMAIN l \ {"entities", "relations", "initial_events"} : u[key] = l[key]
    BY <1>2, LayerAgainRows
  <1>4. /\ \A row : EntityAgain(row, l) = EntityAgainIn(row, node)
        /\ \A row : RelationAgain(row, l) = PayloadAgainIn(Relation, row, node)
        /\ \A row : EventAgain(row, l) = PayloadAgainIn(InitialEvent, row, node)
    BY <1>1, RowsAgainIn
  <1>5. \A key \in DOMAIN TypedIds :
          IsList(l[key]) /\ \A i \in DOMAIN l[key] : TypedRowMade(key, l[key][i])
    BY DEF TypedMade
  <1> HIDE DEF node, u
  <1>6. ASSUME NEW key \in DOMAIN TypedIds
        PROVE  /\ u[key] = [i \in DOMAIN l[key] |-> u[key][i]]
               /\ \A i \in DOMAIN l[key] :
                    Read2(RowKind(key), Write2(RowKind(key), l[key][i]), Null, node) = {u[key][i]}
    <2>1. CASE key = "entities"
      <3>1. ASSUME NEW i \in DOMAIN l.entities
            PROVE  Read2(TypedEntity, Write2(TypedEntity, l.entities[i]), Null, node) = {u.entities[i]}
        <4>1. EntityMade(l.entities[i])
          BY <1>5, <2>1 DEF TypedRowMade
        <4>2. u.entities[i] = [l.entities[i] EXCEPT !.components = ComponentsAgain(l.entities[i].components, node)]
          BY <1>3, <1>4 DEF EntityAgainIn
        <4> QED BY <4>1, <4>2, EntityRead
      <3> QED BY <1>3, <2>1, <3>1, TypedFields
    <2>2. CASE key = "relations"
      <3>1. ASSUME NEW i \in DOMAIN l.relations
            PROVE  Read2(Relation, Write2(Relation, l.relations[i]), Null, node) = {u.relations[i]}
        <4>1. PayloadMade(Relation, l.relations[i]) /\ Relation \in PayloadRows
          BY <1>5, <2>2, TypedFields DEF TypedRowMade, PayloadRows
        <4>2. u.relations[i] = PayloadAgainIn(Relation, l.relations[i], node)
          BY <1>3, <1>4
        <4> QED BY <4>1, <4>2, PayloadRowRead DEF PayloadAgainIn
      <3> QED BY <1>3, <2>2, <3>1, TypedFields
    <2>3. CASE key = "initial_events"
      <3>1. ASSUME NEW i \in DOMAIN l.initial_events
            PROVE  Read2(InitialEvent, Write2(InitialEvent, l.initial_events[i]), Null, node)
                     = {u.initial_events[i]}
        <4>1. PayloadMade(InitialEvent, l.initial_events[i]) /\ InitialEvent \in PayloadRows
          BY <1>5, <2>3, TypedFields DEF TypedRowMade, PayloadRows
        <4>2. u.initial_events[i] = PayloadAgainIn(InitialEvent, l.initial_events[i], node)
          BY <1>3, <1>4
        <4> QED BY <4>1, <4>2, PayloadRowRead DEF PayloadAgainIn
      <3> QED BY <1>3, <2>3, <3>1, TypedFields
    <2>4. CASE key \notin {"entities", "relations", "initial_events"}
      <3>1. u[key] = l[key]
        BY <1>2, <1>3, <2>4, TypedFields
      <3>2. l[key] = [i \in DOMAIN l[key] |-> l[key][i]]
        BY <1>5, ListIs
      <3>3. \A i \in DOMAIN l[key] : Again2(RowKind(key), l[key][i])
        BY <1>5, <2>4 DEF TypedRowMade
      <3> QED BY <3>1, <3>2, <3>3 DEF Again2
    <2> QED BY <2>1, <2>2, <2>3, <2>4
  <1>7. ASSUME NEW key \in DOMAIN TypedLayer.fields
        PROVE  IF IsWritten(TypedLayer.fields[key], l[key])
               THEN Field2(TypedLayer.fields[key].kind, FieldNode2(TypedLayer.fields[key].kind, l[key]),
                           node, node) = {u[key]}
               ELSE TypedLayer.fields[key].missing = {u[key]}
    <2>1. CASE key = "world"
      <3>1. HeldField2(TypedLayer.fields[key], l[key]) /\ u[key] = l[key]
        BY <1>2, <1>3, <2>1 DEF TypedMade
      <3> QED BY <3>1 DEF HeldField2, AgainField2
    <2>2. CASE key \in DOMAIN TypedIds
      <3> DEFINE field == TypedLayer.fields[key]
                 kind == RowKind(key)
      <3>1. field = Listed(ListOf(kind))
        BY <2>2, TypedFields
      <3>2. field.kind = ListOf(kind) /\ field.written = "always"
        BY <3>1, TableKinds
      <3>3. IsWritten(field, l[key])
        BY <3>2, WrittenWhen
      <3>4. ListOf(kind).kind = "list" /\ ListOf(kind).of = kind
        BY TableKinds
      <3>5. Field2(ListOf(kind), FieldNode2(ListOf(kind), l[key]), node, node) = {u[key]}
        <4>1. /\ u[key] = [i \in DOMAIN l[key] |-> u[key][i]]
              /\ \A i \in DOMAIN l[key] : Read2(kind, Write2(kind, l[key][i]), Null, node) = {u[key][i]}
          BY <1>6, <2>2
        <4> HIDE DEF kind
        <4> QED BY <3>4, <4>1, ListOfItems2
      <3> QED BY <3>2, <3>3, <3>5
    <2> QED BY <2>1, <2>2, TypedFields
  <1>8. Read3(TypedLayer, Write3(TypedLayer, l), around, node) = {u}
    <2>1. TypedLayer.kind = "part"
      BY TypedFields
    <2>2. u = [key \in DOMAIN TypedLayer.fields |-> u[key]]
      BY <1>2, <1>3
    <2>3. \A key \in DOMAIN TypedLayer.fields :
            IF IsWritten(TypedLayer.fields[key], l[key])
            THEN Field2(TypedLayer.fields[key].kind, FieldNode2(TypedLayer.fields[key].kind, l[key]),
                        Write3(TypedLayer, l), node) = {u[key]}
            ELSE TypedLayer.fields[key].missing = {u[key]}
      BY <1>7 DEF node
    <2> QED BY <2>1, <2>2, <2>3, PartOfFields3
  <1> QED BY <1>8 DEF node, u

(***************************************************************************)
(* Scenarios that the program makes.                                       *)
(***************************************************************************)
DocFits(doc) ==
  /\ \A key \in CoreKeys : IsList(ItemsOf(At(doc, key)))
  /\ ListsAreSequences(At(doc, "agent_layer")) /\ ListsAreSequences(At(doc, "typed_layer"))

SectionKind(key) == Scenario.fields[key].kind.of

SectionRowMade(key, row) ==
  IF key = "variables" THEN VariableMade(row)
  ELSE IF key = "dependency_edges" THEN HeldPart2(Edge, row)
  ELSE Again3(SectionKind(key), row)

PlainSections == {"scenario_id", "schema_version", "metadata"}

ScenarioMade(s) ==
  /\ s = [key \in DOMAIN Scenario.fields |-> s[key]]
  /\ \A key \in PlainSections : HeldField3(Scenario.fields[key], s[key])
  /\ Take("seed", s.master_seed) = {s.master_seed}
  /\ \A key \in DOMAIN ListIds :
       IsList(s[key]) /\ \A i \in DOMAIN s[key] : SectionRowMade(key, s[key][i])
  /\ s.agent_layer # Nothing => AgentMade(s.agent_layer)
  /\ s.typed_layer # Nothing => TypedMade(s.typed_layer)

LEMMA ScenarioFields ==
  /\ Scenario.kind = "part"
  /\ DOMAIN Scenario.fields = PlainSections \cup {"master_seed", "goal_statement", "agent_layer", "typed_layer"}
                                \cup DOMAIN ListIds
  /\ DOMAIN ListIds \cap (PlainSections \cup {"master_seed", "goal_statement", "agent_layer", "typed_layer"}) = {}
  /\ {"variables", "dependency_edges"} \subseteq DOMAIN ListIds
  /\ \A key \in PlainSections : SteadyField3(Scenario.fields[key])
  /\ Scenario.fields["master_seed"] = Required(Of("seed"))
  /\ Scenario.fields["goal_statement"] = Required(Of("goal"))
  /\ Scenario.fields["agent_layer"] = Optional(AgentLayer)
  /\ Scenario.fields["typed_layer"] = Optional(TypedLayer)
  /\ \A key \in DOMAIN ListIds : Scenario.fields[key] = Listed(ListOf(SectionKind(key)))
  /\ \A key \in DOMAIN ListIds \ {"variables"} : Steady3(SectionKind(key))
  /\ SectionKind("variables") = Variable /\ SectionKind("dependency_edges") = Edge
  <1>1. DOMAIN ListIds = {"assumptions", "entities", "variables", "dependency_edges", "constraints",
                          "events", "evaluation_criteria"}
    BY DEF ListIds
  <1>2. /\ Scenario.kind = "part"
        /\ DOMAIN Scenario.fields = {"scenario_id", "schema_version", "master_seed", "goal_statement",
             "assumptions", "entities", "variables", "dependency_edges", "constraints", "events",
             "agent_layer", "typed_layer", "evaluation_criteria", "metadata"}
    BY DEF Scenario, Part
  <1>3. /\ Scenario.fields["scenario_id"] = Required(Text) /\ Scenario.fields["schema_version"] = Required(Text)
        /\ Scenario.fields["metadata"] = Optional(Metadata)
    BY DEF Scenario, Part
  <1>4. /\ Scenario.fields["master_seed"] = Required(Of("seed"))
        /\ Scenario.fields["goal_statement"] = Required(Of("goal"))
        /\ Scenario.fields["agent_layer"] = Optional(AgentLayer)
        /\ Scenario.fields["typed_layer"] = Optional(TypedLayer)
    BY DEF Scenario, Part
  <1>5. /\ Scenario.fields["assumptions"] = Listed(ListOf(Assumption))
        /\ Scenario.fields["entities"] = Listed(ListOf(Entity))
        /\ Scenario.fields["variables"] = Listed(ListOf(Variable))
        /\ Scenario.fields["dependency_edges"] = Listed(ListOf(Edge))
    BY DEF Scenario, Part
  <1>6. /\ Scenario.fields["constraints"] = Listed(ListOf(Constraint))
        /\ Scenario.fields["events"] = Listed(ListOf(Event))
        /\ Scenario.fields["evaluation_criteria"] = Listed(ListOf(Criterion))
    BY DEF Scenario, Part
  <1>7. \A kind : Listed(ListOf(kind)).kind.of = kind
    BY DEF Listed, ListOf
  <1>8. /\ SectionKind("assumptions") = Assumption /\ SectionKind("entities") = Entity
        /\ SectionKind("variables") = Variable /\ SectionKind("dependency_edges") = Edge
        /\ SectionKind("constraints") = Constraint /\ SectionKind("events") = Event
        /\ SectionKind("evaluation_criteria") = Criterion
    BY <1>5, <1>6, <1>7 DEF SectionKind
  <1>9. /\ \A kind \in {Assumption, Entity, Edge, Constraint, Event, Criterion} : Steady3(kind)
        /\ Steady3(Metadata) /\ Metadata.kind = "part"
    BY Level3Structs
  <1>10. SteadyField3(Required(Text)) /\ SteadyField3(Optional(Metadata))
    BY <1>9, PlainFields3, PartFields3
  <1> QED BY <1>1, <1>2, <1>3, <1>4, <1>5, <1>6, <1>8, <1>9, <1>10 DEF PlainSections

\* The lists of a scenario that is read.
LEMMA SectionGiven ==
  ASSUME NEW doc, DocFits(doc), NEW s \in Deserialize(doc), NEW key \in DOMAIN ListIds
  PROVE  /\ IsList(s[key])
         /\ \A i \in DOMAIN s[key] :
              s[key][i] \in Read3(SectionKind(key), ItemsOf(At(doc, key))[i], Null, At(doc, "typed_layer"))
  <1> DEFINE kind == SectionKind(key)
             v == s[key]
             layer == At(doc, "typed_layer")
  <1>1. /\ doc.node = "map" /\ DOMAIN doc.at \subseteq DOMAIN Scenario.fields
        /\ v \in IF key \in DOMAIN doc.at THEN Field3(Scenario.fields[key].kind, doc.at[key], doc, layer)
                 ELSE Scenario.fields[key].missing
    <2>1. Scenario.kind = "part" /\ key \in DOMAIN Scenario.fields
      BY ScenarioFields
    <2>2. s \in Read4(Scenario, doc, Null, layer)
      BY DEF Deserialize
    <2> HIDE DEF layer
    <2> QED BY <2>1, <2>2, PartGiven4
  <1>2. Scenario.fields[key] = Listed(ListOf(kind))
    BY ScenarioFields
  <1>3. ListsAreSequences(doc)
    BY <1>1 DEF DocFits, ListsAreSequences, IsList, Ran, At, KeysOf, CoreKeys
  <1> HIDE DEF kind, v, layer
  <1>4. v \in IF key \in DOMAIN doc.at THEN Field3(ListOf(kind), doc.at[key], doc, layer)
              ELSE Listed(ListOf(kind)).missing
    BY <1>1, <1>2, TableKinds
  <1>5. /\ IsList(v)
        /\ \A i \in DOMAIN v : v[i] \in Read3(kind, ItemsOf(At(doc, key))[i], Null, layer)
    BY <1>1, <1>3, <1>4, ListFieldGiven3
  <1> QED BY <1>5 DEF kind, v, layer

LEMMA SeedGiven ==
  ASSUME NEW node, NEW around, NEW layer, NEW v \in Field3(Of("seed"), node, around, layer)
  PROVE  Take("seed", v) = {v}
  <1>1. Of("seed").kind = "scalar" /\ Of("seed").reader = "seed"
    BY DEF Of
  <1>2. Of("seed").kind \notin Nested \cup {"part"}
    BY <1>1 DEF Nested
  <1>3. v \in ReadLeaf(Of("seed"), node, around, layer)
    BY <1>2, LeafField3
  <1>4. v \in Take("seed", TextOf(node))
    BY <1>1, <1>3, ScalarGiven
  <1>5. "seed" \in Readers \ {"stod"}
    BY DEF Readers
  <1> QED BY <1>4, <1>5, TakeAgain

\* The layers of a scenario that is read.
LEMMA LayerGiven ==
  ASSUME NEW kind, kind.kind = "part", NEW node, NEW around, NEW layer,
         NEW v \in Field3(Optional(kind).kind, node, around, layer)
  PROVE  v \in Read3(kind, node, around, layer)
  <1>1. Optional(kind).kind = kind /\ kind.kind \notin Nested
    BY DEF Optional, Nested
  <1> QED BY <1>1, PlainField3

LEMMA ScenarioGiven ==
  ASSUME NEW doc, DocFits(doc), NEW s \in Deserialize(doc)
  PROVE  ScenarioMade(s) /\ LayerAgain(s.typed_layer) = s.typed_layer
  <1> DEFINE layer == At(doc, "typed_layer")
  <1>1. /\ doc.node = "map"
        /\ s = [key \in DOMAIN Scenario.fields |-> s[key]]
        /\ \A key \in DOMAIN Scenario.fields :
             s[key] \in IF key \in DOMAIN doc.at
                        THEN Field3(Scenario.fields[key].kind, doc.at[key], doc, layer)
                        ELSE Scenario.fields[key].missing
    <2>1. Scenario.kind = "part"
      BY ScenarioFields
    <2>2. s \in Read4(Scenario, doc, Null, layer)
      BY DEF Deserialize
    <2> HIDE DEF layer
    <2> QED BY <2>1, <2>2, PartGiven4
  <1>2. \A key \in PlainSections : HeldField3(Scenario.fields[key], s[key])
    <2>1. ASSUME NEW key \in PlainSections PROVE HeldField3(Scenario.fields[key], s[key])
      <3>1. SteadyField3(Scenario.fields[key]) /\ key \in DOMAIN Scenario.fields
        BY ScenarioFields
      <3> HIDE DEF layer
      <3> QED BY <1>1, <3>1, FieldHeld3
    <2> QED BY <2>1
  <1>3. Take("seed", s.master_seed) = {s.master_seed}
    <2>1. /\ Scenario.fields["master_seed"] = Required(Of("seed"))
          /\ "master_seed" \in DOMAIN Scenario.fields
      BY ScenarioFields
    <2>2. Required(Of("seed")).kind = Of("seed") /\ Required(Of("seed")).missing = {}
      BY DEF Required
    <2>3. s.master_seed \in Field3(Of("seed"), doc.at["master_seed"], doc, layer)
      BY <1>1, <2>1, <2>2
    <2> HIDE DEF layer
    <2> QED BY <2>3, SeedGiven
  <1>4. ASSUME NEW key \in DOMAIN ListIds
        PROVE  IsList(s[key]) /\ \A i \in DOMAIN s[key] : SectionRowMade(key, s[key][i])
    <2>1. /\ IsList(s[key])
          /\ \A i \in DOMAIN s[key] :
               s[key][i] \in Read3(SectionKind(key), ItemsOf(At(doc, key))[i], Null, layer)
      BY SectionGiven
    <2>2. ASSUME NEW i \in DOMAIN s[key] PROVE SectionRowMade(key, s[key][i])
      <3>1. s[key][i] \in Read3(SectionKind(key), ItemsOf(At(doc, key))[i], Null, layer)
        BY <2>1
      <3>2. CASE key = "variables"
        <4>1. VariableMade(s[key][i])
          BY <3>1, <3>2, ScenarioFields, VariableGiven
        <4> QED BY <3>2, <4>1 DEF SectionRowMade
      <3>3. CASE key = "dependency_edges"
        <4>1. SectionKind(key) = Edge /\ Steady3(Edge) /\ Edge.kind = "part"
          BY <3>3, ScenarioFields, Level3Structs
        <4>2. HeldPart2(Edge, s[key][i])
          BY <3>1, <4>1, PartHeld3
        <4> QED BY <3>3, <4>2 DEF SectionRowMade
      <3>4. CASE key \notin {"variables", "dependency_edges"}
        <4>1. Steady3(SectionKind(key))
          BY <3>4, ScenarioFields
        <4>2. Again3(SectionKind(key), s[key][i])
          BY <3>1, <4>1, PartKeeps3
        <4> QED BY <3>4, <4>2 DEF SectionRowMade
      <3> QED BY <3>2, <3>3, <3>4
    <2> QED BY <2>1, <2>2
  <1>5. ASSUME s.agent_layer # Nothing PROVE AgentMade(s.agent_layer)
    <2>1. /\ Scenario.fields["agent_layer"] = Optional(AgentLayer)
          /\ "agent_layer" \in DOMAIN Scenario.fields
      BY ScenarioFields
    <2>2. Optional(AgentLayer).missing = {Nothing}
      BY DEF Optional
    <2>3. /\ "agent_layer" \in DOMAIN doc.at
          /\ s.agent_layer \in Field3(Optional(AgentLayer).kind, doc.at["agent_layer"], doc, layer)
      BY <1>1, <1>5, <2>1, <2>2
    <2>4. s.agent_layer \in Read3(AgentLayer, doc.at["agent_layer"], doc, layer)
      <3>1. AgentLayer.kind = "part"
        BY AgentFields
      <3> HIDE DEF layer
      <3> QED BY <2>3, <3>1, LayerGiven
    <2>5. ListsAreSequences(doc.at["agent_layer"])
      BY <1>1, <2>3 DEF DocFits, At, KeysOf
    <2> QED BY <2>4, <2>5, AgentGiven
  <1>6. /\ s.typed_layer # Nothing => TypedMade(s.typed_layer)
        /\ LayerAgain(s.typed_layer) = s.typed_layer
    <2>1. /\ Scenario.fields["typed_layer"] = Optional(TypedLayer)
          /\ "typed_layer" \in DOMAIN Scenario.fields
      BY ScenarioFields
    <2>2. Optional(TypedLayer).missing = {Nothing}
      BY DEF Optional
    <2>3. CASE s.typed_layer = Nothing
      BY <2>3 DEF LayerAgain
    <2>4. CASE s.typed_layer # Nothing
      <3>1. /\ "typed_layer" \in DOMAIN doc.at
            /\ s.typed_layer \in Field3(Optional(TypedLayer).kind, doc.at["typed_layer"], doc, layer)
        BY <1>1, <2>4, <2>1, <2>2
      <3>2. doc.at["typed_layer"] = layer
        BY <1>1, <3>1 DEF At, KeysOf
      <3>3. ListsAreSequences(layer)
        BY DEF DocFits
      <3>4. s.typed_layer \in Read3(TypedLayer, layer, doc, layer)
        <4>1. TypedLayer.kind = "part"
          BY TypedFields
        <4> HIDE DEF layer
        <4> QED BY <3>1, <3>2, <4>1, LayerGiven
      <3> HIDE DEF layer
      <3> QED BY <3>3, <3>4, TypedGiven
    <2> QED BY <2>3, <2>4
  <1> QED BY <1>1, <1>2, <1>3, <1>4, <1>5, <1>6 DEF ScenarioMade

(***************************************************************************)
(* Reading what is written of a scenario that the program makes.           *)
(***************************************************************************)
LEMMA AgainIs ==
  ASSUME NEW s, s = [key \in DOMAIN Scenario.fields |-> s[key]]
  PROVE  /\ Again(s) = [key \in DOMAIN Scenario.fields |-> Again(s)[key]]
         /\ Again(s).goal_statement = Printed("goal", s.goal_statement)
         /\ Again(s).variables = [i \in DOMAIN s.variables |-> VariableAgain(s.variables[i])]
         /\ Again(s).typed_layer = LayerAgain(s.typed_layer)
         /\ \A key \in DOMAIN Scenario.fields \ {"goal_statement", "variables", "typed_layer"} :
              Again(s)[key] = s[key]
  <1>1. {"goal_statement", "variables", "typed_layer"} \subseteq DOMAIN s
    BY ScenarioFields
  <1> QED BY <1>1 DEF Again

LEMMA UnreadableIs ==
  ASSUME NEW s
  PROVE  Unreadable(s) <=> \/ s.master_seed \in DOMAIN Wrapped
                           \/ \E i \in DOMAIN s.variables : VariableUnreadable(s.variables[i])
  BY DEF Unreadable, VariableUnreadable, VariableLimits

LEMMA SeedRead ==
  ASSUME NEW v, Take("seed", v) = {v}, NEW around, NEW layer
  PROVE  Field3(Of("seed"), FieldNode3(Of("seed"), v), around, layer) =
           IF v \in DOMAIN Wrapped THEN {} ELSE {v}
  <1>1. Of("seed").kind = "scalar" /\ Of("seed").reader = "seed"
    BY DEF Of
  <1>2. Of("seed").kind \notin Nested \cup {"part"}
    BY <1>1 DEF Nested
  <1>3. FieldNode3(Of("seed"), v) = Scalar(Printed("seed", v))
    BY <1>1, <1>2, LeafField3, ScalarLeaf
  <1>4. /\ Readable("seed", Scalar(Printed("seed", v)))
        /\ TextOf(Scalar(Printed("seed", v))) = Printed("seed", v)
    BY ScalarText
  <1>5. Field3(Of("seed"), Scalar(Printed("seed", v)), around, layer) = Take("seed", Printed("seed", v))
    BY <1>1, <1>2, <1>4, LeafField3, ScalarLeaf
  <1>6. CASE v \in DOMAIN Wrapped
    <2>1. Printed("seed", v) = Wrapped[v]
      BY <1>6 DEF Printed
    <2>2. Wrapped[v] \notin DOMAIN Taken["seed"]
      BY <1>6, TextAssumption
    <2>3. Take("seed", Wrapped[v]) = {}
      BY <2>2 DEF Take
    <2> QED BY <1>3, <1>5, <1>6, <2>1, <2>3
  <1>7. CASE v \notin DOMAIN Wrapped
    <2>1. Printed("seed", v) = v
      BY <1>7 DEF Printed
    <2> QED BY <1>3, <1>5, <1>7, <2>1
  <1> QED BY <1>6, <1>7

LEMMA GoalRead ==
  ASSUME NEW v, NEW around, NEW layer
  PROVE  Field3(Of("goal"), FieldNode3(Of("goal"), v), around, layer) = {Printed("goal", v)}
  <1>1. Of("goal").kind = "scalar" /\ Of("goal").reader = "goal"
    BY DEF Of
  <1>2. Of("goal").kind \notin Nested \cup {"part"}
    BY <1>1 DEF Nested
  <1>3. FieldNode3(Of("goal"), v) = Scalar(Printed("goal", v))
    BY <1>1, <1>2, LeafField3, ScalarLeaf
  <1>4. /\ Readable("goal", Scalar(Printed("goal", v)))
        /\ TextOf(Scalar(Printed("goal", v))) = Printed("goal", v)
    BY ScalarText
  <1>5. Field3(Of("goal"), Scalar(Printed("goal", v)), around, layer) = Take("goal", Printed("goal", v))
    BY <1>1, <1>2, <1>4, LeafField3, ScalarLeaf
  <1>6. Take("goal", Printed("goal", v)) = {Printed("goal", v)}
    BY DEF Take
  <1> QED BY <1>3, <1>5, <1>6

LEMMA SerializedRefused ==
  ASSUME NEW s, ScenarioMade(s), Unreadable(s)
  PROVE  Deserialize(Serialize(s)) = {}
  <1> DEFINE node == Write4(Scenario, s)
             layer == At(node, "typed_layer")
  <1>1. Deserialize(Serialize(s)) = Read4(Scenario, node, Null, layer)
    BY DEF Deserialize, Serialize
  <1>2. Scenario.kind = "part"
    BY ScenarioFields
  <1> HIDE DEF layer
  <1>3. CASE s.master_seed \in DOMAIN Wrapped
    <2>1. /\ Scenario.fields["master_seed"] = Required(Of("seed"))
          /\ "master_seed" \in DOMAIN Scenario.fields
      BY ScenarioFields
    <2>2. Required(Of("seed")).kind = Of("seed") /\ Required(Of("seed")).written = "always"
      BY DEF Required
    <2>3. IsWritten(Scenario.fields["master_seed"], s["master_seed"])
      BY <2>1, <2>2, WrittenWhen
    <2>4. Field3(Of("seed"), FieldNode3(Of("seed"), s["master_seed"]), node, layer) = {}
      BY <1>3, SeedRead DEF ScenarioMade
    <2>5. Field3(Scenario.fields["master_seed"].kind, FieldNode3(Scenario.fields["master_seed"].kind, s["master_seed"]),
                 Write4(Scenario, s), layer) = {}
      BY <2>1, <2>2, <2>4
    <2>6. Read4(Scenario, Write4(Scenario, s), Null, layer) = {}
      BY <1>2, <2>1, <2>3, <2>5, PartRefused4
    <2> QED BY <1>1, <2>6
  <1>4. CASE \E i \in DOMAIN s.variables : VariableUnreadable(s.variables[i])
    <2>1. PICK i \in DOMAIN s.variables : VariableUnreadable(s.variables[i])
      BY <1>4
    <2>2. /\ Scenario.fields["variables"] = Listed(ListOf(Variable))
          /\ "variables" \in DOMAIN ListIds /\ "variables" \in DOMAIN Scenario.fields
      <3>1. "variables" \in DOMAIN ListIds /\ SectionKind("variables") = Variable
        BY ScenarioFields
      <3>2. Scenario.fields["variables"] = Listed(ListOf(SectionKind("variables")))
        BY <3>1, ScenarioFields
      <3> QED BY <3>1, <3>2, ScenarioFields
    <2>3. VariableMade(s.variables[i])
      BY <2>2 DEF ScenarioMade, SectionRowMade
    <2>4. Read3(Variable, Write3(Variable, s.variables[i]), Null, layer) = {}
      BY <2>1, <2>3, VariableRead
    <2>5. ListOf(Variable).kind = "list" /\ ListOf(Variable).of = Variable
      BY TableKinds
    <2>6. Field3(ListOf(Variable), FieldNode3(ListOf(Variable), s.variables), node, layer) = {}
      BY <2>4, <2>5, ListRefused3
    <2>7. /\ Scenario.fields["variables"].kind = ListOf(Variable)
          /\ Scenario.fields["variables"].written = "always"
      BY <2>2, TableKinds
    <2>8. IsWritten(Scenario.fields["variables"], s["variables"])
      BY <2>7, WrittenWhen
    <2>9. Field3(Scenario.fields["variables"].kind, FieldNode3(Scenario.fields["variables"].kind, s["variables"]),
                 Write4(Scenario, s), layer) = {}
      BY <2>6, <2>7
    <2>10. Read4(Scenario, Write4(Scenario, s), Null, layer) = {}
      BY <1>2, <2>2, <2>8, <2>9, PartRefused4
    <2> QED BY <1>1, <2>10
  <1> QED BY <1>3, <1>4, UnreadableIs

LEMMA TypedNode ==
  ASSUME NEW s, s.typed_layer # Nothing
  PROVE  At(Write4(Scenario, s), "typed_layer") = Write3(TypedLayer, s.typed_layer)
  <1>1. /\ Scenario.fields["typed_layer"] = Optional(TypedLayer)
        /\ "typed_layer" \in DOMAIN Scenario.fields /\ Scenario.kind = "part"
    BY ScenarioFields
  <1>2. Optional(TypedLayer).kind = TypedLayer /\ Optional(TypedLayer).written = "given"
    BY DEF Optional
  <1>3. IsWritten(Scenario.fields["typed_layer"], s["typed_layer"])
    BY <1>1, <1>2, WrittenWhen
  <1>4. TypedLayer.kind \notin Nested
    BY TypedFields DEF Nested
  <1>5. FieldNode3(TypedLayer, s.typed_layer) = Write3(TypedLayer, s.typed_layer)
    BY <1>4, PlainField3
  <1>6. /\ Write4(Scenario, s).node = "map" /\ "typed_layer" \in DOMAIN Write4(Scenario, s).at
        /\ Write4(Scenario, s).at["typed_layer"] = FieldNode3(TypedLayer, s["typed_layer"])
    BY <1>1, <1>2, <1>3, PartWritten4
  <1> QED BY <1>5, <1>6 DEF At, KeysOf

LEMMA SerializedRead ==
  ASSUME NEW s, ScenarioMade(s), ~Unreadable(s)
  PROVE  Deserialize(Serialize(s)) = {Again(s)}
  <1> DEFINE node == Write4(Scenario, s)
             layer == At(node, "typed_layer")
             u == Again(s)
  <1>1. Deserialize(Serialize(s)) = Read4(Scenario, node, Null, layer)
    BY DEF Deserialize, Serialize
  <1>2. Scenario.kind = "part" /\ s = [key \in DOMAIN Scenario.fields |-> s[key]]
    BY ScenarioFields DEF ScenarioMade
  <1>3. /\ u = [key \in DOMAIN Scenario.fields |-> u[key]]
        /\ u.goal_statement = Printed("goal", s.goal_statement)
        /\ u.variables = [i \in DOMAIN s.variables |-> VariableAgain(s.variables[i])]
        /\ u.typed_layer = LayerAgain(s.typed_layer)
        /\ \A key \in DOMAIN Scenario.fields \ {"goal_statement", "variables", "typed_layer"} :
             u[key] = s[key]
    BY <1>2, AgainIs
  <1>4. s.typed_layer # Nothing => layer = Write3(TypedLayer, s.typed_layer)
    BY TypedNode
  <1> HIDE DEF layer, node, u
  <1> DEFINE Fine(key) ==
        IF IsWritten(Scenario.fields[key], s[key])
        THEN Field3(Scenario.fields[key].kind, FieldNode3(Scenario.fields[key].kind, s[key]),
                    node, layer) = {u[key]}
        ELSE Scenario.fields[key].missing = {u[key]}
  <1>5. ASSUME NEW key \in PlainSections PROVE Fine(key)
    <2>1. HeldField3(Scenario.fields[key], s[key])
      BY DEF ScenarioMade
    <2>2. u[key] = s[key]
      BY <1>3, ScenarioFields DEF PlainSections
    <2> QED BY <2>1, <2>2 DEF HeldField3, AgainField3
  <1>6. Fine("master_seed")
    <2>1. /\ Scenario.fields["master_seed"] = Required(Of("seed"))
          /\ "master_seed" \in DOMAIN Scenario.fields
      BY ScenarioFields
    <2>2. Required(Of("seed")).kind = Of("seed") /\ Required(Of("seed")).written = "always"
      BY DEF Required
    <2>3. IsWritten(Scenario.fields["master_seed"], s["master_seed"])
      BY <2>1, <2>2, WrittenWhen
    <2>4. s.master_seed \notin DOMAIN Wrapped
      BY UnreadableIs
    <2>5. Field3(Of("seed"), FieldNode3(Of("seed"), s["master_seed"]), node, layer) = {s["master_seed"]}
      BY <2>4, SeedRead DEF ScenarioMade
    <2>6. u["master_seed"] = s["master_seed"]
      BY <1>3, <2>1
    <2> QED BY <2>1, <2>2, <2>3, <2>5, <2>6
  <1>7. Fine("goal_statement")
    <2>1. Scenario.fields["goal_statement"] = Required(Of("goal"))
      BY ScenarioFields
    <2>2. Required(Of("goal")).kind = Of("goal") /\ Required(Of("goal")).written = "always"
      BY DEF Required
    <2>3. IsWritten(Scenario.fields["goal_statement"], s["goal_statement"])
      BY <2>1, <2>2, WrittenWhen
    <2>4. Field3(Of("goal"), FieldNode3(Of("goal"), s["goal_statement"]), node, layer)
            = {Printed("goal", s["goal_statement"])}
      BY GoalRead
    <2> QED BY <1>3, <2>1, <2>2, <2>3, <2>4
  <1>8. Fine("agent_layer")
    <2>1. /\ Scenario.fields["agent_layer"] = Optional(AgentLayer)
          /\ "agent_layer" \in DOMAIN Scenario.fields
      BY ScenarioFields
    <2>2. /\ Optional(AgentLayer).kind = AgentLayer /\ Optional(AgentLayer).written = "given"
          /\ Optional(AgentLayer).missing = {Nothing}
      BY DEF Optional
    <2>3. u["agent_layer"] = s["agent_layer"]
      BY <1>3, <2>1
    <2>4. CASE s.agent_layer = Nothing
      <3>1. ~IsWritten(Scenario.fields["agent_layer"], s["agent_layer"])
        BY <2>1, <2>2, <2>4, WrittenWhen
      <3> QED BY <2>1, <2>2, <2>3, <2>4, <3>1
    <2>5. CASE s.agent_layer # Nothing
      <3>1. IsWritten(Scenario.fields["agent_layer"], s["agent_layer"])
        BY <2>1, <2>2, <2>5, WrittenWhen
      <3>2. Again3(AgentLayer, s.agent_layer)
        BY <2>5, AgentRead DEF ScenarioMade
      <3>3. AgentLayer.kind \notin Nested
        BY AgentFields DEF Nested
      <3>4. Field3(AgentLayer, FieldNode3(AgentLayer, s.agent_layer), node, layer) = {s.agent_layer}
        BY <3>2, <3>3, PlainField3 DEF Again3
      <3> QED BY <2>1, <2>2, <2>3, <3>1, <3>4
    <2> QED BY <2>4, <2>5
  <1>9. Fine("typed_layer")
    <2>1. Scenario.fields["typed_layer"] = Optional(TypedLayer)
      BY ScenarioFields
    <2>2. /\ Optional(TypedLayer).kind = TypedLayer /\ Optional(TypedLayer).written = "given"
          /\ Optional(TypedLayer).missing = {Nothing}
      BY DEF Optional
    <2>3. CASE s.typed_layer = Nothing
      <3>1. ~IsWritten(Scenario.fields["typed_layer"], s["typed_layer"])
        BY <2>1, <2>2, <2>3, WrittenWhen
      <3>2. u["typed_layer"] = Nothing
        BY <1>3, <2>3 DEF LayerAgain
      <3> QED BY <2>1, <2>2, <3>1, <3>2
    <2>4. CASE s.typed_layer # Nothing
      <3>1. IsWritten(Scenario.fields["typed_layer"], s["typed_layer"])
        BY <2>1, <2>2, <2>4, WrittenWhen
      <3>2. Read3(TypedLayer, Write3(TypedLayer, s.typed_layer), node, layer) = {LayerAgain(s.typed_layer)}
        BY <1>4, <2>4, TypedRead DEF ScenarioMade
      <3>3. TypedLayer.kind \notin Nested
        BY TypedFields DEF Nested
      <3>4. Field3(TypedLayer, FieldNode3(TypedLayer, s.typed_layer), node, layer) = {u["typed_layer"]}
        BY <1>3, <3>2, <3>3, PlainField3
      <3> QED BY <2>1, <2>2, <3>1, <3>4
    <2> QED BY <2>3, <2>4
  <1>10. ASSUME NEW key \in DOMAIN ListIds PROVE Fine(key)
    <2> DEFINE kind == SectionKind(key)
               field == Scenario.fields[key]
               v == s[key]
               w == u[key]
    <2>1. field = Listed(ListOf(kind)) /\ key \in DOMAIN Scenario.fields
      BY ScenarioFields
    <2>2. field.kind = ListOf(kind) /\ field.written = "always"
      BY <2>1, TableKinds
    <2>3. IsWritten(field, v)
      BY <2>2, WrittenWhen
    <2>4. ListOf(kind).kind = "list" /\ ListOf(kind).of = kind
      BY TableKinds
    <2>5. IsList(v) /\ \A i \in DOMAIN v : SectionRowMade(key, v[i])
      BY DEF ScenarioMade
    <2>6. v = [i \in DOMAIN v |-> v[i]]
      BY <2>5, ListIs
    <2>7. w = [i \in DOMAIN v |-> w[i]]
          /\ \A i \in DOMAIN v : Read3(kind, Write3(kind, v[i]), Null, layer) = {w[i]}
      <3>1. CASE key = "variables"
        <4>1. kind = Variable /\ w = [i \in DOMAIN v |-> VariableAgain(v[i])]
          BY <1>3, <3>1, ScenarioFields
        <4>2. ASSUME NEW i \in DOMAIN v PROVE Read3(Variable, Write3(Variable, v[i]), Null, layer) = {w[i]}
          <5>1. VariableMade(v[i]) /\ ~VariableUnreadable(v[i])
            BY <2>5, <3>1, UnreadableIs DEF SectionRowMade
          <5>2. Read3(Variable, Write3(Variable, v[i]), Null, layer) = {VariableAgain(v[i])}
            BY <5>1, VariableRead
          <5> QED BY <4>1, <5>2
        <4> QED BY <4>1, <4>2
      <3>2. CASE key = "dependency_edges"
        <4>1. kind = Edge /\ w = v
          BY <1>3, <2>1, <3>2, ScenarioFields
        <4>2. \A i \in DOMAIN v : HeldPart2(Edge, v[i])
          BY <2>5, <3>2 DEF SectionRowMade
        <4>3. \A i \in DOMAIN v : Again3(Edge, v[i])
          BY <4>2, PartAgain3
        <4> QED BY <2>6, <4>1, <4>3 DEF Again3
      <3>3. CASE key \notin {"variables", "dependency_edges"}
        <4>1. w = v
          BY <1>3, <2>1, <3>3, ScenarioFields
        <4>2. \A i \in DOMAIN v : Again3(kind, v[i])
          BY <2>5, <3>3 DEF SectionRowMade
        <4> QED BY <2>6, <4>1, <4>2 DEF Again3
      <3> QED BY <3>1, <3>2, <3>3
    <2>8. Field3(ListOf(kind), FieldNode3(ListOf(kind), v), node, layer) = {w}
      <3> HIDE DEF kind, v, w
      <3> QED BY <2>4, <2>7, ListOfItems3
    <2> QED BY <2>2, <2>3, <2>8
  <1>11. \A key \in DOMAIN Scenario.fields : Fine(key)
    <2>1. ASSUME NEW key \in DOMAIN Scenario.fields PROVE Fine(key)
      <3> HIDE DEF Fine
      <3> QED BY <1>5, <1>6, <1>7, <1>8, <1>9, <1>10, ScenarioFields
    <2> QED BY <2>1
  <1>12. Read4(Scenario, Write4(Scenario, s), Null, layer) = {u}
    <2>1. \A key \in DOMAIN Scenario.fields :
            IF IsWritten(Scenario.fields[key], s[key])
            THEN Field3(Scenario.fields[key].kind, FieldNode3(Scenario.fields[key].kind, s[key]),
                        Write4(Scenario, s), layer) = {u[key]}
            ELSE Scenario.fields[key].missing = {u[key]}
      BY <1>11 DEF node
    <2>2. Scenario.kind = "part" /\ u = [key \in DOMAIN Scenario.fields |-> u[key]]
      BY <1>2, <1>3
    <2> HIDE DEF Fine
    <2> QED BY <2>1, <2>2, PartOfFields4
  <1> QED BY <1>1, <1>12 DEF node, u

(***************************************************************************)
(* Scenarios that are merged or canonical.                                 *)
(***************************************************************************)
LEMMA JoinedValues ==
  ASSUME NEW a, IsList(a), NEW b, IsList(b)
  PROVE  IsList(a \o b) /\ Ran(a \o b) = Ran(a) \cup Ran(b)
  <1> DEFINE c == a \o b
  <1>1. /\ IsList(c) /\ Len(c) = Len(a) + Len(b)
        /\ \A i \in 1 .. Len(a) : c[i] = a[i]
        /\ \A i \in Len(a) + 1 .. Len(a) + Len(b) : c[i] = b[i - Len(a)]
    BY ListJoined
  <1>2. DOMAIN a = 1 .. Len(a) /\ DOMAIN b = 1 .. Len(b) /\ Len(a) \in Nat /\ Len(b) \in Nat
    BY ListIs
  <1> HIDE DEF c
  <1>3. DOMAIN c = 1 .. Len(a) + Len(b)
    BY <1>1, ListIs
  <1>4. ASSUME NEW i \in DOMAIN c PROVE c[i] \in Ran(a) \cup Ran(b)
    <2>1. CASE i <= Len(a)
      BY <1>1, <1>2, <1>3, <2>1 DEF Ran
    <2>2. CASE ~(i <= Len(a))
      <3>1. i - Len(a) \in DOMAIN b /\ c[i] = b[i - Len(a)]
        BY <1>1, <1>2, <1>3, <2>2
      <3> QED BY <3>1 DEF Ran
    <2> QED BY <2>1, <2>2
  <1>5. ASSUME NEW i \in DOMAIN a PROVE a[i] \in Ran(c)
    <2>1. i \in DOMAIN c /\ c[i] = a[i]
      BY <1>1, <1>2, <1>3
    <2> QED BY <2>1 DEF Ran
  <1>6. ASSUME NEW i \in DOMAIN b PROVE b[i] \in Ran(c)
    <2>1. /\ Len(a) + i \in Len(a) + 1 .. Len(a) + Len(b) /\ (Len(a) + i) - Len(a) = i
          /\ Len(a) + i \in DOMAIN c
      BY <1>2, <1>3
    <2>2. c[Len(a) + i] = b[i]
      BY <1>1, <2>1
    <2> QED BY <2>1, <2>2 DEF Ran
  <1>7. Ran(c) \subseteq Ran(a) \cup Ran(b)
    BY <1>4 DEF Ran
  <1>8. Ran(a) \cup Ran(b) \subseteq Ran(c)
    BY <1>5, <1>6 DEF Ran
  <1> QED BY <1>1, <1>7, <1>8 DEF c

LEMMA JoinedIs ==
  ASSUME NEW dst, NEW src, NEW id, NEW v \in Joined(dst, src, id)
  PROVE  v = dst \o src
  BY DEF Joined

LEMMA JoinedKeeps ==
  ASSUME NEW dst, IsList(dst), NEW src, IsList(src), NEW id, NEW v \in Joined(dst, src, id)
  PROVE  IsList(v) /\ \A i \in DOMAIN v : v[i] \in Ran(dst) \cup Ran(src)
  <1>1. v = dst \o src
    BY JoinedIs
  <1>2. IsList(v) /\ Ran(v) = Ran(dst) \cup Ran(src)
    BY <1>1, JoinedValues
  <1>3. \A i \in DOMAIN v : v[i] \in Ran(v)
    BY DEF Ran
  <1> QED BY <1>2, <1>3

LEMMA MergedLayerIs ==
  ASSUME NEW dst, NEW src, NEW ids, NEW v \in MergeLayer(dst, src, ids),
         dst # Nothing, src # Nothing
  PROVE  /\ v = [key \in DOMAIN dst |-> v[key]]
         /\ \A key \in DOMAIN dst :
              v[key] \in IF key \in DOMAIN ids THEN Joined(dst[key], src[key], ids[key])
                         ELSE {dst[key]}
  <1> DEFINE reads == [key \in DOMAIN dst |->
                IF key \in DOMAIN ids THEN Joined(dst[key], src[key], ids[key])
                ELSE {dst[key]}]
  <1>1. v \in Whole(reads)
    BY DEF MergeLayer
  <1>2. v = [x \in DOMAIN reads |-> v[x]] /\ \A x \in DOMAIN reads : v[x] \in reads[x]
    <2> HIDE DEF reads
    <2> QED BY <1>1, WholeGiven
  <1> QED BY <1>2

LEMMA MergedAgent ==
  ASSUME NEW dst, dst # Nothing => AgentMade(dst), NEW src, src # Nothing => AgentMade(src),
         NEW v \in MergeLayer(dst, src, AgentIds), v # Nothing
  PROVE  AgentMade(v)
  <1>1. CASE src = Nothing \/ dst = Nothing
    BY <1>1 DEF MergeLayer
  <1>2. CASE src # Nothing /\ dst # Nothing
    <2>1. /\ v = [key \in DOMAIN dst |-> v[key]]
          /\ \A key \in DOMAIN dst :
               v[key] \in IF key \in DOMAIN AgentIds THEN Joined(dst[key], src[key], AgentIds[key])
                          ELSE {dst[key]}
      BY <1>2, MergedLayerIs
    <2>2. AgentMade(dst) /\ AgentMade(src)
      BY <1>2
    <2>3. DOMAIN dst = DOMAIN AgentLayer.fields
      BY <2>2 DEF AgentMade
    <2>4. HeldField2(AgentLayer.fields["world"], v["world"])
      BY <2>1, <2>2, <2>3, AgentFields DEF AgentMade
    <2>5. ASSUME NEW key \in DOMAIN AgentIds
          PROVE  /\ IsList(v[key])
                 /\ \A i \in DOMAIN v[key] : Again2(AgentLayer.fields[key].kind.of, v[key][i])
      <3>1. v[key] \in Joined(dst[key], src[key], AgentIds[key])
        BY <2>1, <2>3, AgentFields
      <3>2. IsList(dst[key]) /\ IsList(src[key])
        BY <2>2 DEF AgentMade
      <3>3. IsList(v[key]) /\ \A i \in DOMAIN v[key] : v[key][i] \in Ran(dst[key]) \cup Ran(src[key])
        BY <3>1, <3>2, JoinedKeeps
      <3>4. \A row \in Ran(dst[key]) \cup Ran(src[key]) : Again2(AgentLayer.fields[key].kind.of, row)
        BY <2>2 DEF AgentMade, Ran
      <3> QED BY <3>3, <3>4
    <2> QED BY <2>1, <2>3, <2>4, <2>5 DEF AgentMade
  <1> QED BY <1>1, <1>2

LEMMA MergedTyped ==
  ASSUME NEW dst, dst # Nothing => TypedMade(dst), NEW src, src # Nothing => TypedMade(src),
         NEW v \in MergeLayer(dst, src, TypedIds), v # Nothing
  PROVE  TypedMade(v)
  <1>1. CASE src = Nothing \/ dst = Nothing
    BY <1>1 DEF MergeLayer
  <1>2. CASE src # Nothing /\ dst # Nothing
    <2>1. /\ v = [key \in DOMAIN dst |-> v[key]]
          /\ \A key \in DOMAIN dst :
               v[key] \in IF key \in DOMAIN TypedIds THEN Joined(dst[key], src[key], TypedIds[key])
                          ELSE {dst[key]}
      BY <1>2, MergedLayerIs
    <2>2. TypedMade(dst) /\ TypedMade(src)
      BY <1>2
    <2>3. DOMAIN dst = DOMAIN TypedLayer.fields
      BY <2>2 DEF TypedMade
    <2>4. HeldField2(TypedLayer.fields["world"], v["world"])
      BY <2>1, <2>2, <2>3, TypedFields DEF TypedMade
    <2>5. ASSUME NEW key \in DOMAIN TypedIds
          PROVE  IsList(v[key]) /\ \A i \in DOMAIN v[key] : TypedRowMade(key, v[key][i])
      <3>1. v[key] \in Joined(dst[key], src[key], TypedIds[key])
        BY <2>1, <2>3, TypedFields
      <3>2. IsList(dst[key]) /\ IsList(src[key])
        BY <2>2 DEF TypedMade
      <3>3. IsList(v[key]) /\ \A i \in DOMAIN v[key] : v[key][i] \in Ran(dst[key]) \cup Ran(src[key])
        BY <3>1, <3>2, JoinedKeeps
      <3>4. \A row \in Ran(dst[key]) \cup Ran(src[key]) : TypedRowMade(key, row)
        BY <2>2 DEF TypedMade, Ran
      <3> QED BY <3>3, <3>4
    <2> QED BY <2>1, <2>3, <2>4, <2>5 DEF TypedMade
  <1> QED BY <1>1, <1>2

LEMMA MergedScenarioIs ==
  ASSUME NEW dst, NEW src, NEW s \in MergeScenario(dst, src)
  PROVE  /\ s = [key \in DOMAIN dst |-> s[key]]
         /\ \A key \in DOMAIN dst :
              s[key] \in CASE key \in DOMAIN ListIds -> Joined(dst[key], src[key], ListIds[key])
                           [] key = "agent_layer" -> MergeLayer(dst[key], src[key], AgentIds)
                           [] key = "typed_layer" -> MergeLayer(dst[key], src[key], TypedIds)
                           [] OTHER -> {dst[key]}
  <1> DEFINE reads == [key \in DOMAIN dst |->
                CASE key \in DOMAIN ListIds -> Joined(dst[key], src[key], ListIds[key])
                  [] key = "agent_layer" -> MergeLayer(dst[key], src[key], AgentIds)
                  [] key = "typed_layer" -> MergeLayer(dst[key], src[key], TypedIds)
                  [] OTHER -> {dst[key]}]
  <1>1. s \in Whole(reads)
    BY DEF MergeScenario
  <1>2. s = [x \in DOMAIN reads |-> s[x]] /\ \A x \in DOMAIN reads : s[x] \in reads[x]
    <2> HIDE DEF reads
    <2> QED BY <1>1, WholeGiven
  <1> QED BY <1>2

LEMMA MergedScenarioMade ==
  ASSUME NEW dst, ScenarioMade(dst), NEW src, ScenarioMade(src), NEW s \in MergeScenario(dst, src)
  PROVE  ScenarioMade(s)
  <1>1. /\ s = [key \in DOMAIN dst |-> s[key]]
        /\ \A key \in DOMAIN dst :
              s[key] \in CASE key \in DOMAIN ListIds -> Joined(dst[key], src[key], ListIds[key])
                           [] key = "agent_layer" -> MergeLayer(dst[key], src[key], AgentIds)
                           [] key = "typed_layer" -> MergeLayer(dst[key], src[key], TypedIds)
                           [] OTHER -> {dst[key]}
    BY MergedScenarioIs
  <1>2. DOMAIN dst = DOMAIN Scenario.fields
    BY DEF ScenarioMade
  <1>3. ASSUME NEW key \in DOMAIN ListIds
        PROVE  IsList(s[key]) /\ \A i \in DOMAIN s[key] : SectionRowMade(key, s[key][i])
    <2>1. s[key] \in Joined(dst[key], src[key], ListIds[key])
      BY <1>1, <1>2, ScenarioFields
    <2>2. IsList(dst[key]) /\ IsList(src[key])
      BY DEF ScenarioMade
    <2>3. IsList(s[key]) /\ \A i \in DOMAIN s[key] : s[key][i] \in Ran(dst[key]) \cup Ran(src[key])
      BY <2>1, <2>2, JoinedKeeps
    <2>4. \A row \in Ran(dst[key]) \cup Ran(src[key]) : SectionRowMade(key, row)
      BY DEF ScenarioMade, Ran
    <2> QED BY <2>3, <2>4
  <1>4. \A key \in PlainSections \cup {"master_seed"} : s[key] = dst[key]
    <2>1. ASSUME NEW key \in PlainSections \cup {"master_seed"} PROVE s[key] = dst[key]
      <3>1. key \in DOMAIN dst /\ key \notin DOMAIN ListIds /\ key # "agent_layer" /\ key # "typed_layer"
        BY <1>2, ScenarioFields DEF PlainSections
      <3> QED BY <1>1, <3>1
    <2> QED BY <2>1
  <1>5. ASSUME s.agent_layer # Nothing PROVE AgentMade(s.agent_layer)
    <2>1. "agent_layer" \in DOMAIN dst /\ "agent_layer" \notin DOMAIN ListIds
      BY <1>2, ScenarioFields
    <2>2. s.agent_layer \in MergeLayer(dst.agent_layer, src.agent_layer, AgentIds)
      BY <1>1, <2>1
    <2>3. /\ dst.agent_layer # Nothing => AgentMade(dst.agent_layer)
          /\ src.agent_layer # Nothing => AgentMade(src.agent_layer)
      BY DEF ScenarioMade
    <2> QED BY <1>5, <2>2, <2>3, MergedAgent
  <1>6. ASSUME s.typed_layer # Nothing PROVE TypedMade(s.typed_layer)
    <2>1. "typed_layer" \in DOMAIN dst /\ "typed_layer" \notin DOMAIN ListIds
      BY <1>2, ScenarioFields
    <2>2. s.typed_layer \in MergeLayer(dst.typed_layer, src.typed_layer, TypedIds)
      BY <1>1, <2>1
    <2>3. /\ dst.typed_layer # Nothing => TypedMade(dst.typed_layer)
          /\ src.typed_layer # Nothing => TypedMade(src.typed_layer)
      BY DEF ScenarioMade
    <2> QED BY <1>6, <2>2, <2>3, MergedTyped
  <1>7. /\ \A key \in PlainSections : HeldField3(Scenario.fields[key], s[key])
        /\ Take("seed", s.master_seed) = {s.master_seed}
    BY <1>4 DEF ScenarioMade
  <1> QED BY <1>1, <1>2, <1>3, <1>5, <1>6, <1>7 DEF ScenarioMade

\* The function of an edge is any text.
LEMMA NameHeld2 == \A text : HeldField2(Required(Text), text)
  <1>1. ASSUME NEW text PROVE AgainField2(Text, text)
    <2>1. /\ Text.kind = "scalar" /\ Text.reader = "text" /\ Text.kind \notin Nested \cup {"part"}
      BY TableKinds
    <2>2. FieldNode2(Text, text) = Scalar(text)
      BY <2>1, LeafField2, ScalarLeaf DEF Printed
    <2>3. \A around, layer : Field2(Text, Scalar(text), around, layer) = Take("text", text)
      BY <2>1, LeafField2, ScalarLeaf, ScalarText
    <2>4. Take("text", text) = {text}
      BY DEF Take
    <2> QED BY <2>2, <2>3, <2>4 DEF AgainField2
  <1>2. ASSUME NEW text PROVE IsWritten(Required(Text), text)
    <2>1. Required(Text).written = "always"
      BY DEF Required
    <2> QED BY <2>1, WrittenWhen
  <1> QED BY <1>1, <1>2, TableKinds DEF HeldField2

LEMMA CanonicalIs ==
  ASSUME NEW s, s = [key \in DOMAIN Scenario.fields |-> s[key]]
  PROVE  /\ Canonical(s) = [key \in DOMAIN Scenario.fields |-> Canonical(s)[key]]
         /\ Canonical(s).dependency_edges =
              [i \in DOMAIN s.dependency_edges |-> CanonicalEdge(s.dependency_edges[i])]
         /\ \A key \in DOMAIN Scenario.fields \ {"dependency_edges"} : Canonical(s)[key] = s[key]
  <1>1. "dependency_edges" \in DOMAIN s
    BY ScenarioFields
  <1> QED BY <1>1 DEF Canonical

LEMMA CanonicalMade ==
  ASSUME NEW s, ScenarioMade(s)
  PROVE  ScenarioMade(Canonical(s)) /\ Canonical(s).typed_layer = s.typed_layer
  <1> DEFINE c == Canonical(s)
  <1>1. /\ c = [key \in DOMAIN Scenario.fields |-> c[key]]
        /\ c.dependency_edges = [i \in DOMAIN s.dependency_edges |-> CanonicalEdge(s.dependency_edges[i])]
        /\ \A key \in DOMAIN Scenario.fields \ {"dependency_edges"} : c[key] = s[key]
    BY CanonicalIs DEF ScenarioMade
  <1> HIDE DEF c
  <1>2. \A key \in DOMAIN Scenario.fields \ DOMAIN ListIds : c[key] = s[key]
    BY <1>1, ScenarioFields
  <1>3. c.typed_layer = s.typed_layer /\ c.agent_layer = s.agent_layer /\ c.master_seed = s.master_seed
    BY <1>2, ScenarioFields
  <1>4. \A key \in PlainSections : c[key] = s[key]
    BY <1>2, ScenarioFields
  <1>5. ASSUME NEW key \in DOMAIN ListIds, key # "dependency_edges"
        PROVE  IsList(c[key]) /\ \A i \in DOMAIN c[key] : SectionRowMade(key, c[key][i])
    <2>1. c[key] = s[key]
      BY <1>1, <1>5, ScenarioFields
    <2> QED BY <2>1 DEF ScenarioMade
  <1>6. /\ IsList(c["dependency_edges"])
        /\ \A i \in DOMAIN c["dependency_edges"] : SectionRowMade("dependency_edges", c["dependency_edges"][i])
    <2> DEFINE v == s.dependency_edges
               w == c.dependency_edges
    <2>1. IsList(v) /\ \A i \in DOMAIN v : HeldPart2(Edge, v[i])
      BY ScenarioFields DEF ScenarioMade, SectionRowMade
    <2>2. w = [i \in DOMAIN v |-> CanonicalEdge(v[i])]
      BY <1>1
    <2>3. IsList(w)
      <3>1. DOMAIN w = DOMAIN v /\ w = [i \in DOMAIN w |-> w[i]]
        BY <2>2
      <3> HIDE DEF v, w
      <3> QED BY <2>1, <3>1, ListLike
    <2>4. ASSUME NEW i \in DOMAIN v PROVE HeldPart2(Edge, CanonicalEdge(v[i]))
      <3> DEFINE e == v[i]
                 f == CanonicalEdge(e)
      <3>1. /\ Edge.kind = "part" /\ e = [k \in DOMAIN Edge.fields |-> e[k]]
            /\ \A k \in DOMAIN Edge.fields : HeldField2(Edge.fields[k], e[k])
        BY <2>1 DEF HeldPart2
      <3>2. /\ "propagation_function_id" \in DOMAIN Edge.fields
            /\ Edge.fields["propagation_function_id"] = Required(Text)
        BY DEF Edge, Part
      <3>3. /\ f = [k \in DOMAIN Edge.fields |-> f[k]]
            /\ \A k \in DOMAIN Edge.fields \ {"propagation_function_id"} : f[k] = e[k]
        BY <3>1, <3>2 DEF CanonicalEdge
      <3>4. HeldField2(Edge.fields["propagation_function_id"], f["propagation_function_id"])
        BY <3>2, NameHeld2
      <3> HIDE DEF f, e
      <3>5. HeldPart2(Edge, f)
        BY <3>1, <3>3, <3>4 DEF HeldPart2
      <3> QED BY <3>5 DEF f, e
    <2> QED BY <2>2, <2>3, <2>4 DEF SectionRowMade
  <1>7. ScenarioMade(c)
    <2>1. \A key \in DOMAIN ListIds :
            IsList(c[key]) /\ \A i \in DOMAIN c[key] : SectionRowMade(key, c[key][i])
      BY <1>5, <1>6
    <2>2. /\ \A key \in PlainSections : HeldField3(Scenario.fields[key], c[key])
          /\ Take("seed", c.master_seed) = {c.master_seed}
          /\ c.agent_layer # Nothing => AgentMade(c.agent_layer)
          /\ c.typed_layer # Nothing => TypedMade(c.typed_layer)
      BY <1>3, <1>4 DEF ScenarioMade
    <2> QED BY <1>1, <2>1, <2>2 DEF ScenarioMade
  <1> QED BY <1>3, <1>7 DEF c

(***************************************************************************)
(* The lists of the documents at hand are sequences.                       *)
(***************************************************************************)
LEMMA FitsList ==
  ASSUME NEW node
  PROVE  ListsAreSequences(node) <=> \A key \in KeysOf(node) : IsList(ItemsOf(node.at[key]))
  BY DEF ListsAreSequences, IsList, Ran

LEMMA ListNode3 ==
  ASSUME NEW kind, kind.kind = "list", NEW v, IsList(v)
  PROVE  IsList(ItemsOf(FieldNode3(kind, v)))
  <1> DEFINE items == [i \in DOMAIN v |-> Write3(kind.of, v[i])]
  <1>1. FieldNode3(kind, v) = Sequence(items)
    BY DEF FieldNode3, WriteField
  <1>2. ItemsOf(FieldNode3(kind, v)) = items
    BY <1>1, ComputedIs DEF Sequence, ItemsOf
  <1>3. DOMAIN items = DOMAIN v /\ items = [i \in DOMAIN items |-> items[i]]
    OBVIOUS
  <1> HIDE DEF items
  <1>4. IsList(items)
    BY <1>3, ListLike
  <1> QED BY <1>2, <1>4

LEMMA ListNode2 ==
  ASSUME NEW kind, kind.kind = "list", NEW v, IsList(v)
  PROVE  IsList(ItemsOf(FieldNode2(kind, v)))
  <1> DEFINE items == [i \in DOMAIN v |-> Write2(kind.of, v[i])]
  <1>1. ItemsOf(FieldNode2(kind, v)) = items
    BY ListWritten2
  <1>2. DOMAIN items = DOMAIN v /\ items = [i \in DOMAIN items |-> items[i]]
    OBVIOUS
  <1> HIDE DEF items
  <1>3. IsList(items)
    BY <1>2, ListLike
  <1> QED BY <1>1, <1>3

\* Scalars and structs have no items.
LEMMA NoItems ==
  ASSUME NEW node, node.node # "sequence"
  PROVE  IsList(ItemsOf(node))
  BY EmptyList DEF ItemsOf

LEMMA WorldNode ==
  ASSUME NEW kind, kind.kind = "part", NEW v
  PROVE  IsList(ItemsOf(FieldNode2(kind, v)))
  <1>1. kind.kind \notin Nested
    BY DEF Nested
  <1>2. FieldNode2(kind, v) = Write2(kind, v)
    BY <1>1, PlainField2
  <1>3. Write2(kind, v).node = "map"
    BY PartWritten2
  <1> QED BY <1>2, <1>3, NoItems

LEMMA LayerFits ==
  ASSUME NEW kind \in {AgentLayer, TypedLayer}, NEW l,
         kind = AgentLayer => AgentMade(l), kind = TypedLayer => TypedMade(l)
  PROVE  ListsAreSequences(Write3(kind, l))
  <1> DEFINE node == Write3(kind, l)
             ids == IF kind = AgentLayer THEN AgentIds ELSE TypedIds
  <1>1. /\ kind.kind = "part" /\ DOMAIN kind.fields = {"world"} \cup DOMAIN ids
        /\ kind.fields["world"] \in {Required(AgentWorld), Required(TypedWorld)}
        /\ \A key \in DOMAIN ids : \E of : kind.fields[key] = Listed(ListOf(of))
        /\ \A key \in DOMAIN ids : IsList(l[key])
    <2>1. AgentLayer.fields["world"] = Required(AgentWorld)
      BY DEF AgentLayer, Part
    <2>2. TypedLayer.fields["world"] = Required(TypedWorld)
      BY DEF TypedLayer, Part
    <2>3. CASE kind = AgentLayer
      BY <2>1, <2>3, AgentFields DEF AgentMade
    <2>4. CASE kind # AgentLayer
      <3>1. kind = TypedLayer /\ TypedMade(l)
        BY <2>4
      <3> QED BY <2>2, <2>4, <3>1, TypedFields DEF TypedMade
    <2> QED BY <2>3, <2>4
  <1>2. /\ node.node = "map" /\ DOMAIN node.at \subseteq DOMAIN kind.fields
        /\ \A key \in DOMAIN node.at : node.at[key] = FieldNode2(kind.fields[key].kind, l[key])
    BY <1>1, PartWritten3
  <1> HIDE DEF node, ids
  <1>3. ASSUME NEW key \in DOMAIN node.at PROVE IsList(ItemsOf(node.at[key]))
    <2>1. CASE key = "world"
      <3>1. PICK world \in {AgentWorld, TypedWorld} : kind.fields["world"] = Required(world)
        BY <1>1
      <3>2. world.kind = "part" /\ Required(world).kind = world
        BY Level2Structs DEF Required
      <3> QED BY <1>2, <2>1, <3>1, <3>2, WorldNode
    <2>2. CASE key \in DOMAIN ids
      <3>1. PICK of : kind.fields[key] = Listed(ListOf(of))
        BY <1>1, <2>2
      <3>2. kind.fields[key].kind = ListOf(of) /\ ListOf(of).kind = "list"
        BY <3>1, TableKinds
      <3>3. IsList(l[key])
        BY <1>1, <2>2
      <3>4. IsList(ItemsOf(FieldNode2(ListOf(of), l[key])))
        BY <3>2, <3>3, ListNode2
      <3> QED BY <1>2, <3>2, <3>4
    <2> QED BY <1>1, <1>2, <2>1, <2>2
  <1>4. ListsAreSequences(node)
    BY <1>2, <1>3, FitsList DEF KeysOf
  <1> QED BY <1>4 DEF node

LEMMA MissingFits == ListsAreSequences(Missing) /\ IsList(ItemsOf(Missing))
  <1>1. Missing.node = "missing"
    BY DEF Missing
  <1> QED BY <1>1, EmptyList DEF ListsAreSequences, KeysOf, ItemsOf

LEMMA SerializedAt ==
  ASSUME NEW s, NEW key \in DOMAIN Scenario.fields
  PROVE  At(Serialize(s), key) =
           IF IsWritten(Scenario.fields[key], s[key])
           THEN FieldNode3(Scenario.fields[key].kind, s[key]) ELSE Missing
  <1>1. Scenario.kind = "part"
    BY ScenarioFields
  <1>2. /\ Serialize(s).node = "map"
        /\ DOMAIN Serialize(s).at = {k \in DOMAIN Scenario.fields : IsWritten(Scenario.fields[k], s[k])}
        /\ \A k \in DOMAIN Serialize(s).at : Serialize(s).at[k] = FieldNode3(Scenario.fields[k].kind, s[k])
    BY <1>1, PartWritten4 DEF Serialize
  <1> QED BY <1>2 DEF At, KeysOf

LEMMA LayerNode3 ==
  ASSUME NEW kind, kind.kind = "part", NEW v
  PROVE  FieldNode3(kind, v) = Write3(kind, v) /\ Write3(kind, v).node = "map"
  <1>1. kind.kind \notin Nested
    BY DEF Nested
  <1> QED BY <1>1, PlainField3, PartWritten3

LEMMA ScalarNode3 ==
  ASSUME NEW kind, kind.kind = "scalar", NEW v
  PROVE  FieldNode3(kind, v).node = "scalar"
  <1>1. kind.kind \notin Nested \cup {"part"}
    BY DEF Nested
  <1> QED BY <1>1, LeafField3, ScalarLeaf DEF Scalar

LEMMA SerializedFits ==
  ASSUME NEW s, ScenarioMade(s)
  PROVE  DocFits(Serialize(s))
  <1> DEFINE doc == Serialize(s)
  <1>1. ASSUME NEW key \in DOMAIN Scenario.fields
        PROVE  At(doc, key) = Missing \/ At(doc, key) = FieldNode3(Scenario.fields[key].kind, s[key])
    BY SerializedAt
  <1> HIDE DEF doc
  <1>2. ASSUME NEW key \in CoreKeys PROVE IsList(ItemsOf(At(doc, key)))
    <2>1. CASE At(doc, key) = Missing
      BY <2>1, MissingFits
    <2>2. CASE At(doc, key) = FieldNode3(Scenario.fields[key].kind, s[key])
      <3>1. CASE key \in DOMAIN ListIds
        <4>1. /\ Scenario.fields[key].kind = ListOf(SectionKind(key))
              /\ ListOf(SectionKind(key)).kind = "list"
          BY <3>1, ScenarioFields, TableKinds
        <4>2. IsList(s[key])
          BY <3>1 DEF ScenarioMade
        <4> QED BY <2>2, <4>1, <4>2, ListNode3
      <3>2. CASE key \in {"scenario_id", "schema_version", "master_seed", "goal_statement"}
        <4>1. /\ Scenario.fields["scenario_id"] = Required(Text)
              /\ Scenario.fields["schema_version"] = Required(Text)
              /\ Scenario.fields["master_seed"] = Required(Of("seed"))
              /\ Scenario.fields["goal_statement"] = Required(Of("goal"))
          BY DEF Scenario, Part
        <4>2. Text.kind = "scalar" /\ Of("seed").kind = "scalar" /\ Of("goal").kind = "scalar"
          BY DEF Text, Of
        <4>3. \A kind : Required(kind).kind = kind
          BY DEF Required
        <4>4. Scenario.fields[key].kind.kind = "scalar"
          BY <3>2, <4>1, <4>2, <4>3
        <4>5. At(doc, key).node = "scalar"
          BY <2>2, <4>4, ScalarNode3
        <4> QED BY <4>5, NoItems
      <3>3. CASE key \in {"metadata", "agent_layer", "typed_layer"}
        <4>1. /\ Scenario.fields["metadata"] = Optional(Metadata)
              /\ Scenario.fields["agent_layer"] = Optional(AgentLayer)
              /\ Scenario.fields["typed_layer"] = Optional(TypedLayer)
          BY DEF Scenario, Part
        <4>2. Metadata.kind = "part" /\ AgentLayer.kind = "part" /\ TypedLayer.kind = "part"
          BY DEF Metadata, AgentLayer, TypedLayer, Part
        <4>3. \A kind : Optional(kind).kind = kind
          BY DEF Optional
        <4>4. Scenario.fields[key].kind.kind = "part"
          BY <3>3, <4>1, <4>2, <4>3
        <4>5. At(doc, key).node = "map"
          BY <2>2, <4>4, LayerNode3
        <4> QED BY <4>5, NoItems
      <3> QED BY <3>1, <3>2, <3>3, ScenarioFields DEF CoreKeys, PlainSections
    <2> QED BY <1>1, <2>1, <2>2 DEF CoreKeys
  <1>3. ListsAreSequences(At(doc, "agent_layer"))
    <2>1. /\ Scenario.fields["agent_layer"] = Optional(AgentLayer)
          /\ "agent_layer" \in DOMAIN Scenario.fields /\ AgentLayer.kind = "part"
      BY ScenarioFields, AgentFields
    <2>2. Optional(AgentLayer).kind = AgentLayer /\ Optional(AgentLayer).written = "given"
      BY DEF Optional
    <2>3. CASE s.agent_layer = Nothing
      <3>1. ~IsWritten(Scenario.fields["agent_layer"], s["agent_layer"])
        BY <2>1, <2>2, <2>3, WrittenWhen
      <3>2. At(doc, "agent_layer") = Missing
        BY <2>1, <3>1, SerializedAt DEF doc
      <3> QED BY <3>2, MissingFits
    <2>4. CASE s.agent_layer # Nothing
      <3>1. CASE At(doc, "agent_layer") = Missing
        BY <3>1, MissingFits
      <3>2. CASE At(doc, "agent_layer") = Write3(AgentLayer, s.agent_layer)
        <4>1. AgentMade(s.agent_layer)
          BY <2>4 DEF ScenarioMade
        <4>2. AgentLayer # TypedLayer
          <5>1. "agents" \in DOMAIN AgentLayer.fields /\ "agents" \notin DOMAIN TypedLayer.fields
            BY DEF AgentLayer, TypedLayer, Part
          <5> QED BY <5>1
        <4> QED BY <3>2, <4>1, <4>2, LayerFits
      <3> QED BY <1>1, <2>1, <2>2, <3>1, <3>2, LayerNode3
    <2> QED BY <2>3, <2>4
  <1>4. ListsAreSequences(At(doc, "typed_layer"))
    <2>1. /\ Scenario.fields["typed_layer"] = Optional(TypedLayer)
          /\ "typed_layer" \in DOMAIN Scenario.fields /\ TypedLayer.kind = "part"
      BY ScenarioFields, TypedFields
    <2>2. Optional(TypedLayer).kind = TypedLayer /\ Optional(TypedLayer).written = "given"
      BY DEF Optional
    <2>3. CASE s.typed_layer = Nothing
      <3>1. ~IsWritten(Scenario.fields["typed_layer"], s["typed_layer"])
        BY <2>1, <2>2, <2>3, WrittenWhen
      <3>2. At(doc, "typed_layer") = Missing
        BY <2>1, <3>1, SerializedAt DEF doc
      <3> QED BY <3>2, MissingFits
    <2>4. CASE s.typed_layer # Nothing
      <3>1. CASE At(doc, "typed_layer") = Missing
        BY <3>1, MissingFits
      <3>2. CASE At(doc, "typed_layer") = Write3(TypedLayer, s.typed_layer)
        <4>1. TypedMade(s.typed_layer)
          BY <2>4 DEF ScenarioMade
        <4>2. AgentLayer # TypedLayer
          <5>1. "agents" \in DOMAIN AgentLayer.fields /\ "agents" \notin DOMAIN TypedLayer.fields
            BY DEF AgentLayer, TypedLayer, Part
          <5> QED BY <5>1
        <4> QED BY <3>2, <4>1, <4>2, LayerFits
      <3> QED BY <1>1, <2>1, <2>2, <3>1, <3>2, LayerNode3
    <2> QED BY <2>3, <2>4
  <1> QED BY <1>2, <1>3, <1>4 DEF DocFits, doc

(***************************************************************************)
(* Documents that are cut to the core schema, put together, or lowered.    *)
(***************************************************************************)
LEMMA LayersCore == {"agent_layer", "typed_layer"} \subseteq CoreKeys
  BY ScenarioFields DEF CoreKeys

\* What DocFits says of a document depends on its core keys only.
LEMMA FitsAlike ==
  ASSUME NEW doc, DocFits(doc), NEW other, \A key \in CoreKeys : At(other, key) = At(doc, key)
  PROVE  DocFits(other)
  BY LayersCore DEF DocFits

LEMMA SanitizedFits ==
  ASSUME NEW doc, DocFits(doc)
  PROVE  DocFits(Sanitized(doc))
  <1>1. CASE doc.node = "map"
    <2>1. /\ Sanitized(doc).node = "map"
          /\ Sanitized(doc).at = [key \in DOMAIN doc.at \cap CoreKeys |-> doc.at[key]]
      BY <1>1, ComputedIs DEF Sanitized, Map, KeysOf
    <2>2. ASSUME NEW key \in CoreKeys PROVE At(Sanitized(doc), key) = At(doc, key)
      BY <1>1, <2>1 DEF At, KeysOf
    <2> QED BY <2>2, FitsAlike
  <1>2. CASE doc.node # "map"
    BY <1>2 DEF Sanitized
  <1> QED BY <1>1, <1>2

LEMMA OverAt ==
  ASSUME NEW f, NEW g
  PROVE  /\ Map(Over(f, g)).node = "map"
         /\ DOMAIN Map(Over(f, g)).at = DOMAIN f \cup DOMAIN g
         /\ \A x \in DOMAIN f : Map(Over(f, g)).at[x] = f[x]
         /\ \A x \in DOMAIN g \ DOMAIN f : Map(Over(f, g)).at[x] = g[x]
  BY ComputedIs DEF Map, Over

LEMMA PutTogetherFits ==
  ASSUME NEW doc, doc.node = "map", DocFits(doc), NEW blocks, DOMAIN blocks \cap CoreKeys = {}
  PROVE  DocFits(Map(Over(doc.at, blocks)))
  <1>1. ASSUME NEW key \in CoreKeys PROVE At(Map(Over(doc.at, blocks)), key) = At(doc, key)
    BY OverAt DEF At, KeysOf
  <1> QED BY <1>1, FitsAlike

LEMMA TupleLists ==
  ASSUME NEW a, NEW b, NEW c
  PROVE  IsList(<<a>>) /\ IsList(<<a, b>>) /\ IsList(<<a, b, c>>)
  <1>1. /\ Len(<<a>>) = 1 /\ Len(<<a, b>>) = 2 /\ Len(<<a, b, c>>) = 3
    OBVIOUS
  <1>2. /\ DOMAIN <<a>> = 1 .. 1 /\ DOMAIN <<a, b>> = 1 .. 2 /\ DOMAIN <<a, b, c>> = 1 .. 3
    OBVIOUS
  <1>3. <<a>> = [i \in DOMAIN <<a>> |-> <<a>>[i]]
    OBVIOUS
  <1>4. <<a, b>> = [i \in DOMAIN <<a, b>> |-> <<a, b>>[i]]
    OBVIOUS
  <1>5. <<a, b, c>> = [i \in DOMAIN <<a, b, c>> |-> <<a, b, c>>[i]]
    OBVIOUS
  <1>6. IsList(<<a>>)
    <2> DEFINE list == <<a>>
    <2>1. DOMAIN list = 1 .. 1 /\ list = [i \in DOMAIN list |-> list[i]]
      BY <1>2, <1>3
    <2> HIDE DEF list
    <2>2. IsList(list)
      BY <2>1, ListMade
    <2> QED BY <2>2 DEF list
  <1>7. IsList(<<a, b>>)
    <2> DEFINE list == <<a, b>>
    <2>1. DOMAIN list = 1 .. 2 /\ list = [i \in DOMAIN list |-> list[i]]
      BY <1>2, <1>4
    <2> HIDE DEF list
    <2>2. IsList(list)
      BY <2>1, ListMade
    <2> QED BY <2>2 DEF list
  <1>8. IsList(<<a, b, c>>)
    <2> DEFINE list == <<a, b, c>>
    <2>1. DOMAIN list = 1 .. 3 /\ list = [i \in DOMAIN list |-> list[i]]
      BY <1>2, <1>5
    <2> HIDE DEF list
    <2>2. IsList(list)
      BY <2>1, ListMade
    <2> QED BY <2>2 DEF list
  <1> QED BY <1>6, <1>7, <1>8

LEMMA AddedLists ==
  ASSUME NEW root, NEW set
  PROVE  /\ DOMAIN AcmeAdds(root, set) = DOMAIN ListIds /\ DOMAIN CivicAdds(root, set) = DOMAIN ListIds
         /\ \A key \in DOMAIN ListIds :
              IsList(AcmeAdds(root, set)[key]) /\ IsList(CivicAdds(root, set)[key])
  <1>1. /\ DOMAIN ListIds = {"assumptions", "entities", "variables", "dependency_edges", "constraints",
                             "events", "evaluation_criteria"}
        /\ DOMAIN AcmeAdds(root, set) = DOMAIN ListIds /\ DOMAIN CivicAdds(root, set) = DOMAIN ListIds
    BY DEF ListIds, AcmeAdds, CivicAdds
  <1>2. ASSUME NEW key \in DOMAIN ListIds PROVE IsList(AcmeAdds(root, set)[key])
    <2> DEFINE adds == AcmeAdds(root, set)
    <2>1. IsList(adds["assumptions"])
      BY TupleLists, EmptyList DEF AcmeAdds
    <2>2. IsList(adds["entities"])
      BY TupleLists, EmptyList DEF AcmeAdds
    <2>3. IsList(adds["variables"])
      BY TupleLists, EmptyList DEF AcmeAdds
    <2>4. IsList(adds["dependency_edges"])
      BY TupleLists, EmptyList DEF AcmeAdds
    <2>5. IsList(adds["constraints"])
      BY TupleLists, EmptyList DEF AcmeAdds
    <2>6. IsList(adds["events"])
      BY TupleLists, EmptyList DEF AcmeAdds
    <2>7. IsList(adds["evaluation_criteria"])
      BY TupleLists, EmptyList DEF AcmeAdds
    <2> HIDE DEF adds
    <2>8. IsList(adds[key])
      BY <1>1, <2>1, <2>2, <2>3, <2>4, <2>5, <2>6, <2>7
    <2> QED BY <2>8 DEF adds
  <1>3. ASSUME NEW key \in DOMAIN ListIds PROVE IsList(CivicAdds(root, set)[key])
    <2> DEFINE adds == CivicAdds(root, set)
    <2>1. IsList(adds["assumptions"])
      BY TupleLists, EmptyList DEF CivicAdds
    <2>2. IsList(adds["entities"])
      BY TupleLists, EmptyList DEF CivicAdds
    <2>3. IsList(adds["variables"])
      BY TupleLists, EmptyList DEF CivicAdds
    <2>4. IsList(adds["dependency_edges"])
      BY TupleLists, EmptyList DEF CivicAdds
    <2>5. IsList(adds["constraints"])
      BY TupleLists, EmptyList DEF CivicAdds
    <2>6. IsList(adds["events"])
      BY TupleLists, EmptyList DEF CivicAdds
    <2>7. IsList(adds["evaluation_criteria"])
      BY TupleLists, EmptyList DEF CivicAdds
    <2> HIDE DEF adds
    <2>8. IsList(adds[key])
      BY <1>1, <2>1, <2>2, <2>3, <2>4, <2>5, <2>6, <2>7
    <2> QED BY <2>8 DEF adds
  <1> QED BY <1>1, <1>2, <1>3

LEMMA SequenceItems == \A items : ItemsOf(Sequence(items)) = items
  BY ComputedIs DEF Sequence, ItemsOf

\* What an extension makes of a document.
AddsOf(root, id, set) == IF id = Acme THEN AcmeAdds(root, set) ELSE CivicAdds(root, set)
LoweredBy(root, id, adds) ==
  Map([key \in Remaining(root, id) |->
         IF key \in DOMAIN adds THEN Sequence(ItemsOf(root.at[key]) \o adds[key]) ELSE root.at[key]])
SettingsOf(root, id) == Whole([key \in DOMAIN Settings[id] |-> Setting(id, At(root, id), key)])

LEMMA TransformedIs ==
  ASSUME NEW root, NEW id
  PROVE  Transformed(root, id) =
           IF At(root, id) = Missing THEN {root}
           ELSE {LoweredBy(root, id, AddsOf(root, id, set)) : set \in SettingsOf(root, id)}
  BY DEF Transformed, LoweredBy, AddsOf, SettingsOf

LEMMA LoweredKeys ==
  ASSUME NEW root, NEW id, NEW adds
  PROVE  /\ LoweredBy(root, id, adds).node = "map"
         /\ DOMAIN LoweredBy(root, id, adds).at = DOMAIN root.at \ {id}
         /\ \A key \in DOMAIN root.at \ {id} :
              LoweredBy(root, id, adds).at[key] =
                IF key \in DOMAIN adds THEN Sequence(ItemsOf(root.at[key]) \o adds[key])
                ELSE root.at[key]
  BY ComputedIs DEF LoweredBy, Map, Remaining

LEMMA TransformedFits ==
  ASSUME NEW root, root.node = "map", DocFits(root), NEW id, id \notin CoreKeys,
         NEW next \in Transformed(root, id)
  PROVE  next.node = "map" /\ DocFits(next)
  <1>1. CASE At(root, id) = Missing
    BY <1>1, TransformedIs
  <1>2. CASE At(root, id) # Missing
    <2>1. PICK set \in SettingsOf(root, id) : next = LoweredBy(root, id, AddsOf(root, id, set))
      BY <1>2, TransformedIs
    <2> DEFINE adds == AddsOf(root, id, set)
    <2>2. DOMAIN adds = DOMAIN ListIds /\ \A key \in DOMAIN ListIds : IsList(adds[key])
      BY AddedLists DEF AddsOf
    <2> HIDE DEF adds
    <2>3. /\ next.node = "map" /\ DOMAIN next.at = DOMAIN root.at \ {id}
          /\ \A key \in DOMAIN root.at \ {id} :
               next.at[key] = IF key \in DOMAIN adds THEN Sequence(ItemsOf(root.at[key]) \o adds[key])
                              ELSE root.at[key]
      BY <2>1, LoweredKeys DEF adds
    <2>4. ASSUME NEW key \in CoreKeys \ DOMAIN ListIds PROVE At(next, key) = At(root, key)
      BY <2>2, <2>3 DEF At, KeysOf
    <2>5. ASSUME NEW key \in DOMAIN ListIds PROVE IsList(ItemsOf(At(next, key)))
      <3>1. key \in CoreKeys
        BY ScenarioFields DEF CoreKeys
      <3>2. CASE key \in DOMAIN root.at
        <4>1. At(root, key) = root.at[key]
          BY <3>2 DEF At, KeysOf
        <4>2. IsList(ItemsOf(root.at[key]))
          BY <3>1, <4>1 DEF DocFits
        <4>3. At(next, key) = Sequence(ItemsOf(root.at[key]) \o adds[key])
          BY <2>2, <2>3, <3>1, <3>2 DEF At, KeysOf
        <4>4. ItemsOf(At(next, key)) = ItemsOf(root.at[key]) \o adds[key]
          BY <4>3, SequenceItems
        <4> QED BY <2>2, <4>2, <4>4, ListJoined
      <3>3. CASE key \notin DOMAIN root.at
        <4>1. At(next, key) = Missing
          BY <2>3, <3>3 DEF At, KeysOf
        <4> QED BY <4>1, MissingFits
      <3> QED BY <3>2, <3>3
    <2>6. {"agent_layer", "typed_layer"} \subseteq CoreKeys \ DOMAIN ListIds
      BY LayersCore, ScenarioFields
    <2>7. DocFits(next)
      BY <2>4, <2>5, <2>6 DEF DocFits
    <2> QED BY <2>3, <2>7
  <1> QED BY <1>1, <1>2

(***************************************************************************)
(* The scenario at hand is one that the program makes, at every stage; and *)
(* its typed values have the types that it declares itself whenever it was *)
(* read from one document.                                                 *)
(***************************************************************************)
SelfTyped == LayerAgain(authoring.scenario.typed_layer) = authoring.scenario.typed_layer
ScenarioKept == ScenarioMade(authoring.scenario) /\ DOMAIN authoring.blocks \cap CoreKeys = {}

ScenarioInv ==
  /\ \A path \in DOMAIN files : DocFits(files[path])
  /\ stage = "read" => lowered = Null
  /\ stage = "read" /\ at # 0 => ScenarioKept /\ (at = 1 => SelfTyped)
  /\ stage \in Busy => ScenarioKept
  /\ stage \in {"check", "transform"} => lowered.node = "map" /\ DocFits(lowered)
  /\ stage \in {"finish", "resolved"} /\ (Imports = <<>> \/ lowered # Null) => SelfTyped
  /\ stage = "resolved" => texts[Len(texts)] = Serialize(authoring.scenario)

LEMMA FilesFit ==
  ASSUME NEW doc, \A node \in {doc, At(doc, "agent_layer"), At(doc, "typed_layer")} : ListsAreSequences(node)
  PROVE  DocFits(doc)
  BY ListReads DEF DocFits

LEMMA ScenarioStarts ==
  ASSUME Init
  PROVE  ScenarioInv
  <1>1. \A path \in DOMAIN files : DocFits(files[path])
    BY FilesAssumption, FilesFit DEF Init
  <1> QED BY <1>1 DEF Init, ScenarioInv, Busy

LEMMA ScenarioFails ==
  ASSUME ScenarioInv, Fail
  PROVE  ScenarioInv'
  BY DEF ScenarioInv, Fail, Busy

LEMMA AuthoredMade ==
  ASSUME NEW doc, DocFits(doc), NEW own, own.scenario \in Deserialize(Sanitized(doc))
  PROVE  /\ ScenarioMade(own.scenario)
         /\ LayerAgain(own.scenario.typed_layer) = own.scenario.typed_layer
  BY SanitizedFits, ScenarioGiven

LEMMA ScenarioRoot ==
  ASSUME DeclarationInv, ScenarioInv, ReadRoot
  PROVE  ScenarioInv'
  <1>1. CASE Fail
    BY <1>1, ScenarioFails
  <1>2. CASE ~Fail
    <2>1. /\ stage = "read" /\ at = 0 /\ authoring' \in Authored(files[Root])
          /\ at' = 1 /\ UNCHANGED <<files, stage, lowered, texts>>
      BY <1>2 DEF ReadRoot
    <2>2. Root \in DOMAIN files /\ IsList(ItemsOf(At(files[Root], "extensions")))
      BY DEF DeclarationInv, FilesSound
    <2>3. DocFits(files[Root])
      BY <2>2 DEF ScenarioInv
    <2>4. /\ authoring'.scenario \in Deserialize(Sanitized(files[Root]))
          /\ authoring'.blocks = ExtensionBlocks(files[Root])
      BY <2>1, <2>2, AuthoredGives
    <2>5. SelfTyped' /\ ScenarioMade(authoring'.scenario)
      BY <2>3, <2>4, AuthoredMade DEF SelfTyped
    <2>6. DOMAIN authoring'.blocks \cap CoreKeys = {}
      BY <2>4, BlocksOf
    <2>7. ScenarioKept'
      BY <2>5, <2>6 DEF ScenarioKept
    <2> QED BY <2>1, <2>5, <2>7 DEF ScenarioInv, Busy
  <1> QED BY <1>1, <1>2

LEMMA ScenarioImport ==
  ASSUME DeclarationInv, ScenarioInv, ReadImport
  PROVE  ScenarioInv'
  <1>1. CASE Fail
    BY <1>1, ScenarioFails
  <1>2. CASE ~Fail
    <2> DEFINE path == TextOf(At(Imports[at], "path"))
    <2>1. PICK own : /\ path \in DOMAIN files
                     /\ own \in Authored(files[path])
                     /\ authoring' \in Composed(authoring, own)
      BY <1>2 DEF ReadImport
    <2>2. /\ stage = "read" /\ at \in DOMAIN Imports
          /\ at' = at + 1 /\ UNCHANGED <<files, stage, lowered, texts>>
      BY <1>2 DEF ReadImport
    <2>3. at \in Nat /\ at # 0
      <3>1. DOMAIN Imports = 1 .. Len(Imports) /\ Len(Imports) \in Nat
        BY ListIs DEF DeclarationInv, FilesSound
      <3> QED BY <2>2, <3>1
    <2>4. DocFits(files[path]) /\ IsList(ItemsOf(At(files[path], "extensions")))
      BY <2>1 DEF ScenarioInv, DeclarationInv, FilesSound
    <2>5. /\ own.scenario \in Deserialize(Sanitized(files[path]))
          /\ own.blocks = ExtensionBlocks(files[path])
      BY <2>1, <2>4, AuthoredGives
    <2>6. ScenarioMade(own.scenario)
      BY <2>4, <2>5, AuthoredMade
    <2>7. ScenarioMade(authoring.scenario) /\ DOMAIN authoring.blocks \cap CoreKeys = {}
      BY <2>2, <2>3 DEF ScenarioInv, ScenarioKept
    <2>8. /\ authoring'.scenario \in MergeScenario(authoring.scenario, own.scenario)
          /\ authoring'.blocks \in BlocksMerged(authoring.blocks, own.blocks)
      BY <2>1, ComposedGives
    <2>9. ScenarioMade(authoring'.scenario)
      BY <2>6, <2>7, <2>8, MergedScenarioMade
    <2>10. DOMAIN authoring'.blocks \cap CoreKeys = {}
      <3>1. DOMAIN authoring'.blocks = DOMAIN authoring.blocks \cup DOMAIN own.blocks
        BY <2>8, BlocksMergedKeys
      <3> QED BY <2>5, <2>7, <3>1, BlocksOf
    <2>11. ScenarioKept'
      BY <2>9, <2>10 DEF ScenarioKept
    <2>12. at' # 1
      BY <2>2, <2>3
    <2> QED BY <2>2, <2>11, <2>12 DEF ScenarioInv, Busy
  <1> QED BY <1>1, <1>2

LEMMA ScenarioDiscover ==
  ASSUME DeclarationInv, ScenarioInv, Discover
  PROVE  ScenarioInv'
  <1>1. CASE Fail
    BY <1>1, ScenarioFails
  <1>2. CASE ~Fail
    <2>1. /\ stage = "read" /\ at = Len(Imports) + 1 /\ UNCHANGED <<files, authoring, texts>>
          /\ \/ stage' = "finish" /\ lowered' = lowered
             \/ stage' = "check" /\ lowered' = AuthoringRoot
      BY <1>2, DiscoverGives DEF GoTo
    <2>2. Len(Imports) \in Nat
      BY ListIs DEF DeclarationInv, FilesSound
    <2>3. ScenarioKept /\ (at = 1 => SelfTyped) /\ lowered = Null
      BY <2>1, <2>2 DEF ScenarioInv
    <2>4. ScenarioKept' /\ Imports' = Imports /\ SelfTyped' = SelfTyped
      BY <2>1, <2>3 DEF ScenarioKept, Imports, SelfTyped
    <2>5. CASE stage' = "finish" /\ lowered' = lowered
      <3>1. Imports = <<>> => at = 1
        BY <2>1, EmptyList
      <3> QED BY <2>1, <2>3, <2>4, <2>5, <3>1 DEF ScenarioInv, Busy
    <2>6. CASE stage' = "check" /\ lowered' = AuthoringRoot
      <3> DEFINE text == Serialize(authoring.scenario)
      <3>1. text.node = "map" /\ DocFits(text)
        BY <2>3, SerializedKeys, SerializedFits DEF ScenarioKept
      <3>2. lowered' = Map(Over(text.at, authoring.blocks))
        BY <2>6 DEF AuthoringRoot
      <3> HIDE DEF text
      <3>3. lowered'.node = "map" /\ DocFits(lowered')
        BY <2>3, <3>1, <3>2, PutTogetherFits, OverAt DEF ScenarioKept
      <3> QED BY <2>1, <2>4, <2>6, <3>3 DEF ScenarioInv, Busy
    <2> QED BY <2>1, <2>5, <2>6
  <1> QED BY <1>1, <1>2

LEMMA ScenarioCheck ==
  ASSUME ScenarioInv, CheckBlocks
  PROVE  ScenarioInv'
  <1>1. CASE Fail
    BY <1>1, ScenarioFails
  <1>2. CASE ~Fail
    <2>1. stage = "check" /\ stage' = "transform" /\ UNCHANGED <<files, authoring, lowered, texts>>
      BY <1>2 DEF CheckBlocks, GoTo
    <2> QED BY <2>1 DEF ScenarioInv, Busy, ScenarioKept
  <1> QED BY <1>1, <1>2

LEMMA AvailableIds ==
  /\ DOMAIN Available = {Acme, Civic} /\ Acme # Civic /\ {Acme, Civic} \cap CoreKeys = {}
  BY DEF Available, Acme, Civic, CoreKeys, Scenario, Part

LEMMA ScenarioTransform ==
  ASSUME DeclarationInv, ScenarioInv, Transform
  PROVE  ScenarioInv'
  <1>1. CASE Fail
    BY <1>1, ScenarioFails
  <1>2. CASE ~Fail
    <2>1. /\ stage = "transform" /\ at \in DOMAIN authoring.declared
          /\ lowered' \in Transformed(lowered, authoring.declared[at].id)
          /\ UNCHANGED <<files, stage, authoring, texts>>
      BY <1>2 DEF Transform
    <2>2. authoring.declared[at].id \in DOMAIN Available
      <3>1. CanResolve(authoring.declared[at])
        BY <2>1 DEF DeclarationInv, Busy, Resolvable, Ran
      <3> QED BY <3>1 DEF CanResolve
    <2>3. authoring.declared[at].id \notin CoreKeys
      BY <2>2, AvailableIds
    <2>4. lowered.node = "map" /\ DocFits(lowered)
      BY <2>1 DEF ScenarioInv
    <2>5. lowered'.node = "map" /\ DocFits(lowered')
      BY <2>1, <2>3, <2>4, TransformedFits
    <2> QED BY <2>1, <2>5 DEF ScenarioInv, Busy, ScenarioKept
  <1> QED BY <1>1, <1>2

LEMMA ScenarioLower ==
  ASSUME DeclarationInv, ScenarioInv, Lower
  PROVE  ScenarioInv'
  <1>1. CASE Fail
    BY <1>1, ScenarioFails
  <1>2. CASE ~Fail
    <2>1. PICK s \in Deserialize(lowered) : authoring' = [authoring EXCEPT !.scenario = s]
      BY <1>2 DEF Lower
    <2>2. stage = "transform" /\ stage' = "finish" /\ UNCHANGED <<files, lowered, texts>>
      BY <1>2 DEF Lower, GoTo
    <2>3. DocFits(lowered) /\ ScenarioKept /\ AuthoringKept
      BY <2>2 DEF ScenarioInv, DeclarationInv, Busy
    <2>4. authoring'.scenario = s /\ authoring'.blocks = authoring.blocks
      BY <2>1, <2>3 DEF AuthoringKept
    <2>5. ScenarioMade(s) /\ LayerAgain(s.typed_layer) = s.typed_layer
      BY <2>3, ScenarioGiven
    <2>6. ScenarioKept' /\ SelfTyped'
      BY <2>3, <2>4, <2>5 DEF ScenarioKept, SelfTyped
    <2> QED BY <2>2, <2>6 DEF ScenarioInv, Busy
  <1> QED BY <1>1, <1>2

LEMMA ScenarioFinish ==
  ASSUME DeclarationInv, ScenarioInv, Finish
  PROVE  ScenarioInv'
  <1> DEFINE c == Canonical(authoring.scenario)
             text == Serialize(c)
  <1>1. /\ stage = "finish" /\ stage' = "resolved" /\ UNCHANGED <<files, lowered>>
        /\ authoring' = [authoring EXCEPT !.scenario = c]
        /\ texts' = Append(texts, text)
    BY DEF Finish, GoTo
  <1>2. AuthoringKept /\ ScenarioKept /\ IsList(texts)
    BY <1>1 DEF DeclarationInv, ScenarioInv, Busy, TextsSound
  <1>3. ScenarioMade(c) /\ c.typed_layer = authoring.scenario.typed_layer
    BY <1>2, CanonicalMade DEF ScenarioKept
  <1> HIDE DEF c
  <1>4. authoring'.scenario = c /\ authoring'.blocks = authoring.blocks
    BY <1>1, <1>2 DEF AuthoringKept
  <1>5. ScenarioKept' /\ (SelfTyped => SelfTyped')
    BY <1>2, <1>3, <1>4 DEF ScenarioKept, SelfTyped
  <1>6. texts'[Len(texts')] = Serialize(authoring'.scenario)
    <2> HIDE DEF text
    <2>1. Len(texts') = Len(texts) + 1 /\ texts'[Len(texts) + 1] = text
      BY <1>1, <1>2, ListAppended
    <2> QED BY <1>4, <2>1 DEF text
  <1>7. Imports' = Imports
    BY <1>1 DEF Imports
  <1> QED BY <1>1, <1>5, <1>6, <1>7 DEF ScenarioInv, Busy

LEMMA ScenarioAgain ==
  ASSUME ScenarioInv, ResolveAgain
  PROVE  ScenarioInv'
  <1>1. /\ stage = "resolved" /\ files' = [path \in {Root} |-> texts[Len(texts)]]
        /\ stage' = "read" /\ at' = 0 /\ lowered' = Null
    BY DEF ResolveAgain
  <1>2. DocFits(texts[Len(texts)])
    BY <1>1, SerializedFits DEF ScenarioInv, ScenarioKept, Busy
  <1>3. \A path \in DOMAIN files' : DocFits(files'[path])
    BY <1>1, <1>2
  <1> QED BY <1>1, <1>3 DEF ScenarioInv, Busy

LEMMA ScenarioStep ==
  ASSUME DeclarationInv, ScenarioInv, [Next]_vars
  PROVE  ScenarioInv'
  <1>1. CASE UNCHANGED vars
    BY <1>1 DEF vars, ScenarioInv, ScenarioKept, SelfTyped, Imports
  <1> QED BY <1>1, ScenarioRoot, ScenarioImport, ScenarioDiscover, ScenarioCheck, ScenarioTransform,
             ScenarioLower, ScenarioFinish, ScenarioAgain DEF Next, Terminated

LEMMA ScenarioInvariant == Spec => []ScenarioInv
  <1>1. Init => ScenarioInv
    BY ScenarioStarts
  <1>2. DeclarationInv /\ ScenarioInv /\ [Next]_vars => ScenarioInv'
    BY ScenarioStep
  <1> QED BY <1>1, <1>2, DeclarationInvariant, PTL DEF Spec

\* For every set of files, the canonical text of what resolve_scenario
\* resolves says all of it: deserialize of what serialize prints gives the
\* same scenario, but for what Again names, or refuses it, for what Unreadable
\* names; and its typed values have their declared types if it was read from
\* one document.
THEOREM WhatIsResolvedIsReread == Spec => []RereadAsWritten
  <1>1. ASSUME ScenarioInv PROVE RereadAsWritten
    <2> SUFFICES ASSUME stage = "resolved" PROVE RereadAsWritten
      BY DEF RereadAsWritten
    <2> DEFINE s == authoring.scenario
    <2>1. ScenarioMade(s) /\ texts[Len(texts)] = Serialize(s)
      BY <1>1 DEF ScenarioInv, ScenarioKept, Busy
    <2>2. Deserialize(Serialize(s)) = IF Unreadable(s) THEN {} ELSE {Again(s)}
      <3> HIDE DEF s
      <3> QED BY <2>1, SerializedRefused, SerializedRead
    <2>3. Imports = <<>> \/ lowered # Null => LayerAgain(s.typed_layer) = s.typed_layer
      BY <1>1 DEF ScenarioInv, SelfTyped
    <2> QED BY <2>1, <2>2, <2>3 DEF RereadAsWritten
  <1> QED BY <1>1, ScenarioInvariant, PTL


(***************************************************************************)
(* The canonical text of what is read again, as a function of the text.    *)
(***************************************************************************)
LEMMA PartNode2 ==
  ASSUME NEW kind, kind.kind = "part", NEW v
  PROVE  Write2(kind, v) =
           Map([key \in {k \in DOMAIN kind.fields : IsWritten(kind.fields[k], v[k])} |->
                  FieldNode1(kind.fields[key].kind, v[key])])
  BY DEF Write2, WritePart, FieldNode1

LEMMA PartNode3 ==
  ASSUME NEW kind, kind.kind = "part", NEW v
  PROVE  Write3(kind, v) =
           Map([key \in {k \in DOMAIN kind.fields : IsWritten(kind.fields[k], v[k])} |->
                  FieldNode2(kind.fields[key].kind, v[key])])
  BY DEF Write3, WritePart, FieldNode2

LEMMA PartNode4 ==
  ASSUME NEW kind, kind.kind = "part", NEW v
  PROVE  Write4(kind, v) =
           Map([key \in {k \in DOMAIN kind.fields : IsWritten(kind.fields[k], v[k])} |->
                  FieldNode3(kind.fields[key].kind, v[key])])
  BY DEF Write4, WritePart, FieldNode3

LEMMA NodeKinds ==
  /\ \A f : Map(f).node = "map" /\ Map(f).at = f /\ KeysOf(Map(f)) = DOMAIN f
  /\ \A items : Sequence(items).node = "sequence" /\ Sequence(items).items = items
  /\ \A text : Scalar(text).node = "scalar" /\ Scalar(text).text = text
  BY ComputedIs DEF Map, Sequence, Scalar, KeysOf

LEMMA ScalarsDiffer ==
  /\ \A a, b : Scalar(a) = Scalar(b) => a = b
  /\ \A a, items : Scalar(a) # Sequence(items)
  BY NodeKinds

\* Two maps are alike if their entries are.
LEMMA MapsAlike ==
  ASSUME NEW f, NEW g, f = [x \in DOMAIN f |-> f[x]], g = [x \in DOMAIN g |-> g[x]],
         DOMAIN f = DOMAIN g, \A x \in DOMAIN f : f[x] = g[x]
  PROVE  Map(f) = Map(g)
  <1>1. f = g
    OBVIOUS
  <1> QED BY <1>1

\* How a value prints depends on its texts and on whether it is a list.
LEMMA DefaultPrints ==
  ASSUME NEW value, NEW type, DefaultMade(value, type)
  PROVE  WriteVariant(DefaultAgain(value, type)) =
           IF type = "BOOLEAN" /\ WriteVariant(value) = Scalar("0") THEN Scalar("false")
           ELSE WriteVariant(value)
  <1> DEFINE again == DefaultAgain(value, type)
  <1>1. CASE value.is = "strings"
    <2>1. again = value
      BY <1>1 DEF DefaultAgain
    <2>2. WriteVariant(value) # Scalar("0")
      BY <1>1, ScalarsDiffer DEF WriteVariant
    <2> QED BY <2>1, <2>2
  <1>2. CASE value.is = "int64_t" /\ type = "BOOLEAN"
    <2>1. value = NotGiven
      <3>1. ASSUME Parsed(value, type) PROVE FALSE
        <4>1. value.is = "int64_t" => type = "INTEGER"
          BY <3>1, ParsedAgain
        <4> QED BY <1>2, <4>1
      <3>2. \A texts0 : value # [is |-> "strings", texts |-> texts0]
        BY <1>2
      <3> QED BY <3>1, <3>2 DEF DefaultMade
    <2>2. WriteVariant(value) = Scalar("0")
      BY <2>1 DEF NotGiven, WriteVariant
    <2>3. again = [is |-> "bool", texts |-> <<"false">>]
      BY <1>2 DEF DefaultAgain
    <2>4. WriteVariant(again) = Scalar("false")
      BY <2>3 DEF WriteVariant
    <2> QED BY <1>2, <2>2, <2>4
  <1>3. CASE value.is = "int64_t" /\ type # "BOOLEAN"
    <2>1. again.is # "strings" /\ again.texts = value.texts
      BY <1>3 DEF DefaultAgain
    <2>2. WriteVariant(again) = WriteVariant(value)
      BY <1>3, <2>1 DEF WriteVariant
    <2> QED BY <1>3, <2>2
  <1>4. CASE value.is \notin {"strings", "int64_t"}
    <2>1. again = value
      BY <1>4 DEF DefaultAgain
    <2>2. CASE type = "BOOLEAN"
      <3>1. Parsed(value, type)
        BY <1>4 DEF DefaultMade, NotGiven
      <3>2. PICK text \in {"true", "false"} : value \in Variant("bool", {text})
        BY <2>2, <3>1, ScalarParsed DEF Parsed
      <3>3. value.texts[1] = text
        BY <3>2, VariantOf
      <3>4. WriteVariant(value) = Scalar(text) /\ text # "0"
        BY <1>4, <3>3 DEF WriteVariant
      <3> QED BY <2>1, <3>4, ScalarsDiffer
    <2> QED BY <2>1, <2>2
  <1> QED BY <1>1, <1>2, <1>3, <1>4

LEMMA VariableSettles ==
  ASSUME NEW v, VariableMade(v)
  PROVE  Write3(Variable, VariableAgain(v)) = SettledVariable(Write3(Variable, v))
  <1> DEFINE u == VariableAgain(v)
             Written(w) == {k \in DOMAIN Variable.fields : IsWritten(Variable.fields[k], w[k])}
             At3(w) == [key \in Written(w) |-> FieldNode2(Variable.fields[key].kind, w[key])]
  <1>1. Write3(Variable, v) = Map(At3(v)) /\ Write3(Variable, u) = Map(At3(u))
    BY VariableFields, PartNode3
  <1>2. /\ u.default_value = DefaultAgain(v.default_value, v.type)
        /\ \A key \in DOMAIN Variable.fields \ {"default_value"} : u[key] = v[key]
    BY VariableFields DEF VariableMade, VariableAgain
  <1>3. /\ Variable.fields["default_value"].written = "always" /\ Variable.fields["type"].written = "always"
        /\ Variable.fields["default_value"].kind = Default /\ Variable.fields["type"].kind = VariableType
        /\ {"default_value", "type"} \subseteq DOMAIN Variable.fields
    BY VariableFields DEF Required
  <1> HIDE DEF u
  <1>4. Written(u) = Written(v) /\ {"default_value", "type"} \subseteq Written(v)
    <2>1. \A w : IsWritten(Variable.fields["default_value"], w) /\ IsWritten(Variable.fields["type"], w)
      BY <1>3, WrittenWhen
    <2> QED BY <1>2, <1>3, <2>1
  <1>5. At3(v)["type"] = Scalar(v.type)
    <2>1. FieldNode2(VariableType, v.type) = WriteLeaf(VariableType, v.type)
      BY LeafKinds, LeafField2
    <2>2. WriteLeaf(VariableType, v.type) = Scalar(v.type)
      BY ScalarLeaf DEF VariableType, Of, Printed
    <2> QED BY <1>3, <1>4, <2>1, <2>2
  <1>6. \A w : FieldNode2(Default, w) = WriteVariant(w)
    <2>1. \A w : WriteLeaf(Default, w) = WriteVariant(w)
      BY DEF WriteLeaf, Default
    <2> QED BY <2>1, LeafKinds, LeafField2
  <1>7. At3(v)["default_value"] = WriteVariant(v.default_value)
        /\ At3(u)["default_value"] = WriteVariant(u.default_value)
    BY <1>3, <1>4, <1>6
  <1>8. \A key \in Written(v) \ {"default_value"} : At3(u)[key] = At3(v)[key]
    BY <1>2, <1>4
  <1>9. WriteVariant(u.default_value) =
          IF v.type = "BOOLEAN" /\ WriteVariant(v.default_value) = Scalar("0") THEN Scalar("false")
          ELSE WriteVariant(v.default_value)
    BY <1>2, DefaultPrints DEF VariableMade
  <1> DEFINE f == At3(v)
             g == At3(u)
  <1>10. /\ f = [x \in DOMAIN f |-> f[x]] /\ g = [x \in DOMAIN g |-> g[x]] /\ DOMAIN g = DOMAIN f
         /\ {"default_value", "type"} \subseteq DOMAIN f
         /\ \A key \in DOMAIN f \ {"default_value"} : g[key] = f[key]
    BY <1>4, <1>8
  <1>11. /\ f.type = Scalar(v.type)
         /\ g.default_value = IF v.type = "BOOLEAN" /\ f.default_value = Scalar("0") THEN Scalar("false")
                              ELSE f.default_value
    BY <1>5, <1>7, <1>9
  <1> HIDE DEF f, g
  <1>12. f.type = Scalar("BOOLEAN") <=> v.type = "BOOLEAN"
    BY <1>11, ScalarsDiffer
  <1>13. SettledVariable(Map(f)) = Map(g)
    <2>1. CASE v.type = "BOOLEAN" /\ f.default_value = Scalar("0")
      <3>1. g = [f EXCEPT !.default_value = Scalar("false")]
        BY <1>10, <1>11, <2>1
      <3> QED BY <1>12, <2>1, <3>1, NodeKinds DEF SettledVariable
    <2>2. CASE ~(v.type = "BOOLEAN" /\ f.default_value = Scalar("0"))
      <3>1. g = f
        BY <1>10, <1>11, <2>2
      <3> QED BY <1>12, <2>2, <3>1, NodeKinds DEF SettledVariable
    <2> QED BY <2>1, <2>2
  <1> QED BY <1>1, <1>13 DEF f, g, u

\* How a typed value prints when it is read again by another type.
PrintedAgain(node, type) == WriteVariant(CHOOSE value \in ParseTypedScalar(node.text, type) : TRUE)

LEMMA ValuePrints ==
  ASSUME NEW value, TypedValue(value), NEW type
  PROVE  PrintedAgain(WriteVariant(value), type) = WriteVariant(ValueAgain(value, type))
  <1>1. WriteVariant(value).text = value.texts[1]
    BY TypedWritten, NodeKinds
  <1> QED BY <1>1 DEF PrintedAgain, ValueAgain

LEMMA SettledEntityIs ==
  ASSUME NEW node, NEW layer
  PROVE  SettledEntity(node, layer) =
           Map([node.at EXCEPT !.components =
                  Map([c \in KeysOf(node.at.components) |->
                         Map([f \in KeysOf(node.at.components.at[c]) |->
                                PrintedAgain(node.at.components.at[c].at[f],
                                             ComponentValueType(layer, c, f))])])])
  BY DEF SettledEntity, SettledValues, PrintedAgain, ComponentValueType

LEMMA SettledPayloadIs ==
  ASSUME NEW node, NEW layer, NEW kind
  PROVE  SettledPayload(node, layer, kind) =
           IF "payload" \notin KeysOf(node) THEN node
           ELSE Map([node.at EXCEPT !.payload =
                  Map([f \in KeysOf(node.at.payload) |->
                         PrintedAgain(node.at.payload.at[f],
                                      DeclaredType(layer, kind.list, kind.id, "payload_fields",
                                                   TextOf(node.at[kind.ref]), f))])])
  BY DEF SettledPayload, SettledValues, PrintedAgain

LEMMA ComponentsSettle ==
  ASSUME NEW v, ComponentsMade(v), NEW layer
  PROVE  ComponentsNode(ComponentsAgain(v, layer)) =
           Map([c \in KeysOf(ComponentsNode(v)) |->
                  Map([f \in KeysOf(ComponentsNode(v).at[c]) |->
                         PrintedAgain(ComponentsNode(v).at[c].at[f], ComponentValueType(layer, c, f))])])
  <1> DEFINE u == ComponentsAgain(v, layer)
             node == ComponentsNode(v)
             Type(c, f) == ComponentValueType(layer, c, f)
             made == [c \in DOMAIN u |-> Map([f \in DOMAIN u[c] |-> WriteVariant(u[c][f])])]
             settled == [c \in KeysOf(node) |->
                           Map([f \in KeysOf(node.at[c]) |-> PrintedAgain(node.at[c].at[f], Type(c, f))])]
  <1>1. /\ KeysOf(node) = DOMAIN v
        /\ \A c \in DOMAIN v : node.at[c] = Map([f \in DOMAIN v[c] |-> WriteVariant(v[c][f])])
    BY NodeKinds DEF ComponentsNode
  <1>2. DOMAIN u = DOMAIN v
        /\ \A c \in DOMAIN v : u[c] = [f \in DOMAIN v[c] |-> ValueAgain(v[c][f], Type(c, f))]
    BY DEF ComponentsAgain
  <1> HIDE DEF u, node, Type
  <1>3. ASSUME NEW c \in DOMAIN v PROVE made[c] = settled[c]
    <2> DEFINE f0 == [f \in DOMAIN u[c] |-> WriteVariant(u[c][f])]
               g0 == [f \in KeysOf(node.at[c]) |-> PrintedAgain(node.at[c].at[f], Type(c, f))]
    <2>1. KeysOf(node.at[c]) = DOMAIN v[c]
          /\ \A f \in DOMAIN v[c] : node.at[c].at[f] = WriteVariant(v[c][f])
      <3> DEFINE printed == [f \in DOMAIN v[c] |-> WriteVariant(v[c][f])]
      <3>1. DOMAIN printed = DOMAIN v[c] /\ \A f \in DOMAIN v[c] : printed[f] = WriteVariant(v[c][f])
        OBVIOUS
      <3>2. node.at[c] = Map(printed)
        BY <1>1
      <3> HIDE DEF printed
      <3> QED BY <3>1, <3>2, NodeKinds
    <2>2. ASSUME NEW f \in DOMAIN v[c] PROVE f0[f] = g0[f]
      <3>1. TypedValue(v[c][f])
        BY DEF ComponentsMade, TypedValues
      <3>2. f0[f] = WriteVariant(ValueAgain(v[c][f], Type(c, f)))
        BY <1>2
      <3>3. g0[f] = PrintedAgain(WriteVariant(v[c][f]), Type(c, f))
        BY <2>1
      <3> QED BY <3>1, <3>2, <3>3, ValuePrints
    <2>3. DOMAIN f0 = DOMAIN v[c] /\ DOMAIN g0 = DOMAIN v[c]
      BY <1>2, <2>1
    <2>4. f0 = g0
      BY <2>2, <2>3
    <2>5. made[c] = Map(f0) /\ settled[c] = Map(g0)
      BY <1>1, <1>2
    <2> QED BY <2>4, <2>5
  <1>4. DOMAIN made = DOMAIN v /\ DOMAIN settled = DOMAIN v
    BY <1>1, <1>2
  <1>5. made = settled
    BY <1>3, <1>4
  <1>6. ComponentsNode(u) = Map(made)
    BY DEF ComponentsNode
  <1> QED BY <1>5, <1>6 DEF u, node, Type

LEMMA EntitySettles ==
  ASSUME NEW row, EntityMade(row), NEW layer
  PROVE  Write2(TypedEntity, EntityAgainIn(row, layer)) = SettledEntity(Write2(TypedEntity, row), layer)
  <1> DEFINE u == EntityAgainIn(row, layer)
             Written(w) == {k \in DOMAIN TypedEntity.fields : IsWritten(TypedEntity.fields[k], w[k])}
             At2(w) == [key \in Written(w) |-> FieldNode1(TypedEntity.fields[key].kind, w[key])]
             f == At2(row)
             g == At2(u)
  <1>1. Write2(TypedEntity, row) = Map(f) /\ Write2(TypedEntity, u) = Map(g)
    BY EntityFields, PartNode2
  <1>2. /\ u.components = ComponentsAgain(row.components, layer)
        /\ \A key \in DOMAIN TypedEntity.fields \ {"components"} : u[key] = row[key]
    BY EntityFields DEF EntityMade, EntityAgainIn
  <1>3. /\ TypedEntity.fields["components"].written = "always"
        /\ TypedEntity.fields["components"].kind = Components /\ "components" \in DOMAIN TypedEntity.fields
    BY EntityFields DEF Listed
  <1> HIDE DEF u
  <1>4. Written(u) = Written(row) /\ "components" \in Written(row)
    <2>1. \A w : IsWritten(TypedEntity.fields["components"], w)
      BY <1>3, WrittenWhen
    <2> QED BY <1>2, <1>3, <2>1
  <1>5. \A w : FieldNode1(Components, w) = ComponentsNode(w)
    BY ComponentsLeaf, LeafField1
  <1>6. f.components = ComponentsNode(row.components) /\ g.components = ComponentsNode(u.components)
    BY <1>3, <1>4, <1>5
  <1>7. /\ f = [x \in DOMAIN f |-> f[x]] /\ g = [x \in DOMAIN g |-> g[x]] /\ DOMAIN g = DOMAIN f
        /\ "components" \in DOMAIN f /\ \A key \in DOMAIN f \ {"components"} : g[key] = f[key]
    BY <1>2, <1>4
  <1> HIDE DEF f, g
  <1> DEFINE settled == Map([c \in KeysOf(f.components) |->
                               Map([x \in KeysOf(f.components.at[c]) |->
                                      PrintedAgain(f.components.at[c].at[x],
                                                   ComponentValueType(layer, c, x))])])
  <1>8. g.components = settled
    <2>1. ComponentsMade(row.components)
      BY DEF EntityMade
    <2> QED BY <1>2, <1>6, <2>1, ComponentsSettle
  <1>9. SettledEntity(Map(f), layer) = Map([f EXCEPT !.components = settled])
    <2>1. Map(f).at = f
      BY NodeKinds
    <2>2. SettledEntity(Map(f), layer) =
              Map([Map(f).at EXCEPT !.components =
                     Map([c \in KeysOf(Map(f).at.components) |->
                            Map([x \in KeysOf(Map(f).at.components.at[c]) |->
                                   PrintedAgain(Map(f).at.components.at[c].at[x],
                                                ComponentValueType(layer, c, x))])])])
      BY SettledEntityIs
    <2> QED BY <2>1, <2>2
  <1> HIDE DEF settled
  <1>10. g = [f EXCEPT !.components = settled]
    BY <1>7, <1>8
  <1> QED BY <1>1, <1>9, <1>10 DEF u

LEMMA PayloadSettles ==
  ASSUME NEW kind \in PayloadRows, NEW row, PayloadMade(kind, row), NEW layer
  PROVE  Write2(kind, PayloadAgainIn(kind, row, layer)) =
           SettledPayload(Write2(kind, row), layer, PayloadKind(kind))
  <1> DEFINE u == PayloadAgainIn(kind, row, layer)
             Written(w) == {k \in DOMAIN kind.fields : IsWritten(kind.fields[k], w[k])}
             At2(w) == [key \in Written(w) |-> FieldNode1(kind.fields[key].kind, w[key])]
             f == At2(row)
             g == At2(u)
             ref == PayloadKind(kind).ref
             Type(x) == PayloadType(kind, row, layer, x)
  <1>1. Write2(kind, row) = Map(f) /\ Write2(kind, u) = Map(g)
    BY PayloadRowFields, PartNode2
  <1>2. /\ u.payload = [x \in DOMAIN row.payload |-> ValueAgain(row.payload[x], Type(x))]
        /\ \A key \in DOMAIN kind.fields \ {"payload"} : u[key] = row[key]
    BY PayloadRowFields DEF PayloadMade, PayloadAgainIn
  <1>3. PayloadKind(kind).kind = "payload" /\ PayloadKind(kind).kind # "scalar"
        /\ "payload" \in DOMAIN kind.fields /\ kind.fields["payload"] = Filled(PayloadKind(kind))
    BY PayloadRowFields
  <1>4. kind.fields["payload"].kind = PayloadKind(kind) /\ kind.fields["payload"].written = "filled"
    BY <1>3, TableKinds
  <1>5. ref \in DOMAIN kind.fields \ {"payload"} /\ kind.fields[ref].kind = Text
        /\ kind.fields[ref].written = "always"
    BY PayloadRowFields, TableKinds
  <1> HIDE DEF u, Type, ref
  <1>6. \A w : IsWritten(kind.fields["payload"], w) <=> DOMAIN w # {}
    BY <1>3, <1>4, WrittenWhen
  <1>7. Written(u) = Written(row)
    BY <1>2, <1>6
  <1>8. \A w : FieldNode1(PayloadKind(kind), w) = Map([x \in DOMAIN w |-> WriteVariant(w[x])])
    BY <1>3, PayloadLeaf, LeafField1
  <1>9. f[ref] = Scalar(row[ref]) /\ ref \in Written(row)
    <2>1. ref \in Written(row)
      BY <1>5, WrittenWhen
    <2>2. FieldNode1(Text, row[ref]) = Scalar(row[ref])
      BY TableKinds, LeafField1, ScalarLeaf DEF Printed
    <2> QED BY <1>5, <2>1, <2>2
  <1>10. \A x : Type(x) = DeclaredType(layer, PayloadKind(kind).list, PayloadKind(kind).id,
                                       "payload_fields", TextOf(f[ref]), x)
    <2>1. TextOf(f[ref]) = row[ref]
      BY <1>9, NodeKinds DEF TextOf
    <2> QED BY <2>1 DEF Type, PayloadType, ref
  <1>11. /\ f = [x \in DOMAIN f |-> f[x]] /\ g = [x \in DOMAIN g |-> g[x]] /\ DOMAIN g = DOMAIN f
         /\ \A key \in DOMAIN f \ {"payload"} : g[key] = f[key]
         /\ "payload" \in DOMAIN f <=> DOMAIN row.payload # {}
    BY <1>2, <1>3, <1>6, <1>7
  <1>12. "payload" \in DOMAIN f =>
           /\ f.payload = Map([x \in DOMAIN row.payload |-> WriteVariant(row.payload[x])])
           /\ g.payload = Map([x \in DOMAIN u.payload |-> WriteVariant(u.payload[x])])
    BY <1>4, <1>7, <1>8
  <1> HIDE DEF f, g
  <1>13. SettledPayload(Map(f), layer, PayloadKind(kind)) =
           IF "payload" \notin DOMAIN f THEN Map(f)
           ELSE Map([f EXCEPT !.payload =
                  Map([x \in KeysOf(f.payload) |-> PrintedAgain(f.payload.at[x], Type(x))])])
    <2>1. Map(f).at = f /\ KeysOf(Map(f)) = DOMAIN f
      BY NodeKinds
    <2>2. SettledPayload(Map(f), layer, PayloadKind(kind)) =
              IF "payload" \notin KeysOf(Map(f)) THEN Map(f)
              ELSE Map([Map(f).at EXCEPT !.payload =
                     Map([x \in KeysOf(Map(f).at.payload) |->
                            PrintedAgain(Map(f).at.payload.at[x],
                                         DeclaredType(layer, PayloadKind(kind).list, PayloadKind(kind).id,
                                                      "payload_fields",
                                                      TextOf(Map(f).at[PayloadKind(kind).ref]), x))])])
      BY SettledPayloadIs
    <2>3. \A x : Type(x) = DeclaredType(layer, PayloadKind(kind).list, PayloadKind(kind).id,
                                       "payload_fields", TextOf(f[PayloadKind(kind).ref]), x)
      BY <1>10 DEF ref
    <2> QED BY <2>1, <2>2, <2>3
  <1>14. CASE "payload" \notin DOMAIN f
    <2>1. g = f
      BY <1>11, <1>14
    <2> QED BY <1>1, <1>13, <1>14, <2>1 DEF u
  <1>15. CASE "payload" \in DOMAIN f
    <2> DEFINE values == row.payload
               printed == [x \in DOMAIN values |-> WriteVariant(values[x])]
               settled == [x \in KeysOf(f.payload) |-> PrintedAgain(f.payload.at[x], Type(x))]
               again == [x \in DOMAIN u.payload |-> WriteVariant(u.payload[x])]
    <2>1. DOMAIN printed = DOMAIN values /\ \A x \in DOMAIN values : printed[x] = WriteVariant(values[x])
      OBVIOUS
    <2>2. f.payload = Map(printed) /\ g.payload = Map(again)
      BY <1>12, <1>15
    <2>3. KeysOf(f.payload) = DOMAIN values
          /\ \A x \in DOMAIN values : f.payload.at[x] = WriteVariant(values[x])
      <3> HIDE DEF printed
      <3> QED BY <2>1, <2>2, NodeKinds
    <2>4. ASSUME NEW x \in DOMAIN values PROVE again[x] = settled[x]
      <3>1. TypedValue(values[x])
        BY DEF PayloadMade, TypedValues
      <3>2. again[x] = WriteVariant(ValueAgain(values[x], Type(x)))
        BY <1>2
      <3>3. settled[x] = PrintedAgain(WriteVariant(values[x]), Type(x))
        BY <2>3
      <3> QED BY <3>1, <3>2, <3>3, ValuePrints
    <2>5. DOMAIN again = DOMAIN values /\ DOMAIN settled = DOMAIN values
      BY <1>2, <2>3
    <2>6. again = settled
      BY <2>4, <2>5
    <2>7. g.payload = Map(settled)
      BY <2>2, <2>6
    <2>8. SettledPayload(Map(f), layer, PayloadKind(kind)) = Map([f EXCEPT !.payload = Map(settled)])
      BY <1>13, <1>15
    <2> HIDE DEF settled
    <2>9. g = [f EXCEPT !.payload = Map(settled)]
      BY <1>11, <2>7
    <2> QED BY <1>1, <2>8, <2>9 DEF u
  <1> QED BY <1>14, <1>15

LEMMA ListPrinted ==
  ASSUME NEW kind, NEW v
  PROVE  /\ FieldNode2(ListOf(kind), v) = Sequence([i \in DOMAIN v |-> Write2(kind, v[i])])
         /\ FieldNode3(ListOf(kind), v) = Sequence([i \in DOMAIN v |-> Write3(kind, v[i])])
  BY TableKinds DEF FieldNode2, FieldNode3, WriteField

LEMMA SettledLayerIs ==
  ASSUME NEW node
  PROVE  SettledLayer(node) =
           Map([key \in KeysOf(node) |->
             CASE key = "entities" ->
                    Sequence([i \in DOMAIN node.at[key].items |->
                                SettledEntity(node.at[key].items[i], node)])
               [] key = "relations" ->
                    Sequence([i \in DOMAIN node.at[key].items |->
                                SettledPayload(node.at[key].items[i], node, PayloadKind(Relation))])
               [] key = "initial_events" ->
                    Sequence([i \in DOMAIN node.at[key].items |->
                                SettledPayload(node.at[key].items[i], node, PayloadKind(InitialEvent))])
               [] OTHER -> node.at[key]])
  BY DEF SettledLayer, SettledItems, PayloadKind

LEMMA LayerSettles ==
  ASSUME NEW l, TypedMade(l), l # Nothing
  PROVE  Write3(TypedLayer, LayerAgain(l)) = SettledLayer(Write3(TypedLayer, l))
  <1> DEFINE node == Write3(TypedLayer, l)
             u == LayerAgain(l)
             Written(w) == {k \in DOMAIN TypedLayer.fields : IsWritten(TypedLayer.fields[k], w[k])}
             At3(w) == [key \in Written(w) |-> FieldNode2(TypedLayer.fields[key].kind, w[key])]
             f == At3(l)
             g == At3(u)
             valued == {"entities", "relations", "initial_events"}
  <1>1. node = Map(f) /\ Write3(TypedLayer, u) = Map(g)
    BY TypedFields, PartNode3
  <1>2. TypesAgree(node, l)
    BY TypesWritten
  <1>3. /\ l = [key \in DOMAIN l |-> l[key]] /\ DOMAIN l = DOMAIN TypedLayer.fields
        /\ valued \subseteq DOMAIN l
    BY TypedFields DEF TypedMade
  <1>4. /\ u.entities = [i \in DOMAIN l.entities |-> EntityAgain(l.entities[i], l)]
        /\ u.relations = [i \in DOMAIN l.relations |-> RelationAgain(l.relations[i], l)]
        /\ u.initial_events = [i \in DOMAIN l.initial_events |-> EventAgain(l.initial_events[i], l)]
        /\ \A key \in DOMAIN l \ valued : u[key] = l[key]
    BY <1>3, LayerAgainRows
  <1>5. /\ \A row : EntityAgain(row, l) = EntityAgainIn(row, node)
        /\ \A row : RelationAgain(row, l) = PayloadAgainIn(Relation, row, node)
        /\ \A row : EventAgain(row, l) = PayloadAgainIn(InitialEvent, row, node)
    BY <1>2, RowsAgainIn
  <1>6. \A key \in DOMAIN TypedIds : \A i \in DOMAIN l[key] : TypedRowMade(key, l[key][i])
    BY DEF TypedMade
  <1>7. \A key \in valued : key \in DOMAIN TypedIds /\ TypedLayer.fields[key] = Listed(ListOf(RowKind(key)))
    BY TypedFields
  <1>8. \A key \in valued : TypedLayer.fields[key].kind = ListOf(RowKind(key))
                            /\ TypedLayer.fields[key].written = "always"
    BY <1>7, TableKinds
  <1> HIDE DEF u
  <1>9. Written(u) = Written(l) /\ valued \subseteq Written(l)
    <2>1. \A key \in valued : \A w : IsWritten(TypedLayer.fields[key], w)
      BY <1>8, WrittenWhen
    <2> QED BY <1>3, <1>4, <2>1
  <1>10. /\ f = [x \in DOMAIN f |-> f[x]] /\ g = [x \in DOMAIN g |-> g[x]] /\ DOMAIN g = DOMAIN f
         /\ valued \subseteq DOMAIN f
         /\ \A key \in DOMAIN f \ valued : g[key] = f[key]
    BY <1>3, <1>4, <1>9
  <1>11. ASSUME NEW key \in valued
         PROVE  /\ f[key].items = [i \in DOMAIN l[key] |-> Write2(RowKind(key), l[key][i])]
                /\ g[key] = Sequence([i \in DOMAIN u[key] |-> Write2(RowKind(key), u[key][i])])
    <2>1. f[key] = FieldNode2(ListOf(RowKind(key)), l[key]) /\ g[key] = FieldNode2(ListOf(RowKind(key)), u[key])
      BY <1>8, <1>9
    <2> HIDE DEF f, g
    <2>2. f[key] = Sequence([i \in DOMAIN l[key] |-> Write2(RowKind(key), l[key][i])])
      BY <2>1, ListPrinted
    <2>3. g[key] = Sequence([i \in DOMAIN u[key] |-> Write2(RowKind(key), u[key][i])])
      BY <2>1, ListPrinted
    <2> QED BY <2>2, <2>3, NodeKinds
  <1> HIDE DEF f, g, node
  <1>12. RowKind("entities") = TypedEntity /\ RowKind("relations") = Relation
         /\ RowKind("initial_events") = InitialEvent
    BY TypedFields
  <1>13. g.entities = Sequence([i \in DOMAIN f.entities.items |-> SettledEntity(f.entities.items[i], node)])
    <2>1. ASSUME NEW i \in DOMAIN l.entities
          PROVE  Write2(TypedEntity, u.entities[i]) = SettledEntity(f.entities.items[i], node)
      <3>1. EntityMade(l.entities[i])
        BY <1>6, <1>7 DEF TypedRowMade
      <3>2. u.entities[i] = EntityAgainIn(l.entities[i], node)
        BY <1>4, <1>5
      <3>3. f.entities.items[i] = Write2(TypedEntity, l.entities[i])
        BY <1>11, <1>12
      <3> QED BY <3>1, <3>2, <3>3, EntitySettles
    <2>2. DOMAIN u.entities = DOMAIN l.entities /\ DOMAIN f.entities.items = DOMAIN l.entities
      BY <1>4, <1>11
    <2>3. g.entities = Sequence([i \in DOMAIN u.entities |-> Write2(TypedEntity, u.entities[i])])
      BY <1>11, <1>12
    <2>4. [i \in DOMAIN u.entities |-> Write2(TypedEntity, u.entities[i])] =
          [i \in DOMAIN f.entities.items |-> SettledEntity(f.entities.items[i], node)]
      BY <2>1, <2>2
    <2> QED BY <2>3, <2>4
  <1>14. ASSUME NEW key \in {"relations", "initial_events"}, NEW kind, kind = RowKind(key),
                \A i \in DOMAIN l[key] : u[key][i] = PayloadAgainIn(kind, l[key][i], node),
                DOMAIN u[key] = DOMAIN l[key]
         PROVE  g[key] = Sequence([i \in DOMAIN f[key].items |->
                                     SettledPayload(f[key].items[i], node, PayloadKind(kind))])
    <2>0. kind \in PayloadRows
      BY <1>12, <1>14 DEF PayloadRows
    <2>1. ASSUME NEW i \in DOMAIN l[key]
          PROVE  Write2(kind, u[key][i]) = SettledPayload(f[key].items[i], node, PayloadKind(kind))
      <3>1. PayloadMade(kind, l[key][i])
        BY <1>6, <1>7, <1>14 DEF TypedRowMade
      <3>2. u[key][i] = PayloadAgainIn(kind, l[key][i], node)
        BY <1>14
      <3>3. f[key].items[i] = Write2(kind, l[key][i])
        BY <1>11, <1>14
      <3> QED BY <2>0, <3>1, <3>2, <3>3, PayloadSettles
    <2>2. DOMAIN u[key] = DOMAIN l[key] /\ DOMAIN f[key].items = DOMAIN l[key]
      BY <1>11, <1>14
    <2>3. g[key] = Sequence([i \in DOMAIN u[key] |-> Write2(kind, u[key][i])])
      BY <1>11, <1>14
    <2>4. [i \in DOMAIN u[key] |-> Write2(kind, u[key][i])] =
          [i \in DOMAIN f[key].items |-> SettledPayload(f[key].items[i], node, PayloadKind(kind))]
      BY <2>1, <2>2
    <2> QED BY <2>3, <2>4
  <1>15. g.relations = Sequence([i \in DOMAIN f.relations.items |->
                                   SettledPayload(f.relations.items[i], node, PayloadKind(Relation))])
    <2>1. DOMAIN u.relations = DOMAIN l.relations
          /\ \A i \in DOMAIN l.relations : u.relations[i] = PayloadAgainIn(Relation, l.relations[i], node)
      BY <1>4, <1>5
    <2> QED BY <1>12, <1>14, <2>1
  <1>16. g.initial_events = Sequence([i \in DOMAIN f.initial_events.items |->
                               SettledPayload(f.initial_events.items[i], node, PayloadKind(InitialEvent))])
    <2>1. DOMAIN u.initial_events = DOMAIN l.initial_events
          /\ \A i \in DOMAIN l.initial_events :
               u.initial_events[i] = PayloadAgainIn(InitialEvent, l.initial_events[i], node)
      BY <1>4, <1>5
    <2> QED BY <1>12, <1>14, <2>1
  <1> DEFINE settled ==
           [key \in KeysOf(node) |->
             CASE key = "entities" ->
                    Sequence([i \in DOMAIN node.at[key].items |->
                                SettledEntity(node.at[key].items[i], node)])
               [] key = "relations" ->
                    Sequence([i \in DOMAIN node.at[key].items |->
                                SettledPayload(node.at[key].items[i], node, PayloadKind(Relation))])
               [] key = "initial_events" ->
                    Sequence([i \in DOMAIN node.at[key].items |->
                                SettledPayload(node.at[key].items[i], node, PayloadKind(InitialEvent))])
               [] OTHER -> node.at[key]]
  <1>17. KeysOf(node) = DOMAIN f /\ node.at = f
    BY <1>1, NodeKinds
  <1>18. ASSUME NEW key \in DOMAIN f PROVE g[key] = settled[key]
    <2>1. CASE key = "entities"
      BY <1>13, <1>17, <2>1
    <2>2. CASE key = "relations"
      BY <1>15, <1>17, <2>2
    <2>3. CASE key = "initial_events"
      BY <1>16, <1>17, <2>3
    <2>4. CASE key \notin valued
      <3>1. settled[key] = f[key]
        BY <1>17, <2>4
      <3> QED BY <1>10, <2>4, <3>1
    <2> QED BY <2>1, <2>2, <2>3, <2>4
  <1>19. g = settled
    <2>1. DOMAIN settled = DOMAIN f /\ settled = [x \in DOMAIN settled |-> settled[x]]
      BY <1>17
    <2> HIDE DEF settled
    <2> QED BY <1>10, <1>18, <2>1
  <1>20. SettledLayer(node) = Map(settled)
    BY SettledLayerIs
  <1> QED BY <1>1, <1>19, <1>20 DEF u, node

\* std::nullopt is none of the structs, which TLC cannot say of a model value.
NothingIsNoLayer == DOMAIN Nothing # DOMAIN TypedLayer.fields

LEMMA SettledTextIs ==
  ASSUME NEW text
  PROVE  SettledText(text) =
           Map([key \in KeysOf(text) |->
             CASE key = "goal_statement" -> Scalar(Printed("goal", text.at[key].text))
               [] key = "variables" ->
                    Sequence([i \in DOMAIN text.at[key].items |-> SettledVariable(text.at[key].items[i])])
               [] key = "typed_layer" -> SettledLayer(text.at[key])
               [] OTHER -> text.at[key]])
  BY DEF SettledText, SettledItems

LEMMA ScenarioSettles ==
  ASSUME NothingIsNoLayer, NEW s, ScenarioMade(s)
  PROVE  Serialize(Again(s)) = SettledText(Serialize(s))
  <1> DEFINE text == Serialize(s)
             u == Again(s)
             Written(w) == {k \in DOMAIN Scenario.fields : IsWritten(Scenario.fields[k], w[k])}
             At4(w) == [key \in Written(w) |-> FieldNode3(Scenario.fields[key].kind, w[key])]
             f == At4(s)
             g == At4(u)
             changed == {"goal_statement", "variables", "typed_layer"}
  <1>1. text = Map(f) /\ Serialize(u) = Map(g)
    BY ScenarioFields, PartNode4 DEF Serialize
  <1>2. /\ u.goal_statement = Printed("goal", s.goal_statement)
        /\ u.variables = [i \in DOMAIN s.variables |-> VariableAgain(s.variables[i])]
        /\ u.typed_layer = LayerAgain(s.typed_layer)
        /\ \A key \in DOMAIN Scenario.fields \ changed : u[key] = s[key]
    BY AgainIs DEF ScenarioMade
  <1>3. /\ changed \subseteq DOMAIN Scenario.fields
        /\ Scenario.fields["goal_statement"].kind = Of("goal")
        /\ Scenario.fields["goal_statement"].written = "always"
        /\ Scenario.fields["variables"].kind = ListOf(Variable)
        /\ Scenario.fields["variables"].written = "always"
        /\ Scenario.fields["typed_layer"].kind = TypedLayer
        /\ Scenario.fields["typed_layer"].written = "given"
    BY ScenarioFields, TableKinds DEF Optional
  <1>4. u.typed_layer = Nothing <=> s.typed_layer = Nothing
    <2>1. CASE s.typed_layer = Nothing
      BY <1>2, <2>1 DEF LayerAgain
    <2>2. CASE s.typed_layer # Nothing
      <3> DEFINE l == s.typed_layer
      <3>1. TypedMade(l)
        BY <2>2 DEF ScenarioMade
      <3>2. /\ l = [key \in DOMAIN l |-> l[key]] /\ DOMAIN l = DOMAIN TypedLayer.fields
            /\ {"entities", "relations", "initial_events"} \subseteq DOMAIN l
        BY <3>1, TypedFields DEF TypedMade
      <3> HIDE DEF l
      <3>3. DOMAIN LayerAgain(l) = DOMAIN TypedLayer.fields
        <4>1. LayerAgain(l) = [key \in DOMAIN l |-> LayerAgain(l)[key]]
          BY <2>2, <3>2, LayerAgainRows DEF l
        <4> QED BY <3>2, <4>1
      <3> QED BY <1>2, <2>2, <3>3 DEF l, NothingIsNoLayer
    <2> QED BY <2>1, <2>2
  <1> HIDE DEF u
  <1>5. Written(u) = Written(s)
    <2>1. \A w : IsWritten(Scenario.fields["goal_statement"], w) /\ IsWritten(Scenario.fields["variables"], w)
      BY <1>3, WrittenWhen
    <2>2. \A w : IsWritten(Scenario.fields["typed_layer"], w) <=> w # Nothing
      BY <1>3, WrittenWhen
    <2> QED BY <1>2, <1>4, <2>1, <2>2
  <1>6. /\ f = [x \in DOMAIN f |-> f[x]] /\ g = [x \in DOMAIN g |-> g[x]] /\ DOMAIN g = DOMAIN f
        /\ \A key \in DOMAIN f \ changed : g[key] = f[key]
    BY <1>2, <1>5
  <1>7. ASSUME "goal_statement" \in DOMAIN f
        PROVE  g.goal_statement = Scalar(Printed("goal", f.goal_statement.text))
    <2>1. \A w : FieldNode3(Of("goal"), w) = Scalar(Printed("goal", w))
      <3>1. Of("goal").kind = "scalar" /\ Of("goal").reader = "goal"
        BY DEF Of
      <3>2. Of("goal").kind \notin Nested \cup {"part"}
        BY <3>1 DEF Nested
      <3> QED BY <3>1, <3>2, LeafField3, ScalarLeaf
    <2>2. f.goal_statement = Scalar(Printed("goal", s.goal_statement))
      BY <1>3, <1>7, <2>1
    <2>3. g.goal_statement = Scalar(Printed("goal", u.goal_statement))
      BY <1>3, <1>5, <1>7, <2>1
    <2> QED BY <1>2, <2>2, <2>3, NodeKinds
  <1>8. ASSUME "variables" \in DOMAIN f
        PROVE  g.variables = Sequence([i \in DOMAIN f.variables.items |-> SettledVariable(f.variables.items[i])])
    <2>1. f.variables = FieldNode3(ListOf(Variable), s.variables)
          /\ g.variables = FieldNode3(ListOf(Variable), u.variables)
      BY <1>3, <1>5, <1>8
    <2> HIDE DEF f, g
    <2>2. f.variables = Sequence([i \in DOMAIN s.variables |-> Write3(Variable, s.variables[i])])
      BY <2>1, ListPrinted
    <2>3. g.variables = Sequence([i \in DOMAIN u.variables |-> Write3(Variable, u.variables[i])])
      BY <2>1, ListPrinted
    <2>4. f.variables.items = [i \in DOMAIN s.variables |-> Write3(Variable, s.variables[i])]
      BY <2>2, NodeKinds
    <2>5. ASSUME NEW i \in DOMAIN s.variables
          PROVE  Write3(Variable, u.variables[i]) = SettledVariable(f.variables.items[i])
      <3>1. VariableMade(s.variables[i])
        <4>1. "variables" \in DOMAIN ListIds
          BY ScenarioFields
        <4> QED BY <4>1 DEF ScenarioMade, SectionRowMade
      <3>2. u.variables[i] = VariableAgain(s.variables[i])
        BY <1>2
      <3> QED BY <2>4, <3>1, <3>2, VariableSettles
    <2>6. DOMAIN u.variables = DOMAIN s.variables /\ DOMAIN f.variables.items = DOMAIN s.variables
      BY <1>2, <2>4
    <2>7. [i \in DOMAIN u.variables |-> Write3(Variable, u.variables[i])] =
          [i \in DOMAIN f.variables.items |-> SettledVariable(f.variables.items[i])]
      BY <2>5, <2>6
    <2> QED BY <2>3, <2>7
  <1>9. ASSUME "typed_layer" \in DOMAIN f
        PROVE  g.typed_layer = SettledLayer(f.typed_layer)
    <2>1. f.typed_layer = FieldNode3(TypedLayer, s.typed_layer)
          /\ g.typed_layer = FieldNode3(TypedLayer, u.typed_layer)
      BY <1>3, <1>5, <1>9
    <2>2. s.typed_layer # Nothing
      BY <1>3, <1>9, WrittenWhen
    <2> HIDE DEF f, g
    <2>3. f.typed_layer = Write3(TypedLayer, s.typed_layer) /\ g.typed_layer = Write3(TypedLayer, u.typed_layer)
      BY <2>1, TypedFields, LayerNode3
    <2>4. TypedMade(s.typed_layer)
      BY <2>2 DEF ScenarioMade
    <2> QED BY <1>2, <2>2, <2>3, <2>4, LayerSettles
  <1> HIDE DEF f, g, text
  <1> DEFINE settled ==
           [key \in KeysOf(text) |->
             CASE key = "goal_statement" -> Scalar(Printed("goal", text.at[key].text))
               [] key = "variables" ->
                    Sequence([i \in DOMAIN text.at[key].items |-> SettledVariable(text.at[key].items[i])])
               [] key = "typed_layer" -> SettledLayer(text.at[key])
               [] OTHER -> text.at[key]]
  <1>10. KeysOf(text) = DOMAIN f /\ text.at = f
    BY <1>1, NodeKinds
  <1>11. ASSUME NEW key \in DOMAIN f PROVE g[key] = settled[key]
    <2>1. CASE key = "goal_statement"
      BY <1>7, <1>10, <2>1
    <2>2. CASE key = "variables"
      BY <1>8, <1>10, <2>2
    <2>3. CASE key = "typed_layer"
      BY <1>9, <1>10, <2>3
    <2>4. CASE key \notin changed
      <3>1. settled[key] = f[key]
        BY <1>10, <2>4
      <3> QED BY <1>6, <2>4, <3>1
    <2> QED BY <2>1, <2>2, <2>3, <2>4
  <1>12. g = settled
    <2>1. DOMAIN settled = DOMAIN f /\ settled = [x \in DOMAIN settled |-> settled[x]]
      BY <1>10
    <2> HIDE DEF settled
    <2> QED BY <1>6, <1>11, <2>1
  <1>13. SettledText(text) = Map(settled)
    BY SettledTextIs
  <1> QED BY <1>1, <1>12, <1>13 DEF u, text

\* What is read again is settled: it is read as it is, and nothing of it is
\* renamed a second time.
LEMMA VariableSettled ==
  ASSUME NEW v, VariableMade(v)
  PROVE  VariableAgain(VariableAgain(v)) = VariableAgain(v)
  <1> DEFINE u == VariableAgain(v)
             w == VariableAgain(u)
  <1>1. /\ u = [key \in DOMAIN Variable.fields |-> u[key]]
        /\ u.default_value = DefaultAgain(v.default_value, v.type) /\ u.type = v.type
    BY VariableFields DEF VariableMade, VariableAgain
  <1> HIDE DEF u
  <1>2. /\ w = [key \in DOMAIN Variable.fields |-> w[key]]
        /\ w.default_value = DefaultAgain(u.default_value, u.type)
        /\ \A key \in DOMAIN Variable.fields \ {"default_value"} : w[key] = u[key]
    BY <1>1, VariableFields DEF VariableAgain
  <1>3. w.default_value = u.default_value
    BY <1>1, <1>2, DefaultSettled DEF VariableMade
  <1> HIDE DEF w
  <1>4. w = u
    BY <1>1, <1>2, <1>3
  <1> QED BY <1>4 DEF w, u

LEMMA AgainSettled ==
  ASSUME NEW s, ScenarioMade(s), ~Unreadable(s)
  PROVE  ScenarioMade(Again(s)) /\ Again(Again(s)) = Again(s)
  <1> DEFINE u == Again(s)
             w == Again(u)
  <1>1. ScenarioMade(u) /\ LayerAgain(u.typed_layer) = u.typed_layer
    <2>1. DocFits(Serialize(s)) /\ u \in Deserialize(Serialize(s))
      BY SerializedFits, SerializedRead
    <2> QED BY <2>1, ScenarioGiven
  <1>2. /\ u = [key \in DOMAIN Scenario.fields |-> u[key]]
        /\ u.goal_statement = Printed("goal", s.goal_statement)
        /\ u.variables = [i \in DOMAIN s.variables |-> VariableAgain(s.variables[i])]
    BY AgainIs DEF ScenarioMade
  <1> HIDE DEF u
  <1>3. /\ w = [key \in DOMAIN Scenario.fields |-> w[key]]
        /\ w.goal_statement = Printed("goal", u.goal_statement)
        /\ w.variables = [i \in DOMAIN u.variables |-> VariableAgain(u.variables[i])]
        /\ w.typed_layer = LayerAgain(u.typed_layer)
        /\ \A key \in DOMAIN Scenario.fields \ {"goal_statement", "variables", "typed_layer"} :
             w[key] = u[key]
    BY <1>2, AgainIs
  <1> HIDE DEF w
  <1>4. w.goal_statement = u.goal_statement
    <2>1. \A text : Printed("goal", Printed("goal", text)) = Printed("goal", text)
      <3>1. \A text : Printed("goal", text) = IF text \in DOMAIN LineEnded THEN LineEnded[text] ELSE text
        BY DEF Printed
      <3>2. \A text \in DOMAIN LineEnded : LineEnded[text] \notin DOMAIN LineEnded
        BY TextAssumption
      <3> QED BY <3>1, <3>2
    <2> QED BY <1>2, <1>3, <2>1
  <1>5. w.variables = u.variables
    <2>1. ASSUME NEW i \in DOMAIN s.variables PROVE VariableAgain(u.variables[i]) = u.variables[i]
      <3>1. VariableMade(s.variables[i])
        <4>1. "variables" \in DOMAIN ListIds
          BY ScenarioFields
        <4> QED BY <4>1 DEF ScenarioMade, SectionRowMade
      <3> QED BY <1>2, <3>1, VariableSettled
    <2> QED BY <1>2, <1>3, <2>1
  <1>6. w.typed_layer = u.typed_layer
    BY <1>1, <1>3
  <1>7. w = u
    BY <1>2, <1>3, <1>4, <1>5, <1>6
  <1> QED BY <1>1, <1>7 DEF u, w

LEMMA EdgeSettled ==
  ASSUME NEW e, HeldPart2(Edge, e)
  PROVE  CanonicalEdge(CanonicalEdge(e)) = CanonicalEdge(e)
  <1> DEFINE id == "propagation_function_id"
             Renamed(name) == IF name \in DOMAIN LegacyNames THEN LegacyNames[name] ELSE name
             f == CanonicalEdge(e)
  <1>1. \A name : Renamed(Renamed(name)) = Renamed(name)
    BY DEF LegacyNames
  <1>2. e = [k \in DOMAIN Edge.fields |-> e[k]] /\ id \in DOMAIN Edge.fields
    <2>1. id \in DOMAIN Edge.fields
      BY DEF Edge, Part
    <2> QED BY <2>1 DEF HeldPart2
  <1> HIDE DEF Renamed
  <1>3. \A x : CanonicalEdge(x) = [x EXCEPT ![id] = Renamed(x[id])]
    BY DEF CanonicalEdge, Renamed
  <1>4. /\ f = [k \in DOMAIN Edge.fields |-> f[k]] /\ f[id] = Renamed(e[id])
    <2>1. f = [e EXCEPT ![id] = Renamed(e[id])]
      BY <1>3
    <2> QED BY <1>2, <2>1
  <1> HIDE DEF f
  <1>5. CanonicalEdge(f) = [f EXCEPT ![id] = Renamed(f[id])]
    BY <1>3
  <1>6. Renamed(f[id]) = f[id]
    BY <1>1, <1>4
  <1>7. CanonicalEdge(f) = f
    BY <1>4, <1>5, <1>6
  <1> QED BY <1>7 DEF f

\* A scenario as Finish leaves it.
Settled(s) == ScenarioMade(s) /\ Canonical(s) = s

LEMMA CanonicalSettled ==
  ASSUME NEW s, ScenarioMade(s)
  PROVE  Settled(Canonical(s))
  <1> DEFINE c == Canonical(s)
             d == Canonical(c)
  <1>1. /\ c = [key \in DOMAIN Scenario.fields |-> c[key]]
        /\ c.dependency_edges = [i \in DOMAIN s.dependency_edges |-> CanonicalEdge(s.dependency_edges[i])]
    BY CanonicalIs DEF ScenarioMade
  <1>2. ScenarioMade(c)
    BY CanonicalMade
  <1> HIDE DEF c
  <1>3. /\ d = [key \in DOMAIN Scenario.fields |-> d[key]]
        /\ d.dependency_edges = [i \in DOMAIN c.dependency_edges |-> CanonicalEdge(c.dependency_edges[i])]
        /\ \A key \in DOMAIN Scenario.fields \ {"dependency_edges"} : d[key] = c[key]
    BY <1>1, CanonicalIs
  <1> HIDE DEF d
  <1>4. d.dependency_edges = c.dependency_edges
    <2>1. ASSUME NEW i \in DOMAIN s.dependency_edges
          PROVE  CanonicalEdge(c.dependency_edges[i]) = c.dependency_edges[i]
      <3>1. HeldPart2(Edge, s.dependency_edges[i])
        BY ScenarioFields DEF ScenarioMade, SectionRowMade
      <3> QED BY <1>1, <3>1, EdgeSettled
    <2> QED BY <1>1, <1>3, <2>1
  <1>5. d = c
    BY <1>1, <1>3, <1>4
  <1> QED BY <1>2, <1>5 DEF Settled, d, c

LEMMA SettledAgain ==
  ASSUME NEW s, Settled(s)
  PROVE  Canonical(Again(s)) = Again(s)
  <1> DEFINE u == Again(s)
             c == Canonical(s)
             d == Canonical(u)
  <1>1. s = [key \in DOMAIN Scenario.fields |-> s[key]] /\ c = s
    BY DEF Settled, ScenarioMade
  <1>2. u = [key \in DOMAIN Scenario.fields |-> u[key]] /\ u.dependency_edges = s.dependency_edges
    <2>1. "dependency_edges" \in DOMAIN Scenario.fields
      BY ScenarioFields
    <2> QED BY <1>1, <2>1, AgainIs
  <1>3. c.dependency_edges = [i \in DOMAIN s.dependency_edges |-> CanonicalEdge(s.dependency_edges[i])]
    BY <1>1, CanonicalIs
  <1> HIDE DEF u, c
  <1>4. /\ d = [key \in DOMAIN Scenario.fields |-> d[key]]
        /\ d.dependency_edges = [i \in DOMAIN u.dependency_edges |-> CanonicalEdge(u.dependency_edges[i])]
        /\ \A key \in DOMAIN Scenario.fields \ {"dependency_edges"} : d[key] = u[key]
    BY <1>2, CanonicalIs
  <1> HIDE DEF d
  <1>5. d.dependency_edges = u.dependency_edges
    BY <1>1, <1>2, <1>3, <1>4
  <1>6. d = u
    BY <1>2, <1>4, <1>5
  <1> QED BY <1>6 DEF d, u

\* What a later generation reads.
LEMMA SettledRead ==
  ASSUME NEW s, Settled(s), NEW v
  PROVE  /\ v \in Deserialize(Serialize(s)) => ~Unreadable(s) /\ v = Again(s)
         /\ ~Unreadable(s) /\ v \in Deserialize(Serialize(Again(s))) => v = Again(s)
  <1>1. ASSUME v \in Deserialize(Serialize(s)) PROVE ~Unreadable(s) /\ v = Again(s)
    BY <1>1, SerializedRefused, SerializedRead DEF Settled
  <1>2. ASSUME ~Unreadable(s), v \in Deserialize(Serialize(Again(s))) PROVE v = Again(s)
    <2> DEFINE u == Again(s)
    <2>1. ScenarioMade(u) /\ Again(u) = u
      BY <1>2, AgainSettled DEF Settled
    <2>2. v \in Deserialize(Serialize(u))
      BY <1>2
    <2> HIDE DEF u
    <2>3. v = Again(u)
      BY <2>1, <2>2, SerializedRefused, SerializedRead
    <2> QED BY <2>1, <2>3 DEF u
  <1> QED BY <1>1, <1>2

LEMMA CanonicalTextIsPlain ==
  ASSUME NEW s
  PROVE  /\ Sanitized(Serialize(s)) = Serialize(s)
         /\ DOMAIN ExtensionBlocks(Serialize(s)) = {}
         /\ At(Serialize(s), "imports") = Missing /\ DeclaredExtensions(Serialize(s)) = {<<>>}
         /\ \A blocks : DOMAIN blocks = {} => Map(Over(Serialize(s).at, blocks)) = Serialize(s)
  <1> DEFINE text == Serialize(s)
             f == [key \in {k \in DOMAIN Scenario.fields : IsWritten(Scenario.fields[k], s[k])} |->
                     FieldNode3(Scenario.fields[key].kind, s[key])]
  <1>1. text = Map(f)
    BY ScenarioFields, PartNode4 DEF Serialize
  <1>2. f = [x \in DOMAIN f |-> f[x]] /\ DOMAIN f \subseteq CoreKeys
    BY DEF CoreKeys
  <1>3. {"imports", "extensions"} \cap CoreKeys = {}
    BY ScenarioFields DEF CoreKeys, PlainSections, ListIds
  <1> HIDE DEF f, text
  <1>4. text.node = "map" /\ text.at = f /\ KeysOf(text) = DOMAIN f
    BY <1>1, NodeKinds
  <1>5. Sanitized(text) = text
    <2>1. Sanitized(text) = Map([key \in DOMAIN f \cap CoreKeys |-> f[key]])
      BY <1>4 DEF Sanitized
    <2>2. [key \in DOMAIN f \cap CoreKeys |-> f[key]] = f
      BY <1>2
    <2> QED BY <1>1, <2>1, <2>2
  <1>6. DOMAIN ExtensionBlocks(text) = {}
    BY <1>2, <1>4, BlocksOf
  <1>7. At(text, "imports") = Missing /\ At(text, "extensions") = Missing
    BY <1>2, <1>3, <1>4 DEF At
  <1>8. DeclaredExtensions(text) = {<<>>}
    BY <1>7 DEF DeclaredExtensions, Missing
  <1>9. ASSUME NEW blocks, DOMAIN blocks = {} PROVE Map(Over(text.at, blocks)) = text
    <2>1. Over(f, blocks) = f
      BY <1>2, <1>9 DEF Over
    <2> QED BY <1>1, <1>4, <2>1
  <1> QED BY <1>5, <1>6, <1>7, <1>8, <1>9 DEF text

(***************************************************************************)
(* The generations: the first one makes a settled scenario s, the others   *)
(* read its text and make Again(s).                                        *)
(***************************************************************************)
Rereading(s) ==
  /\ \/ files[Root] = Serialize(s)
     \/ ~Unreadable(s) /\ files[Root] = Serialize(Again(s))
  /\ \/ stage = "read" /\ at = 0
     \/ /\ ~Unreadable(s) /\ authoring.scenario = Again(s)
        /\ authoring.declared = <<>> /\ DOMAIN authoring.blocks = {}
  /\ stage \in {"check", "transform"} => lowered = Serialize(Again(s))

Generations(s) ==
  /\ Settled(s) /\ Len(texts) >= 1 /\ texts[1] = Serialize(s)
  /\ \A g \in 2 .. Len(texts) : ~Unreadable(s) /\ texts[g] = Serialize(Again(s))
  /\ stage \notin {"resolved", "failed"} => Rereading(s)

SettleInv == (texts = <<>> /\ stage # "resolved") \/ (\E s : Generations(s))

LEMMA NoText ==
  ASSUME texts = <<>>, stage' # "resolved", texts' = texts
  PROVE  SettleInv'
  BY DEF SettleInv

LEMMA SameTexts ==
  ASSUME NEW s, Generations(s), texts' = texts,
         stage' \notin {"resolved", "failed"} => Rereading(s)'
  PROVE  SettleInv'
  <1>1. Generations(s)'
    BY DEF Generations
  <1> QED BY <1>1 DEF SettleInv

LEMMA SettleFails ==
  ASSUME SettleInv, Fail
  PROVE  SettleInv'
  <1>1. stage' = "failed" /\ texts' = texts
    BY DEF Fail
  <1>2. CASE texts = <<>>
    BY <1>1, <1>2, NoText
  <1>3. ASSUME NEW s, Generations(s) PROVE SettleInv'
    BY <1>1, <1>3, SameTexts
  <1> QED BY <1>2, <1>3 DEF SettleInv

LEMMA SettleRoot ==
  ASSUME DeclarationInv, SettleInv, ReadRoot
  PROVE  SettleInv'
  <1>1. CASE Fail
    BY <1>1, SettleFails
  <1>2. CASE ~Fail
    <2>1. /\ stage = "read" /\ at = 0 /\ authoring' \in Authored(files[Root])
          /\ at' = 1 /\ UNCHANGED <<files, stage, lowered, texts>>
      BY <1>2 DEF ReadRoot
    <2>2. CASE texts = <<>>
      BY <2>1, <2>2, NoText
    <2>3. ASSUME NEW s, Generations(s) PROVE SettleInv'
      <3>1. Rereading(s) /\ Settled(s)
        BY <2>1, <2>3 DEF Generations
      <3>2. Root \in DOMAIN files /\ IsList(ItemsOf(At(files[Root], "extensions")))
        BY DEF DeclarationInv, FilesSound
      <3>3. /\ authoring'.scenario \in Deserialize(Sanitized(files[Root]))
            /\ authoring'.declared \in DeclaredExtensions(files[Root])
            /\ authoring'.blocks = ExtensionBlocks(files[Root])
        BY <2>1, <3>2, AuthoredGives
      <3>4. PICK x : /\ files[Root] = Serialize(x)
                     /\ x = s \/ (~Unreadable(s) /\ x = Again(s))
        BY <3>1 DEF Rereading
      <3>5. /\ authoring'.scenario \in Deserialize(Serialize(x))
            /\ authoring'.declared = <<>> /\ DOMAIN authoring'.blocks = {}
        BY <3>3, <3>4, CanonicalTextIsPlain
      <3>6. ~Unreadable(s) /\ authoring'.scenario = Again(s)
        <4>1. CASE x = s
          BY <3>1, <3>5, <4>1, SettledRead
        <4>2. CASE ~Unreadable(s) /\ x = Again(s)
          BY <3>1, <3>5, <4>2, SettledRead
        <4> QED BY <3>4, <4>1, <4>2
      <3>7. Rereading(s)'
        BY <2>1, <3>1, <3>5, <3>6 DEF Rereading
      <3> QED BY <2>1, <2>3, <3>7, SameTexts
    <2> QED BY <2>2, <2>3 DEF SettleInv
  <1> QED BY <1>1, <1>2

LEMMA NoImports ==
  ASSUME NEW s, Rereading(s)
  PROVE  Imports = <<>>
  <1>1. PICK x : files[Root] = Serialize(x)
    BY DEF Rereading
  <1>2. At(files[Root], "imports") = Missing
    BY <1>1, CanonicalTextIsPlain
  <1> QED BY <1>2 DEF Imports, ItemsOf, Missing

LEMMA SettleImport ==
  ASSUME SettleInv, ReadImport
  PROVE  SettleInv'
  <1>1. CASE Fail
    BY <1>1, SettleFails
  <1>2. CASE ~Fail
    <2>1. stage = "read" /\ at \in DOMAIN Imports /\ UNCHANGED <<files, stage, lowered, texts>>
      BY <1>2 DEF ReadImport
    <2>2. CASE texts = <<>>
      BY <2>1, <2>2, NoText
    <2>3. ASSUME NEW s, Generations(s) PROVE FALSE
      <3>1. Imports = <<>>
        BY <2>1, <2>3, NoImports DEF Generations
      <3> QED BY <2>1, <3>1
    <2> QED BY <2>2, <2>3 DEF SettleInv
  <1> QED BY <1>1, <1>2

LEMMA SettleDiscover ==
  ASSUME DeclarationInv, SettleInv, Discover
  PROVE  SettleInv'
  <1>1. CASE Fail
    BY <1>1, SettleFails
  <1>2. CASE ~Fail
    <2>1. /\ stage = "read" /\ at = Len(Imports) + 1 /\ UNCHANGED <<files, authoring, texts>>
          /\ \/ stage' = "finish"
             \/ stage' = "check" /\ lowered' = AuthoringRoot
      BY <1>2, DiscoverGives DEF GoTo
    <2>2. at # 0
      <3>1. Len(Imports) \in Nat
        BY ListIs DEF DeclarationInv, FilesSound
      <3> QED BY <2>1, <3>1
    <2>3. CASE texts = <<>>
      BY <2>1, <2>3, NoText
    <2>4. ASSUME NEW s, Generations(s) PROVE SettleInv'
      <3>1. Rereading(s)
        BY <2>1, <2>4 DEF Generations
      <3>2. ~Unreadable(s) /\ authoring.scenario = Again(s)
            /\ authoring.declared = <<>> /\ DOMAIN authoring.blocks = {}
        BY <2>2, <3>1 DEF Rereading
      <3>3. AuthoringRoot = Serialize(Again(s))
        BY <3>2, CanonicalTextIsPlain DEF AuthoringRoot
      <3>4. Rereading(s)'
        BY <2>1, <3>1, <3>2, <3>3 DEF Rereading
      <3> QED BY <2>1, <2>4, <3>4, SameTexts
    <2> QED BY <2>3, <2>4 DEF SettleInv
  <1> QED BY <1>1, <1>2

LEMMA SettleCheck ==
  ASSUME SettleInv, CheckBlocks
  PROVE  SettleInv'
  <1>1. CASE Fail
    BY <1>1, SettleFails
  <1>2. CASE ~Fail
    <2>1. stage = "check" /\ stage' = "transform" /\ UNCHANGED <<files, authoring, lowered, texts>>
      BY <1>2 DEF CheckBlocks, GoTo
    <2>2. CASE texts = <<>>
      BY <2>1, <2>2, NoText
    <2>3. ASSUME NEW s, Generations(s) PROVE SettleInv'
      <3>1. Rereading(s)
        BY <2>1, <2>3 DEF Generations
      <3>2. Rereading(s)'
        BY <2>1, <3>1 DEF Rereading
      <3> QED BY <2>1, <2>3, <3>2, SameTexts
    <2> QED BY <2>2, <2>3 DEF SettleInv
  <1> QED BY <1>1, <1>2

LEMMA SettleTransform ==
  ASSUME SettleInv, Transform
  PROVE  SettleInv'
  <1>1. CASE Fail
    BY <1>1, SettleFails
  <1>2. CASE ~Fail
    <2>1. /\ stage = "transform" /\ at \in DOMAIN authoring.declared
          /\ UNCHANGED <<files, stage, authoring, texts>>
      BY <1>2 DEF Transform
    <2>2. CASE texts = <<>>
      BY <2>1, <2>2, NoText
    <2>3. ASSUME NEW s, Generations(s) PROVE FALSE
      <3>1. authoring.declared = <<>>
        BY <2>1, <2>3 DEF Generations, Rereading
      <3> QED BY <2>1, <3>1
    <2> QED BY <2>2, <2>3 DEF SettleInv
  <1> QED BY <1>1, <1>2

LEMMA SettleLower ==
  ASSUME DeclarationInv, SettleInv, Lower
  PROVE  SettleInv'
  <1>1. CASE Fail
    BY <1>1, SettleFails
  <1>2. CASE ~Fail
    <2>1. PICK v \in Deserialize(lowered) : authoring' = [authoring EXCEPT !.scenario = v]
      BY <1>2 DEF Lower
    <2>2. stage = "transform" /\ stage' = "finish" /\ UNCHANGED <<files, lowered, texts>>
      BY <1>2 DEF Lower, GoTo
    <2>3. AuthoringKept
      BY <2>2 DEF DeclarationInv, Busy
    <2>4. /\ authoring'.scenario = v /\ authoring'.declared = authoring.declared
          /\ authoring'.blocks = authoring.blocks
      BY <2>1, <2>3 DEF AuthoringKept
    <2>5. CASE texts = <<>>
      BY <2>2, <2>5, NoText
    <2>6. ASSUME NEW s, Generations(s) PROVE SettleInv'
      <3>1. Rereading(s) /\ Settled(s)
        BY <2>2, <2>6 DEF Generations
      <3>2. ~Unreadable(s) /\ authoring.declared = <<>> /\ DOMAIN authoring.blocks = {}
            /\ lowered = Serialize(Again(s))
        BY <2>2, <3>1 DEF Rereading
      <3>3. v = Again(s)
        BY <2>1, <3>1, <3>2, SettledRead
      <3>4. Rereading(s)'
        BY <2>2, <2>4, <3>1, <3>2, <3>3 DEF Rereading
      <3> QED BY <2>2, <2>6, <3>4, SameTexts
    <2> QED BY <2>5, <2>6 DEF SettleInv
  <1> QED BY <1>1, <1>2

LEMMA SettleFinish ==
  ASSUME DeclarationInv, ScenarioInv, SettleInv, Finish
  PROVE  SettleInv'
  <1> DEFINE c == Canonical(authoring.scenario)
             text == Serialize(c)
  <1>1. stage = "finish" /\ stage' = "resolved" /\ texts' = Append(texts, text)
    BY DEF Finish, GoTo
  <1>2. ScenarioKept /\ IsList(texts)
    BY <1>1 DEF DeclarationInv, ScenarioInv, Busy, TextsSound
  <1>3. /\ Len(texts) \in Nat /\ Len(texts') = Len(texts) + 1 /\ texts'[Len(texts) + 1] = text
        /\ \A g \in 1 .. Len(texts) : texts'[g] = texts[g]
    <2> HIDE DEF text
    <2>1. Len(texts) \in Nat /\ DOMAIN texts = 1 .. Len(texts)
      BY <1>2, ListIs
    <2> QED BY <1>1, <1>2, <2>1, ListAppended
  <1>4. CASE texts = <<>>
    <2>1. Settled(c)
      BY <1>2, CanonicalSettled DEF ScenarioKept
    <2>2. Len(texts) = 0
      BY <1>4, EmptyList
    <2>3. Len(texts') = 1 /\ texts'[1] = text
      BY <1>3, <2>2
    <2>4. PICK s : s = c
      OBVIOUS
    <2>5. Settled(s) /\ texts'[1] = Serialize(s)
      BY <2>1, <2>3, <2>4
    <2> HIDE DEF c
    <2>6. Generations(s)'
      BY <1>1, <2>3, <2>5 DEF Generations
    <2> QED BY <2>6 DEF SettleInv
  <1>5. ASSUME NEW s, Generations(s) PROVE SettleInv'
    <2>1. /\ Settled(s) /\ Len(texts) >= 1 /\ texts[1] = Serialize(s)
          /\ \A g \in 2 .. Len(texts) : ~Unreadable(s) /\ texts[g] = Serialize(Again(s))
          /\ ~Unreadable(s) /\ authoring.scenario = Again(s)
      BY <1>1, <1>5 DEF Generations, Rereading
    <2>2. text = Serialize(Again(s))
      BY <2>1, SettledAgain
    <2> HIDE DEF text, c
    <2>3. texts'[1] = Serialize(s) /\ Len(texts') >= 1
      BY <1>3, <2>1
    <2>4. ASSUME NEW g \in 2 .. Len(texts') PROVE ~Unreadable(s) /\ texts'[g] = Serialize(Again(s))
      <3>1. CASE g = Len(texts) + 1
        BY <1>3, <2>1, <2>2, <3>1
      <3>2. CASE g # Len(texts) + 1
        <4>1. g \in 2 .. Len(texts) /\ g \in 1 .. Len(texts)
          BY <1>3, <3>2
        <4> QED BY <1>3, <2>1, <4>1
      <3> QED BY <3>1, <3>2
    <2>5. Generations(s)'
      BY <1>1, <2>1, <2>3, <2>4 DEF Generations
    <2> QED BY <2>5 DEF SettleInv
  <1> QED BY <1>4, <1>5 DEF SettleInv

LEMMA SettleAgain ==
  ASSUME DeclarationInv, SettleInv, ResolveAgain
  PROVE  SettleInv'
  <1>1. /\ stage = "resolved" /\ files' = [path \in {Root} |-> texts[Len(texts)]]
        /\ stage' = "read" /\ at' = 0 /\ texts' = texts
    BY DEF ResolveAgain
  <1>2. PICK s : Generations(s)
    BY <1>1 DEF SettleInv
  <1>3. Len(texts) \in Nat
    BY ListIs DEF DeclarationInv, TextsSound
  <1>4. \/ texts[Len(texts)] = Serialize(s)
        \/ ~Unreadable(s) /\ texts[Len(texts)] = Serialize(Again(s))
    <2>1. CASE Len(texts) = 1
      BY <1>2, <2>1 DEF Generations
    <2>2. CASE Len(texts) # 1
      <3>1. Len(texts) \in 2 .. Len(texts)
        BY <1>2, <1>3, <2>2 DEF Generations
      <3> QED BY <1>2, <3>1 DEF Generations
    <2> QED BY <2>1, <2>2
  <1>5. Rereading(s)'
    BY <1>1, <1>4 DEF Rereading
  <1> QED BY <1>1, <1>2, <1>5, SameTexts

LEMMA SettleStep ==
  ASSUME DeclarationInv, ScenarioInv, SettleInv, [Next]_vars
  PROVE  SettleInv'
  <1>1. CASE UNCHANGED vars
    BY <1>1 DEF vars, SettleInv, Generations, Rereading
  <1> QED BY <1>1, SettleRoot, SettleImport, SettleDiscover, SettleCheck, SettleTransform,
             SettleLower, SettleFinish, SettleAgain DEF Next, Terminated

\* For every set of files, the canonical text of what resolve_scenario
\* resolves resolves to SettledText of itself, and that to itself, how often
\* "resolve" is run on its own output.
THEOREM CanonicalTextSettles ==
  ASSUME NothingIsNoLayer
  PROVE  Spec => []CanonicalSettles
  <1>1. Init => SettleInv
    BY DEF Init, SettleInv
  <1>2. DeclarationInv /\ ScenarioInv /\ SettleInv /\ [Next]_vars => SettleInv'
    BY SettleStep
  <1>3. ASSUME DeclarationInv, SettleInv PROVE CanonicalSettles
    <2>1. Len(texts) \in Nat
      BY <1>3, ListIs DEF DeclarationInv, TextsSound
    <2>2. CASE texts = <<>>
      <3>1. Len(texts) = 0
        BY <2>2, EmptyList
      <3> QED BY <3>1 DEF CanonicalSettles
    <2>3. ASSUME NEW s, Generations(s), NEW g \in 1 .. Len(texts) - 1
          PROVE  texts[g + 1] = IF g = 1 THEN SettledText(texts[1]) ELSE texts[g]
      <3>1. g + 1 \in 2 .. Len(texts) /\ (g # 1 => g \in 2 .. Len(texts))
        BY <2>1
      <3>2. texts[g + 1] = Serialize(Again(s)) /\ texts[1] = Serialize(s)
            /\ (g # 1 => texts[g] = Serialize(Again(s)))
        BY <2>3, <3>1 DEF Generations
      <3>3. Serialize(Again(s)) = SettledText(Serialize(s))
        BY <2>3, ScenarioSettles DEF Generations, Settled
      <3> QED BY <3>2, <3>3
    <2> QED BY <1>3, <2>2, <2>3 DEF SettleInv, CanonicalSettles
  <1> QED BY <1>1, <1>2, <1>3, DeclarationInvariant, ScenarioInvariant, PTL DEF Spec

(***************************************************************************)
(* The variables of a document and of a scenario by their names.           *)
(***************************************************************************)
NamedIn(s, name) == {i \in DOMAIN s.variables : s.variables[i].variable_id = name}

LEMMA VariableFieldGiven ==
  ASSUME NEW node, NEW around, NEW layer, NEW v \in Read3(Variable, node, around, layer)
  PROVE  /\ v.variable_id = TextOf(At(node, "variable_id"))
         /\ \A value : At(node, "type") = Scalar("FLOAT") /\ At(node, "default_value") = Scalar(value) =>
              v.default_value \in Variant("double", Take("stod", value))
  <1>1. /\ node.node = "map"
        /\ \A key \in DOMAIN Variable.fields :
             v[key] \in IF key \in DOMAIN node.at
                        THEN Field2(Variable.fields[key].kind, node.at[key], node, layer)
                        ELSE Variable.fields[key].missing
    BY VariableFields, PartGiven3
  <1>2. /\ {"variable_id", "default_value"} \subseteq DOMAIN Variable.fields
        /\ \A key \in {"variable_id", "default_value"} : Variable.fields[key].missing = {}
        /\ Variable.fields["variable_id"].kind = Text /\ Variable.fields["default_value"].kind = Default
    BY VariableFields DEF Required
  <1>3. /\ "variable_id" \in DOMAIN node.at /\ v.variable_id \in Field2(Text, node.at["variable_id"], node, layer)
        /\ "default_value" \in DOMAIN node.at
        /\ v.default_value \in Field2(Default, node.at["default_value"], node, layer)
    BY <1>1, <1>2
  <1>4. v.variable_id = TextOf(At(node, "variable_id"))
    <2>1. v.variable_id \in Take("text", TextOf(node.at["variable_id"]))
      BY <1>3, TableKinds, LeafField2, ScalarGiven
    <2> QED BY <1>1, <1>3, <2>1 DEF At, KeysOf, Take
  <1>5. ASSUME NEW value, At(node, "type") = Scalar("FLOAT"), At(node, "default_value") = Scalar(value)
        PROVE  v.default_value \in Variant("double", Take("stod", value))
    <2>1. TextOf(At(node, "type")) = "FLOAT"
      BY <1>5, NodeKinds DEF TextOf
    <2>2. node.at["default_value"] = Scalar(value)
      BY <1>1, <1>3, <1>5 DEF At, KeysOf
    <2>3. v.default_value \in ReadDefault(Scalar(value), "FLOAT")
      BY <1>3, <2>1, <2>2, LeafKinds, LeafField2, DefaultLeaf
    <2>4. ReadDefault(Scalar(value), "FLOAT") = ParseScalarValue(value, "FLOAT")
      BY NodeKinds DEF ReadDefault
    <2> QED BY <2>3, <2>4, ScalarParsed
  <1> QED BY <1>4, <1>5

LEMMA NamesGiven ==
  ASSUME NEW doc, DocFits(doc), NEW s \in Deserialize(doc), NEW name
  PROVE  NamedIn(s, name) = VariableNodes(doc, name)
  <1> DEFINE items == ItemsOf(At(doc, "variables"))
  <1>1. "variables" \in DOMAIN ListIds /\ SectionKind("variables") = Variable
    BY ScenarioFields
  <1>2. \A i \in DOMAIN s.variables : s.variables[i] \in Read3(Variable, items[i], Null, At(doc, "typed_layer"))
    BY <1>1, SectionGiven
  <1>3. \A i \in DOMAIN s.variables : s.variables[i].variable_id = TextOf(At(items[i], "variable_id"))
    BY <1>2, VariableFieldGiven
  <1>4. DOMAIN s.variables = DOMAIN items
    <2>1. /\ doc.node = "map"
          /\ s.variables \in IF "variables" \in DOMAIN doc.at
                             THEN Field3(Scenario.fields["variables"].kind, doc.at["variables"], doc,
                                         At(doc, "typed_layer"))
                             ELSE Scenario.fields["variables"].missing
      BY <1>1, ScenarioFields, PartGiven4 DEF Deserialize
    <2>2. /\ Scenario.fields["variables"].kind = ListOf(Variable) /\ ListOf(Variable).kind = "list"
          /\ Scenario.fields["variables"].missing = {<<>>}
      <3>1. Scenario.fields["variables"] = Listed(ListOf(Variable))
        BY <1>1, ScenarioFields
      <3>2. ListOf(Variable).kind # "scalar"
        BY TableKinds
      <3> QED BY <3>1, <3>2, TableKinds
    <2>3. CASE "variables" \in DOMAIN doc.at
      <3>1. At(doc, "variables") = doc.at["variables"]
        BY <2>1, <2>3 DEF At, KeysOf
      <3>2. s.variables = [i \in DOMAIN ItemsOf(doc.at["variables"]) |-> s.variables[i]]
        BY <2>1, <2>2, <2>3, ListGiven3
      <3> QED BY <3>1, <3>2
    <2>4. CASE "variables" \notin DOMAIN doc.at
      <3>1. items = <<>>
        BY <2>1, <2>4 DEF At, KeysOf, ItemsOf, Missing
      <3>2. s.variables = <<>>
        BY <2>1, <2>2, <2>4
      <3> QED BY <3>1, <3>2
    <2> QED BY <2>3, <2>4
  <1> QED BY <1>3, <1>4 DEF NamedIn, VariableNodes

LEMMA NamesWritten ==
  ASSUME NEW s, ScenarioMade(s), NEW name
  PROVE  /\ VariableNodes(Serialize(s), name) = NamedIn(s, name)
         /\ \A i \in DOMAIN s.variables :
              At(ItemsOf(At(Serialize(s), "variables"))[i], "default_value") =
                WriteVariant(s.variables[i].default_value)
  <1> DEFINE items == ItemsOf(At(Serialize(s), "variables"))
  <1>1. items = [i \in DOMAIN s.variables |-> Write3(Variable, s.variables[i])]
    <2>1. /\ "variables" \in DOMAIN Scenario.fields /\ Scenario.fields["variables"].kind = ListOf(Variable)
          /\ Scenario.fields["variables"].written = "always"
      BY ScenarioFields, TableKinds
    <2>2. At(Serialize(s), "variables") = FieldNode3(ListOf(Variable), s["variables"])
      <3>1. IsWritten(Scenario.fields["variables"], s["variables"])
        BY <2>1, WrittenWhen
      <3> QED BY <2>1, <3>1, SerializedAt
    <2>3. FieldNode3(ListOf(Variable), s.variables) =
            Sequence([i \in DOMAIN s.variables |-> Write3(Variable, s.variables[i])])
      BY ListPrinted
    <2> QED BY <2>2, <2>3, SequenceItems
  <1>2. ASSUME NEW v
        PROVE  /\ At(Write3(Variable, v), "variable_id") = Scalar(v.variable_id)
               /\ At(Write3(Variable, v), "default_value") = WriteVariant(v.default_value)
    <2>1. /\ Variable.kind = "part" /\ {"variable_id", "default_value"} \subseteq DOMAIN Variable.fields
          /\ \A key \in {"variable_id", "default_value"} : Variable.fields[key].written = "always"
          /\ Variable.fields["variable_id"].kind = Text /\ Variable.fields["default_value"].kind = Default
      BY VariableFields DEF Required
    <2>2. \A key \in {"variable_id", "default_value"} :
            /\ Write3(Variable, v).node = "map" /\ key \in DOMAIN Write3(Variable, v).at
            /\ Write3(Variable, v).at[key] = FieldNode2(Variable.fields[key].kind, v[key])
      <3>1. \A key \in {"variable_id", "default_value"} : IsWritten(Variable.fields[key], v[key])
        BY <2>1, WrittenWhen
      <3> QED BY <2>1, <3>1, PartWritten3
    <2>3. FieldNode2(Text, v.variable_id) = Scalar(v.variable_id)
      BY TableKinds, LeafField2, ScalarLeaf DEF Printed
    <2>4. FieldNode2(Default, v.default_value) = WriteVariant(v.default_value)
      <3>1. \A w : WriteLeaf(Default, w) = WriteVariant(w)
        BY DEF WriteLeaf, Default
      <3> QED BY <3>1, LeafKinds, LeafField2
    <2> QED BY <2>1, <2>2, <2>3, <2>4 DEF At, KeysOf
  <1>3. \A v : TextOf(At(Write3(Variable, v), "variable_id")) = v.variable_id
    BY <1>2, NodeKinds DEF TextOf
  <1>4. VariableNodes(Serialize(s), name) = NamedIn(s, name)
    BY <1>1, <1>3 DEF NamedIn, VariableNodes
  <1> QED BY <1>1, <1>2, <1>4

(***************************************************************************)
(* What the blocks of files say of a setting, and merging keeps: the texts *)
(* that stand there.                                                       *)
(***************************************************************************)
TextsOf(node) == IF node.node = "scalar" THEN {node.text} ELSE {}

LEMMA MergeScalarsGives ==
  ASSUME NEW dst, NEW src, dst.node = "scalar", src.node = "scalar", NEW x \in MergeScalars(dst, src)
  PROVE  Node0(x) /\ TextsOf(x) = TextsOf(dst) \cup TextsOf(src)
  BY DEF MergeScalars, TextsOf, Node0

LEMMA Merged2 ==
  ASSUME NEW dst, Node0(dst), NEW src, Node0(src), NEW x \in Merge2(dst, src)
  PROVE  Node0(x) /\ TextsOf(x) = TextsOf(dst) \cup TextsOf(src)
  <1>1. \/ dst.node = "null" /\ x = src
        \/ /\ dst.node = "map" /\ src.node = "map"
           /\ \E merged \in MergeMaps(Merge1, dst.at, src.at) : x = Map(merged)
        \/ dst.node = "sequence" /\ src.node = "sequence" /\ x = Sequence(dst.items \o src.items)
        \/ dst.node = "scalar" /\ src.node = "scalar" /\ x \in MergeScalars(dst, src)
    <2>1. dst.node \in {"null", "scalar", "sequence", "map"}
      BY DEF Node0
    <2>2. CASE dst.node = "null"
      BY <2>2, Zenon DEF Merge2, MergePair
    <2>3. CASE dst.node # "null" /\ dst.node # src.node
      BY <2>3, Zenon DEF Merge2, MergePair
    <2>4. CASE dst.node = "map" /\ src.node = "map"
      <3>1. dst.node # "null"
        BY <2>4
      <3> QED BY <2>4, <3>1, Zenon DEF Merge2, MergePair
    <2>5. CASE dst.node = "sequence" /\ src.node = "sequence"
      <3>1. dst.node # "null" /\ dst.node # "map"
        BY <2>5
      <3> QED BY <2>5, <3>1, Zenon DEF Merge2, MergePair
    <2>6. CASE dst.node = "scalar" /\ src.node = "scalar"
      <3>1. dst.node # "null" /\ dst.node # "map" /\ dst.node # "sequence"
        BY <2>6
      <3> QED BY <2>6, <3>1, Zenon DEF Merge2, MergePair
    <2> QED BY <2>1, <2>2, <2>3, <2>4, <2>5, <2>6
  <1>2. (\E merged : x = Map(merged)) \/ (\E items : x = Sequence(items)) => Node0(x) /\ x.node # "scalar"
    BY DEF Map, Sequence, Node0
  <1> QED BY <1>1, <1>2, MergeScalarsGives DEF TextsOf

LEMMA MergedAt3 ==
  ASSUME NEW dst, Node0(dst), NEW src, Node0(src), NEW x \in Merge3(dst, src)
  PROVE  /\ Node0(x) /\ KeysOf(x) = KeysOf(dst) \cup KeysOf(src)
         /\ \A key \in KeysOf(x) :
              x.at[key] \in IF key \notin KeysOf(src) THEN {dst.at[key]}
                            ELSE IF key \notin KeysOf(dst) THEN {src.at[key]}
                            ELSE Merge2(dst.at[key], src.at[key])
  <1>1. \/ dst.node = "null" /\ x = src
        \/ /\ dst.node = "map" /\ src.node = "map"
           /\ \E merged \in MergeMaps(Merge2, dst.at, src.at) : x = Map(merged)
        \/ dst.node = "sequence" /\ src.node = "sequence" /\ x = Sequence(dst.items \o src.items)
        \/ dst.node = "scalar" /\ src.node = "scalar" /\ x \in MergeScalars(dst, src)
    <2>1. dst.node \in {"null", "scalar", "sequence", "map"}
      BY DEF Node0
    <2>2. CASE dst.node = "null"
      BY <2>2, Zenon DEF Merge3, MergePair
    <2>3. CASE dst.node # "null" /\ dst.node # src.node
      BY <2>3, Zenon DEF Merge3, MergePair
    <2>4. CASE dst.node = "map" /\ src.node = "map"
      <3>1. dst.node # "null"
        BY <2>4
      <3> QED BY <2>4, <3>1, Zenon DEF Merge3, MergePair
    <2>5. CASE dst.node = "sequence" /\ src.node = "sequence"
      <3>1. dst.node # "null" /\ dst.node # "map"
        BY <2>5
      <3> QED BY <2>5, <3>1, Zenon DEF Merge3, MergePair
    <2>6. CASE dst.node = "scalar" /\ src.node = "scalar"
      <3>1. dst.node # "null" /\ dst.node # "map" /\ dst.node # "sequence"
        BY <2>6
      <3> QED BY <2>6, <3>1, Zenon DEF Merge3, MergePair
    <2> QED BY <2>1, <2>2, <2>3, <2>4, <2>5, <2>6
  <1>2. CASE dst.node = "null" /\ x = src
    BY <1>2 DEF KeysOf
  <1>3. CASE /\ dst.node = "map" /\ src.node = "map"
             /\ \E merged \in MergeMaps(Merge2, dst.at, src.at) : x = Map(merged)
    <2>1. PICK merged \in MergeMaps(Merge2, dst.at, src.at) : x = Map(merged)
      BY <1>3
    <2> DEFINE reads == [key \in DOMAIN dst.at \cup DOMAIN src.at |->
                           CASE key \notin DOMAIN src.at -> {dst.at[key]}
                             [] key \notin DOMAIN dst.at -> {src.at[key]}
                             [] OTHER -> Merge2(dst.at[key], src.at[key])]
    <2>2. merged \in Whole(reads)
      BY <2>1 DEF MergeMaps
    <2>3. /\ DOMAIN merged = DOMAIN reads
          /\ \A key \in DOMAIN reads : merged[key] \in reads[key]
      <3> HIDE DEF reads
      <3> QED BY <2>2, WholeGiven
    <2>4. /\ DOMAIN merged = DOMAIN dst.at \cup DOMAIN src.at
          /\ \A key \in DOMAIN merged :
               merged[key] \in IF key \notin DOMAIN src.at THEN {dst.at[key]}
                               ELSE IF key \notin DOMAIN dst.at THEN {src.at[key]}
                               ELSE Merge2(dst.at[key], src.at[key])
      <3>1. DOMAIN merged = DOMAIN dst.at \cup DOMAIN src.at
        BY <2>3
      <3>2. ASSUME NEW key \in DOMAIN merged
            PROVE  reads[key] = IF key \notin DOMAIN src.at THEN {dst.at[key]}
                                ELSE IF key \notin DOMAIN dst.at THEN {src.at[key]}
                                ELSE Merge2(dst.at[key], src.at[key])
        BY <3>1, Zenon
      <3> QED BY <2>3, <3>1, <3>2
    <2>5. x.node = "map" /\ x.at = merged
      BY <2>1, ComputedIs DEF Map
    <2> QED BY <1>3, <2>4, <2>5 DEF KeysOf, Node0
  <1>4. CASE dst.node = "sequence" /\ src.node = "sequence" /\ x = Sequence(dst.items \o src.items)
    BY <1>4 DEF Sequence, KeysOf, Node0
  <1>5. CASE dst.node = "scalar" /\ src.node = "scalar" /\ x \in MergeScalars(dst, src)
    BY <1>5 DEF MergeScalars, KeysOf, Node0
  <1> QED BY <1>1, <1>2, <1>3, <1>4, <1>5

LEMMA MergedAt4 ==
  ASSUME NEW dst, Node0(dst), NEW src, Node0(src), NEW x \in MergeNodes(dst, src)
  PROVE  /\ Node0(x) /\ KeysOf(x) = KeysOf(dst) \cup KeysOf(src)
         /\ \A key \in KeysOf(x) :
              x.at[key] \in IF key \notin KeysOf(src) THEN {dst.at[key]}
                            ELSE IF key \notin KeysOf(dst) THEN {src.at[key]}
                            ELSE Merge3(dst.at[key], src.at[key])
  <1>1. \/ dst.node = "null" /\ x = src
        \/ /\ dst.node = "map" /\ src.node = "map"
           /\ \E merged \in MergeMaps(Merge3, dst.at, src.at) : x = Map(merged)
        \/ dst.node = "sequence" /\ src.node = "sequence" /\ x = Sequence(dst.items \o src.items)
        \/ dst.node = "scalar" /\ src.node = "scalar" /\ x \in MergeScalars(dst, src)
    <2>1. dst.node \in {"null", "scalar", "sequence", "map"}
      BY DEF Node0
    <2>2. CASE dst.node = "null"
      BY <2>2, Zenon DEF MergeNodes, MergePair
    <2>3. CASE dst.node # "null" /\ dst.node # src.node
      BY <2>3, Zenon DEF MergeNodes, MergePair
    <2>4. CASE dst.node = "map" /\ src.node = "map"
      <3>1. dst.node # "null"
        BY <2>4
      <3> QED BY <2>4, <3>1, Zenon DEF MergeNodes, MergePair
    <2>5. CASE dst.node = "sequence" /\ src.node = "sequence"
      <3>1. dst.node # "null" /\ dst.node # "map"
        BY <2>5
      <3> QED BY <2>5, <3>1, Zenon DEF MergeNodes, MergePair
    <2>6. CASE dst.node = "scalar" /\ src.node = "scalar"
      <3>1. dst.node # "null" /\ dst.node # "map" /\ dst.node # "sequence"
        BY <2>6
      <3> QED BY <2>6, <3>1, Zenon DEF MergeNodes, MergePair
    <2> QED BY <2>1, <2>2, <2>3, <2>4, <2>5, <2>6
  <1>2. CASE dst.node = "null" /\ x = src
    BY <1>2 DEF KeysOf
  <1>3. CASE /\ dst.node = "map" /\ src.node = "map"
             /\ \E merged \in MergeMaps(Merge3, dst.at, src.at) : x = Map(merged)
    <2>1. PICK merged \in MergeMaps(Merge3, dst.at, src.at) : x = Map(merged)
      BY <1>3
    <2> DEFINE reads == [key \in DOMAIN dst.at \cup DOMAIN src.at |->
                           CASE key \notin DOMAIN src.at -> {dst.at[key]}
                             [] key \notin DOMAIN dst.at -> {src.at[key]}
                             [] OTHER -> Merge3(dst.at[key], src.at[key])]
    <2>2. merged \in Whole(reads)
      BY <2>1 DEF MergeMaps
    <2>3. /\ DOMAIN merged = DOMAIN reads
          /\ \A key \in DOMAIN reads : merged[key] \in reads[key]
      <3> HIDE DEF reads
      <3> QED BY <2>2, WholeGiven
    <2>4. /\ DOMAIN merged = DOMAIN dst.at \cup DOMAIN src.at
          /\ \A key \in DOMAIN merged :
               merged[key] \in IF key \notin DOMAIN src.at THEN {dst.at[key]}
                               ELSE IF key \notin DOMAIN dst.at THEN {src.at[key]}
                               ELSE Merge3(dst.at[key], src.at[key])
      <3>1. DOMAIN merged = DOMAIN dst.at \cup DOMAIN src.at
        BY <2>3
      <3>2. ASSUME NEW key \in DOMAIN merged
            PROVE  reads[key] = IF key \notin DOMAIN src.at THEN {dst.at[key]}
                                ELSE IF key \notin DOMAIN dst.at THEN {src.at[key]}
                                ELSE Merge3(dst.at[key], src.at[key])
        BY <3>1, Zenon
      <3> QED BY <2>3, <3>1, <3>2
    <2>5. x.node = "map" /\ x.at = merged
      BY <2>1, ComputedIs DEF Map
    <2> QED BY <1>3, <2>4, <2>5 DEF KeysOf, Node0
  <1>4. CASE dst.node = "sequence" /\ src.node = "sequence" /\ x = Sequence(dst.items \o src.items)
    BY <1>4 DEF Sequence, KeysOf, Node0
  <1>5. CASE dst.node = "scalar" /\ src.node = "scalar" /\ x \in MergeScalars(dst, src)
    BY <1>5 DEF MergeScalars, KeysOf, Node0
  <1> QED BY <1>1, <1>2, <1>3, <1>4, <1>5

LEMMA Merged3 ==
  ASSUME NEW dst, Node1(dst), NEW src, Node1(src), NEW x \in Merge3(dst, src)
  PROVE  /\ Node1(x)
         /\ \A key : TextsOf(At(x, key)) = TextsOf(At(dst, key)) \cup TextsOf(At(src, key))
  <1>1. Node0(dst) /\ Node0(src)
    BY DEF Node1
  <1>2. /\ Node0(x) /\ KeysOf(x) = KeysOf(dst) \cup KeysOf(src)
        /\ \A key \in KeysOf(x) :
             x.at[key] \in IF key \notin KeysOf(src) THEN {dst.at[key]}
                           ELSE IF key \notin KeysOf(dst) THEN {src.at[key]}
                           ELSE Merge2(dst.at[key], src.at[key])
    BY <1>1, MergedAt3
  <1>3. TextsOf(Missing) = {}
    BY DEF TextsOf, Missing
  <1>4. ASSUME NEW key \in KeysOf(x)
        PROVE  /\ Node0(x.at[key])
               /\ TextsOf(At(x, key)) = TextsOf(At(dst, key)) \cup TextsOf(At(src, key))
    <2>1. CASE key \in KeysOf(dst) \cap KeysOf(src)
      BY <1>2, <2>1, Merged2 DEF Node1, At
    <2>2. CASE key \notin KeysOf(dst) \/ key \notin KeysOf(src)
      BY <1>2, <1>3, <2>2 DEF Node1, At
    <2> QED BY <2>1, <2>2
  <1>5. \A key : key \notin KeysOf(x) =>
          TextsOf(At(x, key)) = TextsOf(At(dst, key)) \cup TextsOf(At(src, key))
    BY <1>2, <1>3 DEF At
  <1> QED BY <1>2, <1>4, <1>5 DEF Node1

LEMMA Merged4 ==
  ASSUME NEW dst, Node2(dst), NEW src, Node2(src), NEW x \in MergeNodes(dst, src)
  PROVE  /\ Node2(x)
         /\ \A group, key : TextsOf(At(At(x, group), key)) =
              TextsOf(At(At(dst, group), key)) \cup TextsOf(At(At(src, group), key))
  <1>1. Node0(dst) /\ Node0(src)
    BY DEF Node2
  <1>2. /\ Node0(x) /\ KeysOf(x) = KeysOf(dst) \cup KeysOf(src)
        /\ \A group \in KeysOf(x) :
             x.at[group] \in IF group \notin KeysOf(src) THEN {dst.at[group]}
                             ELSE IF group \notin KeysOf(dst) THEN {src.at[group]}
                             ELSE Merge3(dst.at[group], src.at[group])
    BY <1>1, MergedAt4
  <1>3. \A key : TextsOf(At(Missing, key)) = {}
    BY DEF TextsOf, Missing, At, KeysOf
  <1>4. ASSUME NEW group \in KeysOf(x)
        PROVE  /\ Node1(x.at[group])
               /\ \A key : TextsOf(At(At(x, group), key)) =
                    TextsOf(At(At(dst, group), key)) \cup TextsOf(At(At(src, group), key))
    <2>1. At(x, group) = x.at[group]
      BY DEF At
    <2>2. CASE group \in KeysOf(dst) \cap KeysOf(src)
      <3>1. At(dst, group) = dst.at[group] /\ At(src, group) = src.at[group]
        BY <2>2 DEF At
      <3>2. Node1(dst.at[group]) /\ Node1(src.at[group]) /\ x.at[group] \in Merge3(dst.at[group], src.at[group])
        BY <1>2, <2>2 DEF Node2
      <3> QED BY <2>1, <3>1, <3>2, Merged3
    <2>3. CASE group \notin KeysOf(src)
      <3>1. group \in KeysOf(dst) /\ x.at[group] = dst.at[group]
        BY <1>2, <2>3
      <3>2. At(dst, group) = x.at[group] /\ At(src, group) = Missing
        BY <2>3, <3>1 DEF At
      <3> QED BY <1>3, <2>1, <3>1, <3>2 DEF Node2
    <2>4. CASE group \in KeysOf(src) /\ group \notin KeysOf(dst)
      <3>1. x.at[group] = src.at[group]
        BY <1>2, <2>4
      <3>2. At(src, group) = x.at[group] /\ At(dst, group) = Missing
        BY <2>4, <3>1 DEF At
      <3> QED BY <1>3, <2>1, <2>4, <3>1, <3>2 DEF Node2
    <2> QED BY <2>2, <2>3, <2>4
  <1>5. ASSUME NEW group, group \notin KeysOf(x)
        PROVE  At(x, group) = Missing /\ At(dst, group) = Missing /\ At(src, group) = Missing
    BY <1>2, <1>5 DEF At
  <1> QED BY <1>2, <1>3, <1>4, <1>5 DEF Node2

\* The same for all the blocks of two files.
BlocksAreNodes(blocks) == \A id \in DOMAIN blocks : Node2(blocks[id])
Said(blocks, id, group, key) ==
  IF id \in DOMAIN blocks THEN TextsOf(At(At(blocks[id], group), key)) ELSE {}

LEMMA BlocksMergedSay ==
  ASSUME NEW dst, BlocksAreNodes(dst), NEW src, BlocksAreNodes(src), NEW b \in BlocksMerged(dst, src)
  PROVE  /\ BlocksAreNodes(b)
         /\ \A id, group, key : Said(b, id, group, key) =
              Said(dst, id, group, key) \cup Said(src, id, group, key)
  <1> DEFINE reads == [id \in DOMAIN dst \cup DOMAIN src |->
                         CASE id \notin DOMAIN src -> {dst[id]}
                           [] id \notin DOMAIN dst -> {src[id]}
                           [] OTHER -> MergeNodes(dst[id], src[id])]
  <1>1. b \in Whole(reads)
    BY DEF BlocksMerged, MergeMaps
  <1>2. DOMAIN b = DOMAIN dst \cup DOMAIN src
    BY BlocksMergedKeys
  <1>3. \A id \in DOMAIN reads : b[id] \in reads[id]
    <2> HIDE DEF reads
    <2> QED BY <1>1, WholeGiven
  <1>4. ASSUME NEW id \in DOMAIN b
        PROVE  b[id] \in IF id \notin DOMAIN src THEN {dst[id]}
                         ELSE IF id \notin DOMAIN dst THEN {src[id]} ELSE MergeNodes(dst[id], src[id])
    <2>1. reads[id] = IF id \notin DOMAIN src THEN {dst[id]}
                      ELSE IF id \notin DOMAIN dst THEN {src[id]} ELSE MergeNodes(dst[id], src[id])
      BY <1>2, Zenon
    <2> QED BY <1>2, <1>3, <2>1
  <1>5. ASSUME NEW id \in DOMAIN b
        PROVE  /\ Node2(b[id])
               /\ \A group, key : Said(b, id, group, key) =
                    Said(dst, id, group, key) \cup Said(src, id, group, key)
    <2>1. CASE id \in DOMAIN dst \cap DOMAIN src
      BY <1>4, <2>1, Merged4 DEF BlocksAreNodes, Said
    <2>2. CASE id \notin DOMAIN dst \/ id \notin DOMAIN src
      BY <1>2, <1>4, <2>2 DEF BlocksAreNodes, Said
    <2> QED BY <2>1, <2>2
  <1> QED BY <1>2, <1>5 DEF BlocksAreNodes, Said

(***************************************************************************)
(* The variables that an extension adds: one has its name in Marker.       *)
(***************************************************************************)
LEMMA NewVariableIs ==
  ASSUME NEW name, NEW owner, DOMAIN owner \subseteq {"entity_ref"}, NEW value
  PROVE  /\ At(NewVariable(name, owner, value), "variable_id") = Scalar(name)
         /\ At(NewVariable(name, owner, value), "type") = Scalar("FLOAT")
         /\ At(NewVariable(name, owner, value), "default_value") = Scalar(value)
         /\ TextOf(At(NewVariable(name, owner, value), "variable_id")) = name
  <1> DEFINE g == [variable_id |-> Scalar(name), type |-> Scalar("FLOAT"),
                   default_value |-> Scalar(value), description |-> Scalar("generated")]
  <1>1. /\ {"variable_id", "type", "default_value"} \subseteq DOMAIN g \ DOMAIN owner
        /\ g["variable_id"] = Scalar(name) /\ g["type"] = Scalar("FLOAT")
        /\ g["default_value"] = Scalar(value)
    OBVIOUS
  <1>2. NewVariable(name, owner, value) = Map(Over(owner, g))
    BY DEF NewVariable
  <1> HIDE DEF g
  <1>3. \A x \in {"variable_id", "type", "default_value"} :
          At(NewVariable(name, owner, value), x) = g[x]
    BY <1>1, <1>2, OverAt DEF At, KeysOf
  <1>4. TextOf(Scalar(name)) = name
    BY NodeKinds DEF TextOf
  <1> QED BY <1>1, <1>3, <1>4

LEMMA AddedMarker ==
  ASSUME NEW root, NEW id \in DOMAIN Available, NEW set
  PROVE  LET added == AddsOf(root, id, set)["variables"]
         IN  /\ IsList(added) /\ 1 \in DOMAIN added
             /\ At(added[1], "type") = Scalar("FLOAT")
             /\ At(added[1], "default_value") = Scalar(set[Marker[id].setting])
             /\ \A other \in DOMAIN Available : \A i \in DOMAIN added :
                  TextOf(At(added[i], "variable_id")) = Marker[other].variable <=> i = 1 /\ other = id
  <1>1. id = Acme \/ id = Civic
    BY AvailableIds
  <1>2. /\ DOMAIN Available = {Acme, Civic} /\ Acme # Civic
        /\ Marker[Acme].variable = "var_acme_base" /\ Marker[Acme].setting = "base"
        /\ Marker[Civic].variable = "var_civic_hazard_baseline"
        /\ Marker[Civic].setting = "hazard_baseline"
    BY AvailableIds DEF Marker
  <1>3. IsList(AddsOf(root, id, set)["variables"])
    <2>1. "variables" \in DOMAIN ListIds
      BY ScenarioFields
    <2> QED BY <2>1, AddedLists DEF AddsOf
  <1>4. CASE id = Acme
    <2> DEFINE owner == <<>>
               a == NewVariable("var_acme_base", owner, set.base)
               b == NewVariable("var_acme_price", owner, "0")
    <2>1. AddsOf(root, id, set)["variables"] = <<a, b>>
      BY <1>4 DEF AddsOf, AcmeAdds
    <2>2. /\ TextOf(At(a, "variable_id")) = "var_acme_base" /\ At(a, "type") = Scalar("FLOAT")
          /\ At(a, "default_value") = Scalar(set.base)
          /\ TextOf(At(b, "variable_id")) = "var_acme_price"
      <3>1. DOMAIN owner \subseteq {"entity_ref"}
        OBVIOUS
      <3> HIDE DEF owner
      <3> QED BY <3>1, NewVariableIs
    <2> HIDE DEF a, b
    <2> QED BY <1>2, <1>3, <1>4, <2>1, <2>2
  <1>5. CASE id = Civic
    <2> DEFINE owner == [entity_ref |-> Scalar("civic_resilience_extension_control")]
               a == NewVariable("var_civic_hazard_baseline", owner, set.hazard_baseline)
               b == NewVariable("var_civic_resource_readiness", owner, set.resource_readiness)
               c == NewVariable("var_civic_composite_readiness", owner, set.hazard_baseline)
    <2>1. AddsOf(root, id, set)["variables"] = <<a, b, c>>
      BY <1>2, <1>5 DEF AddsOf, CivicAdds
    <2>2. /\ TextOf(At(a, "variable_id")) = "var_civic_hazard_baseline" /\ At(a, "type") = Scalar("FLOAT")
          /\ At(a, "default_value") = Scalar(set.hazard_baseline)
          /\ TextOf(At(b, "variable_id")) = "var_civic_resource_readiness"
          /\ TextOf(At(c, "variable_id")) = "var_civic_composite_readiness"
      <3>1. DOMAIN owner \subseteq {"entity_ref"}
        OBVIOUS
      <3> HIDE DEF owner
      <3> QED BY <3>1, NewVariableIs
    <2> HIDE DEF a, b, c
    <2> QED BY <1>2, <1>3, <1>5, <2>1, <2>2
  <1> QED BY <1>1, <1>4, <1>5

\* What one transform does to the variables of the name of either extension.
OnceMade(doc, name, value) ==
  LET items == ItemsOf(At(doc, "variables"))
  IN  \E i \in DOMAIN items :
        /\ VariableNodes(doc, name) = {i}
        /\ At(items[i], "type") = Scalar("FLOAT") /\ At(items[i], "default_value") = Scalar(value)

LEMMA OneLowered ==
  ASSUME NEW root, "variables" \in KeysOf(root), IsList(ItemsOf(At(root, "variables"))),
         NEW id \in DOMAIN Available, NEW set, NEW other \in DOMAIN Available
  PROVE  LET next == LoweredBy(root, id, AddsOf(root, id, set))
             name == Marker[other].variable
         IN  /\ "variables" \in KeysOf(next)
             /\ other # id => /\ At(next, other) = At(root, other)
                              /\ VariableNodes(next, name) = VariableNodes(root, name)
                              /\ \A value : OnceMade(root, name, value) => OnceMade(next, name, value)
             /\ At(next, id) = Missing
             /\ VariableNodes(root, Marker[id].variable) = {} =>
                  OnceMade(next, Marker[id].variable, set[Marker[id].setting])
  <1> DEFINE adds == AddsOf(root, id, set)
             next == LoweredBy(root, id, adds)
             old == ItemsOf(At(root, "variables"))
             added == adds["variables"]
             new == ItemsOf(At(next, "variables"))
  <1>1. /\ IsList(added) /\ 1 \in DOMAIN added
        /\ At(added[1], "type") = Scalar("FLOAT")
        /\ At(added[1], "default_value") = Scalar(set[Marker[id].setting])
        /\ \A o \in DOMAIN Available : \A i \in DOMAIN added :
             TextOf(At(added[i], "variable_id")) = Marker[o].variable <=> i = 1 /\ o = id
    BY AddedMarker
  <1>2. /\ DOMAIN adds = DOMAIN ListIds /\ "variables" \in DOMAIN ListIds
        /\ DOMAIN ListIds \subseteq CoreKeys /\ DOMAIN Available \cap CoreKeys = {}
    BY AddedLists, ScenarioFields, AvailableIds DEF AddsOf, CoreKeys
  <1> HIDE DEF adds
  <1>3. /\ root.node = "map" /\ next.node = "map" /\ DOMAIN next.at = DOMAIN root.at \ {id}
        /\ \A key \in DOMAIN root.at \ {id} :
             next.at[key] = IF key \in DOMAIN adds THEN Sequence(ItemsOf(root.at[key]) \o adds[key])
                            ELSE root.at[key]
    BY LoweredKeys DEF KeysOf
  <1> HIDE DEF next
  <1>4. At(next, id) = Missing /\ (other # id => At(next, other) = At(root, other))
    BY <1>2, <1>3 DEF At, KeysOf
  <1>5. "variables" \in KeysOf(next) /\ new = old \o added
    <2>1. "variables" \in DOMAIN root.at \ {id} /\ "variables" \in DOMAIN adds
      BY <1>2, <1>3 DEF KeysOf
    <2>2. At(next, "variables") = Sequence(old \o added)
      BY <1>3, <2>1 DEF At, KeysOf
    <2> QED BY <1>3, <2>1, <2>2, SequenceItems DEF KeysOf
  <1> HIDE DEF old, added, new
  <1>6. /\ Len(old) \in Nat /\ DOMAIN old = 1 .. Len(old)
        /\ Len(added) \in Nat /\ DOMAIN added = 1 .. Len(added)
        /\ DOMAIN new = 1 .. Len(old) + Len(added)
        /\ \A i \in DOMAIN old : new[i] = old[i]
        /\ \A i \in Len(old) + 1 .. Len(old) + Len(added) :
             new[i] = added[i - Len(old)] /\ i - Len(old) \in DOMAIN added
    <2>1. IsList(old)
      BY DEF old
    <2>2. IsList(new) /\ Len(new) = Len(old) + Len(added)
      BY <1>1, <1>5, <2>1, ListJoined
    <2>3. /\ Len(old) \in Nat /\ DOMAIN old = 1 .. Len(old)
          /\ Len(added) \in Nat /\ DOMAIN added = 1 .. Len(added) /\ DOMAIN new = 1 .. Len(new)
      BY <1>1, <2>1, <2>2, ListIs
    <2>4. /\ \A i \in 1 .. Len(old) : new[i] = old[i]
          /\ \A i \in Len(old) + 1 .. Len(old) + Len(added) : new[i] = added[i - Len(old)]
      BY <1>1, <1>5, <2>1, ListJoined
    <2> QED BY <2>2, <2>3, <2>4
  <1>7. /\ \A n : VariableNodes(root, n) = {i \in DOMAIN old : TextOf(At(old[i], "variable_id")) = n}
        /\ \A n : VariableNodes(next, n) = {i \in DOMAIN new : TextOf(At(new[i], "variable_id")) = n}
    BY DEF VariableNodes, old, new
  <1>8. ASSUME other # id
        PROVE  VariableNodes(next, Marker[other].variable) = VariableNodes(root, Marker[other].variable)
    <2>1. \A i \in DOMAIN new \ DOMAIN old : TextOf(At(new[i], "variable_id")) # Marker[other].variable
      <3>1. \A i \in DOMAIN new \ DOMAIN old : new[i] = added[i - Len(old)] /\ i - Len(old) \in DOMAIN added
        BY <1>6
      <3> QED BY <1>1, <1>8, <3>1
    <2>2. DOMAIN old \subseteq DOMAIN new
      BY <1>6
    <2>3. /\ VariableNodes(root, Marker[other].variable) =
               {i \in DOMAIN old : TextOf(At(old[i], "variable_id")) = Marker[other].variable}
          /\ VariableNodes(next, Marker[other].variable) =
               {i \in DOMAIN new : TextOf(At(new[i], "variable_id")) = Marker[other].variable}
      BY <1>7
    <2>4. \A i \in DOMAIN old : new[i] = old[i]
      BY <1>6
    <2> QED BY <2>1, <2>2, <2>3, <2>4
  <1>9. ASSUME other # id, NEW value, OnceMade(root, Marker[other].variable, value)
        PROVE  OnceMade(next, Marker[other].variable, value)
    <2>1. DOMAIN old \subseteq DOMAIN new
      BY <1>6
    <2> QED BY <1>6, <1>8, <1>9, <2>1 DEF OnceMade, old, new
  <1>10. ASSUME VariableNodes(root, Marker[id].variable) = {}
         PROVE  OnceMade(next, Marker[id].variable, set[Marker[id].setting])
    <2> DEFINE k == Len(old) + 1
    <2>1. k \in DOMAIN new /\ new[k] = added[1]
      BY <1>1, <1>6
    <2>2. \A i \in DOMAIN new : TextOf(At(new[i], "variable_id")) = Marker[id].variable <=> i = k
      <3>1. \A i \in DOMAIN old : TextOf(At(new[i], "variable_id")) # Marker[id].variable /\ i # k
        <4>1. {i \in DOMAIN old : TextOf(At(old[i], "variable_id")) = Marker[id].variable} = {}
          BY <1>7, <1>10
        <4>2. \A i \in DOMAIN old : new[i] = old[i] /\ i # k
          BY <1>6
        <4> QED BY <4>1, <4>2
      <3>2. ASSUME NEW i \in DOMAIN new, i \notin DOMAIN old
            PROVE  TextOf(At(new[i], "variable_id")) = Marker[id].variable <=> i = k
        <4>1. i \in Int /\ new[i] = added[i - Len(old)] /\ i - Len(old) \in DOMAIN added
          BY <1>6, <3>2
        <4>2. i - Len(old) = 1 <=> i = k
          BY <1>6, <4>1
        <4> QED BY <1>1, <4>1, <4>2
      <3> QED BY <3>1, <3>2
    <2>3. VariableNodes(next, Marker[id].variable) = {k}
      BY <1>7, <2>1, <2>2
    <2> QED BY <1>1, <2>1, <2>3 DEF OnceMade, new
  <1> QED BY <1>4, <1>5, <1>8, <1>9, <1>10 DEF next, adds

(***************************************************************************)
(* From what the files say to the one variable: the blocks at hand say of  *)
(* a setting what the files read say of it; a name that no file read uses, *)
(* the scenario at hand does not use; and each transform replaces a block  *)
(* by its variable.  This is about what is resolved first: the canonical   *)
(* text has no blocks left.                                                *)
(***************************************************************************)
AsGiven(id, given) ==
  IF given = {} THEN {Scalar(Settings[id][Marker[id].setting])}
  ELSE {Scalar(Taken["real"][text]) : text \in given}

LEMMA SettingSays ==
  ASSUME NEW id \in DOMAIN Available, NEW block, NEW value \in Setting(id, block, Marker[id].setting)
  PROVE  /\ Take("stod", value) \subseteq {value}
         /\ {Scalar(value)} = AsGiven(id, TextsOf(At(At(block, Group[id]), Marker[id].setting)))
  <1> DEFINE key == Marker[id].setting
             node == At(At(block, Group[id]), key)
  <1>1. id \in DOMAIN Settings /\ key \in DOMAIN Settings[id]
    BY AvailableIds DEF Settings, Marker
  <1>2. CASE node = Missing
    <2>1. value = Settings[id][key] /\ TextsOf(node) = {}
      BY <1>2 DEF Setting, TextsOf, Missing
    <2> QED BY <1>1, <2>1, SettingsAssumption DEF AsGiven
  <1>3. CASE node # Missing
    <2>1. node.node = "scalar" /\ value \in Take("real", node.text)
      BY <1>3 DEF Setting
    <2>2. node.text \in DOMAIN Taken["real"] /\ value = Taken["real"][node.text]
      BY <2>1 DEF Take
    <2>3. TextsOf(node) = {node.text}
      BY <2>1 DEF TextsOf
    <2> QED BY <2>2, <2>3, SettingsAssumption DEF AsGiven
  <1> QED BY <1>2, <1>3

LEMMA NamesAuthored ==
  ASSUME NEW doc, DocFits(doc), NEW s \in Deserialize(Sanitized(doc)), NEW name
  PROVE  NamedIn(s, name) = VariableNodes(doc, name)
  <1>1. At(Sanitized(doc), "variables") = At(doc, "variables")
    <2>1. "variables" \in CoreKeys
      BY ScenarioFields DEF CoreKeys
    <2> QED BY <2>1, ComputedIs DEF Sanitized, At, KeysOf, Map
  <1>2. NamedIn(s, name) = VariableNodes(Sanitized(doc), name)
    BY SanitizedFits, NamesGiven
  <1> QED BY <1>1, <1>2 DEF VariableNodes

LEMMA NamesMerged ==
  ASSUME NEW dst, ScenarioMade(dst), NEW src, ScenarioMade(src), NEW s \in MergeScenario(dst, src),
         NEW name, NamedIn(dst, name) = {}, NamedIn(src, name) = {}
  PROVE  NamedIn(s, name) = {}
  <1>1. "variables" \in DOMAIN dst /\ "variables" \in DOMAIN ListIds
    BY ScenarioFields DEF ScenarioMade
  <1>2. IsList(dst["variables"]) /\ IsList(src["variables"])
    BY <1>1 DEF ScenarioMade
  <1>3. s["variables"] \in Joined(dst["variables"], src["variables"], ListIds["variables"])
    BY <1>1, MergedScenarioIs, Zenon
  <1>4. \A i \in DOMAIN s["variables"] : s["variables"][i] \in Ran(dst["variables"]) \cup Ran(src["variables"])
    BY <1>2, <1>3, JoinedKeeps
  <1>5. \A v \in Ran(dst["variables"]) \cup Ran(src["variables"]) : v.variable_id # name
    BY DEF NamedIn, Ran
  <1> QED BY <1>4, <1>5 DEF NamedIn

LEMMA ReadPaths ==
  ASSUME FilesSound
  PROVE  /\ ReadBefore(1) = {Root} /\ ReadBefore(Len(Imports) + 1) = Paths
         /\ \A n \in DOMAIN Imports :
              ReadBefore(n + 1) = ReadBefore(n) \cup {TextOf(At(Imports[n], "path"))}
  <1>1. DOMAIN Imports = 1 .. Len(Imports) /\ Len(Imports) \in Nat
    BY ListIs DEF FilesSound
  <1>2. /\ {j \in DOMAIN Imports : j < 1} = {} /\ {j \in DOMAIN Imports : j < Len(Imports) + 1} = DOMAIN Imports
        /\ \A n \in DOMAIN Imports :
             {j \in DOMAIN Imports : j < n + 1} = {j \in DOMAIN Imports : j < n} \cup {n}
    BY <1>1
  <1> QED BY <1>2 DEF ReadBefore, Paths

BlocksHeld ==
  /\ BlocksAreNodes(authoring.blocks)
  /\ DOMAIN authoring.blocks = UNION {DOMAIN ExtensionBlocks(files[path]) : path \in PathsRead}
  /\ \A id, group, key :
       Said(authoring.blocks, id, group, key) =
         UNION {Said(ExtensionBlocks(files[path]), id, group, key) : path \in PathsRead}

NamesHeld ==
  \A name : (\A path \in PathsRead : VariableNodes(files[path], name) = {}) =>
              NamedIn(authoring.scenario, name) = {}

Unmarked(id) == \A path \in Paths : VariableNodes(files[path], Marker[id].variable) = {}
ValuesFor(id) == Setting(id, authoring.blocks[id], Marker[id].setting)

LoweredHeld ==
  /\ "variables" \in KeysOf(lowered)
  /\ \A id \in DOMAIN Available :
       /\ At(lowered, id) # Missing => id \in DOMAIN authoring.blocks /\ At(lowered, id) = authoring.blocks[id]
       /\ Unmarked(id) =>
            IF id \in DOMAIN authoring.blocks /\ At(lowered, id) = Missing
            THEN \E value \in ValuesFor(id) : OnceMade(lowered, Marker[id].variable, value)
            ELSE VariableNodes(lowered, Marker[id].variable) = {}

OnceNamed(s, name, value) ==
  \E i \in DOMAIN s.variables :
    NamedIn(s, name) = {i} /\ s.variables[i].default_value = [is |-> "double", texts |-> <<value>>]

ScenarioHeld ==
  \A id \in DOMAIN Available :
    Unmarked(id) =>
      IF id \in DOMAIN authoring.blocks
      THEN \E value \in ValuesFor(id) : OnceNamed(authoring.scenario, Marker[id].variable, value)
      ELSE NamedIn(authoring.scenario, Marker[id].variable) = {}

LoweringInv ==
  /\ stage = "read" /\ texts = <<>> => \A path \in DOMAIN files : Node3(files[path])
  /\ stage = "read" /\ at # 0 /\ texts = <<>> => BlocksHeld /\ NamesHeld
  /\ stage \in {"check", "transform"} /\ texts = <<>> => BlocksHeld /\ LoweredHeld
  /\ stage = "finish" /\ texts = <<>> => BlocksHeld /\ ScenarioHeld
  /\ stage = "resolved" /\ Len(texts) = 1 => BlocksHeld /\ ScenarioHeld

LEMMA BlocksStay ==
  ASSUME BlocksHeld, FilesSound, files' = files, PathsRead' = PathsRead, authoring'.blocks = authoring.blocks
  PROVE  /\ BlocksHeld'
         /\ \A id : Unmarked(id)' = Unmarked(id) /\ ValuesFor(id)' = ValuesFor(id)
  <1>1. Paths' = Paths
    BY FilesKept
  <1> QED BY <1>1 DEF BlocksHeld, Unmarked, ValuesFor

LEMMA LoweringRoot ==
  ASSUME DeclarationInv, ScenarioInv, LoweringInv, ReadRoot
  PROVE  LoweringInv'
  <1>1. CASE Fail
    BY <1>1 DEF Fail, LoweringInv
  <1>2. CASE ~Fail
    <2>1. /\ stage = "read" /\ at = 0 /\ authoring' \in Authored(files[Root])
          /\ at' = 1 /\ UNCHANGED <<files, stage, lowered, texts>>
      BY <1>2 DEF ReadRoot
    <2> SUFFICES ASSUME texts = <<>> PROVE BlocksHeld' /\ NamesHeld'
      BY <2>1 DEF LoweringInv
    <2>2. FilesSound /\ Root \in DOMAIN files /\ IsList(ItemsOf(At(files[Root], "extensions")))
      BY DEF DeclarationInv, FilesSound
    <2>3. DocFits(files[Root]) /\ Node3(files[Root])
      BY <2>1, <2>2 DEF ScenarioInv, LoweringInv
    <2>4. /\ authoring'.scenario \in Deserialize(Sanitized(files[Root]))
          /\ authoring'.blocks = ExtensionBlocks(files[Root])
      BY <2>1, <2>2, AuthoredGives
    <2>5. PathsRead' = {Root}
      BY <2>1, <2>2, ReadPaths, FilesKept DEF PathsRead
    <2>6. BlocksAreNodes(authoring'.blocks)
      BY <2>3, <2>4, BlocksOf DEF BlocksAreNodes, ExtensionBlocks, Node3
    <2>7. \A name : NamedIn(authoring'.scenario, name) = VariableNodes(files[Root], name)
      BY <2>3, <2>4, NamesAuthored
    <2> QED BY <2>1, <2>4, <2>5, <2>6, <2>7 DEF BlocksHeld, NamesHeld
  <1> QED BY <1>1, <1>2

LEMMA LoweringImport ==
  ASSUME DeclarationInv, ScenarioInv, LoweringInv, ReadImport
  PROVE  LoweringInv'
  <1>1. CASE Fail
    BY <1>1 DEF Fail, LoweringInv
  <1>2. CASE ~Fail
    <2> DEFINE path == TextOf(At(Imports[at], "path"))
    <2>1. PICK own : /\ path \in DOMAIN files
                     /\ own \in Authored(files[path])
                     /\ authoring' \in Composed(authoring, own)
      BY <1>2 DEF ReadImport
    <2>2. /\ stage = "read" /\ at \in DOMAIN Imports
          /\ at' = at + 1 /\ UNCHANGED <<files, stage, lowered, texts>>
      BY <1>2 DEF ReadImport
    <2> SUFFICES ASSUME texts = <<>> PROVE BlocksHeld' /\ NamesHeld'
      BY <2>2 DEF LoweringInv
    <2>3. FilesSound /\ at \in Nat /\ at # 0
      <3>1. FilesSound
        BY DEF DeclarationInv
      <3>2. DOMAIN Imports = 1 .. Len(Imports) /\ Len(Imports) \in Nat
        BY <3>1, ListIs DEF FilesSound
      <3> QED BY <2>2, <3>1, <3>2
    <2>4. path = TextOf(At(Imports[at], "path"))
      OBVIOUS
    <2>5. PathsRead = ReadBefore(at) /\ PathsRead' = PathsRead \cup {path}
      BY <2>2, <2>3, <2>4, ReadPaths, FilesKept DEF PathsRead
    <2> HIDE DEF path
    <2>6. DocFits(files[path]) /\ Node3(files[path]) /\ IsList(ItemsOf(At(files[path], "extensions")))
      BY <2>1, <2>2, <2>3 DEF ScenarioInv, LoweringInv, FilesSound
    <2>7. own.scenario \in Deserialize(Sanitized(files[path])) /\ own.blocks = ExtensionBlocks(files[path])
      BY <2>1, <2>6, AuthoredGives
    <2>8. /\ authoring'.scenario \in MergeScenario(authoring.scenario, own.scenario)
          /\ authoring'.blocks \in BlocksMerged(authoring.blocks, own.blocks)
      BY <2>1, ComposedGives
    <2>9. BlocksAreNodes(own.blocks)
      BY <2>6, <2>7, BlocksOf DEF BlocksAreNodes, ExtensionBlocks, Node3
    <2>10. BlocksHeld /\ NamesHeld /\ ScenarioMade(authoring.scenario) /\ ScenarioMade(own.scenario)
      BY <2>2, <2>3, <2>6, <2>7, AuthoredMade DEF LoweringInv, ScenarioInv, ScenarioKept
    <2>11. BlocksHeld'
      <3>1. /\ BlocksAreNodes(authoring'.blocks)
            /\ \A id, group, key : Said(authoring'.blocks, id, group, key) =
                 Said(authoring.blocks, id, group, key) \cup Said(own.blocks, id, group, key)
        BY <2>8, <2>9, <2>10, BlocksMergedSay DEF BlocksHeld
      <3>2. DOMAIN authoring'.blocks = DOMAIN authoring.blocks \cup DOMAIN own.blocks
        BY <2>8, BlocksMergedKeys
      <3>3. PathsRead' = PathsRead \cup {path} /\ own.blocks = ExtensionBlocks(files[path]) /\ files' = files
        BY <2>2, <2>5, <2>7
      <3>4. DOMAIN authoring'.blocks = UNION {DOMAIN ExtensionBlocks(files[p]) : p \in PathsRead'}
        BY <2>10, <3>2, <3>3 DEF BlocksHeld
      <3>5. ASSUME NEW id, NEW group, NEW key
            PROVE  Said(authoring'.blocks, id, group, key) =
                     UNION {Said(ExtensionBlocks(files[p]), id, group, key) : p \in PathsRead'}
        BY <2>10, <3>1, <3>3 DEF BlocksHeld
      <3> QED BY <3>1, <3>3, <3>4, <3>5 DEF BlocksHeld
    <2>12. NamesHeld'
      <3> SUFFICES ASSUME NEW name, \A p \in PathsRead' : VariableNodes(files[p], name) = {}
                   PROVE  NamedIn(authoring'.scenario, name) = {}
        BY <2>2 DEF NamesHeld
      <3>1. NamedIn(own.scenario, name) = {} /\ NamedIn(authoring.scenario, name) = {}
        BY <2>5, <2>6, <2>7, <2>10, NamesAuthored DEF NamesHeld
      <3> QED BY <2>8, <2>10, <3>1, NamesMerged
    <2> QED BY <2>11, <2>12
  <1> QED BY <1>1, <1>2

LEMMA LoweringDiscover ==
  ASSUME DeclarationInv, ScenarioInv, LoweringInv, Discover
  PROVE  LoweringInv'
  <1>1. CASE Fail
    BY <1>1 DEF Fail, LoweringInv
  <1>2. CASE ~Fail
    <2>1. /\ stage = "read" /\ at = Len(Imports) + 1 /\ UNCHANGED <<files, authoring, texts>>
          /\ \/ stage' = "finish" /\ DOMAIN authoring.blocks = {}
             \/ stage' = "check" /\ lowered' = AuthoringRoot
      BY <1>2, DiscoverGives DEF GoTo
    <2> SUFFICES ASSUME texts = <<>>
                 PROVE  BlocksHeld' /\ (stage' = "finish" => ScenarioHeld') /\ (stage' = "check" => LoweredHeld')
      BY <2>1 DEF LoweringInv
    <2>2. FilesSound /\ at # 0
      <3>1. FilesSound
        BY DEF DeclarationInv
      <3> QED BY <2>1, <3>1, ListIs DEF FilesSound
    <2>3. BlocksHeld /\ NamesHeld /\ ScenarioMade(authoring.scenario) /\ DOMAIN authoring.blocks \cap CoreKeys = {}
      BY <2>1, <2>2 DEF LoweringInv, ScenarioInv, ScenarioKept
    <2>4. PathsRead = Paths /\ PathsRead' = Paths
      BY <2>1, <2>2, ReadPaths, FilesKept DEF PathsRead
    <2>5. BlocksHeld' /\ \A id : Unmarked(id)' = Unmarked(id)
      BY <2>1, <2>2, <2>3, <2>4, BlocksStay
    <2>6. \A id : Unmarked(id) => NamedIn(authoring.scenario, Marker[id].variable) = {}
      BY <2>3, <2>4 DEF Unmarked, NamesHeld
    <2>7. ASSUME stage' = "finish" PROVE ScenarioHeld'
      BY <2>1, <2>5, <2>6, <2>7 DEF ScenarioHeld
    <2>8. ASSUME stage' = "check" PROVE LoweredHeld'
      <3> DEFINE text == Serialize(authoring.scenario)
                 blocks == authoring.blocks
      <3>1. text.node = "map" /\ DOMAIN text.at \subseteq CoreKeys /\ "variables" \in DOMAIN text.at
        <4>1. /\ "variables" \in DOMAIN Scenario.fields /\ Scenario.kind = "part"
              /\ Scenario.fields["variables"].written = "always"
          BY ScenarioFields, TableKinds
        <4>2. IsWritten(Scenario.fields["variables"], authoring.scenario["variables"])
          BY <4>1, WrittenWhen
        <4>3. "variables" \in DOMAIN Write4(Scenario, authoring.scenario).at
          BY <4>1, <4>2, PartWritten4
        <4> QED BY <4>3, SerializedKeys DEF Serialize
      <3>2. \A name : VariableNodes(text, name) = NamedIn(authoring.scenario, name)
        BY <2>3, NamesWritten
      <3>3. lowered' = Map(Over(text.at, blocks)) /\ authoring' = authoring
        BY <2>1, <2>8 DEF AuthoringRoot
      <3> HIDE DEF text
      <3>4. /\ lowered'.node = "map" /\ DOMAIN lowered'.at = DOMAIN text.at \cup DOMAIN blocks
            /\ lowered'.at["variables"] = text.at["variables"]
            /\ \A id \in DOMAIN blocks : id \notin DOMAIN text.at /\ lowered'.at[id] = blocks[id]
        BY <2>3, <3>1, <3>3, OverAt
      <3>5. /\ "variables" \in KeysOf(lowered') /\ At(lowered', "variables") = At(text, "variables")
            /\ \A name : VariableNodes(lowered', name) = NamedIn(authoring.scenario, name)
        BY <3>1, <3>2, <3>4 DEF KeysOf, At, VariableNodes
      <3>6. \A id \in DOMAIN Available :
              At(lowered', id) = IF id \in DOMAIN blocks THEN blocks[id] ELSE Missing
        BY <3>1, <3>4, AvailableIds DEF KeysOf, At
      <3>7. \A id \in DOMAIN blocks : blocks[id] # Missing
        BY <2>3 DEF BlocksHeld, BlocksAreNodes, Node2, Node0, Missing
      <3> QED BY <2>5, <2>6, <3>3, <3>5, <3>6, <3>7 DEF LoweredHeld
    <2> QED BY <2>5, <2>7, <2>8
  <1> QED BY <1>1, <1>2

LEMMA LoweringCheck ==
  ASSUME DeclarationInv, LoweringInv, CheckBlocks
  PROVE  LoweringInv'
  <1>1. CASE Fail
    BY <1>1 DEF Fail, LoweringInv
  <1>2. CASE ~Fail
    <2>1. stage = "check" /\ stage' = "transform" /\ UNCHANGED <<files, authoring, lowered, texts>>
      BY <1>2 DEF CheckBlocks, GoTo
    <2>2. FilesSound /\ PathsRead' = PathsRead
      BY <2>1, FilesKept DEF DeclarationInv, PathsRead
    <2> QED BY <2>1, <2>2, BlocksStay DEF LoweringInv, LoweredHeld
  <1> QED BY <1>1, <1>2

LEMMA LoweringTransform ==
  ASSUME DeclarationInv, ScenarioInv, LoweringInv, Transform
  PROVE  LoweringInv'
  <1>1. CASE Fail
    BY <1>1 DEF Fail, LoweringInv
  <1>2. CASE ~Fail
    <2> DEFINE t == authoring.declared[at].id
    <2>1. /\ stage = "transform" /\ at \in DOMAIN authoring.declared
          /\ lowered' \in Transformed(lowered, t) /\ UNCHANGED <<files, stage, authoring, texts>>
      BY <1>2 DEF Transform
    <2> SUFFICES ASSUME texts = <<>> PROVE BlocksHeld' /\ LoweredHeld'
      BY <2>1 DEF LoweringInv
    <2>2. t \in DOMAIN Available
      <3>1. CanResolve(authoring.declared[at])
        BY <2>1 DEF DeclarationInv, Busy, Resolvable, Ran
      <3> QED BY <3>1 DEF CanResolve
    <2> HIDE DEF t
    <2>3. FilesSound /\ PathsRead' = PathsRead /\ BlocksHeld /\ LoweredHeld
      BY <2>1, FilesKept DEF DeclarationInv, PathsRead, LoweringInv
    <2>4. BlocksHeld' /\ \A id : Unmarked(id)' = Unmarked(id) /\ ValuesFor(id)' = ValuesFor(id)
      BY <2>1, <2>3, BlocksStay
    <2>5. CASE At(lowered, t) = Missing
      <3>1. lowered' = lowered
        BY <2>1, <2>5, TransformedIs
      <3> QED BY <2>1, <2>3, <2>4, <3>1 DEF LoweredHeld
    <2>6. CASE At(lowered, t) # Missing
      <3>1. PICK set \in SettingsOf(lowered, t) : lowered' = LoweredBy(lowered, t, AddsOf(lowered, t, set))
        BY <2>1, <2>6, TransformedIs
      <3>2. set[Marker[t].setting] \in Setting(t, At(lowered, t), Marker[t].setting)
        <4>1. Marker[t].setting \in DOMAIN Settings[t]
          BY <2>2, AvailableIds DEF Settings, Marker
        <4> QED BY <4>1, WholeGiven DEF SettingsOf
      <3>3. "variables" \in KeysOf(lowered) /\ IsList(ItemsOf(At(lowered, "variables")))
        <4>1. "variables" \in CoreKeys
          BY ScenarioFields DEF CoreKeys
        <4> QED BY <2>1, <2>3, <4>1 DEF LoweredHeld, ScenarioInv, DocFits
      <3>4. /\ "variables" \in KeysOf(lowered')
            /\ At(lowered', t) = Missing
            /\ VariableNodes(lowered, Marker[t].variable) = {} =>
                 OnceMade(lowered', Marker[t].variable, set[Marker[t].setting])
        BY <2>2, <3>1, <3>3, OneLowered
      <3>7. ASSUME NEW id \in DOMAIN Available, id # t
            PROVE  /\ At(lowered', id) = At(lowered, id)
                   /\ VariableNodes(lowered', Marker[id].variable) = VariableNodes(lowered, Marker[id].variable)
                   /\ \A value : OnceMade(lowered, Marker[id].variable, value) =>
                                   OnceMade(lowered', Marker[id].variable, value)
        BY <2>2, <3>1, <3>3, <3>7, OneLowered
      <3>5. /\ t \in DOMAIN authoring.blocks /\ set[Marker[t].setting] \in ValuesFor(t)
            /\ Unmarked(t) => VariableNodes(lowered, Marker[t].variable) = {}
        BY <2>2, <2>3, <2>6, <3>2 DEF LoweredHeld, ValuesFor
      <3>6. ASSUME NEW id \in DOMAIN Available
            PROVE  /\ At(lowered', id) # Missing =>
                        id \in DOMAIN authoring.blocks /\ At(lowered', id) = authoring.blocks[id]
                   /\ Unmarked(id) =>
                        IF id \in DOMAIN authoring.blocks /\ At(lowered', id) = Missing
                        THEN \E value \in ValuesFor(id) : OnceMade(lowered', Marker[id].variable, value)
                        ELSE VariableNodes(lowered', Marker[id].variable) = {}
        <4>1. CASE id = t
          BY <3>4, <3>5, <4>1
        <4>2. CASE id # t
          BY <2>3, <3>7, <4>2 DEF LoweredHeld
        <4> QED BY <4>1, <4>2
      <3> QED BY <2>1, <2>4, <3>4, <3>6 DEF LoweredHeld
    <2> QED BY <2>4, <2>5, <2>6
  <1> QED BY <1>1, <1>2

LEMMA LoweringLower ==
  ASSUME DeclarationInv, ScenarioInv, LoweringInv, Lower
  PROVE  LoweringInv'
  <1>1. CASE Fail
    BY <1>1 DEF Fail, LoweringInv
  <1>2. CASE ~Fail
    <2>1. PICK s \in Deserialize(lowered) : authoring' = [authoring EXCEPT !.scenario = s]
      BY <1>2 DEF Lower
    <2>2. /\ stage = "transform" /\ stage' = "finish" /\ UNCHANGED <<files, lowered, texts>>
          /\ Declared \cap KeysOf(lowered) = {}
      BY <1>2 DEF Lower, GoTo
    <2> SUFFICES ASSUME texts = <<>> PROVE BlocksHeld' /\ ScenarioHeld'
      BY <2>2 DEF LoweringInv
    <2>3. /\ DocFits(lowered) /\ AuthoringKept /\ BlocksHeld /\ LoweredHeld /\ FilesSound
          /\ DOMAIN authoring.blocks \subseteq Declared
      BY <2>2 DEF ScenarioInv, DeclarationInv, Busy, LoweringInv, Resolvable
    <2>4. authoring'.scenario = s /\ authoring'.blocks = authoring.blocks
      BY <2>1, <2>3 DEF AuthoringKept
    <2>5. BlocksHeld' /\ \A id : Unmarked(id)' = Unmarked(id) /\ ValuesFor(id)' = ValuesFor(id)
      <3>1. PathsRead' = PathsRead
        BY <2>2, <2>3, FilesKept DEF PathsRead
      <3> QED BY <2>2, <2>3, <2>4, <3>1, BlocksStay
    <2>6. \A name : NamedIn(s, name) = VariableNodes(lowered, name)
      BY <2>3, NamesGiven
    <2>7. ASSUME NEW id \in DOMAIN Available, NEW value \in ValuesFor(id),
                 OnceMade(lowered, Marker[id].variable, value)
          PROVE  OnceNamed(s, Marker[id].variable, value)
      <3> DEFINE items == ItemsOf(At(lowered, "variables"))
      <3>1. PICK i \in DOMAIN items :
              /\ VariableNodes(lowered, Marker[id].variable) = {i}
              /\ At(items[i], "type") = Scalar("FLOAT") /\ At(items[i], "default_value") = Scalar(value)
        BY <2>7 DEF OnceMade
      <3>2. NamedIn(s, Marker[id].variable) = {i}
        BY <2>6, <3>1
      <3>3. i \in DOMAIN s.variables
        BY <3>2 DEF NamedIn
      <3>4. s.variables[i] \in Read3(Variable, items[i], Null, At(lowered, "typed_layer"))
        <4>1. "variables" \in DOMAIN ListIds /\ SectionKind("variables") = Variable
          BY ScenarioFields
        <4> QED BY <2>3, <3>3, <4>1, SectionGiven
      <3> HIDE DEF items
      <3>5. s.variables[i].default_value \in Variant("double", Take("stod", value))
        BY <3>1, <3>4, VariableFieldGiven
      <3>6. Take("stod", value) \subseteq {value}
        BY <2>7, SettingSays DEF ValuesFor
      <3>7. s.variables[i].default_value = [is |-> "double", texts |-> <<value>>]
        BY <3>5, <3>6, VariantOf
      <3> QED BY <3>2, <3>3, <3>7 DEF OnceNamed
    <2>8. ASSUME NEW id \in DOMAIN Available, id \in DOMAIN authoring.blocks
          PROVE  At(lowered, id) = Missing
      BY <2>2, <2>3, <2>8 DEF At
    <2>9. ScenarioHeld'
      BY <2>3, <2>4, <2>5, <2>6, <2>7, <2>8 DEF ScenarioHeld, LoweredHeld
    <2> QED BY <2>5, <2>9
  <1> QED BY <1>1, <1>2

LEMMA LoweringFinish ==
  ASSUME DeclarationInv, ScenarioInv, LoweringInv, Finish
  PROVE  LoweringInv'
  <1> DEFINE c == Canonical(authoring.scenario)
  <1>1. /\ stage = "finish" /\ stage' = "resolved" /\ UNCHANGED <<files, lowered>>
        /\ authoring' = [authoring EXCEPT !.scenario = c]
        /\ texts' = Append(texts, Serialize(c))
    BY DEF Finish, GoTo
  <1>2. AuthoringKept /\ ScenarioMade(authoring.scenario) /\ IsList(texts) /\ FilesSound
    BY <1>1 DEF DeclarationInv, ScenarioInv, ScenarioKept, Busy, TextsSound
  <1>3. c.variables = authoring.scenario.variables
    BY <1>2, ScenarioFields, CanonicalIs DEF ScenarioMade
  <1> HIDE DEF c
  <1>4. authoring'.scenario.variables = authoring.scenario.variables /\ authoring'.blocks = authoring.blocks
    BY <1>1, <1>2, <1>3 DEF AuthoringKept
  <1> SUFFICES ASSUME Len(texts') = 1 PROVE BlocksHeld' /\ ScenarioHeld'
    BY <1>1 DEF LoweringInv
  <1>5. texts = <<>>
    <2>1. Len(texts') = Len(texts) + 1 /\ Len(texts) \in Nat /\ DOMAIN texts = 1 .. Len(texts)
      BY <1>1, <1>2, ListAppended, ListIs
    <2>2. Len(texts) = 0
      BY <2>1
    <2> QED BY <1>2, <2>2 DEF IsList
  <1>6. BlocksHeld /\ ScenarioHeld /\ PathsRead' = PathsRead
    BY <1>1, <1>2, <1>5, FilesKept DEF LoweringInv, PathsRead
  <1>7. BlocksHeld' /\ \A id : Unmarked(id)' = Unmarked(id) /\ ValuesFor(id)' = ValuesFor(id)
    BY <1>1, <1>2, <1>4, <1>6, BlocksStay
  <1>8. \A name, value : /\ NamedIn(authoring'.scenario, name) = NamedIn(authoring.scenario, name)
                         /\ OnceNamed(authoring'.scenario, name, value) = OnceNamed(authoring.scenario, name, value)
    BY <1>4 DEF NamedIn, OnceNamed
  <1> QED BY <1>4, <1>6, <1>7, <1>8 DEF ScenarioHeld

LEMMA LoweringInvariant == Spec => []LoweringInv
  <1>1. Init => LoweringInv
    BY FilesAssumption DEF Init, LoweringInv
  <1>2. ASSUME DeclarationInv, ScenarioInv, LoweringInv, [Next]_vars
        PROVE  LoweringInv'
    <2>1. CASE UNCHANGED vars
      <3>1. UNCHANGED <<files, stage, at, authoring, lowered, texts>>
        BY <2>1 DEF vars
      <3>2. PathsRead' = PathsRead /\ Paths' = Paths
        <4>1. FilesSound
          BY <1>2 DEF DeclarationInv
        <4> QED BY <3>1, <4>1, FilesKept DEF PathsRead
      <3>3. /\ BlocksHeld' = BlocksHeld /\ NamesHeld' = NamesHeld
            /\ \A id : Unmarked(id)' = Unmarked(id) /\ ValuesFor(id)' = ValuesFor(id)
        BY <3>1, <3>2 DEF BlocksHeld, NamesHeld, Unmarked, ValuesFor
      <3>4. LoweredHeld' = LoweredHeld /\ ScenarioHeld' = ScenarioHeld
        BY <3>1, <3>3 DEF LoweredHeld, ScenarioHeld
      <3> QED BY <1>2, <3>1, <3>3, <3>4 DEF LoweringInv
    <2>2. CASE ResolveAgain
      <3>1. stage = "resolved" /\ stage' = "read" /\ at' = 0 /\ texts' = texts
        BY <2>2 DEF ResolveAgain
      <3>2. texts' # <<>>
        BY <1>2, <3>1 DEF DeclarationInv
      <3> QED BY <3>1, <3>2 DEF LoweringInv
    <2> QED BY <1>2, <2>1, <2>2, LoweringRoot, LoweringImport, LoweringDiscover, LoweringCheck,
               LoweringTransform, LoweringLower, LoweringFinish DEF Next, Terminated
  <1> QED BY <1>1, <1>2, DeclarationInvariant, ScenarioInvariant, PTL DEF Spec

\* For all files, if resolve_scenario resolves them, the first variable that
\* transform_to_core of an extension adds is there exactly once if a file has
\* a block for the extension, with the one value that the files give, and not
\* at all otherwise, unless a file has a variable of its name itself.
THEOREM BlocksAreLoweredOnce == Spec => []LoweredOnce
  <1>1. ASSUME DeclarationInv, ScenarioInv, LoweringInv PROVE LoweredOnce
    <2> SUFFICES ASSUME stage = "resolved", Len(texts) = 1, NEW id \in DOMAIN Available, Unmarked(id)
        PROVE  LET blocks == {files[path].at[id] :
                                path \in {p \in Paths : id \in DOMAIN ExtensionBlocks(files[p])}}
                   key == Marker[id].setting
                   settings == {At(At(block, Group[id]), key) : block \in blocks}
                   given == {node.text : node \in {n \in settings : n.node = "scalar"}}
                   made == VariableNodes(texts[1], Marker[id].variable)
                   First(i) == At(ItemsOf(At(texts[1], "variables"))[i], "default_value")
               IN  /\ Cardinality(made) = IF blocks = {} THEN 0 ELSE 1
                   /\ \A i \in made :
                        {First(i)} = IF given = {} THEN {Scalar(Settings[id][key])}
                                       ELSE {Scalar(Taken["real"][text]) : text \in given}
      BY DEF LoweredOnce, Unmarked
    <2> DEFINE s == authoring.scenario
               key == Marker[id].setting
               name == Marker[id].variable
               blocks == {files[path].at[id] :
                            path \in {p \in Paths : id \in DOMAIN ExtensionBlocks(files[p])}}
               given == {node.text : node \in {n \in {At(At(block, Group[id]), key) : block \in blocks} :
                                                 n.node = "scalar"}}
               First(i) == At(ItemsOf(At(texts[1], "variables"))[i], "default_value")
    <2>1. BlocksHeld /\ ScenarioHeld /\ ScenarioMade(s) /\ texts[1] = Serialize(s) /\ PathsRead = Paths
      BY <1>1 DEF LoweringInv, ScenarioInv, ScenarioKept, Busy, PathsRead
    <2>2. /\ VariableNodes(texts[1], name) = NamedIn(s, name)
          /\ \A i \in NamedIn(s, name) : First(i) = WriteVariant(s.variables[i].default_value)
      BY <2>1, NamesWritten DEF NamedIn
    <2>3. blocks # {} <=> id \in DOMAIN authoring.blocks
      BY <2>1 DEF BlocksHeld
    <2>4. given = Said(authoring.blocks, id, Group[id], key)
      <3>1. \A path : id \in DOMAIN ExtensionBlocks(files[path]) =>
                        ExtensionBlocks(files[path])[id] = files[path].at[id]
        BY DEF ExtensionBlocks
      <3>2. \A path : Said(ExtensionBlocks(files[path]), id, Group[id], key) =
                        IF id \in DOMAIN ExtensionBlocks(files[path])
                        THEN TextsOf(At(At(files[path].at[id], Group[id]), key)) ELSE {}
        BY <3>1 DEF Said
      <3>3. UNION {Said(ExtensionBlocks(files[path]), id, Group[id], key) : path \in Paths} =
              UNION {TextsOf(At(At(block, Group[id]), key)) : block \in blocks}
        <4> HIDE DEF key
        <4> QED BY <3>2
      <3>4. given = UNION {TextsOf(At(At(block, Group[id]), key)) : block \in blocks}
        <4> HIDE DEF key, blocks
        <4> QED BY DEF TextsOf
      <3> HIDE DEF given, key, blocks
      <3> QED BY <2>1, <3>3, <3>4 DEF BlocksHeld
    <2>5. CASE id \notin DOMAIN authoring.blocks
      <3>1. NamedIn(s, name) = {} /\ Cardinality({}) = 0
        BY <2>1, <2>5, FS_EmptySet DEF ScenarioHeld
      <3> QED BY <2>2, <2>3, <2>5, <3>1
    <2>6. CASE id \in DOMAIN authoring.blocks
      <3>1. PICK value \in ValuesFor(id) : OnceNamed(s, name, value)
        BY <2>1, <2>6 DEF ScenarioHeld
      <3>2. PICK i \in DOMAIN s.variables :
              NamedIn(s, name) = {i} /\ s.variables[i].default_value = [is |-> "double", texts |-> <<value>>]
        BY <3>1 DEF OnceNamed
      <3>3. Cardinality(NamedIn(s, name)) = 1
        BY <3>2, FS_Singleton
      <3>4. First(i) = Scalar(value)
        BY <2>2, <3>2 DEF WriteVariant
      <3>5. {Scalar(value)} = AsGiven(id, given)
        <4>1. given = TextsOf(At(At(authoring.blocks[id], Group[id]), key))
          BY <2>4, <2>6 DEF Said
        <4>2. value \in Setting(id, authoring.blocks[id], Marker[id].setting)
          BY <3>1 DEF ValuesFor
        <4> HIDE DEF given
        <4> QED BY <4>1, <4>2, SettingSays
      <3>6. \A j \in NamedIn(s, name) : {First(j)} = AsGiven(id, given)
        <4> HIDE DEF s, name, given, First
        <4> QED BY <3>2, <3>4, <3>5
      <3> QED BY <2>2, <2>3, <2>6, <3>3, <3>6 DEF AsGiven
    <2> QED BY <2>5, <2>6
  <1> QED BY <1>1, DeclarationInvariant, ScenarioInvariant, LoweringInvariant, PTL
===============================================================================
