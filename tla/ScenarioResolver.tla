-------------------------- MODULE ScenarioResolver --------------------------
(***************************************************************************)
(* The composition of a scenario from the files it imports                 *)
(* (src/src/experiment/scenario_resolver.cpp).                             *)
(*                                                                         *)
(* resolve_definition is recursive: it reads a file, resolves each import  *)
(* in turn, prefixes the ids of the result with the import's namespace and *)
(* merges it into the file's own scenario.  A set of files being visited   *)
(* detects circular imports; a cache keeps what was resolved.  The         *)
(* recursion is modelled by its stack, one step per call, return and       *)
(* merge.                                                                  *)
(*                                                                         *)
(* An id is the sequence of the namespaces prefixed to it and the name its *)
(* file gave it: prefix_id joins them with "__", and names are taken to    *)
(* hold no "__" of their own; one of the names is the empty string.  The   *)
(* texts of a scenario come down to what they declare and what they refer  *)
(* to.  Authoring blocks of extensions are left out.                       *)
(***************************************************************************)
EXTENDS Naturals, Sequences, FiniteSets

CONSTANTS
  Files,            \* the paths, made absolute
  Root,             \* the file that resolve_scenario is given
  Documents,        \* what may be on disk: a set of functions on Files
  Kinds,            \* kinds of ids, each with a name space of its own
  LayerKinds,       \* those that belong to the agent or typed layer
  SkippedKinds,     \* those whose gates the validator skips beside the layer
  Names,            \* names of declarations
  Blank,            \* the empty string, as a name
  Namespaces,       \* well-formed import namespaces (is_valid_namespace)
  Malformed,        \* stands for every namespace that is not
  Worlds,           \* descriptions of the world of a layer
  Roles,            \* self and other, the roles of typed expressions
  ValidateResolved, \* ResolveOptions.validate_resolved
  None

\* A reference names a declaration.  In a typed system it may be qualified by
\* a role, and it may be in an expression, which is not parsed before it runs.
\* An optional reference that is not given has the empty string for a name, and
\* is no reference; any other reference may name what is declared as Blank.
Reference ==
  [kind : Kinds, name : Seq(Names \cup Namespaces) \ {<<>>},
   role : Roles \cup {None}, expr : BOOLEAN]

\* Relations and initial events have no id: theirs is <<>>.  An id that is not
\* written is the empty string.
Item ==
  [kind : Kinds, id : Seq(Names \cup Namespaces), refs : SUBSET Reference]

\* world is None for a scenario without a layer.
Scenario == [items : Seq(Item), world : Worlds \cup {None}]

Import == [path : Files, ns : Namespaces \cup {Malformed, None}]
Document == [readable : BOOLEAN, imports : Seq(Import), scenario : Scenario]

ASSUME FilesAssumption ==
  /\ IsFiniteSet(Files)
  /\ Root \in Files
  /\ Documents \subseteq [Files -> Document]
  /\ LayerKinds \subseteq Kinds
  /\ SkippedKinds \subseteq Kinds \ LayerKinds
  /\ Blank \in Names
  /\ ValidateResolved \in BOOLEAN
  /\ None \notin Scenario

VARIABLES
  disk,          \* the files as they are read
  visiting,      \* ResolveContext::visiting
  cache,         \* ResolveContext::resolved_cache, a function on a set of files
  resolvedFiles, \* CompositionReport::resolved_files
  stack,         \* the calls of resolve_definition, the outermost first
  returned,      \* what the call that has just returned gives its caller
  status,        \* "running", "resolved" or "failed"
  error          \* what was thrown, "none" if nothing was

vars == <<disk, visiting, cache, resolvedFiles, stack, returned, status, error>>

\* A call: its file, its import at hand, and the scenario composed so far.
Frame == [file : Files, next : Nat \ {0}, scenario : Scenario]

-----------------------------------------------------------------------------
(***************************************************************************)
(* Prefixing and merging.                                                  *)
(***************************************************************************)
DeclaredIn(items, kind) == {items[i].id : i \in {j \in DOMAIN items : items[j].kind = kind}}

\* Every id is prefixed, the empty string too.
Prefixed(ns, id) == IF id = <<>> THEN id ELSE <<ns>> \o id

\* The bug of taking every reference for one to the fragment.
RenamedAlways(ns, ref, items) == [ref EXCEPT !.name = <<ns>> \o @]

\* A reference is renamed if the fragment declares what it names.  Only the
\* first segment of a dotted path is looked up (rewrite_dotted_identifiers): in
\* a path that starts with a role the segment is the role.
Renamed(ns, ref, items) ==
  IF ref.role = None /\ ref.name \in DeclaredIn(items, ref.kind)
  THEN [ref EXCEPT !.name = <<ns>> \o @]
  ELSE ref

PrefixFragment(ns, s) ==
  [s EXCEPT !.items =
     [i \in DOMAIN s.items |->
        [s.items[i] EXCEPT !.id = Prefixed(ns, @),
                           !.refs = {Renamed(ns, r, s.items) : r \in @}]]]

InNamespace(ns, s) == IF ns = None THEN s ELSE PrefixFragment(ns, s)

\* append_unique sees the ids of dst and those of src it has appended.  A
\* layer that dst does not have is taken as a whole.
Clash(dst, src, kinds) ==
  \E i \in DOMAIN src.items :
    LET item == src.items[i]
    IN  /\ item.id \notin {<<>>, <<Blank>>}
        /\ item.kind \in kinds
        /\ item.kind \in LayerKinds => dst.world # None
        /\ \/ item.id \in DeclaredIn(dst.items, item.kind)
           \/ \E j \in 1 .. i - 1 : src.items[j].kind = item.kind
                                    /\ src.items[j].id = item.id

WorldsConflict(dst, src) ==
  dst.world # None /\ src.world # None /\ dst.world # src.world

Merged(dst, src) ==
  [items |-> dst.items \o src.items,
   world |-> IF dst.world = None THEN src.world ELSE dst.world]

\* Beside a typed layer the gates of the core sections but the assumptions are
\* skipped; SkippedKinds is empty if the layer is the agent layer.
Gated(s) == IF s.world = None THEN Kinds ELSE Kinds \ SkippedKinds

\* The validator: ids are unique and those of a layer are not empty, and
\* references denote declarations, but for those in expressions, which it does
\* not read.
Valid(s) ==
  LET gated == {i \in DOMAIN s.items : s.items[i].kind \in Gated(s)}
  IN  /\ \A i, j \in gated :
           s.items[i].id # <<>> /\ s.items[i].id = s.items[j].id
             /\ s.items[i].kind = s.items[j].kind => i = j
      /\ \A i \in gated :
           /\ s.items[i].kind \in LayerKinds => s.items[i].id # <<Blank>>
           /\ \A r \in s.items[i].refs :
                ~r.expr => r.name \in DeclaredIn(s.items, r.kind)

-----------------------------------------------------------------------------
Init ==
  /\ disk \in Documents
  /\ visiting = {}
  /\ cache = [f \in {} |-> None]
  /\ resolvedFiles = <<>>
  /\ stack = <<>>
  /\ returned = None
  /\ status = "running"
  /\ error = "none"

Running == status = "running"
Top == stack[Len(stack)]
ImportsOf(f) == disk[f].imports

\* The argument of the call about to be made: the root of all, or the next
\* import of the innermost call.
Calling ==
  /\ Running
  /\ returned = None
  /\ stack # <<>> => Top.next \in DOMAIN ImportsOf(Top.file)

Wanted == IF stack = <<>> THEN Root ELSE ImportsOf(Top.file)[Top.next].path

Fail(what) ==
  /\ status' = "failed"
  /\ error' = what
  /\ UNCHANGED <<disk, visiting, cache, resolvedFiles, stack, returned>>

RefuseCircular ==
  /\ Calling
  /\ Wanted \in visiting
  /\ Fail("circular")

TakeFromCache ==
  /\ Calling
  /\ Wanted \notin visiting
  /\ Wanted \in DOMAIN cache
  /\ returned' = cache[Wanted]
  /\ UNCHANGED <<disk, visiting, cache, resolvedFiles, stack, status, error>>

Open ==
  /\ Calling
  /\ Wanted \notin visiting \cup DOMAIN cache
  /\ disk[Wanted].readable
  /\ visiting' = visiting \cup {Wanted}
  /\ resolvedFiles' = Append(resolvedFiles, Wanted)
  /\ stack' = Append(stack, [file |-> Wanted, next |-> 1,
                             scenario |-> disk[Wanted].scenario])
  /\ UNCHANGED <<disk, cache, returned, status, error>>

\* Read, parse and deserialize throw; the context goes with the exception.
FailToRead ==
  /\ Calling
  /\ Wanted \notin visiting \cup DOMAIN cache
  /\ ~disk[Wanted].readable
  /\ Fail("unreadable")

\* Back in the caller: prefix what was returned and merge it.
Fragment ==
  InNamespace(ImportsOf(Top.file)[Top.next].ns, returned)

Composing == Running /\ returned # None /\ stack # <<>>

\* The bug of trying again what cannot be merged.
RefuseImportRetries ==
  /\ Composing
  /\ \/ ImportsOf(Top.file)[Top.next].ns = Malformed
     \/ Clash(Top.scenario, Fragment, Kinds)
     \/ WorldsConflict(Top.scenario, Fragment)
  /\ returned' = None
  /\ UNCHANGED <<disk, visiting, cache, resolvedFiles, stack, status, error>>

\* prefix_fragment and merge_scenario throw.  The layers are merged last, and a
\* layer's world is compared before its ids.
RefuseImport ==
  /\ Composing
  /\ \/ ImportsOf(Top.file)[Top.next].ns = Malformed /\ Fail("namespace")
     \/ /\ ImportsOf(Top.file)[Top.next].ns # Malformed
        /\ Clash(Top.scenario, Fragment, Kinds \ LayerKinds)
        /\ Fail("duplicate")
     \/ /\ ImportsOf(Top.file)[Top.next].ns # Malformed
        /\ ~Clash(Top.scenario, Fragment, Kinds \ LayerKinds)
        /\ WorldsConflict(Top.scenario, Fragment)
        /\ Fail("world")
     \/ /\ ImportsOf(Top.file)[Top.next].ns # Malformed
        /\ ~WorldsConflict(Top.scenario, Fragment)
        /\ Clash(Top.scenario, Fragment, LayerKinds)
        /\ Fail("duplicate")

Advanced(call) ==
  [call EXCEPT !.next = @ + 1, !.scenario = Merged(@, Fragment)]

Compose ==
  /\ Composing
  /\ ImportsOf(Top.file)[Top.next].ns # Malformed
  /\ ~Clash(Top.scenario, Fragment, Kinds)
  /\ ~WorldsConflict(Top.scenario, Fragment)
  /\ stack' = [stack EXCEPT ![Len(stack)] = Advanced(Top)]
  /\ returned' = None
  /\ UNCHANGED <<disk, visiting, cache, resolvedFiles, status, error>>

\* The bug of leaving a file visited that is done.
ReturnStillVisiting ==
  /\ Running
  /\ returned = None
  /\ stack # <<>>
  /\ Top.next \notin DOMAIN ImportsOf(Top.file)
  /\ cache' = [f \in DOMAIN cache \cup {Top.file} |->
                 IF f \in DOMAIN cache THEN cache[f] ELSE Top.scenario]
  /\ returned' = Top.scenario
  /\ stack' = SubSeq(stack, 1, Len(stack) - 1)
  /\ UNCHANGED <<disk, visiting, resolvedFiles, status, error>>

\* All imports are merged: leave the set of visited files, keep the result.
Return ==
  /\ Running
  /\ returned = None
  /\ stack # <<>>
  /\ Top.next \notin DOMAIN ImportsOf(Top.file)
  /\ visiting' = visiting \ {Top.file}
  /\ cache' = [f \in DOMAIN cache \cup {Top.file} |->
                 IF f \in DOMAIN cache THEN cache[f] ELSE Top.scenario]
  /\ returned' = Top.scenario
  /\ stack' = SubSeq(stack, 1, Len(stack) - 1)
  /\ UNCHANGED <<disk, resolvedFiles, status, error>>

Validate ==
  /\ Running
  /\ returned # None
  /\ stack = <<>>
  /\ \/ ValidateResolved /\ ~Valid(returned) /\ Fail("invalid")
     \/ /\ ValidateResolved => Valid(returned)
        /\ status' = "resolved"
        /\ UNCHANGED <<disk, visiting, cache, resolvedFiles, stack, returned,
                       error>>

Next ==
  \/ RefuseCircular
  \/ TakeFromCache
  \/ Open
  \/ FailToRead
  \/ RefuseImport
  \/ Compose
  \/ Return
  \/ Validate

Spec == Init /\ [][Next]_vars
\* resolve_scenario is a sequence of calls that nothing interrupts.
FairSpec == Spec /\ WF_vars(Next)

-----------------------------------------------------------------------------
ResolverTypeOK ==
  /\ disk \in [Files -> Document]
  /\ visiting \subseteq Files
  /\ DOMAIN cache \subseteq Files
  /\ \A f \in DOMAIN cache : cache[f] \in Scenario
  /\ resolvedFiles \in Seq(Files)
  /\ stack \in Seq(Frame)
  /\ returned \in Scenario \cup {None}
  /\ status \in {"running", "resolved", "failed"}
  /\ error \in {"none", "circular", "unreadable", "namespace", "duplicate",
                "world", "invalid"}

(***************************************************************************)
(* The import graph.  A cycle is a set of files each of which imports one  *)
(* of them; it matters if the root reaches it.                             *)
(***************************************************************************)
Imported(f) == {ImportsOf(f)[i].path : i \in DOMAIN ImportsOf(f)}
ClosedUnderImport(S) == \A f \in S : Imported(f) \subseteq S
Reachable ==
  {f \in Files : \A S \in SUBSET Files :
                   Root \in S /\ ClosedUnderImport(S) => f \in S}
Cyclic(S) == S # {} /\ \A f \in S : Imported(f) \cap S # {}
HasCycle == \E S \in SUBSET Reachable : Cyclic(S)

\* A circular import is reported only if there is one, and nothing with a
\* circular import is resolved: importing a file twice, by two ways or by a
\* way that is already resolved, is not circular.  The decision is made by a
\* set of visited files that calls enter and leave, and by a cache.
CircularImportsReported ==
  /\ error = "circular" => HasCycle
  /\ status = "resolved" => ~HasCycle

\* The visited files are those of the calls on the stack, each once; none of
\* them is cached yet, and no file is opened twice, whoever imports it.
OpenedOnce ==
  /\ visiting = {stack[k].file : k \in DOMAIN stack}
  /\ \A j, k \in DOMAIN stack : stack[j].file = stack[k].file => j = k
  /\ \A j, k \in DOMAIN resolvedFiles : resolvedFiles[j] = resolvedFiles[k] => j = k
  /\ visiting \cap DOMAIN cache = {}

\* resolve_scenario returns or throws, whatever the files import.
ResolutionEnds == <>(status # "running")

\* "Duplicate resolved IDs, unresolved references, and circular imports are
\* hard validation failures" (plans/PLAN_v4.md:25).
NothingDangles ==
  status = "resolved" =>
    \A i \in DOMAIN returned.items : \A r \in returned.items[i].refs :
      r.name \in DeclaredIn(returned.items, r.kind)
=============================================================================
