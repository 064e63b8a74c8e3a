------------------------ MODULE ScenarioComposition ------------------------
(***************************************************************************)
(* What composition should give, from the paths of imports alone.  A path  *)
(* is a sequence of imports, each by its file and position.                *)
(***************************************************************************)
EXTENDS ScenarioResolver

ImportSites == UNION {{f} \X DOMAIN ImportsOf(f) : f \in Files}
ImportAt(site) == ImportsOf(site[1])[site[2]]

\* A path leads from a file through one that it imports to one that this
\* imports, and so on.
Chained(file, path) ==
  /\ path # <<>> => path[1][1] = file
  /\ \A k \in 1 .. Len(path) - 1 : path[k + 1][1] = ImportAt(path[k]).path

\* Without a cycle no path passes a file twice.
ImportPaths(file) ==
  {path \in UNION {[1 .. n -> ImportSites] : n \in 0 .. Cardinality(Files) - 1} :
     Chained(file, path)}

FileAt(file, path) == IF path = <<>> THEN file ELSE ImportAt(path[Len(path)]).path
ItemsAt(file, path) == disk[FileAt(file, path)].scenario.items

\* The namespaces that a path passes.
NamespaceOf(site) ==
  IF ImportAt(site).ns = None THEN <<>> ELSE <<ImportAt(site).ns>>

Qualifier(path) ==
  LET ofLast[n \in 0 .. Len(path)] ==
        IF n = 0 THEN <<>>
        ELSE NamespaceOf(path[Len(path) + 1 - n]) \o ofLast[n - 1]
  IN  ofLast[Len(path)]

Qualified(path, id) == IF id = <<>> THEN <<>> ELSE Qualifier(path) \o id

\* The ids that a file, as a fragment, makes known to its importer.
Scope(file, kind) ==
  UNION {{Qualified(path, id) :
            id \in DeclaredIn(ItemsAt(file, path), kind) \ {<<>>}} :
         path \in ImportPaths(file)}

\* How far into a path the fragments lie that know a name.
Enclosing(file, path, ref) ==
  {k \in 0 .. Len(path) :
     ref.name \in Scope(FileAt(file, SubSeq(path, 1, k)), ref.kind)}

Largest(S) == CHOOSE k \in S : \A j \in S : j <= k

\* A name means the declaration that the innermost fragment around it knows.
Bound(file, path, ref) ==
  IF Enclosing(file, path, ref) = {} THEN ref
  ELSE [ref EXCEPT !.name =
          Qualifier(SubSeq(path, 1, Largest(Enclosing(file, path, ref)))) \o @]

Unqualified(refs) == {r \in refs : r.role = None}

Instance(file, path, item) ==
  [kind |-> item.kind, id |-> Qualified(path, item.id),
   refs |-> {Bound(file, path, r) : r \in Unqualified(item.refs)}]

Occurrences(file) ==
  UNION {{path} \X DOMAIN ItemsAt(file, path) : path \in ImportPaths(file)}

\* The resolved scenario has one copy of every item for every path of imports
\* to its file, named after the path; and what an item refers to, by a name
\* without a role, is what the innermost fragment around it calls so.  The
\* code gets there by renaming at each return, through a cache that several
\* importers share.
NamesBindLexically ==
  status = "resolved" =>
    /\ {[returned.items[i] EXCEPT !.refs = Unqualified(@)] :
          i \in DOMAIN returned.items}
         = {Instance(Root, o[1], ItemsAt(Root, o[1])[o[2]]) :
              o \in Occurrences(Root)}
    /\ Len(returned.items) = Cardinality(Occurrences(Root))
=============================================================================
