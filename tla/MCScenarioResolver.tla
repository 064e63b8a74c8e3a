------------------------- MODULE MCScenarioResolver -------------------------
(***************************************************************************)
(* Small sets of scenario files for TLC.                                   *)
(***************************************************************************)
EXTENDS ScenarioComposition

CONSTANTS main, left, right, x, y, p, q, w1, w2, self, other

To(kind, name, role, expr) ==
  [kind |-> kind, name |-> <<name>>, role |-> role, expr |-> expr]
Variable(name, refs) == [kind |-> "variable", id |-> <<name>>, refs |-> refs]
Component(name) == [kind |-> "component", id |-> <<name>>, refs |-> {}]
\* A relation or an initial event.
Nameless(refs) == [kind |-> "relation", id |-> <<>>, refs |-> refs]
System(name, refs) == [kind |-> "system", id |-> <<name>>, refs |-> refs]

Plain(name) == To("variable", name, None, FALSE)

File(imports, items, world) ==
  [readable |-> TRUE, imports |-> imports,
   scenario |-> [items |-> items, world |-> world]]
Unreadable ==
  [readable |-> FALSE, imports |-> <<>>,
   scenario |-> [items |-> <<>>, world |-> None]]

ImportOf(paths, namespaces) == [path : paths, ns : namespaces]
UpTo(n, imports) == UNION {[1 .. k -> imports] : k \in 0 .. n}

\* Up to two imports for main and one for left and for right, so that there
\* are cycles, diamonds and chains, with and without namespaces.
MainFiles ==
  {File(imports, items, world) :
     imports \in UpTo(2, ImportOf({left, right}, {None, p, q}))
                   \cup {<<[path |-> left, ns |-> Malformed]>>},
     items \in {<<Variable(x, {Plain(y)})>>, <<Variable(y, {})>>},
     world \in {None}}
LeftFiles ==
  {File(imports, items, w1) :
     imports \in UpTo(1, ImportOf({main, right}, {None, p})),
     items \in {<<Variable(x, {Plain(y)})>>,
                <<Variable(x, {Plain(y)}), Variable(y, {Plain(x)})>>,
                <<Nameless({To("component", x, None, FALSE)}), Component(x)>>}}
RightFiles ==
  {File(imports, items, w1) :
     imports \in UpTo(1, ImportOf({left}, {None, p})),
     items \in {<<Variable(y, {Plain(x)})>>, <<Component(x), Component(x)>>,
                <<Variable(Blank, {Plain(Blank)})>>}}
  \cup {File(<<>>, <<Component(x)>>, w2), Unreadable}

SmallDisks ==
  {[f \in Files |-> CASE f = main -> m [] f = left -> l [] f = right -> r] :
     m \in MainFiles, l \in LeftFiles, r \in RightFiles}

\* A fragment with a system over pairs, imported under a namespace.
PairDisks ==
  {[f \in Files |->
      IF f = main
      THEN File(<<[path |-> left, ns |-> p]>>, <<>>, None)
      ELSE File(<<>>, <<Component(x),
                        System(y, {To("component", x, self, TRUE),
                                   To("component", x, other, TRUE)})>>, w1)]}
=============================================================================
