-------------------------- MODULE ScenarioTextProofs --------------------------
(***************************************************************************)
(* Lemmas about ScenarioText, for every YAML node: what a list, a map or a *)
(* struct of the schema is read as, what it is written as, and which kinds *)
(* are read again as the value that was written; with the facts on lists   *)
(* and on induction that these and ExtensionPipelineProofs need.           *)
(***************************************************************************)
EXTENDS ScenarioText, Integers, SequenceTheorems, FiniteSetTheorems, WellFoundedInduction,
        TLAPS

(***************************************************************************)
(* Induction over the naturals.  Its statement in the library takes a      *)
(* predicate as a parameter; as a set it follows from the order of the     *)
(* finite sets by inclusion, which is well-founded.                        *)
(***************************************************************************)
LEMMA LeastElement ==
  ASSUME NEW T \in SUBSET Nat, T # {}
  PROVE  \E n \in T : \A m \in T : n <= m
<1> DEFINE Up == {0 .. n : n \in T}
<1>1. Up \in SUBSET FiniteSubsetsOf(Nat)
  <2>1. ASSUME NEW n \in T PROVE 0 .. n \in FiniteSubsetsOf(Nat)
    <3>1. 0 \in Int /\ n \in Int
      OBVIOUS
    <3>2. IsFiniteSet(0 .. n)
      BY <3>1, FS_Interval
    <3> QED
      BY <3>2 DEF FiniteSubsetsOf
  <2> QED
    BY <2>1
<1>2. Up # {}
  OBVIOUS
<1>3. \E x \in Up : \A y \in Up : ~(<<y, x>> \in StrictSubsetOrdering(Nat))
  <2> HIDE DEF Up
  <2> QED
    BY <1>1, <1>2, FS_StrictSubsetOrderingWellFounded, WFMin
<1>4. PICK n \in T : \A y \in Up : ~(<<y, 0 .. n>> \in StrictSubsetOrdering(Nat))
  BY <1>3
<1>5. ASSUME NEW m \in T PROVE n <= m
  <2>1. 0 .. m \in Up /\ 0 .. n \in Up
    OBVIOUS
  <2>2. 0 .. m \in FiniteSubsetsOf(Nat) /\ 0 .. n \in FiniteSubsetsOf(Nat)
    BY <1>1, <2>1
  <2>3. ~(0 .. m \subseteq 0 .. n /\ 0 .. m # 0 .. n)
    BY <1>4, <2>1, <2>2 DEF StrictSubsetOrdering, FiniteSubsetsOf
  <2>4. n \in Nat /\ m \in Nat
    OBVIOUS
  <2>5. ASSUME m < n PROVE FALSE
    <3>1. 0 .. m \subseteq 0 .. n
      BY <2>4, <2>5
    <3>2. n \in 0 .. n /\ n \notin 0 .. m
      BY <2>4, <2>5
    <3> QED
      BY <2>3, <3>1, <3>2
  <2> QED
    BY <2>4, <2>5
<1> QED
  BY <1>5

LEMMA Induction ==
  ASSUME NEW T, 0 \in T, \A n \in Nat : n \in T => n + 1 \in T
  PROVE  Nat \subseteq T
<1>1. ASSUME Nat \ T # {} PROVE FALSE
  <2>1. PICK n \in Nat \ T : \A m \in Nat \ T : n <= m
    BY <1>1, LeastElement
  <2>2. n # 0 /\ n - 1 \in Nat /\ n - 1 \notin Nat \ T
    BY <2>1
  <2> QED
    BY <2>1, <2>2
<1> QED
  BY <1>1

LEMMA GreatestElement ==
  ASSUME NEW n \in Nat, NEW S \in SUBSET (1 .. n), S # {}
  PROVE  \E i \in S : \A j \in S : j <= i
  <1> DEFINE T == {n - i : i \in S}
  <1>1. T \in SUBSET Nat /\ T # {}
    <2>1. \A i \in S : n - i \in Nat
      OBVIOUS
    <2> QED BY <2>1
  <1>2. PICK k \in T : \A m \in T : k <= m
    <2> HIDE DEF T
    <2> QED BY <1>1, LeastElement
  <1>3. PICK i \in S : k = n - i
    OBVIOUS
  <1>4. \A j \in S : n - j \in T
    OBVIOUS
  <1>5. ASSUME NEW j \in S PROVE j <= i
    <2>1. n - i <= n - j
      BY <1>2, <1>3, <1>4
    <2> QED BY <2>1
  <1> QED BY <1>5

(***************************************************************************)
(* Lists.                                                                  *)
(***************************************************************************)
Ran(list) == {list[i] : i \in DOMAIN list}
IsList(list) == list \in Seq(Ran(list))

LEMMA SeqIs ==
  ASSUME NEW S, NEW s \in Seq(S)
  PROVE  s = [i \in DOMAIN s |-> s[i]] /\ DOMAIN s = 1 .. Len(s) /\ Len(s) \in Nat
  OBVIOUS

LEMMA ListIs ==
  ASSUME NEW list, IsList(list)
  PROVE  /\ Len(list) \in Nat /\ DOMAIN list = 1 .. Len(list)
         /\ list = [i \in DOMAIN list |-> list[i]]
  BY DEF IsList

LEMMA ListMade ==
  ASSUME NEW n \in Nat, NEW list, DOMAIN list = 1 .. n, list = [i \in DOMAIN list |-> list[i]]
  PROVE  IsList(list) /\ Len(list) = n
  <1>1. list \in [1 .. n -> Ran(list)]
    BY DEF Ran
  <1>2. list \in Seq(Ran(list))
    BY <1>1, IsASeq
  <1> QED BY <1>2, <1>1 DEF IsList

LEMMA EmptyList == IsList(<<>>) /\ Len(<<>>) = 0 /\ Ran(<<>>) = {}
  BY DEF IsList, Ran

LEMMA ListLike ==
  ASSUME NEW list, IsList(list), NEW other, DOMAIN other = DOMAIN list,
         other = [i \in DOMAIN other |-> other[i]]
  PROVE  IsList(other) /\ Len(other) = Len(list)
  BY ListIs, ListMade

LEMMA ListAppended ==
  ASSUME NEW list, IsList(list), NEW x
  PROVE  /\ IsList(Append(list, x))
         /\ Len(Append(list, x)) = Len(list) + 1
         /\ Ran(Append(list, x)) = Ran(list) \cup {x}
         /\ \A i \in DOMAIN list : Append(list, x)[i] = list[i]
         /\ Append(list, x)[Len(list) + 1] = x
  <1> DEFINE S == Ran(list) \cup {x}
  <1>1. list \in Seq(S) /\ x \in S
    BY DEF IsList, Ran
  <1>2. Append(list, x) \in Seq(S) /\ Len(Append(list, x)) = Len(list) + 1
    BY <1>1
  <1>3. /\ \A i \in 1 .. Len(list) : Append(list, x)[i] = list[i]
        /\ Append(list, x)[Len(list) + 1] = x
    BY <1>1
  <1>4. DOMAIN Append(list, x) = 1 .. Len(list) + 1 /\ Len(list) \in Nat
    BY <1>1, <1>2
  <1>5. DOMAIN list = 1 .. Len(list)
    BY <1>1
  <1>6. Append(list, x) = [i \in DOMAIN Append(list, x) |-> Append(list, x)[i]]
    <2> HIDE DEF S
    <2> QED BY <1>2, SeqIs
  <1>7. IsList(Append(list, x))
    <2> DEFINE other == Append(list, x)
               n == Len(list) + 1
    <2>1. n \in Nat /\ DOMAIN other = 1 .. n /\ other = [i \in DOMAIN other |-> other[i]]
      BY <1>4, <1>6
    <2> HIDE DEF other, n
    <2>2. IsList(other)
      BY <2>1, ListMade
    <2> QED BY <2>2 DEF other
  <1>8. Ran(Append(list, x)) = Ran(list) \cup {x}
    <2>1. ASSUME NEW i \in 1 .. Len(list) + 1 PROVE i \in 1 .. Len(list) \/ i = Len(list) + 1
      BY <1>4
    <2> QED BY <1>3, <1>4, <1>5, <2>1 DEF Ran
  <1> QED BY <1>2, <1>3, <1>5, <1>7, <1>8

LEMMA ListJoined ==
  ASSUME NEW list, IsList(list), NEW other, IsList(other)
  PROVE  /\ IsList(list \o other)
         /\ Len(list \o other) = Len(list) + Len(other)
         /\ \A i \in 1 .. Len(list) : (list \o other)[i] = list[i]
         /\ \A i \in Len(list) + 1 .. Len(list) + Len(other) :
              (list \o other)[i] = other[i - Len(list)]
         /\ Ran(list \o other) = Ran(list) \cup Ran(other)
  <1> DEFINE S == Ran(list) \cup Ran(other)
             both == list \o other
  <1>1. list \in Seq(S) /\ other \in Seq(S)
    BY DEF IsList, Ran
  <1>2. both \in Seq(S) /\ Len(both) = Len(list) + Len(other)
    BY <1>1
  <1>3. /\ \A i \in 1 .. Len(list) : both[i] = list[i]
        /\ \A i \in Len(list) + 1 .. Len(list) + Len(other) : both[i] = other[i - Len(list)]
    BY <1>1
  <1>4. /\ DOMAIN both = 1 .. Len(list) + Len(other) /\ Len(list) \in Nat /\ Len(other) \in Nat
        /\ DOMAIN list = 1 .. Len(list) /\ DOMAIN other = 1 .. Len(other)
    BY <1>1, <1>2
  <1>5. both = [i \in DOMAIN both |-> both[i]]
    <2> HIDE DEF S, both
    <2> QED BY <1>2, SeqIs
  <1>6. IsList(both)
    <2> HIDE DEF S, both
    <2> QED BY <1>4, <1>5, ListMade
  <1>7. Ran(both) = Ran(list) \cup Ran(other)
    <2>1. ASSUME NEW y \in Ran(both) PROVE y \in Ran(list) \cup Ran(other)
      <3>1. PICK i \in 1 .. Len(list) + Len(other) : y = both[i]
        BY <1>4 DEF Ran
      <3>2. CASE i \in 1 .. Len(list)
        BY <3>1, <3>2, <1>3, <1>4 DEF Ran
      <3>3. CASE i \notin 1 .. Len(list)
        <4>1. i \in Len(list) + 1 .. Len(list) + Len(other) /\ i - Len(list) \in 1 .. Len(other)
          BY <3>1, <3>3, <1>4
        <4> QED BY <3>1, <4>1, <1>3, <1>4 DEF Ran
      <3> QED BY <3>2, <3>3
    <2>2. ASSUME NEW y \in Ran(list) PROVE y \in Ran(both)
      BY <1>3, <1>4 DEF Ran
    <2>3. ASSUME NEW y \in Ran(other) PROVE y \in Ran(both)
      <3>1. PICK j \in 1 .. Len(other) : y = other[j]
        BY <1>4 DEF Ran
      <3>2. Len(list) + j \in Len(list) + 1 .. Len(list) + Len(other) /\ (Len(list) + j) - Len(list) = j
        BY <1>4
      <3>3. both[Len(list) + j] = y /\ Len(list) + j \in DOMAIN both
        BY <3>1, <3>2, <1>3, <1>4
      <3> QED BY <3>3 DEF Ran
    <2> QED BY <2>1, <2>2, <2>3
  <1> QED BY <1>2, <1>3, <1>6, <1>7

(***************************************************************************)
(* What is read member by member.                                          *)
(***************************************************************************)
LEMMA ComputedIs == \A f : Computed(f) = f
  BY DEF Computed

LEMMA WholeGiven ==
  ASSUME NEW reads, NEW v \in Whole(reads)
  PROVE  /\ v = [x \in DOMAIN reads |-> v[x]]
         /\ \A x \in DOMAIN reads : v[x] \in reads[x]
  <1>1. v = [x \in DOMAIN reads |-> CHOOSE value \in reads[x] : TRUE]
    BY ComputedIs DEF Whole
  <1>2. \A x \in DOMAIN reads : reads[x] # {}
    BY DEF Whole
  <1> QED BY <1>1, <1>2

LEMMA WholeOf ==
  ASSUME NEW reads, NEW v, v = [x \in DOMAIN reads |-> v[x]],
         \A x \in DOMAIN reads : reads[x] = {v[x]}
  PROVE  Whole(reads) = {v}
  <1>1. \A x \in DOMAIN reads : reads[x] # {} /\ (CHOOSE value \in reads[x] : TRUE) = v[x]
    OBVIOUS
  <1>2. [x \in DOMAIN reads |-> CHOOSE value \in reads[x] : TRUE] = v
    BY <1>1
  <1> QED BY <1>1, <1>2, ComputedIs DEF Whole

LEMMA WholeNone ==
  ASSUME NEW reads, NEW x \in DOMAIN reads, reads[x] = {}
  PROVE  Whole(reads) = {}
  BY DEF Whole

(***************************************************************************)
(* Scalars, and when a field is written.                                   *)
(***************************************************************************)
Nested == {"list", "map", "table"}

SteadyLeaf(kind) ==
  kind.kind = "scalar" /\ kind.reader \in {"text"} \cup (Readers \ {"seed", "stod"})

LEMMA TakenAgain ==
  ASSUME NEW reader \in {"text"} \cup (Readers \ {"seed", "stod"}), NEW text,
         NEW v \in Take(reader, text)
  PROVE  Take(reader, Printed(reader, v)) = {v}
  <1>1. CASE reader = "text"
    BY <1>1 DEF Take, Printed
  <1>2. CASE reader # "text"
    <2>1. reader \notin {"text", "goal", "seed"}
      BY <1>2 DEF Readers, Names
    <2>2. text \in DOMAIN Taken[reader] /\ v = Taken[reader][text]
      BY <2>1 DEF Take
    <2>3. Take(reader, v) = {v}
      BY <2>2, <1>2, TextAssumption
    <2> QED BY <2>1, <2>3 DEF Printed
  <1> QED BY <1>1, <1>2

\* A value of a kind comes again if what is written for it is read as it,
\* whatever part it is in and whatever types are declared.
Again0(kind, v) == \A around, layer : ReadLeaf(kind, WriteLeaf(kind, v), around, layer) = {v}

LEMMA ScalarText ==
  \A text : /\ Scalar(text).node = "scalar"
            /\ HasText(Scalar(text)) /\ TextOf(Scalar(text)) = text
            /\ \A reader : Readable(reader, Scalar(text))
  BY DEF Scalar, TextOf, HasText, Readable

LEMMA ScalarRead ==
  ASSUME NEW kind, SteadyLeaf(kind), NEW text
  PROVE  \A around, layer : ReadLeaf(kind, Scalar(text), around, layer) = Take(kind.reader, text)
  BY ScalarText DEF ReadLeaf, SteadyLeaf

LEMMA LeafKeeps ==
  ASSUME NEW kind, SteadyLeaf(kind), NEW node, NEW around, NEW layer,
         NEW v \in ReadLeaf(kind, node, around, layer)
  PROVE  Again0(kind, v)
  <1>1. kind.kind = "scalar" /\ v \in Take(kind.reader, TextOf(node))
    BY DEF ReadLeaf, SteadyLeaf
  <1>2. Take(kind.reader, Printed(kind.reader, v)) = {v}
    BY <1>1, TakenAgain DEF SteadyLeaf
  <1>3. WriteLeaf(kind, v) = Scalar(Printed(kind.reader, v))
    BY <1>1 DEF WriteLeaf
  <1> QED BY <1>1, <1>2, <1>3, ScalarRead DEF Again0

\* A field is written always, if it is there, or if it is not empty.
LEMMA WrittenWhen ==
  ASSUME NEW field, NEW v
  PROVE  /\ field.written = "always" => IsWritten(field, v)
         /\ field.written = "given" => (IsWritten(field, v) <=> v # Nothing)
         /\ field.written = "filled" /\ field.kind.kind = "scalar" =>
              (IsWritten(field, v) <=> v # "")
         /\ field.written = "filled" /\ field.kind.kind # "scalar" =>
              (IsWritten(field, v) <=> DOMAIN v # {})
  BY Zenon DEF IsWritten

(***************************************************************************)
(* Level 1: lists, maps and parts whose members are read by ReadLeaf.      *)
(* Level n says of Read_n what it says of the level below; the statements  *)
(* are the same four times, since no prover takes an operator as a         *)
(* parameter of a lemma.                                                   *)
(***************************************************************************)
Field0(kind, node, around, layer) == ReadField(ReadLeaf, kind, node, around, layer)
FieldNode0(kind, v) == WriteField(WriteLeaf, kind, v)

Again1(kind, v) == \A around, layer : Read1(kind, Write1(kind, v), around, layer) = {v}

AgainField0(kind, v) ==
  \A around, layer : Field0(kind, FieldNode0(kind, v), around, layer) = {v}

\* A field's value comes again if, where it is not written, it is what the
\* missing key is read as.
HeldField0(field, v) ==
  IF IsWritten(field, v) THEN AgainField0(field.kind, v) ELSE field.missing = {v}

HeldPart0(kind, v) ==
  /\ kind.kind = "part"
  /\ v = [key \in DOMAIN kind.fields |-> v[key]]
  /\ \A key \in DOMAIN kind.fields : HeldField0(kind.fields[key], v[key])

\* Kinds whose values always come again.
SteadyKind0(kind) ==
  IF kind.kind \in Nested THEN SteadyLeaf(kind.of) ELSE SteadyLeaf(kind)

SteadyField0(field) ==
  /\ SteadyKind0(field.kind)
  /\ \/ /\ field.written = "always"
        /\ \A v \in field.missing : AgainField0(field.kind, v)
     \/ field.written = "given" /\ field.missing = {Nothing}
     \/ /\ field.written = "filled" /\ field.missing = {Empty(field.kind)}
        /\ field.kind.kind \in Nested \cup {"scalar"}

Steady1(kind) ==
  \/ SteadyLeaf(kind)
  \/ /\ kind.kind = "part"
     /\ \A key \in DOMAIN kind.fields : SteadyField0(kind.fields[key])

\* A list, item by item.
LEMMA ListGiven0 ==
  ASSUME NEW kind, kind.kind = "list", NEW node, NEW around, NEW layer,
         NEW v \in Field0(kind, node, around, layer)
  PROVE  /\ v = [i \in DOMAIN ItemsOf(node) |-> v[i]]
         /\ \A i \in DOMAIN ItemsOf(node) : v[i] \in ReadLeaf(kind.of, ItemsOf(node)[i], Null, layer)
  <1> DEFINE reads == [i \in DOMAIN ItemsOf(node) |-> ReadLeaf(kind.of, ItemsOf(node)[i], Null, layer)]
  <1>1. v \in Whole(reads)
    BY DEF Field0, ReadField, ReadList
  <1>2. v = [i \in DOMAIN reads |-> v[i]] /\ \A i \in DOMAIN reads : v[i] \in reads[i]
    <2> HIDE DEF reads
    <2> QED BY <1>1, WholeGiven
  <1> QED BY <1>2

LEMMA ListOfItems0 ==
  ASSUME NEW kind, kind.kind = "list", NEW v, NEW u, NEW around, NEW layer,
         u = [i \in DOMAIN v |-> u[i]],
         \A i \in DOMAIN v : ReadLeaf(kind.of, WriteLeaf(kind.of, v[i]), Null, layer) = {u[i]}
  PROVE  Field0(kind, FieldNode0(kind, v), around, layer) = {u}
  <1> DEFINE node == FieldNode0(kind, v)
             reads == [i \in DOMAIN ItemsOf(node) |-> ReadLeaf(kind.of, ItemsOf(node)[i], Null, layer)]
  <1>1. node.node = "sequence" /\ node.items = [i \in DOMAIN v |-> WriteLeaf(kind.of, v[i])]
    BY ComputedIs DEF FieldNode0, WriteField, Sequence
  <1>2. ItemsOf(node) = [i \in DOMAIN v |-> WriteLeaf(kind.of, v[i])]
    BY <1>1 DEF ItemsOf
  <1>3. reads = [i \in DOMAIN v |-> ReadLeaf(kind.of, WriteLeaf(kind.of, v[i]), Null, layer)]
    BY <1>2
  <1>4. DOMAIN reads = DOMAIN v /\ \A i \in DOMAIN v : reads[i] = {u[i]}
    BY <1>3
  <1>5. Field0(kind, node, around, layer) = Whole(reads)
    BY <1>1 DEF Field0, ReadField, ReadList
  <1>6. Whole(reads) = {u}
    <2> HIDE DEF reads
    <2> QED BY <1>4, WholeOf
  <1> QED BY <1>5, <1>6

LEMMA ListAgain0 ==
  ASSUME NEW kind, kind.kind = "list", NEW v, v = [i \in DOMAIN v |-> v[i]],
         \A i \in DOMAIN v : Again0(kind.of, v[i])
  PROVE  AgainField0(kind, v)
  <1> SUFFICES ASSUME NEW around, NEW layer
               PROVE  Field0(kind, FieldNode0(kind, v), around, layer) = {v}
    BY DEF AgainField0
  <1>1. \A i \in DOMAIN v : ReadLeaf(kind.of, WriteLeaf(kind.of, v[i]), Null, layer) = {v[i]}
    BY DEF Again0
  <1> QED BY <1>1, ListOfItems0

\* A map or a table, key by key.
LEMMA MapGiven0 ==
  ASSUME NEW kind, kind.kind \in {"map", "table"}, NEW node, NEW around, NEW layer,
         NEW v \in Field0(kind, node, around, layer), v # <<>>
  PROVE  /\ v = [key \in DOMAIN v |-> v[key]]
         /\ \A key \in DOMAIN v : v[key] \in ReadLeaf(kind.of, node.at[key], node, Null)
  <1> DEFINE reads == [key \in DOMAIN node.at |-> ReadLeaf(kind.of, node.at[key], node, Null)]
  <1>1. v \in Whole(reads)
    BY DEF Field0, ReadField, ReadMap
  <1>2. v = [i \in DOMAIN reads |-> v[i]] /\ \A i \in DOMAIN reads : v[i] \in reads[i]
    <2> HIDE DEF reads
    <2> QED BY <1>1, WholeGiven
  <1> QED BY <1>2

LEMMA MapAgain0 ==
  ASSUME NEW kind, kind.kind \in {"map", "table"}, NEW v, v = [key \in DOMAIN v |-> v[key]],
         \A key \in DOMAIN v : Again0(kind.of, v[key])
  PROVE  AgainField0(kind, v)
  <1> SUFFICES ASSUME NEW around, NEW layer
               PROVE  Field0(kind, FieldNode0(kind, v), around, layer) = {v}
    BY DEF AgainField0
  <1> DEFINE node == FieldNode0(kind, v)
             reads == [key \in DOMAIN node.at |-> ReadLeaf(kind.of, node.at[key], node, Null)]
  <1>1. node.node = "map" /\ node.at = [key \in DOMAIN v |-> WriteLeaf(kind.of, v[key])]
    BY ComputedIs DEF FieldNode0, WriteField, Map
  <1>2. DOMAIN reads = DOMAIN v /\ \A key \in DOMAIN v : reads[key] = {v[key]}
    BY <1>1 DEF Again0
  <1>3. Field0(kind, node, around, layer) = Whole(reads)
    BY <1>1 DEF Field0, ReadField, ReadMap
  <1>4. Whole(reads) = {v}
    <2> HIDE DEF reads
    <2> QED BY <1>2, WholeOf
  <1> QED BY <1>3, <1>4

LEMMA EmptyAgain0 ==
  ASSUME NEW kind, kind.kind \in Nested, NEW v, v = <<>>
  PROVE  AgainField0(kind, v)
  <1>1. v = [x \in DOMAIN v |-> v[x]] /\ DOMAIN v = {}
    OBVIOUS
  <1>2. CASE kind.kind = "list"
    BY <1>1, <1>2, ListAgain0
  <1>3. CASE kind.kind \in {"map", "table"}
    <2>1. v = [key \in DOMAIN v |-> v[key]] /\ \A key \in DOMAIN v : Again0(kind.of, v[key])
      BY <1>1
    <2>2. ASSUME NEW w, w = [key \in DOMAIN w |-> w[key]],
                 \A key \in DOMAIN w : Again0(kind.of, w[key])
          PROVE  AgainField0(kind, w)
      BY <1>3, <2>2, MapAgain0
    <2> QED BY <2>1, <2>2
  <1> QED BY <1>2, <1>3 DEF Nested

\* Neither a list nor a map.
LEMMA PlainField0 ==
  ASSUME NEW kind, kind.kind \notin Nested
  PROVE  /\ \A node, around, layer :
              Field0(kind, node, around, layer) = ReadLeaf(kind, node, around, layer)
         /\ \A v : FieldNode0(kind, v) = WriteLeaf(kind, v)
  <1>1. kind.kind # "list" /\ kind.kind # "map" /\ kind.kind # "table"
    BY DEF Nested
  <1>2. kind.kind \notin {"map", "table"}
    BY <1>1
  <1> QED BY <1>1, <1>2, Zenon DEF Field0, FieldNode0, ReadField, WriteField

LEMMA FieldKeeps0 ==
  ASSUME NEW kind, SteadyKind0(kind), NEW node, NEW around, NEW layer,
         NEW v \in Field0(kind, node, around, layer)
  PROVE  /\ AgainField0(kind, v)
         /\ kind.kind \in Nested => v = [x \in DOMAIN v |-> v[x]]
  <1>1. CASE kind.kind = "list"
    <2>1. /\ v = [i \in DOMAIN ItemsOf(node) |-> v[i]]
          /\ \A i \in DOMAIN ItemsOf(node) : v[i] \in ReadLeaf(kind.of, ItemsOf(node)[i], Null, layer)
      BY <1>1, ListGiven0
    <2>2. DOMAIN v = DOMAIN ItemsOf(node)
      BY <2>1
    <2>3. SteadyLeaf(kind.of)
      BY <1>1 DEF SteadyKind0, Nested
    <2>4. \A i \in DOMAIN v : Again0(kind.of, v[i])
      BY <2>1, <2>2, <2>3, LeafKeeps
    <2> QED BY <1>1, <2>1, <2>2, <2>4, ListAgain0
  <1>2. CASE kind.kind \in {"map", "table"} /\ v # <<>>
    <2>1. /\ v = [key \in DOMAIN v |-> v[key]]
          /\ \A key \in DOMAIN v : v[key] \in ReadLeaf(kind.of, node.at[key], node, Null)
      BY <1>2, MapGiven0
    <2>2. SteadyLeaf(kind.of)
      BY <1>2 DEF SteadyKind0, Nested
    <2>3. \A key \in DOMAIN v : Again0(kind.of, v[key])
      BY <2>1, <2>2, LeafKeeps
    <2> QED BY <1>2, <2>1, <2>3, MapAgain0
  <1>3. CASE kind.kind \in {"map", "table"} /\ v = <<>>
    BY <1>3, EmptyAgain0 DEF Nested
  <1>4. CASE kind.kind \notin Nested
    <2>1. v \in ReadLeaf(kind, node, around, layer)
      BY <1>4, PlainField0
    <2>2. Again0(kind, v)
      BY <1>4, <2>1, LeafKeeps DEF SteadyKind0
    <2> QED BY <1>4, <2>2, PlainField0 DEF AgainField0, Again0
  <1> QED BY <1>1, <1>2, <1>3, <1>4 DEF Nested

LEMMA PlainPart1 ==
  ASSUME NEW kind, kind.kind # "part"
  PROVE  /\ \A node, around, layer :
              Read1(kind, node, around, layer) = ReadLeaf(kind, node, around, layer)
         /\ \A v : Write1(kind, v) = WriteLeaf(kind, v)
  BY Zenon DEF Read1, Write1, ReadPart, WritePart

\* A part, field by field.
LEMMA PartGiven1 ==
  ASSUME NEW kind, kind.kind = "part", NEW node, NEW around, NEW layer,
         NEW v \in Read1(kind, node, around, layer)
  PROVE  /\ node.node = "map" /\ DOMAIN node.at \subseteq DOMAIN kind.fields
         /\ v = [key \in DOMAIN kind.fields |-> v[key]]
         /\ \A key \in DOMAIN kind.fields :
              v[key] \in IF key \in DOMAIN node.at
                         THEN Field0(kind.fields[key].kind, node.at[key], node, layer)
                         ELSE kind.fields[key].missing
  <1> DEFINE reads == [key \in DOMAIN kind.fields |->
                         IF key \in DOMAIN node.at
                         THEN Field0(kind.fields[key].kind, node.at[key], node, layer)
                         ELSE kind.fields[key].missing]
  <1>1. v \in Whole(reads) /\ node.node = "map" /\ DOMAIN node.at \subseteq DOMAIN kind.fields
    BY DEF Read1, ReadPart, Field0
  <1>2. v = [key \in DOMAIN reads |-> v[key]] /\ \A key \in DOMAIN reads : v[key] \in reads[key]
    <2> HIDE DEF reads
    <2> QED BY <1>1, WholeGiven
  <1> QED BY <1>1, <1>2

LEMMA PartWritten1 ==
  ASSUME NEW kind, kind.kind = "part", NEW v
  PROVE  /\ Write1(kind, v).node = "map"
         /\ DOMAIN Write1(kind, v).at = {k \in DOMAIN kind.fields : IsWritten(kind.fields[k], v[k])}
         /\ \A key \in DOMAIN Write1(kind, v).at :
              Write1(kind, v).at[key] = FieldNode0(kind.fields[key].kind, v[key])
  <1>1. Write1(kind, v).at = [key \in {k \in DOMAIN kind.fields : IsWritten(kind.fields[k], v[k])} |->
                              FieldNode0(kind.fields[key].kind, v[key])]
    BY ComputedIs DEF Write1, WritePart, Map, FieldNode0
  <1>2. Write1(kind, v).node = "map"
    BY DEF Write1, WritePart, Map, FieldNode0
  <1> QED BY <1>1, <1>2

LEMMA PartOfFields1 ==
  ASSUME NEW kind, kind.kind = "part", NEW v, NEW u, NEW around, NEW layer,
         u = [key \in DOMAIN kind.fields |-> u[key]],
         \A key \in DOMAIN kind.fields :
           IF IsWritten(kind.fields[key], v[key])
           THEN Field0(kind.fields[key].kind, FieldNode0(kind.fields[key].kind, v[key]),
                          Write1(kind, v), layer) = {u[key]}
           ELSE kind.fields[key].missing = {u[key]}
  PROVE  Read1(kind, Write1(kind, v), around, layer) = {u}
  <1> DEFINE node == Write1(kind, v)
             reads == [key \in DOMAIN kind.fields |->
                        IF key \in DOMAIN node.at
                        THEN Field0(kind.fields[key].kind, node.at[key], node, layer)
                        ELSE kind.fields[key].missing]
  <1>1. /\ node.node = "map"
        /\ DOMAIN node.at = {k \in DOMAIN kind.fields : IsWritten(kind.fields[k], v[k])}
        /\ \A key \in DOMAIN node.at :
             node.at[key] = FieldNode0(kind.fields[key].kind, v[key])
    BY PartWritten1
  <1>2. DOMAIN reads = DOMAIN kind.fields /\ \A key \in DOMAIN kind.fields : reads[key] = {u[key]}
    BY <1>1
  <1>3. Read1(kind, node, around, layer) = Whole(reads)
    BY <1>1 DEF Read1, ReadPart, Field0
  <1>4. Whole(reads) = {u}
    <2> HIDE DEF reads
    <2> QED BY <1>2, WholeOf
  <1> QED BY <1>3, <1>4

LEMMA PartAgain1 ==
  ASSUME NEW kind, NEW v, HeldPart0(kind, v)
  PROVE  Again1(kind, v)
  <1> SUFFICES ASSUME NEW around, NEW layer
               PROVE  Read1(kind, Write1(kind, v), around, layer) = {v}
    BY DEF Again1
  <1>1. \A key \in DOMAIN kind.fields :
          IF IsWritten(kind.fields[key], v[key])
          THEN Field0(kind.fields[key].kind, FieldNode0(kind.fields[key].kind, v[key]),
                         Write1(kind, v), layer) = {v[key]}
          ELSE kind.fields[key].missing = {v[key]}
    BY DEF HeldPart0, HeldField0, AgainField0
  <1>2. kind.kind = "part" /\ v = [key \in DOMAIN kind.fields |-> v[key]]
    BY DEF HeldPart0
  <1> QED BY <1>1, <1>2, PartOfFields1

LEMMA FieldHeld0 ==
  ASSUME NEW field, SteadyField0(field), NEW node, NEW around, NEW layer, NEW v,
         v \in field.missing \/ v \in Field0(field.kind, node, around, layer)
  PROVE  HeldField0(field, v)
  <1>1. CASE v \in Field0(field.kind, node, around, layer)
    <2>1. /\ AgainField0(field.kind, v)
          /\ field.kind.kind \in Nested => v = [x \in DOMAIN v |-> v[x]]
      BY <1>1, FieldKeeps0 DEF SteadyField0
    <2>2. ASSUME ~IsWritten(field, v) PROVE field.missing = {v}
      <3>1. field.written # "always"
        BY <2>2, WrittenWhen
      <3>2. CASE field.written = "given"
        BY <2>2, <3>2, WrittenWhen DEF SteadyField0
      <3>3. CASE field.written = "filled" /\ field.kind.kind = "scalar"
        BY <2>2, <3>3, WrittenWhen DEF SteadyField0, Empty
      <3>4. CASE field.written = "filled" /\ field.kind.kind \in Nested
        <4>1. field.kind.kind # "scalar" /\ v = [x \in DOMAIN v |-> v[x]]
          BY <2>1, <3>4 DEF Nested
        <4>2. DOMAIN v = {}
          BY <2>2, <3>4, <4>1, WrittenWhen
        <4>3. v = <<>>
          BY <4>1, <4>2
        <4> QED BY <3>4, <4>1, <4>3 DEF SteadyField0, Empty
      <3> QED BY <3>1, <3>2, <3>3, <3>4 DEF SteadyField0
    <2> QED BY <2>1, <2>2 DEF HeldField0
  <1>2. CASE v \in field.missing
    <2>1. CASE field.written = "always"
      BY <1>2, <2>1, WrittenWhen DEF SteadyField0, HeldField0
    <2>2. CASE field.written = "given"
      <3>1. v = Nothing /\ field.missing = {v}
        BY <1>2, <2>2 DEF SteadyField0
      <3>2. ~IsWritten(field, v)
        BY <2>2, <3>1, WrittenWhen
      <3> QED BY <3>1, <3>2 DEF HeldField0
    <2>3. CASE field.written = "filled" /\ field.kind.kind \in Nested \cup {"scalar"}
      <3>1. v = Empty(field.kind) /\ field.missing = {v}
        BY <1>2, <2>3 DEF SteadyField0
      <3>2. CASE field.kind.kind = "scalar"
        BY <2>3, <3>1, <3>2, WrittenWhen DEF HeldField0, Empty
      <3>3. CASE field.kind.kind \in Nested
        <4>1. v = <<>> /\ field.kind.kind # "scalar"
          BY <3>1, <3>3 DEF Empty, Nested
        <4>2. DOMAIN v = {}
          BY <4>1
        <4> QED BY <2>3, <3>1, <4>1, <4>2, WrittenWhen DEF HeldField0
      <3> QED BY <2>3, <3>2, <3>3
    <2> QED BY <2>1, <2>2, <2>3 DEF SteadyField0
  <1> QED BY <1>1, <1>2

LEMMA PartHeld1 ==
  ASSUME NEW kind, Steady1(kind), kind.kind = "part", NEW node, NEW around, NEW layer,
         NEW v \in Read1(kind, node, around, layer)
  PROVE  HeldPart0(kind, v)
  <1>1. /\ v = [key \in DOMAIN kind.fields |-> v[key]]
        /\ \A key \in DOMAIN kind.fields :
             v[key] \in IF key \in DOMAIN node.at
                        THEN Field0(kind.fields[key].kind, node.at[key], node, layer)
                        ELSE kind.fields[key].missing
    BY PartGiven1
  <1>2. ASSUME NEW key \in DOMAIN kind.fields
        PROVE  HeldField0(kind.fields[key], v[key])
    <2>1. SteadyField0(kind.fields[key])
      BY DEF Steady1, SteadyField0, SteadyLeaf
    <2> QED BY <1>1, <2>1, FieldHeld0
  <1> QED BY <1>1, <1>2 DEF HeldPart0

LEMMA PartKeeps1 ==
  ASSUME NEW kind, Steady1(kind), NEW node, NEW around, NEW layer,
         NEW v \in Read1(kind, node, around, layer)
  PROVE  Again1(kind, v)
  <1>1. CASE kind.kind = "part"
    BY <1>1, PartHeld1, PartAgain1
  <1>2. CASE kind.kind # "part"
    <2>1. SteadyLeaf(kind)
      BY <1>2 DEF Steady1
    <2>2. v \in ReadLeaf(kind, node, around, layer)
      BY <1>2, PlainPart1
    <2>3. Again0(kind, v)
      BY <2>1, <2>2, LeafKeeps
    <2> QED BY <1>2, <2>3, PlainPart1 DEF Again1, Again0
  <1> QED BY <1>1, <1>2

(***************************************************************************)
(* Level 2: lists, maps and parts whose members are read by Read1.         *)
(***************************************************************************)
Field1(kind, node, around, layer) == ReadField(Read1, kind, node, around, layer)
FieldNode1(kind, v) == WriteField(Write1, kind, v)

Again2(kind, v) == \A around, layer : Read2(kind, Write2(kind, v), around, layer) = {v}

AgainField1(kind, v) ==
  \A around, layer : Field1(kind, FieldNode1(kind, v), around, layer) = {v}

\* A field's value comes again if, where it is not written, it is what the
\* missing key is read as.
HeldField1(field, v) ==
  IF IsWritten(field, v) THEN AgainField1(field.kind, v) ELSE field.missing = {v}

HeldPart1(kind, v) ==
  /\ kind.kind = "part"
  /\ v = [key \in DOMAIN kind.fields |-> v[key]]
  /\ \A key \in DOMAIN kind.fields : HeldField1(kind.fields[key], v[key])

\* Kinds whose values always come again.
SteadyKind1(kind) ==
  IF kind.kind \in Nested THEN Steady1(kind.of) ELSE Steady1(kind)

SteadyField1(field) ==
  /\ SteadyKind1(field.kind)
  /\ \/ /\ field.written = "always"
        /\ \A v \in field.missing : AgainField1(field.kind, v)
     \/ field.written = "given" /\ field.missing = {Nothing}
     \/ /\ field.written = "filled" /\ field.missing = {Empty(field.kind)}
        /\ field.kind.kind \in Nested \cup {"scalar"}

Steady2(kind) ==
  \/ SteadyLeaf(kind)
  \/ /\ kind.kind = "part"
     /\ \A key \in DOMAIN kind.fields : SteadyField1(kind.fields[key])

\* A list, item by item.
LEMMA ListGiven1 ==
  ASSUME NEW kind, kind.kind = "list", NEW node, NEW around, NEW layer,
         NEW v \in Field1(kind, node, around, layer)
  PROVE  /\ v = [i \in DOMAIN ItemsOf(node) |-> v[i]]
         /\ \A i \in DOMAIN ItemsOf(node) : v[i] \in Read1(kind.of, ItemsOf(node)[i], Null, layer)
  <1> DEFINE reads == [i \in DOMAIN ItemsOf(node) |-> Read1(kind.of, ItemsOf(node)[i], Null, layer)]
  <1>1. v \in Whole(reads)
    BY DEF Field1, ReadField, ReadList
  <1>2. v = [i \in DOMAIN reads |-> v[i]] /\ \A i \in DOMAIN reads : v[i] \in reads[i]
    <2> HIDE DEF reads
    <2> QED BY <1>1, WholeGiven
  <1> QED BY <1>2

LEMMA ListOfItems1 ==
  ASSUME NEW kind, kind.kind = "list", NEW v, NEW u, NEW around, NEW layer,
         u = [i \in DOMAIN v |-> u[i]],
         \A i \in DOMAIN v : Read1(kind.of, Write1(kind.of, v[i]), Null, layer) = {u[i]}
  PROVE  Field1(kind, FieldNode1(kind, v), around, layer) = {u}
  <1> DEFINE node == FieldNode1(kind, v)
             reads == [i \in DOMAIN ItemsOf(node) |-> Read1(kind.of, ItemsOf(node)[i], Null, layer)]
  <1>1. node.node = "sequence" /\ node.items = [i \in DOMAIN v |-> Write1(kind.of, v[i])]
    BY ComputedIs DEF FieldNode1, WriteField, Sequence
  <1>2. ItemsOf(node) = [i \in DOMAIN v |-> Write1(kind.of, v[i])]
    BY <1>1 DEF ItemsOf
  <1>3. reads = [i \in DOMAIN v |-> Read1(kind.of, Write1(kind.of, v[i]), Null, layer)]
    BY <1>2
  <1>4. DOMAIN reads = DOMAIN v /\ \A i \in DOMAIN v : reads[i] = {u[i]}
    BY <1>3
  <1>5. Field1(kind, node, around, layer) = Whole(reads)
    BY <1>1 DEF Field1, ReadField, ReadList
  <1>6. Whole(reads) = {u}
    <2> HIDE DEF reads
    <2> QED BY <1>4, WholeOf
  <1> QED BY <1>5, <1>6

LEMMA ListAgain1 ==
  ASSUME NEW kind, kind.kind = "list", NEW v, v = [i \in DOMAIN v |-> v[i]],
         \A i \in DOMAIN v : Again1(kind.of, v[i])
  PROVE  AgainField1(kind, v)
  <1> SUFFICES ASSUME NEW around, NEW layer
               PROVE  Field1(kind, FieldNode1(kind, v), around, layer) = {v}
    BY DEF AgainField1
  <1>1. \A i \in DOMAIN v : Read1(kind.of, Write1(kind.of, v[i]), Null, layer) = {v[i]}
    BY DEF Again1
  <1> QED BY <1>1, ListOfItems1

\* A map or a table, key by key.
LEMMA MapGiven1 ==
  ASSUME NEW kind, kind.kind \in {"map", "table"}, NEW node, NEW around, NEW layer,
         NEW v \in Field1(kind, node, around, layer), v # <<>>
  PROVE  /\ v = [key \in DOMAIN v |-> v[key]]
         /\ \A key \in DOMAIN v : v[key] \in Read1(kind.of, node.at[key], node, Null)
  <1> DEFINE reads == [key \in DOMAIN node.at |-> Read1(kind.of, node.at[key], node, Null)]
  <1>1. v \in Whole(reads)
    BY DEF Field1, ReadField, ReadMap
  <1>2. v = [i \in DOMAIN reads |-> v[i]] /\ \A i \in DOMAIN reads : v[i] \in reads[i]
    <2> HIDE DEF reads
    <2> QED BY <1>1, WholeGiven
  <1> QED BY <1>2

LEMMA MapAgain1 ==
  ASSUME NEW kind, kind.kind \in {"map", "table"}, NEW v, v = [key \in DOMAIN v |-> v[key]],
         \A key \in DOMAIN v : Again1(kind.of, v[key])
  PROVE  AgainField1(kind, v)
  <1> SUFFICES ASSUME NEW around, NEW layer
               PROVE  Field1(kind, FieldNode1(kind, v), around, layer) = {v}
    BY DEF AgainField1
  <1> DEFINE node == FieldNode1(kind, v)
             reads == [key \in DOMAIN node.at |-> Read1(kind.of, node.at[key], node, Null)]
  <1>1. node.node = "map" /\ node.at = [key \in DOMAIN v |-> Write1(kind.of, v[key])]
    BY ComputedIs DEF FieldNode1, WriteField, Map
  <1>2. DOMAIN reads = DOMAIN v /\ \A key \in DOMAIN v : reads[key] = {v[key]}
    BY <1>1 DEF Again1
  <1>3. Field1(kind, node, around, layer) = Whole(reads)
    BY <1>1 DEF Field1, ReadField, ReadMap
  <1>4. Whole(reads) = {v}
    <2> HIDE DEF reads
    <2> QED BY <1>2, WholeOf
  <1> QED BY <1>3, <1>4

LEMMA EmptyAgain1 ==
  ASSUME NEW kind, kind.kind \in Nested, NEW v, v = <<>>
  PROVE  AgainField1(kind, v)
  <1>1. v = [x \in DOMAIN v |-> v[x]] /\ DOMAIN v = {}
    OBVIOUS
  <1>2. CASE kind.kind = "list"
    BY <1>1, <1>2, ListAgain1
  <1>3. CASE kind.kind \in {"map", "table"}
    <2>1. v = [key \in DOMAIN v |-> v[key]] /\ \A key \in DOMAIN v : Again1(kind.of, v[key])
      BY <1>1
    <2>2. ASSUME NEW w, w = [key \in DOMAIN w |-> w[key]],
                 \A key \in DOMAIN w : Again1(kind.of, w[key])
          PROVE  AgainField1(kind, w)
      BY <1>3, <2>2, MapAgain1
    <2> QED BY <2>1, <2>2
  <1> QED BY <1>2, <1>3 DEF Nested

\* Neither a list nor a map.
LEMMA PlainField1 ==
  ASSUME NEW kind, kind.kind \notin Nested
  PROVE  /\ \A node, around, layer :
              Field1(kind, node, around, layer) = Read1(kind, node, around, layer)
         /\ \A v : FieldNode1(kind, v) = Write1(kind, v)
  <1>1. kind.kind # "list" /\ kind.kind # "map" /\ kind.kind # "table"
    BY DEF Nested
  <1>2. kind.kind \notin {"map", "table"}
    BY <1>1
  <1> QED BY <1>1, <1>2, Zenon DEF Field1, FieldNode1, ReadField, WriteField

LEMMA FieldKeeps1 ==
  ASSUME NEW kind, SteadyKind1(kind), NEW node, NEW around, NEW layer,
         NEW v \in Field1(kind, node, around, layer)
  PROVE  /\ AgainField1(kind, v)
         /\ kind.kind \in Nested => v = [x \in DOMAIN v |-> v[x]]
  <1>1. CASE kind.kind = "list"
    <2>1. /\ v = [i \in DOMAIN ItemsOf(node) |-> v[i]]
          /\ \A i \in DOMAIN ItemsOf(node) : v[i] \in Read1(kind.of, ItemsOf(node)[i], Null, layer)
      BY <1>1, ListGiven1
    <2>2. DOMAIN v = DOMAIN ItemsOf(node)
      BY <2>1
    <2>3. Steady1(kind.of)
      BY <1>1 DEF SteadyKind1, Nested
    <2>4. \A i \in DOMAIN v : Again1(kind.of, v[i])
      BY <2>1, <2>2, <2>3, PartKeeps1
    <2> QED BY <1>1, <2>1, <2>2, <2>4, ListAgain1
  <1>2. CASE kind.kind \in {"map", "table"} /\ v # <<>>
    <2>1. /\ v = [key \in DOMAIN v |-> v[key]]
          /\ \A key \in DOMAIN v : v[key] \in Read1(kind.of, node.at[key], node, Null)
      BY <1>2, MapGiven1
    <2>2. Steady1(kind.of)
      BY <1>2 DEF SteadyKind1, Nested
    <2>3. \A key \in DOMAIN v : Again1(kind.of, v[key])
      BY <2>1, <2>2, PartKeeps1
    <2> QED BY <1>2, <2>1, <2>3, MapAgain1
  <1>3. CASE kind.kind \in {"map", "table"} /\ v = <<>>
    BY <1>3, EmptyAgain1 DEF Nested
  <1>4. CASE kind.kind \notin Nested
    <2>1. v \in Read1(kind, node, around, layer)
      BY <1>4, PlainField1
    <2>2. Again1(kind, v)
      BY <1>4, <2>1, PartKeeps1 DEF SteadyKind1
    <2> QED BY <1>4, <2>2, PlainField1 DEF AgainField1, Again1
  <1> QED BY <1>1, <1>2, <1>3, <1>4 DEF Nested

LEMMA PlainPart2 ==
  ASSUME NEW kind, kind.kind # "part"
  PROVE  /\ \A node, around, layer :
              Read2(kind, node, around, layer) = ReadLeaf(kind, node, around, layer)
         /\ \A v : Write2(kind, v) = WriteLeaf(kind, v)
  BY Zenon DEF Read2, Write2, ReadPart, WritePart

\* A part, field by field.
LEMMA PartGiven2 ==
  ASSUME NEW kind, kind.kind = "part", NEW node, NEW around, NEW layer,
         NEW v \in Read2(kind, node, around, layer)
  PROVE  /\ node.node = "map" /\ DOMAIN node.at \subseteq DOMAIN kind.fields
         /\ v = [key \in DOMAIN kind.fields |-> v[key]]
         /\ \A key \in DOMAIN kind.fields :
              v[key] \in IF key \in DOMAIN node.at
                         THEN Field1(kind.fields[key].kind, node.at[key], node, layer)
                         ELSE kind.fields[key].missing
  <1> DEFINE reads == [key \in DOMAIN kind.fields |->
                         IF key \in DOMAIN node.at
                         THEN Field1(kind.fields[key].kind, node.at[key], node, layer)
                         ELSE kind.fields[key].missing]
  <1>1. v \in Whole(reads) /\ node.node = "map" /\ DOMAIN node.at \subseteq DOMAIN kind.fields
    BY DEF Read2, ReadPart, Field1
  <1>2. v = [key \in DOMAIN reads |-> v[key]] /\ \A key \in DOMAIN reads : v[key] \in reads[key]
    <2> HIDE DEF reads
    <2> QED BY <1>1, WholeGiven
  <1> QED BY <1>1, <1>2

LEMMA PartWritten2 ==
  ASSUME NEW kind, kind.kind = "part", NEW v
  PROVE  /\ Write2(kind, v).node = "map"
         /\ DOMAIN Write2(kind, v).at = {k \in DOMAIN kind.fields : IsWritten(kind.fields[k], v[k])}
         /\ \A key \in DOMAIN Write2(kind, v).at :
              Write2(kind, v).at[key] = FieldNode1(kind.fields[key].kind, v[key])
  <1>1. Write2(kind, v).at = [key \in {k \in DOMAIN kind.fields : IsWritten(kind.fields[k], v[k])} |->
                              FieldNode1(kind.fields[key].kind, v[key])]
    BY ComputedIs DEF Write2, WritePart, Map, FieldNode1
  <1>2. Write2(kind, v).node = "map"
    BY DEF Write2, WritePart, Map, FieldNode1
  <1> QED BY <1>1, <1>2

LEMMA PartOfFields2 ==
  ASSUME NEW kind, kind.kind = "part", NEW v, NEW u, NEW around, NEW layer,
         u = [key \in DOMAIN kind.fields |-> u[key]],
         \A key \in DOMAIN kind.fields :
           IF IsWritten(kind.fields[key], v[key])
           THEN Field1(kind.fields[key].kind, FieldNode1(kind.fields[key].kind, v[key]),
                          Write2(kind, v), layer) = {u[key]}
           ELSE kind.fields[key].missing = {u[key]}
  PROVE  Read2(kind, Write2(kind, v), around, layer) = {u}
  <1> DEFINE node == Write2(kind, v)
             reads == [key \in DOMAIN kind.fields |->
                        IF key \in DOMAIN node.at
                        THEN Field1(kind.fields[key].kind, node.at[key], node, layer)
                        ELSE kind.fields[key].missing]
  <1>1. /\ node.node = "map"
        /\ DOMAIN node.at = {k \in DOMAIN kind.fields : IsWritten(kind.fields[k], v[k])}
        /\ \A key \in DOMAIN node.at :
             node.at[key] = FieldNode1(kind.fields[key].kind, v[key])
    BY PartWritten2
  <1>2. DOMAIN reads = DOMAIN kind.fields /\ \A key \in DOMAIN kind.fields : reads[key] = {u[key]}
    BY <1>1
  <1>3. Read2(kind, node, around, layer) = Whole(reads)
    BY <1>1 DEF Read2, ReadPart, Field1
  <1>4. Whole(reads) = {u}
    <2> HIDE DEF reads
    <2> QED BY <1>2, WholeOf
  <1> QED BY <1>3, <1>4

LEMMA PartAgain2 ==
  ASSUME NEW kind, NEW v, HeldPart1(kind, v)
  PROVE  Again2(kind, v)
  <1> SUFFICES ASSUME NEW around, NEW layer
               PROVE  Read2(kind, Write2(kind, v), around, layer) = {v}
    BY DEF Again2
  <1>1. \A key \in DOMAIN kind.fields :
          IF IsWritten(kind.fields[key], v[key])
          THEN Field1(kind.fields[key].kind, FieldNode1(kind.fields[key].kind, v[key]),
                         Write2(kind, v), layer) = {v[key]}
          ELSE kind.fields[key].missing = {v[key]}
    BY DEF HeldPart1, HeldField1, AgainField1
  <1>2. kind.kind = "part" /\ v = [key \in DOMAIN kind.fields |-> v[key]]
    BY DEF HeldPart1
  <1> QED BY <1>1, <1>2, PartOfFields2

LEMMA FieldHeld1 ==
  ASSUME NEW field, SteadyField1(field), NEW node, NEW around, NEW layer, NEW v,
         v \in field.missing \/ v \in Field1(field.kind, node, around, layer)
  PROVE  HeldField1(field, v)
  <1>1. CASE v \in Field1(field.kind, node, around, layer)
    <2>1. /\ AgainField1(field.kind, v)
          /\ field.kind.kind \in Nested => v = [x \in DOMAIN v |-> v[x]]
      BY <1>1, FieldKeeps1 DEF SteadyField1
    <2>2. ASSUME ~IsWritten(field, v) PROVE field.missing = {v}
      <3>1. field.written # "always"
        BY <2>2, WrittenWhen
      <3>2. CASE field.written = "given"
        BY <2>2, <3>2, WrittenWhen DEF SteadyField1
      <3>3. CASE field.written = "filled" /\ field.kind.kind = "scalar"
        BY <2>2, <3>3, WrittenWhen DEF SteadyField1, Empty
      <3>4. CASE field.written = "filled" /\ field.kind.kind \in Nested
        <4>1. field.kind.kind # "scalar" /\ v = [x \in DOMAIN v |-> v[x]]
          BY <2>1, <3>4 DEF Nested
        <4>2. DOMAIN v = {}
          BY <2>2, <3>4, <4>1, WrittenWhen
        <4>3. v = <<>>
          BY <4>1, <4>2
        <4> QED BY <3>4, <4>1, <4>3 DEF SteadyField1, Empty
      <3> QED BY <3>1, <3>2, <3>3, <3>4 DEF SteadyField1
    <2> QED BY <2>1, <2>2 DEF HeldField1
  <1>2. CASE v \in field.missing
    <2>1. CASE field.written = "always"
      BY <1>2, <2>1, WrittenWhen DEF SteadyField1, HeldField1
    <2>2. CASE field.written = "given"
      <3>1. v = Nothing /\ field.missing = {v}
        BY <1>2, <2>2 DEF SteadyField1
      <3>2. ~IsWritten(field, v)
        BY <2>2, <3>1, WrittenWhen
      <3> QED BY <3>1, <3>2 DEF HeldField1
    <2>3. CASE field.written = "filled" /\ field.kind.kind \in Nested \cup {"scalar"}
      <3>1. v = Empty(field.kind) /\ field.missing = {v}
        BY <1>2, <2>3 DEF SteadyField1
      <3>2. CASE field.kind.kind = "scalar"
        BY <2>3, <3>1, <3>2, WrittenWhen DEF HeldField1, Empty
      <3>3. CASE field.kind.kind \in Nested
        <4>1. v = <<>> /\ field.kind.kind # "scalar"
          BY <3>1, <3>3 DEF Empty, Nested
        <4>2. DOMAIN v = {}
          BY <4>1
        <4> QED BY <2>3, <3>1, <4>1, <4>2, WrittenWhen DEF HeldField1
      <3> QED BY <2>3, <3>2, <3>3
    <2> QED BY <2>1, <2>2, <2>3 DEF SteadyField1
  <1> QED BY <1>1, <1>2

LEMMA PartHeld2 ==
  ASSUME NEW kind, Steady2(kind), kind.kind = "part", NEW node, NEW around, NEW layer,
         NEW v \in Read2(kind, node, around, layer)
  PROVE  HeldPart1(kind, v)
  <1>1. /\ v = [key \in DOMAIN kind.fields |-> v[key]]
        /\ \A key \in DOMAIN kind.fields :
             v[key] \in IF key \in DOMAIN node.at
                        THEN Field1(kind.fields[key].kind, node.at[key], node, layer)
                        ELSE kind.fields[key].missing
    BY PartGiven2
  <1>2. ASSUME NEW key \in DOMAIN kind.fields
        PROVE  HeldField1(kind.fields[key], v[key])
    <2>1. SteadyField1(kind.fields[key])
      BY DEF Steady2, SteadyField1, SteadyLeaf
    <2> QED BY <1>1, <2>1, FieldHeld1
  <1> QED BY <1>1, <1>2 DEF HeldPart1

LEMMA PartKeeps2 ==
  ASSUME NEW kind, Steady2(kind), NEW node, NEW around, NEW layer,
         NEW v \in Read2(kind, node, around, layer)
  PROVE  Again2(kind, v)
  <1>1. CASE kind.kind = "part"
    BY <1>1, PartHeld2, PartAgain2
  <1>2. CASE kind.kind # "part"
    <2>1. SteadyLeaf(kind)
      BY <1>2 DEF Steady2
    <2>2. v \in ReadLeaf(kind, node, around, layer)
      BY <1>2, PlainPart2
    <2>3. Again0(kind, v)
      BY <2>1, <2>2, LeafKeeps
    <2> QED BY <1>2, <2>3, PlainPart2 DEF Again2, Again0
  <1> QED BY <1>1, <1>2

(***************************************************************************)
(* Level 3: lists, maps and parts whose members are read by Read2.         *)
(***************************************************************************)
Field2(kind, node, around, layer) == ReadField(Read2, kind, node, around, layer)
FieldNode2(kind, v) == WriteField(Write2, kind, v)

Again3(kind, v) == \A around, layer : Read3(kind, Write3(kind, v), around, layer) = {v}

AgainField2(kind, v) ==
  \A around, layer : Field2(kind, FieldNode2(kind, v), around, layer) = {v}

\* A field's value comes again if, where it is not written, it is what the
\* missing key is read as.
HeldField2(field, v) ==
  IF IsWritten(field, v) THEN AgainField2(field.kind, v) ELSE field.missing = {v}

HeldPart2(kind, v) ==
  /\ kind.kind = "part"
  /\ v = [key \in DOMAIN kind.fields |-> v[key]]
  /\ \A key \in DOMAIN kind.fields : HeldField2(kind.fields[key], v[key])

\* Kinds whose values always come again.
SteadyKind2(kind) ==
  IF kind.kind \in Nested THEN Steady2(kind.of) ELSE Steady2(kind)

SteadyField2(field) ==
  /\ SteadyKind2(field.kind)
  /\ \/ /\ field.written = "always"
        /\ \A v \in field.missing : AgainField2(field.kind, v)
     \/ field.written = "given" /\ field.missing = {Nothing}
     \/ /\ field.written = "filled" /\ field.missing = {Empty(field.kind)}
        /\ field.kind.kind \in Nested \cup {"scalar"}

Steady3(kind) ==
  \/ SteadyLeaf(kind)
  \/ /\ kind.kind = "part"
     /\ \A key \in DOMAIN kind.fields : SteadyField2(kind.fields[key])

\* A list, item by item.
LEMMA ListGiven2 ==
  ASSUME NEW kind, kind.kind = "list", NEW node, NEW around, NEW layer,
         NEW v \in Field2(kind, node, around, layer)
  PROVE  /\ v = [i \in DOMAIN ItemsOf(node) |-> v[i]]
         /\ \A i \in DOMAIN ItemsOf(node) : v[i] \in Read2(kind.of, ItemsOf(node)[i], Null, layer)
  <1> DEFINE reads == [i \in DOMAIN ItemsOf(node) |-> Read2(kind.of, ItemsOf(node)[i], Null, layer)]
  <1>1. v \in Whole(reads)
    BY DEF Field2, ReadField, ReadList
  <1>2. v = [i \in DOMAIN reads |-> v[i]] /\ \A i \in DOMAIN reads : v[i] \in reads[i]
    <2> HIDE DEF reads
    <2> QED BY <1>1, WholeGiven
  <1> QED BY <1>2

LEMMA ListOfItems2 ==
  ASSUME NEW kind, kind.kind = "list", NEW v, NEW u, NEW around, NEW layer,
         u = [i \in DOMAIN v |-> u[i]],
         \A i \in DOMAIN v : Read2(kind.of, Write2(kind.of, v[i]), Null, layer) = {u[i]}
  PROVE  Field2(kind, FieldNode2(kind, v), around, layer) = {u}
  <1> DEFINE node == FieldNode2(kind, v)
             reads == [i \in DOMAIN ItemsOf(node) |-> Read2(kind.of, ItemsOf(node)[i], Null, layer)]
  <1>1. node.node = "sequence" /\ node.items = [i \in DOMAIN v |-> Write2(kind.of, v[i])]
    BY ComputedIs DEF FieldNode2, WriteField, Sequence
  <1>2. ItemsOf(node) = [i \in DOMAIN v |-> Write2(kind.of, v[i])]
    BY <1>1 DEF ItemsOf
  <1>3. reads = [i \in DOMAIN v |-> Read2(kind.of, Write2(kind.of, v[i]), Null, layer)]
    BY <1>2
  <1>4. DOMAIN reads = DOMAIN v /\ \A i \in DOMAIN v : reads[i] = {u[i]}
    BY <1>3
  <1>5. Field2(kind, node, around, layer) = Whole(reads)
    BY <1>1 DEF Field2, ReadField, ReadList
  <1>6. Whole(reads) = {u}
    <2> HIDE DEF reads
    <2> QED BY <1>4, WholeOf
  <1> QED BY <1>5, <1>6

LEMMA ListAgain2 ==
  ASSUME NEW kind, kind.kind = "list", NEW v, v = [i \in DOMAIN v |-> v[i]],
         \A i \in DOMAIN v : Again2(kind.of, v[i])
  PROVE  AgainField2(kind, v)
  <1> SUFFICES ASSUME NEW around, NEW layer
               PROVE  Field2(kind, FieldNode2(kind, v), around, layer) = {v}
    BY DEF AgainField2
  <1>1. \A i \in DOMAIN v : Read2(kind.of, Write2(kind.of, v[i]), Null, layer) = {v[i]}
    BY DEF Again2
  <1> QED BY <1>1, ListOfItems2

\* A map or a table, key by key.
LEMMA MapGiven2 ==
  ASSUME NEW kind, kind.kind \in {"map", "table"}, NEW node, NEW around, NEW layer,
         NEW v \in Field2(kind, node, around, layer), v # <<>>
  PROVE  /\ v = [key \in DOMAIN v |-> v[key]]
         /\ \A key \in DOMAIN v : v[key] \in Read2(kind.of, node.at[key], node, Null)
  <1> DEFINE reads == [key \in DOMAIN node.at |-> Read2(kind.of, node.at[key], node, Null)]
  <1>1. v \in Whole(reads)
    BY DEF Field2, ReadField, ReadMap
  <1>2. v = [i \in DOMAIN reads |-> v[i]] /\ \A i \in DOMAIN reads : v[i] \in reads[i]
    <2> HIDE DEF reads
    <2> QED BY <1>1, WholeGiven
  <1> QED BY <1>2

LEMMA MapAgain2 ==
  ASSUME NEW kind, kind.kind \in {"map", "table"}, NEW v, v = [key \in DOMAIN v |-> v[key]],
         \A key \in DOMAIN v : Again2(kind.of, v[key])
  PROVE  AgainField2(kind, v)
  <1> SUFFICES ASSUME NEW around, NEW layer
               PROVE  Field2(kind, FieldNode2(kind, v), around, layer) = {v}
    BY DEF AgainField2
  <1> DEFINE node == FieldNode2(kind, v)
             reads == [key \in DOMAIN node.at |-> Read2(kind.of, node.at[key], node, Null)]
  <1>1. node.node = "map" /\ node.at = [key \in DOMAIN v |-> Write2(kind.of, v[key])]
    BY ComputedIs DEF FieldNode2, WriteField, Map
  <1>2. DOMAIN reads = DOMAIN v /\ \A key \in DOMAIN v : reads[key] = {v[key]}
    BY <1>1 DEF Again2
  <1>3. Field2(kind, node, around, layer) = Whole(reads)
    BY <1>1 DEF Field2, ReadField, ReadMap
  <1>4. Whole(reads) = {v}
    <2> HIDE DEF reads
    <2> QED BY <1>2, WholeOf
  <1> QED BY <1>3, <1>4

LEMMA EmptyAgain2 ==
  ASSUME NEW kind, kind.kind \in Nested, NEW v, v = <<>>
  PROVE  AgainField2(kind, v)
  <1>1. v = [x \in DOMAIN v |-> v[x]] /\ DOMAIN v = {}
    OBVIOUS
  <1>2. CASE kind.kind = "list"
    BY <1>1, <1>2, ListAgain2
  <1>3. CASE kind.kind \in {"map", "table"}
    <2>1. v = [key \in DOMAIN v |-> v[key]] /\ \A key \in DOMAIN v : Again2(kind.of, v[key])
      BY <1>1
    <2>2. ASSUME NEW w, w = [key \in DOMAIN w |-> w[key]],
                 \A key \in DOMAIN w : Again2(kind.of, w[key])
          PROVE  AgainField2(kind, w)
      BY <1>3, <2>2, MapAgain2
    <2> QED BY <2>1, <2>2
  <1> QED BY <1>2, <1>3 DEF Nested

\* Neither a list nor a map.
LEMMA PlainField2 ==
  ASSUME NEW kind, kind.kind \notin Nested
  PROVE  /\ \A node, around, layer :
              Field2(kind, node, around, layer) = Read2(kind, node, around, layer)
         /\ \A v : FieldNode2(kind, v) = Write2(kind, v)
  <1>1. kind.kind # "list" /\ kind.kind # "map" /\ kind.kind # "table"
    BY DEF Nested
  <1>2. kind.kind \notin {"map", "table"}
    BY <1>1
  <1> QED BY <1>1, <1>2, Zenon DEF Field2, FieldNode2, ReadField, WriteField

LEMMA FieldKeeps2 ==
  ASSUME NEW kind, SteadyKind2(kind), NEW node, NEW around, NEW layer,
         NEW v \in Field2(kind, node, around, layer)
  PROVE  /\ AgainField2(kind, v)
         /\ kind.kind \in Nested => v = [x \in DOMAIN v |-> v[x]]
  <1>1. CASE kind.kind = "list"
    <2>1. /\ v = [i \in DOMAIN ItemsOf(node) |-> v[i]]
          /\ \A i \in DOMAIN ItemsOf(node) : v[i] \in Read2(kind.of, ItemsOf(node)[i], Null, layer)
      BY <1>1, ListGiven2
    <2>2. DOMAIN v = DOMAIN ItemsOf(node)
      BY <2>1
    <2>3. Steady2(kind.of)
      BY <1>1 DEF SteadyKind2, Nested
    <2>4. \A i \in DOMAIN v : Again2(kind.of, v[i])
      BY <2>1, <2>2, <2>3, PartKeeps2
    <2> QED BY <1>1, <2>1, <2>2, <2>4, ListAgain2
  <1>2. CASE kind.kind \in {"map", "table"} /\ v # <<>>
    <2>1. /\ v = [key \in DOMAIN v |-> v[key]]
          /\ \A key \in DOMAIN v : v[key] \in Read2(kind.of, node.at[key], node, Null)
      BY <1>2, MapGiven2
    <2>2. Steady2(kind.of)
      BY <1>2 DEF SteadyKind2, Nested
    <2>3. \A key \in DOMAIN v : Again2(kind.of, v[key])
      BY <2>1, <2>2, PartKeeps2
    <2> QED BY <1>2, <2>1, <2>3, MapAgain2
  <1>3. CASE kind.kind \in {"map", "table"} /\ v = <<>>
    BY <1>3, EmptyAgain2 DEF Nested
  <1>4. CASE kind.kind \notin Nested
    <2>1. v \in Read2(kind, node, around, layer)
      BY <1>4, PlainField2
    <2>2. Again2(kind, v)
      BY <1>4, <2>1, PartKeeps2 DEF SteadyKind2
    <2> QED BY <1>4, <2>2, PlainField2 DEF AgainField2, Again2
  <1> QED BY <1>1, <1>2, <1>3, <1>4 DEF Nested

LEMMA PlainPart3 ==
  ASSUME NEW kind, kind.kind # "part"
  PROVE  /\ \A node, around, layer :
              Read3(kind, node, around, layer) = ReadLeaf(kind, node, around, layer)
         /\ \A v : Write3(kind, v) = WriteLeaf(kind, v)
  BY Zenon DEF Read3, Write3, ReadPart, WritePart

\* A part, field by field.
LEMMA PartGiven3 ==
  ASSUME NEW kind, kind.kind = "part", NEW node, NEW around, NEW layer,
         NEW v \in Read3(kind, node, around, layer)
  PROVE  /\ node.node = "map" /\ DOMAIN node.at \subseteq DOMAIN kind.fields
         /\ v = [key \in DOMAIN kind.fields |-> v[key]]
         /\ \A key \in DOMAIN kind.fields :
              v[key] \in IF key \in DOMAIN node.at
                         THEN Field2(kind.fields[key].kind, node.at[key], node, layer)
                         ELSE kind.fields[key].missing
  <1> DEFINE reads == [key \in DOMAIN kind.fields |->
                         IF key \in DOMAIN node.at
                         THEN Field2(kind.fields[key].kind, node.at[key], node, layer)
                         ELSE kind.fields[key].missing]
  <1>1. v \in Whole(reads) /\ node.node = "map" /\ DOMAIN node.at \subseteq DOMAIN kind.fields
    BY DEF Read3, ReadPart, Field2
  <1>2. v = [key \in DOMAIN reads |-> v[key]] /\ \A key \in DOMAIN reads : v[key] \in reads[key]
    <2> HIDE DEF reads
    <2> QED BY <1>1, WholeGiven
  <1> QED BY <1>1, <1>2

LEMMA PartWritten3 ==
  ASSUME NEW kind, kind.kind = "part", NEW v
  PROVE  /\ Write3(kind, v).node = "map"
         /\ DOMAIN Write3(kind, v).at = {k \in DOMAIN kind.fields : IsWritten(kind.fields[k], v[k])}
         /\ \A key \in DOMAIN Write3(kind, v).at :
              Write3(kind, v).at[key] = FieldNode2(kind.fields[key].kind, v[key])
  <1>1. Write3(kind, v).at = [key \in {k \in DOMAIN kind.fields : IsWritten(kind.fields[k], v[k])} |->
                              FieldNode2(kind.fields[key].kind, v[key])]
    BY ComputedIs DEF Write3, WritePart, Map, FieldNode2
  <1>2. Write3(kind, v).node = "map"
    BY DEF Write3, WritePart, Map, FieldNode2
  <1> QED BY <1>1, <1>2

LEMMA PartOfFields3 ==
  ASSUME NEW kind, kind.kind = "part", NEW v, NEW u, NEW around, NEW layer,
         u = [key \in DOMAIN kind.fields |-> u[key]],
         \A key \in DOMAIN kind.fields :
           IF IsWritten(kind.fields[key], v[key])
           THEN Field2(kind.fields[key].kind, FieldNode2(kind.fields[key].kind, v[key]),
                          Write3(kind, v), layer) = {u[key]}
           ELSE kind.fields[key].missing = {u[key]}
  PROVE  Read3(kind, Write3(kind, v), around, layer) = {u}
  <1> DEFINE node == Write3(kind, v)
             reads == [key \in DOMAIN kind.fields |->
                        IF key \in DOMAIN node.at
                        THEN Field2(kind.fields[key].kind, node.at[key], node, layer)
                        ELSE kind.fields[key].missing]
  <1>1. /\ node.node = "map"
        /\ DOMAIN node.at = {k \in DOMAIN kind.fields : IsWritten(kind.fields[k], v[k])}
        /\ \A key \in DOMAIN node.at :
             node.at[key] = FieldNode2(kind.fields[key].kind, v[key])
    BY PartWritten3
  <1>2. DOMAIN reads = DOMAIN kind.fields /\ \A key \in DOMAIN kind.fields : reads[key] = {u[key]}
    BY <1>1
  <1>3. Read3(kind, node, around, layer) = Whole(reads)
    BY <1>1 DEF Read3, ReadPart, Field2
  <1>4. Whole(reads) = {u}
    <2> HIDE DEF reads
    <2> QED BY <1>2, WholeOf
  <1> QED BY <1>3, <1>4

LEMMA PartAgain3 ==
  ASSUME NEW kind, NEW v, HeldPart2(kind, v)
  PROVE  Again3(kind, v)
  <1> SUFFICES ASSUME NEW around, NEW layer
               PROVE  Read3(kind, Write3(kind, v), around, layer) = {v}
    BY DEF Again3
  <1>1. \A key \in DOMAIN kind.fields :
          IF IsWritten(kind.fields[key], v[key])
          THEN Field2(kind.fields[key].kind, FieldNode2(kind.fields[key].kind, v[key]),
                         Write3(kind, v), layer) = {v[key]}
          ELSE kind.fields[key].missing = {v[key]}
    BY DEF HeldPart2, HeldField2, AgainField2
  <1>2. kind.kind = "part" /\ v = [key \in DOMAIN kind.fields |-> v[key]]
    BY DEF HeldPart2
  <1> QED BY <1>1, <1>2, PartOfFields3

LEMMA FieldHeld2 ==
  ASSUME NEW field, SteadyField2(field), NEW node, NEW around, NEW layer, NEW v,
         v \in field.missing \/ v \in Field2(field.kind, node, around, layer)
  PROVE  HeldField2(field, v)
  <1>1. CASE v \in Field2(field.kind, node, around, layer)
    <2>1. /\ AgainField2(field.kind, v)
          /\ field.kind.kind \in Nested => v = [x \in DOMAIN v |-> v[x]]
      BY <1>1, FieldKeeps2 DEF SteadyField2
    <2>2. ASSUME ~IsWritten(field, v) PROVE field.missing = {v}
      <3>1. field.written # "always"
        BY <2>2, WrittenWhen
      <3>2. CASE field.written = "given"
        BY <2>2, <3>2, WrittenWhen DEF SteadyField2
      <3>3. CASE field.written = "filled" /\ field.kind.kind = "scalar"
        BY <2>2, <3>3, WrittenWhen DEF SteadyField2, Empty
      <3>4. CASE field.written = "filled" /\ field.kind.kind \in Nested
        <4>1. field.kind.kind # "scalar" /\ v = [x \in DOMAIN v |-> v[x]]
          BY <2>1, <3>4 DEF Nested
        <4>2. DOMAIN v = {}
          BY <2>2, <3>4, <4>1, WrittenWhen
        <4>3. v = <<>>
          BY <4>1, <4>2
        <4> QED BY <3>4, <4>1, <4>3 DEF SteadyField2, Empty
      <3> QED BY <3>1, <3>2, <3>3, <3>4 DEF SteadyField2
    <2> QED BY <2>1, <2>2 DEF HeldField2
  <1>2. CASE v \in field.missing
    <2>1. CASE field.written = "always"
      BY <1>2, <2>1, WrittenWhen DEF SteadyField2, HeldField2
    <2>2. CASE field.written = "given"
      <3>1. v = Nothing /\ field.missing = {v}
        BY <1>2, <2>2 DEF SteadyField2
      <3>2. ~IsWritten(field, v)
        BY <2>2, <3>1, WrittenWhen
      <3> QED BY <3>1, <3>2 DEF HeldField2
    <2>3. CASE field.written = "filled" /\ field.kind.kind \in Nested \cup {"scalar"}
      <3>1. v = Empty(field.kind) /\ field.missing = {v}
        BY <1>2, <2>3 DEF SteadyField2
      <3>2. CASE field.kind.kind = "scalar"
        BY <2>3, <3>1, <3>2, WrittenWhen DEF HeldField2, Empty
      <3>3. CASE field.kind.kind \in Nested
        <4>1. v = <<>> /\ field.kind.kind # "scalar"
          BY <3>1, <3>3 DEF Empty, Nested
        <4>2. DOMAIN v = {}
          BY <4>1
        <4> QED BY <2>3, <3>1, <4>1, <4>2, WrittenWhen DEF HeldField2
      <3> QED BY <2>3, <3>2, <3>3
    <2> QED BY <2>1, <2>2, <2>3 DEF SteadyField2
  <1> QED BY <1>1, <1>2

LEMMA PartHeld3 ==
  ASSUME NEW kind, Steady3(kind), kind.kind = "part", NEW node, NEW around, NEW layer,
         NEW v \in Read3(kind, node, around, layer)
  PROVE  HeldPart2(kind, v)
  <1>1. /\ v = [key \in DOMAIN kind.fields |-> v[key]]
        /\ \A key \in DOMAIN kind.fields :
             v[key] \in IF key \in DOMAIN node.at
                        THEN Field2(kind.fields[key].kind, node.at[key], node, layer)
                        ELSE kind.fields[key].missing
    BY PartGiven3
  <1>2. ASSUME NEW key \in DOMAIN kind.fields
        PROVE  HeldField2(kind.fields[key], v[key])
    <2>1. SteadyField2(kind.fields[key])
      BY DEF Steady3, SteadyField2, SteadyLeaf
    <2> QED BY <1>1, <2>1, FieldHeld2
  <1> QED BY <1>1, <1>2 DEF HeldPart2

LEMMA PartKeeps3 ==
  ASSUME NEW kind, Steady3(kind), NEW node, NEW around, NEW layer,
         NEW v \in Read3(kind, node, around, layer)
  PROVE  Again3(kind, v)
  <1>1. CASE kind.kind = "part"
    BY <1>1, PartHeld3, PartAgain3
  <1>2. CASE kind.kind # "part"
    <2>1. SteadyLeaf(kind)
      BY <1>2 DEF Steady3
    <2>2. v \in ReadLeaf(kind, node, around, layer)
      BY <1>2, PlainPart3
    <2>3. Again0(kind, v)
      BY <2>1, <2>2, LeafKeeps
    <2> QED BY <1>2, <2>3, PlainPart3 DEF Again3, Again0
  <1> QED BY <1>1, <1>2

(***************************************************************************)
(* Level 4: lists, maps and parts whose members are read by Read3.         *)
(***************************************************************************)
Field3(kind, node, around, layer) == ReadField(Read3, kind, node, around, layer)
FieldNode3(kind, v) == WriteField(Write3, kind, v)

AgainField3(kind, v) ==
  \A around, layer : Field3(kind, FieldNode3(kind, v), around, layer) = {v}

\* A field's value comes again if, where it is not written, it is what the
\* missing key is read as.
HeldField3(field, v) ==
  IF IsWritten(field, v) THEN AgainField3(field.kind, v) ELSE field.missing = {v}

\* Kinds whose values always come again.
SteadyKind3(kind) ==
  IF kind.kind \in Nested THEN Steady3(kind.of) ELSE Steady3(kind)

SteadyField3(field) ==
  /\ SteadyKind3(field.kind)
  /\ \/ /\ field.written = "always"
        /\ \A v \in field.missing : AgainField3(field.kind, v)
     \/ field.written = "given" /\ field.missing = {Nothing}
     \/ /\ field.written = "filled" /\ field.missing = {Empty(field.kind)}
        /\ field.kind.kind \in Nested \cup {"scalar"}

\* A list, item by item.
LEMMA ListGiven3 ==
  ASSUME NEW kind, kind.kind = "list", NEW node, NEW around, NEW layer,
         NEW v \in Field3(kind, node, around, layer)
  PROVE  /\ v = [i \in DOMAIN ItemsOf(node) |-> v[i]]
         /\ \A i \in DOMAIN ItemsOf(node) : v[i] \in Read3(kind.of, ItemsOf(node)[i], Null, layer)
  <1> DEFINE reads == [i \in DOMAIN ItemsOf(node) |-> Read3(kind.of, ItemsOf(node)[i], Null, layer)]
  <1>1. v \in Whole(reads)
    BY DEF Field3, ReadField, ReadList
  <1>2. v = [i \in DOMAIN reads |-> v[i]] /\ \A i \in DOMAIN reads : v[i] \in reads[i]
    <2> HIDE DEF reads
    <2> QED BY <1>1, WholeGiven
  <1> QED BY <1>2

LEMMA ListOfItems3 ==
  ASSUME NEW kind, kind.kind = "list", NEW v, NEW u, NEW around, NEW layer,
         u = [i \in DOMAIN v |-> u[i]],
         \A i \in DOMAIN v : Read3(kind.of, Write3(kind.of, v[i]), Null, layer) = {u[i]}
  PROVE  Field3(kind, FieldNode3(kind, v), around, layer) = {u}
  <1> DEFINE node == FieldNode3(kind, v)
             reads == [i \in DOMAIN ItemsOf(node) |-> Read3(kind.of, ItemsOf(node)[i], Null, layer)]
  <1>1. node.node = "sequence" /\ node.items = [i \in DOMAIN v |-> Write3(kind.of, v[i])]
    BY ComputedIs DEF FieldNode3, WriteField, Sequence
  <1>2. ItemsOf(node) = [i \in DOMAIN v |-> Write3(kind.of, v[i])]
    BY <1>1 DEF ItemsOf
  <1>3. reads = [i \in DOMAIN v |-> Read3(kind.of, Write3(kind.of, v[i]), Null, layer)]
    BY <1>2
  <1>4. DOMAIN reads = DOMAIN v /\ \A i \in DOMAIN v : reads[i] = {u[i]}
    BY <1>3
  <1>5. Field3(kind, node, around, layer) = Whole(reads)
    BY <1>1 DEF Field3, ReadField, ReadList
  <1>6. Whole(reads) = {u}
    <2> HIDE DEF reads
    <2> QED BY <1>4, WholeOf
  <1> QED BY <1>5, <1>6

LEMMA ListAgain3 ==
  ASSUME NEW kind, kind.kind = "list", NEW v, v = [i \in DOMAIN v |-> v[i]],
         \A i \in DOMAIN v : Again3(kind.of, v[i])
  PROVE  AgainField3(kind, v)
  <1> SUFFICES ASSUME NEW around, NEW layer
               PROVE  Field3(kind, FieldNode3(kind, v), around, layer) = {v}
    BY DEF AgainField3
  <1>1. \A i \in DOMAIN v : Read3(kind.of, Write3(kind.of, v[i]), Null, layer) = {v[i]}
    BY DEF Again3
  <1> QED BY <1>1, ListOfItems3

\* A map or a table, key by key.
LEMMA MapGiven3 ==
  ASSUME NEW kind, kind.kind \in {"map", "table"}, NEW node, NEW around, NEW layer,
         NEW v \in Field3(kind, node, around, layer), v # <<>>
  PROVE  /\ v = [key \in DOMAIN v |-> v[key]]
         /\ \A key \in DOMAIN v : v[key] \in Read3(kind.of, node.at[key], node, Null)
  <1> DEFINE reads == [key \in DOMAIN node.at |-> Read3(kind.of, node.at[key], node, Null)]
  <1>1. v \in Whole(reads)
    BY DEF Field3, ReadField, ReadMap
  <1>2. v = [i \in DOMAIN reads |-> v[i]] /\ \A i \in DOMAIN reads : v[i] \in reads[i]
    <2> HIDE DEF reads
    <2> QED BY <1>1, WholeGiven
  <1> QED BY <1>2

LEMMA MapAgain3 ==
  ASSUME NEW kind, kind.kind \in {"map", "table"}, NEW v, v = [key \in DOMAIN v |-> v[key]],
         \A key \in DOMAIN v : Again3(kind.of, v[key])
  PROVE  AgainField3(kind, v)
  <1> SUFFICES ASSUME NEW around, NEW layer
               PROVE  Field3(kind, FieldNode3(kind, v), around, layer) = {v}
    BY DEF AgainField3
  <1> DEFINE node == FieldNode3(kind, v)
             reads == [key \in DOMAIN node.at |-> Read3(kind.of, node.at[key], node, Null)]
  <1>1. node.node = "map" /\ node.at = [key \in DOMAIN v |-> Write3(kind.of, v[key])]
    BY ComputedIs DEF FieldNode3, WriteField, Map
  <1>2. DOMAIN reads = DOMAIN v /\ \A key \in DOMAIN v : reads[key] = {v[key]}
    BY <1>1 DEF Again3
  <1>3. Field3(kind, node, around, layer) = Whole(reads)
    BY <1>1 DEF Field3, ReadField, ReadMap
  <1>4. Whole(reads) = {v}
    <2> HIDE DEF reads
    <2> QED BY <1>2, WholeOf
  <1> QED BY <1>3, <1>4

LEMMA EmptyAgain3 ==
  ASSUME NEW kind, kind.kind \in Nested, NEW v, v = <<>>
  PROVE  AgainField3(kind, v)
  <1>1. v = [x \in DOMAIN v |-> v[x]] /\ DOMAIN v = {}
    OBVIOUS
  <1>2. CASE kind.kind = "list"
    BY <1>1, <1>2, ListAgain3
  <1>3. CASE kind.kind \in {"map", "table"}
    <2>1. v = [key \in DOMAIN v |-> v[key]] /\ \A key \in DOMAIN v : Again3(kind.of, v[key])
      BY <1>1
    <2>2. ASSUME NEW w, w = [key \in DOMAIN w |-> w[key]],
                 \A key \in DOMAIN w : Again3(kind.of, w[key])
          PROVE  AgainField3(kind, w)
      BY <1>3, <2>2, MapAgain3
    <2> QED BY <2>1, <2>2
  <1> QED BY <1>2, <1>3 DEF Nested

\* Neither a list nor a map.
LEMMA PlainField3 ==
  ASSUME NEW kind, kind.kind \notin Nested
  PROVE  /\ \A node, around, layer :
              Field3(kind, node, around, layer) = Read3(kind, node, around, layer)
         /\ \A v : FieldNode3(kind, v) = Write3(kind, v)
  <1>1. kind.kind # "list" /\ kind.kind # "map" /\ kind.kind # "table"
    BY DEF Nested
  <1>2. kind.kind \notin {"map", "table"}
    BY <1>1
  <1> QED BY <1>1, <1>2, Zenon DEF Field3, FieldNode3, ReadField, WriteField

LEMMA FieldKeeps3 ==
  ASSUME NEW kind, SteadyKind3(kind), NEW node, NEW around, NEW layer,
         NEW v \in Field3(kind, node, around, layer)
  PROVE  /\ AgainField3(kind, v)
         /\ kind.kind \in Nested => v = [x \in DOMAIN v |-> v[x]]
  <1>1. CASE kind.kind = "list"
    <2>1. /\ v = [i \in DOMAIN ItemsOf(node) |-> v[i]]
          /\ \A i \in DOMAIN ItemsOf(node) : v[i] \in Read3(kind.of, ItemsOf(node)[i], Null, layer)
      BY <1>1, ListGiven3
    <2>2. DOMAIN v = DOMAIN ItemsOf(node)
      BY <2>1
    <2>3. Steady3(kind.of)
      BY <1>1 DEF SteadyKind3, Nested
    <2>4. \A i \in DOMAIN v : Again3(kind.of, v[i])
      BY <2>1, <2>2, <2>3, PartKeeps3
    <2> QED BY <1>1, <2>1, <2>2, <2>4, ListAgain3
  <1>2. CASE kind.kind \in {"map", "table"} /\ v # <<>>
    <2>1. /\ v = [key \in DOMAIN v |-> v[key]]
          /\ \A key \in DOMAIN v : v[key] \in Read3(kind.of, node.at[key], node, Null)
      BY <1>2, MapGiven3
    <2>2. Steady3(kind.of)
      BY <1>2 DEF SteadyKind3, Nested
    <2>3. \A key \in DOMAIN v : Again3(kind.of, v[key])
      BY <2>1, <2>2, PartKeeps3
    <2> QED BY <1>2, <2>1, <2>3, MapAgain3
  <1>3. CASE kind.kind \in {"map", "table"} /\ v = <<>>
    BY <1>3, EmptyAgain3 DEF Nested
  <1>4. CASE kind.kind \notin Nested
    <2>1. v \in Read3(kind, node, around, layer)
      BY <1>4, PlainField3
    <2>2. Again3(kind, v)
      BY <1>4, <2>1, PartKeeps3 DEF SteadyKind3
    <2> QED BY <1>4, <2>2, PlainField3 DEF AgainField3, Again3
  <1> QED BY <1>1, <1>2, <1>3, <1>4 DEF Nested

LEMMA PlainPart4 ==
  ASSUME NEW kind, kind.kind # "part"
  PROVE  /\ \A node, around, layer :
              Read4(kind, node, around, layer) = ReadLeaf(kind, node, around, layer)
         /\ \A v : Write4(kind, v) = WriteLeaf(kind, v)
  BY Zenon DEF Read4, Write4, ReadPart, WritePart

\* A part, field by field.
LEMMA PartGiven4 ==
  ASSUME NEW kind, kind.kind = "part", NEW node, NEW around, NEW layer,
         NEW v \in Read4(kind, node, around, layer)
  PROVE  /\ node.node = "map" /\ DOMAIN node.at \subseteq DOMAIN kind.fields
         /\ v = [key \in DOMAIN kind.fields |-> v[key]]
         /\ \A key \in DOMAIN kind.fields :
              v[key] \in IF key \in DOMAIN node.at
                         THEN Field3(kind.fields[key].kind, node.at[key], node, layer)
                         ELSE kind.fields[key].missing
  <1> DEFINE reads == [key \in DOMAIN kind.fields |->
                         IF key \in DOMAIN node.at
                         THEN Field3(kind.fields[key].kind, node.at[key], node, layer)
                         ELSE kind.fields[key].missing]
  <1>1. v \in Whole(reads) /\ node.node = "map" /\ DOMAIN node.at \subseteq DOMAIN kind.fields
    BY DEF Read4, ReadPart, Field3
  <1>2. v = [key \in DOMAIN reads |-> v[key]] /\ \A key \in DOMAIN reads : v[key] \in reads[key]
    <2> HIDE DEF reads
    <2> QED BY <1>1, WholeGiven
  <1> QED BY <1>1, <1>2

LEMMA PartWritten4 ==
  ASSUME NEW kind, kind.kind = "part", NEW v
  PROVE  /\ Write4(kind, v).node = "map"
         /\ DOMAIN Write4(kind, v).at = {k \in DOMAIN kind.fields : IsWritten(kind.fields[k], v[k])}
         /\ \A key \in DOMAIN Write4(kind, v).at :
              Write4(kind, v).at[key] = FieldNode3(kind.fields[key].kind, v[key])
  <1>1. Write4(kind, v).at = [key \in {k \in DOMAIN kind.fields : IsWritten(kind.fields[k], v[k])} |->
                              FieldNode3(kind.fields[key].kind, v[key])]
    BY ComputedIs DEF Write4, WritePart, Map, FieldNode3
  <1>2. Write4(kind, v).node = "map"
    BY DEF Write4, WritePart, Map, FieldNode3
  <1> QED BY <1>1, <1>2

LEMMA PartOfFields4 ==
  ASSUME NEW kind, kind.kind = "part", NEW v, NEW u, NEW around, NEW layer,
         u = [key \in DOMAIN kind.fields |-> u[key]],
         \A key \in DOMAIN kind.fields :
           IF IsWritten(kind.fields[key], v[key])
           THEN Field3(kind.fields[key].kind, FieldNode3(kind.fields[key].kind, v[key]),
                          Write4(kind, v), layer) = {u[key]}
           ELSE kind.fields[key].missing = {u[key]}
  PROVE  Read4(kind, Write4(kind, v), around, layer) = {u}
  <1> DEFINE node == Write4(kind, v)
             reads == [key \in DOMAIN kind.fields |->
                        IF key \in DOMAIN node.at
                        THEN Field3(kind.fields[key].kind, node.at[key], node, layer)
                        ELSE kind.fields[key].missing]
  <1>1. /\ node.node = "map"
        /\ DOMAIN node.at = {k \in DOMAIN kind.fields : IsWritten(kind.fields[k], v[k])}
        /\ \A key \in DOMAIN node.at :
             node.at[key] = FieldNode3(kind.fields[key].kind, v[key])
    BY PartWritten4
  <1>2. DOMAIN reads = DOMAIN kind.fields /\ \A key \in DOMAIN kind.fields : reads[key] = {u[key]}
    BY <1>1
  <1>3. Read4(kind, node, around, layer) = Whole(reads)
    BY <1>1 DEF Read4, ReadPart, Field3
  <1>4. Whole(reads) = {u}
    <2> HIDE DEF reads
    <2> QED BY <1>2, WholeOf
  <1> QED BY <1>3, <1>4

LEMMA FieldHeld3 ==
  ASSUME NEW field, SteadyField3(field), NEW node, NEW around, NEW layer, NEW v,
         v \in field.missing \/ v \in Field3(field.kind, node, around, layer)
  PROVE  HeldField3(field, v)
  <1>1. CASE v \in Field3(field.kind, node, around, layer)
    <2>1. /\ AgainField3(field.kind, v)
          /\ field.kind.kind \in Nested => v = [x \in DOMAIN v |-> v[x]]
      BY <1>1, FieldKeeps3 DEF SteadyField3
    <2>2. ASSUME ~IsWritten(field, v) PROVE field.missing = {v}
      <3>1. field.written # "always"
        BY <2>2, WrittenWhen
      <3>2. CASE field.written = "given"
        BY <2>2, <3>2, WrittenWhen DEF SteadyField3
      <3>3. CASE field.written = "filled" /\ field.kind.kind = "scalar"
        BY <2>2, <3>3, WrittenWhen DEF SteadyField3, Empty
      <3>4. CASE field.written = "filled" /\ field.kind.kind \in Nested
        <4>1. field.kind.kind # "scalar" /\ v = [x \in DOMAIN v |-> v[x]]
          BY <2>1, <3>4 DEF Nested
        <4>2. DOMAIN v = {}
          BY <2>2, <3>4, <4>1, WrittenWhen
        <4>3. v = <<>>
          BY <4>1, <4>2
        <4> QED BY <3>4, <4>1, <4>3 DEF SteadyField3, Empty
      <3> QED BY <3>1, <3>2, <3>3, <3>4 DEF SteadyField3
    <2> QED BY <2>1, <2>2 DEF HeldField3
  <1>2. CASE v \in field.missing
    <2>1. CASE field.written = "always"
      BY <1>2, <2>1, WrittenWhen DEF SteadyField3, HeldField3
    <2>2. CASE field.written = "given"
      <3>1. v = Nothing /\ field.missing = {v}
        BY <1>2, <2>2 DEF SteadyField3
      <3>2. ~IsWritten(field, v)
        BY <2>2, <3>1, WrittenWhen
      <3> QED BY <3>1, <3>2 DEF HeldField3
    <2>3. CASE field.written = "filled" /\ field.kind.kind \in Nested \cup {"scalar"}
      <3>1. v = Empty(field.kind) /\ field.missing = {v}
        BY <1>2, <2>3 DEF SteadyField3
      <3>2. CASE field.kind.kind = "scalar"
        BY <2>3, <3>1, <3>2, WrittenWhen DEF HeldField3, Empty
      <3>3. CASE field.kind.kind \in Nested
        <4>1. v = <<>> /\ field.kind.kind # "scalar"
          BY <3>1, <3>3 DEF Empty, Nested
        <4>2. DOMAIN v = {}
          BY <4>1
        <4> QED BY <2>3, <3>1, <4>1, <4>2, WrittenWhen DEF HeldField3
      <3> QED BY <2>3, <3>2, <3>3
    <2> QED BY <2>1, <2>2, <2>3 DEF SteadyField3
  <1> QED BY <1>1, <1>2

(***************************************************************************)
(* The structs whose values always come again.                             *)
(***************************************************************************)
LEMMA ReadersSteady ==
  /\ \A kind \in {Text, Real, Integer, Size, Flag, Level, FieldType} : SteadyLeaf(kind)
  /\ \A text : Take(Text.reader, text) = {text}
  /\ Take(Real.reader, "0") = {"0"} /\ Take(Integer.reader, "0") = {"0"}
  /\ Take(Size.reader, "8") = {"8"} /\ Take(Size.reader, "100000") = {"100000"}
  /\ Take(Flag.reader, "false") = {"false"}
  <1>1. \A kind \in {Text, Real, Integer, Size, Flag, Level, FieldType} : SteadyLeaf(kind)
    BY DEF SteadyLeaf, Text, Real, Integer, Size, Flag, Level, FieldType, Of, Readers, Names
  <1>2. \A text : Take(Text.reader, text) = {text}
    BY DEF Take, Text, Of
  <1>3. /\ Take("real", "0") = {"0"} /\ Take("integer", "0") = {"0"}
        /\ Take("unsigned", "8") = {"8"} /\ Take("unsigned", "100000") = {"100000"}
        /\ Take("flag", "false") = {"false"}
    BY TextAssumption
  <1> QED BY <1>1, <1>2, <1>3 DEF Real, Integer, Size, Flag, Of

LEMMA FieldsSteady0 ==
  ASSUME NEW kind, SteadyKind0(kind)
  PROVE  /\ SteadyField0(Required(kind)) /\ SteadyField0(Optional(kind))
         /\ kind.kind \in Nested \cup {"scalar"} => SteadyField0(Filled(kind))
         /\ kind.kind \in Nested => SteadyField0(Listed(kind))
         /\ \A value : AgainField0(kind, value) => SteadyField0(Otherwise(kind, value))
  <1>1. kind.kind \in Nested => Empty(kind) = <<>> /\ AgainField0(kind, <<>>)
    <2>1. ASSUME kind.kind \in Nested, NEW v, v = <<>> PROVE AgainField0(kind, v)
      BY <2>1, EmptyAgain0
    <2>2. kind.kind \in Nested => Empty(kind) = <<>>
      BY DEF Empty, Nested
    <2> QED BY <2>1, <2>2
  <1> QED BY <1>1 DEF SteadyField0, Required, Optional, Filled, Listed, Otherwise

LEMMA KindsSteady0 ==
  /\ \A kind : SteadyLeaf(kind) => SteadyKind0(kind)
  /\ \A kind : SteadyLeaf(kind) =>
       /\ SteadyKind0(ListOf(kind)) /\ SteadyKind0(MapOf(kind)) /\ SteadyKind0(Table(kind))
       /\ kind.kind \notin Nested => SteadyKind0(kind)
  BY DEF SteadyKind0, ListOf, MapOf, Table, Nested, SteadyLeaf

LEMMA DefaultsSteady0 ==
  /\ \A text : SteadyField0(Otherwise(Text, text))
  /\ SteadyField0(Otherwise(Real, "0")) /\ SteadyField0(Otherwise(Integer, "0"))
  /\ SteadyField0(Otherwise(Size, "8")) /\ SteadyField0(Otherwise(Size, "100000"))
  /\ SteadyField0(Otherwise(Flag, "false"))
  <1>1. ASSUME NEW kind, SteadyLeaf(kind), NEW value, Take(kind.reader, value) = {value}
        PROVE  SteadyField0(Otherwise(kind, value))
    <2>1. value \in ReadLeaf(kind, Scalar(value), Null, Null)
      BY <1>1, ScalarRead
    <2>2. Again0(kind, value)
      BY <1>1, <2>1, LeafKeeps
    <2>3. kind.kind \notin Nested
      BY <1>1 DEF SteadyLeaf, Nested
    <2>4. AgainField0(kind, value)
      BY <1>1, <2>2, <2>3, PlainField0 DEF AgainField0, Again0
    <2> QED BY <1>1, <2>4, FieldsSteady0, KindsSteady0
  <1> QED BY <1>1, ReadersSteady

LEMMA PlainFields0 ==
  /\ \A kind \in {Text, Real, Integer, Size, Level} : SteadyField0(Required(kind))
  /\ \A kind \in {Text, Real, Size} : SteadyField0(Optional(kind))
  /\ SteadyField0(Filled(Text))
  /\ SteadyField0(Filled(MapOf(Text))) /\ SteadyField0(Filled(Table(Text)))
  /\ SteadyField0(Filled(Table(FieldType))) /\ SteadyField0(Filled(ListOf(Text)))
  /\ SteadyField0(Required(Table(FieldType)))
  /\ SteadyField0(Listed(ListOf(Text))) /\ SteadyField0(Listed(MapOf(Text)))
  /\ SteadyField0(Listed(MapOf(Real)))
  <1>1. \A kind : /\ ListOf(kind).kind \in Nested /\ MapOf(kind).kind \in Nested
                  /\ Table(kind).kind \in Nested
    BY DEF ListOf, MapOf, Table, Nested
  <1>2. ASSUME NEW kind, SteadyLeaf(kind)
        PROVE  /\ SteadyKind0(kind) /\ kind.kind = "scalar" /\ SteadyKind0(ListOf(kind))
               /\ SteadyKind0(MapOf(kind)) /\ SteadyKind0(Table(kind))
    <2>1. SteadyLeaf(kind)
      BY <1>2 
    <2> QED BY <1>2, <2>1, KindsSteady0 DEF SteadyLeaf
  <1> QED BY <1>1, <1>2, ReadersSteady, FieldsSteady0

LEMMA LeafAt1 ==
  ASSUME NEW kind, SteadyLeaf(kind)
  PROVE  /\ \A node, around, layer :
              Read1(kind, node, around, layer) = ReadLeaf(kind, node, around, layer)
         /\ \A v : Write1(kind, v) = WriteLeaf(kind, v)
  <1>1. kind.kind # "part"
    BY DEF SteadyLeaf
  <1> QED BY <1>1, PlainPart1

LEMMA FieldsSteady1 ==
  ASSUME NEW kind, SteadyKind1(kind)
  PROVE  /\ SteadyField1(Required(kind)) /\ SteadyField1(Optional(kind))
         /\ kind.kind \in Nested \cup {"scalar"} => SteadyField1(Filled(kind))
         /\ kind.kind \in Nested => SteadyField1(Listed(kind))
         /\ \A value : AgainField1(kind, value) => SteadyField1(Otherwise(kind, value))
  <1>1. kind.kind \in Nested => Empty(kind) = <<>> /\ AgainField1(kind, <<>>)
    <2>1. ASSUME kind.kind \in Nested, NEW v, v = <<>> PROVE AgainField1(kind, v)
      BY <2>1, EmptyAgain1
    <2>2. kind.kind \in Nested => Empty(kind) = <<>>
      BY DEF Empty, Nested
    <2> QED BY <2>1, <2>2
  <1> QED BY <1>1 DEF SteadyField1, Required, Optional, Filled, Listed, Otherwise

LEMMA KindsSteady1 ==
  /\ \A kind : SteadyLeaf(kind) => SteadyKind1(kind)
  /\ \A kind : Steady1(kind) =>
       /\ SteadyKind1(ListOf(kind)) /\ SteadyKind1(MapOf(kind)) /\ SteadyKind1(Table(kind))
       /\ kind.kind \notin Nested => SteadyKind1(kind)
  BY DEF SteadyKind1, ListOf, MapOf, Table, Nested, Steady1, SteadyLeaf

LEMMA DefaultsSteady1 ==
  /\ \A text : SteadyField1(Otherwise(Text, text))
  /\ SteadyField1(Otherwise(Real, "0")) /\ SteadyField1(Otherwise(Integer, "0"))
  /\ SteadyField1(Otherwise(Size, "8")) /\ SteadyField1(Otherwise(Size, "100000"))
  /\ SteadyField1(Otherwise(Flag, "false"))
  <1>1. ASSUME NEW kind, SteadyLeaf(kind), NEW value, Take(kind.reader, value) = {value}
        PROVE  SteadyField1(Otherwise(kind, value))
    <2>1. value \in ReadLeaf(kind, Scalar(value), Null, Null)
      BY <1>1, ScalarRead
    <2>2. Again0(kind, value)
      BY <1>1, <2>1, LeafKeeps
    <2>3. kind.kind \notin Nested
      BY <1>1 DEF SteadyLeaf, Nested
    <2>4. AgainField1(kind, value)
      BY <1>1, <2>2, <2>3, PlainField1, LeafAt1 DEF AgainField1, Again0
    <2> QED BY <1>1, <2>4, FieldsSteady1, KindsSteady1
  <1> QED BY <1>1, ReadersSteady

LEMMA PlainFields1 ==
  /\ \A kind \in {Text, Real, Integer, Size, Level} : SteadyField1(Required(kind))
  /\ \A kind \in {Text, Real, Size} : SteadyField1(Optional(kind))
  /\ SteadyField1(Filled(Text))
  /\ SteadyField1(Filled(MapOf(Text))) /\ SteadyField1(Filled(Table(Text)))
  /\ SteadyField1(Filled(Table(FieldType))) /\ SteadyField1(Filled(ListOf(Text)))
  /\ SteadyField1(Required(Table(FieldType)))
  /\ SteadyField1(Listed(ListOf(Text))) /\ SteadyField1(Listed(MapOf(Text)))
  /\ SteadyField1(Listed(MapOf(Real)))
  <1>1. \A kind : /\ ListOf(kind).kind \in Nested /\ MapOf(kind).kind \in Nested
                  /\ Table(kind).kind \in Nested
    BY DEF ListOf, MapOf, Table, Nested
  <1>2. ASSUME NEW kind, SteadyLeaf(kind)
        PROVE  /\ SteadyKind1(kind) /\ kind.kind = "scalar" /\ SteadyKind1(ListOf(kind))
               /\ SteadyKind1(MapOf(kind)) /\ SteadyKind1(Table(kind))
    <2>1. Steady1(kind)
      BY <1>2 DEF Steady1
    <2> QED BY <1>2, <2>1, KindsSteady1 DEF SteadyLeaf
  <1> QED BY <1>1, <1>2, ReadersSteady, FieldsSteady1

LEMMA PartFields1 ==
  ASSUME NEW kind, Steady1(kind), kind.kind = "part"
  PROVE  /\ SteadyField1(Required(kind)) /\ SteadyField1(Optional(kind))
         /\ SteadyField1(Listed(ListOf(kind))) /\ SteadyField1(Filled(ListOf(kind)))
  <1>1. SteadyKind1(kind) /\ SteadyKind1(ListOf(kind)) /\ ListOf(kind).kind \in Nested
    BY KindsSteady1 DEF ListOf, Nested
  <1> QED BY <1>1, FieldsSteady1

LEMMA LeafAt2 ==
  ASSUME NEW kind, SteadyLeaf(kind)
  PROVE  /\ \A node, around, layer :
              Read2(kind, node, around, layer) = ReadLeaf(kind, node, around, layer)
         /\ \A v : Write2(kind, v) = WriteLeaf(kind, v)
  <1>1. kind.kind # "part"
    BY DEF SteadyLeaf
  <1> QED BY <1>1, PlainPart1, PlainPart2

LEMMA FieldsSteady2 ==
  ASSUME NEW kind, SteadyKind2(kind)
  PROVE  /\ SteadyField2(Required(kind)) /\ SteadyField2(Optional(kind))
         /\ kind.kind \in Nested \cup {"scalar"} => SteadyField2(Filled(kind))
         /\ kind.kind \in Nested => SteadyField2(Listed(kind))
         /\ \A value : AgainField2(kind, value) => SteadyField2(Otherwise(kind, value))
  <1>1. kind.kind \in Nested => Empty(kind) = <<>> /\ AgainField2(kind, <<>>)
    <2>1. ASSUME kind.kind \in Nested, NEW v, v = <<>> PROVE AgainField2(kind, v)
      BY <2>1, EmptyAgain2
    <2>2. kind.kind \in Nested => Empty(kind) = <<>>
      BY DEF Empty, Nested
    <2> QED BY <2>1, <2>2
  <1> QED BY <1>1 DEF SteadyField2, Required, Optional, Filled, Listed, Otherwise

LEMMA KindsSteady2 ==
  /\ \A kind : SteadyLeaf(kind) => SteadyKind2(kind)
  /\ \A kind : Steady2(kind) =>
       /\ SteadyKind2(ListOf(kind)) /\ SteadyKind2(MapOf(kind)) /\ SteadyKind2(Table(kind))
       /\ kind.kind \notin Nested => SteadyKind2(kind)
  BY DEF SteadyKind2, ListOf, MapOf, Table, Nested, Steady2, SteadyLeaf

LEMMA DefaultsSteady2 ==
  /\ \A text : SteadyField2(Otherwise(Text, text))
  /\ SteadyField2(Otherwise(Real, "0")) /\ SteadyField2(Otherwise(Integer, "0"))
  /\ SteadyField2(Otherwise(Size, "8")) /\ SteadyField2(Otherwise(Size, "100000"))
  /\ SteadyField2(Otherwise(Flag, "false"))
  <1>1. ASSUME NEW kind, SteadyLeaf(kind), NEW value, Take(kind.reader, value) = {value}
        PROVE  SteadyField2(Otherwise(kind, value))
    <2>1. value \in ReadLeaf(kind, Scalar(value), Null, Null)
      BY <1>1, ScalarRead
    <2>2. Again0(kind, value)
      BY <1>1, <2>1, LeafKeeps
    <2>3. kind.kind \notin Nested
      BY <1>1 DEF SteadyLeaf, Nested
    <2>4. AgainField2(kind, value)
      BY <1>1, <2>2, <2>3, PlainField2, LeafAt2 DEF AgainField2, Again0
    <2> QED BY <1>1, <2>4, FieldsSteady2, KindsSteady2
  <1> QED BY <1>1, ReadersSteady

LEMMA PlainFields2 ==
  /\ \A kind \in {Text, Real, Integer, Size, Level} : SteadyField2(Required(kind))
  /\ \A kind \in {Text, Real, Size} : SteadyField2(Optional(kind))
  /\ SteadyField2(Filled(Text))
  /\ SteadyField2(Filled(MapOf(Text))) /\ SteadyField2(Filled(Table(Text)))
  /\ SteadyField2(Filled(Table(FieldType))) /\ SteadyField2(Filled(ListOf(Text)))
  /\ SteadyField2(Required(Table(FieldType)))
  /\ SteadyField2(Listed(ListOf(Text))) /\ SteadyField2(Listed(MapOf(Text)))
  /\ SteadyField2(Listed(MapOf(Real)))
  <1>1. \A kind : /\ ListOf(kind).kind \in Nested /\ MapOf(kind).kind \in Nested
                  /\ Table(kind).kind \in Nested
    BY DEF ListOf, MapOf, Table, Nested
  <1>2. ASSUME NEW kind, SteadyLeaf(kind)
        PROVE  /\ SteadyKind2(kind) /\ kind.kind = "scalar" /\ SteadyKind2(ListOf(kind))
               /\ SteadyKind2(MapOf(kind)) /\ SteadyKind2(Table(kind))
    <2>1. Steady2(kind)
      BY <1>2 DEF Steady2
    <2> QED BY <1>2, <2>1, KindsSteady2 DEF SteadyLeaf
  <1> QED BY <1>1, <1>2, ReadersSteady, FieldsSteady2

LEMMA PartFields2 ==
  ASSUME NEW kind, Steady2(kind), kind.kind = "part"
  PROVE  /\ SteadyField2(Required(kind)) /\ SteadyField2(Optional(kind))
         /\ SteadyField2(Listed(ListOf(kind))) /\ SteadyField2(Filled(ListOf(kind)))
  <1>1. SteadyKind2(kind) /\ SteadyKind2(ListOf(kind)) /\ ListOf(kind).kind \in Nested
    BY KindsSteady2 DEF ListOf, Nested
  <1> QED BY <1>1, FieldsSteady2

LEMMA FieldsSteady3 ==
  ASSUME NEW kind, SteadyKind3(kind)
  PROVE  /\ SteadyField3(Required(kind)) /\ SteadyField3(Optional(kind))
         /\ kind.kind \in Nested \cup {"scalar"} => SteadyField3(Filled(kind))
         /\ kind.kind \in Nested => SteadyField3(Listed(kind))
         /\ \A value : AgainField3(kind, value) => SteadyField3(Otherwise(kind, value))
  <1>1. kind.kind \in Nested => Empty(kind) = <<>> /\ AgainField3(kind, <<>>)
    <2>1. ASSUME kind.kind \in Nested, NEW v, v = <<>> PROVE AgainField3(kind, v)
      BY <2>1, EmptyAgain3
    <2>2. kind.kind \in Nested => Empty(kind) = <<>>
      BY DEF Empty, Nested
    <2> QED BY <2>1, <2>2
  <1> QED BY <1>1 DEF SteadyField3, Required, Optional, Filled, Listed, Otherwise

LEMMA KindsSteady3 ==
  /\ \A kind : SteadyLeaf(kind) => SteadyKind3(kind)
  /\ \A kind : Steady3(kind) =>
       /\ SteadyKind3(ListOf(kind)) /\ SteadyKind3(MapOf(kind)) /\ SteadyKind3(Table(kind))
       /\ kind.kind \notin Nested => SteadyKind3(kind)
  BY DEF SteadyKind3, ListOf, MapOf, Table, Nested, Steady3, SteadyLeaf

LEMMA PlainFields3 ==
  /\ \A kind \in {Text, Real, Integer, Size, Level} : SteadyField3(Required(kind))
  /\ \A kind \in {Text, Real, Size} : SteadyField3(Optional(kind))
  /\ SteadyField3(Filled(Text))
  /\ SteadyField3(Filled(MapOf(Text))) /\ SteadyField3(Filled(Table(Text)))
  /\ SteadyField3(Filled(Table(FieldType))) /\ SteadyField3(Filled(ListOf(Text)))
  /\ SteadyField3(Required(Table(FieldType)))
  /\ SteadyField3(Listed(ListOf(Text))) /\ SteadyField3(Listed(MapOf(Text)))
  /\ SteadyField3(Listed(MapOf(Real)))
  <1>1. \A kind : /\ ListOf(kind).kind \in Nested /\ MapOf(kind).kind \in Nested
                  /\ Table(kind).kind \in Nested
    BY DEF ListOf, MapOf, Table, Nested
  <1>2. ASSUME NEW kind, SteadyLeaf(kind)
        PROVE  /\ SteadyKind3(kind) /\ kind.kind = "scalar" /\ SteadyKind3(ListOf(kind))
               /\ SteadyKind3(MapOf(kind)) /\ SteadyKind3(Table(kind))
    <2>1. Steady3(kind)
      BY <1>2 DEF Steady3
    <2> QED BY <1>2, <2>1, KindsSteady3 DEF SteadyLeaf
  <1> QED BY <1>1, <1>2, ReadersSteady, FieldsSteady3

LEMMA PartFields3 ==
  ASSUME NEW kind, Steady3(kind), kind.kind = "part"
  PROVE  /\ SteadyField3(Required(kind)) /\ SteadyField3(Optional(kind))
         /\ SteadyField3(Listed(ListOf(kind))) /\ SteadyField3(Filled(ListOf(kind)))
  <1>1. SteadyKind3(kind) /\ SteadyKind3(ListOf(kind)) /\ ListOf(kind).kind \in Nested
    BY KindsSteady3 DEF ListOf, Nested
  <1> QED BY <1>1, FieldsSteady3

LEMMA Level1Structs ==
  /\ Steady1(Inventory) /\ Steady1(SystemWrite) /\ Steady1(CreateRelation) /\ Steady1(EmitEvent)
  /\ \A kind \in {Inventory, SystemWrite, CreateRelation, EmitEvent} : kind.kind = "part"
  <1>1. Steady1(Inventory)
    BY PlainFields0 DEF Steady1, Part, Inventory
  <1>2. Steady1(SystemWrite)
    BY PlainFields0 DEF Steady1, Part, SystemWrite
  <1>3. Steady1(CreateRelation)
    BY PlainFields0 DEF Steady1, Part, CreateRelation
  <1>4. Steady1(EmitEvent)
    BY PlainFields0, DefaultsSteady0 DEF Steady1, Part, EmitEvent
  <1> QED BY <1>1, <1>2, <1>3, <1>4 DEF Part, Inventory, SystemWrite, CreateRelation, EmitEvent

LEMMA Level2Structs ==
  \A kind \in {AgentWorld, Location, Good, Shop, Agent, Policy, TypedWorld, ComponentType,
               EntityType, RelationType, EventType, TypedSystem} :
    Steady2(kind) /\ kind.kind = "part"
  <1>1. Steady2(AgentWorld) /\ AgentWorld.kind = "part"
    BY PlainFields1 DEF Steady2, Part, AgentWorld
  <1>2. Steady2(Location) /\ Location.kind = "part"
    BY PlainFields1 DEF Steady2, Part, Location
  <1>3. Steady2(Good) /\ Good.kind = "part"
    BY PlainFields1 DEF Steady2, Part, Good
  <1>4. Steady2(Shop) /\ Shop.kind = "part"
    BY PlainFields1, PartFields1, Level1Structs DEF Steady2, Part, Shop
  <1>5. Steady2(Agent) /\ Agent.kind = "part"
    BY PlainFields1, DefaultsSteady1 DEF Steady2, Part, Agent
  <1>6. Steady2(Policy) /\ Policy.kind = "part"
    BY PlainFields1, DefaultsSteady1 DEF Steady2, Part, Policy
  <1>7. Steady2(TypedWorld) /\ TypedWorld.kind = "part"
    BY PlainFields1, DefaultsSteady1 DEF Steady2, Part, TypedWorld
  <1>8. Steady2(ComponentType) /\ ComponentType.kind = "part"
    BY PlainFields1 DEF Steady2, Part, ComponentType
  <1>9. Steady2(EntityType) /\ EntityType.kind = "part"
    BY PlainFields1 DEF Steady2, Part, EntityType
  <1>10. Steady2(RelationType) /\ RelationType.kind = "part"
    BY PlainFields1, DefaultsSteady1 DEF Steady2, Part, RelationType
  <1>11. Steady2(EventType) /\ EventType.kind = "part"
    BY PlainFields1 DEF Steady2, Part, EventType
  <1>12. Steady2(TypedSystem) /\ TypedSystem.kind = "part"
    BY PlainFields1, DefaultsSteady1, PartFields1, Level1Structs DEF Steady2, Part, TypedSystem
  <1> QED BY <1>1, <1>2, <1>3, <1>4, <1>5, <1>6, <1>7, <1>8, <1>9, <1>10, <1>11, <1>12

LEMMA Level3Structs ==
  \A kind \in {AgentLayer, Assumption, Entity, Edge, Constraint, Event, Criterion, Metadata} :
    Steady3(kind) /\ kind.kind = "part"
  <1>1. Steady3(AgentLayer) /\ AgentLayer.kind = "part"
    BY PartFields2, Level2Structs DEF Steady3, Part, AgentLayer
  <1>2. Steady3(Assumption) /\ Assumption.kind = "part"
    BY PlainFields2 DEF Steady3, Part, Assumption
  <1>3. Steady3(Entity) /\ Entity.kind = "part"
    BY PlainFields2 DEF Steady3, Part, Entity
  <1>4. Steady3(Edge) /\ Edge.kind = "part"
    BY PlainFields2 DEF Steady3, Part, Edge
  <1>5. Steady3(Constraint) /\ Constraint.kind = "part"
    BY PlainFields2 DEF Steady3, Part, Constraint
  <1>6. Steady3(Event) /\ Event.kind = "part"
    <2>1. SteadyField2(Otherwise(Text, ""))
      BY DefaultsSteady2
    <2>2. /\ SteadyField2(Required(Text)) /\ SteadyField2(Required(Real))
          /\ SteadyField2(Required(Integer)) /\ SteadyField2(Filled(MapOf(Text)))
      BY PlainFields2
    <2>3. DOMAIN Event.fields = {"event_id", "event_type", "timestamp", "priority",
                                 "trigger_condition", "description", "event_payload"}
      BY DEF Part, Event
    <2>4. /\ Event.fields.event_id = Required(Text) /\ Event.fields.event_type = Required(Text)
          /\ Event.fields.description = Required(Text)
      BY DEF Part, Event
    <2>5. /\ Event.fields.timestamp = Required(Real) /\ Event.fields.priority = Required(Integer)
          /\ Event.fields.event_payload = Filled(MapOf(Text))
      BY DEF Part, Event
    <2>6. Event.fields.trigger_condition = Otherwise(Text, "")
      BY DEF Part, Event
    <2>7. \A key \in DOMAIN Event.fields : SteadyField2(Event.fields[key])
      BY <2>1, <2>2, <2>3, <2>4, <2>5, <2>6
    <2>8. Event.kind = "part"
      BY DEF Part, Event
    <2> QED BY <2>7, <2>8 DEF Steady3
  <1>7. Steady3(Criterion) /\ Criterion.kind = "part"
    BY PlainFields2 DEF Steady3, Part, Criterion
  <1>8. Steady3(Metadata) /\ Metadata.kind = "part"
    BY PlainFields2 DEF Steady3, Part, Metadata
  <1> QED BY <1>1, <1>2, <1>3, <1>4, <1>5, <1>6, <1>7, <1>8

(***************************************************************************)
(* A member that is not read again makes the whole unreadable.             *)
(***************************************************************************)
LEMMA PartRefused3 ==
  ASSUME NEW kind, kind.kind = "part", NEW v, NEW around, NEW layer, NEW key \in DOMAIN kind.fields,
         IsWritten(kind.fields[key], v[key]),
         Field2(kind.fields[key].kind, FieldNode2(kind.fields[key].kind, v[key]),
                Write3(kind, v), layer) = {}
  PROVE  Read3(kind, Write3(kind, v), around, layer) = {}
  <1> DEFINE node == Write3(kind, v)
             reads == [k \in DOMAIN kind.fields |->
                        IF k \in DOMAIN node.at
                        THEN Field2(kind.fields[k].kind, node.at[k], node, layer)
                        ELSE kind.fields[k].missing]
  <1>1. node.node = "map" /\ key \in DOMAIN node.at
        /\ node.at[key] = FieldNode2(kind.fields[key].kind, v[key])
    BY PartWritten3
  <1>2. key \in DOMAIN reads /\ reads[key] = {}
    BY <1>1
  <1>3. Read3(kind, node, around, layer) \in {{}, Whole(reads)}
    BY <1>1 DEF Read3, ReadPart, Field2
  <1>4. Whole(reads) = {}
    <2> HIDE DEF reads
    <2> QED BY <1>2, WholeNone
  <1> QED BY <1>3, <1>4

LEMMA PartRefused4 ==
  ASSUME NEW kind, kind.kind = "part", NEW v, NEW around, NEW layer, NEW key \in DOMAIN kind.fields,
         IsWritten(kind.fields[key], v[key]),
         Field3(kind.fields[key].kind, FieldNode3(kind.fields[key].kind, v[key]),
                Write4(kind, v), layer) = {}
  PROVE  Read4(kind, Write4(kind, v), around, layer) = {}
  <1> DEFINE node == Write4(kind, v)
             reads == [k \in DOMAIN kind.fields |->
                        IF k \in DOMAIN node.at
                        THEN Field3(kind.fields[k].kind, node.at[k], node, layer)
                        ELSE kind.fields[k].missing]
  <1>1. node.node = "map" /\ key \in DOMAIN node.at
        /\ node.at[key] = FieldNode3(kind.fields[key].kind, v[key])
    BY PartWritten4
  <1>2. key \in DOMAIN reads /\ reads[key] = {}
    BY <1>1
  <1>3. Read4(kind, node, around, layer) \in {{}, Whole(reads)}
    BY <1>1 DEF Read4, ReadPart, Field3
  <1>4. Whole(reads) = {}
    <2> HIDE DEF reads
    <2> QED BY <1>2, WholeNone
  <1> QED BY <1>3, <1>4

LEMMA ListRefused3 ==
  ASSUME NEW kind, kind.kind = "list", NEW v, NEW i \in DOMAIN v, NEW around, NEW layer,
         Read3(kind.of, Write3(kind.of, v[i]), Null, layer) = {}
  PROVE  Field3(kind, FieldNode3(kind, v), around, layer) = {}
  <1> DEFINE node == FieldNode3(kind, v)
             reads == [j \in DOMAIN ItemsOf(node) |-> Read3(kind.of, ItemsOf(node)[j], Null, layer)]
  <1>1. node.node = "sequence" /\ node.items = [j \in DOMAIN v |-> Write3(kind.of, v[j])]
    BY ComputedIs DEF FieldNode3, WriteField, Sequence
  <1>2. i \in DOMAIN reads /\ reads[i] = {}
    BY <1>1 DEF ItemsOf
  <1>3. Field3(kind, node, around, layer) = Whole(reads)
    BY <1>1 DEF Field3, ReadField, ReadList
  <1>4. Whole(reads) = {}
    <2> HIDE DEF reads
    <2> QED BY <1>2, WholeNone
  <1> QED BY <1>3, <1>4

(***************************************************************************)
(* The agent layer, and the structs of the first schema version but the    *)
(* variable and the root, whatever YAML they are read from: what the       *)
(* serializer writes of one is read again as the same value, wherever that *)
(* text stands.  WhatIsResolvedIsReread adds the structs with exceptions.  *)
(***************************************************************************)
THEOREM StructsReadAsWritten ==
  \A kind \in {AgentLayer, Assumption, Entity, Edge, Constraint, Event, Criterion, Metadata} :
    \A node, around, layer : \A v \in Read3(kind, node, around, layer) :
      \A around2, layer2 : Read3(kind, Write3(kind, v), around2, layer2) = {v}
  <1> SUFFICES ASSUME NEW kind \in {AgentLayer, Assumption, Entity, Edge, Constraint, Event,
                                    Criterion, Metadata},
                      NEW node, NEW around, NEW layer, NEW v \in Read3(kind, node, around, layer)
               PROVE  Again3(kind, v)
    BY DEF Again3
  <1>1. Steady3(kind)
    BY Level3Structs
  <1> QED BY <1>1, PartKeeps3
===============================================================================
