-------------------------- MODULE Overrides_proofs --------------------------
(***************************************************************************)
(* Proofs about Overrides for every set of options, every configuration    *)
(* and command lines of any length.                                        *)
(***************************************************************************)
EXTENDS Overrides, SequenceTheorems, TLAPS

-----------------------------------------------------------------------------
(* Prefixes of paths.                                                      *)

\* A prefix agrees with the path part by part.
LEMMA PrefixParts ==
    ASSUME NEW S, NEW s \in Seq(S), NEW t \in Seq(S)
    PROVE  IsPrefix(s, t) <=> (Len(s) <= Len(t) /\ \A i \in 1 .. Len(s) : s[i] = t[i])
<1>1. ASSUME Len(s) <= Len(t)
      PROVE  (SubSeq(s, 1, Len(s)) = SubSeq(t, 1, Len(s))) <=> (\A i \in 1 .. Len(s) : s[i] = t[i])
  <2>1. SubSeq(s, 1, Len(s)) = [i \in 1 .. Len(s) |-> s[i]]
    OBVIOUS
  <2>2. SubSeq(t, 1, Len(s)) = [i \in 1 .. Len(s) |-> t[i]]
    BY <1>1
  <2>3. QED
    BY <2>1, <2>2
<1>2. QED
  BY <1>1 DEF IsPrefix

\* Prefixes are an order, and two prefixes of one path are ordered.
LEMMA PrefixOrder ==
    ASSUME NEW S, NEW s \in Seq(S), NEW t \in Seq(S), NEW u \in Seq(S)
    PROVE  /\ IsPrefix(s, s)
           /\ IsPrefix(s, t) /\ IsPrefix(t, u) => IsPrefix(s, u)
           /\ IsPrefix(s, t) /\ IsPrefix(t, s) => s = t
           /\ IsPrefix(s, u) /\ IsPrefix(t, u) => IsPrefix(s, t) \/ IsPrefix(t, s)
<1>0. Len(s) \in Nat /\ Len(t) \in Nat /\ Len(u) \in Nat
  OBVIOUS
<1>1. IsPrefix(s, s)
  BY <1>0, PrefixParts
<1>2. IsPrefix(s, t) /\ IsPrefix(t, u) => IsPrefix(s, u)
  BY <1>0, PrefixParts
<1>3. IsPrefix(s, t) /\ IsPrefix(t, s) => s = t
  <2> SUFFICES ASSUME IsPrefix(s, t), IsPrefix(t, s) PROVE s = t
    OBVIOUS
  <2>1. Len(s) = Len(t) /\ \A i \in 1 .. Len(s) : s[i] = t[i]
    BY <1>0, PrefixParts
  <2>2. QED
    BY <2>1
<1>4. IsPrefix(s, u) /\ IsPrefix(t, u) => IsPrefix(s, t) \/ IsPrefix(t, s)
  BY <1>0, PrefixParts
<1>5. QED
  BY <1>1, <1>2, <1>3, <1>4

\* A key in a table.
LEMMA PrefixOfKey ==
    ASSUME NEW S, NEW s \in Seq(S), NEW p \in Seq(S), NEW k \in S
    PROVE  /\ Append(p, k) \in Seq(S)
           /\ IsStrictPrefix(p, Append(p, k))
           /\ IsPrefix(s, Append(p, k)) => IsPrefix(s, p) \/ s = Append(p, k)
<1> DEFINE a == Append(p, k)
<1>0. Len(p) \in Nat /\ Len(s) \in Nat
  OBVIOUS
<1>1. a \in Seq(S) /\ Len(a) = Len(p) + 1 /\ \A i \in 1 .. Len(p) : a[i] = p[i]
  BY AppendProperties
<1> HIDE DEF a
<1>2. IsPrefix(p, a)
  BY <1>0, <1>1, PrefixParts
<1>3. p # a
  BY <1>0, <1>1
<1>4. ASSUME IsPrefix(s, a), ~IsPrefix(s, p) PROVE s = a
  <2>1. Len(s) <= Len(a) /\ \A i \in 1 .. Len(s) : s[i] = a[i]
    BY <1>1, <1>4, PrefixParts
  <2>2. Len(s) = Len(a)
    <3> SUFFICES ASSUME Len(s) <= Len(p) PROVE FALSE
      BY <1>0, <1>1, <2>1
    <3>1. \A i \in 1 .. Len(s) : s[i] = p[i]
      BY <1>0, <1>1, <2>1
    <3>2. QED
      BY <1>4, <3>1, PrefixParts
  <2>3. IsPrefix(a, s)
    BY <1>0, <1>1, <2>1, <2>2, PrefixParts
  <2>4. QED
    BY <1>1, <1>4, <2>3, PrefixOrder
<1>5. QED
  BY <1>1, <1>2, <1>3, <1>4 DEF IsStrictPrefix, a

-----------------------------------------------------------------------------
(* The leaves of options.                                                  *)

Path == Seq(STRING)

\* Every leaf of an option is at or under its key, and there is one.
LEMMA LeafPath ==
    ASSUME NEW o \in Option
    PROVE  /\ o.parts \in Path /\ o.table \in SUBSET STRING
           /\ Leaves(o) # {}
           /\ \A p \in Leaves(o) : p \in Path /\ IsPrefix(o.parts, p)
<1>1. o.parts \in Seq(STRING) /\ o.table \in SUBSET STRING
  BY OverridesAssumption
<1>2. Leaves(o) # {}
  BY DEF Leaves
<1>3. ASSUME NEW p \in Leaves(o) PROVE p \in Path /\ IsPrefix(o.parts, p)
  <2>1. CASE p = o.parts
    BY <1>1, <2>1, PrefixOrder DEF Path
  <2>2. CASE p # o.parts
    <3>1. PICK k \in o.table : p = Append(o.parts, k)
      BY <1>3, <2>2 DEF Leaves
    <3>2. k \in STRING
      BY <1>1
    <3>3. QED
      BY <1>1, <3>1, <3>2, PrefixOfKey DEF Path, IsStrictPrefix
  <2>3. QED
    BY <2>1, <2>2
<1>4. QED
  BY <1>1, <1>2, <1>3 DEF Path

\* No leaf of an option is under another of its leaves.
LEMMA LeavesFlat ==
    ASSUME NEW o \in Option, NEW p \in Leaves(o), NEW q \in Leaves(o)
    PROVE  ~IsStrictPrefix(p, q)
<1>1. CASE o.table = {}
  BY <1>1 DEF Leaves, IsStrictPrefix
<1>2. CASE o.table # {}
  <2>1. PICK k \in o.table : p = Append(o.parts, k)
    BY <1>2 DEF Leaves
  <2>2. PICK l \in o.table : q = Append(o.parts, l)
    BY <1>2 DEF Leaves
  <2>3. o.parts \in Seq(STRING) /\ k \in STRING /\ l \in STRING
    BY LeafPath DEF Path
  <2>4. p \in Seq(STRING) /\ IsStrictPrefix(o.parts, p)
    BY <2>1, <2>3, PrefixOfKey
  <2>5. IsPrefix(p, q) => IsPrefix(p, o.parts) \/ p = q
    BY <2>2, <2>3, <2>4, PrefixOfKey
  <2>6. ~IsPrefix(p, o.parts)
    BY <2>3, <2>4, PrefixOrder DEF IsStrictPrefix
  <2>7. QED
    BY <2>5, <2>6 DEF IsStrictPrefix
<1>3. QED
  BY <1>1, <1>2

\* Two keys, neither of them strictly under the other.
Apart(o, u) == ~IsStrictPrefix(o.parts, u.parts) /\ ~IsStrictPrefix(u.parts, o.parts)

\* A leaf of one option comes under the key of another only if the keys are equal.
LEMMA LeafApart ==
    ASSUME NEW o \in Option, NEW u \in Option, Apart(o, u), NEW p \in Leaves(o),
           IsPrefix(u.parts, p)
    PROVE  o.parts = u.parts
<1>1. o.parts \in Seq(STRING) /\ u.parts \in Seq(STRING)
  BY LeafPath DEF Path
<1>2. CASE p = o.parts
  BY <1>2 DEF Apart, IsStrictPrefix
<1>3. CASE p # o.parts
  <2>1. PICK k \in o.table : p = Append(o.parts, k)
    BY <1>3 DEF Leaves
  <2>2. k \in STRING
    BY LeafPath
  <2>3. IsPrefix(u.parts, o.parts) \/ u.parts = p
    BY <1>1, <2>1, <2>2, PrefixOfKey
  <2>4. IsStrictPrefix(o.parts, p)
    BY <1>1, <2>1, <2>2, PrefixOfKey
  <2>5. QED
    BY <2>3, <2>4 DEF Apart, IsStrictPrefix
<1>4. QED
  BY <1>2, <1>3

\* Nor does a leaf of one come under a leaf of the other.
LEMMA LeavesApart ==
    ASSUME NEW o \in Option, NEW u \in Option, Apart(o, u), NEW p \in Leaves(o),
           NEW q \in Leaves(u), IsPrefix(q, p)
    PROVE  o.parts = u.parts
<1>1. /\ u.parts \in Seq(STRING) /\ p \in Seq(STRING) /\ q \in Seq(STRING)
      /\ IsPrefix(u.parts, q)
  BY LeafPath DEF Path
<1>2. IsPrefix(u.parts, p)
  BY <1>1, PrefixOrder
<1>3. QED
  BY <1>2, LeafApart

-----------------------------------------------------------------------------
(* What is nested when option next is reached.                             *)

Done == 1 .. next - 1

\* The options nested so far have their leaves, the last one of a key at least.
Placed ==
    \A i \in Done :
        \/ \E j \in Done : j > i /\ given[j].parts = given[i].parts
        \/ \A p \in Leaves(given[i]) : p \in DOMAIN tree /\ tree[p] = i

\* And only those leaves are there, none under another.
Known == \A p \in DOMAIN tree : \E i \in Done : p \in Leaves(given[i])
Flat  == \A p, q \in DOMAIN tree : ~IsStrictPrefix(p, q)

\* The options passed the check for conflicts.
Clear == \A i, j \in 1 .. Len(given) : Apart(given[i], given[j])

NestInv ==
    /\ given \in Seq(Option) /\ files \in FileConfig
    /\ next \in 1 .. Len(given) + 1
    /\ pc \in {"parse", "refused", "nest", "merge", "done"}
    /\ pc = "parse" => next = 1
    /\ pc \in {"nest", "merge", "done"} => Clear
    /\ pc \in {"merge", "done"} => next = Len(given) + 1
    /\ Placed /\ Known /\ Flat
    /\ pc = "done" =>
          result = [p \in DOMAIN Merged |->
                       [value |-> Merged[p], origin |-> ProvenanceNamingTheCli(p)]]

\* Nesting one more option.
LEMMA NestKeeps ==
    ASSUME NestInv, pc = "nest", next <= Len(given), given' = given,
           tree' = NestOverride(next), next' = next + 1
    PROVE  Placed' /\ Known' /\ Flat'
<1> DEFINE o == given[next]
           rest == {q \in DOMAIN tree : ~Under(q, o.parts)}
<1>1. /\ Len(given) \in Nat /\ next \in 1 .. Len(given)
      /\ \A i \in 1 .. Len(given) : given[i] \in Option
  BY DEF NestInv
<1>2. o \in Option
  BY <1>1
<1>3. Done \subseteq 1 .. Len(given) /\ Done' = Done \cup {next} /\ next \notin Done
  BY <1>1 DEF Done
<1>4. /\ DOMAIN tree' = Leaves(o) \cup rest
      /\ \A p \in Leaves(o) : tree'[p] = next
      /\ \A p \in rest \ Leaves(o) : tree'[p] = tree[p]
  BY DEF NestOverride
<1>5. \A i \in Done : Apart(given[i], o) /\ Apart(o, given[i])
  BY <1>1, <1>3 DEF NestInv, Clear
<1> HIDE DEF o
<1>6. Placed'
  <2> SUFFICES ASSUME NEW i \in Done'
               PROVE  \/ \E j \in Done' : j > i /\ given[j].parts = given[i].parts
                      \/ \A p \in Leaves(given[i]) : p \in DOMAIN tree' /\ tree'[p] = i
    BY DEF Placed
  <2>1. CASE i = next
    BY <1>4, <2>1 DEF o
  <2>2. CASE i \in Done /\ given[i].parts = o.parts
    <3>1. next > i /\ given[next].parts = given[i].parts
      BY <1>1, <2>2 DEF Done, o
    <3>2. QED
      BY <1>3, <3>1
  <2>3. CASE i \in Done /\ given[i].parts # o.parts
    <3>1. CASE \E j \in Done : j > i /\ given[j].parts = given[i].parts
      BY <1>3, <3>1
    <3>2. CASE \A p \in Leaves(given[i]) : p \in DOMAIN tree /\ tree[p] = i
      <4>1. ASSUME NEW p \in Leaves(given[i]) PROVE p \in DOMAIN tree' /\ tree'[p] = i
        <5>1. given[i] \in Option
          BY <1>1, <1>3, <2>3
        <5>2. ~IsPrefix(o.parts, p)
          BY <1>2, <1>5, <2>3, <5>1, LeafApart
        <5>3. p \notin Leaves(o)
          BY <1>2, <5>2, LeafPath
        <5>4. p \in rest
          BY <3>2, <5>2 DEF Under
        <5>5. QED
          BY <1>4, <3>2, <5>3, <5>4
      <4>2. QED
        BY <4>1
    <3>3. QED
      BY <2>3, <3>1, <3>2 DEF NestInv, Placed
  <2>4. QED
    BY <1>3, <2>1, <2>2, <2>3
<1>7. Known'
  <2> SUFFICES ASSUME NEW p \in DOMAIN tree' PROVE \E i \in Done' : p \in Leaves(given[i])
    BY DEF Known
  <2>1. CASE p \in Leaves(o)
    BY <1>3, <2>1 DEF o
  <2>2. CASE p \in rest
    BY <1>3, <2>2 DEF NestInv, Known
  <2>3. QED
    BY <1>4, <2>1, <2>2
<1>8. Flat'
  <2> SUFFICES ASSUME NEW p \in DOMAIN tree', NEW q \in DOMAIN tree', IsStrictPrefix(p, q)
               PROVE  FALSE
    BY DEF Flat
  <2>1. CASE p \in Leaves(o) /\ q \in Leaves(o)
    BY <1>2, <2>1, LeavesFlat
  <2>2. CASE p \in rest /\ q \in rest
    BY <2>2 DEF NestInv, Flat
  <2>3. CASE p \in Leaves(o) /\ q \in rest
    <3>1. PICK i \in Done : q \in Leaves(given[i])
      BY <2>3 DEF NestInv, Known
    <3>2. given[i] \in Option
      BY <1>1, <1>3
    <3>3. /\ o.parts \in Seq(STRING) /\ p \in Seq(STRING) /\ q \in Seq(STRING)
          /\ IsPrefix(o.parts, p)
      BY <1>2, <2>3, <3>1, <3>2, LeafPath DEF Path
    <3>4. IsPrefix(o.parts, q)
      BY <3>3, PrefixOrder DEF IsStrictPrefix
    <3>5. QED
      BY <2>3, <3>4 DEF Under
  <2>4. CASE p \in rest /\ q \in Leaves(o)
    <3>1. PICK i \in Done : p \in Leaves(given[i])
      BY <2>4 DEF NestInv, Known
    <3>2. given[i] \in Option
      BY <1>1, <1>3
    <3>3. o.parts = given[i].parts
      BY <1>2, <1>5, <2>4, <3>1, <3>2, LeavesApart DEF IsStrictPrefix
    <3>4. IsPrefix(o.parts, p)
      BY <3>1, <3>2, <3>3, LeafPath
    <3>5. QED
      BY <2>4, <3>4 DEF Under
  <2>5. QED
    BY <1>4, <2>1, <2>2, <2>3, <2>4
<1>9. QED
  BY <1>6, <1>7, <1>8

\* The command line and the configuration are what they were, and the check
\* comes before everything.
LEMMA NestInit == Init => NestInv
<1> SUFFICES ASSUME Init PROVE NestInv
  OBVIOUS
<1>1. given \in Seq(Option)
  <2>1. PICK n \in 0 .. MaxOptions : given \in [1 .. n -> Option]
    BY DEF Init, Options
  <2>2. n \in Nat
    BY OverridesAssumption
  <2>3. QED
    BY <2>1, <2>2, SeqDef
<1>2. Len(given) \in Nat
  BY <1>1
<1>3. Done = {} /\ DOMAIN tree = {}
  BY DEF Init, Done, NoLeaf
<1>4. Placed /\ Known /\ Flat
  BY <1>3 DEF Placed, Known, Flat
<1>5. QED
  BY <1>1, <1>2, <1>4 DEF Init, NestInv

\* Every step keeps the invariant.
LEMMA NestStep == NestInv /\ [Next]_vars => NestInv'
<1> SUFFICES ASSUME NestInv, [Next]_vars PROVE NestInv'
  OBVIOUS
<1>0. Len(given) \in Nat
  BY DEF NestInv
<1>1. CASE UNCHANGED vars
  <2>1. UNCHANGED <<given, files, tree, next, result, pc>>
    BY <1>1 DEF vars
  <2>2. Placed' /\ Known' /\ Flat' /\ (Clear' <=> Clear)
    BY <2>1 DEF NestInv, Placed, Known, Flat, Clear, Done
  <2>3. pc = "done" =>
           (result = [p \in DOMAIN Merged |->
                         [value |-> Merged[p], origin |-> ProvenanceNamingTheCli(p)]])'
    BY <2>1 DEF NestInv, Merged, ProvenanceNamingTheCli
  <2>4. QED
    BY <2>1, <2>2, <2>3 DEF NestInv
<1>2. CASE Check
  <2>1. UNCHANGED <<given, files, tree, next, result>> /\ pc = "parse"
    BY <1>2 DEF Check
  <2>2. Placed' /\ Known' /\ Flat'
    BY <2>1 DEF NestInv, Placed, Known, Flat, Done
  <2>3. pc' \in {"merge", "refused", "nest"}
    BY <1>2 DEF Check
  <2>4. pc' = "merge" => next = Len(given) + 1
    BY <1>2 DEF Check, NestInv
  <2>5. pc' \in {"nest", "merge"} => Clear'
    <3>1. CASE given = <<>>
      BY <2>1, <3>1 DEF Clear
    <3>2. CASE given # <<>>
      BY <1>2, <2>1, <3>2 DEF Check, RefuseConflicts, Clear, Apart
    <3>3. QED
      BY <3>1, <3>2
  <2>6. QED
    BY <2>1, <2>2, <2>3, <2>4, <2>5 DEF NestInv
<1>3. CASE Nest
  <2>1. UNCHANGED <<given, files, result>> /\ pc = "nest" /\ Clear
    BY <1>3 DEF Nest, NestInv
  <2>2. Clear'
    BY <2>1 DEF Clear
  <2>3. CASE next <= Len(given)
    <3>1. tree' = NestOverride(next) /\ next' = next + 1 /\ pc' = "nest"
      BY <1>3, <2>1, <2>3 DEF Nest
    <3>2. Placed' /\ Known' /\ Flat'
      BY <2>1, <2>3, <3>1, NestKeeps
    <3>3. QED
      BY <1>0, <2>1, <2>2, <2>3, <3>1, <3>2 DEF NestInv
  <2>4. CASE ~(next <= Len(given))
    <3>1. UNCHANGED <<tree, next>> /\ pc' = "merge" /\ next = Len(given) + 1
      BY <1>0, <1>3, <2>1, <2>4 DEF Nest, NestInv
    <3>2. Placed' /\ Known' /\ Flat'
      BY <2>1, <3>1 DEF NestInv, Placed, Known, Flat, Done
    <3>3. QED
      BY <2>1, <2>2, <3>1, <3>2 DEF NestInv
  <2>5. QED
    BY <2>3, <2>4
<1>4. CASE ApplyOverrides
  <2>1. UNCHANGED <<given, files, tree, next>> /\ pc = "merge" /\ pc' = "done"
    BY <1>4 DEF ApplyOverrides
  <2>2. Placed' /\ Known' /\ Flat' /\ Clear'
    BY <2>1 DEF NestInv, Placed, Known, Flat, Done, Clear
  <2>3. result' = [p \in DOMAIN Merged |->
                      [value |-> Merged[p], origin |-> ProvenanceNamingTheCli(p)]]
    BY <1>4 DEF ApplyOverrides
  <2>4. (result = [p \in DOMAIN Merged |->
                      [value |-> Merged[p], origin |-> ProvenanceNamingTheCli(p)]])'
    BY <2>1, <2>3 DEF Merged, ProvenanceNamingTheCli
  <2>5. QED
    BY <2>1, <2>2, <2>4 DEF NestInv
<1>5. QED
  BY <1>1, <1>2, <1>3, <1>4 DEF Next

\* So it holds for ever.
LEMMA NestInvariant == Spec => []NestInv
  BY NestInit, NestStep, PTL DEF Spec

\* What the result is made of.
LEMMA ResultShape ==
    ASSUME NestInv, pc = "done"
    PROVE  /\ DOMAIN tree \subseteq DOMAIN result
           /\ \A p \in DOMAIN tree : result[p].value = tree[p]
           /\ \A p \in DOMAIN result \ DOMAIN tree :
                 /\ p \in files /\ result[p].value = 0
                 /\ \A r \in DOMAIN tree : ~Under(p, r) /\ ~Under(r, p)
           /\ \A p \in files :
                 (\A r \in DOMAIN tree : ~Under(p, r) /\ ~Under(r, p)) => p \in DOMAIN result
           /\ \A p \in DOMAIN result :
                 result[p] = [value |-> result[p].value, origin |-> ProvenanceNamingTheCli(p)]
<1> DEFINE alone == {q \in files : \A r \in DOMAIN tree : ~Under(q, r) /\ ~Under(r, q)}
<1>1. /\ DOMAIN Merged = DOMAIN tree \cup alone
      /\ \A p \in DOMAIN Merged : Merged[p] = IF p \in DOMAIN tree THEN tree[p] ELSE 0
  BY DEF Merged
<1>2. /\ DOMAIN result = DOMAIN Merged
      /\ \A p \in DOMAIN Merged :
            result[p] = [value |-> Merged[p], origin |-> ProvenanceNamingTheCli(p)]
  BY DEF NestInv
<1> HIDE DEF alone
<1>3. \A p \in DOMAIN result : result[p].value = Merged[p]
  BY <1>2
<1>4. \A p \in DOMAIN result :
          result[p] = [value |-> result[p].value, origin |-> ProvenanceNamingTheCli(p)]
  BY <1>2, <1>3
<1>5. /\ DOMAIN tree \subseteq DOMAIN result
      /\ \A p \in DOMAIN tree : result[p].value = tree[p]
      /\ \A p \in DOMAIN result \ DOMAIN tree : p \in alone /\ result[p].value = 0
  BY <1>1, <1>2, <1>3
<1>6. alone \subseteq DOMAIN result
  BY <1>1, <1>2
<1>7. QED
  BY <1>4, <1>5, <1>6 DEF alone

\* No option is lost, for any command line without conflicts and any files.
THEOREM OptionsKept == Spec => []NoOptionLost
<1>1. NestInv => NoOptionLost
  <2> SUFFICES ASSUME NestInv, pc = "done", NEW i \in 1 .. Len(given)
               PROVE  \/ \E j \in i + 1 .. Len(given) : given[j].parts = given[i].parts
                      \/ \A p \in Leaves(given[i]) :
                            /\ p \in DOMAIN result /\ result[p].value = i
                            /\ given[i].table = {} => result[p].origin = "cli"
    BY DEF NoOptionLost
  <2>1. Len(given) \in Nat /\ Done = 1 .. Len(given)
    BY DEF NestInv, Done
  <2>2. CASE \E j \in Done : j > i /\ given[j].parts = given[i].parts
    BY <2>1, <2>2
  <2>3. CASE \A p \in Leaves(given[i]) : p \in DOMAIN tree /\ tree[p] = i
    <3> SUFFICES ASSUME NEW p \in Leaves(given[i])
                 PROVE  /\ p \in DOMAIN result /\ result[p].value = i
                        /\ given[i].table = {} => result[p].origin = "cli"
      OBVIOUS
    <3>1. p \in DOMAIN result /\ result[p].value = i
      BY <2>3, ResultShape
    <3>2. given[i].table = {} => p = given[i].parts
      BY DEF Leaves
    <3>3. given[i].table = {} => ProvenanceNamingTheCli(p) = "cli"
      BY <3>2 DEF ProvenanceNamingTheCli
    <3>4. result[p].origin = ProvenanceNamingTheCli(p)
      BY <3>1, ResultShape
    <3>5. QED
      BY <3>1, <3>3, <3>4
  <2>4. QED
    BY <2>1, <2>2, <2>3 DEF NestInv, Placed
<1>2. QED
  BY <1>1, NestInvariant, PTL

\* What no option touches stays, and the result is a configuration again.
THEOREM OthersKept == Spec => []OthersUntouched
<1>1. NestInv => OthersUntouched
  <2> SUFFICES ASSUME NestInv, pc = "done" PROVE
        /\ \A p \in files :
              (\A i \in 1 .. Len(given) :
                   \A q \in Leaves(given[i]) : ~Under(p, q) /\ ~Under(q, p))
                  => p \in DOMAIN result /\ result[p] = [value |-> 0, origin |-> "file"]
        /\ \A p \in DOMAIN result :
              /\ p \in files \/ \E i \in 1 .. Len(given) : p \in Leaves(given[i])
              /\ \A q \in DOMAIN result : ~IsStrictPrefix(p, q)
    BY DEF OthersUntouched
  <2>1. Len(given) \in Nat /\ Done = 1 .. Len(given)
    BY DEF NestInv, Done
  <2>2. \A i \in 1 .. Len(given) : given[i] \in Option
    BY DEF NestInv
  <2>3. /\ \A p \in files : p \in Seq(STRING)
        /\ \A p, q \in files : ~IsStrictPrefix(p, q)
    BY OverridesAssumption DEF NestInv
  <2>4. \A r \in DOMAIN tree : \E i \in 1 .. Len(given) : r \in Leaves(given[i])
    BY <2>1 DEF NestInv, Known
  <2>5. ASSUME NEW p \in files,
               \A i \in 1 .. Len(given) :
                   \A q \in Leaves(given[i]) : ~Under(p, q) /\ ~Under(q, p)
        PROVE  p \in DOMAIN result /\ result[p] = [value |-> 0, origin |-> "file"]
    <3>1. \A r \in DOMAIN tree : ~Under(p, r) /\ ~Under(r, p)
      BY <2>4, <2>5
    <3>2. p \in DOMAIN result
      BY <3>1, ResultShape
    <3>3. p \notin DOMAIN tree
      <4>1. Under(p, p)
        BY <2>3, PrefixOrder DEF Under
      <4>2. QED
        BY <3>1, <4>1
    <3>4. result[p].value = 0
      BY <3>2, <3>3, ResultShape
    <3>5. ASSUME NEW i \in 1 .. Len(given), p = given[i].parts PROVE FALSE
      <4>1. PICK q \in Leaves(given[i]) : TRUE
        BY <2>2, LeafPath
      <4>2. Under(q, p)
        BY <2>2, <3>5, <4>1, LeafPath DEF Under
      <4>3. QED
        BY <2>5, <4>1, <4>2
    <3>6. ProvenanceNamingTheCli(p) = "file"
      BY <3>5 DEF ProvenanceNamingTheCli
    <3>7. QED
      BY <3>2, <3>4, <3>6, ResultShape
  <2>6. ASSUME NEW p \in DOMAIN result, NEW q \in DOMAIN result PROVE ~IsStrictPrefix(p, q)
    <3>1. CASE p \in DOMAIN tree /\ q \in DOMAIN tree
      BY <3>1 DEF NestInv, Flat
    <3>2. CASE p \in DOMAIN tree /\ q \notin DOMAIN tree
      BY <3>2, ResultShape DEF Under, IsStrictPrefix
    <3>3. CASE p \notin DOMAIN tree /\ q \in DOMAIN tree
      BY <3>3, ResultShape DEF Under, IsStrictPrefix
    <3>4. CASE p \notin DOMAIN tree /\ q \notin DOMAIN tree
      BY <2>3, <3>4, ResultShape
    <3>5. QED
      BY <3>1, <3>2, <3>3, <3>4
  <2>7. ASSUME NEW p \in DOMAIN result
        PROVE  p \in files \/ \E i \in 1 .. Len(given) : p \in Leaves(given[i])
    BY <2>4, ResultShape
  <2>8. QED
    BY <2>5, <2>6, <2>7
<1>2. QED
  BY <1>1, NestInvariant, PTL
=============================================================================
