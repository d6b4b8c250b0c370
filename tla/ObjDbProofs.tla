----------------------------- MODULE ObjDbProofs -----------------------------
(****************************************************************************)
(* For any packs, any objects and any processes: what the object database   *)
(* answers is right, whatever is in the caches of its packs; an object is   *)
(* missed only behind an empty fanout bucket or because its file is empty;  *)
(* what is stored stays visible; and only a kill leaves a file half done.   *)
(****************************************************************************)
EXTENDS ObjDb, FiniteSetTheorems, TLAPS

-----------------------------------------------------------------------------
(* Numbers *)

NatLess == OpToRel(<, Nat)

\* A nonempty set of natural numbers has a least element.
LEMMA NatMin ==
    ASSUME NEW S \in SUBSET Nat, S # {}
    PROVE  \E x \in S : \A y \in S : x <= y
<1>1. IsWellFoundedOn(NatLess, Nat)
  BY NatLessThanWellFounded, Zenon DEF NatLess
<1>2. \A x, y \in Nat : <<y, x>> \in NatLess <=> y < x
  BY Zenon DEF NatLess, OpToRel
<1>3. PICK x \in S : \A y \in S : ~(<<y, x>> \in NatLess)
  BY <1>1, WFMin, Zenon
<1>4. \A y \in S : ~(y < x)
  BY <1>2, <1>3, Zenon
<1> QED BY <1>4, SMT

\* What Max returns for a nonempty set of numbers up to n.
LEMMA MaxLemma ==
    ASSUME NEW n \in Nat, NEW S \in SUBSET (1..n), S # {}
    PROVE  Max(S) \in S /\ \A i \in S : i <= Max(S)
<1> DEFINE T == {n - i : i \in S}
<1>1. T \in SUBSET Nat /\ T # {}
  <2>1. \A i \in S : n - i \in Nat
    OBVIOUS
  <2>2. \A t \in T : t \in Nat
    BY <2>1, Zenon
  <2>3. \E t : t \in T
    BY Zenon
  <2> QED BY <2>2, <2>3, Zenon
<1>2. PICK t \in T : \A u \in T : t <= u
  <2> HIDE DEF T
  <2> QED BY <1>1, NatMin, Zenon
<1>3. PICK i \in S : t = n - i
  OBVIOUS
<1>4. \A j \in S : n - j \in T
  OBVIOUS
<1>5. \A j \in S : i >= j
  <2> HIDE DEF T
  <2> QED BY <1>2, <1>3, <1>4
<1>6. \E x \in S : \A y \in S : x >= y
  BY <1>5, Zenon
<1>7. Max(S) \in S /\ \A y \in S : Max(S) >= y
  BY <1>6, Zenon DEF Max
<1> QED BY <1>7

-----------------------------------------------------------------------------
(* What a pack holds *)

\* What the entries of a pack are.
LEMMA EntryFacts ==
    ASSUME NEW k \in Pack
    PROVE  /\ Len(Entry[k]) \in Nat /\ DOMAIN Entry[k] = 1..Len(Entry[k])
           /\ \A i \in DOMAIN Entry[k] :
                 /\ Entry[k][i].kind \in {"raw", "ofs", "ref"} /\ Entry[k][i].data \in Oid
                 /\ Entry[k][i].kind = "ofs" => Entry[k][i].base \in 1..(i - 1)
                 /\ Entry[k][i].kind = "ref" => Entry[k][i].base \in Oid
<1>1. Entry[k] = [i \in 1..Len(Entry[k]) |-> Entry[k][i]]
  BY EntryAssumption, Zenon
<1>2. DOMAIN [i \in 1..Len(Entry[k]) |-> Entry[k][i]] = 1..Len(Entry[k])
  BY Zenon
<1>3. DOMAIN Entry[k] = 1..Len(Entry[k])
  BY <1>1, <1>2, Zenon
<1> QED BY <1>3, EntryAssumption, Zenon

\* expand_deltas only looks at the entries before.
LEMMA ExpandDeltasLocal ==
    ASSUME NEW k \in Pack, NEW i \in DOMAIN Entry[k], NEW F, NEW G, \A j \in 1..(i - 1) : F[j] = G[j]
    PROVE  ExpandDeltas(k, F, i) = ExpandDeltas(k, G, i)
<1> DEFINE e == Entry[k][i]
           before == {j \in 1..(i - 1) : F[j] = e.base}
<1>1. before = {j \in 1..(i - 1) : G[j] = e.base}
  BY Zenon
<1>2. ASSUME before # {} PROVE F[Max(before)] = G[Max(before)]
  <2>1. i - 1 \in Nat /\ before \in SUBSET (1..(i - 1))
    BY EntryFacts
  <2>2. Max(before) \in before
    <3> HIDE DEF before
    <3> QED BY <1>2, <2>1, MaxLemma, Zenon
  <2> QED BY <2>2, Zenon
<1>3. ASSUME e.kind = "ofs" PROVE i - e.base \in 1..(i - 1)
  BY <1>3, EntryFacts
<1>4. ASSUME e.kind = "ofs" PROVE F[i - e.base] = G[i - e.base]
  BY <1>3, <1>4, Zenon
<1>5. e.kind \in {"raw", "ofs", "ref"}
  BY EntryFacts, Zenon
<1> HIDE DEF before
<1>6. CASE e.kind = "raw"
  BY <1>6 DEF ExpandDeltas, ReadPackObj
<1>7. CASE e.kind = "ofs"
  BY <1>4, <1>7 DEF ExpandDeltas, ReadPackObj
<1>8. CASE e.kind = "ref" /\ before = {}
  BY <1>1, <1>8 DEF ExpandDeltas, ReadPackObj, before
<1>9. CASE e.kind = "ref" /\ before # {}
  BY <1>1, <1>2, <1>9 DEF ExpandDeltas, ReadPackObj, before
<1> QED BY <1>5, <1>6, <1>7, <1>8, <1>9, Zenon

\* What an entry expands to.
LEMMA ExpandDeltasType ==
    ASSUME NEW k \in Pack, NEW i \in DOMAIN Entry[k], NEW F
    PROVE  ExpandDeltas(k, F, i) \in Oid \cup {None, Bad}
<1>1. Entry[k][i].kind \in {"raw", "ofs", "ref"} /\ Entry[k][i].data \in Oid
  BY EntryFacts, Zenon
<1> QED BY <1>1 DEF ExpandDeltas, ReadPackObj, Expand

\* There are contents that satisfy the indexer's recursion: an entry needs only
\* the ones before it.
LEMMA ExpandedExists ==
    ASSUME NEW k \in Pack
    PROVE  \E F : F = [i \in DOMAIN Entry[k] |-> ExpandDeltas(k, F, i)]
<1> DEFINE N == Len(Entry[k])
           Until(F, m) == /\ F \in [1..N -> Oid \cup {None, Bad}]
                          /\ \A i \in 1..m : F[i] = ExpandDeltas(k, F, i)
           Undone == {m \in 0..N : ~\E F : Until(F, m)}
<1>1. N \in Nat /\ DOMAIN Entry[k] = 1..N
  BY EntryFacts, Zenon
<1> HIDE DEF N
<1>b. \A m \in 0..N : m \in Undone <=> ~\E F : Until(F, m)
  <2> HIDE DEF Until
  <2> QED BY Zenon
<1>2. ASSUME Undone # {} PROVE FALSE
  <2>0. Undone \in SUBSET Nat
    BY <1>1
  <2>1. PICK m \in Undone : \A j \in Undone : m <= j
    <3> HIDE DEF Undone
    <3> QED BY <1>2, <2>0, NatMin, Zenon
  <2>2. m \in 0..N /\ m \in Nat
    BY <1>1
  <2>3. CASE m = 0
    <3> DEFINE F == [i \in 1..N |-> None]
    <3>1. F \in [1..N -> Oid \cup {None, Bad}]
      BY Zenon
    <3>2. \A i \in 1..0 : FALSE
      OBVIOUS
    <3> HIDE DEF F
    <3>3. Until(F, 0)
      BY <3>1, <3>2, Zenon
    <3> HIDE DEF Until
    <3> QED BY <1>b, <2>2, <2>3, <3>3, Zenon
  <2>4. CASE m # 0
    <3>1. m - 1 \in 0..N /\ m - 1 \notin Undone /\ m \in 1..N
      <4> HIDE DEF Undone
      <4> QED BY <1>1, <2>1, <2>2, <2>4
    <3>2. PICK G : Until(G, m - 1)
      <4> HIDE DEF Until, Undone
      <4> QED BY <1>b, <3>1, Zenon
    <3> DEFINE F == [G EXCEPT ![m] = ExpandDeltas(k, G, m)]
    <3>3. ExpandDeltas(k, G, m) \in Oid \cup {None, Bad}
      BY <1>1, <3>1, ExpandDeltasType, Zenon
    <3>4. F \in [1..N -> Oid \cup {None, Bad}] /\ F[m] = ExpandDeltas(k, G, m)
          /\ \A i \in 1..N : i # m => F[i] = G[i]
      BY <3>1, <3>2, <3>3, Zenon
    <3> HIDE DEF F
    <3>5. ASSUME NEW i \in 1..m PROVE F[i] = ExpandDeltas(k, F, i)
      <4>1. i \in 1..N /\ \A j \in 1..(i - 1) : j \in 1..N /\ j # m
        BY <1>1, <2>2, <3>1
      <4>2. ExpandDeltas(k, F, i) = ExpandDeltas(k, G, i)
        <5>1. i \in DOMAIN Entry[k] /\ \A j \in 1..(i - 1) : F[j] = G[j]
          BY <1>1, <3>4, <4>1, Zenon
        <5> HIDE DEF Until
        <5> QED BY <5>1, ExpandDeltasLocal, Zenon
      <4>3. i = m \/ i \in 1..(m - 1)
        BY <2>2
      <4> QED BY <3>2, <3>4, <4>1, <4>2, <4>3, Zenon
    <3>6. Until(F, m)
      BY <3>4, <3>5, Zenon
    <3> HIDE DEF Until
    <3> QED BY <1>b, <2>2, <3>6, Zenon
  <2> QED BY <2>3, <2>4, Zenon
<1>3. N \notin Undone /\ N \in 0..N
  <2> HIDE DEF Undone
  <2> QED BY <1>1, <1>2
<1>4. PICK F : Until(F, N)
  <2> HIDE DEF Until, Undone
  <2> QED BY <1>b, <1>3, Zenon
<1>5. F = [i \in 1..N |-> ExpandDeltas(k, F, i)]
  BY <1>4, Zenon
<1> QED BY <1>1, <1>5, Zenon

\* So the indexer's recursion describes what it computes.
LEMMA ExpandedUnfolds ==
    ASSUME NEW k \in Pack
    PROVE  /\ Expanded[k] \in [DOMAIN Entry[k] -> Oid \cup {None, Bad}]
           /\ \A i \in DOMAIN Entry[k] : Expanded[k][i] = ExpandDeltas(k, Expanded[k], i)
<1> DEFINE Is(F) == F = [i \in DOMAIN Entry[k] |-> ExpandDeltas(k, F, i)]
<1>1. Expanded[k] = CHOOSE F : Is(F)
  BY Zenon DEF Expanded
<1>2. \E F : Is(F)
  BY ExpandedExists, Zenon
<1>3. Is(Expanded[k])
  <2> HIDE DEF Is
  <2> QED BY <1>1, <1>2, Zenon
<1>4. \A i \in DOMAIN Entry[k] : ExpandDeltas(k, Expanded[k], i) \in Oid \cup {None, Bad}
  BY ExpandDeltasType, Zenon
<1>5. \A i \in DOMAIN Entry[k] : Expanded[k][i] = ExpandDeltas(k, Expanded[k], i)
  BY <1>3, Zenon
<1>6. Expanded[k] = [i \in DOMAIN Entry[k] |-> Expanded[k][i]]
  BY <1>3, <1>5, Zenon
<1> QED BY <1>4, <1>5, <1>6, Zenon

\* The objects of a pack.
Contents(k) == Range(Expanded[k])

LEMMA ObjectsLemma == \A k \in DOMAIN Idx : Objects[k] = Contents(k)
BY Zenon DEF Idx, Objects, Contents

\* An index exists for the packs that can be indexed: each entry is an object,
\* a delta fits its base, and the base a delta names is in the pack.
LEMMA IndexedPack ==
    ASSUME NEW k \in DOMAIN Idx
    PROVE  /\ k \in Pack
           /\ Expanded[k] \in [DOMAIN Entry[k] -> Oid]
           /\ \A i \in DOMAIN Entry[k] :
                 LET e == Entry[k][i] IN
                    /\ e.kind = "raw" => Expanded[k][i] = e.data
                    /\ e.kind = "ofs" => Expanded[k][i] = Expand(Expanded[k][i - e.base], e)
                    /\ e.kind = "ref" => /\ e.base \in Contents(k)
                                         /\ Expanded[k][i] = Expand(e.base, e)
<1>1. k \in Pack /\ Indexable(k)
  BY Zenon DEF Idx
<1>2. ASSUME NEW i \in DOMAIN Entry[k]
      PROVE  Expanded[k][i] \in Oid /\ Expanded[k][i] # None
  <2>1. Expanded[k][i] \in Range(Expanded[k])
    BY <1>1, ExpandedUnfolds, Zenon DEF Range
  <2>2. Expanded[k][i] \notin {None, Bad}
    BY <1>1, <2>1, Zenon DEF Indexable, Objects
  <2> QED BY <1>1, <2>2, ExpandedUnfolds, Zenon
<1>3. Expanded[k] \in [DOMAIN Entry[k] -> Oid]
  BY <1>1, <1>2, ExpandedUnfolds, Zenon
<1>4. ASSUME NEW i \in DOMAIN Entry[k], Entry[k][i].kind = "raw"
      PROVE  Expanded[k][i] = Entry[k][i].data
  BY <1>1, <1>4, ExpandedUnfolds, Zenon DEF ExpandDeltas, ReadPackObj
<1>5. ASSUME NEW i \in DOMAIN Entry[k], Entry[k][i].kind = "ofs"
      PROVE  Expanded[k][i] = Expand(Expanded[k][i - Entry[k][i].base], Entry[k][i])
  BY <1>1, <1>5, ExpandedUnfolds, Zenon DEF ExpandDeltas, ReadPackObj
<1>6. ASSUME NEW i \in DOMAIN Entry[k], Entry[k][i].kind = "ref"
      PROVE  /\ Entry[k][i].base \in Contents(k)
             /\ Expanded[k][i] = Expand(Entry[k][i].base, Entry[k][i])
  <2> DEFINE e == Entry[k][i]
             before == {j \in 1..(i - 1) : Expanded[k][j] = e.base}
  <2>1. Expanded[k][i] = ExpandDeltas(k, Expanded[k], i)
    BY <1>1, ExpandedUnfolds, Zenon
  <2>2. before # {}
    <3>1. ASSUME before = {} PROVE Expanded[k][i] = None
      BY <1>6, <2>1, <3>1 DEF ExpandDeltas, ReadPackObj
    <3> QED BY <1>2, <3>1, Zenon
  <2>3. Expanded[k][i] = Expand(Expanded[k][Max(before)], e)
    BY <1>6, <2>1, <2>2 DEF ExpandDeltas, ReadPackObj
  <2>4. i - 1 \in Nat /\ before \in SUBSET (1..(i - 1)) /\ 1..(i - 1) \subseteq DOMAIN Entry[k]
    BY <1>1, EntryFacts
  <2>5. Max(before) \in before
    <3> HIDE DEF before
    <3> QED BY <2>2, <2>4, MaxLemma, Zenon
  <2>6. Expanded[k][Max(before)] = e.base /\ Max(before) \in DOMAIN Expanded[k]
    BY <1>3, <2>4, <2>5, Zenon
  <2> QED BY <2>3, <2>6, Zenon DEF Contents, Range
<1> QED BY <1>1, <1>3, <1>4, <1>5, <1>6, Zenon

-----------------------------------------------------------------------------
(* The index of a pack *)

\* What an oid is.
LEMMA OidFacts ==
    /\ LastByte \in Nat /\ IsFiniteSet(Oid) /\ Cardinality(Oid) \in Nat
    /\ Oid \subseteq Byte \X Nat
    /\ \A o \in Byte \X Nat : o[1] \in Byte /\ o[1] \in Nat /\ o[2] \in Nat /\ o = <<o[1], o[2]>>
<1>1. LastByte \in Nat /\ IsFiniteSet(Oid) /\ Oid \subseteq Byte \X Nat
  BY ObjDbAssumption, Zenon
<1>2. Cardinality(Oid) \in Nat
  BY <1>1, FS_CardinalityType, Zenon
<1>3. \A o \in Byte \X Nat : o[1] \in Byte /\ o[2] \in Nat /\ o = <<o[1], o[2]>>
  OBVIOUS
<1>4. \A b \in Byte : b \in Nat
  BY <1>1 DEF Byte
<1> QED BY <1>1, <1>2, <1>3, <1>4, Zenon

\* Oids are ordered.
LEMMA OrderFacts ==
    \A o, q \in Byte \X Nat :
        /\ ~Before(o, o)
        /\ Before(o, q) => ~Before(q, o)
        /\ o # q => Before(o, q) \/ Before(q, o)
        /\ \A s \in Byte \X Nat : Before(o, q) /\ Before(q, s) => Before(o, s)
<1> SUFFICES ASSUME NEW o \in Byte \X Nat, NEW q \in Byte \X Nat
             PROVE  /\ ~Before(o, o)
                    /\ Before(o, q) => ~Before(q, o)
                    /\ o # q => Before(o, q) \/ Before(q, o)
                    /\ \A s \in Byte \X Nat : Before(o, q) /\ Before(q, s) => Before(o, s)
  OBVIOUS
<1> DEFINE a == o[1]
           b == o[2]
           c == q[1]
           d == q[2]
<1>1. a \in Nat /\ b \in Nat /\ c \in Nat /\ d \in Nat /\ o = <<a, b>> /\ q = <<c, d>>
  BY OidFacts, Zenon
<1>2. \A s \in Byte \X Nat : s[1] \in Nat /\ s[2] \in Nat
  BY OidFacts, Zenon
<1> HIDE DEF a, b, c, d
<1>3. /\ Before(o, o) <=> a < a \/ (a = a /\ b < b)
      /\ Before(o, q) <=> a < c \/ (a = c /\ b < d)
      /\ Before(q, o) <=> c < a \/ (c = a /\ d < b)
  BY Zenon DEF Before, a, b, c, d
<1>4. ~Before(o, o)
  BY <1>1, <1>3
<1>5. Before(o, q) => ~Before(q, o)
  BY <1>1, <1>3
<1>6. ASSUME o # q PROVE Before(o, q) \/ Before(q, o)
  <2>1. a # c \/ b # d
    BY <1>1, <1>6, Zenon
  <2> QED BY <1>1, <1>3, <2>1
<1>7. ASSUME NEW s \in Byte \X Nat, Before(o, q), Before(q, s)
      PROVE  Before(o, s)
  <2> DEFINE e == s[1]
             f == s[2]
  <2>1. e \in Nat /\ f \in Nat
    BY <1>2, Zenon
  <2>2. /\ Before(q, s) <=> c < e \/ (c = e /\ d < f)
        /\ Before(o, s) <=> a < e \/ (a = e /\ b < f)
    BY Zenon DEF Before, a, b, c, d
  <2> HIDE DEF e, f
  <2> QED BY <1>1, <1>3, <1>7, <2>1, <2>2
<1> QED BY <1>4, <1>5, <1>6, <1>7, Zenon

Below(S, o) == {q \in S : Before(q, o)}

\* How many oids come before one.
LEMMA RankFacts ==
    ASSUME NEW S \in SUBSET Oid
    PROVE  /\ IsFiniteSet(S) /\ Cardinality(S) \in Nat /\ Cardinality(S) <= Cardinality(Oid)
           /\ \A o \in Byte \X Nat : IsFiniteSet(Below(S, o)) /\ Cardinality(Below(S, o)) \in Nat
           /\ \A o \in S : Cardinality(Below(S, o)) + 1 \in 1..Cardinality(S)
           /\ \A o, q \in S : Before(o, q) <=> Cardinality(Below(S, o)) < Cardinality(Below(S, q))
           /\ \A o, q \in S : Cardinality(Below(S, o)) = Cardinality(Below(S, q)) => o = q
<1>1. S \subseteq Byte \X Nat
  BY OidFacts, Zenon
<1>2. IsFiniteSet(S) /\ Cardinality(S) \in Nat /\ Cardinality(S) <= Cardinality(Oid)
  <2>1. IsFiniteSet(S) /\ Cardinality(S) <= Cardinality(Oid)
    BY OidFacts, FS_Subset, Zenon
  <2> QED BY <2>1, FS_CardinalityType, Zenon
<1>3. ASSUME NEW o \in Byte \X Nat
      PROVE  IsFiniteSet(Below(S, o)) /\ Cardinality(Below(S, o)) \in Nat
  <2>1. Below(S, o) \in SUBSET S
    BY Zenon DEF Below
  <2>2. IsFiniteSet(Below(S, o))
    BY <1>2, <2>1, FS_Subset, Zenon
  <2> QED BY <2>2, FS_CardinalityType, Zenon
<1>4. ASSUME NEW o \in S
      PROVE  Cardinality(Below(S, o)) + 1 \in 1..Cardinality(S)
  <2>1. Below(S, o) \in SUBSET S /\ o \notin Below(S, o)
    BY <1>1, OrderFacts, Zenon DEF Below
  <2>2. Cardinality(Below(S, o)) <= Cardinality(S) /\ Cardinality(Below(S, o)) # Cardinality(S)
    BY <1>2, <2>1, FS_Subset, Zenon
  <2>3. Cardinality(Below(S, o)) \in Nat
    BY <1>1, <1>3, Zenon
  <2> QED BY <1>2, <2>2, <2>3
<1>5. ASSUME NEW o \in S, NEW q \in S, Before(o, q)
      PROVE  Cardinality(Below(S, o)) < Cardinality(Below(S, q))
  <2>1. Below(S, o) \in SUBSET Below(S, q) /\ o \in Below(S, q) /\ o \notin Below(S, o)
    BY <1>1, <1>5, OrderFacts, Zenon DEF Below
  <2>2. /\ Cardinality(Below(S, o)) <= Cardinality(Below(S, q))
        /\ Cardinality(Below(S, o)) # Cardinality(Below(S, q))
    BY <1>1, <1>3, <2>1, FS_Subset, Zenon
  <2>3. Cardinality(Below(S, o)) \in Nat /\ Cardinality(Below(S, q)) \in Nat
    BY <1>1, <1>3, Zenon
  <2> QED BY <2>2, <2>3
<1>6. ASSUME NEW o \in S, NEW q \in S
      PROVE  /\ Before(o, q) <=> Cardinality(Below(S, o)) < Cardinality(Below(S, q))
             /\ Cardinality(Below(S, o)) = Cardinality(Below(S, q)) => o = q
  <2>1. Cardinality(Below(S, o)) \in Nat /\ Cardinality(Below(S, q)) \in Nat
    BY <1>1, <1>3, Zenon
  <2>2. o = q \/ Before(o, q) \/ Before(q, o)
    BY <1>1, OrderFacts, Zenon
  <2>3. Before(o, q) => Cardinality(Below(S, o)) < Cardinality(Below(S, q))
    BY <1>5, Zenon
  <2>4. Before(q, o) => Cardinality(Below(S, q)) < Cardinality(Below(S, o))
    BY <1>5, Zenon
  <2> QED BY <2>1, <2>2, <2>3, <2>4
<1> QED BY <1>2, <1>3, <1>4, <1>6, Zenon

\* The sorted oids: each of them, at the place that follows those before it.
LEMMA SortedLemma ==
    ASSUME NEW S \in SUBSET Oid
    PROVE  /\ Sorted(S) \in [1..Cardinality(S) -> S]
           /\ \A i \in 1..Cardinality(S) : Cardinality(Below(S, Sorted(S)[i])) = i - 1
           /\ \A o \in S : Sorted(S)[Cardinality(Below(S, o)) + 1] = o
<1> DEFINE n == Cardinality(S)
           rank == [o \in S |-> Cardinality(Below(S, o)) + 1]
<1>1. n \in Nat /\ IsFiniteSet(S)
  BY RankFacts, Zenon
<1>2. \A o \in S : rank[o] \in 1..n /\ rank[o] = Cardinality(Below(S, o)) + 1
  BY RankFacts, Zenon
<1>3. \A o \in S : Cardinality(Below(S, o)) \in Nat
  BY OidFacts, RankFacts, Zenon
<1>4. ASSUME NEW o \in S, NEW q \in S, rank[o] = rank[q] PROVE o = q
  <2>1. Cardinality(Below(S, o)) = Cardinality(Below(S, q))
    <3> HIDE DEF rank
    <3> QED BY <1>2, <1>3, <1>4
  <2> QED BY <2>1, RankFacts, Zenon
<1>5. rank \in Injection(S, 1..n)
  <2>1. rank \in [S -> 1..n]
    BY <1>2, Zenon
  <2>2. DOMAIN rank = S
    BY Zenon
  <2> HIDE DEF rank
  <2> QED BY <1>4, <2>1, <2>2, Zenon DEF Injection, IsInjective
<1>6. IsFiniteSet(1..n) /\ Cardinality(1..n) = n
  <2>1. IsFiniteSet(1..n) /\ Cardinality(1..n) = IF 1 > n THEN 0 ELSE n - 1 + 1
    BY <1>1, FS_Interval
  <2> QED BY <1>1, <2>1
<1>7. rank \in Surjection(S, 1..n)
  <2> HIDE DEF rank
  <2> QED BY <1>5, <1>6, FS_Injection, Zenon
<1>8. \A i \in 1..n : \E o \in S : rank[o] = i
  <2> HIDE DEF rank
  <2> QED BY <1>7, Zenon DEF Surjection
<1>9. ASSUME NEW i \in 1..n
      PROVE  Sorted(S)[i] \in S /\ Cardinality(Below(S, Sorted(S)[i])) = i - 1
  <2>1. Sorted(S)[i] = CHOOSE o \in S : Cardinality(Below(S, o)) = i - 1
    BY Zenon DEF Sorted, Below
  <2>2. PICK o \in S : rank[o] = i
    BY <1>8, Zenon
  <2>3. Cardinality(Below(S, o)) = i - 1
    <3> HIDE DEF rank
    <3> QED BY <1>1, <1>2, <1>3, <2>2
  <2> QED BY <2>1, <2>3, Zenon
<1>10. Sorted(S) \in [1..n -> S]
  <2>1. Sorted(S) = [i \in 1..n |-> CHOOSE o \in S : Cardinality({q \in S : Before(q, o)}) = i - 1]
    BY Zenon DEF Sorted
  <2>2. Sorted(S) = [i \in 1..n |-> Sorted(S)[i]]
    BY <2>1, Zenon
  <2> QED BY <1>9, <2>2, Zenon
<1>11. ASSUME NEW o \in S PROVE Sorted(S)[Cardinality(Below(S, o)) + 1] = o
  <2> DEFINE i == Cardinality(Below(S, o)) + 1
  <2>1. i \in 1..n
    BY <1>2, Zenon
  <2>2. Sorted(S)[i] \in S /\ Cardinality(Below(S, Sorted(S)[i])) = i - 1
    BY <1>9, <2>1, Zenon
  <2>3. i - 1 = Cardinality(Below(S, o))
    BY <1>3
  <2> HIDE DEF i
  <2>4. Sorted(S)[i] = o
    <3>1. \A q \in S : Cardinality(Below(S, q)) = Cardinality(Below(S, o)) => q = o
      BY RankFacts, Zenon
    <3>2. Cardinality(Below(S, Sorted(S)[i])) = Cardinality(Below(S, o))
      BY <2>2, <2>3, Zenon
    <3> QED BY <2>2, <3>1, <3>2, Zenon
  <2> QED BY <2>4, Zenon DEF i
<1> QED BY <1>9, <1>10, <1>11, Zenon

\* The oids that come before all others of a set are the first in the order.
LEMMA FirstOids ==
    ASSUME NEW S \in SUBSET Oid, NEW D \in SUBSET S,
           \A o \in D : \A q \in S : Before(q, o) => q \in D
    PROVE  /\ Cardinality(D) \in Nat
           /\ \A i \in 1..Cardinality(S) : Sorted(S)[i] \in D <=> i <= Cardinality(D)
<1>1. IsFiniteSet(D) /\ Cardinality(D) \in Nat
  <2>1. IsFiniteSet(D)
    BY RankFacts, FS_Subset, Zenon
  <2> QED BY <2>1, FS_CardinalityType, Zenon
<1> SUFFICES ASSUME NEW i \in 1..Cardinality(S)
             PROVE  Sorted(S)[i] \in D <=> i <= Cardinality(D)
  BY <1>1, Zenon
<1> DEFINE o == Sorted(S)[i]
<1>a. Sorted(S) \in [1..Cardinality(S) -> S] /\ Cardinality(Below(S, Sorted(S)[i])) = i - 1
  BY SortedLemma, Zenon
<1>b. o \in S /\ Cardinality(Below(S, o)) = i - 1
  BY <1>a, Zenon
<1> HIDE DEF o
<1>c. o \in Byte \X Nat
  BY <1>b, OidFacts, Zenon
<1>2. o \in S /\ o \in Byte \X Nat /\ Cardinality(Below(S, o)) = i - 1 /\ IsFiniteSet(Below(S, o))
  BY <1>b, <1>c, RankFacts, Zenon
<1>3. i \in Nat
  BY RankFacts
<1>4. ASSUME o \in D PROVE i <= Cardinality(D)
  <2>1. Below(S, o) \in SUBSET D /\ o \notin Below(S, o)
    BY <1>2, <1>4, OrderFacts, Zenon DEF Below
  <2>2. Cardinality(Below(S, o)) <= Cardinality(D) /\ Cardinality(Below(S, o)) # Cardinality(D)
    BY <1>1, <1>4, <2>1, FS_Subset, Zenon
  <2> QED BY <1>1, <1>2, <1>3, <2>2
<1>5. ASSUME o \notin D PROVE Cardinality(D) < i
  <2>1. ASSUME NEW d \in D PROVE d \in Below(S, o)
    <3>1. d \in Byte \X Nat /\ d # o /\ ~Before(o, d)
      BY <1>2, <1>5, OidFacts, Zenon
    <3> QED BY <1>2, <3>1, OrderFacts, Zenon DEF Below
  <2>2. D \in SUBSET Below(S, o)
    BY <2>1, Zenon
  <2>3. Cardinality(D) <= Cardinality(Below(S, o))
    BY <1>2, <2>2, FS_Subset, Zenon
  <2> QED BY <1>1, <1>2, <1>3, <2>3
<1> QED BY <1>1, <1>3, <1>4, <1>5 DEF o

\* The objects of a pack whose oid begins with the byte b.
Bucket(k, b) == {o \in Contents(k) : o[1] = b}

\* How many objects of a pack come before those of the byte b.
Earlier(k, b) == Cardinality({o \in Contents(k) : o[1] < b})

\* What the index of a pack says.
LEMMA IndexFacts ==
    ASSUME NEW k \in DOMAIN Idx
    PROVE  /\ Contents(k) \in SUBSET Oid
           /\ Idx[k].oids = Sorted(Contents(k))
           /\ Idx[k].fanout = BuildFanout(Contents(k))
           /\ \A o \in Contents(k) : /\ Idx[k].offset[o] \in DOMAIN Entry[k]
                                     /\ Expanded[k][Idx[k].offset[o]] = o
<1> DEFINE at == Expanded[k]
<1>1. k \in Pack /\ at \in [DOMAIN Entry[k] -> Oid]
  BY IndexedPack, Zenon
<1>2. Contents(k) \in SUBSET Oid
  BY <1>1, Zenon DEF Contents, Range
<1>3. Idx[k] = [oids |-> Sorted(Contents(k)),
                fanout |-> BuildFanout(Contents(k)),
                offset |-> [o \in Contents(k) |-> Max({i \in DOMAIN at : at[i] = o})]]
  BY Zenon DEF Idx, Contents
<1>4. /\ Idx[k].oids = Sorted(Contents(k)) /\ Idx[k].fanout = BuildFanout(Contents(k))
      /\ Idx[k].offset = [o \in Contents(k) |-> Max({i \in DOMAIN at : at[i] = o})]
  BY <1>3
<1>5. ASSUME NEW o \in Contents(k)
      PROVE  Idx[k].offset[o] \in DOMAIN Entry[k] /\ at[Idx[k].offset[o]] = o
  <2> DEFINE S == {i \in DOMAIN at : at[i] = o}
  <2>1. Idx[k].offset[o] = Max(S)
    BY <1>4, Zenon
  <2>2. S # {} /\ S \in SUBSET (1..Len(Entry[k])) /\ Len(Entry[k]) \in Nat
    BY <1>1, EntryFacts, Zenon DEF Contents, Range
  <2>3. Max(S) \in S
    <3> HIDE DEF S
    <3> QED BY <2>2, MaxLemma, Zenon
  <2> QED BY <1>1, <2>1, <2>3, Zenon
<1> QED BY <1>2, <1>4, <1>5, Zenon

\* Where a bucket begins and ends.
LEMMA FanoutFacts ==
    ASSUME NEW k \in DOMAIN Idx, NEW oid \in Byte \X Nat
    PROVE  /\ Low(Idx[k], oid) = Earlier(k, oid[1])
           /\ High(Idx[k], oid) = Cardinality({o \in Contents(k) : o[1] <= oid[1]})
           /\ Earlier(k, oid[1]) \in 0..Cardinality(Oid)
<1> DEFINE b == oid[1]
           S == Contents(k)
<1>1. b \in Byte /\ b \in Nat /\ S \in SUBSET Oid
  BY OidFacts, IndexFacts, Zenon
<1>2. \A o \in S : o[1] \in Nat
  BY <1>1, OidFacts, Zenon
<1>3. \A c \in Byte : Idx[k].fanout[c] = Cardinality({o \in S : o[1] <= c})
  <2>1. Idx[k].fanout = BuildFanout(S)
    BY IndexFacts, Zenon
  <2>2. \A c \in Byte : BuildFanout(S)[c] = Cardinality({o \in S : o[1] <= c})
    BY Zenon DEF BuildFanout
  <2> QED BY <2>1, <2>2, Zenon
<1>4. Low(Idx[k], oid) = Earlier(k, b)
  <2>1. CASE b = 0
    <3>1. {o \in S : o[1] < b} = {}
      BY <1>2, <2>1
    <3> QED BY <2>1, <3>1, FS_EmptySet, Zenon DEF Low, Earlier
  <2>2. CASE b # 0
    <3>1. b - 1 \in Byte /\ \A o \in S : o[1] <= b - 1 <=> o[1] < b
      BY <1>1, <1>2, <2>2, OidFacts DEF Byte
    <3>2. {o \in S : o[1] <= b - 1} = {o \in S : o[1] < b}
      BY <3>1, Zenon
    <3> QED BY <1>3, <2>2, <3>1, <3>2, Zenon DEF Low, Earlier
  <2> QED BY <2>1, <2>2, Zenon
<1>5. High(Idx[k], oid) = Cardinality({o \in S : o[1] <= b})
  BY <1>1, <1>3, Zenon DEF High
<1>6. Earlier(k, b) \in 0..Cardinality(Oid)
  <2>1. {o \in S : o[1] < b} \in SUBSET Oid
    BY <1>1, Zenon
  <2>2. Earlier(k, b) \in Nat /\ Earlier(k, b) <= Cardinality(Oid)
    BY <2>1, RankFacts, Zenon DEF Earlier
  <2> QED BY <2>2, OidFacts
<1> QED BY <1>4, <1>5, <1>6, Zenon

\* A bucket that is read holds the objects of its byte.
LEMMA BucketIsRead ==
    ASSUME NEW k \in DOMAIN Idx, NEW oid \in Byte \X Nat
    PROVE  ReadVec(Idx[k], Low(Idx[k], oid), High(Idx[k], oid)) = Bucket(k, oid[1])
<1> DEFINE b == oid[1]
           S == Contents(k)
           s == Sorted(S)
           n == Cardinality(S)
           D == {o \in S : o[1] < b}
           E == {o \in S : o[1] <= b}
<1>1. b \in Nat /\ S \in SUBSET Oid
  BY OidFacts, IndexFacts, Zenon
<1>2. \A o \in S : o \in Byte \X Nat /\ o[1] \in Nat
  BY <1>1, OidFacts, Zenon
<1>3. \A o \in D : \A q \in S : Before(q, o) => q \in D
  BY <1>1, <1>2 DEF Before
<1>4. \A o \in E : \A q \in S : Before(q, o) => q \in E
  BY <1>1, <1>2 DEF Before
<1>5. /\ Cardinality(D) \in Nat /\ Cardinality(E) \in Nat
      /\ \A i \in 1..n : s[i] \in D <=> i <= Cardinality(D)
      /\ \A i \in 1..n : s[i] \in E <=> i <= Cardinality(E)
  <2>1. D \in SUBSET S /\ E \in SUBSET S
    BY Zenon
  <2> HIDE DEF D, E, S
  <2> QED BY <1>1, <1>3, <1>4, <2>1, FirstOids, Zenon
<1>6. n \in Nat /\ Cardinality(E) <= n
  <2>1. IsFiniteSet(S) /\ n \in Nat
    BY <1>1, RankFacts, Zenon
  <2>2. E \in SUBSET S
    BY Zenon
  <2> HIDE DEF E, S
  <2> QED BY <2>1, <2>2, FS_Subset, Zenon
<1>7. s \in [1..n -> S] /\ \A o \in S : \E i \in 1..n : s[i] = o
  <2> HIDE DEF S
  <2>1. s \in [1..n -> S]
    BY <1>1, SortedLemma, Zenon
  <2>2. \A o \in S : s[Cardinality(Below(S, o)) + 1] = o /\ Cardinality(Below(S, o)) + 1 \in 1..n
    BY <1>1, SortedLemma, RankFacts, Zenon
  <2> QED BY <2>1, <2>2, Zenon
<1>8. ReadVec(Idx[k], Low(Idx[k], oid), High(Idx[k], oid)) = {s[i] : i \in (Cardinality(D) + 1)..Cardinality(E)}
  <2>1. Low(Idx[k], oid) = Cardinality(D) /\ High(Idx[k], oid) = Cardinality(E)
    BY FanoutFacts, Zenon DEF Earlier
  <2>2. Idx[k].oids = s
    BY IndexFacts, Zenon
  <2> HIDE DEF D, E, s
  <2> QED BY <2>1, <2>2, Zenon DEF ReadVec
<1>9. \A i \in (Cardinality(D) + 1)..Cardinality(E) : i \in 1..n /\ ~(i <= Cardinality(D)) /\ i <= Cardinality(E)
  <2> HIDE DEF D, E, n
  <2> QED BY <1>5, <1>6
<1>10. \A i \in 1..n : ~(i <= Cardinality(D)) /\ i <= Cardinality(E) => i \in (Cardinality(D) + 1)..Cardinality(E)
  <2> HIDE DEF D, E, n
  <2> QED BY <1>5, <1>6
<1>11. \A o \in S : o \in Bucket(k, b) <=> o \notin D /\ o \in E
  BY <1>1, <1>2 DEF Bucket
<1>12. Bucket(k, b) \subseteq S
  BY Zenon DEF Bucket
<1>13. ASSUME NEW o \in Bucket(k, b) PROVE \E i \in (Cardinality(D) + 1)..Cardinality(E) : s[i] = o
  <2>1. PICK i \in 1..n : s[i] = o
    BY <1>7, <1>12, Zenon
  <2>2. i <= Cardinality(E) /\ ~(i <= Cardinality(D))
    <3> HIDE DEF D, E, S, s
    <3> QED BY <1>5, <1>11, <1>12, <2>1, Zenon
  <2> HIDE DEF D, E, S, s
  <2> QED BY <1>10, <2>1, <2>2, Zenon
<1>14. ASSUME NEW i \in (Cardinality(D) + 1)..Cardinality(E) PROVE s[i] \in Bucket(k, b)
  <2> HIDE DEF D, E, S, s
  <2> QED BY <1>5, <1>7, <1>9, <1>11, Zenon
<1> HIDE DEF D, E, S, s
<1> QED BY <1>8, <1>13, <1>14, Zenon DEF b

\* Buckets that begin at one place: those between them are empty.
LEMMA SameStart ==
    ASSUME NEW k \in DOMAIN Idx, NEW b \in Byte, NEW c \in Byte, Earlier(k, b) = Earlier(k, c), b < c
    PROVE  \A o \in Contents(k) : ~(b <= o[1] /\ o[1] < c)
<1> DEFINE S == Contents(k)
           D == {o \in S : o[1] < b}
           E == {o \in S : o[1] < c}
<1>1. S \in SUBSET Oid /\ b \in Nat /\ c \in Nat
  BY IndexFacts, OidFacts DEF Byte
<1>2. \A o \in S : o[1] \in Nat
  BY <1>1, OidFacts, Zenon
<1>3. D \in SUBSET E
  BY <1>1, <1>2
<1>4. IsFiniteSet(E)
  <2>1. E \in SUBSET Oid
    BY <1>1, Zenon
  <2> HIDE DEF E
  <2> QED BY <2>1, RankFacts, Zenon
<1>5. Cardinality(E) = Cardinality(D)
  BY Zenon DEF Earlier
<1>6. D = E
  <2> HIDE DEF D, E
  <2> QED BY <1>3, <1>4, <1>5, FS_Subset, Zenon
<1>7. ASSUME NEW o \in S, o[1] < c PROVE o[1] < b
  BY <1>6, <1>7, Zenon
<1>8. \A o \in S : o[1] < c => ~(b <= o[1])
  BY <1>1, <1>2, <1>7
<1> QED BY <1>8, Zenon

\* Where an oid is, or would be: after the buckets before its own, and after those
\* before it in that.
LEMMA IndexOf ==
    ASSUME NEW k \in DOMAIN Idx, NEW oid \in Byte \X Nat
    PROVE  Earlier(k, oid[1]) + Cardinality({o \in Bucket(k, oid[1]) : Before(o, oid)})
               = Cardinality(Below(Contents(k), oid))
<1> DEFINE b == oid[1]
           S == Contents(k)
           D == {o \in S : o[1] < b}
           E == {o \in Bucket(k, b) : Before(o, oid)}
<1>1. S \in SUBSET Oid /\ b \in Nat /\ oid[2] \in Nat
  BY IndexFacts, OidFacts, Zenon
<1>2. \A o \in S : o[1] \in Nat
  BY <1>1, OidFacts, Zenon
<1>3. D \cup E = Below(S, oid) /\ D \cap E = {}
  BY <1>1, <1>2 DEF Below, Before, Bucket
<1>4. IsFiniteSet(D) /\ IsFiniteSet(E) /\ Cardinality(D) \in Nat /\ Cardinality(E) \in Nat
  <2>1. D \in SUBSET Oid /\ E \in SUBSET Oid
    BY <1>1, Zenon DEF Bucket
  <2> HIDE DEF D, E
  <2> QED BY <2>1, RankFacts, Zenon
<1>5. Cardinality(D \cup E) = Cardinality(D) + Cardinality(E) - Cardinality(D \cap E)
  <2> HIDE DEF D, E
  <2> QED BY <1>4, FS_Union, Zenon
<1>6. Cardinality(Below(S, oid)) = Cardinality(D) + Cardinality(E) - 0
  <2> HIDE DEF D, E
  <2> QED BY <1>3, <1>5, FS_EmptySet, Zenon
<1>7. Cardinality(D) + Cardinality(E) - 0 = Cardinality(D) + Cardinality(E)
  <2> HIDE DEF D, E
  <2> QED BY <1>4
<1> QED BY <1>6, <1>7, Zenon DEF Earlier

-----------------------------------------------------------------------------
(* The inductive invariant *)

\* A bucket in the cache is one that begins where it is kept, though not always
\* the one that is asked for.
BucketsRight(k, oids) ==
    \A low \in 0..Cardinality(Oid) : oids[low] # None =>
        \E b \in Byte : low = Earlier(k, b) /\ oids[low] = Bucket(k, b)

OffsetsRight(k, offsets) ==
    \A o \in Oid : offsets[o] # None => o \in Contents(k) /\ offsets[o] = Idx[k].offset[o]

ObjsRight(k, objs) == \A i \in DOMAIN Entry[k] : objs[i] # None => objs[i] = Expanded[k][i]

\* The readers of the pack k whose caches hold what is in the pack.
Coherent(k) ==
    {r \in PackReader(k) :
        BucketsRight(k, r.oids) /\ OffsetsRight(k, r.offsets) /\ ObjsRight(k, r.objs)}

\* The readers of the packs K whose caches hold what is in the packs.
KnownRight(K, known) == known = [k \in K |-> known[k]] /\ \A k \in K : known[k] \in Coherent(k)

\* A state of a process whose caches hold what they should.
CachesRight(q) ==
    /\ q = [pc |-> q.pc, packs |-> q.packs, objs |-> q.objs, arg |-> q.arg]
    /\ KnownRight(DOMAIN q.packs, q.packs)
    /\ q.objs \in [Oid -> Oid \cup {None}]
    /\ \A o \in Oid : q.objs[o] \in {o, None}

\* A process whose caches hold what they should and whose argument is what its
\* step needs, among the lock files L, the packs P and the indexes I.
ProcRight(q, L, P, I) ==
    /\ CachesRight(q)
    /\ q.pc \in {"closed", "ready", "lock", "write", "flush", "pack", "idx", "refresh"}
    /\ DOMAIN q.packs \subseteq I
    /\ q.pc \in {"lock", "write", "flush"} => q.arg \in Oid
    /\ q.pc = "write" => q.arg \in L
    /\ q.pc = "pack" => q.arg \in DOMAIN Idx
    /\ q.pc = "idx" => q.arg \in P
    /\ q.pc = "refresh" => q.arg \in I

\* Files that are empty are there.
TornRight == torn \in [Oid -> Proc \cup {None}] /\ Empty \subseteq loose

\* The packs in place can be indexed, the caches are right, no two processes
\* write one object at a time, and what is to be flushed is in place.
ObjInv ==
    /\ loose \subseteq Oid /\ locks \subseteq Oid /\ TornRight
    /\ \A x \in Proc : p[x].pc = "flush" => p[x].arg \in loose
    /\ packs \subseteq DOMAIN Idx /\ idxs \subseteq packs
    /\ p = [x \in Proc |-> p[x]]
    /\ \A x \in Proc : ProcRight(p[x], locks, packs, idxs)
    /\ \A x, y \in Proc : x # y /\ p[x].pc = "write" /\ p[y].pc = "write" => p[x].arg # p[y].arg

-----------------------------------------------------------------------------
(* The index reader *)

\* The parts of a reader whose caches are coherent.
LEMMA CoherentFacts ==
    ASSUME NEW k, NEW r \in Coherent(k)
    PROVE  /\ r \in PackReader(k)
           /\ r.oids \in [0..Cardinality(Oid) -> (SUBSET Oid) \cup {None}]
           /\ r.offsets \in [Oid -> Nat \cup {None}]
           /\ r.objs \in [DOMAIN Entry[k] -> Oid \cup {None}]
           /\ BucketsRight(k, r.oids) /\ OffsetsRight(k, r.offsets) /\ ObjsRight(k, r.objs)
<1>1. r \in PackReader(k)
  BY Zenon DEF Coherent
<1>2. /\ r.oids \in [0..Cardinality(Oid) -> (SUBSET Oid) \cup {None}]
      /\ r.offsets \in [Oid -> Nat \cup {None}]
      /\ r.objs \in [DOMAIN Entry[k] -> Oid \cup {None}]
  BY <1>1, Zenon DEF PackReader
<1> QED BY <1>1, <1>2, Zenon DEF Coherent

\* A reader that has nothing in its caches.
LEMMA NewIsCoherent ==
    ASSUME NEW k
    PROVE  NewReader(k) \in Coherent(k)
<1> DEFINE r == NewReader(k)
<1>1. r \in PackReader(k)
  BY Zenon DEF NewReader, PackReader
<1>2. /\ r.oids = [low \in 0..Cardinality(Oid) |-> None]
      /\ r.offsets = [oid \in Oid |-> None]
      /\ r.objs = [offset \in DOMAIN Entry[k] |-> None]
  BY DEF NewReader
<1> HIDE DEF r
<1>3. BucketsRight(k, r.oids)
  BY <1>2, Zenon DEF BucketsRight
<1>4. OffsetsRight(k, r.offsets)
  BY <1>2, Zenon DEF OffsetsRight
<1>5. ObjsRight(k, r.objs)
  BY <1>2, Zenon DEF ObjsRight
<1>6. r \in Coherent(k)
  BY <1>1, <1>3, <1>4, <1>5, Zenon DEF Coherent
<1> QED BY <1>6, Zenon DEF r

\* A bucket is kept where it begins.
LEMMA KeepBucket ==
    ASSUME NEW k \in DOMAIN Idx, NEW r \in Coherent(k), NEW b \in Byte,
           NEW low \in 0..Cardinality(Oid), low = Earlier(k, b)
    PROVE  [r EXCEPT !.oids[low] = Bucket(k, b)] \in Coherent(k)
<1> DEFINE bucket == Bucket(k, b)
           s == [r EXCEPT !.oids[low] = bucket]
<1>1. bucket \in SUBSET Oid
  BY IndexFacts, Zenon DEF Bucket
<1>2. r \in PackReader(k)
  BY CoherentFacts, Zenon
<1> HIDE DEF bucket
<1>3. s \in PackReader(k)
  BY <1>1, <1>2, Zenon DEF PackReader
<1>4. /\ s.oids = [r.oids EXCEPT ![low] = bucket]
      /\ s.offsets = r.offsets /\ s.objs = r.objs
  BY <1>2 DEF PackReader
<1> HIDE DEF s
<1>5. BucketsRight(k, s.oids)
  <2>1. BucketsRight(k, r.oids) /\ r.oids \in [0..Cardinality(Oid) -> (SUBSET Oid) \cup {None}]
    BY CoherentFacts, Zenon
  <2>2. s.oids[low] = bucket /\ \A l \in 0..Cardinality(Oid) : l # low => s.oids[l] = r.oids[l]
    BY <1>4, <2>1, Zenon
  <2> QED BY <2>1, <2>2, Zenon DEF BucketsRight, bucket
<1>6. OffsetsRight(k, s.offsets) /\ ObjsRight(k, s.objs)
  BY <1>4, CoherentFacts, Zenon
<1>7. s \in Coherent(k)
  BY <1>3, <1>5, <1>6, Zenon DEF Coherent
<1> QED BY <1>7, Zenon DEF s, bucket

\* An offset is kept for the oid it belongs to.
LEMMA KeepOffset ==
    ASSUME NEW k \in DOMAIN Idx, NEW r \in Coherent(k), NEW oid \in Oid, oid \in Contents(k)
    PROVE  [r EXCEPT !.offsets[oid] = Idx[k].offset[oid]] \in Coherent(k)
<1> DEFINE offset == Idx[k].offset[oid]
           s == [r EXCEPT !.offsets[oid] = offset]
<1>1. offset \in Nat
  <2>1. offset \in DOMAIN Entry[k] /\ k \in Pack
    BY IndexFacts, IndexedPack, Zenon
  <2> HIDE DEF offset
  <2> QED BY <2>1, EntryFacts
<1>2. r \in PackReader(k)
  BY CoherentFacts, Zenon
<1> HIDE DEF offset
<1>3. s \in PackReader(k)
  BY <1>1, <1>2, Zenon DEF PackReader
<1>4. /\ s.offsets = [r.offsets EXCEPT ![oid] = offset]
      /\ s.oids = r.oids /\ s.objs = r.objs
  BY <1>2 DEF PackReader
<1> HIDE DEF s
<1>5. OffsetsRight(k, s.offsets)
  <2>1. OffsetsRight(k, r.offsets) /\ r.offsets \in [Oid -> Nat \cup {None}]
    BY CoherentFacts, Zenon
  <2>2. s.offsets[oid] = offset /\ \A o \in Oid : o # oid => s.offsets[o] = r.offsets[o]
    BY <1>4, <2>1, Zenon
  <2> QED BY <2>1, <2>2, Zenon DEF OffsetsRight, offset
<1>6. BucketsRight(k, s.oids) /\ ObjsRight(k, s.objs)
  BY <1>4, CoherentFacts, Zenon
<1>7. s \in Coherent(k)
  BY <1>3, <1>5, <1>6, Zenon DEF Coherent
<1> QED BY <1>7, Zenon DEF s, offset

\* An object is kept for its offset.
LEMMA KeepObj ==
    ASSUME NEW k \in DOMAIN Idx, NEW r \in Coherent(k), NEW i \in DOMAIN Entry[k]
    PROVE  CacheObj(r, k, i, Expanded[k][i]) \in Coherent(k)
<1> DEFINE obj == Expanded[k][i]
           s == [r EXCEPT !.objs[i] = obj]
<1>1. obj \in Oid
  BY IndexedPack, Zenon
<1>2. r \in PackReader(k)
  BY CoherentFacts, Zenon
<1> HIDE DEF obj
<1>3. s \in PackReader(k)
  BY <1>1, <1>2, Zenon DEF PackReader
<1>4. /\ s.objs = [r.objs EXCEPT ![i] = obj]
      /\ s.oids = r.oids /\ s.offsets = r.offsets
  BY <1>2 DEF PackReader
<1> HIDE DEF s
<1>5. ObjsRight(k, s.objs)
  <2>1. ObjsRight(k, r.objs) /\ r.objs \in [DOMAIN Entry[k] -> Oid \cup {None}]
    BY CoherentFacts, Zenon
  <2>2. s.objs[i] = obj /\ \A j \in DOMAIN Entry[k] : j # i => s.objs[j] = r.objs[j]
    BY <1>4, <2>1, Zenon
  <2> QED BY <2>1, <2>2, Zenon DEF ObjsRight, obj
<1>6. BucketsRight(k, s.oids) /\ OffsetsRight(k, s.offsets)
  BY <1>4, CoherentFacts, Zenon
<1>7. s \in Coherent(k)
  BY <1>3, <1>5, <1>6, Zenon DEF Coherent
<1> QED BY <1>7, Zenon DEF s, obj, CacheObj

\* find_oid_index, whatever is in the cache: the index of an oid that is found is
\* its own; an oid that is in the pack and not found comes after a gap; and the
\* index of one that is not in the pack is that of the first one after it, unless
\* the bucket comes after a gap.
LEMMA FindLemma ==
    ASSUME NEW k \in DOMAIN Idx, NEW r \in Coherent(k), NEW oid \in Byte \X Nat
    PROVE  LET find == FindOidIndex(r, Idx[k], oid) IN
           /\ find.r \in Coherent(k)
           /\ find.index \in Nat \ {0}
           /\ find.found => oid \in Contents(k) /\ Idx[k].oids[find.index] = oid
           /\ ~find.found /\ oid \in Contents(k) => AfterGap(k, oid)
           /\ \/ find.index = Cardinality(Below(Contents(k), oid)) + 1
              \/ \A o \in Bucket(k, oid[1]) : AfterGap(k, o)
<1> DEFINE b == oid[1]
           low == Low(Idx[k], oid)
           bucket == IF r.oids[low] # None THEN r.oids[low] ELSE ReadVec(Idx[k], low, High(Idx[k], oid))
           find == FindOidIndex(r, Idx[k], oid)
<1>1. b \in Byte /\ b \in Nat /\ oid[2] \in Nat
  BY OidFacts, Zenon
<1>2. low = Earlier(k, b) /\ low \in 0..Cardinality(Oid)
  BY FanoutFacts, Zenon
<1>3. PICK c \in Byte : low = Earlier(k, c) /\ bucket = Bucket(k, c) /\ (r.oids[low] = None => c = b)
  <2>1. ASSUME r.oids[low] # None
        PROVE  \E c \in Byte : low = Earlier(k, c) /\ bucket = Bucket(k, c)
    <3>1. BucketsRight(k, r.oids)
      BY CoherentFacts, Zenon
    <3>2. bucket = r.oids[low]
      BY <2>1, Zenon
    <3> HIDE DEF low, bucket
    <3> QED BY <1>2, <2>1, <3>1, <3>2, Zenon DEF BucketsRight
  <2>2. ASSUME r.oids[low] = None PROVE bucket = Bucket(k, b)
    BY <2>2, BucketIsRead, Zenon
  <2> HIDE DEF low, bucket
  <2> QED BY <1>1, <1>2, <2>1, <2>2, Zenon
<1>4. find = [r |-> [r EXCEPT !.oids[low] = bucket],
              found |-> oid \in bucket,
              index |-> low + Cardinality({o \in bucket : Before(o, oid)}) + 1]
  BY Zenon DEF FindOidIndex
<1> HIDE DEF low, bucket, find
<1>5. /\ find.r = [r EXCEPT !.oids[low] = Bucket(k, c)]
      /\ find.found <=> oid \in Bucket(k, c)
      /\ find.index = low + Cardinality({o \in Bucket(k, c) : Before(o, oid)}) + 1
  BY <1>3, <1>4, Zenon
<1>6. find.r \in Coherent(k)
  <2>1. [r EXCEPT !.oids[low] = Bucket(k, c)] \in Coherent(k)
    BY <1>2, <1>3, KeepBucket, Zenon
  <2> QED BY <1>5, <2>1, Zenon
<1>7. /\ Cardinality({o \in Bucket(k, c) : Before(o, oid)}) \in Nat
      /\ Contents(k) \in SUBSET Oid
  <2>1. {o \in Bucket(k, c) : Before(o, oid)} \in SUBSET Oid /\ Contents(k) \in SUBSET Oid
    BY IndexFacts, Zenon DEF Bucket
  <2> QED BY <2>1, RankFacts, Zenon
<1>8. find.index \in Nat \ {0}
  <2>1. low \in Nat
    BY <1>2, OidFacts
  <2> QED BY <1>5, <1>7, <2>1
<1>9. ASSUME c = b PROVE find.index = Cardinality(Below(Contents(k), oid)) + 1
  BY <1>2, <1>5, <1>9, IndexOf, Zenon
<1>10. find.found => c = b /\ oid \in Contents(k)
  BY <1>5, Zenon DEF Bucket
<1>11. ASSUME find.found PROVE Idx[k].oids[find.index] = oid
  <2>1. find.index = Cardinality(Below(Contents(k), oid)) + 1
    BY <1>9, <1>10, <1>11, Zenon
  <2>2. Sorted(Contents(k))[Cardinality(Below(Contents(k), oid)) + 1] = oid
    BY <1>7, <1>10, <1>11, SortedLemma, Zenon
  <2> QED BY <2>1, <2>2, IndexFacts, Zenon
<1>12. ASSUME c # b, NEW o \in Bucket(k, b) PROVE AfterGap(k, o)
  <2>1. o \in Contents(k) /\ o[1] = b
    BY <1>12, Zenon DEF Bucket
  <2>2. c \in Nat
    BY OidFacts DEF Byte
  <2>3. c < b
    <3>1. ASSUME b < c PROVE FALSE
      <4>1. ~(b <= o[1] /\ o[1] < c)
        BY <1>1, <1>2, <1>3, <2>1, <3>1, SameStart, Zenon
      <4> QED BY <1>1, <2>1, <2>2, <3>1, <4>1
    <3> QED BY <1>1, <1>12, <2>2, <3>1
  <2>4. \A q \in Contents(k) : ~(c <= q[1] /\ q[1] < b)
    BY <1>1, <1>2, <1>3, <2>3, SameStart, Zenon
  <2>5. b > 0 /\ c <= b - 1 /\ b - 1 < b
    BY <1>1, <2>2, <2>3
  <2>6. ~\E q \in Contents(k) : q[1] = b - 1
    BY <2>4, <2>5, Zenon
  <2> QED BY <2>1, <2>5, <2>6, ObjectsLemma, Zenon DEF AfterGap
<1>13. ASSUME ~find.found, oid \in Contents(k) PROVE AfterGap(k, oid)
  <2>1. oid \in Bucket(k, b) /\ c # b
    BY <1>5, <1>13, Zenon DEF Bucket
  <2> QED BY <1>12, <2>1, Zenon
<1> QED BY <1>6, <1>8, <1>9, <1>10, <1>11, <1>12, <1>13, Zenon DEF find

\* find_oid_crc_offset, whatever is in the caches: an offset that is found is the
\* one of the object, and an object that is in the pack is missed only after a gap.
LEMMA ObjOffsetLemma ==
    ASSUME NEW k \in DOMAIN Idx, NEW r \in Coherent(k), NEW oid \in Oid
    PROVE  LET find == ObjOffset(r, Idx[k], oid) IN
           /\ find.r \in Coherent(k)
           /\ find.offset # None => oid \in Contents(k) /\ find.offset = Idx[k].offset[oid]
           /\ find.offset = None /\ oid \in Contents(k) => AfterGap(k, oid)
<1> DEFINE find == FindOidIndex(r, Idx[k], oid)
           offset == Idx[k].offset[Idx[k].oids[find.index]]
           res == ObjOffset(r, Idx[k], oid)
<1>1. oid \in Byte \X Nat
  BY OidFacts, Zenon
<1>2. /\ find.r \in Coherent(k)
      /\ find.found => oid \in Contents(k) /\ Idx[k].oids[find.index] = oid
      /\ ~find.found /\ oid \in Contents(k) => AfterGap(k, oid)
  <2>1. /\ find.r \in Coherent(k)
        /\ find.index \in Nat \ {0}
        /\ find.found => oid \in Contents(k) /\ Idx[k].oids[find.index] = oid
        /\ ~find.found /\ oid \in Contents(k) => AfterGap(k, oid)
        /\ \/ find.index = Cardinality(Below(Contents(k), oid)) + 1
           \/ \A o \in Bucket(k, oid[1]) : AfterGap(k, o)
    BY <1>1, FindLemma, Zenon
  <2> HIDE DEF find
  <2> QED BY <2>1, Zenon
<1>3. OffsetsRight(k, r.offsets)
  BY CoherentFacts, Zenon
<1>4. res = IF r.offsets[oid] # None THEN [r |-> r, offset |-> r.offsets[oid]]
            ELSE IF find.found THEN [r |-> [find.r EXCEPT !.offsets[oid] = offset], offset |-> offset]
            ELSE [r |-> find.r, offset |-> None]
  BY Zenon DEF ObjOffset, OffsetAt
<1> HIDE DEF find, res
<1>5. CASE r.offsets[oid] # None
  <2>1. res.r = r /\ res.offset = r.offsets[oid]
    BY <1>4, <1>5
  <2> QED BY <1>3, <1>5, <2>1, Zenon DEF OffsetsRight, res
<1>6. CASE r.offsets[oid] = None /\ find.found
  <2>1. oid \in Contents(k) /\ offset = Idx[k].offset[oid]
    BY <1>2, <1>6, Zenon
  <2>2. res.r = [find.r EXCEPT !.offsets[oid] = offset] /\ res.offset = offset
    <3> HIDE DEF offset
    <3> QED BY <1>4, <1>6
  <2>3. [find.r EXCEPT !.offsets[oid] = Idx[k].offset[oid]] \in Coherent(k)
    BY <1>2, <2>1, KeepOffset, Zenon
  <2>4. Idx[k].offset[oid] # None
    <3>1. Idx[k].offset[oid] \in DOMAIN Entry[k] /\ k \in Pack
      BY <2>1, IndexFacts, IndexedPack, Zenon
    <3>2. Idx[k].offset[oid] \in Nat
      BY <3>1, EntryFacts
    <3> QED BY <3>2, ObjDbAssumption, Zenon
  <2> HIDE DEF offset
  <2> QED BY <2>1, <2>2, <2>3, <2>4, Zenon DEF res
<1>7. CASE r.offsets[oid] = None /\ ~find.found
  <2>1. res.r = find.r /\ res.offset = None
    BY <1>4, <1>7
  <2> QED BY <1>2, <1>7, <2>1, Zenon DEF res
<1> QED BY <1>5, <1>6, <1>7, Zenon

-----------------------------------------------------------------------------
(* The objects of a pack *)

\* Some delta of the pack names a base that comes after a gap.
BaseAfterGap(k) == \E i \in DOMAIN Entry[k] : Entry[k][i].kind = "ref" /\ AfterGap(k, Entry[k][i].base)

\* What reading an object o returns: its contents, or nothing if a base was missed.
ReadsAs(k, res, o) ==
    /\ res = [r |-> res.r, obj |-> res.obj]
    /\ res.r \in Coherent(k)
    /\ res.obj = o \/ (res.obj = None /\ BaseAfterGap(k))

\* The first m entries are read as they should.
AtRight(k, at, m) ==
    \A i \in DOMAIN Entry[k] : i <= m => \A r \in Coherent(k) : ReadsAs(k, at[i][r], Expanded[k][i])

\* read_obj_raw and read_obj_header.
LEMMA ReadFoundLemma ==
    ASSUME NEW k \in DOMAIN Idx, NEW r \in Coherent(k), NEW oid \in Oid, NEW at, NEW m, AtRight(k, at, m),
           oid \in Contents(k) => Idx[k].offset[oid] <= m
    PROVE  LET res == ReadFound(at, r, k, oid) IN
           /\ res = [r |-> res.r, obj |-> res.obj]
           /\ res.r \in Coherent(k)
           /\ res.obj \in {oid, None}
           /\ res.obj = None /\ oid \in Contents(k) => AfterGap(k, oid) \/ BaseAfterGap(k)
<1> DEFINE find == ObjOffset(r, Idx[k], oid)
           res == ReadFound(at, r, k, oid)
<1>1. /\ find.r \in Coherent(k)
      /\ find.offset # None => oid \in Contents(k) /\ find.offset = Idx[k].offset[oid]
      /\ find.offset = None /\ oid \in Contents(k) => AfterGap(k, oid)
  BY ObjOffsetLemma, Zenon
<1>2. res = IF find.offset = None THEN [r |-> find.r, obj |-> None] ELSE at[find.offset][find.r]
  BY Zenon DEF ReadFound, ObjAt
<1> HIDE DEF find, res
<1>3. CASE find.offset = None
  <2>1. res = [r |-> find.r, obj |-> None]
    BY <1>2, <1>3, Zenon
  <2>2. res = [r |-> res.r, obj |-> res.obj] /\ res.r = find.r /\ res.obj = None
    BY <2>1
  <2> QED BY <1>1, <1>3, <2>2, Zenon DEF res
<1>4. CASE find.offset # None
  <2>1. oid \in Contents(k) /\ find.offset = Idx[k].offset[oid]
    BY <1>1, <1>4, Zenon
  <2>2. find.offset \in DOMAIN Entry[k] /\ Expanded[k][find.offset] = oid
    BY <2>1, IndexFacts, Zenon
  <2>3. ReadsAs(k, at[find.offset][find.r], oid)
    BY <1>1, <2>1, <2>2, Zenon DEF AtRight
  <2>4. ReadsAs(k, res, oid)
    BY <1>2, <1>4, <2>3, Zenon
  <2>5. /\ res = [r |-> res.r, obj |-> res.obj]
        /\ res.r \in Coherent(k)
        /\ res.obj = oid \/ (res.obj = None /\ BaseAfterGap(k))
    BY <2>4, Zenon DEF ReadsAs
  <2>6. oid # None
    BY ObjDbAssumption, Zenon
  <2> QED BY <2>5, <2>6, Zenon DEF res
<1> QED BY <1>3, <1>4, Zenon

\* expand_raw_obj, if the entries before are read as they should.
LEMMA ExpandRawObjLemma ==
    ASSUME NEW k \in DOMAIN Idx, NEW r \in Coherent(k), NEW i \in DOMAIN Entry[k], NEW at, AtRight(k, at, i - 1)
    PROVE  ReadsAs(k, ExpandRawObj(at, r, k, i), Expanded[k][i])
<1> DEFINE e == Entry[k][i]
           base == IF e.kind = "ofs" THEN at[i - e.base][r] ELSE ReadFound(at, r, k, e.base)
           res == ExpandRawObj(at, r, k, i)
<1>1. /\ k \in Pack /\ e.kind \in {"raw", "ofs", "ref"} /\ i \in Nat
      /\ e.kind = "ofs" => e.base \in 1..(i - 1)
      /\ e.kind = "ref" => e.base \in Oid
  <2>1. k \in Pack
    BY IndexedPack, Zenon
  <2>2. i \in Nat
    BY <2>1, EntryFacts
  <2> QED BY <2>1, <2>2, EntryFacts, Zenon
<1>2. /\ e.kind = "raw" => Expanded[k][i] = e.data
      /\ e.kind = "ofs" => Expanded[k][i] = Expand(Expanded[k][i - e.base], e)
      /\ e.kind = "ref" => e.base \in Contents(k) /\ Expanded[k][i] = Expand(e.base, e)
  BY IndexedPack, Zenon
<1>3. res = IF e.kind = "raw" THEN [r |-> r, obj |-> e.data]
            ELSE [r |-> base.r, obj |-> IF base.obj = None THEN None ELSE Expand(base.obj, e)]
  BY Zenon DEF ExpandRawObj, ExpandDelta, ReadPackObj
<1> HIDE DEF res
<1>4. CASE e.kind = "raw"
  <2>1. res = [r |-> r, obj |-> e.data]
    BY <1>3, <1>4, Zenon
  <2>2. res = [r |-> res.r, obj |-> res.obj] /\ res.r = r /\ res.obj = e.data
    BY <2>1
  <2> QED BY <1>2, <1>4, <2>2, Zenon DEF ReadsAs, res
<1>5. ASSUME e.kind # "raw", NEW o \in Oid, base.r \in Coherent(k),
             base.obj = o \/ (base.obj = None /\ BaseAfterGap(k)), Expanded[k][i] = Expand(o, e)
      PROVE  ReadsAs(k, res, Expanded[k][i])
  <2> HIDE DEF base
  <2>1. res = [r |-> base.r, obj |-> IF base.obj = None THEN None ELSE Expand(base.obj, e)]
    BY <1>3, <1>5, Zenon
  <2>2. /\ res = [r |-> res.r, obj |-> res.obj] /\ res.r = base.r
        /\ res.obj = IF base.obj = None THEN None ELSE Expand(base.obj, e)
    BY <2>1
  <2>3. CASE base.obj = None /\ BaseAfterGap(k)
    BY <1>5, <2>2, <2>3, Zenon DEF ReadsAs
  <2>4. CASE base.obj # None /\ base.obj = o
    BY <1>5, <2>2, <2>4, Zenon DEF ReadsAs
  <2>5. CASE base.obj = None /\ base.obj = o
    BY <1>5, <2>5, ObjDbAssumption, Zenon
  <2> QED BY <1>5, <2>3, <2>4, <2>5, Zenon
<1>6. CASE e.kind = "ofs"
  <2> DEFINE j == i - e.base
  <2>1. j \in DOMAIN Entry[k] /\ j <= i - 1
    BY <1>1, <1>6, EntryFacts
  <2>2. base = at[j][r]
    BY <1>6, Zenon
  <2>3. ReadsAs(k, at[j][r], Expanded[k][j])
    <3> HIDE DEF j
    <3> QED BY <2>1, Zenon DEF AtRight
  <2>4. base.r \in Coherent(k) /\ (base.obj = Expanded[k][j] \/ (base.obj = None /\ BaseAfterGap(k)))
    <3> HIDE DEF j, base
    <3> QED BY <2>2, <2>3, Zenon DEF ReadsAs
  <2>5. Expanded[k][j] \in Oid
    <3> HIDE DEF j
    <3> QED BY <2>1, IndexedPack, Zenon
  <2> HIDE DEF base
  <2> QED BY <1>2, <1>5, <1>6, <2>4, <2>5, Zenon DEF res
<1>7. CASE e.kind = "ref"
  <2>1. base = ReadFound(at, r, k, e.base)
    BY <1>7, Zenon
  <2>2. e.base \in Oid /\ e.base \in Contents(k)
    BY <1>1, <1>2, <1>7, Zenon
  <2>3. Idx[k].offset[e.base] <= i - 1
    <3>1. Idx[k].offset[e.base] < i
      BY <1>7, BaseAssumption, Zenon
    <3>2. Idx[k].offset[e.base] \in DOMAIN Entry[k]
      BY <2>2, IndexFacts, Zenon
    <3> QED BY <1>1, <3>1, <3>2, EntryFacts
  <2>4. /\ ReadFound(at, r, k, e.base).r \in Coherent(k)
        /\ ReadFound(at, r, k, e.base).obj \in {e.base, None}
        /\ ReadFound(at, r, k, e.base).obj = None => AfterGap(k, e.base) \/ BaseAfterGap(k)
    <3> HIDE DEF e
    <3> QED BY <2>2, <2>3, ReadFoundLemma, Zenon
  <2>5. base.r \in Coherent(k) /\ (base.obj = e.base \/ (base.obj = None /\ BaseAfterGap(k)))
    <3> HIDE DEF base
    <3> QED BY <1>7, <2>1, <2>4, Zenon DEF BaseAfterGap
  <2> HIDE DEF base
  <2> QED BY <1>2, <1>5, <1>7, <2>2, <2>5, Zenon DEF res
<1> QED BY <1>1, <1>4, <1>6, <1>7, Zenon DEF res

\* read_obj_raw_at, with or without the cache of objects.
LEMMA ReadAtLemma ==
    ASSUME NEW k \in DOMAIN Idx, NEW r \in Coherent(k), NEW i \in DOMAIN Entry[k], NEW at,
           AtRight(k, at, i - 1), NEW header
    PROVE  ReadsAs(k, ReadAt(at, r, k, i, header), Expanded[k][i])
<1> DEFINE new == ExpandRawObj(at, r, k, i)
           res == ReadAt(at, r, k, i, header)
           o == Expanded[k][i]
<1>1. ReadsAs(k, new, o)
  BY ExpandRawObjLemma, Zenon
<1>2. res = IF ~header /\ r.objs[i] # None THEN [r |-> r, obj |-> r.objs[i]]
            ELSE IF header \/ new.obj \in {None, Bad} THEN new
            ELSE [new EXCEPT !.r = CacheObj(new.r, k, i, new.obj)]
  BY Zenon DEF ReadAt, Keep
<1> HIDE DEF new, res
<1>3. CASE ~header /\ r.objs[i] # None
  <2>1. r.objs[i] = o
    BY <1>3, CoherentFacts, Zenon DEF ObjsRight
  <2>2. res = [r |-> r, obj |-> o]
    BY <1>2, <1>3, <2>1, Zenon
  <2>3. res = [r |-> res.r, obj |-> res.obj] /\ res.r = r /\ res.obj = o
    BY <2>2
  <2> QED BY <2>3, Zenon DEF ReadsAs, res
<1>4. CASE ~(~header /\ r.objs[i] # None) /\ (header \/ new.obj \in {None, Bad})
  BY <1>1, <1>2, <1>4, Zenon DEF res
<1>5. CASE ~(~header /\ r.objs[i] # None) /\ ~(header \/ new.obj \in {None, Bad})
  <2>1. new = [r |-> new.r, obj |-> new.obj] /\ new.r \in Coherent(k) /\ new.obj = o
    BY <1>1, <1>5, Zenon DEF ReadsAs
  <2>2. res = [new EXCEPT !.r = CacheObj(new.r, k, i, o)]
    BY <1>2, <1>5, <2>1, Zenon
  <2> DEFINE s == CacheObj(new.r, k, i, o)
  <2>3. s \in Coherent(k)
    BY <2>1, KeepObj, Zenon
  <2> HIDE DEF s, o
  <2>4. res = [r |-> s, obj |-> o]
    BY <2>1, <2>2 DEF s
  <2>5. res = [r |-> res.r, obj |-> res.obj] /\ res.r = s /\ res.obj = o
    BY <2>4
  <2>6. ReadsAs(k, res, o)
    BY <2>3, <2>5, Zenon DEF ReadsAs
  <2> QED BY <2>6, Zenon DEF res, o
<1> QED BY <1>3, <1>4, <1>5, Zenon

\* The recursion of read_obj_raw_at over the deltas describes what it computes.
LEMMA ReadObjRawAtUnfolds ==
    ASSUME NEW k \in DOMAIN Idx, NEW header
    PROVE  \A n \in 1..Len(Entry[k]) :
              ReadObjRawAt(k, header)[n] =
                 [offset \in DOMAIN Entry[k] |->
                     [r \in PackReader(k) |-> ReadAt(ReadObjRawAt(k, header)[n - 1], r, k, offset, header)]]
<1> DEFINE N == Len(Entry[k])
           B == <<>>
           D(prev, n) == [offset \in DOMAIN Entry[k] |->
                            [r \in PackReader(k) |-> ReadAt(prev, r, k, offset, header)]]
           Until(F, m) == /\ F = [n \in 0..N |-> F[n]]
                          /\ F[0] = B
                          /\ \A n \in 1..m : F[n] = D(F[n - 1], n)
           Undone == {m \in 0..N : ~\E F : Until(F, m)}
<1>1. N \in Nat
  BY IndexedPack, EntryFacts, Zenon
<1> HIDE DEF N, B, D
<1>2. \A m \in 0..N : m \in Undone <=> ~\E F : Until(F, m)
  <2> HIDE DEF Until
  <2> QED BY Zenon
<1>3. ASSUME Undone # {} PROVE FALSE
  <2>1. Undone \in SUBSET Nat
    BY <1>1
  <2>2. PICK m \in Undone : \A j \in Undone : m <= j
    <3> HIDE DEF Undone
    <3> QED BY <1>3, <2>1, NatMin, Zenon
  <2>3. m \in 0..N /\ m \in Nat
    BY <1>1
  <2>4. CASE m = 0
    <3> DEFINE F == [n \in 0..N |-> B]
    <3>1. 0 \in 0..N /\ \A n \in 1..0 : FALSE
      BY <1>1
    <3>2. F = [n \in 0..N |-> F[n]] /\ F[0] = B
      BY <3>1, Zenon
    <3> HIDE DEF F
    <3>3. Until(F, 0)
      BY <3>1, <3>2, Zenon
    <3> HIDE DEF Until
    <3> QED BY <1>2, <2>3, <2>4, <3>3, Zenon
  <2>5. CASE m # 0
    <3>1. m - 1 \in 0..N /\ m - 1 \notin Undone
      <4> HIDE DEF Undone
      <4> QED BY <1>1, <2>2, <2>3, <2>5
    <3>2. PICK G : Until(G, m - 1)
      <4> HIDE DEF Until, Undone
      <4> QED BY <1>2, <3>1, Zenon
    <3> DEFINE F == [n \in 0..N |-> IF n = m THEN D(G[m - 1], m) ELSE G[n]]
    <3>3. F = [n \in 0..N |-> F[n]] /\ F[m] = D(G[m - 1], m) /\ \A n \in 0..N : n # m => F[n] = G[n]
      BY <2>3, Zenon
    <3> HIDE DEF F
    <3>4. 0 \in 0..N /\ 0 # m
      BY <1>1, <2>3, <2>5
    <3>5. F[0] = B
      BY <3>2, <3>3, <3>4, Zenon
    <3>6. ASSUME NEW n \in 1..m PROVE F[n] = D(F[n - 1], n)
      <4>1. n \in 0..N /\ n - 1 \in 0..N /\ n - 1 # m /\ (n = m \/ n \in 1..(m - 1))
        BY <1>1, <2>3
      <4>2. F[n - 1] = G[n - 1]
        BY <3>3, <4>1, Zenon
      <4>3. n \in 1..(m - 1) => n # m
        BY <2>3
      <4> QED BY <3>2, <3>3, <4>1, <4>2, <4>3, Zenon
    <3>7. Until(F, m)
      BY <3>3, <3>5, <3>6, Zenon
    <3> HIDE DEF Until
    <3> QED BY <1>2, <2>3, <3>7, Zenon
  <2> QED BY <2>4, <2>5, Zenon
<1>4. N \notin Undone /\ N \in 0..N
  <2> HIDE DEF Undone
  <2> QED BY <1>1, <1>3
<1>5. PICK F : Until(F, N)
  <2> HIDE DEF Until, Undone
  <2> QED BY <1>2, <1>4, Zenon
<1> DEFINE Is(H) == H = [n \in 0..N |-> IF n = 0 THEN B ELSE D(H[n - 1], n)]
<1>6. Is(F)
  <2>1. \A n \in 0..N : n = 0 \/ n \in 1..N
    BY <1>1
  <2>2. \A n \in 0..N : F[n] = IF n = 0 THEN B ELSE D(F[n - 1], n)
    BY <1>5, <2>1, Zenon
  <2> QED BY <1>5, <2>2, Zenon
<1> DEFINE H == CHOOSE h : Is(h)
<1>7. Is(H)
  <2> HIDE DEF Is
  <2> QED BY <1>6, Zenon
<1>8. 0 \in 0..N /\ \A n \in 1..N : n \in 0..N /\ n # 0
  BY <1>1
<1>9. H[0] = B /\ \A n \in 1..N : H[n] = D(H[n - 1], n)
  <2> HIDE DEF H
  <2> QED BY <1>7, <1>8, Zenon
<1>10. ReadObjRawAt(k, header) = H
  BY Zenon DEF ReadObjRawAt, N, B, D
<1> HIDE DEF H
<1> QED BY <1>9, <1>10, Zenon DEF N, D

\* At each depth the entries up to it are read as they should.
LEMMA ReadObjRawAtLemma ==
    ASSUME NEW k \in DOMAIN Idx, NEW header
    PROVE  AtRight(k, ReadObjRawAt(k, header)[Len(Entry[k])], Len(Entry[k]))
<1> DEFINE N == Len(Entry[k])
           at == ReadObjRawAt(k, header)
           OK(n) == AtRight(k, at[n], n)
           Wrong == {n \in 0..N : ~OK(n)}
<1>1. N \in Nat /\ DOMAIN Entry[k] = 1..N
  BY IndexedPack, EntryFacts, Zenon
<1>2. \A n \in 1..N : at[n] = [offset \in DOMAIN Entry[k] |->
                                  [r \in PackReader(k) |-> ReadAt(at[n - 1], r, k, offset, header)]]
  BY ReadObjRawAtUnfolds, Zenon
<1> HIDE DEF N, at
<1>3. ASSUME Wrong # {} PROVE FALSE
  <2>1. Wrong \in SUBSET Nat
    BY <1>1
  <2>2. PICK m \in Wrong : \A j \in Wrong : m <= j
    <3> HIDE DEF Wrong
    <3> QED BY <1>3, <2>1, NatMin, Zenon
  <2>3. m \in 0..N /\ m \in Nat /\ ~OK(m)
    <3> HIDE DEF OK
    <3> QED BY <1>1
  <2>4. CASE m = 0
    <3>1. \A i \in DOMAIN Entry[k] : ~(i <= 0)
      BY <1>1
    <3> QED BY <2>3, <2>4, <3>1, Zenon DEF AtRight
  <2>5. CASE m # 0
    <3>1. m \in 1..N /\ m - 1 \in 0..N /\ m - 1 \notin Wrong
      <4> HIDE DEF Wrong
      <4> QED BY <1>1, <2>2, <2>3, <2>5
    <3>2. OK(m - 1)
      <4> HIDE DEF OK
      <4> QED BY <3>1, Zenon
    <3>3. ASSUME NEW i \in DOMAIN Entry[k], i <= m, NEW r \in Coherent(k)
          PROVE  ReadsAs(k, at[m][i][r], Expanded[k][i])
      <4>1. \A j \in DOMAIN Entry[k] : j <= i - 1 => j <= m - 1
        BY <1>1, <2>3, <3>3
      <4>2. AtRight(k, at[m - 1], i - 1)
        BY <3>2, <4>1, Zenon DEF AtRight
      <4>3. ReadsAs(k, ReadAt(at[m - 1], r, k, i, header), Expanded[k][i])
        BY <4>2, ReadAtLemma, Zenon
      <4>4. r \in PackReader(k)
        BY Zenon DEF Coherent
      <4>5. at[m][i][r] = ReadAt(at[m - 1], r, k, i, header)
        <5>1. at[m] = [offset \in DOMAIN Entry[k] |->
                          [s \in PackReader(k) |-> ReadAt(at[m - 1], s, k, offset, header)]]
          BY <1>2, <3>1, Zenon
        <5>2. at[m][i] = [s \in PackReader(k) |-> ReadAt(at[m - 1], s, k, i, header)]
          BY <5>1, Zenon
        <5> QED BY <4>4, <5>2, Zenon
      <4> QED BY <4>3, <4>5, Zenon
    <3> QED BY <2>3, <3>3, Zenon DEF AtRight
  <2> QED BY <2>4, <2>5, Zenon
<1>4. N \in 0..N
  BY <1>1
<1>5. OK(N)
  <2> HIDE DEF OK
  <2> QED BY <1>3, <1>4, Zenon
<1> QED BY <1>5, Zenon DEF at, N

\* What one pack answers about an object: right, or nothing, and nothing though
\* the object is there only after a gap.
LEMMA AskLemma ==
    ASSUME NEW k \in DOMAIN Idx, NEW r \in Coherent(k), NEW oid \in Oid, NEW how
    PROVE  LET one == Ask(r, k, how, oid) IN
           /\ one.r \in Coherent(k)
           /\ one.obj \in {oid, None}
           /\ one.obj = None /\ oid \in Contents(k) => AfterGap(k, oid) \/ BaseAfterGap(k)
<1> DEFINE find == ObjOffset(r, Idx[k], oid)
           one == Ask(r, k, how, oid)
<1>1. one = IF how = "exists" THEN [r |-> find.r, obj |-> IF find.offset = None THEN None ELSE oid]
            ELSE ReadObjRaw(r, k, oid, how = "header")
  BY Zenon DEF Ask, ObjExists
<1>2. /\ find.r \in Coherent(k)
      /\ find.offset # None => oid \in Contents(k) /\ find.offset = Idx[k].offset[oid]
      /\ find.offset = None /\ oid \in Contents(k) => AfterGap(k, oid)
  BY ObjOffsetLemma, Zenon
<1> HIDE DEF find, one
<1>3. CASE how = "exists"
  <2>1. one.r = find.r /\ one.obj = IF find.offset = None THEN None ELSE oid
    BY <1>1, <1>3
  <2>2. oid # None
    BY ObjDbAssumption, Zenon
  <2> QED BY <1>2, <2>1, <2>2, Zenon DEF one
<1>4. CASE how # "exists"
  <2> DEFINE at == ReadObjRawAt(k, how = "header")[Len(Entry[k])]
             m == Len(Entry[k])
             res == ReadFound(at, r, k, oid)
  <2>1. one = res
    BY <1>1, <1>4, Zenon DEF ReadObjRaw
  <2>2. AtRight(k, at, m)
    BY ReadObjRawAtLemma, Zenon
  <2>3. oid \in Contents(k) => Idx[k].offset[oid] <= m
    <3>1. k \in Pack
      BY IndexedPack, Zenon
    <3>2. ASSUME oid \in Contents(k) PROVE Idx[k].offset[oid] \in DOMAIN Entry[k]
      BY <3>2, IndexFacts, Zenon
    <3> QED BY <3>1, <3>2, EntryFacts
  <2> HIDE DEF at, m
  <2>4. /\ res = [r |-> res.r, obj |-> res.obj]
        /\ res.r \in Coherent(k)
        /\ res.obj \in {oid, None}
        /\ res.obj = None /\ oid \in Contents(k) => AfterGap(k, oid) \/ BaseAfterGap(k)
    BY <2>2, <2>3, ReadFoundLemma, Zenon
  <2> HIDE DEF res
  <2> QED BY <2>1, <2>4, Zenon DEF one
<1> QED BY <1>3, <1>4, Zenon

\* What is known and found after each of the packs in the order.
Asking(asked, known, order, how, oid) ==
    /\ AskPacks(known, order, how, oid) = asked[Len(order)]
    /\ asked[0] = [known |-> known, obj |-> None]
    /\ \A n \in 1..Len(order) : asked[n] = AskNext(asked[n - 1], order[n], how, oid)

\* The recursion over the packs describes what it computes.
LEMMA AskPacksUnfolds ==
    ASSUME NEW known, NEW order, Len(order) \in Nat, NEW how, NEW oid
    PROVE  \E asked : Asking(asked, known, order, how, oid)
<1> DEFINE N == Len(order)
           B == [known |-> known, obj |-> None]
           D(prev, n) == AskNext(prev, order[n], how, oid)
           Until(F, m) == /\ F = [n \in 0..N |-> F[n]]
                          /\ F[0] = B
                          /\ \A n \in 1..m : F[n] = D(F[n - 1], n)
           Undone == {m \in 0..N : ~\E F : Until(F, m)}
<1>1. N \in Nat
  OBVIOUS
<1> HIDE DEF N, B, D
<1>2. \A m \in 0..N : m \in Undone <=> ~\E F : Until(F, m)
  <2> HIDE DEF Until
  <2> QED BY Zenon
<1>3. ASSUME Undone # {} PROVE FALSE
  <2>1. Undone \in SUBSET Nat
    BY <1>1
  <2>2. PICK m \in Undone : \A j \in Undone : m <= j
    <3> HIDE DEF Undone
    <3> QED BY <1>3, <2>1, NatMin, Zenon
  <2>3. m \in 0..N /\ m \in Nat
    BY <1>1
  <2>4. CASE m = 0
    <3> DEFINE F == [n \in 0..N |-> B]
    <3>1. 0 \in 0..N /\ \A n \in 1..0 : FALSE
      BY <1>1
    <3>2. F = [n \in 0..N |-> F[n]] /\ F[0] = B
      BY <3>1, Zenon
    <3> HIDE DEF F
    <3>3. Until(F, 0)
      BY <3>1, <3>2, Zenon
    <3> HIDE DEF Until
    <3> QED BY <1>2, <2>3, <2>4, <3>3, Zenon
  <2>5. CASE m # 0
    <3>1. m - 1 \in 0..N /\ m - 1 \notin Undone
      <4> HIDE DEF Undone
      <4> QED BY <1>1, <2>2, <2>3, <2>5
    <3>2. PICK G : Until(G, m - 1)
      <4> HIDE DEF Until, Undone
      <4> QED BY <1>2, <3>1, Zenon
    <3> DEFINE F == [n \in 0..N |-> IF n = m THEN D(G[m - 1], m) ELSE G[n]]
    <3>3. F = [n \in 0..N |-> F[n]] /\ F[m] = D(G[m - 1], m) /\ \A n \in 0..N : n # m => F[n] = G[n]
      BY <2>3, Zenon
    <3> HIDE DEF F
    <3>4. 0 \in 0..N /\ 0 # m
      BY <1>1, <2>3, <2>5
    <3>5. F[0] = B
      BY <3>2, <3>3, <3>4, Zenon
    <3>6. ASSUME NEW n \in 1..m PROVE F[n] = D(F[n - 1], n)
      <4>1. n \in 0..N /\ n - 1 \in 0..N /\ n - 1 # m /\ (n = m \/ n \in 1..(m - 1))
        BY <1>1, <2>3
      <4>2. F[n - 1] = G[n - 1]
        BY <3>3, <4>1, Zenon
      <4>3. n \in 1..(m - 1) => n # m
        BY <2>3
      <4> QED BY <3>2, <3>3, <4>1, <4>2, <4>3, Zenon
    <3>7. Until(F, m)
      BY <3>3, <3>5, <3>6, Zenon
    <3> HIDE DEF Until
    <3> QED BY <1>2, <2>3, <3>7, Zenon
  <2> QED BY <2>4, <2>5, Zenon
<1>4. N \notin Undone /\ N \in 0..N
  <2> HIDE DEF Undone
  <2> QED BY <1>1, <1>3
<1>5. PICK F : Until(F, N)
  <2> HIDE DEF Until, Undone
  <2> QED BY <1>2, <1>4, Zenon
<1> DEFINE Is(H) == H = [n \in 0..N |-> IF n = 0 THEN B ELSE D(H[n - 1], n)]
<1>6. Is(F)
  <2>1. \A n \in 0..N : n = 0 \/ n \in 1..N
    BY <1>1
  <2>2. \A n \in 0..N : F[n] = IF n = 0 THEN B ELSE D(F[n - 1], n)
    BY <1>5, <2>1, Zenon
  <2> QED BY <1>5, <2>2, Zenon
<1> DEFINE H == CHOOSE h : Is(h)
<1>7. Is(H)
  <2> HIDE DEF Is
  <2> QED BY <1>6, Zenon
<1>8. 0 \in 0..N /\ \A n \in 1..N : n \in 0..N /\ n # 0
  BY <1>1
<1>9. H[0] = B /\ \A n \in 1..N : H[n] = D(H[n - 1], n)
  <2> HIDE DEF H
  <2> QED BY <1>7, <1>8, Zenon
<1>10. AskPacks(known, order, how, oid) = H[N]
  BY Zenon DEF AskPacks, N, B, D
<1> HIDE DEF H
<1>11. Asking(H, known, order, how, oid)
  BY <1>9, <1>10, Zenon DEF Asking, N, B, D
<1> QED BY <1>11, Zenon

\* The pack has the object only where it may be missed.
Missable(k, oid) == oid \in Contents(k) => AfterGap(k, oid) \/ BaseAfterGap(k)

\* What is known after the first n packs of the order are asked.
AskedRight(s, K, order, n, oid) ==
    /\ s = [known |-> s.known, obj |-> s.obj]
    /\ KnownRight(K, s.known)
    /\ s.obj \in {oid, None}
    /\ s.obj = None => \A j \in 1..n : Missable(order[j], oid)

LEMMA AskNextLemma ==
    ASSUME NEW K \in SUBSET DOMAIN Idx, NEW order, NEW n \in Nat \ {0}, order[n] \in K, NEW oid \in Oid,
           NEW how, NEW s, AskedRight(s, K, order, n - 1, oid)
    PROVE  AskedRight(AskNext(s, order[n], how, oid), K, order, n, oid)
<1> DEFINE k == order[n]
           one == Ask(s.known[k], k, how, oid)
           t == AskNext(s, k, how, oid)
<1>1. t = IF s.obj # None THEN s ELSE [known |-> [s.known EXCEPT ![k] = one.r], obj |-> one.obj]
  BY Zenon DEF AskNext, AfterOne
<1>2. s.known[k] \in Coherent(k) /\ k \in DOMAIN Idx
  BY Zenon DEF AskedRight, KnownRight
<1>3. /\ one.r \in Coherent(k)
      /\ one.obj \in {oid, None}
      /\ one.obj = None => Missable(k, oid)
  <2> HIDE DEF k
  <2> QED BY <1>2, AskLemma, Zenon DEF Missable
<1> HIDE DEF one, t
<1>4. CASE s.obj # None
  <2>1. t = s
    BY <1>1, <1>4, Zenon
  <2>2. AskedRight(s, K, order, n, oid)
    BY <1>4, Zenon DEF AskedRight
  <2> QED BY <2>1, <2>2, Zenon DEF t
<1>5. CASE s.obj = None
  <2> DEFINE new == [s.known EXCEPT ![k] = one.r]
  <2>1. t = [known |-> new, obj |-> one.obj]
    BY <1>1, <1>5, Zenon
  <2>2. new = [l \in K |-> new[l]] /\ new[k] = one.r /\ \A l \in K : l # k => new[l] = s.known[l]
    <3>1. s.known = [l \in K |-> s.known[l]]
      BY Zenon DEF AskedRight, KnownRight
    <3> QED BY <3>1, Zenon
  <2> HIDE DEF new
  <2>3. t = [known |-> t.known, obj |-> t.obj] /\ t.known = new /\ t.obj = one.obj
    BY <2>1
  <2>4. \A l \in K : new[l] \in Coherent(l)
    <3>1. \A l \in K : s.known[l] \in Coherent(l)
      BY Zenon DEF AskedRight, KnownRight
    <3> HIDE DEF k
    <3> QED BY <1>3, <2>2, <3>1, Zenon
  <2>5. one.obj = None => \A j \in 1..n : Missable(order[j], oid)
    <3>1. \A j \in 1..(n - 1) : Missable(order[j], oid)
      BY <1>5, Zenon DEF AskedRight
    <3>2. \A j \in 1..n : j = n \/ j \in 1..(n - 1)
      OBVIOUS
    <3> QED BY <1>3, <3>1, <3>2, Zenon
  <2>6. AskedRight(t, K, order, n, oid)
    BY <1>3, <2>2, <2>3, <2>4, <2>5, Zenon DEF AskedRight, KnownRight
  <2> QED BY <2>6, Zenon DEF t
<1> QED BY <1>4, <1>5, Zenon

\* An order of the packs K.
Arranged(order, K) == order \in [1..Cardinality(K) -> K] /\ Range(order) = K

\* What all packs answer, in any order.
LEMMA AskPacksLemma ==
    ASSUME NEW K \in SUBSET DOMAIN Idx, NEW order, Arranged(order, K),
           NEW known, KnownRight(K, known),
           NEW oid \in Oid, NEW how
    PROVE  LET packed == AskPacks(known, order, how, oid) IN
           /\ KnownRight(K, packed.known)
           /\ packed.obj \in {oid, None}
           /\ packed.obj = None => \A k \in K : Missable(k, oid)
<1> DEFINE c == Cardinality(K)
<1>1. c \in Nat
  <2>1. K \subseteq Pack
    BY IndexedPack, Zenon
  <2>2. IsFiniteSet(K)
    BY <2>1, ObjDbAssumption, FS_Subset, Zenon
  <2> QED BY <2>2, FS_CardinalityType, Zenon
<1>2. order \in [1..c -> K] /\ Range(order) = K
  BY Zenon DEF Arranged
<1> HIDE DEF c
<1>3. Len(order) = c
  <2>1. order \in Seq(K)
    BY <1>1, <1>2
  <2> QED BY <1>1, <1>2, <2>1
<1>4. PICK asked : /\ AskPacks(known, order, how, oid) = asked[c]
                   /\ asked[0] = [known |-> known, obj |-> None]
                   /\ \A n \in 1..c : asked[n] = AskNext(asked[n - 1], order[n], how, oid)
  <2>1. Len(order) \in Nat
    BY <1>1, <1>3, Zenon
  <2>2. PICK asked : Asking(asked, known, order, how, oid)
    BY <2>1, AskPacksUnfolds, Zenon
  <2>3. /\ AskPacks(known, order, how, oid) = asked[c]
        /\ asked[0] = [known |-> known, obj |-> None]
        /\ \A n \in 1..c : asked[n] = AskNext(asked[n - 1], order[n], how, oid)
    BY <1>3, <2>2, Zenon DEF Asking
  <2> QED BY <2>3, Zenon
<1> DEFINE OK(n) == AskedRight(asked[n], K, order, n, oid)
           Wrong == {n \in 0..c : ~OK(n)}
<1>5. ASSUME Wrong # {} PROVE FALSE
  <2>1. Wrong \in SUBSET Nat
    BY <1>1
  <2>2. PICK m \in Wrong : \A j \in Wrong : m <= j
    <3> HIDE DEF Wrong
    <3> QED BY <1>5, <2>1, NatMin, Zenon
  <2>3. m \in 0..c /\ m \in Nat /\ ~OK(m)
    <3> HIDE DEF OK
    <3> QED BY <1>1
  <2>4. CASE m = 0
    <3> DEFINE s == asked[0]
    <3>1. s = [known |-> s.known, obj |-> s.obj] /\ s.known = known /\ s.obj = None
      <4> HIDE DEF s
      <4> QED BY <1>4 DEF s
    <3>2. \A j \in 1..0 : FALSE
      OBVIOUS
    <3> HIDE DEF s
    <3>3. AskedRight(s, K, order, 0, oid)
      BY <3>1, <3>2, Zenon DEF AskedRight
    <3> QED BY <2>3, <2>4, <3>3, Zenon DEF s
  <2>5. CASE m # 0
    <3>1. m \in 1..c /\ m - 1 \in 0..c /\ m - 1 \notin Wrong /\ m \in Nat \ {0}
      <4> HIDE DEF Wrong
      <4> QED BY <1>1, <2>2, <2>3, <2>5
    <3>2. AskedRight(asked[m - 1], K, order, m - 1, oid)
      <4> HIDE DEF OK
      <4>1. OK(m - 1)
        BY <3>1, Zenon
      <4> QED BY <4>1, Zenon DEF OK
    <3>3. order[m] \in K
      BY <1>2, <3>1, Zenon
    <3>4. AskedRight(AskNext(asked[m - 1], order[m], how, oid), K, order, m, oid)
      <4>1. m \in Nat \ {0}
        BY <3>1, Zenon
      <4> HIDE DEF OK, Wrong
      <4> QED BY <3>2, <3>3, <4>1, AskNextLemma, Zenon
    <3> QED BY <1>4, <2>3, <3>1, <3>4, Zenon
  <2> QED BY <2>4, <2>5, Zenon
<1>6. OK(c)
  <2>1. c \in 0..c
    BY <1>1
  <2> HIDE DEF OK
  <2> QED BY <1>5, <2>1, Zenon
<1>7. AskedRight(AskPacks(known, order, how, oid), K, order, c, oid)
  BY <1>4, <1>6, Zenon
<1>8. \A k \in K : \E j \in 1..c : order[j] = k
  BY <1>2, Zenon DEF Range
<1> QED BY <1>7, <1>8, Zenon DEF AskedRight

\* What a process answers, and the state it is in then.
AnswerRight(x, answer, oid) ==
    /\ CachesRight(answer.then)
    /\ answer.then.pc = p[x].pc
    /\ answer.then.arg = p[x].arg
    /\ DOMAIN answer.then.packs = DOMAIN p[x].packs
    /\ answer.got \in {oid, None}
    /\ answer.got = None => oid \notin loose \ Empty /\ \A k \in DOMAIN p[x].packs : Missable(k, oid)

\* What a process answers: the object that was asked for, or nothing; its caches
\* hold what they should then, too.
LEMMA AnswerLemma ==
    ASSUME NEW x, CachesRight(p[x]), DOMAIN p[x].packs \subseteq DOMAIN Idx, NEW order \in Orders(x),
           NEW how, NEW oid \in Oid
    PROVE  AnswerRight(x, Answer(x, order, how, oid), oid)
<1> DEFINE q == p[x]
           K == DOMAIN q.packs
           packed == AskPacks(q.packs, order, how, oid)
           obj == IF packed.obj = None THEN LocateObj(how, oid) ELSE packed.obj
           objs == IF how = "read" /\ obj # None THEN [q.objs EXCEPT ![oid] = obj] ELSE q.objs
           answer == Answer(x, order, how, oid)
<1>1. answer = IF how = "read" /\ q.objs[oid] # None THEN [got |-> q.objs[oid], then |-> q]
               ELSE [got |-> obj, then |-> [q EXCEPT !.packs = packed.known, !.objs = objs]]
  BY Zenon DEF Answer, AfterPacks
<1>2. /\ q = [pc |-> q.pc, packs |-> q.packs, objs |-> q.objs, arg |-> q.arg]
      /\ KnownRight(K, q.packs)
      /\ q.objs \in [Oid -> Oid \cup {None}]
      /\ \A o \in Oid : q.objs[o] \in {o, None}
  BY Zenon DEF CachesRight
<1>3. /\ KnownRight(K, packed.known)
      /\ packed.obj \in {oid, None}
      /\ packed.obj = None => \A k \in K : Missable(k, oid)
  <2> DEFINE known == q.packs
             S == K
  <2>1. S \in SUBSET DOMAIN Idx
    BY Zenon
  <2>2. Arranged(order, S)
    BY Zenon DEF Orders, Arranged
  <2>3. KnownRight(S, known)
    BY <1>2, Zenon
  <2> HIDE DEF known, S
  <2>4. LET all == AskPacks(known, order, how, oid) IN
        /\ KnownRight(S, all.known)
        /\ all.obj \in {oid, None}
        /\ all.obj = None => \A k \in S : Missable(k, oid)
    BY <2>1, <2>2, <2>3, AskPacksLemma, Zenon
  <2> QED BY <2>4, Zenon DEF known, S
<1>4. oid # None
  BY ObjDbAssumption, Zenon
<1> HIDE DEF packed, answer, q
<1>5. CASE how = "read" /\ q.objs[oid] # None
  <2>1. answer.got = q.objs[oid] /\ answer.then = q
    <3> HIDE DEF obj, objs
    <3> QED BY <1>1, <1>5
  <2>2. answer.got = oid
    BY <1>2, <1>5, <2>1, Zenon
  <2>3. AnswerRight(x, answer, oid)
    BY <1>4, <2>1, <2>2, Zenon DEF AnswerRight, q
  <2> QED BY <2>3, Zenon DEF answer
<1>6. CASE ~(how = "read" /\ q.objs[oid] # None)
  <2>1. /\ obj \in {oid, None}
        /\ obj = None => oid \notin loose \ Empty /\ \A k \in K : Missable(k, oid)
    <3>1. /\ LocateObj(how, oid) \in {oid, None}
          /\ LocateObj(how, oid) = None => oid \notin loose \ Empty
      BY <1>4, Zenon DEF LocateObj, Empty
    <3> QED BY <1>3, <1>4, <3>1, Zenon
  <2>2. objs \in [Oid -> Oid \cup {None}] /\ \A o \in Oid : objs[o] \in {o, None}
    <3> HIDE DEF obj
    <3>1. CASE how = "read" /\ obj # None
      <4>1. objs = [q.objs EXCEPT ![oid] = oid]
        BY <2>1, <3>1, Zenon
      <4> QED BY <1>2, <4>1, Zenon
    <3>2. CASE ~(how = "read" /\ obj # None)
      BY <1>2, <3>2, Zenon
    <3> QED BY <3>1, <3>2, Zenon
  <2> HIDE DEF obj, objs
  <2>3. answer = [got |-> obj, then |-> [q EXCEPT !.packs = packed.known, !.objs = objs]]
    BY <1>1, <1>6, Zenon
  <2>4. answer.got = obj /\ answer.then = [q EXCEPT !.packs = packed.known, !.objs = objs]
    BY <2>3
  <2> DEFINE then == answer.then
  <2>5. then = [pc |-> q.pc, packs |-> packed.known, objs |-> objs, arg |-> q.arg]
    BY <1>2, <2>4, Zenon
  <2> HIDE DEF then
  <2>6. /\ then = [pc |-> then.pc, packs |-> then.packs, objs |-> then.objs, arg |-> then.arg]
        /\ then.pc = q.pc /\ then.packs = packed.known /\ then.objs = objs /\ then.arg = q.arg
    BY <2>5
  <2>7. DOMAIN then.packs = K
    BY <1>3, <2>6, Zenon DEF KnownRight
  <2>8. CachesRight(then)
    BY <1>3, <2>2, <2>6, <2>7, Zenon DEF CachesRight
  <2>9. AnswerRight(x, answer, oid)
    BY <2>1, <2>4, <2>6, <2>7, <2>8, Zenon DEF AnswerRight, q, then
  <2> QED BY <2>9, Zenon DEF answer
<1> QED BY <1>5, <1>6, Zenon

-----------------------------------------------------------------------------
(* Prefixes *)

\* What a prefix is.
LEMMA PrefixFacts ==
    ASSUME NEW prefix \in Prefix
    PROVE  /\ prefix[1] \in Byte /\ prefix[1] \in Nat /\ prefix[2] * Width \in Nat
           /\ Extended(prefix) \in Byte \X Nat /\ Extended(prefix)[1] = prefix[1]
           /\ Extended(prefix)[2] = prefix[2] * Width
<1>1. Width \in Nat /\ Width > 0
  BY ObjDbAssumption
<1>2. \A o \in Oid : o[2] \in Nat
  BY OidFacts, Zenon
<1>3. \A o \in Oid : o[2] \div Width \in Nat
  BY <1>1, <1>2
<1>4. prefix[1] \in Byte /\ prefix[2] \in {o[2] \div Width : o \in Oid}
  BY DEF Prefix
<1>5. prefix[2] \in Nat
  BY <1>3, <1>4, Zenon
<1>6. prefix[1] \in Nat
  BY <1>4, OidFacts DEF Byte
<1>7. prefix[2] * Width \in Nat
  BY <1>1, <1>5
<1> DEFINE w == prefix[2] * Width
<1> HIDE DEF w
<1>8. w \in Nat /\ Extended(prefix) = <<prefix[1], w>>
  BY <1>7, Zenon DEF Extended, w
<1>9. Extended(prefix) \in Byte \X Nat /\ Extended(prefix)[1] = prefix[1] /\ Extended(prefix)[2] = w
  BY <1>4, <1>8
<1> QED BY <1>4, <1>6, <1>7, <1>9, Zenon DEF w

\* The oids that have a prefix follow the extended one, with no other between.
LEMMA PrefixBetween ==
    ASSUME NEW prefix \in Prefix, NEW o \in Byte \X Nat, HasPrefix(o, prefix)
    PROVE  /\ ~Before(o, Extended(prefix))
           /\ \A q \in Byte \X Nat : ~Before(q, Extended(prefix)) /\ ~Before(o, q) => HasPrefix(q, prefix)
<1> DEFINE w == prefix[2] * Width
           b == prefix[1]
           e == Extended(prefix)
<1>1. b \in Nat /\ w \in Nat /\ e[1] = b /\ e[2] = w
  BY PrefixFacts, Zenon
<1>2. o[1] \in Nat /\ o[2] \in Nat
  BY OidFacts, Zenon
<1>3. o[1] = b /\ w <= o[2] /\ o[2] < w + Width
  BY Zenon DEF HasPrefix
<1>4. Width \in Nat
  BY ObjDbAssumption, Zenon
<1> HIDE DEF w, b, e
<1>5. ~Before(o, e)
  BY <1>1, <1>2, <1>3 DEF Before
<1>6. ASSUME NEW q \in Byte \X Nat, ~Before(q, e), ~Before(o, q)
      PROVE  HasPrefix(q, prefix)
  <2>1. q[1] \in Nat /\ q[2] \in Nat
    BY OidFacts, Zenon
  <2>2. ~(q[1] < b \/ (q[1] = b /\ q[2] < w)) /\ ~(b < q[1] \/ (b = q[1] /\ o[2] < q[2]))
    BY <1>1, <1>3, <1>6, Zenon DEF Before
  <2>3. q[1] = b /\ w <= q[2] /\ q[2] < w + Width
    BY <1>1, <1>2, <1>3, <1>4, <2>1, <2>2
  <2> QED BY <2>3, Zenon DEF HasPrefix, w, b
<1> QED BY <1>5, <1>6, Zenon DEF e

\* The objects of the pack that have the prefix, in the order, from the place of
\* the extended one.
LEMMA ScanLemma ==
    ASSUME NEW k \in DOMAIN Idx, NEW prefix \in Prefix, NEW from \in Nat \ {0}
    PROVE  /\ \A o \in Scan(Idx[k].oids, from, prefix) : o \in Contents(k) /\ HasPrefix(o, prefix)
           /\ from = Cardinality(Below(Contents(k), Extended(prefix))) + 1 =>
                 \A o \in Contents(k) : HasPrefix(o, prefix) => o \in Scan(Idx[k].oids, from, prefix)
<1> DEFINE S == Contents(k)
           s == Idx[k].oids
           n == Cardinality(S)
           e == Extended(prefix)
           D == Below(S, e)
           In == {i \in from..n : \A j \in from..i : HasPrefix(s[j], prefix)}
<1>1. S \in SUBSET Oid /\ s = Sorted(S)
  BY IndexFacts, Zenon
<1> HIDE DEF S
<1>2. /\ n \in Nat
      /\ \A o \in S : Cardinality(Below(S, o)) + 1 \in 1..n
      /\ \A o, q \in S : Before(o, q) <=> Cardinality(Below(S, o)) < Cardinality(Below(S, q))
  BY <1>1, RankFacts, Zenon
<1>3. /\ s \in [1..n -> S]
      /\ \A i \in 1..n : Cardinality(Below(S, s[i])) = i - 1
      /\ \A o \in S : s[Cardinality(Below(S, o)) + 1] = o
  <2>1. /\ Sorted(S) \in [1..Cardinality(S) -> S]
        /\ \A i \in 1..Cardinality(S) : Cardinality(Below(S, Sorted(S)[i])) = i - 1
        /\ \A o \in S : Sorted(S)[Cardinality(Below(S, o)) + 1] = o
    BY <1>1, SortedLemma, Zenon
  <2> HIDE DEF s
  <2> QED BY <1>1, <2>1, Zenon
<1>4. e \in Byte \X Nat
  BY PrefixFacts, Zenon
<1> HIDE DEF s, n, e
<1>5. Len(s) = n
  <2>1. n \in Nat /\ s \in [1..n -> S]
    BY <1>2, <1>3, Zenon
  <2>2. s \in Seq(S)
    BY <2>1
  <2> QED BY <2>1, <2>2
<1>6. Scan(s, from, prefix) = {s[i] : i \in In}
  BY <1>5, Zenon DEF Scan
<1>7. S \subseteq Byte \X Nat
  BY <1>1, OidFacts, Zenon
<1>8. ASSUME NEW o \in Scan(s, from, prefix) PROVE o \in S /\ HasPrefix(o, prefix)
  <2>1. PICK i \in In : o = s[i]
    BY <1>6, Zenon
  <2>2. i \in from..n /\ i \in 1..n /\ i \in from..i
    BY <1>2
  <2>3. HasPrefix(s[i], prefix)
    BY <2>2, Zenon
  <2> QED BY <1>3, <2>1, <2>2, <2>3, Zenon
<1>9. ASSUME from = Cardinality(D) + 1, NEW o \in S, HasPrefix(o, prefix)
      PROVE  o \in Scan(s, from, prefix)
  <2>1. /\ Cardinality(D) \in Nat
        /\ \A i \in 1..n : s[i] \in D <=> i <= Cardinality(D)
    <3>1. D \in SUBSET S
      BY Zenon DEF Below
    <3>2. \A q \in D : \A t \in S : Before(t, q) => t \in D
      BY <1>4, <1>7, OrderFacts, Zenon DEF Below
    <3> HIDE DEF D
    <3> QED BY <1>1, <3>1, <3>2, FirstOids, Zenon DEF n
  <2>2. /\ ~Before(o, e)
        /\ \A q \in Byte \X Nat : ~Before(q, e) /\ ~Before(o, q) => HasPrefix(q, prefix)
    BY <1>7, <1>9, PrefixBetween, Zenon DEF e
  <2> DEFINE i == Cardinality(Below(S, o)) + 1
  <2>3. i \in 1..n /\ s[i] = o /\ Cardinality(Below(S, o)) = i - 1
    <3>1. i \in 1..n /\ s[i] = o
      BY <1>2, <1>3, Zenon
    <3> QED BY <1>3, <3>1, Zenon
  <2> HIDE DEF i
  <2>4. ~(i <= Cardinality(D))
    <3>1. o \notin D
      BY <2>2, Zenon DEF Below
    <3> HIDE DEF D
    <3> QED BY <2>1, <2>3, <3>1, Zenon
  <2>5. i \in from..n
    <3> HIDE DEF D
    <3> QED BY <1>2, <1>9, <2>1, <2>3, <2>4
  <2>6. ASSUME NEW j \in from..i PROVE HasPrefix(s[j], prefix)
    <3>1. j \in 1..n /\ ~(j <= Cardinality(D)) /\ ~(i - 1 < j - 1)
      <4> HIDE DEF D
      <4> QED BY <1>2, <1>9, <2>1, <2>3, <2>5
    <3>2. s[j] \in S /\ Cardinality(Below(S, s[j])) = j - 1
      BY <1>3, <3>1, Zenon
    <3>3. s[j] \notin D
      <4> HIDE DEF D
      <4> QED BY <2>1, <3>1, Zenon
    <3>4. ~Before(s[j], e)
      BY <3>2, <3>3, Zenon DEF Below
    <3>5. ~Before(o, s[j])
      BY <1>2, <2>3, <3>1, <3>2, Zenon
    <3> QED BY <1>7, <2>2, <3>2, <3>4, <3>5, Zenon
  <2>7. i \in In
    BY <2>5, <2>6, Zenon
  <2> HIDE DEF In
  <2> QED BY <1>6, <2>3, <2>7, Zenon
<1> QED BY <1>8, <1>9, Zenon DEF S, s, e

\* Pack::prefix_matches: objects of the pack that have the prefix, and all of
\* them but those after a gap.
LEMMA PrefixMatchesLemma ==
    ASSUME NEW k \in DOMAIN Idx, NEW r \in Coherent(k), NEW prefix \in Prefix
    PROVE  LET found == PrefixMatches(r, Idx[k], prefix) IN
           /\ found.r \in Coherent(k)
           /\ \A o \in found.oids : o \in Contents(k) /\ HasPrefix(o, prefix)
           /\ \A o \in Contents(k) : HasPrefix(o, prefix) => o \in found.oids \/ AfterGap(k, o)
<1> DEFINE e == Extended(prefix)
           find == FindOidIndex(r, Idx[k], e)
           found == PrefixMatches(r, Idx[k], prefix)
<1>1. e \in Byte \X Nat /\ e[1] = prefix[1]
  BY PrefixFacts, Zenon
<1>2. found.r = find.r /\ found.oids = Scan(Idx[k].oids, find.index, prefix)
  <2>1. found = [r |-> find.r, oids |-> Scan(Idx[k].oids, find.index, prefix)]
    BY Zenon DEF PrefixMatches
  <2> HIDE DEF found, find
  <2> QED BY <2>1
<1>3. /\ find.r \in Coherent(k)
      /\ find.index \in Nat \ {0}
      /\ find.found => e \in Contents(k) /\ Idx[k].oids[find.index] = e
      /\ ~find.found /\ e \in Contents(k) => AfterGap(k, e)
      /\ \/ find.index = Cardinality(Below(Contents(k), e)) + 1
         \/ \A o \in Bucket(k, e[1]) : AfterGap(k, o)
  <2> HIDE DEF e
  <2> QED BY <1>1, FindLemma, Zenon
<1> DEFINE from == find.index
<1>4. /\ from \in Nat \ {0}
      /\ \/ from = Cardinality(Below(Contents(k), e)) + 1
         \/ \A o \in Bucket(k, e[1]) : AfterGap(k, o)
  <2> HIDE DEF find, e
  <2> QED BY <1>3, Zenon
<1> HIDE DEF from
<1>5. /\ \A o \in Scan(Idx[k].oids, from, prefix) : o \in Contents(k) /\ HasPrefix(o, prefix)
      /\ from = Cardinality(Below(Contents(k), e)) + 1 =>
            \A o \in Contents(k) : HasPrefix(o, prefix) => o \in Scan(Idx[k].oids, from, prefix)
  BY <1>4, ScanLemma, Zenon
<1>6. found.r \in Coherent(k) /\ found.oids = Scan(Idx[k].oids, from, prefix)
  <2> HIDE DEF find, found
  <2> QED BY <1>2, <1>3, Zenon DEF from
<1>7. \A o \in Contents(k) : HasPrefix(o, prefix) => o \in Bucket(k, e[1])
  BY <1>1, Zenon DEF HasPrefix, Bucket
<1> HIDE DEF find, found, e
<1> QED BY <1>4, <1>5, <1>6, <1>7, Zenon DEF found

\* What the number of its elements says of a set.
LEMMA CountLemma ==
    ASSUME NEW S, IsFiniteSet(S)
    PROVE  /\ Cardinality(S) = 0 => S = {}
           /\ Cardinality(S) = 1 => \E c : S = {c}
           /\ Cardinality(S) # 0 /\ Cardinality(S) # 1 => \E c, d \in S : c # d
           /\ (\E c, d \in S : c # d) => Cardinality(S) > 1
<1>1. Cardinality(S) = 0 <=> S = {}
  BY FS_EmptySet, Zenon
<1>2. Cardinality(S) = 1 <=> \E c : S = {c}
  BY FS_Singleton, Zenon
<1>3. Cardinality(S) \in Nat
  BY FS_CardinalityType, Zenon
<1>4. ASSUME ~\E c, d \in S : c # d, S # {} PROVE \E c : S = {c}
  <2>1. PICK c \in S : TRUE
    BY <1>4, Zenon
  <2>2. \A d \in S : d = c
    BY <1>4, <2>1, Zenon
  <2>3. S = {c}
    BY <2>1, <2>2, Zenon
  <2> QED BY <2>3, Zenon
<1>5. ASSUME NEW c \in S, NEW d \in S, c # d PROVE Cardinality(S) > 1
  <2>1. S # {} /\ ~\E a : S = {a}
    <3>1. ASSUME NEW a, S = {a} PROVE FALSE
      <4>1. c = a /\ d = a
        BY <3>1
      <4> QED BY <1>5, <4>1, Zenon
    <3>2. S # {}
      BY Zenon
    <3> QED BY <3>1, <3>2, Zenon
  <2>2. Cardinality(S) # 0 /\ Cardinality(S) # 1
    BY <1>1, <1>2, <2>1, Zenon
  <2> QED BY <1>3, <2>2
<1> QED BY <1>1, <1>2, <1>4, <1>5, Zenon

\* What expand_prefix does to the caches: they hold what they should.
LEMMA ExpansionCaches ==
    ASSUME NEW x, CachesRight(p[x]), DOMAIN p[x].packs \subseteq DOMAIN Idx, NEW prefix \in Prefix
    PROVE  LET then == Expansion(x, prefix).then IN
           /\ CachesRight(then)
           /\ then.pc = p[x].pc /\ then.arg = p[x].arg
           /\ DOMAIN then.packs = DOMAIN p[x].packs
<1> DEFINE q == p[x]
           K == DOMAIN q.packs
           matches == [k \in K |-> PrefixMatches(q.packs[k], Idx[k], prefix)]
           new == [k \in DOMAIN matches |-> matches[k].r]
           then == Expansion(x, prefix).then
<1>1. then = [q EXCEPT !.packs = new]
  BY DEF Expansion
<1>2. /\ q = [pc |-> q.pc, packs |-> q.packs, objs |-> q.objs, arg |-> q.arg]
      /\ KnownRight(K, q.packs)
      /\ q.objs \in [Oid -> Oid \cup {None}]
      /\ \A o \in Oid : q.objs[o] \in {o, None}
  BY Zenon DEF CachesRight
<1>3. ASSUME NEW k \in K PROVE matches[k].r \in Coherent(k)
  <2> DEFINE r == q.packs[k]
  <2>1. r \in Coherent(k) /\ k \in DOMAIN Idx
    BY <1>2, Zenon DEF KnownRight
  <2> HIDE DEF r
  <2>2. PrefixMatches(r, Idx[k], prefix).r \in Coherent(k)
    BY <2>1, PrefixMatchesLemma, Zenon
  <2> QED BY <2>2, Zenon DEF r
<1>4. DOMAIN matches = K
  BY Zenon
<1> HIDE DEF matches
<1>5. DOMAIN new = K /\ KnownRight(K, new)
  BY <1>3, <1>4, Zenon DEF KnownRight
<1> HIDE DEF new, then, q
<1>6. then = [pc |-> q.pc, packs |-> new, objs |-> q.objs, arg |-> q.arg]
  BY <1>1, <1>2
<1>7. /\ then = [pc |-> then.pc, packs |-> then.packs, objs |-> then.objs, arg |-> then.arg]
      /\ then.pc = q.pc /\ then.packs = new /\ then.objs = q.objs /\ then.arg = q.arg
  BY <1>6
<1>8. CachesRight(then)
  BY <1>2, <1>5, <1>7, Zenon DEF CachesRight
<1> QED BY <1>5, <1>7, <1>8, Zenon DEF then, q

\* The candidates of expand_prefix: the oids that have the prefix, each with the
\* pack it is in, or None if it is loose.
Candidates(x, prefix) ==
    LET matches == [k \in DOMAIN p[x].packs |-> PrefixMatches(p[x].packs[k], Idx[k], prefix)]
    IN  ({None} \X {o \in loose : HasPrefix(o, prefix)})
           \cup UNION {{k} \X matches[k].oids : k \in DOMAIN matches}

\* Each is an object where it is said to be, and all are there but those after a gap.
LEMMA CandidatesLemma ==
    ASSUME NEW x, CachesRight(p[x]), DOMAIN p[x].packs \subseteq DOMAIN Idx, loose \subseteq Oid,
           NEW prefix \in Prefix
    PROVE  LET C == Candidates(x, prefix)
               K == DOMAIN p[x].packs
           IN  /\ IsFiniteSet(C)
               /\ \A c \in C : /\ c = <<c[1], c[2]>> /\ c[2] \in Oid /\ HasPrefix(c[2], prefix)
                               /\ \/ c[1] = None /\ c[2] \in loose
                                  \/ c[1] \in K /\ c[2] \in Contents(c[1])
               /\ \A o \in loose : HasPrefix(o, prefix) => <<None, o>> \in C
               /\ \A k \in K : \A o \in Contents(k) :
                     HasPrefix(o, prefix) => <<k, o>> \in C \/ AfterGap(k, o)
<1> DEFINE q == p[x]
           K == DOMAIN q.packs
           M(k) == PrefixMatches(q.packs[k], Idx[k], prefix).oids
           C == Candidates(x, prefix)
           L == {o \in loose : HasPrefix(o, prefix)}
<1>1. C = ({None} \X L) \cup UNION {{k} \X M(k) : k \in K}
  <2> DEFINE matches == [k \in K |-> PrefixMatches(q.packs[k], Idx[k], prefix)]
  <2>1. DOMAIN matches = K /\ \A k \in K : matches[k].oids = M(k)
    BY Zenon
  <2>2. C = ({None} \X L) \cup UNION {{k} \X matches[k].oids : k \in DOMAIN matches}
    BY Zenon DEF Candidates
  <2> HIDE DEF matches, M
  <2>3. UNION {{k} \X matches[k].oids : k \in DOMAIN matches} = UNION {{k} \X M(k) : k \in K}
    BY <2>1, Zenon
  <2> HIDE DEF C, L
  <2> QED BY <2>2, <2>3, Zenon
<1>2. ASSUME NEW k \in K
      PROVE  /\ \A o \in M(k) : o \in Contents(k) /\ HasPrefix(o, prefix)
             /\ \A o \in Contents(k) : HasPrefix(o, prefix) => o \in M(k) \/ AfterGap(k, o)
  <2> DEFINE r == q.packs[k]
  <2>1. r \in Coherent(k) /\ k \in DOMAIN Idx
    BY Zenon DEF CachesRight, KnownRight
  <2> HIDE DEF r
  <2> DEFINE found == PrefixMatches(r, Idx[k], prefix)
  <2>2. /\ found.r \in Coherent(k)
        /\ \A o \in found.oids : o \in Contents(k) /\ HasPrefix(o, prefix)
        /\ \A o \in Contents(k) : HasPrefix(o, prefix) => o \in found.oids \/ AfterGap(k, o)
    BY <2>1, PrefixMatchesLemma, Zenon
  <2>3. found.oids = M(k)
    BY Zenon DEF r
  <2> HIDE DEF found, M
  <2> QED BY <2>2, <2>3, Zenon
<1>3. \A k \in K : Contents(k) \subseteq Oid /\ k \in Pack
  BY IndexFacts, IndexedPack, Zenon
<1> HIDE DEF C, M
<1>4. ASSUME NEW c \in C
      PROVE  /\ c = <<c[1], c[2]>> /\ c[2] \in Oid /\ HasPrefix(c[2], prefix)
             /\ \/ c[1] = None /\ c[2] \in loose
                \/ c[1] \in K /\ c[2] \in Contents(c[1])
  <2>1. CASE c \in {None} \X L
    <3>1. c = <<c[1], c[2]>> /\ c[1] = None /\ c[2] \in L
      <4> HIDE DEF L
      <4> QED BY <2>1
    <3> QED BY <3>1, Zenon
  <2>2. ASSUME NEW k \in K, c \in {k} \X M(k) PROVE c = <<c[1], c[2]>> /\ c[1] = k /\ c[2] \in M(k)
    BY <2>2
  <2>3. CASE \E k \in K : c \in {k} \X M(k)
    <3>1. PICK k \in K : c \in {k} \X M(k)
      BY <2>3, Zenon
    <3>2. c = <<c[1], c[2]>> /\ c[1] = k /\ c[2] \in M(k)
      BY <2>2, <3>1, Zenon
    <3>3. c[2] \in Contents(k) /\ HasPrefix(c[2], prefix)
      BY <1>2, <3>2, Zenon
    <3> QED BY <1>3, <3>2, <3>3, Zenon
  <2> QED BY <1>1, <2>1, <2>3, Zenon
<1>5. ASSUME NEW o \in L PROVE <<None, o>> \in C
  <2>1. <<None, o>> \in {None} \X L
    <3> HIDE DEF L
    <3> QED OBVIOUS
  <2> QED BY <1>1, <2>1, Zenon
<1>6. ASSUME NEW k \in K, NEW o \in M(k) PROVE <<k, o>> \in C
  <2>1. <<k, o>> \in {k} \X M(k)
    OBVIOUS
  <2> QED BY <1>1, <2>1, Zenon
<1>7. IsFiniteSet(C)
  <2> DEFINE A == Pack \cup {None}
  <2>1. IsFiniteSet(Pack) /\ IsFiniteSet(Oid)
    BY ObjDbAssumption, Zenon
  <2>2. IsFiniteSet(A)
    BY <2>1, FS_AddElement, Zenon
  <2>3. IsFiniteSet(A \X Oid)
    <3> HIDE DEF A
    <3> QED BY <2>1, <2>2, FS_Product, Zenon
  <2>4. \A c \in C : c = <<c[1], c[2]>> /\ c[1] \in A /\ c[2] \in Oid
    BY <1>3, <1>4, Zenon
  <2>5. C \subseteq A \X Oid
    <3> HIDE DEF A
    <3> QED BY <2>4
  <2> HIDE DEF A
  <2> QED BY <2>3, <2>5, FS_Subset, Zenon
<1>8. \A k \in K : \A o \in Contents(k) : HasPrefix(o, prefix) => <<k, o>> \in C \/ AfterGap(k, o)
  BY <1>2, <1>6, Zenon
<1>9. \A o \in loose : HasPrefix(o, prefix) => <<None, o>> \in C
  BY <1>5, Zenon
<1> QED BY <1>4, <1>7, <1>8, <1>9, Zenon DEF C

-----------------------------------------------------------------------------
(* The invariant, and what it says of every answer *)

\* What the invariant says of a process.
LEMMA InvFacts ==
    ASSUME ObjInv, NEW x \in Proc
    PROVE  CachesRight(p[x]) /\ DOMAIN p[x].packs \subseteq DOMAIN Idx /\ loose \subseteq Oid
<1>1. ProcRight(p[x], locks, packs, idxs)
  BY Zenon DEF ObjInv
<1>2. CachesRight(p[x]) /\ DOMAIN p[x].packs \subseteq idxs
  BY <1>1, Zenon DEF ProcRight
<1> QED BY <1>2, Zenon DEF ObjInv

LEMMA InvTypeOK == ObjInv => TypeOK
<1> SUFFICES ASSUME ObjInv PROVE TypeOK
  OBVIOUS
<1>1. \A x \in Proc : ProcRight(p[x], locks, packs, idxs)
  BY Zenon DEF ObjInv
<1>2. \A x \in Proc : /\ p[x].pc \in {"closed", "ready", "lock", "write", "flush", "pack", "idx", "refresh"}
                      /\ DOMAIN p[x].packs \subseteq idxs
                      /\ p[x].pc = "write" => p[x].arg \in locks
  BY <1>1, Zenon DEF ProcRight
<1>3. packs \subseteq Pack
  BY IndexedPack, Zenon DEF ObjInv
<1> QED BY <1>2, <1>3, Zenon DEF ObjInv, TornRight, TypeOK

\* Every answer is the object that was asked for, or none.
LEMMA InvReadIsRight == ObjInv => ReadIsRight
<1> SUFFICES ASSUME ObjInv PROVE ReadIsRight
  OBVIOUS
<1>1. Reader \subseteq Proc
  BY ObjDbAssumption, Zenon
<1>2. ASSUME NEW x \in Reader, NEW order \in Orders(x), NEW how \in How, NEW oid \in Oid
      PROVE  Answer(x, order, how, oid).got \in {oid, None}
  <2>1. CachesRight(p[x]) /\ DOMAIN p[x].packs \subseteq DOMAIN Idx
    BY <1>1, InvFacts, Zenon
  <2>2. AnswerRight(x, Answer(x, order, how, oid), oid)
    BY <2>1, AnswerLemma, Zenon
  <2> QED BY <2>2, Zenon DEF AnswerRight
<1> QED BY <1>2, InvTypeOK, Zenon DEF ReadIsRight, Answers

\* An object is missed only where it may be.
LEMMA InvMissOnlyAfterGap == ObjInv => MissOnlyAfterGap
<1> SUFFICES ASSUME ObjInv PROVE MissOnlyAfterGap
  OBVIOUS
<1>1. Reader \subseteq Proc
  BY ObjDbAssumption, Zenon
<1> DEFINE Bases(k) == {e.base : e \in {e \in Range(Entry[k]) : e.kind = "ref"}}
<1>2. ASSUME NEW x \in Reader, NEW order \in Orders(x), NEW how \in How, NEW oid \in Oid,
             Answer(x, order, how, oid).got = None
      PROVE  /\ oid \notin loose \ Empty
             /\ \A k \in DOMAIN p[x].packs : oid \in Objects[k] =>
                   \E o \in {oid} \cup Bases(k) : AfterGap(k, o)
  <2>1. CachesRight(p[x]) /\ DOMAIN p[x].packs \subseteq DOMAIN Idx
    BY <1>1, InvFacts, Zenon
  <2>2. oid \notin loose \ Empty /\ \A k \in DOMAIN p[x].packs : Missable(k, oid)
    <3>1. AnswerRight(x, Answer(x, order, how, oid), oid)
      BY <2>1, AnswerLemma, Zenon
    <3> QED BY <1>2, <3>1, Zenon DEF AnswerRight
  <2>3. ASSUME NEW k \in DOMAIN p[x].packs, oid \in Objects[k]
        PROVE  \E o \in {oid} \cup Bases(k) : AfterGap(k, o)
    <3>1. AfterGap(k, oid) \/ BaseAfterGap(k)
      BY <2>1, <2>2, <2>3, ObjectsLemma, Zenon DEF Missable
    <3>2. CASE AfterGap(k, oid)
      BY <3>2, Zenon
    <3>3. CASE BaseAfterGap(k)
      <4>1. PICK i \in DOMAIN Entry[k] : Entry[k][i].kind = "ref" /\ AfterGap(k, Entry[k][i].base)
        BY <3>3, Zenon DEF BaseAfterGap
      <4> DEFINE e == Entry[k][i]
      <4>2. e \in Range(Entry[k]) /\ e.kind = "ref" /\ AfterGap(k, e.base)
        BY <4>1, Zenon DEF Range
      <4> HIDE DEF e
      <4>3. e.base \in Bases(k)
        BY <4>2, Zenon
      <4> HIDE DEF Bases
      <4> QED BY <4>2, <4>3, Zenon
    <3> QED BY <3>1, <3>2, <3>3, Zenon
  <2> QED BY <2>2, <2>3, Zenon
<1> QED BY <1>2, Zenon DEF MissOnlyAfterGap, Answers

\* A prefix expands as it should.
LEMMA InvExpandIsRight == ObjInv => ExpandIsRight
<1> SUFFICES ASSUME ObjInv, NEW x \in Reader, NEW prefix \in Prefix
             PROVE  LET In(k) == Objects[k]
                        open == DOMAIN p[x].packs
                        has == {o \in Named(x) : HasPrefix(o, prefix)}
                        sure == {o \in has : o \in loose \/ \E k \in open : o \in In(k) /\ ~AfterGap(k, o)}
                        twice == {o \in has : \E k \in open :
                                    o \in In(k) /\ (o \in loose \/ \E l \in open \ {k} : o \in In(l))}
                        Right(got) ==
                            CASE got = None -> sure = {}
                              [] got = Bad -> locks # {}
                              [] got = Ambiguous -> Cardinality(has) > 1 \/ twice # {}
                              [] OTHER -> got \in has /\ sure \subseteq {got}
                    IN  Right(Expansion(x, prefix).got)
  BY Zenon DEF ExpandIsRight
<1> DEFINE K == DOMAIN p[x].packs
           has == {o \in Named(x) : HasPrefix(o, prefix)}
           sure == {o \in has : o \in loose \/ \E k \in K : o \in Objects[k] /\ ~AfterGap(k, o)}
           twice == {o \in has : \E k \in K : o \in Objects[k]
                        /\ (o \in loose \/ \E l \in K \ {k} : o \in Objects[l])}
           C == Candidates(x, prefix)
           n == Cardinality(C)
           got == Expansion(x, prefix).got
<1>1. x \in Proc
  BY ObjDbAssumption, Zenon
<1>2. /\ CachesRight(p[x]) /\ K \subseteq DOMAIN Idx /\ loose \subseteq Oid
      /\ \A k \in K : Objects[k] = Contents(k)
  BY <1>1, InvFacts, ObjectsLemma, Zenon
<1>3. /\ IsFiniteSet(C)
      /\ \A c \in C : /\ c = <<c[1], c[2]>> /\ c[2] \in Oid /\ HasPrefix(c[2], prefix)
                      /\ \/ c[1] = None /\ c[2] \in loose
                         \/ c[1] \in K /\ c[2] \in Contents(c[1])
      /\ \A o \in loose : HasPrefix(o, prefix) => <<None, o>> \in C
      /\ \A k \in K : \A o \in Contents(k) : HasPrefix(o, prefix) => <<k, o>> \in C \/ AfterGap(k, o)
  BY <1>2, CandidatesLemma, Zenon
<1>4. got = IF \E o \in locks : HasPrefix(o, prefix) THEN Bad
            ELSE IF n = 0 THEN None
            ELSE IF n = 1 THEN (CHOOSE c \in C : TRUE)[2]
            ELSE Ambiguous
  BY DEF Expansion, Candidates
<1>5. None \notin Oid /\ Bad \notin Oid /\ Ambiguous \notin Oid /\ None # Bad /\ None # Ambiguous /\ Bad # Ambiguous
  BY ObjDbAssumption, Zenon
<1> HIDE DEF C, got
<1>6. \A c \in C : c[2] \in has
  BY <1>2, <1>3, Zenon DEF Named, Packed
<1>7. \A o \in sure : \E c \in C : c[2] = o
  <2> SUFFICES ASSUME NEW o \in sure PROVE \E c \in C : c[2] = o
    BY Zenon
  <2>1. HasPrefix(o, prefix)
    BY Zenon
  <2>2. \A a : <<a, o>>[2] = o
    OBVIOUS
  <2>3. CASE o \in loose
    <3>1. <<None, o>> \in C
      BY <1>3, <2>1, <2>3, Zenon
    <3> QED BY <2>2, <3>1, Zenon
  <2>4. CASE \E k \in K : o \in Objects[k] /\ ~AfterGap(k, o)
    <3>1. PICK k \in K : o \in Contents(k) /\ ~AfterGap(k, o)
      BY <1>2, <2>4, Zenon
    <3>2. <<k, o>> \in C
      BY <1>3, <2>1, <3>1, Zenon
    <3> QED BY <2>2, <3>2, Zenon
  <2> QED BY <2>3, <2>4, Zenon
<1>8. IsFiniteSet(has)
  <2>1. \A k \in K : Contents(k) \subseteq Oid
    BY <1>2, IndexFacts, Zenon
  <2>2. has \subseteq Oid
    BY <1>2, <2>1, Zenon DEF Named, Packed
  <2> HIDE DEF has
  <2> QED BY <2>2, OidFacts, FS_Subset, Zenon
<1>9. CASE \E o \in locks : HasPrefix(o, prefix)
  <2>1. got = Bad /\ locks # {}
    BY <1>4, <1>9, Zenon
  <2> HIDE DEF has, sure, twice
  <2> QED BY <1>5, <2>1, SMT DEF has, sure, twice, got
<1>10. CASE ~(\E o \in locks : HasPrefix(o, prefix)) /\ n = 0
  <2>1. got = None
    BY <1>4, <1>10, Zenon
  <2>2. C = {}
    <3> HIDE DEF n
    <3> QED BY <1>3, <1>10, CountLemma, Zenon DEF n
  <2>3. sure = {}
    <3> HIDE DEF sure
    <3> QED BY <1>7, <2>2, Zenon
  <2> QED BY <1>5, <2>1, <2>3, SMT DEF got
<1>11. CASE ~(\E o \in locks : HasPrefix(o, prefix)) /\ n = 1
  <2>1. PICK c : C = {c}
    BY <1>3, <1>11, CountLemma, Zenon
  <2>2. c \in C /\ \A d \in C : d = c
    BY <2>1
  <2>3. (CHOOSE d \in C : TRUE) = c
    BY <2>2, Zenon
  <2>4. got = c[2]
    <3>1. n # 0
      <4> HIDE DEF n
      <4> QED BY <1>11
    <3>2. got = (CHOOSE d \in C : TRUE)[2]
      <4> HIDE DEF n
      <4> QED BY <1>4, <1>11, <3>1, Zenon
    <3> QED BY <2>3, <3>2, Zenon
  <2>5. got \in has /\ got \in Oid
    <3> HIDE DEF has
    <3> QED BY <1>3, <1>6, <2>2, <2>4, Zenon
  <2>6. sure \subseteq {got}
    <3> HIDE DEF sure
    <3> QED BY <1>7, <2>2, <2>4, Zenon
  <2>7. got # None /\ got # Bad /\ got # Ambiguous
    BY <1>5, <2>5, Zenon
  <2> QED BY <2>5, <2>6, <2>7, SMT DEF got
<1>12. CASE ~(\E o \in locks : HasPrefix(o, prefix)) /\ n # 0 /\ n # 1
  <2>1. got = Ambiguous
    BY <1>4, <1>12, Zenon
  <2>2. PICK c \in C, d \in C : c # d
    <3>1. \E c, d \in C : c # d
      BY <1>3, <1>12, CountLemma, Zenon
    <3> QED BY <3>1, Zenon
  <2>3. CASE c[2] # d[2]
    <3>1. Cardinality(has) > 1
      <4>1. \E a, b \in has : a # b
        <5> HIDE DEF has
        <5> QED BY <1>6, <2>2, <2>3, Zenon
      <4> HIDE DEF has
      <4> QED BY <1>8, <4>1, CountLemma, Zenon
    <3> QED BY <1>5, <2>1, <3>1, SMT DEF got
  <2>4. CASE c[2] = d[2]
    <3>1. c[1] # d[1]
      <4>1. c = <<c[1], c[2]>> /\ d = <<d[1], d[2]>>
        BY <1>3, <2>2, Zenon
      <4> QED BY <2>2, <2>4, <4>1, Zenon
    <3>2. c[2] \in has
      <4> HIDE DEF has
      <4> QED BY <1>6, <2>2, Zenon
    <3>3. /\ (c[1] = None /\ c[2] \in loose) \/ (c[1] \in K /\ c[2] \in Objects[c[1]])
          /\ (d[1] = None /\ c[2] \in loose) \/ (d[1] \in K /\ c[2] \in Objects[d[1]])
      <4>1. (c[1] = None /\ c[2] \in loose) \/ (c[1] \in K /\ c[2] \in Contents(c[1]))
        BY <1>3, <2>2, Zenon
      <4>2. (d[1] = None /\ d[2] \in loose) \/ (d[1] \in K /\ d[2] \in Contents(d[1]))
        BY <1>3, <2>2, Zenon
      <4> QED BY <1>2, <2>4, <4>1, <4>2, Zenon
    <3>4. c[2] \in twice
      <4> HIDE DEF has
      <4>1. \E k \in K : /\ c[2] \in Objects[k]
                         /\ (c[2] \in loose \/ \E l \in K \ {k} : c[2] \in Objects[l])
        BY <3>1, <3>3, Zenon
      <4> QED BY <3>2, <4>1, Zenon
    <3>5. twice # {}
      <4> HIDE DEF twice
      <4> QED BY <3>4, Zenon
    <3> QED BY <1>5, <2>1, <3>5, SMT DEF got
  <2> QED BY <2>3, <2>4, Zenon
<1> QED BY <1>9, <1>10, <1>11, <1>12, Zenon

-----------------------------------------------------------------------------
(* Every step keeps the invariant *)

\* The files only become more, but for the lock files.
FilesGrow ==
    /\ loose \subseteq loose' /\ loose' \subseteq Oid /\ locks' \subseteq Oid /\ TornRight'
    /\ packs \subseteq packs' /\ packs' \subseteq DOMAIN Idx
    /\ idxs \subseteq idxs' /\ idxs' \subseteq packs'

\* The other writers still have their locks, and x does not write what they write.
OthersWrite(x, state) ==
    \A y \in Proc \ {x} : p[y].pc = "write" =>
        p[y].arg \in locks' /\ (state.pc = "write" => state.arg # p[y].arg)

\* What x could see, or has stored, it can see.
Keeps(x, state) ==
    state.pc = "ready" /\ p[x].pc # "closed" =>
        /\ DOMAIN p[x].packs \subseteq DOMAIN state.packs
        /\ p[x].pc = "flush" => p[x].arg \in loose' /\ torn'[p[x].arg] # x
        /\ p[x].pc = "refresh" /\ Refreshed(p[x].packs) # {} => p[x].arg \in DOMAIN state.packs

\* A step of x to a state in which it is right.
Moves(x, state) ==
    /\ Go(x, state)
    /\ ProcRight(state, locks', packs', idxs')
    /\ state.pc = "flush" => state.arg \in loose'
    /\ FilesGrow
    /\ OthersWrite(x, state)
    /\ Keeps(x, state)

LEMMA GoLemma ==
    ASSUME ObjInv, NEW x \in Proc, NEW state, Go(x, state)
    PROVE  /\ p' = [y \in Proc |-> p'[y]] /\ p'[x] = state
           /\ \A y \in Proc : y # x => p'[y] = p[y]
<1>1. p = [y \in Proc |-> p[y]]
  BY Zenon DEF ObjInv
<1>2. p' = [p EXCEPT ![x] = state]
  BY Zenon DEF Go
<1> QED BY <1>1, <1>2, Zenon

\* Such a step keeps the invariant.
LEMMA MovesInv ==
    ASSUME ObjInv, NEW x \in Proc, NEW state, Moves(x, state)
    PROVE  ObjInv'
<1>1. /\ p' = [y \in Proc |-> p'[y]] /\ p'[x] = state
      /\ \A y \in Proc : y # x => p'[y] = p[y]
  BY GoLemma, Zenon DEF Moves
<1>2. ASSUME NEW y \in Proc PROVE ProcRight(p'[y], locks', packs', idxs')
  <2>1. CASE y = x
    BY <1>1, <2>1, Zenon DEF Moves
  <2>2. CASE y # x
    <3> DEFINE q == p[y]
    <3>1. ProcRight(q, locks, packs, idxs)
      BY Zenon DEF ObjInv
    <3>2. packs \subseteq packs' /\ idxs \subseteq idxs' /\ (q.pc = "write" => q.arg \in locks')
      BY <2>2, Zenon DEF Moves, FilesGrow, OthersWrite
    <3> HIDE DEF q
    <3>3. ProcRight(q, locks', packs', idxs')
      BY <3>1, <3>2, Zenon DEF ProcRight
    <3> QED BY <1>1, <2>2, <3>3, Zenon DEF q
  <2> QED BY <2>1, <2>2, Zenon
<1>3. ASSUME NEW y \in Proc, NEW z \in Proc, y # z, p'[y].pc = "write", p'[z].pc = "write"
      PROVE  p'[y].arg # p'[z].arg
  <2>1. \A w \in Proc \ {x} : p[w].pc = "write" => (state.pc = "write" => state.arg # p[w].arg)
    BY Zenon DEF Moves, OthersWrite
  <2>2. CASE y = x
    <3>1. p'[y] = state /\ p'[z] = p[z] /\ z # x
      BY <1>1, <1>3, <2>2, Zenon
    <3>2. state.pc = "write" /\ p[z].pc = "write"
      BY <1>3, <3>1, Zenon
    <3> QED BY <2>1, <3>1, <3>2, Zenon
  <2>3. CASE z = x
    <3>1. p'[z] = state /\ p'[y] = p[y] /\ y # x
      BY <1>1, <1>3, <2>3, Zenon
    <3>2. state.pc = "write" /\ p[y].pc = "write"
      BY <1>3, <3>1, Zenon
    <3> QED BY <2>1, <3>1, <3>2, Zenon
  <2>4. CASE y # x /\ z # x
    <3>1. p'[y] = p[y] /\ p'[z] = p[z]
      BY <1>1, <2>4, Zenon
    <3>2. p[y].pc = "write" /\ p[z].pc = "write"
      BY <1>3, <3>1, Zenon
    <3> QED BY <1>3, <3>1, <3>2, Zenon DEF ObjInv
  <2> QED BY <2>2, <2>3, <2>4, Zenon
<1>4. /\ loose' \subseteq Oid /\ locks' \subseteq Oid /\ TornRight'
      /\ packs' \subseteq DOMAIN Idx /\ idxs' \subseteq packs'
  BY Zenon DEF Moves, FilesGrow
<1>5. \A y, z \in Proc : y # z /\ p'[y].pc = "write" /\ p'[z].pc = "write" => p'[y].arg # p'[z].arg
  BY <1>3, Zenon
<1>6. \A y \in Proc : p'[y].pc = "flush" => p'[y].arg \in loose'
  <2>1. \A y \in Proc : p[y].pc = "flush" => p[y].arg \in loose'
    BY Zenon DEF ObjInv, Moves, FilesGrow
  <2>2. state.pc = "flush" => state.arg \in loose'
    BY Zenon DEF Moves
  <2> QED BY <1>1, <2>1, <2>2, Zenon
<1> QED BY <1>1, <1>2, <1>4, <1>5, <1>6, Zenon DEF ObjInv

\* What a process could see it can see after such a step, and what it has stored.
LEMMA MovesVisible ==
    ASSUME ObjInv, NEW x \in Proc, NEW state, Moves(x, state), NEW y \in Proc,
           p'[y].pc = "ready", p[y].pc # "closed"
    PROVE  /\ Visible(y) \subseteq Visible(y)' \cup Empty'
           /\ p[y].pc = "flush" => p[y].arg \in Visible(y)' \/ torn'[p[y].arg] \in Proc \ {y}
           /\ p[y].pc = "refresh" /\ Refreshed(p[y].packs) # {} =>
                 Objects[p[y].arg] \subseteq Visible(y)'
<1>1. p'[x] = state /\ \A z \in Proc : z # x => p'[z] = p[z]
  BY GoLemma, Zenon DEF Moves
<1>2. loose \subseteq loose' /\ TornRight'
  BY Zenon DEF Moves, FilesGrow
<1>3. ASSUME DOMAIN p[y].packs \subseteq DOMAIN p'[y].packs PROVE Visible(y) \subseteq Visible(y)' \cup Empty'
  <2>1. Packed(y) \subseteq Packed(y)'
    BY <1>3, Zenon DEF Packed
  <2> QED BY <1>2, <2>1, Zenon DEF Visible
<1>4. CASE y # x
  <2>1. p'[y] = p[y] /\ p[y].pc = "ready"
    BY <1>1, <1>4, Zenon
  <2>2. DOMAIN p[y].packs \subseteq DOMAIN p'[y].packs
    BY <2>1, Zenon
  <2>3. p[y].pc # "flush" /\ p[y].pc # "refresh"
    BY <2>1
  <2> QED BY <1>3, <2>2, <2>3, Zenon
<1>5. CASE y = x
  <2>1. p'[y] = state /\ state.pc = "ready"
    BY <1>1, <1>5, Zenon
  <2>2. /\ DOMAIN p[x].packs \subseteq DOMAIN state.packs
        /\ p[x].pc = "flush" => p[x].arg \in loose' /\ torn'[p[x].arg] # x
        /\ p[x].pc = "refresh" /\ Refreshed(p[x].packs) # {} => p[x].arg \in DOMAIN state.packs
    BY <1>5, <2>1, Zenon DEF Moves, Keeps
  <2>3. Visible(y) \subseteq Visible(y)' \cup Empty'
    BY <1>3, <1>5, <2>1, <2>2, Zenon
  <2>4. ASSUME p[y].pc = "flush" PROVE p[y].arg \in Visible(y)' \/ torn'[p[y].arg] \in Proc \ {y}
    <3> DEFINE oid == p[y].arg
    <3>1. oid \in loose' /\ torn'[oid] # y
      BY <1>5, <2>2, <2>4, Zenon
    <3>2. oid \in Oid
      <4>1. ProcRight(p[y], locks, packs, idxs)
        BY Zenon DEF ObjInv
      <4> QED BY <2>4, <4>1, Zenon DEF ProcRight
    <3> HIDE DEF oid
    <3>3. torn'[oid] \in Proc \cup {None}
      BY <1>2, <3>2, Zenon DEF TornRight
    <3>4. oid \in Visible(y)' \/ torn'[oid] \in Proc \ {y}
      BY <3>1, <3>3, Zenon DEF Visible, Empty
    <3> QED BY <3>4, Zenon DEF oid
  <2>5. ASSUME p[y].pc = "refresh" /\ Refreshed(p[y].packs) # {}
        PROVE  Objects[p[y].arg] \subseteq Visible(y)'
    <3>1. p[y].arg \in DOMAIN p'[y].packs
      BY <1>5, <2>1, <2>2, <2>5, Zenon
    <3> QED BY <3>1, Zenon DEF Visible, Packed
  <2> QED BY <2>3, <2>4, <2>5, Zenon
<1> QED BY <1>4, <1>5, Zenon

\* A step that leaves the files alone.
LEMMA QuietMoves ==
    ASSUME ObjInv, NEW x \in Proc, NEW state, Go(x, state), UNCHANGED disk,
           ProcRight(state, locks, packs, idxs), state.pc # "write", state.pc # "flush",
           state.pc = "ready" /\ p[x].pc # "closed" =>
              /\ DOMAIN p[x].packs \subseteq DOMAIN state.packs
              /\ p[x].pc # "flush"
              /\ p[x].pc = "refresh" /\ Refreshed(p[x].packs) # {} => p[x].arg \in DOMAIN state.packs
    PROVE  Moves(x, state)
<1>1. loose' = loose /\ torn' = torn /\ locks' = locks /\ packs' = packs /\ idxs' = idxs
  BY DEF disk
<1>2. loose \subseteq Oid /\ locks \subseteq Oid /\ packs \subseteq DOMAIN Idx /\ idxs \subseteq packs /\ TornRight
  BY Zenon DEF ObjInv
<1>3. \A y \in Proc : p[y].pc = "write" => p[y].arg \in locks
  <2>1. \A y \in Proc : ProcRight(p[y], locks, packs, idxs)
    BY Zenon DEF ObjInv
  <2> QED BY <2>1, Zenon DEF ProcRight
<1>4. FilesGrow
  <2>1. TornRight'
    BY <1>1, <1>2, Zenon DEF TornRight, Empty
  <2> QED BY <1>1, <1>2, <2>1, Zenon DEF FilesGrow
<1>5. OthersWrite(x, state)
  BY <1>1, <1>3, Zenon DEF OthersWrite
<1>6. Keeps(x, state)
  BY Zenon DEF Keeps
<1> QED BY <1>1, <1>4, <1>5, <1>6, Zenon DEF Moves

\* A process that is not running has no pack open and nothing in its cache.
LEMMA ClosedRight ==
    /\ CachesRight(Closed) /\ Closed.pc = "closed" /\ DOMAIN Closed.packs = {}
    /\ \A L, P, I : ProcRight(Closed, L, P, I)
    /\ KnownRight(DOMAIN <<>>, <<>>) /\ DOMAIN <<>> = {}
<1> DEFINE none == [oid \in Oid |-> None]
<1>1. DOMAIN <<>> = {} /\ <<>> = [k \in DOMAIN <<>> |-> <<>>[k]]
  OBVIOUS
<1>2. KnownRight(DOMAIN <<>>, <<>>)
  BY <1>1, Zenon DEF KnownRight
<1>3. none \in [Oid -> Oid \cup {None}] /\ \A o \in Oid : none[o] \in {o, None}
  BY Zenon
<1> HIDE DEF none
<1>4. Closed = [pc |-> "closed", packs |-> <<>>, objs |-> none, arg |-> None]
  BY Zenon DEF Closed, none
<1> DEFINE q == Closed
<1> HIDE DEF q
<1>5. /\ q = [pc |-> q.pc, packs |-> q.packs, objs |-> q.objs, arg |-> q.arg]
      /\ q.pc = "closed" /\ q.packs = <<>> /\ q.objs = none
  BY <1>4 DEF q
<1>6. CachesRight(q)
  BY <1>2, <1>3, <1>5, Zenon DEF CachesRight
<1>7. \A L, P, I : ProcRight(q, L, P, I)
  <2>1. q.pc \notin {"lock", "write", "flush", "pack", "idx", "refresh"}
    BY <1>5
  <2> QED BY <1>1, <1>5, <1>6, <2>1, Zenon DEF ProcRight
<1> QED BY <1>1, <1>2, <1>5, <1>6, <1>7, Zenon DEF q

\* The packs that a refresh opens.
LEMMA OpenedRight ==
    ASSUME NEW known, KnownRight(DOMAIN known, known), NEW S,
           S \cup DOMAIN known \subseteq DOMAIN Idx
    PROVE  LET new == [k \in S \cup DOMAIN known |-> IF k \in DOMAIN known THEN known[k] ELSE NewReader(k)]
           IN  DOMAIN new = S \cup DOMAIN known /\ KnownRight(DOMAIN new, new)
<1> DEFINE K == S \cup DOMAIN known
           new == [k \in K |-> IF k \in DOMAIN known THEN known[k] ELSE NewReader(k)]
<1>1. DOMAIN new = K /\ new = [k \in K |-> new[k]]
  BY Zenon
<1>2. ASSUME NEW k \in K PROVE new[k] \in Coherent(k)
  <2>1. CASE k \in DOMAIN known
    <3>1. new[k] = known[k]
      BY <2>1, Zenon
    <3> HIDE DEF new
    <3> QED BY <2>1, <3>1, Zenon DEF KnownRight
  <2>2. CASE k \notin DOMAIN known
    <3>1. new[k] = NewReader(k)
      BY <2>2, Zenon
    <3> HIDE DEF new
    <3> QED BY <3>1, NewIsCoherent, Zenon
  <2> QED BY <2>1, <2>2, Zenon
<1>3. DOMAIN new = K /\ KnownRight(K, new)
  <2> HIDE DEF new, K
  <2> QED BY <1>1, <1>2, Zenon DEF KnownRight
<1> QED BY <1>3, Zenon

\* A state whose program counter, packs and argument are replaced.
LEMMA ReplacedRight ==
    ASSUME NEW q, CachesRight(q), NEW pc, NEW known, KnownRight(DOMAIN known, known), NEW arg
    PROVE  LET new == [pc |-> pc, packs |-> known, objs |-> q.objs, arg |-> arg] IN
           /\ CachesRight(new) /\ new.pc = pc /\ new.packs = known /\ new.arg = arg
<1> DEFINE new == [pc |-> pc, packs |-> known, objs |-> q.objs, arg |-> arg]
<1>1. /\ new = [pc |-> new.pc, packs |-> new.packs, objs |-> new.objs, arg |-> new.arg]
      /\ new.pc = pc /\ new.packs = known /\ new.objs = q.objs /\ new.arg = arg
  OBVIOUS
<1> HIDE DEF new
<1>2. CachesRight(new)
  BY <1>1, Zenon DEF CachesRight
<1> QED BY <1>1, <1>2, Zenon DEF new

\* The states the actions write, field by field.
LEMMA StateFields ==
    ASSUME NEW q, q = [pc |-> q.pc, packs |-> q.packs, objs |-> q.objs, arg |-> q.arg],
           NEW pc, NEW known, NEW arg
    PROVE  /\ [q EXCEPT !.pc = pc, !.arg = arg] = [pc |-> pc, packs |-> q.packs, objs |-> q.objs, arg |-> arg]
           /\ [q EXCEPT !.pc = pc, !.packs = known] = [pc |-> pc, packs |-> known, objs |-> q.objs, arg |-> q.arg]
<1> DEFINE r == [q EXCEPT !.pc = pc]
<1>1. /\ [q EXCEPT !.pc = pc, !.arg = arg] = [r EXCEPT !.arg = arg]
      /\ [q EXCEPT !.pc = pc, !.packs = known] = [r EXCEPT !.packs = known]
  BY Zenon
<1>2. r = [pc |-> pc, packs |-> q.packs, objs |-> q.objs, arg |-> q.arg]
  OBVIOUS
<1> HIDE DEF r
<1>3. [r EXCEPT !.packs = known] = [pc |-> pc, packs |-> known, objs |-> q.objs, arg |-> q.arg]
  BY <1>2
<1>4. [r EXCEPT !.arg = arg] = [pc |-> pc, packs |-> q.packs, objs |-> q.objs, arg |-> arg]
  BY <1>2
<1> QED BY <1>1, <1>3, <1>4, Zenon

\* BitObjDb::new.
LEMMA OpenMoves ==
    ASSUME ObjInv, NEW x \in Proc, Open(x)
    PROVE  UNCHANGED vars \/ \E state : Moves(x, state)
<1>1. p[x].pc = "closed" /\ UNCHANGED disk
  BY Zenon DEF Open
<1>2. CASE UNCHANGED p
  BY <1>1, <1>2 DEF vars, disk
<1>3. ASSUME NEW known \in Refreshed(<<>>), Go(x, [Closed EXCEPT !.pc = "ready", !.packs = known])
      PROVE  \E state : Moves(x, state)
  <2> DEFINE S == packs
             first == <<>>
  <2>1. packs \subseteq idxs \cup DOMAIN first
        /\ known = [k \in S \cup DOMAIN first |-> IF k \in DOMAIN first THEN first[k] ELSE NewReader(k)]
    BY <1>3, Zenon DEF Refreshed
  <2>2. KnownRight(DOMAIN first, first) /\ DOMAIN first = {} /\ CachesRight(Closed)
    BY ClosedRight, Zenon
  <2> HIDE DEF first
  <2>3. packs \subseteq DOMAIN Idx /\ packs \subseteq idxs
    BY <2>1, <2>2, Zenon DEF ObjInv
  <2>4. DOMAIN known = S \cup DOMAIN first /\ KnownRight(DOMAIN known, known)
    <3>1. S \cup DOMAIN first \subseteq DOMAIN Idx
      BY <2>2, <2>3, Zenon
    <3> HIDE DEF S
    <3> QED BY <2>1, <2>2, <3>1, OpenedRight, Zenon
  <2> DEFINE state == [Closed EXCEPT !.pc = "ready", !.packs = known]
             new == [pc |-> "ready", packs |-> known, objs |-> Closed.objs, arg |-> None]
  <2>5. state = new
    <3>1. /\ Closed = [pc |-> Closed.pc, packs |-> Closed.packs, objs |-> Closed.objs, arg |-> Closed.arg]
          /\ Closed.arg = None
      BY DEF Closed
    <3> QED BY <3>1, StateFields, Zenon
  <2>6. CachesRight(new) /\ new.pc = "ready" /\ new.packs = known
    BY <2>2, <2>4, ReplacedRight, Zenon
  <2> HIDE DEF state, new
  <2>7. CachesRight(state) /\ state.pc = "ready" /\ DOMAIN state.packs \subseteq idxs
    BY <2>2, <2>3, <2>4, <2>5, <2>6, Zenon
  <2>8. state.pc \notin {"lock", "write", "flush", "pack", "idx", "refresh"}
    BY <2>7
  <2>9. ProcRight(state, locks, packs, idxs)
    BY <2>7, <2>8, Zenon DEF ProcRight
  <2>10. Go(x, state)
    BY <1>3, Zenon DEF state
  <2>11. Moves(x, state)
    BY <1>1, <2>8, <2>9, <2>10, QuietMoves, Zenon
  <2> QED BY <2>11, Zenon
<1> QED BY <1>2, <1>3, Zenon DEF Open

\* The command ends or is killed.
LEMMA ClosedMoves ==
    ASSUME ObjInv, NEW x \in Proc, Go(x, Closed), UNCHANGED disk
    PROVE  Moves(x, Closed)
<1>1. Closed.pc = "closed" /\ ProcRight(Closed, locks, packs, idxs)
  BY ClosedRight, Zenon
<1>2. Closed.pc # "write" /\ Closed.pc # "flush" /\ Closed.pc # "ready"
  BY <1>1
<1> QED BY <1>1, <1>2, QuietMoves, Zenon

\* A process that is ready and asks its packs.
LEMMA AskedMoves ==
    ASSUME ObjInv, NEW x \in Proc, p[x].pc = "ready", NEW state, Go(x, state),
           UNCHANGED disk,
           CachesRight(state), state.pc = p[x].pc, DOMAIN state.packs = DOMAIN p[x].packs
    PROVE  Moves(x, state)
<1>1. state.pc = "ready"
  BY Zenon
<1>2. /\ state.pc \notin {"lock", "write", "flush", "pack", "idx", "refresh"}
      /\ p[x].pc # "flush" /\ p[x].pc # "refresh"
  BY <1>1
<1>3. DOMAIN p[x].packs \subseteq idxs
  <2>1. ProcRight(p[x], locks, packs, idxs)
    BY Zenon DEF ObjInv
  <2> QED BY <2>1, Zenon DEF ProcRight
<1>4. ProcRight(state, locks, packs, idxs)
  BY <1>1, <1>2, <1>3, Zenon DEF ProcRight
<1>5. DOMAIN p[x].packs \subseteq DOMAIN state.packs
  BY Zenon
<1> QED BY <1>2, <1>4, <1>5, QuietMoves, Zenon

LEMMA QueryMoves ==
    ASSUME ObjInv, NEW x \in Proc, NEW how, NEW oid \in Oid, Query(x, how, oid)
    PROVE  \E state : Moves(x, state)
<1>1. p[x].pc = "ready" /\ UNCHANGED disk
  BY Zenon DEF Query
<1>2. PICK order \in Orders(x) : Go(x, Answer(x, order, how, oid).then)
  BY Zenon DEF Query
<1> DEFINE state == Answer(x, order, how, oid).then
<1>3. CachesRight(p[x]) /\ DOMAIN p[x].packs \subseteq DOMAIN Idx
  BY InvFacts, Zenon
<1>4. CachesRight(state) /\ state.pc = p[x].pc /\ DOMAIN state.packs = DOMAIN p[x].packs
  <2>1. AnswerRight(x, Answer(x, order, how, oid), oid)
    BY <1>2, <1>3, AnswerLemma, Zenon
  <2> QED BY <2>1, Zenon DEF AnswerRight
<1>5. Go(x, state)
  BY <1>2, Zenon
<1> HIDE DEF state
<1>6. Moves(x, state)
  BY <1>1, <1>4, <1>5, AskedMoves, Zenon
<1> QED BY <1>6, Zenon

LEMMA ExpandPrefixMoves ==
    ASSUME ObjInv, NEW x \in Proc, NEW prefix \in Prefix, ExpandPrefix(x, prefix)
    PROVE  \E state : Moves(x, state)
<1> DEFINE state == Expansion(x, prefix).then
<1>1. p[x].pc = "ready" /\ UNCHANGED disk /\ Go(x, state)
  BY Zenon DEF ExpandPrefix
<1>2. CachesRight(p[x]) /\ DOMAIN p[x].packs \subseteq DOMAIN Idx
  BY InvFacts, Zenon
<1>3. CachesRight(state) /\ state.pc = p[x].pc /\ DOMAIN state.packs = DOMAIN p[x].packs
  BY <1>2, ExpansionCaches, Zenon
<1> HIDE DEF state
<1>4. Moves(x, state)
  BY <1>1, <1>3, AskedMoves, Zenon
<1> QED BY <1>4, Zenon

\* What the invariant says of a process that stores something.
LEMMA StoringFacts ==
    ASSUME ObjInv, NEW x \in Proc
    PROVE  /\ CachesRight(p[x]) /\ KnownRight(DOMAIN p[x].packs, p[x].packs)
           /\ p[x] = [pc |-> p[x].pc, packs |-> p[x].packs, objs |-> p[x].objs, arg |-> p[x].arg]
           /\ DOMAIN p[x].packs \subseteq idxs
           /\ p[x].pc \in {"lock", "write", "flush"} => p[x].arg \in Oid
           /\ p[x].pc = "write" => p[x].arg \in locks
           /\ p[x].pc = "pack" => p[x].arg \in DOMAIN Idx
           /\ p[x].pc = "idx" => p[x].arg \in packs
           /\ p[x].pc = "refresh" => p[x].arg \in idxs
           /\ \A y \in Proc : p[y].pc = "write" => p[y].arg \in locks
           /\ loose \subseteq Oid /\ locks \subseteq Oid /\ packs \subseteq DOMAIN Idx /\ idxs \subseteq packs
           /\ TornRight
<1>1. \A y \in Proc : ProcRight(p[y], locks, packs, idxs)
  BY Zenon DEF ObjInv
<1>2. /\ CachesRight(p[x])
      /\ DOMAIN p[x].packs \subseteq idxs
      /\ p[x].pc \in {"lock", "write", "flush"} => p[x].arg \in Oid
      /\ p[x].pc = "write" => p[x].arg \in locks
      /\ p[x].pc = "pack" => p[x].arg \in DOMAIN Idx
      /\ p[x].pc = "idx" => p[x].arg \in packs
      /\ p[x].pc = "refresh" => p[x].arg \in idxs
  BY <1>1, Zenon DEF ProcRight
<1>3. \A y \in Proc : p[y].pc = "write" => p[y].arg \in locks
  BY <1>1, Zenon DEF ProcRight
<1>4. /\ KnownRight(DOMAIN p[x].packs, p[x].packs)
      /\ p[x] = [pc |-> p[x].pc, packs |-> p[x].packs, objs |-> p[x].objs, arg |-> p[x].arg]
  BY <1>2, Zenon DEF CachesRight
<1> QED BY <1>2, <1>3, <1>4, Zenon DEF ObjInv

\* The state of a process after a step that leaves its caches alone.
LEMMA StepState ==
    ASSUME ObjInv, NEW x \in Proc, NEW pc, NEW arg
    PROVE  LET state == [pc |-> pc, packs |-> p[x].packs, objs |-> p[x].objs, arg |-> arg] IN
           CachesRight(state) /\ state.pc = pc /\ state.packs = p[x].packs /\ state.arg = arg
<1> DEFINE q == p[x]
           known == q.packs
<1>1. CachesRight(q) /\ KnownRight(DOMAIN known, known)
  BY StoringFacts, Zenon
<1> HIDE DEF q, known
<1> DEFINE new == [pc |-> pc, packs |-> known, objs |-> q.objs, arg |-> arg]
<1>2. CachesRight(new) /\ new.pc = pc /\ new.packs = known /\ new.arg = arg
  BY <1>1, ReplacedRight, Zenon
<1> HIDE DEF new
<1> QED BY <1>2, Zenon DEF new, known, q

LEMMA WriteObjMoves ==
    ASSUME ObjInv, NEW x \in Proc, NEW oid \in Oid, WriteObj(x, oid)
    PROVE  \E state : Moves(x, state)
<1> DEFINE state == [p[x] EXCEPT !.pc = "lock", !.arg = oid]
           new == [pc |-> "lock", packs |-> p[x].packs, objs |-> p[x].objs, arg |-> oid]
<1>1. p[x].pc = "ready" /\ Go(x, state) /\ UNCHANGED disk
  BY Zenon DEF WriteObj
<1>2. /\ p[x] = [pc |-> p[x].pc, packs |-> p[x].packs, objs |-> p[x].objs, arg |-> p[x].arg]
      /\ DOMAIN p[x].packs \subseteq idxs
  BY StoringFacts, Zenon
<1>3. CachesRight(new) /\ new.pc = "lock" /\ new.packs = p[x].packs /\ new.arg = oid
  BY StepState, Zenon
<1>4. state = new
  BY <1>2, StateFields, Zenon
<1> HIDE DEF state, new
<1>5. CachesRight(state) /\ state.pc = "lock" /\ state.packs = p[x].packs /\ state.arg = oid
  BY <1>3, <1>4, Zenon
<1>6. state.pc \notin {"ready", "write", "flush", "pack", "idx", "refresh"}
  BY <1>5
<1>7. ProcRight(state, locks, packs, idxs)
  BY <1>2, <1>5, <1>6, Zenon DEF ProcRight
<1>8. Moves(x, state)
  BY <1>1, <1>6, <1>7, QuietMoves, Zenon
<1> QED BY <1>8, Zenon

\* The write fails, and the process is done with it.
LEMMA DoneRight ==
    ASSUME ObjInv, NEW x \in Proc
    PROVE  LET state == Done(p[x]) IN
           /\ state.pc = "ready" /\ state.pc \notin {"lock", "write", "flush", "pack", "idx", "refresh"}
           /\ state.packs = p[x].packs
           /\ ProcRight(state, locks, packs, idxs)
<1> DEFINE state == Done(p[x])
           new == [pc |-> "ready", packs |-> p[x].packs, objs |-> p[x].objs, arg |-> None]
<1>1. /\ p[x] = [pc |-> p[x].pc, packs |-> p[x].packs, objs |-> p[x].objs, arg |-> p[x].arg]
      /\ DOMAIN p[x].packs \subseteq idxs
  BY StoringFacts, Zenon
<1>2. CachesRight(new) /\ new.pc = "ready" /\ new.packs = p[x].packs
  BY StepState, Zenon
<1>3. state = new
  BY <1>1, StateFields, Zenon DEF Done
<1> HIDE DEF state, new
<1>4. CachesRight(state) /\ state.pc = "ready" /\ state.packs = p[x].packs
  BY <1>2, <1>3, Zenon
<1>5. state.pc \notin {"lock", "write", "flush", "pack", "idx", "refresh"}
  BY <1>4
<1>6. ProcRight(state, locks, packs, idxs)
  BY <1>1, <1>4, <1>5, Zenon DEF ProcRight
<1> QED BY <1>4, <1>5, <1>6, Zenon DEF state

LEMMA LockObjMoves ==
    ASSUME ObjInv, NEW x \in Proc, LockObj(x)
    PROVE  \E state : Moves(x, state)
<1>1. p[x].pc = "lock" /\ loose' = loose /\ torn' = torn /\ packs' = packs /\ idxs' = idxs
  BY DEF LockObj
<1>2. /\ p[x] = [pc |-> p[x].pc, packs |-> p[x].packs, objs |-> p[x].objs, arg |-> p[x].arg]
      /\ DOMAIN p[x].packs \subseteq idxs
      /\ p[x].pc \in {"lock", "write", "flush"} => p[x].arg \in Oid
      /\ \A y \in Proc : p[y].pc = "write" => p[y].arg \in locks
      /\ loose \subseteq Oid /\ locks \subseteq Oid /\ packs \subseteq DOMAIN Idx /\ idxs \subseteq packs
      /\ TornRight
  BY StoringFacts, Zenon
<1>3. CASE p[x].arg \in locks
  <2> DEFINE state == Done(p[x])
  <2>1. Go(x, state) /\ locks' = locks
    BY <1>3, Zenon DEF LockObj
  <2>2. /\ state.pc = "ready" /\ state.pc \notin {"lock", "write", "flush", "pack", "idx", "refresh"}
        /\ state.packs = p[x].packs
        /\ ProcRight(state, locks, packs, idxs)
    BY DoneRight, Zenon
  <2>3. p[x].pc # "flush" /\ p[x].pc # "refresh"
    BY <1>1
  <2>4. UNCHANGED disk
    BY <1>1, <2>1 DEF disk
  <2> HIDE DEF state
  <2>5. Moves(x, state)
    BY <2>1, <2>2, <2>3, <2>4, QuietMoves, Zenon
  <2> QED BY <2>5, Zenon
<1>4. CASE p[x].arg \notin locks
  <2> DEFINE oid == p[x].arg
             state == [p[x] EXCEPT !.pc = "write"]
             new == [pc |-> "write", packs |-> p[x].packs, objs |-> p[x].objs, arg |-> oid]
  <2>1. Go(x, state) /\ locks' = locks \cup {oid}
    BY <1>4, Zenon DEF LockObj
  <2>2. CachesRight(new) /\ new.pc = "write" /\ new.packs = p[x].packs /\ new.arg = oid
    BY StepState, Zenon
  <2>3. state = new
    BY <1>2
  <2>4. oid \in Oid /\ oid \notin locks
    BY <1>1, <1>2, <1>4, Zenon
  <2> HIDE DEF state, new
  <2>5. CachesRight(state) /\ state.pc = "write" /\ state.packs = p[x].packs /\ state.arg = oid
    BY <2>2, <2>3, Zenon
  <2>6. state.pc \notin {"ready", "lock", "flush", "pack", "idx", "refresh"}
    BY <2>5
  <2>7. oid \in locks' /\ locks' \subseteq Oid /\ \A o \in locks : o \in locks' /\ o # oid
    BY <1>2, <2>1, <2>4, Zenon
  <2>8. ProcRight(state, locks', packs', idxs')
    BY <1>1, <1>2, <2>4, <2>5, <2>6, <2>7, Zenon DEF ProcRight
  <2>9. FilesGrow
    <3>1. TornRight'
      BY <1>1, <1>2, Zenon DEF TornRight, Empty
    <3> QED BY <1>1, <1>2, <2>7, <3>1, Zenon DEF FilesGrow
  <2>10. OthersWrite(x, state)
    BY <1>2, <2>5, <2>7, Zenon DEF OthersWrite
  <2>11. Keeps(x, state)
    BY <2>6, Zenon DEF Keeps
  <2>12. Moves(x, state)
    BY <2>1, <2>6, <2>8, <2>9, <2>10, <2>11, Zenon DEF Moves
  <2> QED BY <2>12, Zenon
<1> QED BY <1>3, <1>4, Zenon

LEMMA CommitObjMoves ==
    ASSUME ObjInv, NEW x \in Proc, CommitObj(x)
    PROVE  \E state : Moves(x, state)
<1> DEFINE oid == p[x].arg
           state == [p[x] EXCEPT !.pc = "flush"]
           new == [pc |-> "flush", packs |-> p[x].packs, objs |-> p[x].objs, arg |-> oid]
<1>1. /\ p[x].pc = "write" /\ Go(x, state)
      /\ loose' = loose \cup {oid} /\ torn' = [torn EXCEPT ![oid] = x]
      /\ locks' = locks \ {oid} /\ packs' = packs /\ idxs' = idxs
  BY DEF CommitObj
<1>2. /\ p[x] = [pc |-> p[x].pc, packs |-> p[x].packs, objs |-> p[x].objs, arg |-> p[x].arg]
      /\ DOMAIN p[x].packs \subseteq idxs
      /\ p[x].pc \in {"lock", "write", "flush"} => p[x].arg \in Oid
      /\ \A y \in Proc : p[y].pc = "write" => p[y].arg \in locks
      /\ loose \subseteq Oid /\ locks \subseteq Oid /\ packs \subseteq DOMAIN Idx /\ idxs \subseteq packs
      /\ TornRight
  BY StoringFacts, Zenon
<1>3. CachesRight(new) /\ new.pc = "flush" /\ new.packs = p[x].packs /\ new.arg = oid
  BY StepState, Zenon
<1>4. state = new
  BY <1>2
<1>5. oid \in Oid
  BY <1>1, <1>2, Zenon
<1>6. \A y \in Proc \ {x} : p[y].pc = "write" => p[y].arg # oid
  BY <1>1, Zenon DEF ObjInv
<1> HIDE DEF state, new, oid
<1>7. CachesRight(state) /\ state.pc = "flush" /\ state.packs = p[x].packs /\ state.arg = oid
  BY <1>3, <1>4, Zenon
<1>8. state.pc \notin {"ready", "lock", "write", "pack", "idx", "refresh"}
  BY <1>7
<1>9. loose \subseteq loose' /\ loose' \subseteq Oid /\ locks' \subseteq Oid /\ oid \in loose'
  BY <1>1, <1>2, <1>5, Zenon
<1>10. TornRight'
  <2>1. /\ torn' \in [Oid -> Proc \cup {None}]
        /\ \A o \in Oid : torn'[o] = IF o = oid THEN x ELSE torn[o]
    BY <1>1, <1>2, <1>5, Zenon DEF TornRight
  <2>2. \A o \in Oid : torn'[o] # None => o \in loose'
    BY <1>2, <1>9, <2>1, Zenon DEF TornRight, Empty
  <2> QED BY <2>1, <2>2, Zenon DEF TornRight, Empty
<1>11. ProcRight(state, locks', packs', idxs')
  BY <1>1, <1>2, <1>5, <1>7, <1>8, Zenon DEF ProcRight
<1>12. FilesGrow
  BY <1>1, <1>2, <1>9, <1>10, Zenon DEF FilesGrow
<1>13. OthersWrite(x, state)
  BY <1>1, <1>2, <1>6, <1>8, Zenon DEF OthersWrite
<1>14. Keeps(x, state)
  BY <1>8, Zenon DEF Keeps
<1>15. Moves(x, state)
  BY <1>1, <1>7, <1>9, <1>11, <1>12, <1>13, <1>14, Zenon DEF Moves
<1> QED BY <1>15, Zenon

LEMMA FlushObjMoves ==
    ASSUME ObjInv, NEW x \in Proc, FlushObj(x)
    PROVE  \E state : Moves(x, state)
<1> DEFINE oid == p[x].arg
           state == Done(p[x])
<1>1. /\ p[x].pc = "flush" /\ Go(x, state)
      /\ torn' = [torn EXCEPT ![oid] = IF @ = x THEN None ELSE @]
      /\ loose' = loose /\ locks' = locks /\ packs' = packs /\ idxs' = idxs
  BY DEF FlushObj
<1>2. /\ p[x].pc \in {"lock", "write", "flush"} => p[x].arg \in Oid
      /\ \A y \in Proc : p[y].pc = "write" => p[y].arg \in locks
      /\ loose \subseteq Oid /\ locks \subseteq Oid /\ packs \subseteq DOMAIN Idx /\ idxs \subseteq packs
      /\ TornRight
  BY StoringFacts, Zenon
<1>3. /\ state.pc = "ready" /\ state.pc \notin {"lock", "write", "flush", "pack", "idx", "refresh"}
      /\ state.packs = p[x].packs
      /\ ProcRight(state, locks, packs, idxs)
  BY DoneRight, Zenon
<1>4. oid \in Oid /\ oid \in loose /\ None # x /\ p[x].pc # "refresh"
  <2>1. oid \in Oid /\ oid \in loose
    BY <1>1, <1>2, Zenon DEF ObjInv
  <2>2. p[x].pc # "refresh"
    BY <1>1
  <2> QED BY <2>1, <2>2, ObjDbAssumption, Zenon
<1>5. /\ torn' \in [Oid -> Proc \cup {None}]
      /\ \A o \in Oid : torn'[o] = IF o = oid /\ torn[o] = x THEN None ELSE torn[o]
  <2> HIDE DEF oid
  <2> QED BY <1>1, <1>2, <1>4, Zenon DEF TornRight
<1>6. torn'[oid] # x
  BY <1>4, <1>5, Zenon
<1>7. TornRight'
  <2> HIDE DEF oid
  <2>1. \A o \in Oid : torn'[o] # None => o \in loose'
    BY <1>1, <1>2, <1>5, Zenon DEF TornRight, Empty
  <2> QED BY <1>5, <2>1, Zenon DEF TornRight, Empty
<1> HIDE DEF state
<1>8. FilesGrow
  BY <1>1, <1>2, <1>7, Zenon DEF FilesGrow
<1>9. OthersWrite(x, state)
  BY <1>1, <1>2, <1>3, Zenon DEF OthersWrite
<1>10. Keeps(x, state)
  BY <1>1, <1>3, <1>4, <1>6, Zenon DEF Keeps
<1>11. Moves(x, state)
  BY <1>1, <1>3, <1>8, <1>9, <1>10, Zenon DEF Moves
<1> QED BY <1>11, Zenon

LEMMA RecvPackMoves ==
    ASSUME ObjInv, NEW x \in Proc, NEW k \in Pack, RecvPack(x, k)
    PROVE  \E state : Moves(x, state)
<1> DEFINE state == [p[x] EXCEPT !.pc = "pack", !.arg = k]
           new == [pc |-> "pack", packs |-> p[x].packs, objs |-> p[x].objs, arg |-> k]
<1>1. /\ UNCHANGED disk
      /\ Go(x, IF Indexable(k) THEN state ELSE Closed)
  BY Zenon DEF RecvPack
<1>2. CASE ~Indexable(k)
  <2>1. Go(x, Closed)
    BY <1>1, <1>2, Zenon
  <2> QED BY <1>1, <2>1, ClosedMoves, Zenon
<1>3. CASE Indexable(k)
  <2>1. Go(x, state)
    BY <1>1, <1>3, Zenon
  <2>2. k \in DOMAIN Idx
    BY <1>3, Zenon DEF Idx
  <2>3. /\ p[x] = [pc |-> p[x].pc, packs |-> p[x].packs, objs |-> p[x].objs, arg |-> p[x].arg]
        /\ DOMAIN p[x].packs \subseteq idxs
    BY StoringFacts, Zenon
  <2>4. CachesRight(new) /\ new.pc = "pack" /\ new.packs = p[x].packs /\ new.arg = k
    BY StepState, Zenon
  <2>5. state = new
    BY <2>3, StateFields, Zenon
  <2> HIDE DEF state, new
  <2>6. CachesRight(state) /\ state.pc = "pack" /\ state.packs = p[x].packs /\ state.arg = k
    BY <2>4, <2>5, Zenon
  <2>7. state.pc \notin {"ready", "lock", "write", "flush", "idx", "refresh"}
    BY <2>6
  <2>8. ProcRight(state, locks, packs, idxs)
    BY <2>2, <2>3, <2>6, <2>7, Zenon DEF ProcRight
  <2>9. Moves(x, state)
    BY <1>1, <2>1, <2>7, <2>8, QuietMoves, Zenon
  <2> QED BY <2>9, Zenon
<1> QED BY <1>2, <1>3, Zenon

LEMMA RenamePackMoves ==
    ASSUME ObjInv, NEW x \in Proc, RenamePack(x)
    PROVE  \E state : Moves(x, state)
<1> DEFINE k == p[x].arg
           state == [p[x] EXCEPT !.pc = "idx"]
           new == [pc |-> "idx", packs |-> p[x].packs, objs |-> p[x].objs, arg |-> k]
<1>1. /\ p[x].pc = "pack" /\ Go(x, state)
      /\ packs' = packs \cup {k} /\ loose' = loose /\ torn' = torn /\ locks' = locks /\ idxs' = idxs
  BY DEF RenamePack
<1>2. /\ p[x] = [pc |-> p[x].pc, packs |-> p[x].packs, objs |-> p[x].objs, arg |-> p[x].arg]
      /\ DOMAIN p[x].packs \subseteq idxs
      /\ p[x].pc = "pack" => p[x].arg \in DOMAIN Idx
      /\ \A y \in Proc : p[y].pc = "write" => p[y].arg \in locks
      /\ loose \subseteq Oid /\ locks \subseteq Oid /\ packs \subseteq DOMAIN Idx /\ idxs \subseteq packs
      /\ TornRight
  BY StoringFacts, Zenon
<1>3. CachesRight(new) /\ new.pc = "idx" /\ new.packs = p[x].packs /\ new.arg = k
  BY StepState, Zenon
<1>4. state = new
  BY <1>2
<1> HIDE DEF state, new
<1>5. CachesRight(state) /\ state.pc = "idx" /\ state.packs = p[x].packs /\ state.arg = k
  BY <1>3, <1>4, Zenon
<1>6. state.pc \notin {"ready", "lock", "write", "flush", "pack", "refresh"}
  BY <1>5
<1>7. packs \subseteq packs' /\ k \in packs' /\ packs' \subseteq DOMAIN Idx /\ idxs \subseteq packs'
  BY <1>1, <1>2, Zenon
<1>8. ProcRight(state, locks', packs', idxs')
  BY <1>1, <1>2, <1>5, <1>6, <1>7, Zenon DEF ProcRight
<1>9. FilesGrow
  <2>1. TornRight'
    BY <1>1, <1>2, Zenon DEF TornRight, Empty
  <2> QED BY <1>1, <1>2, <1>7, <2>1, Zenon DEF FilesGrow
<1>10. OthersWrite(x, state)
  BY <1>1, <1>2, <1>5, <1>6, <1>7, Zenon DEF OthersWrite
<1>11. Keeps(x, state)
  BY <1>6, Zenon DEF Keeps
<1>12. Moves(x, state)
  BY <1>1, <1>6, <1>8, <1>9, <1>10, <1>11, Zenon DEF Moves
<1> QED BY <1>12, Zenon

LEMMA RenameIdxMoves ==
    ASSUME ObjInv, NEW x \in Proc, RenameIdx(x)
    PROVE  \E state : Moves(x, state)
<1> DEFINE k == p[x].arg
           state == [p[x] EXCEPT !.pc = "refresh"]
           new == [pc |-> "refresh", packs |-> p[x].packs, objs |-> p[x].objs, arg |-> k]
<1>1. /\ p[x].pc = "idx" /\ Go(x, state)
      /\ idxs' = idxs \cup {k} /\ loose' = loose /\ torn' = torn /\ locks' = locks /\ packs' = packs
  BY DEF RenameIdx
<1>2. /\ p[x] = [pc |-> p[x].pc, packs |-> p[x].packs, objs |-> p[x].objs, arg |-> p[x].arg]
      /\ DOMAIN p[x].packs \subseteq idxs
      /\ p[x].pc = "idx" => p[x].arg \in packs
      /\ \A y \in Proc : p[y].pc = "write" => p[y].arg \in locks
      /\ loose \subseteq Oid /\ locks \subseteq Oid /\ packs \subseteq DOMAIN Idx /\ idxs \subseteq packs
      /\ TornRight
  BY StoringFacts, Zenon
<1>3. CachesRight(new) /\ new.pc = "refresh" /\ new.packs = p[x].packs /\ new.arg = k
  BY StepState, Zenon
<1>4. state = new
  BY <1>2
<1> HIDE DEF state, new
<1>5. CachesRight(state) /\ state.pc = "refresh" /\ state.packs = p[x].packs /\ state.arg = k
  BY <1>3, <1>4, Zenon
<1>6. state.pc \notin {"ready", "lock", "write", "flush", "pack", "idx"}
  BY <1>5
<1>7. idxs \subseteq idxs' /\ k \in idxs' /\ idxs' \subseteq packs' /\ DOMAIN p[x].packs \subseteq idxs'
  BY <1>1, <1>2, Zenon
<1>8. ProcRight(state, locks', packs', idxs')
  BY <1>1, <1>2, <1>5, <1>6, <1>7, Zenon DEF ProcRight
<1>9. FilesGrow
  <2>1. TornRight'
    BY <1>1, <1>2, Zenon DEF TornRight, Empty
  <2> QED BY <1>1, <1>2, <1>7, <2>1, Zenon DEF FilesGrow
<1>10. OthersWrite(x, state)
  BY <1>1, <1>2, <1>5, <1>6, <1>7, Zenon DEF OthersWrite
<1>11. Keeps(x, state)
  BY <1>6, Zenon DEF Keeps
<1>12. Moves(x, state)
  BY <1>1, <1>6, <1>8, <1>9, <1>10, <1>11, Zenon DEF Moves
<1> QED BY <1>12, Zenon

LEMMA RefreshMoves ==
    ASSUME ObjInv, NEW x \in Proc, Refresh(x)
    PROVE  \E state : Moves(x, state)
<1> DEFINE old == p[x].packs
           Opened(S) == [k \in S \cup DOMAIN old |-> IF k \in DOMAIN old THEN old[k] ELSE NewReader(k)]
<1>1. p[x].pc = "refresh" /\ UNCHANGED disk
  BY Zenon DEF Refresh
<1>2. PICK S : /\ Go(x, [Done(p[x]) EXCEPT !.packs = Opened(S)])
               /\ S \cup DOMAIN old \subseteq idxs
               /\ Refreshed(old) # {} => packs \subseteq S \cup DOMAIN old
  <2>1. DOMAIN old \subseteq idxs
    BY StoringFacts, Zenon
  <2>2. CASE packs \subseteq idxs \cup DOMAIN old
    <3>1. Refreshed(old) = {Opened(packs)}
      BY <2>2, Zenon DEF Refreshed
    <3> HIDE DEF Opened
    <3>2. Opened(packs) \in Refreshed(old) /\ Refreshed(old) # {}
      BY <3>1, Zenon
    <3>3. \E known \in Refreshed(old) : Go(x, [Done(p[x]) EXCEPT !.packs = known])
      BY <3>2, Zenon DEF Refresh
    <3>4. Go(x, [Done(p[x]) EXCEPT !.packs = Opened(packs)])
      <4>1. PICK known \in Refreshed(old) : Go(x, [Done(p[x]) EXCEPT !.packs = known])
        BY <3>3, Zenon
      <4>2. known = Opened(packs)
        BY <3>1, <4>1, Zenon
      <4> QED BY <4>1, <4>2, Zenon
    <3>5. packs \cup DOMAIN old \subseteq idxs /\ packs \subseteq packs \cup DOMAIN old
      BY <2>1, <2>2, Zenon
    <3> QED BY <3>4, <3>5, Zenon
  <2>3. CASE ~(packs \subseteq idxs \cup DOMAIN old)
    <3>1. Refreshed(old) = {}
      BY <2>3, Zenon DEF Refreshed
    <3>2. \E known \in RefreshedInPart(old) : Go(x, [Done(p[x]) EXCEPT !.packs = known])
      BY <3>1, Zenon DEF Refresh
    <3>3. PICK known \in RefreshedInPart(old) : Go(x, [Done(p[x]) EXCEPT !.packs = known])
      BY <3>2, Zenon
    <3>4. PICK S \in SUBSET (packs \cap idxs) : known = Opened(S)
      BY <3>3, Zenon DEF RefreshedInPart
    <3> HIDE DEF Opened
    <3>5. Go(x, [Done(p[x]) EXCEPT !.packs = Opened(S)])
      BY <3>3, <3>4, Zenon
    <3>6. S \cup DOMAIN old \subseteq idxs
      BY <2>1, <3>4, Zenon
    <3> QED BY <3>1, <3>5, <3>6, Zenon
  <2> QED BY <2>2, <2>3, Zenon
<1>3. /\ CachesRight(p[x]) /\ KnownRight(DOMAIN old, old)
      /\ p[x] = [pc |-> p[x].pc, packs |-> p[x].packs, objs |-> p[x].objs, arg |-> p[x].arg]
      /\ p[x].pc = "refresh" => p[x].arg \in idxs
      /\ packs \subseteq DOMAIN Idx /\ idxs \subseteq packs
  BY StoringFacts, Zenon
<1> DEFINE known == Opened(S)
           q == p[x]
           state == [Done(q) EXCEPT !.packs = known]
           new == [pc |-> "ready", packs |-> known, objs |-> q.objs, arg |-> None]
<1>4. DOMAIN known = S \cup DOMAIN old /\ KnownRight(DOMAIN known, known)
  <2>1. S \cup DOMAIN old \subseteq DOMAIN Idx
    BY <1>2, <1>3, Zenon
  <2>2. KnownRight(DOMAIN old, old)
    BY <1>3, Zenon
  <2> HIDE DEF old
  <2> QED BY <2>1, <2>2, OpenedRight, Zenon
<1> HIDE DEF known
<1>5. CachesRight(new) /\ new.pc = "ready" /\ new.packs = known
  <2>1. CachesRight(q)
    BY <1>3, Zenon
  <2> HIDE DEF q
  <2> QED BY <1>4, <2>1, ReplacedRight, Zenon
<1>6. state = new
  <2>1. q = [pc |-> q.pc, packs |-> q.packs, objs |-> q.objs, arg |-> q.arg]
    BY <1>3, Zenon
  <2> HIDE DEF q
  <2> DEFINE done == Done(q)
  <2>2. done = [pc |-> "ready", packs |-> q.packs, objs |-> q.objs, arg |-> None]
    BY <2>1, StateFields, Zenon DEF Done
  <2> HIDE DEF done
  <2>3. [done EXCEPT !.packs = known] = new
    BY <2>2
  <2> QED BY <2>3, Zenon DEF done
<1>7. Go(x, state)
  BY <1>2, Zenon DEF known
<1> HIDE DEF state, new, q
<1>8. CachesRight(state) /\ state.pc = "ready" /\ DOMAIN state.packs = S \cup DOMAIN old
  BY <1>4, <1>5, <1>6, Zenon
<1>9. state.pc \notin {"lock", "write", "flush", "pack", "idx", "refresh"} /\ p[x].pc # "flush"
  BY <1>1, <1>8
<1>10. ProcRight(state, locks, packs, idxs)
  BY <1>2, <1>8, <1>9, Zenon DEF ProcRight
<1>11. DOMAIN p[x].packs \subseteq DOMAIN state.packs /\ (Refreshed(old) # {} => p[x].arg \in DOMAIN state.packs)
  BY <1>1, <1>2, <1>3, <1>8, Zenon
<1>12. Moves(x, state)
  BY <1>1, <1>7, <1>9, <1>10, <1>11, QuietMoves, Zenon
<1> QED BY <1>12, Zenon

\* Every step is such a step.
LEMMA NextMoves ==
    ASSUME ObjInv, Next
    PROVE  UNCHANGED vars \/ \E x \in Proc : \E state : Moves(x, state)
<1>1. Reader \subseteq Proc /\ Writer \subseteq Proc /\ Fetcher \subseteq Proc /\ Written \subseteq Oid
  BY ObjDbAssumption, Zenon
<1>2. ASSUME NEW x \in Proc, Open(x) \/ Exit(x) \/ Kill(x)
      PROVE  UNCHANGED vars \/ \E state : Moves(x, state)
  <2>1. CASE Open(x)
    BY <2>1, OpenMoves, Zenon
  <2>2. CASE Exit(x) \/ Kill(x)
    <3>1. Go(x, Closed) /\ UNCHANGED disk
      BY <2>2, Zenon DEF Exit, Kill
    <3> QED BY <3>1, ClosedMoves, Zenon
  <2> QED BY <1>2, <2>1, <2>2, Zenon
<1>3. ASSUME NEW x \in Reader, \/ \E how \in How, oid \in Oid : Query(x, how, oid)
                               \/ \E prefix \in Prefix : ExpandPrefix(x, prefix)
      PROVE  \E state : Moves(x, state)
  BY <1>1, <1>3, QueryMoves, ExpandPrefixMoves, Zenon
<1>4. ASSUME NEW x \in Writer, \/ \E oid \in Written : WriteObj(x, oid)
                               \/ LockObj(x) \/ CommitObj(x) \/ FlushObj(x)
      PROVE  \E state : Moves(x, state)
  BY <1>1, <1>4, WriteObjMoves, LockObjMoves, CommitObjMoves, FlushObjMoves, Zenon
<1>5. ASSUME NEW x \in Fetcher, \/ \E k \in Pack : RecvPack(x, k)
                                \/ RenamePack(x) \/ RenameIdx(x) \/ Refresh(x)
      PROVE  \E state : Moves(x, state)
  BY <1>1, <1>5, RecvPackMoves, RenamePackMoves, RenameIdxMoves, RefreshMoves, Zenon
<1> QED BY <1>1, <1>2, <1>3, <1>4, <1>5, Zenon DEF Next

LEMMA InitInv == Init => ObjInv
<1> SUFFICES ASSUME Init PROVE ObjInv
  OBVIOUS
<1>1. p = [x \in Proc |-> Closed] /\ loose = {} /\ torn = [oid \in Oid |-> None] /\ locks = {} /\ packs = {} /\ idxs = {}
  BY Zenon DEF Init
<1>2. \A x \in Proc : p[x] = Closed
  BY <1>1, Zenon
<1>3. p = [x \in Proc |-> p[x]]
  BY <1>1, <1>2, Zenon
<1>4. Closed.pc # "write" /\ Closed.pc # "flush" /\ ProcRight(Closed, locks, packs, idxs)
  <2>1. Closed.pc = "closed" /\ ProcRight(Closed, locks, packs, idxs)
    BY ClosedRight, Zenon
  <2> QED BY <2>1
<1>5. TornRight
  <2>1. torn \in [Oid -> Proc \cup {None}] /\ \A oid \in Oid : torn[oid] = None
    BY <1>1, Zenon
  <2> QED BY <2>1, Zenon DEF TornRight, Empty
<1> QED BY <1>1, <1>2, <1>3, <1>4, <1>5, Zenon DEF ObjInv

LEMMA NextInv == ObjInv /\ [Next]_vars => ObjInv'
<1> SUFFICES ASSUME ObjInv, [Next]_vars PROVE ObjInv'
  OBVIOUS
<1>1. CASE UNCHANGED vars
  BY <1>1 DEF vars, disk, ObjInv, TornRight, Empty
<1>2. CASE Next
  BY <1>1, <1>2, NextMoves, MovesInv, Zenon
<1> QED BY <1>1, <1>2, Zenon

-----------------------------------------------------------------------------
(* The theorems *)

\* The caches of all packs of all processes always hold what is in the packs, and
\* two processes never write one object at a time.
THEOREM ObjInvariant == Spec => []ObjInv
  BY InitInv, NextInv, PTL DEF Spec

\* For any packs, objects and processes: an object that is found is the one that
\* was asked for, whatever was asked before (read_obj, read_obj_raw_at,
\* find_oid_crc_offset).
THEOREM ReadsAreRight == Spec => []ReadIsRight
  BY ObjInvariant, InvReadIsRight, PTL

\* A loose object is missed only if its file is empty, and one of an open pack
\* only behind an empty fanout bucket, its own or that of the base of a delta
\* (read_stream, find_oid_index).
THEOREM MissesAreAfterGaps == Spec => []MissOnlyAfterGap
  BY ObjInvariant, InvMissOnlyAfterGap, PTL

\* A prefix expands to the one object that has it, but for those behind an empty
\* bucket (expand_prefix, prefix_matches).
THEOREM PrefixesExpand == Spec => []ExpandIsRight
  BY ObjInvariant, InvExpandIsRight, PTL

\* What a process stores it can read when the write or the fetch succeeds, and
\* what it can read stays readable to it, whatever the others do and wherever they
\* are killed, but for a file that another writer, which did not find the object,
\* has written over and not flushed (write, recv_pack, refresh, Lockfile::commit).
THEOREM StoredStaysVisible == Spec => StoredIsVisible
<1> DEFINE A == \A x \in Proc : p'[x].pc = "ready" /\ p[x].pc # "closed" =>
                  /\ Visible(x) \subseteq Visible(x)' \cup Empty'
                  /\ p[x].pc = "flush" => p[x].arg \in Visible(x)' \/ torn'[p[x].arg] \in Proc \ {x}
                  /\ p[x].pc = "refresh" /\ Refreshed(p[x].packs) # {} =>
                        Objects[p[x].arg] \subseteq Visible(x)'
<1>1. ObjInv /\ [Next]_vars => [A]_vars
  <2> SUFFICES ASSUME ObjInv, Next, ~UNCHANGED vars PROVE A
    BY Zenon
  <2>1. PICK x \in Proc : \E state : Moves(x, state)
    BY NextMoves, Zenon
  <2>2. PICK state : Moves(x, state)
    BY <2>1, Zenon
  <2> QED BY <2>2, MovesVisible, Zenon
<1> QED BY <1>1, ObjInvariant, PTL DEF Spec, StoredIsVisible

-----------------------------------------------------------------------------
(* What is left half done *)

\* Of the files of a kind, those that no process is at step label for become no
\* more if x takes care of what it adds and removes what it leaves.
LEMMA AttendedFiles ==
    ASSUME ObjInv, NEW x \in Proc, NEW state, Go(x, state), NEW label, NEW S, NEW T,
           \A f \in T : f \in S \/ (state.pc = label /\ state.arg = f),
           p[x].pc = label => p[x].arg \notin T
    PROVE  T \ At(label)' \subseteq S \ At(label)
<1>1. p'[x] = state /\ \A y \in Proc : y # x => p'[y] = p[y]
  BY GoLemma, Zenon
<1>2. ASSUME NEW f \in T, f \notin At(label)' PROVE f \in S /\ f \notin At(label)
  <2>1. \A y \in Proc : p'[y].pc = label => p'[y].arg # f
    BY <1>2, Zenon DEF At
  <2>2. f \in S
    BY <1>1, <2>1, Zenon
  <2>3. \A y \in Proc : p[y].pc = label => p[y].arg # f
    BY <1>1, <2>1, Zenon
  <2> QED BY <2>2, <2>3, Zenon DEF At
<1> QED BY <1>2, Zenon

\* The empty files that nobody is about to flush.
Forsaken == {oid \in Empty : ~(p[torn[oid]].pc = "flush" /\ p[torn[oid]].arg = oid)}

\* x flushes the files it empties before it leaves them.
Attends(x, state) ==
    /\ \A oid \in Oid : \/ torn'[oid] \in {None, torn[oid]}
                         \/ (torn'[oid] = x /\ state.pc = "flush" /\ state.arg = oid)
    /\ p[x].pc = "flush" => torn'[p[x].arg] # x

\* Then they become no more.
LEMMA AttendedObjects ==
    ASSUME ObjInv, NEW x \in Proc, NEW state, Go(x, state), TornRight', Attends(x, state)
    PROVE  Forsaken' \subseteq Forsaken
<1>1. p'[x] = state /\ \A y \in Proc : y # x => p'[y] = p[y]
  BY GoLemma, Zenon
<1>2. ASSUME NEW oid \in Forsaken' PROVE oid \in Forsaken
  <2> DEFINE y == torn'[oid]
  <2>1. oid \in Oid /\ y # None /\ ~(p'[y].pc = "flush" /\ p'[y].arg = oid)
    BY <1>2, Zenon DEF Forsaken, Empty
  <2>2. y \in Proc
    BY <2>1, Zenon DEF TornRight
  <2>3. torn[oid] = y
    BY <1>1, <2>1, Zenon DEF Attends
  <2>4. ~(p[y].pc = "flush" /\ p[y].arg = oid)
    BY <1>1, <2>1, <2>2, Zenon DEF Attends
  <2> QED BY <2>1, <2>3, <2>4, Zenon DEF Forsaken, Empty
<1> QED BY <1>2, Zenon

\* A step of x leaves nothing behind.
Tidy ==
    /\ locks' \ At("write")' \subseteq locks \ At("write")
    /\ Forsaken' \subseteq Forsaken
    /\ (packs' \ idxs') \ At("idx")' \subseteq (packs \ idxs) \ At("idx")

\* A step of a process that writes neither an object nor the index of a pack.
LEMMA QuietIsTidy ==
    ASSUME ObjInv, NEW x \in Proc, NEW state, Go(x, state), UNCHANGED disk,
           p[x].pc \notin {"write", "flush", "idx"}
    PROVE  Tidy
<1>1. loose' = loose /\ torn' = torn /\ locks' = locks /\ packs' = packs /\ idxs' = idxs
  BY DEF disk
<1>2. TornRight'
  BY <1>1, Zenon DEF ObjInv, TornRight, Empty
<1>3. Forsaken' \subseteq Forsaken
  <2>1. Attends(x, state)
    BY <1>1, Zenon DEF Attends
  <2> QED BY <1>2, <2>1, AttendedObjects, Zenon
<1>4. locks' \ At("write")' \subseteq locks \ At("write")
  BY <1>1, AttendedFiles, Zenon
<1>5. (packs' \ idxs') \ At("idx")' \subseteq (packs \ idxs) \ At("idx")
  BY <1>1, AttendedFiles, Zenon
<1> QED BY <1>3, <1>4, <1>5, Zenon DEF Tidy

\* The steps that write an object or install a pack.
LEMMA StoringIsTidy ==
    ASSUME ObjInv, NEW x \in Proc, LockObj(x) \/ CommitObj(x) \/ FlushObj(x) \/ RenamePack(x) \/ RenameIdx(x)
    PROVE  Tidy
<1> DEFINE arg == p[x].arg
<1>1. /\ p[x] = [pc |-> p[x].pc, packs |-> p[x].packs, objs |-> p[x].objs, arg |-> p[x].arg]
      /\ p[x].pc \in {"lock", "write", "flush"} => arg \in Oid
      /\ TornRight
  BY StoringFacts, Zenon
<1>2. ASSUME NEW pc PROVE LET state == [p[x] EXCEPT !.pc = pc] IN state.pc = pc /\ state.arg = arg
  BY <1>1
<1>3. ObjInv' \/ UNCHANGED vars
  <2>1. \E state : Moves(x, state)
    BY LockObjMoves, CommitObjMoves, FlushObjMoves, RenamePackMoves, RenameIdxMoves, Zenon
  <2> QED BY <2>1, MovesInv, Zenon
<1>4. TornRight'
  <2>1. CASE ObjInv'
    BY <2>1, Zenon DEF ObjInv
  <2>2. CASE UNCHANGED vars
    BY <1>1, <2>2, Zenon DEF vars, disk, TornRight, Empty
  <2> QED BY <1>3, <2>1, <2>2, Zenon
<1>5. CASE LockObj(x)
  <2>1. /\ p[x].pc = "lock" /\ torn' = torn /\ packs' = packs /\ idxs' = idxs
        /\ \E state : Go(x, state) /\ \A f \in locks' : f \in locks \/ (state.pc = "write" /\ state.arg = f)
    <3>1. p[x].pc = "lock" /\ torn' = torn /\ packs' = packs /\ idxs' = idxs
      BY <1>5 DEF LockObj
    <3>2. CASE arg \in locks
      <4>1. Go(x, Done(p[x])) /\ locks' = locks
        BY <1>5, <3>2, Zenon DEF LockObj
      <4> QED BY <3>1, <4>1, Zenon
    <3>3. CASE arg \notin locks
      <4> DEFINE state == [p[x] EXCEPT !.pc = "write"]
      <4>1. Go(x, state) /\ locks' = locks \cup {arg}
        BY <1>5, <3>3, Zenon DEF LockObj
      <4>2. state.pc = "write" /\ state.arg = arg
        BY <1>2, Zenon
      <4> HIDE DEF state
      <4>3. \A f \in locks' : f \in locks \/ (state.pc = "write" /\ state.arg = f)
        BY <4>1, <4>2, Zenon
      <4> QED BY <3>1, <4>1, <4>3, Zenon
    <3> QED BY <3>2, <3>3, Zenon
  <2>2. PICK state : Go(x, state) /\ \A f \in locks' : f \in locks \/ (state.pc = "write" /\ state.arg = f)
    BY <2>1, Zenon
  <2>3. p[x].pc \notin {"write", "flush", "idx"}
    BY <2>1
  <2>4. Forsaken' \subseteq Forsaken
    <3>1. Attends(x, state)
      BY <2>1, <2>3, Zenon DEF Attends
    <3> QED BY <1>4, <2>2, <3>1, AttendedObjects, Zenon
  <2>5. locks' \ At("write")' \subseteq locks \ At("write")
    BY <2>2, <2>3, AttendedFiles, Zenon
  <2>6. (packs' \ idxs') \ At("idx")' \subseteq (packs \ idxs) \ At("idx")
    BY <2>1, <2>2, <2>3, AttendedFiles, Zenon
  <2> QED BY <2>4, <2>5, <2>6, Zenon DEF Tidy
<1>6. CASE CommitObj(x)
  <2> DEFINE state == [p[x] EXCEPT !.pc = "flush"]
  <2>1. /\ p[x].pc = "write" /\ Go(x, state) /\ torn' = [torn EXCEPT ![arg] = x]
        /\ locks' = locks \ {arg} /\ packs' = packs /\ idxs' = idxs
    BY <1>6 DEF CommitObj
  <2>2. state.pc = "flush" /\ state.arg = arg
    BY <1>2, Zenon
  <2>3. p[x].pc \notin {"flush", "idx"} /\ arg \in Oid
    <3>1. p[x].pc \notin {"flush", "idx"}
      BY <2>1
    <3> QED BY <1>1, <2>1, <3>1, Zenon
  <2> HIDE DEF state, arg
  <2>4. \A oid \in Oid : torn'[oid] = IF oid = arg THEN x ELSE torn[oid]
    BY <1>1, <2>1, Zenon DEF TornRight
  <2>5. Forsaken' \subseteq Forsaken
    <3>1. Attends(x, state)
      BY <2>2, <2>3, <2>4, Zenon DEF Attends
    <3> QED BY <1>4, <2>1, <3>1, AttendedObjects, Zenon
  <2>6. locks' \ At("write")' \subseteq locks \ At("write")
    <3>1. (\A f \in locks' : f \in locks) /\ p[x].arg \notin locks'
      BY <2>1, Zenon DEF arg
    <3> QED BY <2>1, <3>1, AttendedFiles, Zenon
  <2>7. (packs' \ idxs') \ At("idx")' \subseteq (packs \ idxs) \ At("idx")
    BY <2>1, <2>3, AttendedFiles, Zenon
  <2> QED BY <2>5, <2>6, <2>7, Zenon DEF Tidy
<1>7. CASE FlushObj(x)
  <2> DEFINE state == Done(p[x])
  <2>1. /\ p[x].pc = "flush" /\ Go(x, state) /\ torn' = [torn EXCEPT ![arg] = IF @ = x THEN None ELSE @]
        /\ locks' = locks /\ packs' = packs /\ idxs' = idxs
    BY <1>7 DEF FlushObj
  <2>2. p[x].pc \notin {"write", "idx"} /\ arg \in Oid /\ None # x
    <3>1. p[x].pc \notin {"write", "idx"}
      BY <2>1
    <3> QED BY <1>1, <2>1, <3>1, ObjDbAssumption, Zenon
  <2> HIDE DEF state
  <2>3. \A oid \in Oid : torn'[oid] = IF oid = arg /\ torn[oid] = x THEN None ELSE torn[oid]
    <3> HIDE DEF arg
    <3> QED BY <1>1, <2>1, <2>2, Zenon DEF TornRight
  <2>4. Forsaken' \subseteq Forsaken
    <3>1. torn'[p[x].arg] # x
      BY <2>2, <2>3, Zenon
    <3>2. \A oid \in Oid : torn'[oid] \in {None, torn[oid]}
      <4> HIDE DEF arg
      <4> QED BY <2>3, Zenon
    <3>3. Attends(x, state)
      BY <3>1, <3>2, Zenon DEF Attends
    <3> QED BY <1>4, <2>1, <3>3, AttendedObjects, Zenon
  <2>5. locks' \ At("write")' \subseteq locks \ At("write")
    BY <2>1, <2>2, AttendedFiles, Zenon
  <2>6. (packs' \ idxs') \ At("idx")' \subseteq (packs \ idxs) \ At("idx")
    BY <2>1, <2>2, AttendedFiles, Zenon
  <2> QED BY <2>4, <2>5, <2>6, Zenon DEF Tidy
<1>8. CASE RenamePack(x)
  <2> DEFINE state == [p[x] EXCEPT !.pc = "idx"]
  <2>1. /\ p[x].pc = "pack" /\ Go(x, state) /\ packs' = packs \cup {arg}
        /\ torn' = torn /\ locks' = locks /\ idxs' = idxs
    BY <1>8 DEF RenamePack
  <2>2. state.pc = "idx" /\ state.arg = arg
    BY <1>2, Zenon
  <2>3. p[x].pc \notin {"write", "flush", "idx"}
    BY <2>1
  <2> HIDE DEF state, arg
  <2>4. Forsaken' \subseteq Forsaken
    <3>1. Attends(x, state)
      BY <2>1, <2>3, Zenon DEF Attends
    <3> QED BY <1>4, <2>1, <3>1, AttendedObjects, Zenon
  <2>5. locks' \ At("write")' \subseteq locks \ At("write")
    BY <2>1, <2>3, AttendedFiles, Zenon
  <2>6. (packs' \ idxs') \ At("idx")' \subseteq (packs \ idxs) \ At("idx")
    <3> DEFINE S == packs \ idxs
               T == packs' \ idxs'
    <3>1. \A f \in T : f \in S \/ (state.pc = "idx" /\ state.arg = f)
      BY <2>1, <2>2, Zenon
    <3>2. p[x].pc = "idx" => p[x].arg \notin T
      BY <2>3, Zenon
    <3> HIDE DEF S, T
    <3>3. T \ At("idx")' \subseteq S \ At("idx")
      BY <2>1, <3>1, <3>2, AttendedFiles, Zenon
    <3> QED BY <3>3, Zenon DEF S, T
  <2> QED BY <2>4, <2>5, <2>6, Zenon DEF Tidy
<1>9. CASE RenameIdx(x)
  <2> DEFINE state == [p[x] EXCEPT !.pc = "refresh"]
  <2>1. /\ p[x].pc = "idx" /\ Go(x, state) /\ idxs' = idxs \cup {arg}
        /\ torn' = torn /\ locks' = locks /\ packs' = packs
    BY <1>9 DEF RenameIdx
  <2>2. p[x].pc \notin {"write", "flush"}
    BY <2>1
  <2> HIDE DEF state
  <2>3. Forsaken' \subseteq Forsaken
    <3>1. Attends(x, state)
      BY <2>1, <2>2, Zenon DEF Attends
    <3> QED BY <1>4, <2>1, <3>1, AttendedObjects, Zenon
  <2>4. locks' \ At("write")' \subseteq locks \ At("write")
    BY <2>1, <2>2, AttendedFiles, Zenon
  <2>5. (packs' \ idxs') \ At("idx")' \subseteq (packs \ idxs) \ At("idx")
    <3>1. (\A f \in packs' \ idxs' : f \in packs \ idxs) /\ p[x].arg \notin packs' \ idxs'
      BY <2>1, Zenon
    <3> QED BY <2>1, <3>1, AttendedFiles, Zenon
  <2> QED BY <2>3, <2>4, <2>5, Zenon DEF Tidy
<1> QED BY <1>5, <1>6, <1>7, <1>8, <1>9, Zenon

\* A lock file, an empty object or a pack without an index that nobody is about to
\* complete is left by a kill only, for any number of processes that write one
\* object and install one pack at a time or at once (write, Lockfile::commit,
\* recv_pack).
THEOREM OnlyKillsAbandon == Spec => OnlyKillAbandons
<1> DEFINE A == \/ \A what \in {"locks", "empty", "packs"} : Abandoned'[what] \subseteq Abandoned[what]
                \/ \E x \in Proc : Kill(x)
<1>1. Tidy => A
  <2>1. /\ Abandoned["locks"] = locks \ At("write") /\ Abandoned["empty"] = Forsaken
        /\ Abandoned["packs"] = (packs \ idxs) \ At("idx")
    BY DEF Abandoned, Forsaken
  <2>2. /\ Abandoned'["locks"] = locks' \ At("write")' /\ Abandoned'["empty"] = Forsaken'
        /\ Abandoned'["packs"] = (packs' \ idxs') \ At("idx")'
    BY DEF Abandoned, Forsaken
  <2> QED BY <2>1, <2>2, Zenon DEF Tidy
<1>2. ObjInv /\ [Next]_vars => [A]_vars
  <2> SUFFICES ASSUME ObjInv, Next, ~UNCHANGED vars PROVE A
    BY Zenon
  <2> HIDE DEF A
  <2>1. Reader \subseteq Proc /\ Writer \subseteq Proc /\ Fetcher \subseteq Proc
    BY ObjDbAssumption, Zenon
  <2>2. ASSUME NEW x \in Proc, LockObj(x) \/ CommitObj(x) \/ FlushObj(x) \/ RenamePack(x) \/ RenameIdx(x) PROVE A
    BY <1>1, <2>2, StoringIsTidy, Zenon
  <2>3. ASSUME NEW x \in Proc, Kill(x) PROVE A
    BY <2>3, Zenon DEF A
  <2>4. ASSUME NEW x \in Proc, UNCHANGED disk, p[x].pc \in {"closed", "ready", "refresh"}, \E state : Go(x, state) PROVE A
    <3>1. p[x].pc \notin {"write", "flush", "idx"}
      BY <2>4
    <3> QED BY <1>1, <2>4, <3>1, QuietIsTidy, Zenon
  <2>5. ASSUME NEW x \in Proc, Open(x) PROVE A
    <3>1. p[x].pc = "closed" /\ UNCHANGED disk
      BY <2>5, Zenon DEF Open
    <3>2. CASE UNCHANGED p
      BY <3>1, <3>2, Zenon DEF vars
    <3>3. CASE ~UNCHANGED p
      <4>1. \E state : Go(x, state)
        BY <2>5, <3>3, Zenon DEF Open
      <4> QED BY <2>4, <3>1, <4>1, Zenon
    <3> QED BY <3>2, <3>3, Zenon
  <2>6. ASSUME NEW x \in Proc, Exit(x) PROVE A
    BY <2>4, <2>6, Zenon DEF Exit
  <2>7. ASSUME NEW x \in Proc, NEW how, NEW oid, Query(x, how, oid) PROVE A
    BY <2>4, <2>7, Zenon DEF Query
  <2>8. ASSUME NEW x \in Proc, NEW prefix, ExpandPrefix(x, prefix) PROVE A
    BY <2>4, <2>8, Zenon DEF ExpandPrefix
  <2>9. ASSUME NEW x \in Proc, NEW oid, WriteObj(x, oid) PROVE A
    BY <2>4, <2>9, Zenon DEF WriteObj
  <2>10. ASSUME NEW x \in Proc, NEW k, RecvPack(x, k) PROVE A
    BY <2>4, <2>10, Zenon DEF RecvPack
  <2>11. ASSUME NEW x \in Proc, Refresh(x) PROVE A
    BY <2>4, <2>11, Zenon DEF Refresh
  <2> QED BY <2>1, <2>2, <2>3, <2>5, <2>6, <2>7, <2>8, <2>9, <2>10, <2>11, Zenon DEF Next
<1> QED BY <1>2, ObjInvariant, PTL DEF Spec, OnlyKillAbandons

=============================================================================
