----------------------------- MODULE IndexProofs -----------------------------
(* Proofs about the index and its tree cache, for any set of paths. *)
EXTENDS Index, FiniteSetTheorems, WellFoundedInduction, TLAPS

\* The directories above a path are closed under taking parents.
LEMMA PrefixOfPrefix ==
    ASSUME NEW p \in Seq(STRING), NEW d \in CumulativeComponents(p),
           NEW a \in CumulativeComponents(d)
    PROVE  a \in CumulativeComponents(p)
<1>1. PICK n \in 0..Len(p) : d = SubSeq(p, 1, n)
  <2>1. p = SubSeq(p, 1, Len(p))
    OBVIOUS
  <2> QED
    BY <2>1 DEF CumulativeComponents, Parents
<1>2. d \in Seq(STRING) /\ Len(d) = n
  BY <1>1
<1>3. PICK m \in 0..n : a = SubSeq(d, 1, m)
  <2>1. d = SubSeq(d, 1, Len(d))
    BY <1>2
  <2> QED
    BY <1>2, <2>1 DEF CumulativeComponents, Parents
<1>4. a = SubSeq(p, 1, m)
  BY <1>1, <1>2, <1>3
<1>5. CASE m = Len(p)
  BY <1>4, <1>5 DEF CumulativeComponents
<1>6. CASE m # Len(p)
  BY <1>4, <1>6 DEF CumulativeComponents, Parents
<1> QED
  BY <1>5, <1>6, Zenon

LEMMA PathType == \A p \in Path : p \in Seq(STRING)
BY IndexAssumption DEF Path

LEMMA DirClosed ==
    ASSUME NEW d \in Dir
    PROVE  /\ d \in CumulativeComponents(d)
           /\ CumulativeComponents(d) \subseteq Dir
           /\ \A a \in CumulativeComponents(d) :
                 CumulativeComponents(a) \subseteq CumulativeComponents(d)
<1>1. d \in Seq(STRING)
  <2>1. ASSUME NEW p \in Path, d \in Parents(p) PROVE d \in Seq(STRING)
    <3>1. PICK n \in 0..(Len(p) - 1) : d = SubSeq(p, 1, n)
      BY <2>1, Zenon DEF Parents
    <3> QED
      BY <3>1, PathType
  <2>2. <<>> \in Seq(STRING)
    OBVIOUS
  <2> QED
    BY <2>1, <2>2, Zenon DEF Dir
<1>2. d \in CumulativeComponents(d)
  BY Zenon DEF CumulativeComponents
<1>3. CumulativeComponents(d) \subseteq Dir
  <2>1. CASE d = <<>>
    BY <2>1 DEF CumulativeComponents, Parents, Dir
  <2>2. ASSUME NEW p \in Path, d \in Parents(p) PROVE CumulativeComponents(d) \subseteq Dir
    <3>1. SUFFICES ASSUME NEW a \in Parents(d) PROVE a \in Parents(p)
      BY <2>2, Zenon DEF CumulativeComponents, Dir
    <3>2. p \in Seq(STRING)
      BY PathType, Zenon
    <3>3. PICK n \in 0..(Len(p) - 1) : d = SubSeq(p, 1, n)
      BY <2>2, Zenon DEF Parents
    <3>4. Len(d) = n
      BY <3>2, <3>3
    <3>5. PICK m \in 0..(n - 1) : a = SubSeq(d, 1, m)
      BY <3>4, Zenon DEF Parents
    <3>6. a = SubSeq(p, 1, m)
      BY <3>2, <3>3, <3>4, <3>5
    <3>7. m \in 0..(Len(p) - 1)
      BY <3>2, <3>3, <3>5
    <3> QED
      BY <3>6, <3>7, Zenon DEF Parents
  <2> QED
    BY <2>1, <2>2, Zenon DEF Dir
<1>4. ASSUME NEW a \in CumulativeComponents(d)
      PROVE  CumulativeComponents(a) \subseteq CumulativeComponents(d)
  BY <1>1, <1>4, PrefixOfPrefix, Zenon
<1> QED
  BY <1>2, <1>3, <1>4, Zenon

\* What lies beneath a directory lies beneath its parents.
LEMMA BeneathParents ==
    ASSUME NEW p \in Path, NEW d \in Parents(p), NEW a \in CumulativeComponents(d)
    PROVE  a \in Parents(p)
<1>1. p \in Seq(STRING)
  BY PathType, Zenon
<1>2. PICK n \in 0..(Len(p) - 1) : d = SubSeq(p, 1, n)
  BY Zenon DEF Parents
<1>3. d \in Seq(STRING) /\ Len(d) = n
  BY <1>1, <1>2
<1>4. CASE a = d
  BY <1>4, Zenon
<1>5. CASE a \in Parents(d)
  <2>1. PICK m \in 0..(n - 1) : a = SubSeq(d, 1, m)
    BY <1>3, <1>5, Zenon DEF Parents
  <2>2. a = SubSeq(p, 1, m)
    BY <1>1, <1>2, <1>3, <2>1
  <2>3. m \in 0..(Len(p) - 1)
    BY <1>1, <1>2, <2>1
  <2> QED
    BY <2>2, <2>3, Zenon DEF Parents
<1> QED
  BY <1>4, <1>5, Zenon DEF CumulativeComponents

-----------------------------------------------------------------------------
(* What the operations do to an index, whichever index they are applied to *)

Node == [kind : {"absent", "invalid", "valid"}, tree : SUBSET (Path \X Oid)]

\* The nodes of a cache form a tree.
Closed(c) == \A d \in Dir : c[d] # Absent => Found(c, d)

\* Below a valid node the whole cache is what a fresh read of the entries would
\* give, and nothing is in conflict.  Coherence of the node alone is not
\* inductive: update_internal keeps a valid child with everything below it.
Deep(idx) ==
    \A d \in Dir : idx.cache[d].kind = "valid" =>
        /\ \A e \in Dir : d \in CumulativeComponents(e) =>
              idx.cache[e] = ReadCacheTree(EntriesTree(idx))[e]
        /\ \A key \in Path \X Unmerged : d \in Parents(key[1]) => idx.entries[key] = None

Good(idx) ==
    /\ idx = [entries |-> idx.entries, cache |-> idx.cache]
    /\ idx.entries \in [Key -> Oid \cup {None}]
    /\ idx.cache \in [Dir -> Node]
    /\ Closed(idx.cache)
    /\ Deep(idx)

LEMMA InvalidateLemma ==
    ASSUME NEW c \in [Dir -> Node], Closed(c), NEW paths \in SUBSET Path
    PROVE  LET i == InvalidatePaths(c, paths) IN
           /\ i \in [Dir -> Node]
           /\ Closed(i)
           /\ \A d \in Dir : i[d].kind = "valid" =>
                 /\ \A p \in paths : d \notin CumulativeComponents(p)
                 /\ i[d] = c[d]
           /\ \A d \in Dir : (\A p \in paths : d \notin CumulativeComponents(p)) => i[d] = c[d]
<1> DEFINE i == InvalidatePaths(c, paths)
<1>1. Invalid \in Node /\ Invalid # Absent /\ Invalid.kind # "valid"
  BY Zenon DEF Invalid, Absent, Node, NoTree
<1>2. \A d \in Dir : i[d] = IF (\E p \in paths : d \in CumulativeComponents(p)) /\ Found(c, d)
                          THEN Invalid ELSE c[d]
  BY Zenon DEF InvalidatePaths
<1>3. i \in [Dir -> Node]
  BY <1>1, Zenon DEF InvalidatePaths
<1>4. \A d \in Dir : i[d] = Absent <=> c[d] = Absent
  BY <1>1, <1>2, DirClosed, Zenon DEF Found
<1>5. Closed(i)
  BY <1>4, DirClosed, Zenon DEF Closed, Found
<1>6. ASSUME NEW d \in Dir, i[d].kind = "valid"
      PROVE  i[d] = c[d] /\ \A p \in paths : d \notin CumulativeComponents(p)
  <2>1. i[d] # Invalid /\ i[d] # Absent
    BY <1>6, <1>1 DEF Absent
  <2>2. Found(c, d)
    BY <2>1, <1>4, Zenon DEF Closed
  <2> QED
    BY <2>1, <2>2, <1>2, Zenon
<1>7. \A d \in Dir : (\A p \in paths : d \notin CumulativeComponents(p)) => i[d] = c[d]
  BY <1>2, Zenon
<1> QED
  BY <1>3, <1>5, <1>6, <1>7, Zenon

\* What a fresh read gives a directory depends on the entries beneath it alone.
LEMMA BeneathLocal ==
    ASSUME NEW x, NEW y, NEW d,
           \A p \in Path : d \in Parents(p) => x.entries[<<p, "NONE">>] = y.entries[<<p, "NONE">>]
    PROVE  Beneath(EntriesTree(x), d) \subseteq Beneath(EntriesTree(y), d)
<1> SUFFICES ASSUME NEW u \in EntriesTree(x), d \in Parents(u[1])
             PROVE  u \in EntriesTree(y)
  BY Zenon DEF Beneath
<1>1. PICK p \in Path : /\ x.entries[<<p, "NONE">>] # None
                        /\ u = <<p, x.entries[<<p, "NONE">>]>>
  BY Zenon DEF EntriesTree, Has
<1>2. u[1] = p
  BY <1>1, Zenon
<1>3. x.entries[<<p, "NONE">>] = y.entries[<<p, "NONE">>]
  BY <1>2, Zenon
<1> QED
  BY <1>1, <1>3, Zenon DEF EntriesTree, Has

LEMMA FreshLocal ==
    ASSUME NEW x, NEW y, NEW d \in Dir,
           \A p \in Path : d \in Parents(p) => x.entries[<<p, "NONE">>] = y.entries[<<p, "NONE">>]
    PROVE  ReadCacheTree(EntriesTree(x))[d] = ReadCacheTree(EntriesTree(y))[d]
<1>1. Beneath(EntriesTree(x), d) \subseteq Beneath(EntriesTree(y), d)
  BY BeneathLocal, Zenon
<1>2. Beneath(EntriesTree(y), d) \subseteq Beneath(EntriesTree(x), d)
  BY BeneathLocal, Zenon
<1>3. Beneath(EntriesTree(x), d) = Beneath(EntriesTree(y), d)
  BY <1>1, <1>2, Zenon
<1> QED
  BY <1>3, Zenon DEF ReadCacheTree

\* Any change of entries whose paths are invalidated keeps the cache good.
LEMMA ChangeLemma ==
    ASSUME NEW idx, Good(idx), NEW es \in [Key -> Oid \cup {None}], NEW paths \in SUBSET Path,
           \A key \in Key : key[1] \notin paths => es[key] = idx.entries[key]
    PROVE  Good([entries |-> es, cache |-> InvalidatePaths(idx.cache, paths)])
<1> DEFINE c == InvalidatePaths(idx.cache, paths)
           new == [entries |-> es, cache |-> c]
<1>1. /\ c \in [Dir -> Node]
      /\ Closed(c)
      /\ \A d \in Dir : c[d].kind = "valid" =>
            /\ \A p \in paths : d \notin CumulativeComponents(p)
            /\ c[d] = idx.cache[d]
      /\ \A d \in Dir : (\A p \in paths : d \notin CumulativeComponents(p)) => c[d] = idx.cache[d]
  BY InvalidateLemma, Zenon DEF Good
<1> HIDE DEF c
<1>2. ASSUME NEW d \in Dir, c[d].kind = "valid", NEW p \in Path, d \in CumulativeComponents(p)
      PROVE  \A stage \in Stage : es[<<p, stage>>] = idx.entries[<<p, stage>>]
  <2>1. p \notin paths
    BY <1>1, <1>2, Zenon
  <2> QED
    BY <2>1, Zenon DEF Key
<1>3. ASSUME NEW d \in Dir, c[d].kind = "valid", NEW e \in Dir, d \in CumulativeComponents(e)
      PROVE  c[e] = ReadCacheTree(EntriesTree(new))[e]
  <2>1. \A p \in paths : e \notin CumulativeComponents(p)
    BY <1>1, <1>3, PathType, PrefixOfPrefix, Zenon
  <2>2. c[e] = idx.cache[e]
    BY <2>1, <1>1, Zenon
  <2>3. idx.cache[d].kind = "valid"
    BY <1>1, <1>3, Zenon
  <2>4. idx.cache[e] = ReadCacheTree(EntriesTree(idx))[e]
    BY <2>3, <1>3, Zenon DEF Good, Deep
  <2>5. ASSUME NEW p \in Path, e \in Parents(p)
        PROVE  idx.entries[<<p, "NONE">>] = new.entries[<<p, "NONE">>]
    <3>1. p \notin paths
      BY <2>1, <2>5, Zenon DEF CumulativeComponents
    <3> QED
      BY <3>1, Zenon DEF Key, Stage
  <2>6. ReadCacheTree(EntriesTree(idx))[e] = ReadCacheTree(EntriesTree(new))[e]
    BY <2>5, FreshLocal
  <2> QED
    BY <2>2, <2>4, <2>6, Zenon
<1>4. ASSUME NEW d \in Dir, c[d].kind = "valid", NEW key \in Path \X Unmerged, d \in Parents(key[1])
      PROVE  es[key] = None
  <2>1. idx.cache[d].kind = "valid"
    BY <1>1, <1>4, Zenon
  <2>2. idx.entries[key] = None
    BY <2>1, <1>4, Zenon DEF Good, Deep
  <2>3. key[1] \in Path /\ key[2] \in Stage /\ key = <<key[1], key[2]>>
    BY DEF Stage
  <2> QED
    BY <1>2, <1>4, <2>2, <2>3, Zenon DEF CumulativeComponents
<1>5. Deep(new)
  BY <1>3, <1>4, Zenon DEF Deep
<1> QED
  BY <1>1, <1>5, Zenon DEF Good, c

LEMMA InsertGood ==
    ASSUME NEW idx, Good(idx), NEW key \in Key, NEW oid \in Oid
    PROVE  Good(InsertEntry(idx, key, oid))
<1> DEFINE es == [idx.entries EXCEPT ![key] = oid]
<1>1. es \in [Key -> Oid \cup {None}]
  BY Zenon DEF Good
<1>2. {key[1]} \in SUBSET Path
  BY Zenon DEF Key
<1>3. \A k \in Key : k[1] \notin {key[1]} => es[k] = idx.entries[k]
  BY Zenon DEF Good
<1> HIDE DEF es
<1>4. Good([entries |-> es, cache |-> InvalidatePaths(idx.cache, {key[1]})])
  BY <1>1, <1>2, <1>3, ChangeLemma, Zenon
<1> QED
  BY <1>4, Zenon DEF InsertEntry, es

LEMMA RemoveGood ==
    ASSUME NEW idx, Good(idx), NEW keys \in SUBSET Key
    PROVE  Good(RemoveEntries(idx, keys))
<1> DEFINE gone == {key \in keys : Has(idx, key)}
           es == [key \in Key |-> IF key \in gone THEN None ELSE idx.entries[key]]
           ps == {key[1] : key \in gone}
<1>1. es \in [Key -> Oid \cup {None}]
  BY Zenon DEF Good
<1>2. ps \in SUBSET Path
  BY Zenon DEF Key
<1>3. \A k \in Key : k[1] \notin ps => es[k] = idx.entries[k]
  OBVIOUS
<1> HIDE DEF es, ps
<1>4. Good([entries |-> es, cache |-> InvalidatePaths(idx.cache, ps)])
  BY <1>1, <1>2, <1>3, ChangeLemma, Zenon
<1> QED
  BY <1>4, Zenon DEF RemoveEntries, es, ps

LEMMA CollisionsGood ==
    ASSUME NEW idx, Good(idx), NEW path \in Path
    PROVE  Good(RemoveCollisions(idx, path))
<1>1. (CumulativeComponents(path) \cap Path) \X {"NONE"} \in SUBSET Key
  BY Zenon DEF Key, Stage
<1>2. Good(RemoveFileDirCollisions(idx, path))
  BY <1>1, RemoveGood, Zenon DEF RemoveFileDirCollisions
<1>3. {key \in Key : path \in Parents(key[1]) /\ key[2] = "NONE"} \in SUBSET Key
  OBVIOUS
<1> QED
  BY <1>2, <1>3, RemoveGood, Zenon DEF RemoveCollisions, RemoveDirFileCollisions, RemoveDirectory

LEMMA AddGood ==
    ASSUME NEW idx, Good(idx), NEW path \in Path, NEW oid \in Oid
    PROVE  Good(AddEntry(idx, path, oid))
<1>1. {path} \X Unmerged \in SUBSET Key /\ <<path, "NONE">> \in Key
  BY Zenon DEF Key, Stage
<1>2. Good(RemoveConflicted(idx, path))
  BY <1>1, RemoveGood, Zenon DEF RemoveConflicted
<1>3. Good(RemoveCollisions(RemoveConflicted(idx, path), path))
  BY <1>2, CollisionsGood, Zenon
<1>4. <<path, "NONE">>[1] = path
  OBVIOUS
<1> QED
  BY <1>1, <1>3, <1>4, InsertGood, Zenon DEF AddEntry, AddEntryCommon

LEMMA AddConflictedGood ==
    ASSUME NEW idx, Good(idx), NEW path \in Path, NEW stage \in Stage, NEW oid \in Oid
    PROVE  Good(AddConflictedEntry(idx, path, stage, oid))
<1>1. {<<path, "NONE">>} \in SUBSET Key /\ <<path, stage>> \in Key
  BY DEF Key, Stage
<1>2. Good(RemoveEntries(idx, {<<path, "NONE">>}))
  BY <1>1, RemoveGood, Zenon
<1>3. Good(RemoveCollisions(RemoveEntries(idx, {<<path, "NONE">>}), path))
  BY <1>2, CollisionsGood, Zenon
<1>4. <<path, stage>>[1] = path
  OBVIOUS
<1> QED
  BY <1>1, <1>3, <1>4, InsertGood, Zenon DEF AddConflictedEntry, AddEntryCommon

\* write_tree keeps children of the old cache, and yet ends with the cache that
\* a fresh read of the tree would give.
LEMMA UpdateIsFresh ==
    ASSUME NEW idx, Good(idx)
    PROVE  UpdateCacheTree(idx.cache, EntriesTree(idx)) = ReadCacheTree(EntriesTree(idx))
<1> DEFINE t == EntriesTree(idx)
           Kept(a) == /\ a # <<>>
                      /\ Beneath(t, a) # {}
                      /\ Found(idx.cache, a)
                      /\ idx.cache[a] = Valid(Beneath(t, a))
           u == UpdateCacheTree(idx.cache, t)
<1>1. u = [d \in Dir |->
             IF \E a \in CumulativeComponents(d) : Kept(a) THEN idx.cache[d] ELSE ReadCacheTree(t)[d]]
  BY Zenon DEF UpdateCacheTree
<1>2. ASSUME NEW d \in Dir, NEW a \in CumulativeComponents(d), Kept(a)
      PROVE  idx.cache[d] = ReadCacheTree(t)[d]
  <2>1. a \in Dir
    BY DirClosed, Zenon
  <2>2. idx.cache[a].kind = "valid"
    BY <1>2 DEF Valid
  <2> QED
    BY <2>1, <2>2, Zenon DEF Good, Deep
<1> HIDE DEF Kept, t
<1>3. u = [d \in Dir |-> ReadCacheTree(t)[d]]
  BY <1>1, <1>2, Zenon
<1>4. ReadCacheTree(t) = [d \in Dir |-> ReadCacheTree(t)[d]]
  BY Zenon DEF ReadCacheTree
<1> QED
  BY <1>3, <1>4, Zenon DEF t

LEMMA FreshIsGood ==
    ASSUME NEW es \in [Key -> Oid \cup {None}], NEW t,
           NEW idx, idx = [entries |-> es, cache |-> ReadCacheTree(t)],
           t = EntriesTree(idx), ~HasConflicts(idx)
    PROVE  Good(idx)
<1> DEFINE c == ReadCacheTree(t)
<1>1. t \subseteq Path \X Oid
  <2>1. ASSUME NEW p \in Path, es[<<p, "NONE">>] # None PROVE es[<<p, "NONE">>] \in Oid
    <3>1. <<p, "NONE">> \in Key
      BY Zenon DEF Key, Stage
    <3> QED
      BY <2>1, <3>1, Zenon
  <2>2. idx.entries = es
    OBVIOUS
  <2>3. t = {<<p, es[<<p, "NONE">>]>> : p \in {q \in Path : es[<<q, "NONE">>] # None}}
    BY <2>2, Zenon DEF EntriesTree, Has
  <2>4. ASSUME NEW u \in t PROVE u \in Path \X Oid
    <3>1. PICK p \in Path : es[<<p, "NONE">>] # None /\ u = <<p, es[<<p, "NONE">>]>>
      BY <2>3, <2>4, Zenon
    <3> QED
      BY <3>1, <2>1, Zenon
  <2> QED
    BY <2>4, Zenon
<1>2. c \in [Dir -> Node]
  <2>1. \A d \in Dir : Valid(Beneath(t, d)) \in Node
    BY <1>1, Zenon DEF Valid, Node, Beneath
  <2>2. Absent \in Node
    BY Zenon DEF Absent, Node, NoTree
  <2> QED
    BY <2>1, <2>2, Zenon DEF ReadCacheTree
<1>3. ASSUME NEW d \in Dir, c[d] # Absent, NEW a \in CumulativeComponents(d)
      PROVE  c[a] # Absent
  <2>1. a \in Dir
    BY DirClosed, Zenon
  <2>2. a = <<>> \/ Beneath(t, a) # {}
    <3>1. CASE d = <<>>
      BY <3>1 DEF CumulativeComponents, Parents
    <3>2. CASE d # <<>>
      <4>1. Beneath(t, d) # {}
        BY <1>3, <3>2, Zenon DEF ReadCacheTree
      <4>2. PICK e \in t : d \in Parents(e[1])
        BY <4>1, Zenon DEF Beneath
      <4>3. a \in Parents(e[1])
        BY <4>2, <1>1, BeneathParents, Zenon
      <4> QED
        BY <4>2, <4>3, Zenon DEF Beneath
    <3> QED
      BY <3>1, <3>2, Zenon
  <2> QED
    BY <2>1, <2>2, Zenon DEF ReadCacheTree, Valid, Absent
<1>4. Closed(c)
  BY <1>3, Zenon DEF Closed, Found
<1>5. \A key \in Path \X Unmerged : es[key] = None
  BY Zenon DEF HasConflicts, Has
<1>6. Deep(idx)
  BY <1>5, Zenon DEF Deep
<1> QED
  BY <1>2, <1>4, <1>6, Zenon DEF Good

-----------------------------------------------------------------------------
(* The entries in their order *)

NatLess == OpToRel(<, Nat)

\* A nonempty set of natural numbers has a least element.
LEMMA NatMin ==
    ASSUME NEW S \in SUBSET Nat, S # {}
    PROVE  \E x \in S : \A y \in S : x <= y
<1>1. IsWellFoundedOn(NatLess, Nat)
  BY NatLessThanWellFounded, Zenon DEF NatLess
<1>2. \A x, y \in Nat : <<y, x>> \in NatLess <=> y < x
  BY Zenon DEF NatLess, OpToRel
<1>3. \E x \in S : \A y \in S : ~(<<y, x>> \in NatLess)
  BY <1>1, WFMin, Zenon
<1>4. PICK x \in S : \A y \in S : ~(<<y, x>> \in NatLess)
  BY <1>3, Zenon
<1>5. \A y \in S : ~(y < x)
  BY <1>2, <1>4, Zenon
<1> QED BY <1>5, SMT

\* The place of a path in the order.
LEMMA RankLemma ==
    /\ \A i \in 1..Len(PathOrder) : PathOrder[i] \in Path /\ PathRank[PathOrder[i]] = i
    /\ \A p \in Path : PathRank[p] \in 1..Len(PathOrder) /\ PathOrder[PathRank[p]] = p
<1>1. ASSUME NEW p \in Path
      PROVE  PathRank[p] \in 1..Len(PathOrder) /\ PathOrder[PathRank[p]] = p
  <2>1. \E i \in 1..Len(PathOrder) : PathOrder[i] = p
    BY Zenon DEF Path
  <2>2. PathRank[p] = CHOOSE i \in 1..Len(PathOrder) : PathOrder[i] = p
    BY Zenon DEF PathRank
  <2> QED BY <2>1, <2>2, Zenon
<1>2. \A i \in 1..Len(PathOrder) : PathOrder[i] \in Path
  BY Zenon DEF Path
<1> QED BY <1>1, <1>2, OrderAssumption, Zenon

\* What EntryPaths computes from the first n paths of the order.
UptoNext(idx, F, n) ==
    IF n = 0 THEN <<>>
    ELSE IF Has(idx, <<PathOrder[n], "NONE">>) THEN Append(F[n - 1], PathOrder[n])
    ELSE F[n - 1]

\* There is such a function: what it has at n needs only what it has at n - 1.
LEMMA UptoExists ==
    ASSUME NEW idx
    PROVE  \E F : F = [n \in 0..Len(PathOrder) |-> UptoNext(idx, F, n)]
<1> DEFINE N == Len(PathOrder)
           Until(F, k) == /\ F \in [0..N -> Seq(Path)]
                          /\ \A n \in 0..k : F[n] = UptoNext(idx, F, n)
           Bad == {k \in 0..N : ~\E F : Until(F, k)}
<1>1. N \in Nat
  BY IndexAssumption
<1> HIDE DEF N
<1>b. \A k \in 0..N : k \in Bad <=> ~\E F : Until(F, k)
  <2> HIDE DEF Until
  <2> QED OBVIOUS
<1>2. ASSUME Bad # {} PROVE FALSE
  <2>1. PICK k \in Bad : \A j \in Bad : k <= j
    <3>1. Bad \in SUBSET Nat
      BY <1>1
    <3> HIDE DEF Bad
    <3> QED BY <1>2, <3>1, NatMin, Zenon
  <2>2. k \in 0..N
    OBVIOUS
  <2>3. CASE k = 0
    <3> DEFINE F == [n \in 0..N |-> <<>>]
    <3>1. F \in [0..N -> Seq(Path)] /\ F[0] = <<>>
      BY <1>1
    <3> HIDE DEF F
    <3>2. Until(F, 0)
      BY <3>1 DEF UptoNext
    <3> QED BY <2>3, <3>2, Zenon
  <2>4. CASE k # 0
    <3>1. k - 1 \in 0..N /\ k - 1 \notin Bad
      <4> HIDE DEF Bad
      <4> QED BY <1>1, <2>1, <2>2, <2>4
    <3>2. PICK G : Until(G, k - 1)
      <4> HIDE DEF Until, Bad
      <4> QED BY <1>b, <3>1, Zenon
    <3> DEFINE F == [G EXCEPT ![k] = UptoNext(idx, G, k)]
    <3>3. UptoNext(idx, G, k) \in Seq(Path)
      <4>1. PathOrder[k] \in Path
        BY <1>1, <2>2, <2>4, RankLemma DEF N
      <4>2. G[k - 1] \in Seq(Path)
        BY <3>1, <3>2, Zenon
      <4> QED BY <2>4, <4>1, <4>2 DEF UptoNext
    <3>4. F \in [0..N -> Seq(Path)] /\ F[k] = UptoNext(idx, G, k)
          /\ \A n \in 0..(k - 1) : F[n] = G[n]
      BY <1>1, <2>2, <3>2, <3>3
    <3> HIDE DEF F
    <3>5. \A n \in 0..k : F[n] = UptoNext(idx, F, n)
      <4> TAKE n \in 0..k
      <4>1. n = 0 \/ n - 1 \in 0..(k - 1)
        BY <2>2
      <4>2. UptoNext(idx, F, n) = UptoNext(idx, G, n)
        BY <3>4, <4>1, Zenon DEF UptoNext
      <4>3. CASE n = k
        BY <3>4, <4>2, <4>3, Zenon
      <4>4. CASE n # k
        <5>1. n \in 0..(k - 1)
          BY <2>2, <4>4
        <5> QED BY <3>2, <3>4, <4>2, <5>1, Zenon
      <4> QED BY <4>3, <4>4, Zenon
    <3> QED BY <3>4, <3>5, Zenon
  <2> QED BY <2>3, <2>4, Zenon
<1>3. N \notin Bad /\ N \in 0..N
  <2> HIDE DEF Bad
  <2> QED BY <1>1, <1>2
<1>4. PICK F : Until(F, N)
  <2> HIDE DEF Until, Bad
  <2> QED BY <1>b, <1>3, Zenon
<1>5. F = [n \in 0..N |-> UptoNext(idx, F, n)]
  BY <1>4, Zenon
<1> QED BY <1>5, Zenon DEF N

\* The entries at the first n paths of the order, in that order.
Listed(idx, s, n) ==
    /\ s \in Seq(Path)
    /\ \A i \in 1..Len(s) : Has(idx, <<s[i], "NONE">>) /\ PathRank[s[i]] <= n
    /\ \A i, j \in 1..Len(s) : i < j => PathRank[s[i]] < PathRank[s[j]]
    /\ \A p \in Path : Has(idx, <<p, "NONE">>) /\ PathRank[p] <= n => \E i \in 1..Len(s) : s[i] = p

LEMMA ListedNext ==
    ASSUME NEW idx, NEW s, NEW n \in 1..Len(PathOrder), Listed(idx, s, n - 1)
    PROVE  Listed(idx, IF Has(idx, <<PathOrder[n], "NONE">>) THEN Append(s, PathOrder[n]) ELSE s, n)
<1> DEFINE q == PathOrder[n]
<1>1. q \in Path /\ PathRank[q] = n /\ n \in Nat /\ Len(PathOrder) \in Nat
  BY IndexAssumption, RankLemma
<1>2. \A p \in Path : PathRank[p] \in Nat /\ (PathRank[p] = n => p = q)
  BY <1>1, RankLemma
<1>3. s \in Seq(Path) /\ Len(s) \in Nat /\ \A i \in 1..Len(s) : s[i] \in Path
  BY DEF Listed
<1> HIDE DEF q
<1>4. \A p \in Path : PathRank[p] <= n => PathRank[p] <= n - 1 \/ p = q
  BY <1>1, <1>2
<1>5. ASSUME NEW i \in 1..Len(s) PROVE PathRank[s[i]] <= n /\ PathRank[s[i]] < n
  <2>1. PathRank[s[i]] \in Nat /\ PathRank[s[i]] <= n - 1
    BY <1>2, <1>3, Zenon DEF Listed
  <2> QED BY <1>1, <2>1
<1>6. CASE ~Has(idx, <<q, "NONE">>)
  <2>1. Listed(idx, s, n)
    BY <1>4, <1>5, <1>6, Zenon DEF Listed
  <2> QED BY <1>6, <2>1, Zenon DEF q
<1>7. CASE Has(idx, <<q, "NONE">>)
  <2>1. PICK t : t = Append(s, q)
    BY Zenon
  <2>2. /\ t \in Seq(Path) /\ Len(t) = Len(s) + 1 /\ t[Len(s) + 1] = q
        /\ \A i \in 1..Len(s) : t[i] = s[i]
    BY <1>1, <1>3, <2>1
  <2>3. \A i \in 1..Len(t) : i \in 1..Len(s) \/ i = Len(s) + 1
    BY <1>3, <2>2
  <2>4. \A i \in 1..Len(s) : i \in 1..Len(t)
    BY <1>3, <2>2
  <2>5. \A i \in 1..Len(t) : Has(idx, <<t[i], "NONE">>) /\ PathRank[t[i]] <= n
    <3> TAKE i \in 1..Len(t)
    <3>1. CASE i \in 1..Len(s)
      BY <1>5, <2>2, <3>1, Zenon DEF Listed
    <3>2. CASE i = Len(s) + 1
      BY <1>1, <1>7, <2>2, <3>2
    <3> QED BY <2>3, <3>1, <3>2, Zenon
  <2>6. ASSUME NEW i \in 1..Len(t), NEW j \in 1..Len(t), i < j PROVE PathRank[t[i]] < PathRank[t[j]]
    <3>1. i \in 1..Len(s)
      BY <1>3, <2>2, <2>6
    <3>2. CASE j \in 1..Len(s)
      BY <2>2, <2>6, <3>1, <3>2, Zenon DEF Listed
    <3>3. CASE j = Len(s) + 1
      BY <1>1, <1>5, <2>2, <3>1, <3>3, Zenon
    <3> QED BY <2>3, <3>2, <3>3, Zenon
  <2>7. ASSUME NEW p \in Path, Has(idx, <<p, "NONE">>), PathRank[p] <= n
        PROVE  \E i \in 1..Len(t) : t[i] = p
    <3>1. CASE p = q
      <4>1. Len(s) + 1 \in 1..Len(t)
        BY <1>3, <2>2
      <4> QED BY <2>2, <3>1, <4>1, Zenon
    <3>2. CASE PathRank[p] <= n - 1
      <4>1. PICK i \in 1..Len(s) : s[i] = p
        BY <2>7, <3>2, Zenon DEF Listed
      <4> QED BY <2>2, <2>4, <4>1, Zenon
    <3> QED BY <1>4, <2>7, <3>1, <3>2, Zenon
  <2>8. Listed(idx, t, n)
    BY <2>2, <2>5, <2>6, <2>7, Zenon DEF Listed
  <2> QED BY <1>7, <2>1, <2>8, Zenon DEF q
<1> QED BY <1>6, <1>7, Zenon

\* EntryPaths has the merged entries, all of them, in the order of the paths.
LEMMA EntryPathsListed ==
    ASSUME NEW idx
    PROVE  Listed(idx, EntryPaths(idx), Len(PathOrder))
<1> DEFINE N == Len(PathOrder)
           Upto == CHOOSE F : F = [n \in 0..N |-> UptoNext(idx, F, n)]
           Bad == {n \in 0..N : ~Listed(idx, Upto[n], n)}
<1>1. N \in Nat
  BY IndexAssumption
<1>2. EntryPaths(idx) = Upto[N]
  BY Zenon DEF EntryPaths, UptoNext
<1>3. Upto = [n \in 0..N |-> UptoNext(idx, Upto, n)]
  BY UptoExists, Zenon
<1> HIDE DEF Upto
<1>4. \A n \in 0..N : Upto[n] = UptoNext(idx, Upto, n)
  BY <1>3, Zenon
<1> HIDE DEF N
<1>5. \A n \in 0..N : n \in Bad <=> ~Listed(idx, Upto[n], n)
  OBVIOUS
<1>6. Bad \in SUBSET Nat
  BY <1>1
<1> HIDE DEF Bad
<1>7. ASSUME Bad # {} PROVE FALSE
  <2>1. PICK n \in Bad : \A j \in Bad : n <= j
    BY <1>6, <1>7, NatMin, Zenon
  <2>2. n \in 0..N
    BY Zenon DEF Bad
  <2>3. CASE n = 0
    <3>1. Upto[n] = <<>>
      BY <1>4, <2>2, <2>3, Zenon DEF UptoNext
    <3>2. \A p \in Path : ~(PathRank[p] <= 0)
      BY RankLemma, IndexAssumption
    <3>3. Listed(idx, Upto[n], n)
      BY <2>3, <3>1, <3>2 DEF Listed
    <3> QED BY <1>5, <2>2, <3>3, Zenon
  <2>4. CASE n # 0
    <3>1. n - 1 \in 0..N /\ n - 1 \notin Bad /\ n \in 1..N
      BY <1>1, <2>1, <2>2, <2>4
    <3>2. Listed(idx, Upto[n - 1], n - 1)
      BY <1>5, <3>1, Zenon
    <3>3. Upto[n] = IF Has(idx, <<PathOrder[n], "NONE">>) THEN Append(Upto[n - 1], PathOrder[n])
                    ELSE Upto[n - 1]
      BY <1>4, <2>2, <2>4, Zenon DEF UptoNext
    <3>4. n \in 1..Len(PathOrder)
      BY <3>1, Zenon DEF N
    <3>5. Listed(idx, Upto[n], n)
      BY <3>2, <3>3, <3>4, ListedNext, Zenon
    <3> QED BY <1>5, <2>2, <3>5, Zenon
  <2> QED BY <2>3, <2>4, Zenon
<1>8. Listed(idx, Upto[N], N)
  BY <1>1, <1>5, <1>7
<1> QED BY <1>2, <1>8, Zenon DEF N

-----------------------------------------------------------------------------
(* The tree that build_tree makes *)

\* The list of all entries: no path twice, none missing, and the entries
\* beneath a directory next to each other.
Ordered(idx, es) ==
    /\ es \in Seq(Path)
    /\ \A i, j \in 1..Len(es) : es[i] = es[j] => i = j
    /\ \A i \in 1..Len(es) : Has(idx, <<es[i], "NONE">>) /\ <<>> \in Parents(es[i])
    /\ \A p \in Path : Has(idx, <<p, "NONE">>) => \E i \in 1..Len(es) : es[i] = p
    /\ \A i, j, k \in 1..Len(es) : i < j /\ j < k =>
          Parents(es[i]) \cap Parents(es[k]) \subseteq Parents(es[j])

LEMMA EntryPathsOrdered ==
    ASSUME NEW idx
    PROVE  Ordered(idx, EntryPaths(idx))
<1>1. PICK es : es = EntryPaths(idx)
  OBVIOUS
<1>2. Listed(idx, es, Len(PathOrder))
  BY <1>1, EntryPathsListed, Zenon
<1>3. es \in Seq(Path) /\ Len(es) \in Nat /\ \A i \in 1..Len(es) : es[i] \in Path
  BY <1>2 DEF Listed
<1>4. \A i \in 1..Len(es) : /\ PathRank[es[i]] \in 1..Len(PathOrder)
                            /\ PathOrder[PathRank[es[i]]] = es[i]
  BY <1>3, RankLemma, Zenon
<1>5. \A i, j \in 1..Len(es) : i < j => PathRank[es[i]] < PathRank[es[j]]
  BY <1>2, Zenon DEF Listed
<1>6. ASSUME NEW i \in 1..Len(es), NEW j \in 1..Len(es), es[i] = es[j] PROVE i = j
  <2>1. PathRank[es[i]] \in Nat /\ PathRank[es[j]] = PathRank[es[i]]
    BY <1>4, <1>6, IndexAssumption
  <2>2. ~(i < j) /\ ~(j < i)
    BY <1>5, <2>1
  <2> QED BY <1>3, <2>2
<1>7. ASSUME NEW i \in 1..Len(es) PROVE Has(idx, <<es[i], "NONE">>) /\ <<>> \in Parents(es[i])
  <2>1. es[i] \in Seq(STRING) /\ es[i] # <<>>
    BY <1>3, <1>4, PathType, OrderAssumption, Zenon
  <2>2. 0 \in 0..(Len(es[i]) - 1) /\ SubSeq(es[i], 1, 0) = <<>>
    BY <2>1
  <2>3. <<>> \in Parents(es[i])
    BY <2>2, Zenon DEF Parents
  <2> QED BY <1>2, <2>3, Zenon DEF Listed
<1>8. \A p \in Path : Has(idx, <<p, "NONE">>) => \E i \in 1..Len(es) : es[i] = p
  <2>1. \A p \in Path : PathRank[p] <= Len(PathOrder)
    BY RankLemma, IndexAssumption
  <2> QED BY <1>2, <2>1, Zenon DEF Listed
<1>9. ASSUME NEW i \in 1..Len(es), NEW j \in 1..Len(es), NEW k \in 1..Len(es), i < j, j < k
      PROVE  Parents(es[i]) \cap Parents(es[k]) \subseteq Parents(es[j])
  <2>1. PathRank[es[i]] < PathRank[es[j]] /\ PathRank[es[j]] < PathRank[es[k]]
    BY <1>5, <1>9, Zenon
  <2>2. /\ PathOrder[PathRank[es[i]]] = es[i] /\ PathRank[es[i]] \in 1..Len(PathOrder)
        /\ PathOrder[PathRank[es[j]]] = es[j] /\ PathRank[es[j]] \in 1..Len(PathOrder)
        /\ PathOrder[PathRank[es[k]]] = es[k] /\ PathRank[es[k]] \in 1..Len(PathOrder)
    BY <1>4, Zenon
  <2>3. \A a, b, c \in 1..Len(PathOrder) : a < b /\ b < c =>
           Parents(PathOrder[a]) \cap Parents(PathOrder[c]) \subseteq Parents(PathOrder[b])
    BY OrderAssumption, Zenon
  <2>4. Parents(PathOrder[PathRank[es[i]]]) \cap Parents(PathOrder[PathRank[es[k]]])
            \subseteq Parents(PathOrder[PathRank[es[j]]])
    BY <2>1, <2>2, <2>3, Zenon
  <2> QED BY <2>2, <2>4, Zenon
<1>10. Ordered(idx, es)
  BY <1>3, <1>6, <1>7, <1>8, <1>9, Zenon DEF Ordered
<1> QED BY <1>1, <1>10, Zenon

\* The entry at a place of the list, and the entries from a place to another.
Item(idx, es, m) == <<es[m], idx.entries[<<es[m], "NONE">>]>>

Items(idx, es, a, b) == {Item(idx, es, m) : m \in a..b}

\* The entries beneath a directory that the iterator yields at n: they begin at
\* n and are next to each other.
LEMMA BeneathBlock ==
    ASSUME NEW idx, NEW es, Ordered(idx, es), NEW n \in 1..Len(es), NEW d \in Yielded(es, n)
    PROVE  \E k \in n..Len(es) : \A m \in 1..Len(es) : d \in Parents(es[m]) <=> m \in n..k
<1>1. Len(es) \in Nat
  BY DEF Ordered
<1>2. d \in Parents(es[n]) /\ (n # 1 => d \notin Parents(es[n - 1]))
  BY Zenon DEF Yielded
<1>c. \A i, j, k \in 1..Len(es) :
         i < j /\ j < k /\ d \in Parents(es[i]) /\ d \in Parents(es[k]) => d \in Parents(es[j])
  BY Zenon DEF Ordered
<1> DEFINE left == {l \in 0..Len(es) : Len(es) - l >= n /\ d \in Parents(es[Len(es) - l])}
<1>3. left \in SUBSET Nat /\ left # {}
  <2>1. Len(es) - n \in 0..Len(es) /\ Len(es) - (Len(es) - n) = n /\ n >= n
    BY <1>1
  <2>2. Len(es) - n \in left
    BY <1>2, <2>1, Zenon
  <2>3. \A l \in left : l \in Nat
    BY <1>1
  <2> HIDE DEF left
  <2> QED BY <2>2, <2>3, Zenon
<1>4. PICK l \in left : \A j \in left : l <= j
  <2> HIDE DEF left
  <2> QED BY <1>3, NatMin, Zenon
<1>5. PICK k : k = Len(es) - l
  OBVIOUS
<1>6. k \in n..Len(es) /\ d \in Parents(es[k])
  BY <1>1, <1>4, <1>5
<1>7. ASSUME NEW m \in 1..Len(es), d \in Parents(es[m]) PROVE m \in n..k
  <2>1. m >= n
    <3> SUFFICES ASSUME m < n PROVE FALSE
      BY <1>1
    <3>1. n # 1 /\ n - 1 \in 1..Len(es) /\ m <= n - 1 /\ n - 1 < n
      BY <1>1
    <3>2. m # n - 1
      BY <1>2, <1>7, <3>1, Zenon
    <3>3. m < n - 1
      BY <1>1, <3>1, <3>2
    <3>4. d \in Parents(es[n - 1])
      <4>1. \A j \in 1..Len(es) : m < j /\ j < n => d \in Parents(es[j])
        BY <1>2, <1>c, <1>7, Zenon
      <4> QED BY <3>1, <3>3, <4>1, Zenon
    <3> QED BY <1>2, <3>1, <3>4, Zenon
  <2>2. Len(es) - m \in 0..Len(es) /\ Len(es) - (Len(es) - m) = m
    BY <1>1
  <2>3. Len(es) - m \in left
    BY <1>7, <2>1, <2>2, Zenon
  <2>4. l <= Len(es) - m /\ l \in Nat
    BY <1>3, <1>4, <2>3, Zenon
  <2> QED BY <1>1, <1>5, <2>1, <2>4
<1>8. ASSUME NEW m \in 1..Len(es), m \in n..k PROVE d \in Parents(es[m])
  <2>1. CASE m = n \/ m = k
    BY <1>2, <1>6, <2>1, Zenon
  <2>2. CASE m # n /\ m # k
    <3>1. n < m /\ m < k /\ k \in 1..Len(es)
      BY <1>1, <1>6, <1>8, <2>2
    <3> QED BY <1>2, <1>c, <1>6, <3>1, Zenon
  <2> QED BY <2>1, <2>2, Zenon
<1> QED BY <1>6, <1>7, <1>8, Zenon

\* What a cached tree stands for: as many entries from n on as it counts.
LEMMA CachedBlock ==
    ASSUME NEW idx, Good(idx), NEW es, Ordered(idx, es), NEW n \in 1..Len(es),
           NEW d \in Cached(idx, es, n)
    PROVE  LET t == idx.cache[d].tree
               k == n + StepOverTree(t) - 1
           IN  k \in n..Len(es) /\ t = Items(idx, es, n, k)
<1>1. /\ d \in Yielded(es, n) /\ d \in Parents(es[n])
      /\ idx.cache[d].kind = "valid"
  BY Zenon DEF Cached, Yielded, FindValidChild
<1>2. Len(es) \in Nat /\ \A m \in 1..Len(es) : es[m] \in Path
  BY DEF Ordered
<1>3. d \in Dir
  BY <1>1, <1>2, Zenon DEF Dir
<1>4. PICK t : t = idx.cache[d].tree
  OBVIOUS
<1>5. t = Beneath(EntriesTree(idx), d)
  <2>1. idx.cache[d] = ReadCacheTree(EntriesTree(idx))[d]
    BY <1>1, <1>3, DirClosed, Zenon DEF Good, Deep
  <2>2. idx.cache[d] = Valid(Beneath(EntriesTree(idx), d))
    BY <1>1, <1>3, <2>1 DEF ReadCacheTree, Absent
  <2> QED BY <1>4, <2>2 DEF Valid
<1>6. PICK k \in n..Len(es) : \A m \in 1..Len(es) : d \in Parents(es[m]) <=> m \in n..k
  BY <1>1, BeneathBlock, Zenon
<1>7. n \in Int /\ k \in Int /\ n <= k /\ \A m \in n..k : m \in 1..Len(es)
  BY <1>2, <1>6
<1>8. t = Items(idx, es, n, k)
  <2>1. ASSUME NEW m \in n..k PROVE Item(idx, es, m) \in t
    <3>1. es[m] \in Path /\ Has(idx, <<es[m], "NONE">>) /\ d \in Parents(es[m])
      BY <1>2, <1>6, <1>7, Zenon DEF Ordered
    <3>2. Item(idx, es, m) \in EntriesTree(idx)
      BY <3>1, Zenon DEF Item, EntriesTree
    <3>3. Item(idx, es, m)[1] = es[m]
      BY Zenon DEF Item
    <3> QED BY <1>5, <3>1, <3>2, <3>3, Zenon DEF Beneath
  <2>2. ASSUME NEW u \in t PROVE \E m \in n..k : u = Item(idx, es, m)
    <3>1. u \in EntriesTree(idx) /\ d \in Parents(u[1])
      BY <1>5, <2>2, Zenon DEF Beneath
    <3>2. PICK p \in Path : Has(idx, <<p, "NONE">>) /\ u = <<p, idx.entries[<<p, "NONE">>]>>
      BY <3>1, Zenon DEF EntriesTree
    <3>3. PICK m \in 1..Len(es) : es[m] = p
      BY <3>2, Zenon DEF Ordered
    <3>4. m \in n..k
      BY <1>6, <3>1, <3>2, <3>3, Zenon
    <3> QED BY <3>2, <3>3, <3>4, Zenon DEF Item
  <2> QED BY <2>1, <2>2, Zenon DEF Items
<1>9. Cardinality(t) = k - n + 1
  <2>1. IsFiniteSet(n..k) /\ Cardinality(n..k) = k - n + 1
    BY <1>7, FS_Interval
  <2> DEFINE f == [m \in n..k |-> Item(idx, es, m)]
  <2>2. \A m \in n..k : f[m] \in t /\ f[m][1] = es[m]
    BY <1>8, Zenon DEF Items, Item
  <2>3. f \in [n..k -> t]
    BY <2>2, Zenon
  <2>4. \A u \in t : \E m \in n..k : f[m] = u
    BY <1>8, Zenon DEF Items
  <2> HIDE DEF f
  <2>5. ASSUME NEW a \in n..k, NEW b \in n..k, f[a] = f[b] PROVE a = b
    <3>1. es[a] = es[b]
      BY <2>2, <2>5, Zenon
    <3> QED BY <1>7, <3>1, Zenon DEF Ordered
  <2>6. f \in Bijection(n..k, t)
    BY <2>3, <2>4, <2>5, Zenon DEF Bijection, Injection, Surjection, IsInjective
  <2>7. ExistsBijection(n..k, t)
    BY <2>6, Zenon DEF ExistsBijection
  <2> QED BY <2>1, <2>7, FS_Bijection, Zenon
<1>10. n + StepOverTree(t) - 1 = k
  BY <1>7, <1>9 DEF StepOverTree
<1> QED BY <1>4, <1>6, <1>8, <1>10, Zenon

\* The first of the cached directories is one of them.
LEMMA FirstIsOne ==
    ASSUME NEW p \in Path, NEW dirs \in SUBSET Parents(p), dirs # {}
    PROVE  FirstOf(dirs) \in dirs
<1>1. \A d \in dirs : Len(d) \in Nat
  <2> TAKE d \in dirs
  <2>1. p \in Seq(STRING)
    BY PathType, Zenon
  <2>2. PICK n \in 0..(Len(p) - 1) : d = SubSeq(p, 1, n)
    BY Zenon DEF Parents
  <2> QED BY <2>1, <2>2
<1> DEFINE lens == {Len(d) : d \in dirs}
<1>2. lens \in SUBSET Nat /\ lens # {}
  BY <1>1, Zenon
<1>3. PICK l \in lens : \A m \in lens : l <= m
  <2> HIDE DEF lens
  <2> QED BY <1>2, NatMin, Zenon
<1>4. \E d \in dirs : \A e \in dirs : Len(d) <= Len(e)
  BY <1>3, Zenon
<1> QED BY <1>4, Zenon DEF FirstOf

\* What build_tree computes from entry n on.
RestNext(idx, es, F, n) ==
    IF n > Len(es) THEN {}
    ELSE IF Cached(idx, es, n) = {} THEN {Item(idx, es, n)} \cup F[n + 1]
    ELSE LET t == idx.cache[FirstOf(Cached(idx, es, n))].tree
         IN  t \cup F[n + StepOverTree(t)]

\* If it has the entries from any later place on, it has the entries from n on.
LEMMA RestStep ==
    ASSUME NEW idx, Good(idx), NEW es, Ordered(idx, es), NEW F, NEW n \in Nat \ {0},
           \A m \in Nat \ {0} : m > n => F[m] = Items(idx, es, m, Len(es))
    PROVE  RestNext(idx, es, F, n) = Items(idx, es, n, Len(es))
<1>1. Len(es) \in Nat /\ \A m \in 1..Len(es) : es[m] \in Path
  BY DEF Ordered
<1>2. ASSUME NEW k \in n..Len(es)
      PROVE  /\ k + 1 \in Nat \ {0} /\ k + 1 > n
             /\ Items(idx, es, n, k) \cup Items(idx, es, k + 1, Len(es)) = Items(idx, es, n, Len(es))
  <2>1. \A m : m \in n..Len(es) <=> m \in n..k \/ m \in (k + 1)..Len(es)
    BY <1>1
  <2> QED BY <1>1, <2>1 DEF Items
<1>3. CASE n > Len(es)
  <2>1. n..Len(es) = {}
    BY <1>1, <1>3
  <2> QED BY <1>3, <2>1, Zenon DEF RestNext, Items
<1>4. CASE ~(n > Len(es)) /\ Cached(idx, es, n) = {}
  <2>1. n \in n..Len(es)
    BY <1>1, <1>4
  <2>2. F[n + 1] = Items(idx, es, n + 1, Len(es))
    BY <1>2, <2>1, Zenon
  <2>3. Items(idx, es, n, n) = {Item(idx, es, n)}
    <3>1. n..n = {n}
      OBVIOUS
    <3> QED BY <3>1, Zenon DEF Items
  <2> QED BY <1>2, <1>4, <2>1, <2>2, <2>3, Zenon DEF RestNext
<1>5. CASE ~(n > Len(es)) /\ Cached(idx, es, n) # {}
  <2>1. n \in 1..Len(es)
    BY <1>1, <1>5
  <2>2. PICK d : d = FirstOf(Cached(idx, es, n))
    OBVIOUS
  <2>3. d \in Cached(idx, es, n)
    <3>1. Cached(idx, es, n) \in SUBSET Parents(es[n])
      BY Zenon DEF Cached, Yielded
    <3> QED BY <1>1, <1>5, <2>1, <2>2, <3>1, FirstIsOne, Zenon
  <2>4. PICK t : t = idx.cache[d].tree
    OBVIOUS
  <2>5. PICK k \in n..Len(es) : k = n + StepOverTree(t) - 1 /\ t = Items(idx, es, n, k)
    BY <2>1, <2>3, <2>4, CachedBlock, Zenon
  <2>6. n + StepOverTree(t) = k + 1
    <3>1. \E m \in Nat : StepOverTree(t) = m
      <4>1. IsFiniteSet(t)
        <5>1. IsFiniteSet(n..k)
          BY <1>1, <2>5, FS_Interval
        <5> DEFINE f == [m \in n..k |-> Item(idx, es, m)]
        <5>2. f \in [n..k -> t] /\ \A u \in t : \E m \in n..k : f[m] = u
          BY <2>5, Zenon DEF Items
        <5>3. f \in Surjection(n..k, t)
          BY <5>2, Zenon DEF Surjection
        <5> HIDE DEF f
        <5> QED BY <5>1, <5>3, FS_Surjection, Zenon
      <4> QED BY <4>1, FS_CardinalityType, Zenon DEF StepOverTree
    <3> QED BY <2>5, <3>1
  <2>7. RestNext(idx, es, F, n) = t \cup F[k + 1]
    BY <1>5, <2>2, <2>4, <2>6, Zenon DEF RestNext
  <2>8. F[k + 1] = Items(idx, es, k + 1, Len(es))
    BY <1>2, <2>5, Zenon
  <2> QED BY <1>2, <2>5, <2>7, <2>8, Zenon
<1> QED BY <1>3, <1>4, <1>5, Zenon

\* build_tree makes the tree of the entries, however much comes from the cache.
LEMMA BuildTreeIsIndex ==
    ASSUME NEW idx, Good(idx)
    PROVE  BuildTree(idx) = EntriesTree(idx)
<1>1. PICK es : es = EntryPaths(idx)
  OBVIOUS
<1>2. Ordered(idx, es) /\ Len(es) \in Nat
  <2>1. Ordered(idx, es)
    BY <1>1, EntryPathsOrdered, Zenon
  <2>2. es \in Seq(Path)
    BY <2>1, Zenon DEF Ordered
  <2> QED BY <2>1, <2>2
<1> DEFINE Rest == CHOOSE F : F = [n \in Nat \ {0} |-> RestNext(idx, es, F, n)]
<1>3. BuildTree(idx) = Rest[1]
  BY <1>1 DEF BuildTree, RestNext, Item
<1>4. \E F : F = [n \in Nat \ {0} |-> RestNext(idx, es, F, n)]
  <2> DEFINE F == [n \in Nat \ {0} |-> Items(idx, es, n, Len(es))]
  <2>1. \A n \in Nat \ {0} : F[n] = Items(idx, es, n, Len(es))
    OBVIOUS
  <2> HIDE DEF F
  <2>2. \A n \in Nat \ {0} : RestNext(idx, es, F, n) = Items(idx, es, n, Len(es))
    BY <1>2, <2>1, RestStep, Zenon
  <2>3. F = [n \in Nat \ {0} |-> RestNext(idx, es, F, n)]
    BY <2>2, Zenon DEF F
  <2> QED BY <2>3, Zenon
<1>5. Rest = [n \in Nat \ {0} |-> RestNext(idx, es, Rest, n)]
  BY <1>4, Zenon
<1> HIDE DEF Rest
<1>6. \A n \in Nat \ {0} : Rest[n] = RestNext(idx, es, Rest, n)
  BY <1>5, Zenon
<1> DEFINE Right(n) == Rest[n] = Items(idx, es, n, Len(es))
           bad == {l \in 0..Len(es) : Len(es) - l \in Nat \ {0} /\ ~Right(Len(es) - l)}
<1>7. ASSUME NEW n \in Nat \ {0}, \A m \in Nat \ {0} : m > n => Right(m) PROVE Right(n)
  BY <1>2, <1>6, <1>7, RestStep, Zenon
<1>8. ASSUME NEW n \in Nat \ {0}, n > Len(es) PROVE Right(n)
  <2>1. n..Len(es) = {}
    BY <1>2, <1>8
  <2> QED BY <1>6, <1>8, <2>1, Zenon DEF RestNext, Items
<1> HIDE DEF Right
<1>9. bad \in SUBSET Nat
  BY <1>2
<1>10. bad = {}
  <2> SUFFICES ASSUME bad # {} PROVE FALSE
    OBVIOUS
  <2>1. PICK l \in bad : \A j \in bad : l <= j
    <3> HIDE DEF bad
    <3> QED BY <1>9, NatMin, Zenon
  <2>2. PICK n : n = Len(es) - l
    OBVIOUS
  <2>3. n \in Nat \ {0} /\ ~Right(n) /\ l \in Nat /\ n <= Len(es)
    BY <1>2, <2>1, <2>2
  <2>4. ASSUME NEW m \in Nat \ {0}, m > n PROVE Right(m)
    <3>1. CASE m > Len(es)
      BY <1>8, <3>1, Zenon
    <3>2. CASE ~(m > Len(es))
      <4>1. Len(es) - m \in 0..Len(es) /\ Len(es) - (Len(es) - m) = m /\ Len(es) - m < l
        BY <1>2, <2>2, <2>3, <2>4, <3>2
      <4>2. Len(es) - m \notin bad
        <5> HIDE DEF bad
        <5> QED BY <1>2, <2>1, <2>3, <4>1
      <4> QED BY <4>1, <4>2, Zenon
    <3> QED BY <3>1, <3>2, Zenon
  <2> QED BY <1>7, <2>3, <2>4, Zenon
<1>11. Right(1)
  <2>1. CASE 1 > Len(es)
    BY <1>8, <2>1
  <2>2. CASE ~(1 > Len(es))
    <3>1. Len(es) - 1 \in 0..Len(es) /\ Len(es) - (Len(es) - 1) = 1
      BY <1>2, <2>2
    <3>2. Len(es) - 1 \notin bad
      BY <1>10, Zenon
    <3> QED BY <3>1, <3>2
  <2> QED BY <2>1, <2>2, Zenon
<1>12. Items(idx, es, 1, Len(es)) = EntriesTree(idx)
  <2>1. ASSUME NEW m \in 1..Len(es) PROVE Item(idx, es, m) \in EntriesTree(idx)
    <3>1. es[m] \in Path /\ Has(idx, <<es[m], "NONE">>)
      BY <1>2 DEF Ordered
    <3> QED BY <3>1, Zenon DEF Item, EntriesTree
  <2>2. ASSUME NEW u \in EntriesTree(idx) PROVE \E m \in 1..Len(es) : u = Item(idx, es, m)
    <3>1. PICK p \in Path : Has(idx, <<p, "NONE">>) /\ u = <<p, idx.entries[<<p, "NONE">>]>>
      BY Zenon DEF EntriesTree
    <3>2. PICK m \in 1..Len(es) : es[m] = p
      BY <1>2, <3>1, Zenon DEF Ordered
    <3> QED BY <3>1, <3>2, Zenon DEF Item
  <2> QED BY <2>1, <2>2, Zenon DEF Items
<1> QED BY <1>3, <1>11, <1>12, Zenon DEF Right

-----------------------------------------------------------------------------
(* The theorems *)

\* The inductive invariant: the entries and the cache agree, and what write_tree
\* has just returned is the tree of the entries and the one the cache is for.
CacheInv == Good(index) /\ TreeIsIndex /\ CacheAsIfFresh

LEMMA CacheInvImplies == CacheInv => TypeOK /\ CacheCoherent /\ CacheAsIfFresh
<1> SUFFICES ASSUME CacheInv PROVE TypeOK /\ CacheCoherent
  BY Zenon DEF CacheInv
<1>1. index.entries = entries /\ index.cache = cache
  BY Zenon DEF index
<1>2. TypeOK
  BY <1>1, Zenon DEF CacheInv, Good, TypeOK, Closed, Node
<1>3. ASSUME NEW d \in Dir, cache[d].kind = "valid"
      PROVE  /\ cache[d].tree = Beneath(EntriesTree(index), d)
             /\ \A key \in Path \X Unmerged : d \in Parents(key[1]) => entries[key] = None
  <2>1. cache[d] = ReadCacheTree(EntriesTree(index))[d]
    BY <1>1, <1>3, DirClosed, Zenon DEF CacheInv, Good, Deep
  <2>2. cache[d] = Valid(Beneath(EntriesTree(index), d))
    BY <2>1, <1>3 DEF ReadCacheTree, Absent
  <2> QED
    BY <1>1, <1>3, <2>2 DEF CacheInv, Good, Deep, Valid
<1> QED
  BY <1>2, <1>3, Zenon DEF CacheCoherent

LEMMA CacheInvInit == Init => CacheInv
<1> SUFFICES ASSUME Init PROVE CacheInv
  OBVIOUS
<1>1. /\ entries \in [Key -> Oid \cup {None}]
      /\ cache \in [Dir -> Node]
      /\ Closed(cache)
      /\ \A d \in Dir : cache[d].kind # "valid"
  BY Zenon DEF Init, Node, Absent, NoTree, Closed
<1>2. Good(index)
  BY <1>1, Zenon DEF Good, Deep, index
<1> QED
  BY <1>2, Zenon DEF CacheInv, TreeIsIndex, CacheAsIfFresh, Init

LEMMA CacheInvStep == CacheInv /\ [Next]_vars => CacheInv'
<1> SUFFICES ASSUME CacheInv, [Next]_vars PROVE CacheInv'
  OBVIOUS
<1>1. ASSUME NEW idx, Good(idx), Update(idx, {}) PROVE CacheInv'
  <2>1. index' = idx
    BY <1>1, Zenon DEF index, Update, Good
  <2>2. synced' = {}
    BY <1>1, Zenon DEF Update
  <2> QED
    BY <1>1, <2>1, <2>2, Zenon DEF CacheInv, TreeIsIndex, CacheAsIfFresh
<1>2. Good(index)
  BY Zenon DEF CacheInv
<1>3. CASE Add
  BY <1>1, <1>2, <1>3, AddGood, Zenon DEF Add
<1>4. CASE Conflict
  <2>1. ConflictStage \subseteq Stage
    BY IndexAssumption, Zenon DEF Stage, Unmerged
  <2> QED
    BY <1>1, <1>2, <1>4, <2>1, AddConflictedGood, Zenon DEF Conflict
<1>5. CASE Remove
  <2>1. \A path \in Path : {path} \X Stage \in SUBSET Key
    BY Zenon DEF Key
  <2> QED
    BY <1>1, <1>2, <1>5, <2>1, RemoveGood, Zenon DEF Remove
<1>6. CASE RemoveDir
  <2>1. \A dir \in Dir : {key \in Key : dir \in Parents(key[1]) /\ key[2] = "NONE"} \in SUBSET Key
    OBVIOUS
  <2> QED
    BY <1>1, <1>2, <1>6, <2>1, RemoveGood, Zenon DEF RemoveDir, RemoveDirectory
<1>7. CASE WriteTree
  <2> DEFINE t == BuildTree(index)
  <2>1. /\ entries' = entries
        /\ cache' = UpdateCacheTree(cache, t)
        /\ synced' = {t}
        /\ ~HasConflicts(index)
    BY <1>7, Zenon DEF WriteTree, Update, index
  <2> HIDE DEF t
  <2>2. EntriesTree(index') = EntriesTree(index) /\ ~HasConflicts(index')
    BY <2>1, Zenon DEF EntriesTree, HasConflicts, Has, index
  <2>3. t = EntriesTree(index)
    BY <1>2, BuildTreeIsIndex, Zenon DEF t
  <2>4. cache' = ReadCacheTree(t)
    BY <2>1, <2>3, <1>2, UpdateIsFresh, Zenon DEF index
  <2>5. index' = [entries |-> entries, cache |-> ReadCacheTree(t)]
    BY <2>1, <2>4, Zenon DEF index
  <2>6. entries \in [Key -> Oid \cup {None}]
    BY <1>2, Zenon DEF Good, index
  <2>7. Good(index')
    BY <2>3, <2>5, <2>6, <2>2, FreshIsGood, Zenon
  <2>8. TreeIsIndex'
    BY <2>1, <2>2, <2>3, Zenon DEF TreeIsIndex
  <2> QED
    BY <2>4, <2>7, <2>8, <2>1, Zenon DEF CacheInv, CacheAsIfFresh
<1>8. CASE UNCHANGED vars
  BY <1>8, Zenon DEF vars, CacheInv, TreeIsIndex, CacheAsIfFresh, index
<1> QED
  BY <1>3, <1>4, <1>5, <1>6, <1>7, <1>8, Zenon DEF Next

\* Whatever is added, put in conflict, removed and written in whatever order,
\* the nodes of the tree cache form a tree, a valid node describes exactly the
\* entries beneath it, and write_tree leaves the cache a fresh read would give
\* (tree_cache.rs:78-90, 120-170).
THEOREM CacheSafety == Spec => [](TypeOK /\ CacheCoherent /\ CacheAsIfFresh)
<1>1. CacheInv => TypeOK /\ CacheCoherent /\ CacheAsIfFresh
  BY CacheInvImplies, Zenon
<1>2. Init => CacheInv
  BY CacheInvInit, Zenon
<1>3. CacheInv /\ [Next]_vars => CacheInv'
  BY CacheInvStep, Zenon
<1> QED
  BY <1>1, <1>2, <1>3, PTL DEF Spec

\* The cache that update makes, with children stolen from the old one, is the
\* cache a fresh read of the tree gives (the assertion at tree_cache.rs:143-151).
COROLLARY StolenIsFresh == Spec => []CacheAsIfFresh
BY CacheSafety, PTL

\* The tree write_tree builds by stepping over every directory the cache has a
\* tree for is the tree of all the entries: no entry is skipped with a directory
\* that no longer holds it, and none is written twice
\* (index_tree_iter.rs:32-46, tree_iter.rs:95-177).
THEOREM TreesAreIndex == Spec => []TreeIsIndex
<1>1. CacheInv => TreeIsIndex
  BY Zenon DEF CacheInv
<1>2. Init => CacheInv
  BY CacheInvInit, Zenon
<1>3. CacheInv /\ [Next]_vars => CacheInv'
  BY CacheInvStep, Zenon
<1> QED
  BY <1>1, <1>2, <1>3, PTL DEF Spec

\* A path merged and in conflict at once is impossible in an index of which
\* only the entries are known to be well typed.
StageInv ==
    /\ entries \in [Key -> Oid \cup {None}]
    /\ MergedOrConflicted

Fewer(old, new) ==
    /\ new \in [Key -> Oid \cup {None}]
    /\ \A key \in Key : new[key] = None \/ new[key] = old[key]

\* Removing entries leaves the others as they were.
LEMMA RemoveOnly ==
    ASSUME NEW idx, idx.entries \in [Key -> Oid \cup {None}], NEW keys
    PROVE  /\ Fewer(idx.entries, RemoveEntries(idx, keys).entries)
           /\ \A key \in Key \cap keys : RemoveEntries(idx, keys).entries[key] = None
BY Zenon DEF RemoveEntries, Has, Fewer

LEMMA CollisionsOnly ==
    ASSUME NEW idx, idx.entries \in [Key -> Oid \cup {None}], NEW path
    PROVE  Fewer(idx.entries, RemoveCollisions(idx, path).entries)
<1> DEFINE i == RemoveFileDirCollisions(idx, path)
           k == RemoveDirectory(i, path)
           j == RemoveCollisions(idx, path)
<1>1. Fewer(idx.entries, i.entries)
  <2> DEFINE keys == (CumulativeComponents(path) \cap Path) \X {"NONE"}
  <2>1. i = RemoveEntries(idx, keys)
    BY Zenon DEF RemoveFileDirCollisions
  <2> HIDE DEF keys, i
  <2> QED
    BY <2>1, RemoveOnly, Zenon
<1> HIDE DEF i
<1>2. Fewer(i.entries, k.entries)
  <2> DEFINE keys == {key \in Key : path \in Parents(key[1]) /\ key[2] = "NONE"}
  <2>1. k = RemoveEntries(i, keys)
    BY Zenon DEF RemoveDirectory
  <2>2. i.entries \in [Key -> Oid \cup {None}]
    BY <1>1, Zenon DEF Fewer
  <2> HIDE DEF keys, k
  <2> QED
    BY <2>1, <2>2, RemoveOnly, Zenon
<1>3. j = k \/ j = i
  BY Zenon DEF RemoveCollisions, RemoveDirFileCollisions, i
<1> QED
  BY <1>1, <1>2, <1>3, Zenon DEF Fewer

LEMMA StageInvStep == StageInv /\ [Next]_vars => StageInv'
<1> SUFFICES ASSUME StageInv, [Next]_vars PROVE StageInv'
  OBVIOUS
<1>0. index.entries = entries /\ index.entries \in [Key -> Oid \cup {None}]
  BY Zenon DEF index, StageInv
<1>1. ASSUME NEW keys, entries' = RemoveEntries(index, keys).entries
      PROVE  StageInv'
  <2>1. Fewer(entries, entries')
    BY <1>0, <1>1, RemoveOnly, Zenon
  <2> QED
    BY <2>1, Zenon DEF Fewer, StageInv, MergedOrConflicted, Key, Stage
<1>2. CASE Add
  <2>1. PICK path \in Path, oid \in Oid : entries' = AddEntry(index, path, oid).entries
    BY <1>2, Zenon DEF Add, Update
  <2> DEFINE i == RemoveConflicted(index, path)
             j == RemoveCollisions(i, path)
  <2>2. /\ Fewer(entries, i.entries)
        /\ \A stage \in Unmerged : i.entries[<<path, stage>>] = None
    <3> DEFINE keys == {path} \X Unmerged
    <3>1. i = RemoveEntries(index, keys)
      BY Zenon DEF RemoveConflicted
    <3>2. \A stage \in Unmerged : <<path, stage>> \in Key \cap keys
      BY Zenon DEF Key, Stage
    <3> HIDE DEF keys, i
    <3> QED
      BY <1>0, <3>1, <3>2, RemoveOnly, Zenon
  <2> HIDE DEF i
  <2>3. Fewer(i.entries, j.entries)
    BY <2>2, CollisionsOnly, Zenon DEF Fewer
  <2>4. entries' = [j.entries EXCEPT ![<<path, "NONE">>] = oid]
    BY <2>1, Zenon DEF AddEntry, AddEntryCommon, InsertEntry, i
  <2> HIDE DEF j
  <2> QED
    BY <2>2, <2>3, <2>4, Zenon DEF Fewer, StageInv, MergedOrConflicted, Key, Stage, Unmerged
<1>3. CASE Conflict
  <2>1. PICK path \in Path, oid \in Oid, stage \in Unmerged :
           entries' = AddConflictedEntry(index, path, stage, oid).entries
    BY <1>3, IndexAssumption, Zenon DEF Conflict, Update, Unmerged
  <2> DEFINE i == RemoveEntries(index, {<<path, "NONE">>})
             j == RemoveCollisions(i, path)
  <2>2. Fewer(entries, i.entries) /\ i.entries[<<path, "NONE">>] = None
    <3> DEFINE keys == {<<path, "NONE">>}
    <3>1. i = RemoveEntries(index, keys) /\ <<path, "NONE">> \in Key \cap keys
      BY Zenon DEF Key, Stage
    <3> HIDE DEF keys, i
    <3> QED
      BY <1>0, <3>1, RemoveOnly, Zenon
  <2> HIDE DEF i
  <2>3. Fewer(i.entries, j.entries)
    BY <2>2, CollisionsOnly, Zenon DEF Fewer
  <2>4. entries' = [j.entries EXCEPT ![<<path, stage>>] = oid]
    BY <2>1, Zenon DEF AddConflictedEntry, AddEntryCommon, InsertEntry, i
  <2> HIDE DEF j
  <2> QED
    BY <2>2, <2>3, <2>4, Zenon DEF Fewer, StageInv, MergedOrConflicted, Key, Stage, Unmerged
<1>4. CASE Remove
  BY <1>1, <1>4, Zenon DEF Remove, Update
<1>5. CASE RemoveDir
  BY <1>1, <1>5, Zenon DEF RemoveDir, RemoveDirectory, Update
<1>6. CASE WriteTree \/ UNCHANGED vars
  BY <1>6, Zenon DEF WriteTree, Update, index, vars, StageInv, MergedOrConflicted
<1> QED
  BY <1>2, <1>3, <1>4, <1>5, <1>6, Zenon DEF Next

\* No sequence of operations leaves a path both merged and in conflict
\* (index.rs:143-160), so write_tree never writes one side of a conflict.
THEOREM StageSafety == Spec => []MergedOrConflicted
<1>1. Init => StageInv
  BY Zenon DEF Init, StageInv, MergedOrConflicted, Key, Stage
<1>2. StageInv /\ [Next]_vars => StageInv'
  BY StageInvStep, Zenon
<1>3. StageInv => MergedOrConflicted
  BY Zenon DEF StageInv
<1> QED
  BY <1>1, <1>2, <1>3, PTL DEF Spec
=============================================================================
