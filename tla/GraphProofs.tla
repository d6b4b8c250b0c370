----------------------------- MODULE GraphProofs -----------------------------
(****************************************************************************)
(* What the proofs about walks over a history rest on: the least element of *)
(* a set of numbers, the node that the priority queue pops, the shape of a  *)
(* history, and what Reachable is.                                          *)
(****************************************************************************)
EXTENDS CommitGraph, WellFoundedInduction, TLAPS

-----------------------------------------------------------------------------
(* A set of numbers has a least one *)

NatLess == OpToRel(<, Nat)

\* The library's fact, for a name that hides the operator.
LEMMA NatLessWellFounded == IsWellFoundedOn(NatLess, Nat)
BY NatLessThanWellFounded, Zenon DEF NatLess

\* What the relation holds.
LEMMA NatLessPairs == \A x, y \in Nat : <<y, x>> \in NatLess <=> y < x
BY Zenon DEF NatLess, OpToRel

\* A nonempty set of natural numbers has a least element.
LEMMA NatMin ==
    ASSUME NEW S \in SUBSET Nat, S # {}
    PROVE  \E x \in S : \A y \in S : x <= y
<1>1. \E x \in S : \A y \in S : ~(<<y, x>> \in NatLess)
  BY NatLessWellFounded, WFMin, Zenon
<1>2. PICK x \in S : \A y \in S : ~(<<y, x>> \in NatLess)
  BY <1>1, Zenon
<1>3. \A y \in S : ~(y < x)
  BY <1>2, NatLessPairs, Zenon
<1> QED
  BY <1>3, SMT

-----------------------------------------------------------------------------
(* The priority queue *)

\* Times are numbers, and so is what is left of a time until the last one.
LEMMA TimeFacts ==
    /\ \A x \in Time : x \in Nat /\ MaxTime - x \in Nat
    /\ \A x, y \in Time : MaxTime - x <= MaxTime - y => y <= x
<1>1. MaxTime \in Nat
  BY GraphAssumption, Zenon
<1> QED BY <1>1 DEF Time

\* The order of CommitNode has a greatest element in every nonempty queue with
\* unique indices, so pop returns a node of the queue and none has a later
\* timestamp.
LEMMA PopLemma ==
    ASSUME NEW Q \in SUBSET [commit : Commit, index : Nat], Q # {}, NEW t \in [Commit -> Time],
           \A m, n \in Q : m # n => m.index # n.index
    PROVE  /\ Pop(Q, t) \in Q
           /\ \A n \in Q : t[n.commit] <= t[Pop(Q, t).commit]
<1>a. \A n \in Q : n.commit \in Commit /\ n.index \in Nat
  OBVIOUS
<1>b. \A c \in Commit : t[c] \in Time
  OBVIOUS
<1>1. \A n \in Q : t[n.commit] \in Nat /\ MaxTime - t[n.commit] \in Nat
  <2> TAKE n \in Q
  <2>1. t[n.commit] \in Time
    BY <1>a, <1>b, Zenon
  <2> QED BY <2>1, TimeFacts, Zenon
<1> DEFINE Ages == {MaxTime - t[n.commit] : n \in Q}
<1>2. Ages \in SUBSET Nat /\ Ages # {}
  <2>1. \A x \in Ages : x \in Nat
    BY <1>1, Zenon
  <2>2. \E n \in Q : TRUE
    OBVIOUS
  <2>3. \E x : x \in Ages
    BY <2>2, Zenon
  <2> HIDE DEF Ages
  <2> QED BY <2>1, <2>3, Zenon
<1>3. PICK age \in Ages : \A x \in Ages : age <= x
  <2> HIDE DEF Ages
  <2> QED BY <1>2, NatMin, Zenon
<1>4. PICK late \in Q : age = MaxTime - t[late.commit]
  OBVIOUS
<1>5. \A n \in Q : t[n.commit] <= t[late.commit]
  <2> TAKE n \in Q
  <2>1. MaxTime - t[n.commit] \in Ages
    OBVIOUS
  <2>2. age <= MaxTime - t[n.commit]
    BY <1>3, <2>1, Zenon
  <2>3. t[n.commit] \in Time /\ t[late.commit] \in Time
    BY <1>a, <1>b, Zenon
  <2> QED BY <2>2, <2>3, <1>4, TimeFacts, Zenon
<1> DEFINE Ties == {n \in Q : t[n.commit] = t[late.commit]}
<1> DEFINE Places == {n.index : n \in Ties}
<1>6. Places \in SUBSET Nat /\ Places # {}
  <2>1. \A x \in Places : x \in Nat
    BY <1>a, Zenon
  <2>2. late.index \in Places
    OBVIOUS
  <2> HIDE DEF Places
  <2> QED BY <2>1, <2>2, Zenon
<1>7. PICK place \in Places : \A x \in Places : place <= x
  <2> HIDE DEF Places
  <2> QED BY <1>6, NatMin, Zenon
<1>8. PICK top \in Ties : top.index = place
  OBVIOUS
<1>9. \A other \in Q \ {top} : \/ t[other.commit] < t[top.commit]
                               \/ t[other.commit] = t[top.commit] /\ top.index < other.index
  <2> SUFFICES ASSUME NEW other \in Q \ {top}
               PROVE  \/ t[other.commit] < t[top.commit]
                      \/ t[other.commit] = t[top.commit] /\ top.index < other.index
    OBVIOUS
  <2>1. other.index # top.index
    OBVIOUS
  <2>2. CASE other \in Ties
    <3>1. other.index \in Places
      BY <2>2, Zenon
    <3>2. top.index <= other.index
      BY <3>1, <1>7, <1>8, Zenon
    <3>3. top.index \in Nat /\ other.index \in Nat
      BY <1>a, Zenon
    <3> QED BY <2>1, <2>2, <3>2, <3>3, <1>8
  <2>3. CASE other \notin Ties
    BY <2>3, <1>1, <1>5, <1>8
  <2> QED BY <2>2, <2>3, Zenon
<1> DEFINE First(node) == \A other \in Q \ {node} :
                              \/ t[other.commit] < t[node.commit]
                              \/ t[other.commit] = t[node.commit] /\ node.index < other.index
<1>10. Pop(Q, t) = CHOOSE node \in Q : First(node)
  BY Zenon DEF Pop
<1>11. top \in Q /\ First(top)
  BY <1>8, <1>9, Zenon
<1>12. Pop(Q, t) \in Q /\ First(Pop(Q, t))
  <2> HIDE DEF First
  <2> QED BY <1>10, <1>11, Zenon
<1>13. ASSUME NEW n \in Q
       PROVE  t[n.commit] <= t[Pop(Q, t).commit]
  <2>1. CASE n = Pop(Q, t)
    BY <2>1, <1>1, <1>12
  <2>2. CASE n # Pop(Q, t)
    BY <2>2, <1>1, <1>12
  <2> QED BY <2>1, <2>2, Zenon
<1> QED
  BY <1>12, <1>13, Zenon

-----------------------------------------------------------------------------
(* Histories *)

\* Every commit of the list of parents is a commit, and none is twice in it.
LEMMA ParentListsType ==
    ASSUME NEW c \in Commit, NEW ps \in ParentLists(c)
    PROVE  /\ ps \in Seq(Commit)
           /\ \A i, j \in DOMAIN ps : i # j => ps[i] # ps[j]
<1>0. N \in Nat
  BY GraphAssumption, Zenon
<1>1. \A p \in 1..(c - 1) : p \in Commit
  BY <1>0 DEF Commit
<1>2. CASE ps = <<>>
  BY <1>2
<1>3. CASE \E p \in 1..(c - 1) : ps = <<p>>
  <2>1. PICK p \in 1..(c - 1) : ps = <<p>>
    BY <1>3, Zenon
  <2>2. p \in Commit
    BY <1>1, Zenon
  <2>3. \A i \in DOMAIN ps : i = 1
    BY <2>1
  <2> QED BY <2>1, <2>2, <2>3
<1>4. CASE ps \in {pq \in (1..(c - 1)) \X (1..(c - 1)) : pq[1] # pq[2]}
  <2>1. PICK p, q \in 1..(c - 1) : ps = <<p, q>>
    BY <1>4
  <2>2. p # q /\ p \in Commit /\ q \in Commit
    BY <1>1, <1>4, <2>1, Zenon
  <2> QED BY <2>1, <2>2
<1> QED BY <1>2, <1>3, <1>4, Zenon DEF ParentLists

\* A commit's parents have smaller numbers.
LEMMA ParentsAreOlder ==
    ASSUME NEW h \in History, NEW c \in Commit, NEW p \in Range(h[c])
    PROVE  p \in Commit /\ p \in 1..(c - 1) /\ p < c
<1>0. N \in Nat /\ c \in 1..N
  BY GraphAssumption, Zenon DEF Commit
<1>1. h[c] \in ParentLists(c)
  BY Zenon DEF History
<1>2. PICK i \in DOMAIN h[c] : p = h[c][i]
  BY Zenon DEF Range
<1>3. \A k \in DOMAIN h[c] : h[c][k] \in 1..(c - 1)
  <2>1. CASE h[c] = <<>>
    BY <2>1
  <2>2. CASE \E q \in 1..(c - 1) : h[c] = <<q>>
    BY <2>2
  <2>3. CASE h[c] \in {pq \in (1..(c - 1)) \X (1..(c - 1)) : pq[1] # pq[2]}
    BY <2>3
  <2> QED BY <1>1, <2>1, <2>2, <2>3, Zenon DEF ParentLists
<1>4. p \in 1..(c - 1)
  BY <1>2, <1>3, Zenon
<1> QED BY <1>0, <1>4 DEF Commit

\* A history gives every commit a list of parents without repetitions.
LEMMA HistoryLists ==
    ASSUME NEW h \in History
    PROVE  /\ h \in [Commit -> Seq(Commit)]
           /\ \A c \in Commit : \A i, j \in DOMAIN h[c] : i # j => h[c][i] # h[c][j]
           /\ \A c \in Commit : Range(h[c]) \subseteq Commit
<1>1. \A c \in Commit : h[c] \in ParentLists(c)
  BY Zenon DEF History
<1>2. h = [c \in Commit |-> h[c]]
  BY Zenon DEF History
<1>3. \A c \in Commit : h[c] \in Seq(Commit)
  BY <1>1, ParentListsType, Zenon
<1>4. h \in [Commit -> Seq(Commit)]
  BY <1>2, <1>3, Zenon
<1>5. \A c \in Commit : \A i, j \in DOMAIN h[c] : i # j => h[c][i] # h[c][j]
  BY <1>1, ParentListsType, Zenon
<1>6. \A c \in Commit : Range(h[c]) \subseteq Commit
  BY <1>3 DEF Range
<1> QED BY <1>4, <1>5, <1>6, Zenon

-----------------------------------------------------------------------------
(* What can be reached *)

\* The recursive definition has a solution: one for the first n commits extends
\* to the next, whose parents are among them.
LEMMA ReachableExists ==
    ASSUME NEW h \in History
    PROVE  \E f : f = [c \in Commit |-> {c} \cup UNION {f[p] : p \in Range(h[c])}]
<1> DEFINE Good(n) == \E f : f = [c \in 1..n |-> {c} \cup UNION {f[p] : p \in Range(h[c])}]
<1> DEFINE Bad == {n \in 0..N : ~Good(n)}
<1>0. N \in Nat /\ Commit = 1..N
  BY GraphAssumption, Zenon DEF Commit
<1>1. SUFFICES Bad = {}
  <2>1. Good(N)
    <3>1. N \in 0..N
      BY <1>0
    <3> HIDE DEF Good
    <3> QED BY <1>1, <3>1, Zenon
  <2> QED BY <2>1, <1>0, Zenon
<1>2. SUFFICES ASSUME Bad # {} PROVE FALSE
  OBVIOUS
<1>3. Bad \in SUBSET Nat
  <2> HIDE DEF Good
  <2> QED BY <1>0
<1>4. PICK m \in Bad : \A n \in Bad : m <= n
  <2> HIDE DEF Bad
  <2> QED BY <1>2, <1>3, NatMin, Zenon
<1>5. m \in Nat /\ m <= N /\ ~Good(m)
  <2> HIDE DEF Good
  <2> QED BY <1>0
<1>6. CASE m = 0
  <2> DEFINE e == [c \in 1..0 |-> {}]
  <2>1. \A x : x \notin 1..0
    OBVIOUS
  <2>2. e = [c \in 1..0 |-> {c} \cup UNION {e[p] : p \in Range(h[c])}]
    BY <2>1, Zenon
  <2>3. Good(0)
    BY <2>2, Zenon
  <2> HIDE DEF Good
  <2> QED BY <2>3, <1>5, <1>6, Zenon
<1>7. CASE m # 0
  <2>1. m - 1 \in Nat /\ m - 1 \in 0..N /\ m - 1 < m /\ m - 1 \notin Bad
    <3>1. m - 1 \in Nat /\ m - 1 \in 0..N /\ m - 1 < m
      BY <1>0, <1>5, <1>7
    <3> HIDE DEF Bad
    <3> QED BY <3>1, <1>3, <1>4, <1>5
  <2>2. Good(m - 1)
    <3> HIDE DEF Good
    <3> QED BY <2>1, Zenon
  <2>3. PICK f : f = [c \in 1..(m - 1) |-> {c} \cup UNION {f[p] : p \in Range(h[c])}]
    BY <2>2, Zenon
  <2> DEFINE g == [c \in 1..m |-> {c} \cup UNION {f[p] : p \in Range(h[c])}]
  <2>4. \A c \in 1..m : \A p \in Range(h[c]) : p \in 1..(m - 1)
    <3> TAKE c \in 1..m
    <3> TAKE p \in Range(h[c])
    <3>1. c \in Commit
      BY <1>0, <1>5
    <3>2. p \in 1..(c - 1)
      BY <3>1, ParentsAreOlder, Zenon
    <3> QED BY <3>2, <1>5
  <2>5. \A p \in 1..(m - 1) : p \in 1..m
    BY <1>5
  <2>6. \A p \in 1..(m - 1) : f[p] = {p} \cup UNION {f[q] : q \in Range(h[p])}
    BY <2>3, Zenon
  <2>7. \A p \in 1..(m - 1) : g[p] = f[p]
    BY <2>5, <2>6, Zenon
  <2>8. \A c \in 1..m : {f[p] : p \in Range(h[c])} = {g[p] : p \in Range(h[c])}
    <3> HIDE DEF g
    <3> QED BY <2>4, <2>7, Zenon
  <2>9. g = [c \in 1..m |-> {c} \cup UNION {g[p] : p \in Range(h[c])}]
    BY <2>8, Zenon
  <2>10. Good(m)
    BY <2>9, Zenon
  <2> HIDE DEF Good
  <2> QED BY <2>10, <1>5, Zenon
<1> QED BY <1>6, <1>7, Zenon

\* Reachable is what its definition says: a commit, and what its parents reach.
LEMMA ReachableUnfolds ==
    ASSUME NEW h \in History, NEW c \in Commit
    PROVE  Reachable(h)[c] = {c} \cup UNION {Reachable(h)[p] : p \in Range(h[c])}
<1> DEFINE Solves(f) == f = [x \in Commit |-> {x} \cup UNION {f[p] : p \in Range(h[x])}]
<1>1. Reachable(h) = CHOOSE f : Solves(f)
  BY Zenon DEF Reachable
<1>2. \E f : Solves(f)
  BY ReachableExists, Zenon
<1>3. Solves(Reachable(h))
  <2> HIDE DEF Solves
  <2> QED BY <1>1, <1>2, Zenon
<1> QED BY <1>3, Zenon

\* A set of commits that holds every parent of its commits.
Closed(h, S) == \A c \in S : Range(h[c]) \subseteq S

\* A commit reaches itself and only commits, and what it reaches holds every
\* parent of its commits.
LEMMA ReachableClosed ==
    ASSUME NEW h \in History, NEW c \in Commit
    PROVE  /\ c \in Reachable(h)[c]
           /\ Reachable(h)[c] \subseteq Commit
           /\ Closed(h, Reachable(h)[c])
<1> DEFINE R == Reachable(h)
<1> DEFINE Good(x) == R[x] \subseteq Commit /\ Closed(h, R[x])
<1> DEFINE Bad == {x \in Commit : ~Good(x)}
<1>0. \A x \in Commit : R[x] = {x} \cup UNION {R[p] : p \in Range(h[x])}
  BY ReachableUnfolds, Zenon
<1>1. \A x \in Commit : x \in R[x] /\ \A p \in Range(h[x]) : R[p] \subseteq R[x]
  BY <1>0
<1> HIDE DEF R
<1>2. Bad = {}
  <2> SUFFICES ASSUME Bad # {} PROVE FALSE
    OBVIOUS
  <2>1. Bad \in SUBSET Nat
    BY GraphAssumption DEF Commit
  <2>2. PICK m \in Bad : \A n \in Bad : m <= n
    <3> HIDE DEF Bad
    <3> QED BY <2>1, NatMin, Zenon
  <2>3. m \in Commit /\ m \in Nat /\ ~Good(m)
    BY <2>1, <2>2, Zenon
  <2>4. \A p \in Range(h[m]) : p \in Commit /\ Good(p)
    <3> TAKE p \in Range(h[m])
    <3>1. p \in Commit /\ p \in 1..(m - 1) /\ p < m
      BY <2>3, ParentsAreOlder, Zenon
    <3>2. p \notin Bad
      <4> HIDE DEF Bad
      <4> QED BY <3>1, <2>2, <2>3
    <3> HIDE DEF Good
    <3> QED BY <3>1, <3>2, Zenon
  <2>5. R[m] \subseteq Commit
    BY <1>0, <2>3, <2>4
  <2>6. ASSUME NEW x \in R[m] PROVE Range(h[x]) \subseteq R[m]
    <3>1. CASE x = m
      <4> SUFFICES ASSUME NEW p \in Range(h[m]) PROVE p \in R[m]
        BY <3>1, Zenon
      <4>1. p \in R[p] /\ R[p] \subseteq R[m]
        BY <1>1, <2>3, <2>4, Zenon
      <4> QED BY <4>1, Zenon
    <3>2. CASE \E p \in Range(h[m]) : x \in R[p]
      <4>1. PICK p \in Range(h[m]) : x \in R[p]
        BY <3>2, Zenon
      <4>2. Range(h[x]) \subseteq R[p] /\ R[p] \subseteq R[m]
        BY <4>1, <1>1, <2>3, <2>4, Zenon DEF Closed
      <4> QED BY <4>2, Zenon
    <3> QED BY <1>0, <2>3, <3>1, <3>2
  <2>7. Closed(h, R[m])
    BY <2>6, Zenon DEF Closed
  <2> QED BY <2>3, <2>5, <2>7, Zenon
<1>3. Good(c)
  <2> HIDE DEF Good
  <2> QED BY <1>2, Zenon
<1> QED BY <1>1, <1>3, Zenon DEF R

\* What a commit reaches is the least such set.
LEMMA ReachableLeast ==
    ASSUME NEW h \in History, NEW S, Closed(h, S), NEW c \in Commit, c \in S
    PROVE  Reachable(h)[c] \subseteq S
<1> DEFINE R == Reachable(h)
<1> DEFINE Bad == {x \in Commit : x \in S /\ ~(R[x] \subseteq S)}
<1>0. \A x \in Commit : R[x] = {x} \cup UNION {R[p] : p \in Range(h[x])}
  BY ReachableUnfolds, Zenon
<1> HIDE DEF R
<1>1. SUFFICES ASSUME Bad # {} PROVE FALSE
  BY Zenon DEF R
<1>2. Bad \in SUBSET Nat
  BY GraphAssumption DEF Commit
<1>3. PICK m \in Bad : \A n \in Bad : m <= n
  <2> HIDE DEF Bad
  <2> QED BY <1>1, <1>2, NatMin, Zenon
<1>4. m \in Commit /\ m \in Nat /\ m \in S /\ ~(R[m] \subseteq S)
  BY <1>2, <1>3, Zenon
<1>5. \A p \in Range(h[m]) : R[p] \subseteq S
  <2> TAKE p \in Range(h[m])
  <2>1. p \in Commit /\ p \in 1..(m - 1) /\ p < m
    BY <1>4, ParentsAreOlder, Zenon
  <2>2. p \notin Bad
    <3> HIDE DEF Bad
    <3> QED BY <2>1, <1>3, <1>4
  <2>3. p \in S
    BY <1>4, Zenon DEF Closed
  <2> QED BY <2>1, <2>2, <2>3, Zenon
<1>6. R[m] \subseteq S
  BY <1>0, <1>4, <1>5
<1> QED BY <1>4, <1>6, Zenon

\* Reaching is transitive; a commit other than the first is reached through one
\* of its parents, has a smaller number, and is earlier if every commit is later
\* than its parents.
LEMMA ReachableOrder ==
    ASSUME NEW h \in History, NEW c \in Commit, NEW d \in Reachable(h)[c]
    PROVE  /\ d \in Commit
           /\ Reachable(h)[d] \subseteq Reachable(h)[c]
           /\ d # c => d < c /\ \E p \in Range(h[c]) : d \in Reachable(h)[p]
<1>1. d \in Commit /\ Closed(h, Reachable(h)[c])
  BY ReachableClosed, Zenon
<1>2. Reachable(h)[d] \subseteq Reachable(h)[c]
  BY <1>1, ReachableLeast, Zenon
<1>3. Commit \subseteq Nat
  BY GraphAssumption DEF Commit
<1>4. ASSUME d # c PROVE \E p \in Range(h[c]) : d \in Reachable(h)[p]
  BY <1>4, ReachableUnfolds
<1>5. ASSUME d # c PROVE d < c
  <2>1. PICK p \in Range(h[c]) : d \in Reachable(h)[p]
    BY <1>4, <1>5, Zenon
  <2> DEFINE S == {x \in Commit : x <= p}
  <2>2. p \in Commit /\ p < c
    BY ParentsAreOlder, Zenon
  <2>3. p \in S
    BY <1>3, <2>2
  <2>4. Closed(h, S)
    <3> SUFFICES ASSUME NEW x \in S, NEW q \in Range(h[x]) PROVE q \in S
      BY Zenon DEF Closed
    <3>1. x \in Commit /\ x <= p /\ q \in Commit /\ q < x
      BY ParentsAreOlder, Zenon
    <3> QED BY <3>1, <1>3, <2>2
  <2>5. Reachable(h)[p] \subseteq S
    <3> HIDE DEF S
    <3> QED BY <2>2, <2>3, <2>4, ReachableLeast, Zenon
  <2>6. d \in Commit /\ d <= p
    BY <2>1, <2>5, Zenon
  <2>7. d \in Nat /\ p \in Nat /\ c \in Nat
    BY <1>3, <2>2, <2>6, Zenon
  <2> QED BY <2>2, <2>6, <2>7
<1> QED BY <1>1, <1>2, <1>4, <1>5, Zenon

\* If every commit is later than its parents, a commit is later than everything
\* it reaches.
LEMMA ReachableIsEarlier ==
    ASSUME NEW h \in History, NEW t \in [Commit -> Time], Later(h, t),
           NEW c \in Commit, NEW d \in Reachable(h)[c]
    PROVE  /\ t[d] \in Nat /\ t[c] \in Nat
           /\ t[d] <= t[c]
           /\ d # c => t[d] < t[c]
<1>1. \A x \in Commit : t[x] \in Nat
  <2>1. \A x \in Commit : t[x] \in Time
    OBVIOUS
  <2> QED BY <2>1, TimeFacts, Zenon
<1>2. \A x \in Commit : \A q \in Range(h[x]) : q \in Commit /\ t[q] < t[x]
  BY ParentsAreOlder, Zenon DEF Later
<1>3. ASSUME NEW e \in Commit PROVE \A x \in Reachable(h)[e] : x \in Commit /\ t[x] <= t[e]
  <2> DEFINE S == {x \in Commit : t[x] <= t[e]}
  <2>1. e \in S
    BY <1>1
  <2>2. Closed(h, S)
    <3> SUFFICES ASSUME NEW x \in S, NEW q \in Range(h[x]) PROVE q \in S
      BY Zenon DEF Closed
    <3>1. x \in Commit /\ t[x] <= t[e] /\ q \in Commit /\ t[q] < t[x]
      BY <1>2, Zenon
    <3> QED BY <3>1, <1>1
  <2>3. Reachable(h)[e] \subseteq S
    <3> HIDE DEF S
    <3> QED BY <2>1, <2>2, ReachableLeast, Zenon
  <2> QED BY <2>3, Zenon
<1>4. ASSUME d # c PROVE t[d] < t[c]
  <2>1. PICK p \in Range(h[c]) : d \in Reachable(h)[p]
    BY <1>4, ReachableOrder, Zenon
  <2>2. p \in Commit /\ t[p] < t[c]
    BY <1>2, Zenon
  <2>3. d \in Commit /\ t[d] <= t[p]
    BY <1>3, <2>1, <2>2, Zenon
  <2> QED BY <1>1, <2>2, <2>3
<1> QED BY <1>1, <1>3, <1>4, Zenon

=============================================================================
