---------------------------- MODULE WalkProofs ----------------------------
(****************************************************************************)
(* For every history, every list of roots and of excluded commits: a walk   *)
(* yields no commit twice and misses none; when every commit is later than  *)
(* its parents it yields children before their parents; and it implements   *)
(* Listing.  For every history and every two commits: the flags of the      *)
(* merge base computation (Bases) tell the truth, and when its loop stops   *)
(* it has found every best common ancestor, and only those if every commit  *)
(* is later than its parents.                                               *)
(****************************************************************************)
EXTENDS RevWalk, GraphProofs

-----------------------------------------------------------------------------
(* The inductive invariant *)

\* The history: lists of parents without repetitions, and times.
HistoryOK ==
    /\ parents \in History
    /\ parents \in [Commit -> Seq(Commit)]
    /\ \A c \in Commit : \A i, j \in DOMAIN parents[c] : i # j => parents[c][i] # parents[c][j]
    /\ time \in [Commit -> Time]

\* A commit in the queue was enqueued once and not taken out; a commit that was
\* taken out was enqueued, so that it never comes back.
QueueOK ==
    /\ \A n \in pqueue : n.index <= index /\ n.commit \in enqueued \ yielded
    /\ \A m, n \in pqueue : m # n => m.commit # n.commit
    /\ yielded \subseteq enqueued
    /\ \A i \in 1..Len(out) : out[i] \in yielded

WalkInv == HistoryOK /\ TypeOK /\ QueueOK /\ EachOnce

\* A history that the walk starts with is well formed.
LEMMA HistoryType == Init => HistoryOK
BY HistoryLists, Zenon DEF Init, HistoryOK

\* RevWalkBuilder::build establishes the invariant.
LEMMA InitWalkInv == Init => WalkInv
<1> SUFFICES ASSUME Init PROVE WalkInv
  OBVIOUS
<1>1. HistoryOK
  BY HistoryType, Zenon
<1> DEFINE given == exclude \o roots
<1> DEFINE first == {i \in DOMAIN given : \A j \in 1..(i - 1) : given[j] # given[i]}
<1>2. exclude \in Seq(Commit) /\ roots \in Seq(Commit)
  BY RevWalkAssumption DEF Init, Lists
<1>3. given \in Seq(Commit) /\ Len(given) \in Nat /\ DOMAIN given = 1..Len(given)
  BY <1>2
<1>4. /\ pqueue = {[commit |-> given[i], index |-> i] : i \in first}
      /\ index = Len(given)
      /\ enqueued = Range(given)
  BY Zenon DEF Init
<1>5. yielded = {} /\ out = <<>> /\ uninteresting = Range(exclude)
  BY Zenon DEF Init
<1>6. enqueued \subseteq Commit /\ uninteresting \subseteq Commit
  BY <1>2, <1>3, <1>4, <1>5 DEF Range
<1>7. \A i \in first : i \in 1..Len(given) /\ i \in Nat /\ i <= index /\ given[i] \in Commit /\ given[i] \in enqueued
  BY <1>3, <1>4 DEF Range
<1>8. \A i, j \in first : i # j => given[i] # given[j]
  <2> SUFFICES ASSUME NEW i \in first, NEW j \in first, i # j
               PROVE  given[i] # given[j]
    OBVIOUS
  <2>1. i \in Nat /\ j \in Nat /\ i >= 1 /\ j >= 1
    BY <1>3, <1>7
  <2>2. CASE i < j
    <3>1. i \in 1..(j - 1)
      BY <2>1, <2>2
    <3> HIDE DEF given
    <3> QED BY <3>1, Zenon
  <2>3. CASE j < i
    <3>1. j \in 1..(i - 1)
      BY <2>1, <2>3
    <3> HIDE DEF given
    <3> QED BY <3>1, Zenon
  <2> QED BY <2>1, <2>2, <2>3
<1> HIDE DEF first, given
<1>9. \A n \in pqueue : \E i \in first : n = [commit |-> given[i], index |-> i]
  BY <1>4, Zenon
<1>10. pqueue \subseteq Node
  <2> SUFFICES ASSUME NEW n \in pqueue PROVE n \in Node
    OBVIOUS
  <2>1. PICK i \in first : n = [commit |-> given[i], index |-> i]
    BY <1>9, Zenon
  <2>2. given[i] \in Commit /\ i \in Nat
    BY <1>7, Zenon
  <2> QED BY <2>1, <2>2, Zenon DEF Node
<1>11. \A n \in pqueue : n.index <= index /\ n.commit \in enqueued
  BY <1>7, <1>9
<1>12. \A m, n \in pqueue : m # n => m.index # n.index /\ m.commit # n.commit
  BY <1>8, <1>9
<1>13. TypeOK
  BY <1>3, <1>4, <1>5, <1>6, <1>10, <1>12 DEF TypeOK
<1>14. QueueOK
  BY <1>5, <1>11, <1>12 DEF QueueOK
<1>15. EachOnce
  BY <1>5 DEF EachOnce
<1> QED BY <1>1, <1>13, <1>14, <1>15, Zenon DEF WalkInv

\* What pop takes out: a commit that was not taken out before, and none in the
\* queue is later.
LEMMA Popped ==
    ASSUME WalkInv, StillInteresting
    PROVE  LET node == Pop(pqueue, time)
           IN  /\ node \in pqueue
               /\ node.commit \in Commit
               /\ node.commit \in enqueued \ yielded
               /\ \A n \in pqueue : time[n.commit] <= time[node.commit]
<1>1. pqueue \in SUBSET Node /\ pqueue # {}
  BY Zenon DEF WalkInv, TypeOK, StillInteresting
<1>2. time \in [Commit -> Time]
  BY Zenon DEF WalkInv, HistoryOK
<1>3. \A m, n \in pqueue : m # n => m.index # n.index
  BY Zenon DEF WalkInv, TypeOK
<1>4. Pop(pqueue, time) \in pqueue /\ \A n \in pqueue : time[n.commit] <= time[Pop(pqueue, time).commit]
  BY <1>1, <1>2, <1>3, PopLemma, Zenon DEF Node
<1>5. Pop(pqueue, time).commit \in Commit
  BY <1>1, <1>4, Zenon DEF Node
<1> QED BY <1>4, <1>5, Zenon DEF WalkInv, QueueOK

\* What the queue holds after enqueue_commit for every parent of the commit that
\* was taken out: the nodes that stay, and one for each parent not yet enqueued,
\* with an index above every other.
LEMMA Enqueued ==
    ASSUME WalkInv, NEW node \in pqueue, NEW c \in Commit, EnqueueCommits(node, parents[c])
    PROVE  /\ pqueue' \subseteq Node
           /\ index' \in Nat /\ index <= index'
           /\ enqueued' \subseteq Commit /\ enqueued \subseteq enqueued'
           /\ \A n \in pqueue' : n.index <= index' /\ n.commit \in enqueued'
           /\ \A m, n \in pqueue' : m # n => m.index # n.index /\ m.commit # n.commit
           /\ \A n \in pqueue' : \/ n \in pqueue \ {node}
                                 \/ n.commit \notin enqueued /\ n.commit \in Range(parents[c])
<1> DEFINE ps == parents[c]
<1> DEFINE fresh == {j \in DOMAIN ps : ps[j] \notin enqueued}
<1>1. ps \in Seq(Commit) /\ \A i, j \in DOMAIN ps : i # j => ps[i] # ps[j]
  BY Zenon DEF WalkInv, HistoryOK
<1>2. /\ pqueue' = (pqueue \ {node}) \cup {[commit |-> ps[i], index |-> index + i] : i \in fresh}
      /\ enqueued' = enqueued \cup Range(ps)
      /\ index' = index + Len(ps)
  BY Zenon DEF EnqueueCommits
<1> HIDE DEF ps
<1>3. \A i \in DOMAIN ps : i \in 1..Len(ps) /\ ps[i] \in Commit /\ ps[i] \in Range(ps)
  BY <1>1 DEF Range
<1>4. index \in Nat /\ Len(ps) \in Nat
  BY <1>1 DEF WalkInv, TypeOK
<1>5. \A i \in fresh : /\ ps[i] \in Commit /\ ps[i] \notin enqueued /\ ps[i] \in Range(ps)
                       /\ i \in Nat /\ index < index + i /\ index + i <= index' /\ index + i \in Nat
  BY <1>2, <1>3, <1>4
<1>6. \A i, j \in fresh : i # j => ps[i] # ps[j] /\ index + i # index + j
  BY <1>1, <1>4, <1>5
<1>7. \A n \in pqueue : n \in Node /\ n.index \in Nat /\ n.index <= index /\ n.commit \in enqueued
  BY Zenon DEF WalkInv, TypeOK, QueueOK, Node
<1>8. \A m, n \in pqueue : m # n => m.index # n.index /\ m.commit # n.commit
  BY Zenon DEF WalkInv, TypeOK, QueueOK
<1>9. Range(ps) \subseteq Commit /\ enqueued \subseteq Commit
  BY <1>1 DEF WalkInv, TypeOK, Range
<1>10. index' \in Nat /\ index <= index'
  BY <1>2, <1>4
<1> HIDE DEF fresh
<1>11. \A n \in pqueue' : \/ n \in pqueue \ {node}
                          \/ \E i \in fresh : n = [commit |-> ps[i], index |-> index + i]
  BY <1>2, Zenon
<1>12. ASSUME NEW n \in pqueue'
       PROVE  /\ n \in Node /\ n.index <= index' /\ n.commit \in enqueued'
              /\ \/ n \in pqueue \ {node}
                 \/ n.commit \notin enqueued /\ n.commit \in Range(ps)
  <2>1. CASE n \in pqueue \ {node}
    BY <2>1, <1>2, <1>4, <1>7, <1>10
  <2>2. CASE \E i \in fresh : n = [commit |-> ps[i], index |-> index + i]
    <3>1. PICK i \in fresh : n = [commit |-> ps[i], index |-> index + i]
      BY <2>2, Zenon
    <3>2. n.commit = ps[i] /\ n.index = index + i
      BY <3>1, Zenon
    <3>3. n \in Node
      BY <3>1, <1>5, Zenon DEF Node
    <3> QED BY <3>2, <3>3, <1>2, <1>5, Zenon
  <2> QED BY <2>1, <2>2, <1>11, Zenon
<1>13. ASSUME NEW m \in pqueue', NEW n \in pqueue', m # n
       PROVE  m.index # n.index /\ m.commit # n.commit
  <2> DEFINE New(x) == \E i \in fresh : x = [commit |-> ps[i], index |-> index + i]
  <2>1. \A x \in pqueue' : x \in pqueue \/ New(x)
    BY <1>11, Zenon
  <2>2. \A x : New(x) => \E i \in fresh : x.commit = ps[i] /\ x.index = index + i
    OBVIOUS
  <2>3. CASE m \in pqueue /\ n \in pqueue
    BY <2>3, <1>8, <1>13, Zenon
  <2>4. CASE m \in pqueue /\ New(n)
    BY <2>4, <2>2, <1>4, <1>5, <1>7
  <2>5. CASE New(m) /\ n \in pqueue
    BY <2>5, <2>2, <1>4, <1>5, <1>7
  <2>6. CASE New(m) /\ New(n)
    BY <2>6, <1>6, <1>13
  <2> HIDE DEF New
  <2> QED BY <2>1, <2>3, <2>4, <2>5, <2>6, Zenon
<1>14. enqueued' \subseteq Commit /\ enqueued \subseteq enqueued'
  BY <1>2, <1>9, Zenon
<1> QED BY <1>10, <1>12, <1>13, <1>14, Zenon DEF ps

\* A turn of the loop of next keeps the invariant.
LEMMA StepWalkInv == WalkInv /\ Step => WalkInv'
<1> SUFFICES ASSUME WalkInv, Step PROVE WalkInv'
  OBVIOUS
<1> DEFINE node == Pop(pqueue, time)
<1> DEFINE c == node.commit
<1>1. node \in pqueue /\ c \in Commit /\ c \in enqueued \ yielded
  BY Popped, Zenon DEF Step
<1>2. /\ EnqueueCommits(node, parents[c])
      /\ yielded' = yielded \cup {c}
      /\ UNCHANGED input
  BY Zenon DEF Step
<1>3. \/ MarkParentsUninteresting(c) /\ UNCHANGED out
      \/ out' = Append(out, c) /\ UNCHANGED uninteresting
  BY Zenon DEF Step
<1> HIDE DEF c, node
<1>4. HistoryOK'
  <2>1. parents' = parents /\ time' = time
    BY <1>2, Zenon DEF input
  <2> QED BY <2>1, Zenon DEF WalkInv, HistoryOK
<1>5. /\ pqueue' \subseteq Node
      /\ index' \in Nat
      /\ enqueued' \subseteq Commit /\ enqueued \subseteq enqueued'
      /\ \A n \in pqueue' : n.index <= index' /\ n.commit \in enqueued'
      /\ \A m, n \in pqueue' : m # n => m.index # n.index /\ m.commit # n.commit
      /\ \A n \in pqueue' : n \in pqueue \ {node} \/ n.commit \notin enqueued
  BY <1>1, <1>2, Enqueued, Zenon
<1>6. uninteresting' \subseteq Commit
  <2>1. uninteresting \subseteq Commit /\ parents[c] \in Seq(Commit)
    BY <1>1, Zenon DEF WalkInv, TypeOK, HistoryOK
  <2>2. Range(parents[c]) \subseteq Commit
    BY <2>1 DEF Range
  <2> QED BY <1>3, <2>1, <2>2, Zenon DEF MarkParentsUninteresting
<1>7. /\ out \in Seq(Commit)
      /\ \A i \in 1..Len(out) : out[i] \in yielded
      /\ \A i, j \in 1..Len(out) : i # j => out[i] # out[j]
      /\ yielded \subseteq Commit
  BY Zenon DEF WalkInv, TypeOK, QueueOK, EachOnce
<1>8. /\ out' \in Seq(Commit)
      /\ \A i \in 1..Len(out') : out'[i] \in yielded'
      /\ \A i, j \in 1..Len(out') : i # j => out'[i] # out'[j]
  <2>1. CASE out' = out
    BY <2>1, <1>2, <1>7, Zenon
  <2>2. CASE out' = Append(out, c)
    <3>1. /\ out' \in Seq(Commit)
          /\ Len(out') = Len(out) + 1
          /\ out'[Len(out) + 1] = c
          /\ \A i \in 1..Len(out) : out'[i] = out[i]
      BY <2>2, <1>1, <1>7
    <3>2. \A i \in 1..Len(out') : i \in 1..Len(out) \/ i = Len(out) + 1
      BY <3>1, <1>7
    <3>3. \A i \in 1..Len(out) : out[i] # c
      BY <1>1, <1>7, Zenon
    <3> QED BY <3>1, <3>2, <3>3, <1>2, <1>7, Zenon
  <2> QED BY <2>1, <2>2, <1>3, Zenon
<1>9. TypeOK'
  BY <1>1, <1>2, <1>5, <1>6, <1>7, <1>8, Zenon DEF TypeOK
<1>10. \A n \in pqueue' : n.commit \notin yielded'
  <2>1. yielded \subseteq enqueued
    BY Zenon DEF WalkInv, QueueOK
  <2>2. \A n \in pqueue \ {node} : n.commit # c /\ n.commit \notin yielded
    BY <1>1, Zenon DEF WalkInv, QueueOK, c
  <2> QED BY <1>1, <1>2, <1>5, <2>1, <2>2, Zenon
<1>11. yielded' \subseteq enqueued'
  BY <1>1, <1>2, <1>5, Zenon DEF WalkInv, QueueOK
<1>12. QueueOK'
  BY <1>5, <1>8, <1>10, <1>11, Zenon DEF QueueOK
<1>13. EachOnce'
  BY <1>8, Zenon DEF EachOnce
<1> QED BY <1>4, <1>9, <1>12, <1>13, Zenon DEF WalkInv

\* The invariant holds for every history, all roots and all excluded commits.
THEOREM WalkInvariant == Spec => []WalkInv
<1>1. Init => WalkInv
  BY InitWalkInv, Zenon
<1>2. WalkInv /\ [Step]_vars => WalkInv'
  <2> SUFFICES ASSUME WalkInv, UNCHANGED vars PROVE WalkInv'
    BY StepWalkInv, Zenon
  <2> QED
    BY DEF vars, WalkInv, HistoryOK, TypeOK, QueueOK, EachOnce, Node
<1> QED BY <1>1, <1>2, PTL DEF Spec

\* No commit is yielded twice, and comparing two nodes of the queue never gets
\* to the bug!() of CommitNode::cmp, whatever the timestamps.
THEOREM EachCommitOnce == Spec => [](TypeOK /\ EachOnce)
<1>1. WalkInv => TypeOK /\ EachOnce
  BY Zenon DEF WalkInv
<1> QED BY <1>1, WalkInvariant, PTL

\* The state is well formed, and no two nodes of the queue have one index: the
\* bug!() of CommitNode::cmp is never reached, whatever the timestamps.
COROLLARY NodesDiffer == Spec => []TypeOK
BY EachCommitOnce, PTL

-----------------------------------------------------------------------------
(* The order *)

\* What is in the queue is not later than what was yielded, which is sorted.
Sorted ==
    /\ \A i \in 1..Len(out) : \A n \in pqueue : time[n.commit] <= time[out[i]]
    /\ \A i, j \in 1..Len(out) : i < j => time[out[j]] <= time[out[i]]

OrderInv == Later(parents, time) => Sorted

\* If every commit is later than its parents then what a commit's parents add to
\* the queue is earlier than the commit, and everything in the queue was no later.
LEMMA StepOrderInv == WalkInv /\ OrderInv /\ Step => OrderInv'
<1>0. Step => UNCHANGED <<parents, time>>
  BY Zenon DEF Step, input
<1> SUFFICES ASSUME WalkInv, Sorted, Step, Later(parents, time) PROVE Sorted'
  BY <1>0, Zenon DEF OrderInv, Later
<1> DEFINE node == Pop(pqueue, time)
<1> DEFINE c == node.commit
<1>1. node \in pqueue /\ c \in Commit /\ \A n \in pqueue : time[n.commit] <= time[c]
  BY Popped, Zenon DEF Step
<1>2. EnqueueCommits(node, parents[c]) /\ time' = time
  BY Zenon DEF Step, input
<1>3. out' = out \/ out' = Append(out, c)
  BY Zenon DEF Step
<1>4. \A i \in 1..Len(out) : time[c] <= time[out[i]]
  BY <1>1, Zenon DEF Sorted
<1> HIDE DEF c, node
<1>5. out \in Seq(Commit) /\ Len(out) \in Nat /\ time \in [Commit -> Time] /\ pqueue' \subseteq Node
  BY <1>1, <1>2, Enqueued DEF WalkInv, TypeOK, HistoryOK
<1>6. \A x \in Commit : time[x] \in Nat
  <2>1. \A x \in Commit : time[x] \in Time
    BY <1>5, Zenon
  <2> QED BY <2>1, TimeFacts, Zenon
<1>7. \A i \in 1..Len(out) : out[i] \in Commit
  BY <1>5
<1>8. \A n \in pqueue' : n.commit \in Commit /\ time[n.commit] <= time[c]
  <2> SUFFICES ASSUME NEW n \in pqueue'
               PROVE  n.commit \in Commit /\ time[n.commit] <= time[c]
    OBVIOUS
  <2>1. n.commit \in Commit
    BY <1>5, Zenon DEF Node
  <2>2. n \in pqueue \/ n.commit \in Range(parents[c])
    BY <1>1, <1>2, Enqueued, Zenon
  <2>3. CASE n \in pqueue
    BY <2>1, <2>3, <1>1, Zenon
  <2>4. CASE n.commit \in Range(parents[c])
    <3>1. time[n.commit] < time[c]
      BY <2>4, <1>1, Zenon DEF Later
    <3> QED BY <3>1, <2>1, <1>1, <1>6
  <2> QED BY <2>2, <2>3, <2>4, Zenon
<1>9. \A i \in 1..Len(out) : \A n \in pqueue' : time[n.commit] <= time[out[i]]
  BY <1>1, <1>4, <1>6, <1>7, <1>8
<1>10. CASE out' = out
  BY <1>2, <1>9, <1>10, Zenon DEF Sorted
<1>11. CASE out' = Append(out, c)
  <2>1. /\ Len(out') = Len(out) + 1
        /\ out'[Len(out) + 1] = c
        /\ \A i \in 1..Len(out) : out'[i] = out[i]
    BY <1>1, <1>5, <1>11
  <2>2. \A i \in 1..Len(out') : i \in 1..Len(out) \/ i = Len(out) + 1
    BY <2>1, <1>5
  <2>3. \A i \in 1..Len(out') : \A n \in pqueue' : time[n.commit] <= time[out'[i]]
    BY <2>1, <2>2, <1>8, <1>9, Zenon
  <2>4. ASSUME NEW i \in 1..Len(out'), NEW j \in 1..Len(out'), i < j
        PROVE  time[out'[j]] <= time[out'[i]]
    <3>1. i \in 1..Len(out)
      BY <2>1, <2>4, <1>5
    <3>2. CASE j \in 1..Len(out)
      BY <2>1, <2>4, <3>1, <3>2, Zenon DEF Sorted
    <3>3. CASE j = Len(out) + 1
      BY <2>1, <3>1, <3>3, <1>4, Zenon
    <3> QED BY <2>2, <3>2, <3>3, Zenon
  <2> QED BY <1>2, <2>3, <2>4, Zenon DEF Sorted
<1> QED BY <1>3, <1>10, <1>11, Zenon

\* revwalk.rs:273-274 for histories in which every commit is later than its
\* parents: reverse chronological order, children before their parents.
THEOREM ChildrenComeFirst == Spec => []ChildrenFirst
<1>1. Init => OrderInv
  BY DEF Init, OrderInv, Sorted
<1>2. WalkInv /\ OrderInv /\ [Step]_vars => OrderInv'
  <2> SUFFICES ASSUME OrderInv, UNCHANGED vars PROVE OrderInv'
    BY StepOrderInv, Zenon
  <2> QED BY Zenon DEF vars, OrderInv, Sorted, Later
<1>3. WalkInv /\ OrderInv => ChildrenFirst
  <2> SUFFICES ASSUME WalkInv, OrderInv, Later(parents, time),
                      NEW i \in 1..Len(out), NEW j \in 1..Len(out), i < j
               PROVE  time[out[i]] >= time[out[j]] /\ out[i] \notin Range(parents[out[j]])
    BY Zenon DEF ChildrenFirst
  <2>1. out[i] \in Commit /\ out[j] \in Commit
    BY DEF WalkInv, TypeOK
  <2>2. time[out[i]] \in Time /\ time[out[j]] \in Time
    BY <2>1, Zenon DEF WalkInv, HistoryOK
  <2>3. time[out[i]] \in Nat /\ time[out[j]] \in Nat
    BY <2>2, TimeFacts, Zenon
  <2>4. time[out[j]] <= time[out[i]]
    BY Zenon DEF OrderInv, Sorted
  <2>5. out[i] \in Range(parents[out[j]]) => time[out[i]] < time[out[j]]
    BY <2>1, Zenon DEF Later
  <2> QED BY <2>3, <2>4, <2>5
<1> QED BY <1>1, <1>2, <1>3, WalkInvariant, PTL DEF Spec

-----------------------------------------------------------------------------
(* Nothing is missed *)

\* What a list of commits reaches: the least set that holds the list and the
\* parents of its commits.
LEMMA FromFacts ==
    ASSUME parents \in History, NEW list, Range(list) \subseteq Commit
    PROVE  /\ ReachableFrom(list) \subseteq Commit
           /\ Range(list) \subseteq ReachableFrom(list)
           /\ Closed(parents, ReachableFrom(list))
           /\ \A S : Closed(parents, S) /\ Range(list) \subseteq S => ReachableFrom(list) \subseteq S
<1>1. \A c \in Range(list) : /\ c \in Reachable(parents)[c]
                             /\ Reachable(parents)[c] \subseteq Commit
                             /\ Closed(parents, Reachable(parents)[c])
  BY ReachableClosed, Zenon
<1>2. Closed(parents, ReachableFrom(list))
  BY <1>1, Zenon DEF Closed, ReachableFrom
<1>3. ASSUME NEW S, Closed(parents, S), Range(list) \subseteq S
      PROVE  ReachableFrom(list) \subseteq S
  <2>1. \A c \in Range(list) : Reachable(parents)[c] \subseteq S
    BY <1>3, ReachableLeast, Zenon
  <2> QED BY <2>1, Zenon DEF ReachableFrom
<1> QED BY <1>1, <1>2, <1>3, Zenon DEF ReachableFrom

\* Every commit that was enqueued is in the queue or was taken out, and the
\* parents of what was taken out have been enqueued.  Marks are only on what an
\* excluded commit reaches, what was taken out unmarked was yielded, and what is
\* unmarked was come to from a root.
CoverInv ==
    /\ roots \in Seq(Commit) /\ exclude \in Seq(Commit)
    /\ enqueued = yielded \cup {n.commit : n \in pqueue}
    /\ Range(roots) \subseteq enqueued
    /\ \A c \in yielded : Range(parents[c]) \subseteq enqueued
    /\ uninteresting \subseteq ReachableFrom(exclude)
    /\ yielded \subseteq Range(out) \cup ReachableFrom(exclude)
    /\ enqueued \subseteq uninteresting \cup ReachableFrom(roots)

\* RevWalkBuilder::build: the roots and the excluded commits are in the queue.
LEMMA InitCoverInv == Init => CoverInv
<1> SUFFICES ASSUME Init PROVE CoverInv
  OBVIOUS
<1> DEFINE given == exclude \o roots
<1> DEFINE first == {i \in DOMAIN given : \A j \in 1..(i - 1) : given[j] # given[i]}
<1>1. exclude \in Seq(Commit) /\ roots \in Seq(Commit)
  BY RevWalkAssumption DEF Init, Lists
<1>2. given \in Seq(Commit) /\ Len(given) \in Nat /\ DOMAIN given = 1..Len(given)
  BY <1>1
<1>3. /\ pqueue = {[commit |-> given[i], index |-> i] : i \in first}
      /\ enqueued = Range(given)
      /\ yielded = {} /\ uninteresting = Range(exclude)
      /\ parents \in History
  BY Zenon DEF Init
<1>4. Range(given) = Range(exclude) \cup Range(roots)
  <2>1. \A i \in DOMAIN exclude : i \in DOMAIN given /\ given[i] = exclude[i]
    BY <1>1, <1>2
  <2>2. \A i \in DOMAIN roots : /\ Len(exclude) + i \in DOMAIN given
                                /\ given[Len(exclude) + i] = roots[i]
    BY <1>1, <1>2
  <2>3. \A i \in DOMAIN given : \/ i \in DOMAIN exclude /\ given[i] = exclude[i]
                                \/ i - Len(exclude) \in DOMAIN roots /\ given[i] = roots[i - Len(exclude)]
    BY <1>1, <1>2
  <2> HIDE DEF given
  <2> QED BY <2>1, <2>2, <2>3 DEF Range
<1>5. Range(given) \subseteq {given[i] : i \in first}
  <2> SUFFICES ASSUME NEW x \in Range(given) PROVE \E i \in first : given[i] = x
    OBVIOUS
  <2> DEFINE Places == {i \in DOMAIN given : given[i] = x}
  <2>1. Places # {} /\ Places \in SUBSET Nat
    BY <1>2 DEF Range
  <2>2. PICK i \in Places : \A j \in Places : i <= j
    <3> HIDE DEF Places
    <3> QED BY <2>1, NatMin, Zenon
  <2> HIDE DEF given
  <2>3. i \in 1..Len(given) /\ i \in Nat /\ given[i] = x
    BY <1>2
  <2>4. \A j \in 1..(i - 1) : j \in DOMAIN given /\ j \notin Places
    <3> TAKE j \in 1..(i - 1)
    <3>1. j \in DOMAIN given /\ ~(i <= j)
      BY <1>2, <2>3
    <3> HIDE DEF Places
    <3> QED BY <3>1, <2>2, Zenon
  <2>5. i \in first
    BY <1>2, <2>3, <2>4, Zenon
  <2> QED BY <2>3, <2>5, Zenon
<1>6. {given[i] : i \in first} \subseteq Range(given)
  BY Zenon DEF Range
<1> HIDE DEF given, first
<1>7. enqueued = {n.commit : n \in pqueue}
  <2>1. \A i \in first : \E n \in pqueue : n.commit = given[i]
    <3> TAKE i \in first
    <3>1. [commit |-> given[i], index |-> i] \in pqueue
      BY <1>3, Zenon
    <3> QED BY <3>1, Zenon
  <2>2. \A n \in pqueue : \E i \in first : n.commit = given[i]
    BY <1>3
  <2> QED BY <2>1, <2>2, <1>3, <1>5, <1>6
<1>8. Range(exclude) \subseteq Commit /\ Range(roots) \subseteq Commit
  BY <1>1 DEF Range
<1>9. Range(exclude) \subseteq ReachableFrom(exclude) /\ Range(roots) \subseteq ReachableFrom(roots)
  BY <1>3, <1>8, FromFacts, Zenon
<1> QED BY <1>1, <1>3, <1>4, <1>7, <1>9, Zenon DEF CoverInv, given

\* What enqueue_commit adds: every parent has been enqueued, the ones that were
\* not before are in the queue, and only the node taken out has left it.
LEMMA EnqueuedAll ==
    ASSUME WalkInv, NEW node \in pqueue, NEW c \in Commit, EnqueueCommits(node, parents[c])
    PROVE  /\ enqueued' = enqueued \cup Range(parents[c])
           /\ pqueue \ {node} \subseteq pqueue'
           /\ \A p \in Range(parents[c]) \ enqueued : \E n \in pqueue' : n.commit = p
           /\ \A n \in pqueue' : n \in pqueue \/ n.commit \in Range(parents[c])
<1>1. \A p \in Range(parents[c]) \ enqueued : \E n \in pqueue' : n.commit = p
  <2> TAKE p \in Range(parents[c]) \ enqueued
  <2>1. PICK i \in DOMAIN parents[c] : parents[c][i] = p
    BY Zenon DEF Range
  <2>2. [commit |-> p, index |-> index + i] \in pqueue'
    BY <2>1, Zenon DEF EnqueueCommits
  <2> QED BY <2>2, Zenon
<1>2. \A n \in pqueue' : n \in pqueue \/ n.commit \in Range(parents[c])
  BY Enqueued, Zenon
<1> QED BY <1>1, <1>2, Zenon DEF EnqueueCommits

\* A turn of the loop of next keeps it.
LEMMA StepCoverInv == WalkInv /\ CoverInv /\ Step => CoverInv'
<1> SUFFICES ASSUME WalkInv, CoverInv, Step PROVE CoverInv'
  OBVIOUS
<1> DEFINE node == Pop(pqueue, time)
<1> DEFINE c == node.commit
<1>1. node \in pqueue /\ c \in Commit /\ c \in enqueued \ yielded
  BY Popped, Zenon DEF Step
<1>2. /\ EnqueueCommits(node, parents[c])
      /\ yielded' = yielded \cup {c}
      /\ parents' = parents /\ roots' = roots /\ exclude' = exclude
  BY Zenon DEF Step, input
<1>3. \/ c \in uninteresting /\ uninteresting' = uninteresting \cup Range(parents[c]) /\ out' = out
      \/ c \notin uninteresting /\ uninteresting' = uninteresting /\ out' = Append(out, c)
  BY Zenon DEF Step, MarkParentsUninteresting
<1>4. /\ enqueued' = enqueued \cup Range(parents[c])
      /\ pqueue \ {node} \subseteq pqueue'
      /\ \A p \in Range(parents[c]) \ enqueued : \E n \in pqueue' : n.commit = p
      /\ \A n \in pqueue' : n \in pqueue \/ n.commit \in Range(parents[c])
  BY <1>1, <1>2, EnqueuedAll, Zenon
<1>a. \A n \in pqueue \ {node} : n.commit # c
  BY <1>1, Zenon DEF WalkInv, QueueOK
<1>b. node.commit = c
  OBVIOUS
<1> HIDE DEF c, node
<1>5. ReachableFrom(roots)' = ReachableFrom(roots) /\ ReachableFrom(exclude)' = ReachableFrom(exclude)
  BY <1>2, Zenon DEF ReachableFrom
<1>6. /\ Closed(parents, ReachableFrom(roots))
      /\ Closed(parents, ReachableFrom(exclude))
  <2>1. Range(roots) \subseteq Commit /\ Range(exclude) \subseteq Commit
    BY DEF CoverInv, Range
  <2> QED BY <2>1, FromFacts, Zenon DEF WalkInv, HistoryOK
<1>7. roots' \in Seq(Commit) /\ exclude' \in Seq(Commit) /\ Range(roots') \subseteq enqueued'
  BY <1>2, <1>4, Zenon DEF CoverInv
<1>8. enqueued' = yielded' \cup {n.commit : n \in pqueue'}
  <2>1. enqueued = yielded \cup {n.commit : n \in pqueue}
    BY Zenon DEF CoverInv
  <2>2. ASSUME NEW x \in enqueued' PROVE x \in yielded' \/ \E n \in pqueue' : n.commit = x
    <3>1. CASE x \in enqueued
      <4>1. CASE \E n \in pqueue : n.commit = x
        <5>1. PICK n \in pqueue : n.commit = x
          BY <4>1, Zenon
        <5> QED BY <5>1, <1>2, <1>4, <1>b, Zenon
      <4> QED BY <3>1, <4>1, <2>1, <1>2, Zenon
    <3> QED BY <2>2, <3>1, <1>4, Zenon
  <2>3. \A n \in pqueue' : n.commit \in enqueued'
    BY <2>1, <1>4, Zenon
  <2>4. yielded' \subseteq enqueued'
    BY <2>1, <1>1, <1>2, <1>4, Zenon
  <2> QED BY <2>2, <2>3, <2>4, Zenon
<1>9. \A x \in yielded' : Range(parents'[x]) \subseteq enqueued'
  BY <1>2, <1>4, Zenon DEF CoverInv
<1>10. uninteresting' \subseteq ReachableFrom(exclude)
  BY <1>3, <1>6, Zenon DEF CoverInv, Closed
<1>11. yielded' \subseteq Range(out') \cup ReachableFrom(exclude)
  <2>1. out \in Seq(Commit)
    BY Zenon DEF WalkInv, TypeOK
  <2>2. yielded \subseteq Range(out) \cup ReachableFrom(exclude) /\ uninteresting \subseteq ReachableFrom(exclude)
    BY Zenon DEF CoverInv
  <2>3. CASE c \in uninteresting /\ out' = out
    BY <2>2, <2>3, <1>2, Zenon
  <2>4. CASE out' = Append(out, c)
    <3>1. Len(out') = Len(out) + 1 /\ Len(out) \in Nat /\ DOMAIN out = 1..Len(out) /\ DOMAIN out' = 1..Len(out')
      BY <2>1, <2>4, <1>1
    <3>2. out'[Len(out) + 1] = c /\ \A i \in DOMAIN out : i \in DOMAIN out' /\ out'[i] = out[i]
      BY <2>1, <2>4, <1>1
    <3>3. Range(out) \subseteq Range(out') /\ c \in Range(out')
      BY <3>1, <3>2 DEF Range
    <3> QED BY <2>2, <3>3, <1>2, Zenon
  <2> QED BY <2>3, <2>4, <1>3, Zenon
<1>12. enqueued' \subseteq uninteresting' \cup ReachableFrom(roots)
  <2>1. enqueued \subseteq uninteresting \cup ReachableFrom(roots) /\ c \in enqueued
    BY <1>1, Zenon DEF CoverInv
  <2> QED BY <2>1, <1>3, <1>4, <1>6, Zenon DEF Closed
<1> QED BY <1>5, <1>7, <1>8, <1>9, <1>10, <1>11, <1>12, Zenon DEF CoverInv

\* The invariant, whatever the clocks said.
THEOREM CoverInvariant == Spec => []CoverInv
<1>1. Init => CoverInv
  BY InitCoverInv, Zenon
<1>2. WalkInv /\ CoverInv /\ [Step]_vars => CoverInv'
  <2> SUFFICES ASSUME CoverInv, UNCHANGED vars PROVE CoverInv'
    BY StepCoverInv, Zenon
  <2> QED BY DEF vars, CoverInv, ReachableFrom
<1> QED BY <1>1, <1>2, WalkInvariant, PTL DEF Spec

\* still_interesting stops the walk when only uninteresting commits are in the
\* queue, and it has then yielded every commit that a root reaches and no
\* excluded commit does: what was yielded, together with what an excluded commit
\* reaches, holds the roots and every parent.
THEOREM WalkMissesNothing == Spec => []NothingMissed
<1>1. WalkInv /\ CoverInv => NothingMissed
  <2> SUFFICES ASSUME WalkInv, CoverInv, ~StillInteresting
               PROVE  ReachableFrom(roots) \subseteq Range(out) \cup ReachableFrom(exclude)
    BY Zenon DEF NothingMissed
  <2> DEFINE S == Range(out) \cup ReachableFrom(exclude)
  <2>1. Range(roots) \subseteq Commit /\ Range(exclude) \subseteq Commit /\ parents \in History
    BY DEF CoverInv, WalkInv, HistoryOK, Range
  <2>2. enqueued \subseteq S
    BY Zenon DEF CoverInv, StillInteresting
  <2>3. Range(out) \subseteq yielded
    BY DEF WalkInv, TypeOK, QueueOK, Range
  <2>4. Closed(parents, ReachableFrom(exclude))
    BY <2>1, FromFacts, Zenon
  <2>5. Closed(parents, S)
    BY <2>2, <2>3, <2>4, Zenon DEF Closed, CoverInv
  <2>6. Range(roots) \subseteq S
    BY <2>2, Zenon DEF CoverInv
  <2> HIDE DEF S
  <2>7. ReachableFrom(roots) \subseteq S
    BY <2>1, <2>5, <2>6, FromFacts, Zenon
  <2> QED BY <2>7, Zenon DEF S
<1> QED BY <1>1, WalkInvariant, CoverInvariant, PTL

-----------------------------------------------------------------------------
(* The walk implements the listing *)

\* If every commit is later than its parents: nothing in the queue is later than
\* what was taken out; what an excluded commit reaches is marked, or a marked
\* commit of the queue reaches it; what a root reaches was taken out, or a commit
\* of the queue reaches it.
Frontier ==
    /\ \A y \in yielded : \A n \in pqueue : time[n.commit] <= time[y]
    /\ \A x \in ReachableFrom(exclude) :
          \/ x \in uninteresting
          \/ \E n \in pqueue : n.commit \in uninteresting /\ x \in Reachable(parents)[n.commit]
    /\ \A x \in ReachableFrom(roots) :
          \/ x \in yielded
          \/ \E n \in pqueue : x \in Reachable(parents)[n.commit]

FrontierInv == Later(parents, time) => Frontier

\* The roots and the excluded commits are in the queue.
LEMMA InitFrontierInv == Init => FrontierInv
<1> SUFFICES ASSUME Init PROVE Frontier
  BY Zenon DEF FrontierInv
<1>1. yielded = {} /\ uninteresting = Range(exclude)
  BY Zenon DEF Init
<1>2. enqueued = {n.commit : n \in pqueue} /\ Range(roots) \subseteq enqueued
  BY <1>1, InitCoverInv, Zenon DEF CoverInv
<1>3. \A x \in ReachableFrom(roots) : \E n \in pqueue : x \in Reachable(parents)[n.commit]
  BY <1>2 DEF ReachableFrom
<1>4. Range(exclude) \subseteq enqueued
  <2>1. exclude \in Seq(Commit) /\ roots \in Seq(Commit)
    BY InitCoverInv, Zenon DEF CoverInv
  <2>2. \A i \in DOMAIN exclude : i \in DOMAIN (exclude \o roots) /\ (exclude \o roots)[i] = exclude[i]
    BY <2>1
  <2> QED BY <2>2, Zenon DEF Init, Range
<1>5. \A x \in ReachableFrom(exclude) :
         \E n \in pqueue : n.commit \in uninteresting /\ x \in Reachable(parents)[n.commit]
  BY <1>1, <1>2, <1>4 DEF ReachableFrom
<1> QED BY <1>1, <1>3, <1>5, Zenon DEF Frontier

\* When a commit is taken out none of its parents has been, as they are earlier;
\* so they are in the queue after it, and take over what it reaches.
LEMMA StepFrontierInv == WalkInv /\ CoverInv /\ FrontierInv /\ Step => FrontierInv'
<1>0. Step => UNCHANGED <<parents, time>>
  BY Zenon DEF Step, input
<1> SUFFICES ASSUME WalkInv, CoverInv, Frontier, Step, Later(parents, time) PROVE Frontier'
  BY <1>0, Zenon DEF FrontierInv, Later
<1> DEFINE R == Reachable(parents)
<1> DEFINE node == Pop(pqueue, time)
<1> DEFINE c == node.commit
<1>1. node \in pqueue /\ c \in Commit /\ \A n \in pqueue : time[n.commit] <= time[c]
  BY Popped, Zenon DEF Step
<1>2. /\ EnqueueCommits(node, parents[c])
      /\ yielded' = yielded \cup {c}
      /\ parents' = parents /\ roots' = roots /\ exclude' = exclude /\ time' = time
  BY Zenon DEF Step, input
<1>3. \/ c \in uninteresting /\ uninteresting' = uninteresting \cup Range(parents[c])
      \/ c \notin uninteresting /\ uninteresting' = uninteresting
  BY Zenon DEF Step, MarkParentsUninteresting
<1>4. /\ enqueued' = enqueued \cup Range(parents[c])
      /\ pqueue \ {node} \subseteq pqueue'
      /\ \A n \in pqueue' : n \in pqueue \/ n.commit \in Range(parents[c])
  BY <1>1, <1>2, EnqueuedAll, Zenon
<1>5. node.commit = c
  OBVIOUS
<1> HIDE DEF c, node
<1>6. /\ parents \in History /\ time \in [Commit -> Time]
      /\ yielded \subseteq Commit /\ pqueue \subseteq Node
  BY Zenon DEF WalkInv, HistoryOK, TypeOK
<1>7. \A x \in Commit : time[x] \in Nat
  <2>1. \A x \in Commit : time[x] \in Time
    BY <1>6, Zenon
  <2> QED BY <2>1, TimeFacts, Zenon
<1>8. \A p \in Range(parents[c]) : p \in Commit /\ time[p] < time[c]
  BY <1>1, <1>6, ParentsAreOlder, Zenon DEF Later
<1>9. \A y \in yielded : y \in Commit /\ time[c] <= time[y]
  BY <1>1, <1>5, <1>6, Zenon DEF Frontier
<1>10. ASSUME NEW p \in Range(parents[c])
       PROVE  \E n \in pqueue' : n.commit = p
  <2>1. p \notin yielded' /\ p \in enqueued'
    BY <1>1, <1>2, <1>4, <1>7, <1>8, <1>9
  <2>2. enqueued' = yielded' \cup {n.commit : n \in pqueue'}
    BY StepCoverInv, Zenon DEF CoverInv
  <2> QED BY <2>1, <2>2, Zenon
<1>11. ASSUME NEW x \in R[c], x # c
       PROVE  \E p \in Range(parents[c]) : x \in R[p]
  BY <1>1, <1>6, <1>11, ReachableOrder, Zenon
<1>12. ReachableFrom(roots)' = ReachableFrom(roots) /\ ReachableFrom(exclude)' = ReachableFrom(exclude)
  BY <1>2, Zenon DEF ReachableFrom
<1> HIDE DEF R
<1>13. \A y \in yielded' : \A n \in pqueue' : time[n.commit] <= time[y]
  <2>1. \A n \in pqueue' : n.commit \in Commit /\ time[n.commit] <= time[c]
    <3> TAKE n \in pqueue'
    <3>1. CASE n \in pqueue
      BY <3>1, <1>1, <1>6, Zenon DEF Node
    <3>2. CASE n.commit \in Range(parents[c])
      BY <3>2, <1>1, <1>7, <1>8
    <3> QED BY <3>1, <3>2, <1>4, Zenon
  <2> QED BY <2>1, <1>1, <1>2, <1>7, <1>9
<1>14. ASSUME NEW x \in ReachableFrom(exclude)
       PROVE  \/ x \in uninteresting'
              \/ \E n \in pqueue' : n.commit \in uninteresting' /\ x \in R[n.commit]
  <2>1. CASE x \in uninteresting
    BY <2>1, <1>3, Zenon
  <2>2. CASE \E n \in pqueue : n.commit \in uninteresting /\ x \in R[n.commit]
    <3>1. PICK n \in pqueue : n.commit \in uninteresting /\ x \in R[n.commit]
      BY <2>2, Zenon
    <3>2. CASE n # node
      BY <3>1, <3>2, <1>3, <1>4, Zenon
    <3>3. CASE n = node
      <4>1. c \in uninteresting /\ x \in R[c]
        BY <3>1, <3>3, <1>5, Zenon
      <4>2. CASE x = c
        BY <4>1, <4>2, <1>3, Zenon
      <4>3. CASE x # c
        <5>1. PICK p \in Range(parents[c]) : x \in R[p]
          BY <4>1, <4>3, <1>11, Zenon
        <5>2. PICK q \in pqueue' : q.commit = p
          BY <1>10, Zenon
        <5>3. p \in uninteresting'
          BY <4>1, <1>3, Zenon
        <5> QED BY <5>1, <5>2, <5>3, Zenon
      <4> QED BY <4>2, <4>3, Zenon
    <3> QED BY <3>2, <3>3, Zenon
  <2> QED BY <2>1, <2>2, Zenon DEF Frontier, R
<1>15. ASSUME NEW x \in ReachableFrom(roots)
       PROVE  x \in yielded' \/ \E n \in pqueue' : x \in R[n.commit]
  <2>1. CASE x \in yielded
    BY <2>1, <1>2, Zenon
  <2>2. CASE \E n \in pqueue : x \in R[n.commit]
    <3>1. PICK n \in pqueue : x \in R[n.commit]
      BY <2>2, Zenon
    <3>2. CASE n # node
      BY <3>1, <3>2, <1>4, Zenon
    <3>3. CASE n = node
      <4>1. CASE x = c
        BY <4>1, <1>2, Zenon
      <4>2. CASE x # c
        <5>1. PICK p \in Range(parents[c]) : x \in R[p]
          BY <3>1, <3>3, <4>2, <1>5, <1>11, Zenon
        <5>2. PICK q \in pqueue' : q.commit = p
          BY <1>10, Zenon
        <5> QED BY <5>1, <5>2, Zenon
      <4> QED BY <4>1, <4>2, Zenon
    <3> QED BY <3>2, <3>3, Zenon
  <2> QED BY <2>1, <2>2, Zenon DEF Frontier, R
<1> QED BY <1>2, <1>12, <1>13, <1>14, <1>15, Zenon DEF Frontier, R

\* The invariant, for the histories in which every commit is later than its
\* parents.
THEOREM FrontierInvariant == Spec => []FrontierInv
<1>1. Init => FrontierInv
  BY InitFrontierInv, Zenon
<1>2. WalkInv /\ CoverInv /\ FrontierInv /\ [Step]_vars => FrontierInv'
  <2> SUFFICES ASSUME FrontierInv, UNCHANGED vars PROVE FrontierInv'
    BY StepFrontierInv, Zenon
  <2> QED BY Zenon DEF vars, FrontierInv, Frontier, Later, ReachableFrom
<1> QED BY <1>1, <1>2, WalkInvariant, CoverInvariant, PTL DEF Spec

\* The names of the listing mean what they mean here.
LEMMA AbstractNames ==
    /\ Abstract!Commit = Commit /\ Abstract!Time = Time /\ Abstract!History = History
    /\ \A f : Abstract!Range(f) = Range(f)
    /\ Abstract!Later(parents, time) = Later(parents, time)
    /\ Abstract!Below(Range(roots)) = ReachableFrom(roots)
    /\ Abstract!Below(Range(exclude)) = ReachableFrom(exclude)
    /\ Abstract!Left = ReachableFrom(roots) \ (ReachableFrom(exclude) \cup Range(out))
<1>1. Abstract!Commit = Commit /\ Abstract!Time = Time
  BY Zenon DEF Abstract!Commit, Commit, Abstract!Time, Time
<1>a. \A f : Abstract!Range(f) = Range(f)
  BY Zenon DEF Abstract!Range, Range
<1>2. Abstract!History = History
  BY <1>1, Zenon DEF Abstract!History, History, Abstract!ParentLists, ParentLists
<1>3. Abstract!Later(parents, time) = Later(parents, time)
  BY <1>1, <1>a, Zenon DEF Abstract!Later, Later
<1>4. Abstract!Reachable(parents) = Reachable(parents)
  BY Zenon DEF Abstract!Reachable, Reachable, Abstract!Commit, Commit, Abstract!Range, Range
<1>5. /\ Abstract!Below(Range(roots)) = ReachableFrom(roots)
      /\ Abstract!Below(Range(exclude)) = ReachableFrom(exclude)
  BY <1>4, Zenon DEF Abstract!Below, ReachableFrom
<1> QED BY <1>1, <1>a, <1>2, <1>3, <1>5, Zenon DEF Abstract!Left

\* What the walk starts with is what a listing starts with.
LEMMA InitIsListing == Init => Abstract!Init
<1> SUFFICES ASSUME Init PROVE Abstract!Init
  OBVIOUS
<1>1. parents \in History /\ time \in [Commit -> Time] /\ out = <<>>
  BY Zenon DEF Init
<1>2. roots \in Seq(Commit) /\ exclude \in Seq(Commit)
  BY InitCoverInv, Zenon DEF CoverInv
<1>3. Range(roots) \subseteq Commit /\ Range(exclude) \subseteq Commit
  BY <1>2 DEF Range
<1>4. Range(roots) # {}
  <2>1. 1 \in DOMAIN roots
    BY RevWalkAssumption DEF Init, Lists
  <2> QED BY <2>1, Zenon DEF Range
<1> QED BY <1>1, <1>3, <1>4, AbstractNames, Zenon DEF Abstract!Init

\* A commit that next skips changes no listing; one that it yields is the next
\* one of a listing.  If every commit is later than its parents it cannot be one
\* that an excluded commit reaches: a marked commit of the queue would reach it,
\* which would be later and popped before it; and none that is left is later: a
\* commit of the queue reaches it and is no later than the one popped.
LEMMA StepIsListing ==
    WalkInv /\ CoverInv /\ FrontierInv /\ Step
        => (\E c \in Abstract!Commit : Abstract!List(c)) \/ UNCHANGED Abstract!vars
<1> SUFFICES ASSUME WalkInv, CoverInv, FrontierInv, Step
             PROVE  (\E x \in Commit : Abstract!List(x)) \/ UNCHANGED Abstract!vars
  BY AbstractNames, Zenon
<1> DEFINE R == Reachable(parents)
<1> DEFINE c == Pop(pqueue, time).commit
<1>1. /\ c \in Commit /\ c \in enqueued \ yielded
      /\ \A n \in pqueue : time[n.commit] <= time[c]
  BY Popped, Zenon DEF Step
<1>2. parents' = parents /\ roots' = roots /\ exclude' = exclude /\ time' = time
  BY Zenon DEF Step, input
<1>3. (c \in uninteresting /\ out' = out) \/ (c \notin uninteresting /\ out' = Append(out, c))
  BY Zenon DEF Step
<1> HIDE DEF c
<1>4. CASE c \in uninteresting /\ out' = out
  BY <1>2, <1>4, Zenon DEF Abstract!vars
<1>5. CASE c \notin uninteresting /\ out' = Append(out, c)
  <2>1. c \in ReachableFrom(roots)
    BY <1>1, <1>5, Zenon DEF CoverInv
  <2>2. c \notin Range(out)
    BY <1>1 DEF WalkInv, TypeOK, QueueOK, Range
  <2>3. ASSUME Later(parents, time)
        PROVE  /\ c \in Abstract!Left
               /\ \A d \in Abstract!Left : time[d] <= time[c]
    <3>1. Frontier /\ parents \in History /\ time \in [Commit -> Time] /\ pqueue \subseteq Node
      BY <2>3, Zenon DEF FrontierInv, WalkInv, HistoryOK, TypeOK
    <3>2. \A n \in pqueue : n.commit \in Commit
      BY <3>1, Zenon DEF Node
    <3>3. ASSUME NEW n \in pqueue, NEW x \in R[n.commit]
          PROVE  /\ time[x] \in Nat /\ time[n.commit] \in Nat /\ time[x] <= time[n.commit]
                 /\ x # n.commit => time[x] < time[n.commit]
      BY <2>3, <3>1, <3>2, ReachableIsEarlier, Zenon
    <3>4. time[c] \in Nat
      <4>1. time[c] \in Time
        BY <1>1, <3>1, Zenon
      <4> QED BY <4>1, TimeFacts, Zenon
    <3> HIDE DEF R
    <3>5. c \notin ReachableFrom(exclude)
      <4> SUFFICES ASSUME c \in ReachableFrom(exclude) PROVE FALSE
        OBVIOUS
      <4>1. PICK n \in pqueue : n.commit \in uninteresting /\ c \in R[n.commit]
        BY <1>5, <3>1, Zenon DEF Frontier, R
      <4>2. time[c] < time[n.commit] /\ time[n.commit] \in Nat
        BY <1>5, <3>3, <4>1, Zenon
      <4> QED BY <1>1, <3>4, <4>2
    <3>6. ASSUME NEW d \in ReachableFrom(roots) \ (ReachableFrom(exclude) \cup Range(out))
          PROVE  time[d] <= time[c]
      <4>1. d \notin yielded
        BY Zenon DEF CoverInv
      <4>2. PICK n \in pqueue : d \in R[n.commit]
        BY <3>1, <4>1, Zenon DEF Frontier, R
      <4>3. time[d] <= time[n.commit] /\ time[d] \in Nat /\ time[n.commit] \in Nat
        BY <3>3, <4>2, Zenon
      <4> QED BY <1>1, <3>4, <4>3
    <3> QED BY <2>1, <2>2, <3>5, <3>6, AbstractNames, Zenon
  <2>4. Abstract!List(c)
    BY <1>2, <1>5, <2>1, <2>2, <2>3, AbstractNames, Zenon DEF Abstract!List
  <2> QED BY <1>1, <2>4, Zenon
<1> QED BY <1>3, <1>4, <1>5, Zenon

\* The walk of log and rev-list implements the listing that its comments promise,
\* for every history, all roots and all excluded commits.
THEOREM WalkImplementsListing == Spec => ImplementsListing
<1>1. Init => Abstract!Init
  BY InitIsListing, Zenon
<1>2. WalkInv /\ CoverInv /\ FrontierInv /\ [Step]_vars
          => [\E c \in Abstract!Commit : Abstract!List(c)]_(Abstract!vars)
  <2>1. UNCHANGED vars => UNCHANGED Abstract!vars
    BY Zenon DEF vars, Abstract!vars
  <2> QED BY <2>1, StepIsListing, Zenon
<1> QED BY <1>1, <1>2, WalkInvariant, CoverInvariant, FrontierInvariant, PTL
        DEF Spec, ImplementsListing, Abstract!Spec

-----------------------------------------------------------------------------
(* The merge bases *)

VARIABLES a, b, flags, candidates

Bases == INSTANCE MergeBase

\* The operators on histories are the same on both sides.
LEMMA BaseNames ==
    /\ Bases!Commit = Commit /\ Bases!Time = Time /\ Bases!History = History
    /\ \A f : Bases!Range(f) = Range(f)
    /\ \A h : Bases!Reachable(h) = Reachable(h)
    /\ \A h, t : Bases!Later(h, t) = Later(h, t)
    /\ \A q, t : Bases!Pop(q, t) = Pop(q, t)
<1>1. Bases!Commit = Commit /\ Bases!Time = Time
  BY Zenon DEF Bases!Commit, Commit, Bases!Time, Time
<1>2. \A f : Bases!Range(f) = Range(f)
  BY Zenon DEF Bases!Range, Range
<1>3. Bases!History = History
  BY <1>1, Zenon DEF Bases!History, History, Bases!ParentLists, ParentLists
<1>4. \A h : Bases!Reachable(h) = Reachable(h)
  BY <1>1, Zenon DEF Bases!Reachable, Reachable, Bases!Commit, Commit, Bases!Range, Range
<1>5. \A h, t : Bases!Later(h, t) = Later(h, t)
  BY <1>1, <1>2, Zenon DEF Bases!Later, Later
<1>6. \A q, t : Bases!Pop(q, t) = Pop(q, t)
  BY Zenon DEF Bases!Pop, Pop
<1> QED BY <1>1, <1>2, <1>3, <1>4, <1>5, <1>6, Zenon

-----------------------------------------------------------------------------
(* The inductive invariant of the merge base computation *)

\* A commit that is not in the queue has passed on its flags to its parents, and
\* is a candidate if it is a common ancestor and not known to be a lower one.
Settled(c) ==
    /\ \A p \in Range(parents[c]) : Bases!ParentFlags(flags[c]) \subseteq flags[p]
    /\ Bases!IsCommon(flags[c]) /\ "STALE" \notin flags[c] => "RESULT" \in flags[c]

BaseInv ==
    /\ parents \in History /\ time \in [Commit -> Time] /\ a \in Commit /\ b \in Commit
    /\ Bases!FlagsAreTrue
    /\ \A n \in pqueue : n.index <= index
    /\ "PARENT1" \in flags[a] /\ "PARENT2" \in flags[b]
    /\ \A c \in Commit : "RESULT" \in flags[c] => c \in Range(candidates)
    /\ \A c \in Commit : (\E n \in pqueue : n.commit = c) \/ Settled(c)

\* If every commit is later than its parents, nothing in the queue is later than
\* a candidate.
BaseOrderInv ==
    Later(parents, time) => \A c \in Range(candidates) : \A n \in pqueue : time[n.commit] <= time[c]

\* push_init for the two commits.
LEMMA InitBaseInv == Bases!Init => BaseInv /\ BaseOrderInv
<1> SUFFICES ASSUME Bases!Init PROVE BaseInv /\ BaseOrderInv
  OBVIOUS
<1>1. parents \in History /\ time \in [Commit -> Time] /\ a \in Commit /\ b \in Commit
  BY BaseNames, Zenon DEF Bases!Init
<1>2. \A c \in Commit : /\ flags[c] \subseteq {"PARENT1", "PARENT2"}
                        /\ "PARENT1" \in flags[c] <=> c = a
                        /\ "PARENT2" \in flags[c] <=> c = b
  BY BaseNames, Zenon DEF Bases!Init
<1>3. flags \in [Commit -> SUBSET Bases!NodeFlags]
  BY BaseNames, Zenon DEF Bases!Init, Bases!NodeFlags
<1>4. pqueue = {[commit |-> a, index |-> 0], [commit |-> b, index |-> 1]} /\ index = 1
  BY BaseNames, Zenon DEF Bases!Init
<1>5. candidates = <<>> /\ candidates \in Seq(Commit) /\ Range(candidates) = {}
  BY BaseNames DEF Bases!Init, Range
<1>6. /\ pqueue \subseteq Bases!Node
      /\ \A m, n \in pqueue : m # n => m.index # n.index
      /\ \A n \in pqueue : n.index <= index
  BY <1>1, <1>4, BaseNames DEF Bases!Node
<1>7. Bases!TypeOK
  BY <1>3, <1>4, <1>5, <1>6, BaseNames, Zenon DEF Bases!TypeOK
<1>8. \A c \in Commit : "STALE" \notin flags[c] /\ "RESULT" \notin flags[c]
  BY <1>2, Zenon
<1>9. a \in Reachable(parents)[a] /\ b \in Reachable(parents)[b]
  BY <1>1, ReachableClosed, Zenon
<1>10. Bases!FlagsAreTrue
  BY <1>2, <1>5, <1>7, <1>8, <1>9, BaseNames, Zenon DEF Bases!FlagsAreTrue
<1>11. ASSUME NEW c \in Commit PROVE (\E n \in pqueue : n.commit = c) \/ Settled(c)
  <2>1. CASE c = a \/ c = b
    <3>1. [commit |-> a, index |-> 0] \in pqueue /\ [commit |-> b, index |-> 1] \in pqueue
      BY <1>4, Zenon
    <3> QED BY <2>1, <3>1, Zenon
  <2>2. CASE c # a /\ c # b
    <3>1. flags[c] = {}
      BY <2>2, <1>2, Zenon
    <3> QED BY <3>1, Zenon DEF Settled, Bases!ParentFlags, Bases!IsCommon
  <2> QED BY <2>1, <2>2, Zenon
<1>12. BaseInv
  BY <1>1, <1>2, <1>6, <1>8, <1>10, <1>11, Zenon DEF BaseInv
<1> QED BY <1>5, <1>12, Zenon DEF BaseOrderInv

\* What a turn of the loop does with the node that it pops.
Turn(node, c, pf) ==
    /\ c = node.commit
    /\ pf = Bases!ParentFlags(flags[c])
    /\ \A n \in pqueue : time[n.commit] <= time[c]
    /\ flags' = [d \in Commit |->
                    flags[d] \cup (IF d = c /\ Bases!IsNewCandidate(flags[c]) THEN {"RESULT"} ELSE {})
                             \cup (IF \E i \in Bases!ToPush(parents[c], pf) : d = parents[c][i] THEN pf ELSE {})]
    /\ pqueue' = (pqueue \ {node}) \cup
                     {[commit |-> parents[c][i], index |-> index + i] : i \in Bases!ToPush(parents[c], pf)}
    /\ index' = index + Len(parents[c])
    /\ candidates' = IF Bases!IsNewCandidate(flags[c]) THEN Append(candidates, c) ELSE candidates
    /\ parents' = parents /\ time' = time /\ a' = a /\ b' = b

\* Pop returns a node of the queue, and none there is later.
LEMMA StepIsTurn ==
    ASSUME BaseInv, Bases!Step
    PROVE  \E node \in pqueue : \E c \in Commit : \E pf \in SUBSET Bases!NodeFlags : Turn(node, c, pf)
<1> DEFINE node == Pop(pqueue, time)
<1>1. pqueue \in SUBSET Bases!Node /\ pqueue # {} /\ time \in [Commit -> Time]
  BY BaseNames, Zenon DEF BaseInv, Bases!FlagsAreTrue, Bases!TypeOK, Bases!Step, Bases!StillInteresting
<1>2. \A m, n \in pqueue : m # n => m.index # n.index
  BY BaseNames, Zenon DEF BaseInv, Bases!FlagsAreTrue, Bases!TypeOK
<1>3. node \in pqueue /\ \A n \in pqueue : time[n.commit] <= time[node.commit]
  BY <1>1, <1>2, PopLemma, BaseNames, Zenon DEF Bases!Node
<1>4. node.commit \in Commit
  BY <1>1, <1>3, BaseNames, Zenon DEF Bases!Node
<1>5. flags[node.commit] \in SUBSET Bases!NodeFlags
  BY <1>4, BaseNames, Zenon DEF BaseInv, Bases!FlagsAreTrue, Bases!TypeOK
<1>6. Bases!ParentFlags(flags[node.commit]) \in SUBSET Bases!NodeFlags
  BY <1>5, Zenon DEF Bases!ParentFlags, Bases!NodeFlags
<1>7. Turn(node, node.commit, Bases!ParentFlags(flags[node.commit]))
  BY <1>3, BaseNames, Zenon DEF Turn, Bases!Step, Bases!NextIndex, Bases!input
<1> HIDE DEF node
<1> QED BY <1>3, <1>4, <1>6, <1>7, Zenon

\* The same commit by commit: the flags of c are on its parents afterwards, a
\* commit whose flags change is in the queue, and only parents of c are added.
Effect(node, c, pf) ==
    /\ c = node.commit /\ pf = Bases!ParentFlags(flags[c])
    /\ flags' \in [Commit -> SUBSET Bases!NodeFlags]
    /\ flags'[c] = flags[c] \cup (IF Bases!IsNewCandidate(flags[c]) THEN {"RESULT"} ELSE {})
    /\ \A p \in Range(parents[c]) : p # c /\ p \in Commit /\ pf \subseteq flags'[p]
    /\ \A d \in Commit \ {c} :
          \/ flags'[d] = flags[d]
          \/ /\ d \in Range(parents[c])
             /\ flags'[d] = flags[d] \cup pf
             /\ \E n \in pqueue' : n.commit = d
    /\ pqueue \ {node} \subseteq pqueue'
    /\ \A n \in pqueue' : n \in pqueue \/ n.commit \in Range(parents[c])
    /\ pqueue' \subseteq Bases!Node /\ index' \in Nat
    /\ \A n \in pqueue' : n.index <= index'
    /\ \A m, n \in pqueue' : m # n => m.index # n.index
    /\ candidates' = IF Bases!IsNewCandidate(flags[c]) THEN Append(candidates, c) ELSE candidates
    /\ \A n \in pqueue : time[n.commit] <= time[c]
    /\ parents' = parents /\ time' = time /\ a' = a /\ b' = b

\* That is what a turn of the loop does.
LEMMA StepEffect ==
    ASSUME BaseInv, Bases!Step
    PROVE  \E node \in pqueue : \E c \in Commit : \E pf \in SUBSET Bases!NodeFlags : Effect(node, c, pf)
<1>1. PICK node \in pqueue, c \in Commit, pf \in SUBSET Bases!NodeFlags : Turn(node, c, pf)
  BY StepIsTurn, Zenon
<1> DEFINE push == Bases!ToPush(parents[c], pf)
<1> DEFINE ps == parents[c]
<1>2. /\ parents \in History
      /\ flags \in [Commit -> SUBSET Bases!NodeFlags] /\ pqueue \subseteq Bases!Node /\ index \in Nat
      /\ \A m, n \in pqueue : m # n => m.index # n.index
      /\ \A n \in pqueue : n.index <= index
  BY BaseNames, Zenon DEF BaseInv, Bases!FlagsAreTrue, Bases!TypeOK
<1>3. ps \in Seq(Commit)
  BY <1>2, HistoryLists, Zenon
<1>4. \A p \in Range(ps) : p \in Commit /\ p # c
  <2> TAKE p \in Range(ps)
  <2>1. p \in Commit /\ p < c
    BY <1>2, ParentsAreOlder, Zenon
  <2>2. c \in Nat
    BY GraphAssumption DEF Commit
  <2> QED BY <2>1, <2>2
<1>5. push = {i \in DOMAIN ps : flags[ps[i]] # pf}
  BY Zenon DEF Bases!ToPush
<1>6. \A i \in push : i \in 1..Len(ps) /\ i \in DOMAIN ps /\ ps[i] \in Range(ps) /\ ps[i] \in Commit
  BY <1>3, <1>5 DEF Range
<1>7. \A p \in Range(ps) : flags[p] = pf \/ \E i \in push : p = ps[i]
  BY <1>5, Zenon DEF Range
<1>8. Len(ps) \in Nat /\ DOMAIN ps = 1..Len(ps)
  BY <1>3
<1> HIDE DEF ps, push
<1>9. \A d \in Commit : flags'[d] = flags[d] \cup (IF d = c /\ Bases!IsNewCandidate(flags[c]) THEN {"RESULT"} ELSE {})
                                             \cup (IF \E i \in push : d = ps[i] THEN pf ELSE {})
  BY <1>1, Zenon DEF Turn, ps, push
<1>10. flags' \in [Commit -> SUBSET Bases!NodeFlags]
  <2>0. "RESULT" \in Bases!NodeFlags
    BY Zenon DEF Bases!NodeFlags
  <2>1. \A d \in Commit : flags'[d] \in SUBSET Bases!NodeFlags
    BY <1>2, <1>9, <2>0
  <2>2. flags' = [d \in Commit |-> flags'[d]]
    BY <1>1, Zenon DEF Turn
  <2> QED BY <2>1, <2>2, Zenon
<1>11. flags'[c] = flags[c] \cup (IF Bases!IsNewCandidate(flags[c]) THEN {"RESULT"} ELSE {})
  BY <1>4, <1>6, <1>9
<1>12. \A p \in Range(ps) : p # c /\ p \in Commit /\ pf \subseteq flags'[p]
  BY <1>4, <1>7, <1>9
<1>13. pqueue' = (pqueue \ {node}) \cup {[commit |-> ps[i], index |-> index + i] : i \in push}
  BY <1>1, Zenon DEF Turn, ps, push
<1>14. \A d \in Commit \ {c} :
          \/ flags'[d] = flags[d]
          \/ /\ d \in Range(ps)
             /\ flags'[d] = flags[d] \cup pf
             /\ \E n \in pqueue' : n.commit = d
  <2> TAKE d \in Commit \ {c}
  <2>1. CASE \E i \in push : d = ps[i]
    <3>1. PICK i \in push : d = ps[i]
      BY <2>1, Zenon
    <3>2. [commit |-> ps[i], index |-> index + i] \in pqueue'
      BY <1>13, Zenon
    <3>3. \E n \in pqueue' : n.commit = d
      BY <3>1, <3>2, Zenon
    <3>4. d \in Range(ps)
      BY <3>1, <1>6, Zenon
    <3>5. flags'[d] = flags[d] \cup pf
      BY <2>1, <1>9, Zenon
    <3> QED BY <3>3, <3>4, <3>5, Zenon
  <2>2. CASE ~(\E i \in push : d = ps[i])
    BY <2>2, <1>9, Zenon
  <2> QED BY <2>1, <2>2, Zenon
<1>15. \A n \in pqueue' : \/ n \in pqueue \ {node}
                          \/ \E i \in push : n = [commit |-> ps[i], index |-> index + i]
  BY <1>13, Zenon
<1>16. index' = index + Len(ps) /\ index' \in Nat
  BY <1>1, <1>2, <1>8 DEF Turn, ps
<1>17. \A n \in pqueue : n.index \in Nat /\ n.index <= index
  BY <1>2, BaseNames, Zenon DEF Bases!Node
<1>18. \A i \in push : index + i \in Nat /\ index < index + i /\ index + i <= index'
  BY <1>2, <1>6, <1>8, <1>16
<1>19. ASSUME NEW n \in pqueue'
       PROVE  n \in Bases!Node /\ n.index <= index' /\ (n \in pqueue \/ n.commit \in Range(ps))
  <2>1. CASE n \in pqueue \ {node}
    BY <2>1, <1>2, <1>8, <1>16, <1>17
  <2>2. CASE \E i \in push : n = [commit |-> ps[i], index |-> index + i]
    BY <2>2, <1>6, <1>18, BaseNames DEF Bases!Node
  <2> QED BY <2>1, <2>2, <1>15, Zenon
<1>20. ASSUME NEW m \in pqueue', NEW n \in pqueue', m # n
       PROVE  m.index # n.index
  <2> DEFINE New(x) == \E i \in push : x = [commit |-> ps[i], index |-> index + i]
  <2>1. \A x \in pqueue' : x \in pqueue \/ New(x)
    BY <1>15, Zenon
  <2>2. \A x : New(x) => \E i \in push : x.index = index + i
    OBVIOUS
  <2>3. CASE m \in pqueue /\ n \in pqueue
    BY <2>3, <1>2, <1>20, Zenon
  <2>4. CASE m \in pqueue /\ New(n)
    BY <2>4, <2>2, <1>2, <1>17, <1>18
  <2>5. CASE New(m) /\ n \in pqueue
    BY <2>5, <2>2, <1>2, <1>17, <1>18
  <2>6. CASE New(m) /\ New(n)
    <3>1. PICK i \in push, j \in push : /\ m = [commit |-> ps[i], index |-> index + i]
                                        /\ n = [commit |-> ps[j], index |-> index + j]
      BY <2>6, Zenon
    <3>2. i # j /\ i \in Nat /\ j \in Nat
      BY <3>1, <1>6, <1>8, <1>20
    <3> QED BY <3>1, <3>2, <1>2
  <2> HIDE DEF New
  <2> QED BY <2>1, <2>3, <2>4, <2>5, <2>6, Zenon
<1>21. pqueue \ {node} \subseteq pqueue'
  BY <1>13, Zenon
<1>22. Effect(node, c, pf)
  BY <1>1, <1>10, <1>11, <1>12, <1>14, <1>16, <1>19, <1>20, <1>21, Zenon DEF Turn, Effect, ps
<1> QED BY <1>22, Zenon

\* A turn of the loop of build_candidates keeps the invariant.
LEMMA StepBaseInv == BaseInv /\ Bases!Step => BaseInv'
<1> SUFFICES ASSUME BaseInv, Bases!Step PROVE BaseInv'
  OBVIOUS
<1> DEFINE R == Reachable(parents)
<1>1. PICK node \in pqueue, c \in Commit, pf \in SUBSET Bases!NodeFlags : Effect(node, c, pf)
  BY StepEffect, Zenon
<1>2. /\ parents \in History /\ a \in Commit /\ b \in Commit
      /\ candidates \in Seq(Commit) /\ Range(candidates) \subseteq Bases!Common
      /\ flags \in [Commit -> SUBSET Bases!NodeFlags]
  BY BaseNames, Zenon DEF BaseInv, Bases!FlagsAreTrue, Bases!TypeOK
<1>3. \A d \in Commit :
         /\ "PARENT1" \in flags[d] => d \in R[a]
         /\ "PARENT2" \in flags[d] => d \in R[b]
         /\ "STALE" \in flags[d] => \E e \in Bases!Common \ {d} : d \in R[e]
  BY BaseNames, Zenon DEF BaseInv, Bases!FlagsAreTrue
<1>4. Bases!Common' = Bases!Common
  BY <1>1, BaseNames, Zenon DEF Effect, Bases!Common
<1>5. Bases!Common = R[a] \cap R[b]
  BY BaseNames, Zenon DEF Bases!Common
<1>6. \A e \in Commit : R[e] \subseteq Commit /\ Closed(parents, R[e]) /\ e \in R[e]
  BY <1>2, ReachableClosed, Zenon
<1>7. \A e \in Commit : \A d \in R[e] : d # e => d < e
  BY <1>2, ReachableOrder, Zenon
<1>8. \A p \in Range(parents[c]) : p \in Commit /\ p < c /\ p \in R[c]
  <2>1. \A p \in Range(parents[c]) : p \in Commit /\ p < c
    BY <1>2, ParentsAreOlder, Zenon
  <2> QED BY <1>6, <2>1, Zenon DEF Closed
<1>9. Commit \subseteq Nat
  BY GraphAssumption DEF Commit
<1> HIDE DEF R
<1>10. "PARENT1" \in pf => "PARENT1" \in flags[c]
  BY <1>1, Zenon DEF Effect, Bases!ParentFlags
<1>11. "PARENT2" \in pf => "PARENT2" \in flags[c]
  BY <1>1, Zenon DEF Effect, Bases!ParentFlags
<1>12. "STALE" \in pf => "STALE" \in flags[c] \/ Bases!IsCommon(flags[c])
  BY <1>1, Zenon DEF Effect, Bases!ParentFlags
<1>13. "RESULT" \notin pf
  BY <1>1, Zenon DEF Effect, Bases!ParentFlags
<1>14. \A d \in Commit : flags[d] \subseteq flags'[d]
  BY <1>1 DEF Effect
<1>15. Bases!IsCommon(flags[c]) => c \in Bases!Common
  BY <1>3, <1>5, Zenon DEF Bases!IsCommon
<1>16. ASSUME NEW d \in Commit
       PROVE  /\ "PARENT1" \in flags'[d] => d \in R[a]
              /\ "PARENT2" \in flags'[d] => d \in R[b]
              /\ "STALE" \in flags'[d] => \E e \in Bases!Common \ {d} : d \in R[e]
  <2>1. CASE d = c \/ flags'[d] = flags[d]
    <3>1. \A f \in {"PARENT1", "PARENT2", "STALE"} : f \in flags'[d] => f \in flags[d]
      BY <2>1, <1>1, Zenon DEF Effect
    <3> QED BY <3>1, <1>3, Zenon
  <2>2. CASE d \in Range(parents[c]) /\ flags'[d] = flags[d] \cup pf
    <3>1. "PARENT1" \in flags[c] => d \in R[a]
      BY <2>2, <1>2, <1>3, <1>6, Zenon DEF Closed
    <3>2. "PARENT2" \in flags[c] => d \in R[b]
      BY <2>2, <1>2, <1>3, <1>6, Zenon DEF Closed
    <3>3. Bases!IsCommon(flags[c]) => \E e \in Bases!Common \ {d} : d \in R[e]
      <4>1. d # c /\ d \in R[c]
        BY <2>2, <1>1, <1>8, Zenon DEF Effect
      <4> QED BY <4>1, <1>15, Zenon
    <3>4. ASSUME "STALE" \in flags[c] PROVE \E e \in Bases!Common \ {d} : d \in R[e]
      <4>1. PICK e \in Bases!Common \ {c} : c \in R[e]
        BY <3>4, <1>3, Zenon
      <4>2. e \in Commit
        BY <1>2, <1>5, <1>6, Zenon
      <4>3. c < e /\ d < c /\ d \in R[e]
        BY <2>2, <4>1, <4>2, <1>6, <1>7, <1>8, Zenon DEF Closed
      <4>4. d # e
        BY <4>2, <4>3, <1>9
      <4> QED BY <4>1, <4>3, <4>4, Zenon
    <3> QED BY <2>2, <3>1, <3>2, <3>3, <3>4, <1>3, <1>10, <1>11, <1>12, Zenon
  <2> QED BY <2>1, <2>2, <1>1, Zenon DEF Effect
<1>17. /\ candidates' \in Seq(Commit)
       /\ Range(candidates) \subseteq Range(candidates')
       /\ Range(candidates') \subseteq Bases!Common
       /\ Bases!IsNewCandidate(flags[c]) => c \in Range(candidates')
  <2>1. CASE Bases!IsNewCandidate(flags[c])
    <3>1. candidates' = Append(candidates, c) /\ c \in Bases!Common
      BY <2>1, <1>1, <1>15, Zenon DEF Effect, Bases!IsNewCandidate
    <3>2. /\ Len(candidates') = Len(candidates) + 1 /\ Len(candidates) \in Nat
          /\ DOMAIN candidates = 1..Len(candidates) /\ DOMAIN candidates' = 1..Len(candidates')
          /\ candidates' \in Seq(Commit)
      BY <3>1, <1>2
    <3>3. /\ candidates'[Len(candidates) + 1] = c
          /\ \A i \in DOMAIN candidates : candidates'[i] = candidates[i]
      BY <3>1, <1>2
    <3>4. \A i \in DOMAIN candidates' : i \in DOMAIN candidates \/ i = Len(candidates) + 1
      BY <3>2
    <3>5. \A i \in DOMAIN candidates : i \in DOMAIN candidates'
      BY <3>2
    <3>6. Len(candidates) + 1 \in DOMAIN candidates'
      BY <3>2
    <3> QED BY <3>1, <3>2, <3>3, <3>4, <3>5, <3>6, <1>2, Zenon DEF Range
  <2>2. CASE ~Bases!IsNewCandidate(flags[c])
    BY <2>2, <1>1, <1>2, Zenon DEF Effect
  <2> QED BY <2>1, <2>2, Zenon
<1>18. Bases!TypeOK'
  BY <1>1, <1>17, BaseNames, Zenon DEF Effect, Bases!TypeOK, Bases!Node
<1>19. Bases!FlagsAreTrue'
  BY <1>1, <1>4, <1>16, <1>17, <1>18, BaseNames, Zenon DEF Effect, Bases!FlagsAreTrue, R
<1>20. "PARENT1" \in flags'[a'] /\ "PARENT2" \in flags'[b']
  BY <1>1, <1>2, <1>14, Zenon DEF Effect, BaseInv
<1>21. ASSUME NEW d \in Commit, "RESULT" \in flags'[d] PROVE d \in Range(candidates')
  <2>1. "RESULT" \in flags[d] => d \in Range(candidates')
    BY <1>17, Zenon DEF BaseInv
  <2>2. CASE d = c
    BY <2>1, <2>2, <1>1, <1>17, <1>21, Zenon DEF Effect
  <2>3. CASE d # c
    BY <2>1, <2>3, <1>1, <1>13, <1>21 DEF Effect
  <2> QED BY <2>2, <2>3, Zenon
<1>22. ASSUME NEW d \in Commit PROVE (\E n \in pqueue' : n.commit = d) \/ Settled(d)'
  <2>1. CASE d = c
    <3>1. Bases!ParentFlags(flags'[c]) = pf
      BY <1>1 DEF Effect, Bases!ParentFlags, Bases!IsNewCandidate, Bases!IsCommon
    <3>2. \A p \in Range(parents'[c]) : Bases!ParentFlags(flags'[c]) \subseteq flags'[p]
      BY <3>1, <1>1, Zenon DEF Effect
    <3>3. Bases!IsCommon(flags'[c]) /\ "STALE" \notin flags'[c] => "RESULT" \in flags'[c]
      BY <1>1 DEF Effect, Bases!IsNewCandidate, Bases!IsCommon
    <3> QED BY <2>1, <3>2, <3>3, Zenon DEF Settled
  <2>2. CASE d # c /\ \E n \in pqueue' : n.commit = d
    BY <2>2, Zenon
  <2>3. CASE d # c /\ ~\E n \in pqueue' : n.commit = d
    <3>1. flags'[d] = flags[d]
      BY <2>3, <1>1, Zenon DEF Effect
    <3>2. ~\E n \in pqueue : n.commit = d
      BY <2>3, <1>1, Zenon DEF Effect
    <3>3. Settled(d)
      BY <3>2, Zenon DEF BaseInv
    <3>4. \A p \in Range(parents[d]) : p \in Commit
      BY <1>2, ParentsAreOlder, Zenon
    <3>5. \A p \in Range(parents'[d]) : Bases!ParentFlags(flags'[d]) \subseteq flags'[p]
      BY <3>1, <3>3, <3>4, <1>1, <1>14, Zenon DEF Effect, Settled
    <3>6. Bases!IsCommon(flags'[d]) /\ "STALE" \notin flags'[d] => "RESULT" \in flags'[d]
      BY <3>1, <3>3, Zenon DEF Settled
    <3> QED BY <3>5, <3>6, Zenon DEF Settled
  <2> QED BY <2>1, <2>2, <2>3, Zenon
<1>23. time' \in [Commit -> Time]
  BY <1>1, Zenon DEF Effect, BaseInv
<1> QED BY <1>1, <1>2, <1>19, <1>20, <1>21, <1>22, <1>23, Zenon DEF Effect, BaseInv

\* If every commit is later than its parents, what a turn adds to the queue is
\* earlier than the commit popped, and that one is no later than any candidate.
LEMMA StepBaseOrderInv == BaseInv /\ BaseOrderInv /\ Bases!Step => BaseOrderInv'
<1> SUFFICES ASSUME BaseInv, BaseOrderInv, Bases!Step PROVE BaseOrderInv'
  OBVIOUS
<1>1. PICK node \in pqueue, c \in Commit, pf \in SUBSET Bases!NodeFlags : Effect(node, c, pf)
  BY StepEffect, Zenon
<1>2. parents' = parents /\ time' = time
  BY <1>1, Zenon DEF Effect
<1>3. SUFFICES ASSUME Later(parents, time), NEW x \in Range(candidates'), NEW n \in pqueue'
               PROVE  time[n.commit] <= time[x]
  BY <1>2, Zenon DEF BaseOrderInv, Later
<1>4. parents \in History /\ candidates \in Seq(Commit) /\ Range(candidates) \subseteq Commit
  BY BaseNames DEF BaseInv, Bases!FlagsAreTrue, Bases!TypeOK, Range
<1>5. \A y \in Commit : time[y] \in Nat
  <2>1. \A y \in Commit : time[y] \in Time
    BY Zenon DEF BaseInv
  <2> QED BY <2>1, TimeFacts, Zenon
<1>6. x \in Range(candidates) \/ x = c
  <2>1. CASE candidates' = Append(candidates, c)
    BY <2>1, <1>3, <1>4 DEF Range
  <2>2. CASE candidates' = candidates
    BY <2>2, <1>3, Zenon
  <2> QED BY <2>1, <2>2, <1>1, Zenon DEF Effect
<1>7. time[c] <= time[x] /\ x \in Commit
  <2>1. CASE x \in Range(candidates)
    BY <2>1, <1>1, <1>3, <1>4, Zenon DEF BaseOrderInv, Effect
  <2>2. CASE x = c
    BY <2>2, <1>5
  <2> QED BY <2>1, <2>2, <1>6, Zenon
<1>8. time[n.commit] <= time[c] /\ n.commit \in Commit
  <2>1. n.commit \in Commit
    BY <1>1, BaseNames, Zenon DEF Effect, Bases!Node
  <2>2. CASE n \in pqueue
    BY <2>1, <2>2, <1>1, Zenon DEF Effect
  <2>3. CASE n.commit \in Range(parents[c])
    <3>1. time[n.commit] < time[c]
      BY <2>3, <1>3, Zenon DEF Later
    <3> QED BY <2>1, <3>1, <1>5
  <2> QED BY <2>2, <2>3, <1>1, <1>3, Zenon DEF Effect
<1> QED BY <1>5, <1>7, <1>8

\* The invariant holds for every history and every two commits.
THEOREM BaseInvariant == Bases!Spec => [](BaseInv /\ BaseOrderInv)
<1>1. Bases!Init => BaseInv /\ BaseOrderInv
  BY InitBaseInv, Zenon
<1>2. BaseInv /\ BaseOrderInv /\ [Bases!Step]_(Bases!vars) => (BaseInv /\ BaseOrderInv)'
  <2> SUFFICES ASSUME BaseInv, BaseOrderInv, UNCHANGED Bases!vars PROVE (BaseInv /\ BaseOrderInv)'
    BY StepBaseInv, StepBaseOrderInv, Zenon
  <2> QED BY BaseNames, Zenon DEF Bases!vars, BaseInv, BaseOrderInv, Bases!FlagsAreTrue, Bases!TypeOK, Bases!Common, Later, Settled, Bases!Node
<1> QED BY <1>1, <1>2, PTL DEF Bases!Spec

\* Comparing two nodes of the queue never gets to the bug!() of CommitNode::cmp, a
\* candidate is a common ancestor, and each flag tells the truth, whatever the
\* timestamps.
THEOREM FlagsTellTruth == Bases!Spec => []Bases!FlagsAreTrue
<1>1. BaseInv => Bases!FlagsAreTrue
  BY Zenon DEF BaseInv
<1> QED BY <1>1, BaseInvariant, PTL

-----------------------------------------------------------------------------
(* The bases *)

\* A best common ancestor is not stale, and neither is a commit through which one
\* of the two reaches it, as a stale one is below another common ancestor.
LEMMA AboveBestNotStale ==
    ASSUME BaseInv, NEW x \in Bases!Best, NEW y \in Commit, x \in Reachable(parents)[y]
    PROVE  "STALE" \notin flags[y]
<1> DEFINE R == Reachable(parents)
<1>1. /\ parents \in History /\ a \in Commit
      /\ "STALE" \in flags[y] => \E d \in Bases!Common \ {y} : y \in R[d]
  BY BaseNames, Zenon DEF BaseInv, Bases!FlagsAreTrue
<1>2. SUFFICES ASSUME NEW d \in Bases!Common \ {y}, y \in R[d] PROVE FALSE
  BY <1>1, Zenon
<1>3. x \in Bases!Common /\ \A e \in Bases!Common \ {x} : x \notin R[e]
  BY BaseNames, Zenon DEF Bases!Best
<1>4. d \in Commit
  BY <1>1, ReachableClosed, BaseNames, Zenon DEF Bases!Common
<1>5. R[y] \subseteq R[d] /\ y < d
  BY <1>1, <1>2, <1>4, ReachableOrder, Zenon
<1>6. d = x
  BY <1>3, <1>5, Zenon
<1>7. x # y => x < y
  BY <1>1, ReachableOrder, Zenon
<1>8. d \in Nat /\ y \in Nat
  BY <1>4, GraphAssumption DEF Commit
<1> QED BY <1>5, <1>6, <1>7, <1>8

\* When the loop stops, the flag of each of the two has come down to every best
\* common ancestor: all the commits above it on the way have passed it on.
LEMMA BestIsFlagged ==
    ASSUME BaseInv, ~Bases!StillInteresting, NEW x \in Bases!Best
    PROVE  x \in Commit /\ Bases!IsCommon(flags[x]) /\ Settled(x) /\ "STALE" \notin flags[x]
<1> DEFINE R == Reachable(parents)
<1>1. parents \in History /\ a \in Commit /\ b \in Commit
  BY Zenon DEF BaseInv
<1>2. x \in R[a] /\ x \in R[b] /\ x \in Commit
  BY <1>1, ReachableClosed, BaseNames, Zenon DEF Bases!Best, Bases!Common
<1>3. ASSUME NEW y \in Commit, x \in R[y] PROVE "STALE" \notin flags[y] /\ Settled(y)
  <2>1. "STALE" \notin flags[y]
    BY <1>3, AboveBestNotStale, Zenon
  <2>2. ~\E n \in pqueue : n.commit = y
    BY <2>1, Zenon DEF Bases!StillInteresting
  <2> QED BY <2>1, <2>2, Zenon DEF BaseInv
<1>4. ASSUME NEW f \in {"PARENT1", "PARENT2"}, NEW top \in Commit, f \in flags[top], x \in R[top]
      PROVE  f \in flags[x]
  <2> DEFINE S == {y \in Commit : x \in R[y] => f \in flags[y]}
  <2>1. Closed(parents, S)
    <3> SUFFICES ASSUME NEW y \in S, NEW q \in Range(parents[y]), x \in R[q]
                 PROVE  q \in Commit /\ f \in flags[q]
      BY <1>1, ParentsAreOlder, Zenon DEF Closed
    <3>1. q \in Commit /\ y \in Commit
      BY <1>1, ParentsAreOlder, Zenon
    <3>2. x \in R[y]
      BY <1>1, <3>1, ReachableUnfolds
    <3>3. f \in flags[y] /\ Settled(y)
      BY <1>3, <3>1, <3>2, Zenon
    <3>4. f \in Bases!ParentFlags(flags[y])
      BY <3>3, Zenon DEF Bases!ParentFlags
    <3> QED BY <3>1, <3>3, <3>4, Zenon DEF Settled
  <2>2. top \in S
    BY <1>4, Zenon
  <2>3. R[top] \subseteq S
    <3> HIDE DEF S
    <3> QED BY <1>1, <2>1, <2>2, ReachableLeast, Zenon
  <2>4. x \in R[x]
    BY <1>1, <1>2, ReachableClosed, Zenon
  <2> QED BY <1>4, <2>3, <2>4, Zenon
<1>5. "PARENT1" \in flags[x]
  BY <1>1, <1>2, <1>4, Zenon DEF BaseInv
<1>6. "PARENT2" \in flags[x]
  BY <1>1, <1>2, <1>4, Zenon DEF BaseInv
<1>7. x \in R[x]
  BY <1>1, <1>2, ReachableClosed, Zenon
<1> QED BY <1>2, <1>3, <1>5, <1>6, <1>7, Zenon DEF Bases!IsCommon

\* A common ancestor above which there is another one is below a best one.
LEMMA BelowBest ==
    ASSUME parents \in History, a \in Commit, NEW x \in Commit,
           NEW d \in Bases!Common \ {x}, x \in Reachable(parents)[d]
    PROVE  \E e \in Bases!Best : e \in Commit /\ e # x /\ x \in Reachable(parents)[e]
<1> DEFINE R == Reachable(parents)
<1>0. N \in Nat /\ Commit = 1..N /\ Bases!Common \subseteq Commit
  BY GraphAssumption, ReachableClosed, BaseNames, Zenon DEF Commit, Bases!Common
<1> DEFINE Above == {e \in Bases!Common \ {x} : x \in R[e]}
<1> DEFINE Depth == {N - e : e \in Above}
<1>1. d \in Above
  OBVIOUS
<1>2. Depth \in SUBSET Nat /\ Depth # {}
  <2>1. \A e \in Above : N - e \in Nat
    BY <1>0
  <2> HIDE DEF Above
  <2> QED BY <1>1, <2>1, Zenon
<1>3. PICK k \in Depth : \A j \in Depth : k <= j
  <2> HIDE DEF Depth
  <2> QED BY <1>2, NatMin, Zenon
<1>4. PICK e \in Above : k = N - e
  OBVIOUS
<1>5. \A y \in Above : y <= e
  <2> TAKE y \in Above
  <2>1. N - y \in Depth /\ y \in Commit /\ e \in Commit
    BY <1>0, <1>4, Zenon
  <2>2. N - e <= N - y
    BY <1>3, <1>4, <2>1, Zenon
  <2> QED BY <1>0, <2>1, <2>2
<1>6. e \in Commit /\ e \in Bases!Common /\ x \in R[e] /\ e # x
  BY <1>0, <1>4, Zenon
<1>7. ASSUME NEW y \in Bases!Common \ {e}, e \in R[y] PROVE FALSE
  <2>1. y \in Commit /\ R[e] \subseteq R[y] /\ e < y
    BY <1>0, <1>7, ReachableOrder, Zenon
  <2>2. x # y
    <3>1. x < e
      BY <1>6, ReachableOrder, Zenon
    <3> QED BY <2>1, <3>1, <1>0, <1>6
  <2>3. y \in Above
    BY <1>6, <2>1, <2>2, Zenon
  <2> HIDE DEF Above
  <2> QED BY <1>0, <1>5, <1>6, <2>1, <2>3
<1>8. e \in Bases!Best
  BY <1>6, <1>7, BaseNames, Zenon DEF Bases!Best
<1> QED BY <1>6, <1>8, Zenon

\* Under every best common ancestor that was found, STALE has come down to each
\* candidate when the loop stops: a stale commit that is still in the queue is no
\* later than any candidate, so it is above none.
LEMMA BelowBestIsStale ==
    ASSUME BaseInv, BaseOrderInv, ~Bases!StillInteresting, Later(parents, time),
           NEW x \in Range(candidates), NEW e \in Bases!Best, e \in Commit, e # x,
           x \in Reachable(parents)[e]
    PROVE  "STALE" \in flags[x]
<1> DEFINE R == Reachable(parents)
<1>1. parents \in History /\ time \in [Commit -> Time] /\ pqueue \subseteq Bases!Node
  BY BaseNames, Zenon DEF BaseInv, Bases!FlagsAreTrue, Bases!TypeOK
<1>2. Bases!IsCommon(flags[e]) /\ Settled(e) /\ x \in Commit
  BY <1>1, BestIsFlagged, ReachableClosed, Zenon
<1>3. PICK p \in Range(parents[e]) : x \in R[p]
  BY <1>1, ReachableOrder, Zenon
<1>4. p \in Commit /\ "STALE" \in flags[p]
  <2>1. "STALE" \in Bases!ParentFlags(flags[e])
    BY <1>2, Zenon DEF Bases!ParentFlags
  <2> QED BY <1>1, <1>2, <2>1, ParentsAreOlder, Zenon DEF Settled
<1>5. ASSUME NEW y \in Commit, x \in R[y], x # y PROVE Settled(y)
  <2>1. time[x] < time[y] /\ time[x] \in Nat /\ time[y] \in Nat
    BY <1>1, <1>5, ReachableIsEarlier, Zenon
  <2>2. ASSUME NEW n \in pqueue, n.commit = y PROVE FALSE
    <3>1. time[n.commit] <= time[x]
      BY Zenon DEF BaseOrderInv
    <3> QED BY <2>1, <2>2, <3>1
  <2> QED BY <2>2, Zenon DEF BaseInv
<1> DEFINE S == {y \in Commit : x \in R[y] => "STALE" \in flags[y]}
<1>6. Closed(parents, S)
  <2> SUFFICES ASSUME NEW y \in S, NEW q \in Range(parents[y]), x \in R[q]
               PROVE  q \in Commit /\ "STALE" \in flags[q]
    BY <1>1, ParentsAreOlder, Zenon DEF Closed
  <2>1. q \in Commit /\ y \in Commit /\ q < y
    BY <1>1, ParentsAreOlder, Zenon
  <2>2. x \in R[y]
    BY <1>1, <2>1, ReachableUnfolds
  <2>3. x # y
    <3>1. x = q \/ x < q
      BY <1>1, <2>1, ReachableOrder, Zenon
    <3>2. x \in Nat /\ q \in Nat /\ y \in Nat
      BY <1>2, <2>1, GraphAssumption DEF Commit
    <3> QED BY <2>1, <3>1, <3>2
  <2>4. "STALE" \in flags[y] /\ Settled(y)
    BY <1>5, <2>1, <2>2, <2>3, Zenon
  <2>5. "STALE" \in Bases!ParentFlags(flags[y])
    BY <2>4, Zenon DEF Bases!ParentFlags
  <2> QED BY <2>1, <2>4, <2>5, Zenon DEF Settled
<1>7. p \in S
  BY <1>4, Zenon
<1>8. R[p] \subseteq S
  <2> HIDE DEF S
  <2> QED BY <1>1, <1>4, <1>6, <1>7, ReachableLeast, Zenon
<1>9. x \in R[x]
  BY <1>1, <1>2, ReachableClosed, Zenon
<1> QED BY <1>3, <1>8, <1>9, Zenon

\* When still_interesting ends the loop, every best common ancestor is among the
\* merge bases, whatever the timestamps; and nothing else is when every commit is
\* later than its parents.
THEOREM MergeBasesAreBest == Bases!Spec => []Bases!BasesAreBest
<1>1. BaseInv /\ BaseOrderInv => Bases!BasesAreBest
  <2> SUFFICES ASSUME BaseInv, BaseOrderInv, ~Bases!StillInteresting
               PROVE  /\ Bases!Best \subseteq Bases!MergeBases
                      /\ Later(parents, time) => Bases!MergeBases \subseteq Bases!Best
    BY BaseNames, Zenon DEF Bases!BasesAreBest
  <2>1. ASSUME NEW x \in Bases!Best PROVE x \in Bases!MergeBases
    <3>1. x \in Commit /\ "RESULT" \in flags[x] /\ "STALE" \notin flags[x]
      BY BestIsFlagged, Zenon DEF Settled
    <3> QED BY <3>1, BaseNames, Zenon DEF BaseInv, Bases!MergeBases
  <2>2. ASSUME Later(parents, time), NEW x \in Bases!MergeBases PROVE x \in Bases!Best
    <3>1. x \in Range(candidates) /\ "STALE" \notin flags[x]
      BY BaseNames, Zenon DEF Bases!MergeBases
    <3>2. x \in Bases!Common /\ parents \in History /\ a \in Commit
      BY <3>1, BaseNames, Zenon DEF BaseInv, Bases!FlagsAreTrue
    <3>3. x \in Commit
      BY <3>2, ReachableClosed, BaseNames, Zenon DEF Bases!Common
    <3>4. ASSUME NEW d \in Bases!Common \ {x}, x \in Reachable(parents)[d] PROVE FALSE
      <4>1. PICK e \in Bases!Best : e \in Commit /\ e # x /\ x \in Reachable(parents)[e]
        BY <3>2, <3>3, <3>4, BelowBest, Zenon
      <4>2. "STALE" \in flags[x]
        BY <2>2, <3>1, <4>1, BelowBestIsStale, Zenon
      <4> QED BY <3>1, <4>2, Zenon
    <3> QED BY <3>2, <3>4, BaseNames, Zenon DEF Bases!Best
  <2> QED BY <2>1, <2>2, Zenon
<1> QED BY <1>1, BaseInvariant, PTL

=============================================================================
