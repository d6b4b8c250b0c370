----------------------------- MODULE CommitGraph -----------------------------
(****************************************************************************)
(* Histories of commits, the input of the walks over them.  Commits are     *)
(* numbered so that a commit's parents have smaller numbers: every history  *)
(* without cycles can be.  The order of a commit's parents is kept, as the  *)
(* walks enqueue them in that order.                                        *)
(****************************************************************************)
EXTENDS Integers, Sequences, Functions

CONSTANTS
    N,         \* the number of commits
    MaxTime    \* committer timestamps are 1..MaxTime

ASSUME GraphAssumption ==
    /\ N \in Nat \ {0}
    /\ MaxTime \in Nat \ {0}

Commit == 1..N
Time == 1..MaxTime

ParentLists(c) ==
    LET older == 1..(c - 1)
    IN  {<<>>} \cup {<<p>> : p \in older} \cup {pq \in older \X older : pq[1] # pq[2]}

\* Every history, each commit with at most two parents.
History == {h \in [Commit -> ParentLists(N)] : \A c \in Commit : h[c] \in ParentLists(c)}

\* Every commit is later than its parents: mk_commit ensures that it is no
\* earlier, and it is later if it was not made within the same second.
Later(parents, time) == \A c \in Commit : \A p \in Range(parents[c]) : time[p] < time[c]

\* The commits that can be reached from each commit, itself included.
Reachable(parents) ==
    LET R[c \in Commit] == {c} \cup UNION {R[p] : p \in Range(parents[c])}
    IN  R

\* A queue that only looks at the index.
PopFifo(queue, time) ==
    CHOOSE node \in queue : \A other \in queue \ {node} : node.index < other.index

\* BinaryHeap::pop with CommitNode's order: the latest timestamp first, then
\* the lowest index.
Pop(queue, time) ==
    CHOOSE node \in queue : \A other \in queue \ {node} :
        \/ time[other.commit] < time[node.commit]
        \/ time[other.commit] = time[node.commit] /\ node.index < other.index

=============================================================================
