------------------------------ MODULE MergeBase ------------------------------
(****************************************************************************)
(* The merge bases of two commits (MergeBaseCtxt of merge.rs): a walk from  *)
(* both at once that paints each commit with the sides that reach it, and   *)
(* with STALE everything below a common ancestor already found.             *)
(****************************************************************************)
EXTENDS CommitGraph

VARIABLES
    parents, time,   \* the history
    a, b,            \* the two commits
    flags,           \* node_flags: the flags of each commit
    pqueue, index,   \* a commit may be in the queue several times
    candidates

input == <<parents, time, a, b>>
vars == <<parents, time, a, b, flags, pqueue, index, candidates>>

NodeFlags == {"PARENT1", "PARENT2", "RESULT", "STALE"}
Node == [commit : Commit, index : Nat]

\* push_init for each of the two.
Init ==
    /\ parents \in History
    /\ time \in [Commit -> Time]
    /\ a \in Commit /\ b \in Commit
    /\ flags = [c \in Commit |-> {f \in {"PARENT1", "PARENT2"} :
                                      \/ f = "PARENT1" /\ c = a
                                      \/ f = "PARENT2" /\ c = b}]
    /\ pqueue = {[commit |-> a, index |-> 0], [commit |-> b, index |-> 1]}
    /\ index = 1
    /\ candidates = <<>>

StillInteresting == \E node \in pqueue : "STALE" \notin flags[node.commit]

\* Either side, instead of both (intersects for contains).
IsCommonEither(fs) == fs \cap {"PARENT1", "PARENT2"} # {}

IsCommon(fs) == {"PARENT1", "PARENT2"} \subseteq fs

\* What a commit with flags fs passes on to its parents.
ParentFlags(fs) == (fs \ {"RESULT"}) \cup (IF IsCommon(fs) THEN {"STALE"} ELSE {})

\* A common ancestor becomes a candidate once, unless one above it is.
IsNewCandidate(fs) == IsCommon(fs) /\ "RESULT" \notin fs /\ "STALE" \notin fs

\* A parent is pushed the first time only.
ToPushUnseen(ps, pf) == {i \in DOMAIN ps : flags[ps[i]] = {}}

\* The parents that flags pf are news to, and are pushed again.  The
\* comparison is of all the flags, so one that has more than pf is pushed too.
ToPush(ps, pf) == {i \in DOMAIN ps : flags[ps[i]] # pf}

NextIndex(ps) == index + Len(ps)

\* One turn of the loop of build_candidates.
Step ==
    /\ StillInteresting
    /\ LET node == Pop(pqueue, time)
           c == node.commit
           ps == parents[c]
           pf == ParentFlags(flags[c])
           new == IsNewCandidate(flags[c])
           push == ToPush(ps, pf)
       IN  /\ flags' = [d \in Commit |->
                           flags[d] \cup (IF d = c /\ new THEN {"RESULT"} ELSE {})
                                    \cup (IF \E i \in push : d = ps[i] THEN pf ELSE {})]
           /\ pqueue' = (pqueue \ {node}) \cup
                            {[commit |-> ps[i], index |-> index + i] : i \in push}
           /\ index' = NextIndex(ps)
           /\ candidates' = IF new THEN Append(candidates, c) ELSE candidates
    /\ UNCHANGED input

Spec == Init /\ [][Step]_vars

\* merge_bases_all: the candidates that did not turn out to be stale.
MergeBases == {c \in Range(candidates) : "STALE" \notin flags[c]}

-----------------------------------------------------------------------------
(* Properties *)

\* Besides the types: the indices of the queue are unique, so that comparing
\* two nodes never gets to the bug!() of CommitNode::cmp.
TypeOK ==
    /\ flags \in [Commit -> SUBSET NodeFlags]
    /\ pqueue \subseteq Node
    /\ index \in Nat
    /\ candidates \in Seq(Commit)
    /\ \A m, n \in pqueue : m # n => m.index # n.index

Common == Reachable(parents)[a] \cap Reachable(parents)[b]

\* The common ancestors that cannot be reached from another one.
Best == {c \in Common : \A d \in Common \ {c} : c \notin Reachable(parents)[d]}

\* The state is well formed, a candidate is a common ancestor, and the flags of
\* a commit tell the truth: a side's flag is only on its ancestors, STALE only
\* on what can be reached from another common ancestor (merge_bases_all).
FlagsAreTrue ==
    /\ TypeOK
    /\ \A c \in Commit :
          /\ "PARENT1" \in flags[c] => c \in Reachable(parents)[a]
          /\ "PARENT2" \in flags[c] => c \in Reachable(parents)[b]
          /\ "STALE" \in flags[c] =>
                 \E d \in Common \ {c} : c \in Reachable(parents)[d]
    /\ Range(candidates) \subseteq Common

\* When the loop stops, with only stale commits in the queue, every best common
\* ancestor has been found, whatever the clocks said; and nothing else is left
\* when every commit is later than its parents.  A merge with a lower base
\* brings back changes that one side has undone (still_interesting).
BasesAreBest ==
    ~StillInteresting =>
        /\ Best \subseteq MergeBases
        /\ Later(parents, time) => MergeBases \subseteq Best

=============================================================================
