------------------------------- MODULE RevWalk -------------------------------
(****************************************************************************)
(* The revision walk behind log and rev-list (rev/revwalk.rs): a priority   *)
(* queue of commits, and flags that say which were enqueued, which were     *)
(* taken out, and which are uninteresting.                                  *)
(*                                                                          *)
(* The history, the roots and the excluded commits are any.  An index is    *)
(* drawn for every parent of a commit, for one already enqueued too: only   *)
(* the order of the indices matters.                                        *)
(****************************************************************************)
EXTENDS CommitGraph

CONSTANTS MaxRoots, MaxExclude  \* bounds on the numbers of roots and of excluded commits

ASSUME RevWalkAssumption == MaxRoots \in Nat \ {0} /\ MaxExclude \in Nat

VARIABLES
    parents, time,    \* the history
    roots, exclude,   \* the arguments, as sequences
    enqueued, yielded, uninteresting,  \* the commits with that flag
    pqueue, index,
    out               \* the commits returned by next so far

input == <<parents, time, roots, exclude>>
vars == <<parents, time, roots, exclude, enqueued, yielded, uninteresting, pqueue, index, out>>

Node == [commit : Commit, index : Nat]

Lists(lengths) == UNION {[1..n -> Commit] : n \in lengths}

\* RevWalkBuilder::build: the excluded commits are enqueued first; a commit
\* given twice keeps its first place and its first flags.
Init ==
    /\ parents \in History
    /\ time \in [Commit -> Time]
    /\ roots \in Lists(1..MaxRoots)
    /\ exclude \in Lists(0..MaxExclude)
    /\ LET given == exclude \o roots
           first == {i \in DOMAIN given : \A j \in 1..(i - 1) : given[j] # given[i]}
       IN  /\ pqueue = {[commit |-> given[i], index |-> i] : i \in first}
           /\ index = Len(given)
           /\ enqueued = Range(given)
    /\ uninteresting = Range(exclude)
    /\ yielded = {}
    /\ out = <<>>

\* Stopping at the first uninteresting commit.
StillInterestingTop ==
    pqueue # {} /\ Pop(pqueue, time).commit \notin uninteresting

StillInteresting == \E node \in pqueue : node.commit \notin uninteresting

\* Enqueueing without a look at the flags.
EnqueueAgain(node, ps) ==
    /\ pqueue' = (pqueue \ {node}) \cup
                     {[commit |-> ps[i], index |-> index + i] : i \in DOMAIN ps}
    /\ enqueued' = enqueued \cup Range(ps)
    /\ index' = index + Len(ps)

\* The same without a new index for each.
EnqueueSameIndex(node, ps) ==
    /\ pqueue' = (pqueue \ {node}) \cup
                     {[commit |-> ps[i], index |-> index] :
                          i \in {j \in DOMAIN ps : ps[j] \notin enqueued}}
    /\ enqueued' = enqueued \cup Range(ps)
    /\ index' = index + 1

\* node has been taken out, and enqueue_commit is called for each of ps.
EnqueueCommits(node, ps) ==
    /\ pqueue' = (pqueue \ {node}) \cup
                     {[commit |-> ps[i], index |-> index + i] :
                          i \in {j \in DOMAIN ps : ps[j] \notin enqueued}}
    /\ enqueued' = enqueued \cup Range(ps)
    /\ index' = index + Len(ps)

\* Excluding a commit but not its ancestors.
MarkNothing(c) == UNCHANGED uninteresting

MarkParentsUninteresting(c) == uninteresting' = uninteresting \cup Range(parents[c])

\* One turn of the loop of next.
Step ==
    /\ StillInteresting
    /\ LET node == Pop(pqueue, time)
           c == node.commit
       IN  /\ EnqueueCommits(node, parents[c])
           /\ yielded' = yielded \cup {c}
           /\ IF c \in uninteresting
              THEN MarkParentsUninteresting(c) /\ UNCHANGED out
              ELSE out' = Append(out, c) /\ UNCHANGED uninteresting
    /\ UNCHANGED input

Spec == Init /\ [][Step]_vars

-----------------------------------------------------------------------------
(* Properties *)

\* Besides the types: two nodes in the queue have different indices, so that
\* comparing them never gets to the bug!() of CommitNode::cmp.
TypeOK ==
    /\ enqueued \subseteq Commit
    /\ yielded \subseteq Commit
    /\ uninteresting \subseteq Commit
    /\ pqueue \subseteq Node
    /\ index \in Nat
    /\ out \in Seq(Commit)
    /\ \A m, n \in pqueue : m # n => m.index # n.index

\* No commit is yielded twice, however many of its children lead to it
\* (the ENQUEUED and YIELDED flags), whatever the clocks said.
EachOnce == \A i, j \in 1..Len(out) : i # j => out[i] # out[j]

ReachableFrom(list) == UNION {Reachable(parents)[c] : c \in Range(list)}

\* When the walk stops, every commit that can be reached from a root and from
\* no excluded commit has been yielded: stopping as soon as the queue holds
\* only uninteresting commits misses nothing, whatever the clocks said.
NothingMissed ==
    ~StillInteresting => ReachableFrom(roots) \ ReachableFrom(exclude) \subseteq Range(out)

\* revwalk.rs:273-274: commits come "in reverse chronological order" and
\* "parents commits are guaranteed to be yielded only after *all* their children
\* have been yielded".  With equal timestamps, which commit allows, that is not
\* so (revwalk.rs:40-49); this is for commits that are later than their parents.
ChildrenFirst ==
    Later(parents, time) => \A i, j \in 1..Len(out) : i < j =>
        /\ time[out[i]] >= time[out[j]]
        /\ out[i] \notin Range(parents[out[j]])

Abstract == INSTANCE Listing
                WITH roots <- Range(roots), exclude <- Range(exclude), listed <- out

\* The walk implements the listing: with commits that are later than their
\* parents, each commit next yields is the latest of all that remain to be
\* listed, and none that an excluded commit reaches, though the queue only
\* holds what the walk has come to so far and marks are only spread from the
\* commits it has taken out (next, mark_parents_uninteresting).
ImplementsListing == Abstract!Spec

=============================================================================
