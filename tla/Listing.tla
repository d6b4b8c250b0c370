------------------------------- MODULE Listing -------------------------------
(****************************************************************************)
(* What log and rev-list promise of the commits they list, whatever walk    *)
(* finds them (the comments of rev/revwalk.rs): each is listed once, and,   *)
(* if every commit is later than its parents, the next one is always the    *)
(* latest that is left of the commits that can be reached from a root and   *)
(* from no excluded commit.  With clocks that disagree with the history all *)
(* that is promised is that a listed commit can be reached from a root.     *)
(* The order in which the arguments are given does not matter.              *)
(****************************************************************************)
EXTENDS CommitGraph

VARIABLES
    parents, time,    \* the history
    roots, exclude,   \* the arguments, as sets
    listed            \* the commits listed so far

vars == <<parents, time, roots, exclude, listed>>

Below(set) == UNION {Reachable(parents)[c] : c \in set}

Left == Below(roots) \ (Below(exclude) \cup Range(listed))

Init ==
    /\ parents \in History
    /\ time \in [Commit -> Time]
    /\ roots \in (SUBSET Commit) \ {{}}
    /\ exclude \in SUBSET Commit
    /\ listed = <<>>

List(c) ==
    /\ c \in Below(roots) \ Range(listed)
    /\ Later(parents, time) => c \in Left /\ \A d \in Left : time[d] <= time[c]
    /\ listed' = Append(listed, c)
    /\ UNCHANGED <<parents, time, roots, exclude>>

Spec == Init /\ [][\E c \in Commit : List(c)]_vars
=============================================================================
