----------------------------- MODULE MCWorktree -----------------------------
EXTENDS Worktree, TLC

CONSTANTS d1, d2, d3, p1, p2

MCFileOrder == <<"f", "g">>
MCSize == d1 :> 1 @@ d2 :> 1 @@ d3 :> 2

Symmetry == Permutations({p1, p2}) \cup Permutations({d1, d2})

=============================================================================
