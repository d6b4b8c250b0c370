------------------------------- MODULE MCRefDb -------------------------------
(* A small instance of RefDb. *)
EXTENDS RefDb, TLC

CONSTANTS p1, p2, master, topic

\* ^, ^2, ~2, @{1} and @{1}^
MCSuffixes ==
    {<<>>, <<<<"^", 1>>>>, <<<<"^", 2>>>>, <<<<"~", 2>>>>, <<<<"@", 1>>>>, <<<<"@", 1>>, <<"^", 1>>>>}

MCBound ==
    [one \in BOOLEAN |-> IF one THEN [commits |-> 3, log |-> 5] ELSE [commits |-> 2, log |-> 1]]

Symmetry == Permutations(Proc)
=============================================================================
