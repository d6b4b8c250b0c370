------------------------------ MODULE MCMerge ------------------------------
EXTENDS Merge, TLC

CONSTANTS v1, v2, v3

a == <<"a">>
aRs == <<"a.rs">>
ax == <<"a", "x">>
ay == <<"a", "y">>
aHead == <<"a~HEAD">>
aTheirs == <<"a~theirs">>
b == <<"b">>

MCByteOrder ==
    <<a, aRs, Append(a, ""), ax, ay, aHead, Append(aHead, ""), Append(aHead, "x"), aTheirs, b>>

MCIgnored == {ay}

\* a.rs lies between a and a/.
MCSiblings == {{aRs, ax}}

MCFamily == {{a, ax, b}, {a, ax, ay}} \cup MCSiblings

MCCase == {[files |-> {a, ax, ay}, blobs |-> {v1, v2}, edits |-> {a, ax, ay}, bases |-> 1],
           [files |-> {ax}, blobs |-> {v1, v2, v3}, edits |-> {ax}, bases |-> 1],
           [files |-> {a, ax}, blobs |-> {v1, v2}, edits |-> {}, bases |-> 2]}

MCAside == [HEAD |-> a :> <<aHead>>, theirs |-> a :> <<aTheirs>>]

Symmetry == Permutations({v1, v2})

=============================================================================
