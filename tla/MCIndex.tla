------------------------------- MODULE MCIndex -------------------------------
(* Small instances of Index. *)
EXTENDS Index, TLC

CONSTANTS o1, o2

\* foo may be a file or a directory two levels deep; foo-x sorts between foo
\* and what is beneath it.
NestedPaths ==
    << <<"foo">>, <<"foo-x">>, <<"foo", "a">>, <<"foo", "a", "b">>, <<"foo", "c">> >>

Symmetry == Permutations({o1, o2})
=============================================================================
