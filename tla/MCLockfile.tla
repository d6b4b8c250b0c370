---- MODULE MCLockfile ----
(* Lockfile for TLC: paths are refs of one directory. *)
EXTENDS Lockfile, TLC

OnePath == {[stem |-> "master", ext |-> ""]}

Symmetry == Permutations(Proc)
====
