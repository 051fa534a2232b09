----------------------------- MODULE MCConntrack -----------------------------
(* Instances of Conntrack for TLC.  Entries of different keys never touch  *)
(* each other, so one flow is enough; two CPUs race on it.                 *)
EXTENDS Conntrack, TLC

Symmetry == Permutations(Cpus)
=============================================================================
