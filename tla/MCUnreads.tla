----------------------------- MODULE MCUnreads -----------------------------
(* Instances of Unreads for TLC.  Users differ in whether they leave. *)
EXTENDS Unreads, TLC

All == {User}

Symmetry == Permutations(Msg) \cup Permutations(Mark)
===========================================================================
