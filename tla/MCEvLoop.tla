------------------------------- MODULE MCEvLoop -------------------------------
EXTENDS EvLoop, TLC

(* The clock may be set back by two and on by one. *)
Set == {-2, 1}

Symmetry == Permutations(Io) \cup Permutations(Timer) \cup Permutations(Fd)
=============================================================================
