----------------------------- MODULE MCFpmMaster -----------------------------
(* Instances of FpmMaster for TLC. *)
EXTENDS FpmMaster, TLC

CONSTANTS p1, p2, p3, a, b

OneEach    == a :> 1 @@ b :> 1
TwoInOne   == a :> 2

PidSymmetry == Permutations(Pid)
=============================================================================
