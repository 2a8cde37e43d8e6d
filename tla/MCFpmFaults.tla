----------------------------- MODULE MCFpmFaults ------------------------------
EXTENDS FpmFaults

(* A clock that may be right, two seconds slow or three seconds fast. *)
SetOrNot == {-2, 0, 3}

(* A clock that nobody sets. *)
NeverSet == {0}
=============================================================================
