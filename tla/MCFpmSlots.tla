------------------------------ MODULE MCFpmSlots ------------------------------
EXTENDS FpmSlots, TLC

(* The addresses differ in nothing but their names. *)
AddrSymmetry == Permutations(Addr)
=============================================================================
