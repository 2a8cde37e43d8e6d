------------------------------ MODULE MCFpmImages ------------------------------
EXTENDS FpmImages, TLC

CONSTANTS any, host   \* every address of this host, and one of them; the same port

OneExcludes == {{any, host}}

Symmetry == Permutations(Fd)
=============================================================================
