------------------------------ MODULE MCFpmStdio ------------------------------
EXTENDS FpmStdio, TLC

(* A line, one that just fits, and a text that fills the buffer, ends that *)
(* line, has an empty one and leaves one unfinished.                       *)
Words == {<<"x", "nl">>, <<"x", "x", "nl">>, <<"x", "x", "x", "nl", "nl", "x">>}

ChildSymmetry == Permutations(Child)
=============================================================================
