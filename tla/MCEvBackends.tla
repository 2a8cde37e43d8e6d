------------------------------ MODULE MCEvBackends ------------------------------
EXTENDS EvBackends
CONSTANTS r0, w0, b1, r4
FdOf  == [e \in Event |-> CASE e \in {r0, w0} -> 0 [] e = b1 -> 1 [] e = r4 -> 4]
Wants == [e \in Event |-> CASE e \in {r0, r4} -> {"in"} [] e = w0 -> {"out"} [] e = b1 -> Dir]
================================================================================
