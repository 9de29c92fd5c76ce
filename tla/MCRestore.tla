------------------------------ MODULE MCRestore ------------------------------
(* Files a and b are small and equal in content, big is large.             *)
EXTENDS Restore, TLC

CONSTANTS a, b, big, here, there, t1, t2

MCContent == [o \in Object |-> IF o = big THEN "image" ELSE "text"]

\* Nothing names one of them: equal files, and places in the Trash.
Symmetry == Permutations({a, b}) \cup Permutations(Slot)
==============================================================================
