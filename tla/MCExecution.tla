---------------------------- MODULE MCExecution ----------------------------
(* A plan of two targets with the same base name, one a file and one a     *)
(* directory.  "twin" has the identity of the directory "dir" (a change    *)
(* deep inside it); "other" is an unrelated file.                          *)
EXTENDS Execution

CONSTANTS p1, p2, file, dir, twin, other

MCTarget   == <<p1, p2>>
MCBaseName == [p \in {p1, p2} |-> "cache"]
MCIdent    == [o \in Object |-> IF o = twin THEN dir ELSE o]
=============================================================================
