------------------------------- MODULE MCPurge -------------------------------
(* A directory in a directory in a directory, with a .DS_Store in the outer *)
(* one, a place for a file in each of the inner two, and a link beside them.*)
EXTENDS Purge

CONSTANTS top, outer, inner, core, store, note, draft, alias

MCWalk   == <<outer, store, inner, note, core, draft, alias>>
MCParent == [x \in Place |-> CASE x = outer -> top
                               [] x \in {store, inner} -> outer
                               [] x \in {note, core} -> inner
                               [] x = draft -> core
                               [] OTHER -> top]
MCKind   == [x \in Place |-> CASE x \in {outer, inner, core} -> "dir"
                               [] x = store -> "store"
                               [] x = alias -> "link"
                               [] OTHER -> "file"]
MCDepth  == [x \in Place |-> CASE x \in {outer, alias} -> 1
                               [] x \in {inner, store} -> 2
                               [] x \in {core, note} -> 3
                               [] OTHER -> 4]
==============================================================================
