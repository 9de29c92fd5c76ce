------------------------------- MODULE MCDedup -------------------------------
(* Three copies: in Documents, in Downloads and deep in a cache; the walk   *)
(* meets the second again in a second root.  A note is a small file, a      *)
(* trailer is longer than a movie or a film.                                *)
EXTENDS Dedup, TLC

CONSTANTS document, download, cached, note, movie, film, trailer

MCWalk     == <<cached, document, download, download>>
MCSegments == [p \in Path |-> CASE p = document -> {"documents"}
                                [] p = download -> {"downloads"}
                                [] OTHER -> {"cache"}]
MCDepth    == [p \in Path |-> IF p = cached THEN 5 ELSE 3]
MCRank     == [p \in Path |-> CASE p = cached -> 3 [] p = document -> 1 [] OTHER -> 2]
MCSize     == [c \in Content |-> CASE c = note -> 1 [] c = trailer -> 3 [] OTHER -> 2]
MCHead     == [c \in Content |-> "begins alike"]
MCNodes    == {document :> 1 @@ download :> 2 @@ cached :> 3,
               document :> 1 @@ download :> 2 @@ cached :> 1}
MCStart    == {[node |-> f, data |-> <<film, c, IF f[cached] = 1 THEN film ELSE d, film, film>>] :
                 f \in MCNodes, c, d \in {note, movie, film}}
==============================================================================
