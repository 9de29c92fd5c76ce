----------------------------- MODULE MCUninstall -----------------------------
(* An application in a folder of its own, a framework with a file that a    *)
(* second product lists as well, and the plist of a daemon of the           *)
(* application; the update package lists the bundle and its folder.         *)
EXTENDS Uninstall, TLC

CONSTANTS folder, bundle, framework, library, daemon, main, update, product

MCIn       == [i \in Item |-> CASE i = folder -> {bundle}
                                [] i = framework -> {library}
                                [] OTHER -> {}]
MCTraced   == <<bundle, daemon>>
MCJobs     == <<daemon>>
MCProgram  == daemon :> bundle
MCRelated  == <<main>>
MCUpdated  == <<main, update>>
MCLists    == [r \in Package |-> CASE r = main   -> <<folder, bundle, framework, library, daemon>>
                                   [] r = update -> <<folder, bundle>>
                                   [] OTHER      -> <<framework, library>>]
==============================================================================
