---------------------------- MODULE MCSystemOps ----------------------------
(* The plans of dns-flush, docker-prune, maintain, and the parts of those of *)
(* nuke and orphans that run commands.                                       *)
EXTENDS SystemOps

MCBatches == {<<"dns">>, <<"prune">>, <<"gc", "gc">>, <<"gc", "gc", "gc">>,
              <<"unload", "userunload", "forget">>,
              <<"userunload", "unload", "forget", "forget">>}
=============================================================================
