---------------------------- MODULE MCProcessKill ----------------------------
(* Three processes take turns at one PID: two of the user, one of root.    *)
EXTENDS ProcessKill

CONSTANTS shell, editor, daemon

MCNameOf == [p \in Proc |-> IF p = daemon THEN "sshd" ELSE IF p = shell THEN "zsh" ELSE "vi"]
==============================================================================
