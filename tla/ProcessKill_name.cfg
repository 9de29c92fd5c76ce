\* The PID changes hands between the list and the read.
SPECIFICATION Spec
CONSTANTS
  shell = shell
  editor = editor
  daemon = daemon
  Nobody = Nobody
  Unknown = Unknown
  Proc = {shell, editor, daemon}
  Mine = {shell, editor}
  Image = {"/bin/a", "/bin/b"}
  Name = {"zsh", "vi", "sshd"}
  NameOf <- MCNameOf
INVARIANTS
  NamedProcessIsSignalled
CHECK_DEADLOCK FALSE
