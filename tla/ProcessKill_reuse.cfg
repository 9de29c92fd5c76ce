\* The PID changes hands at every moment; both instances, tickets, Control-C.
SPECIFICATION Spec
CONSTANTS
  shell = shell
  editor = editor
  daemon = daemon
  Nobody = Nobody
  Unknown = Unknown
  Proc = {shell, editor, daemon}
  Mine = {shell, editor}
  Image = {"/bin/a", "/bin/b"}
  Name = {"zsh", "vi", "sshd"}
  NameOf <- MCNameOf
INVARIANTS
  SignalsOnlyTheConfirmed
  VerdictIsTrue
PROPERTIES
  KeepsKillPromise
  CommandEnds
CHECK_DEADLOCK FALSE
