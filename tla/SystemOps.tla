------------------------------ MODULE SystemOps ------------------------------
(***************************************************************************)
(* A batch of operations that run commands of the system: DNSFlushOp,      *)
(* ServiceUnloadOp, ReceiptForgetOp, RepoMaintenanceOp, ContainerPruneOp   *)
(* (pkg/operation), through the elevating runner (internal/cli) and, when  *)
(* privileged, the chokepoint of sudo (pkg/privilege).                     *)
(*                                                                         *)
(* Beside the process there are the user, who answers password prompts and *)
(* presses Control-C, the ticket of sudo, which expires, the command under *)
(* way, and people who work in the repositories.  A command returns        *)
(* nothing, exit code 1, another exit code, or is cut off.                 *)
(***************************************************************************)
EXTENDS Naturals, Sequences

CONSTANTS
  Batches      \* the plans: sequences of kinds

Privileged == {"dns", "unload", "forget"}
Plain      == {"userunload", "gc", "prune"}
Kind       == Privileged \cup Plain

ASSUME BatchAssumption == Batches \subseteq Seq(Kind) /\ <<>> \notin Batches

VARIABLES
  batch,       \* the sealed plan
  pc,          \* what the process does next
  cur,         \* the operation it does that to
  cmd,         \* the command of the operation
  try,         \* Chokepoint.Run: first attempt, or the one after a new prompt
  verdict,     \* ValidatedOp.Err = nil
  status,      \* Receipt.Status
  ticket,      \* sudo has a valid ticket
  interrupted, \* the shared context is cancelled
  repo,        \* the working tree of each collection
  runs,        \* how often a command of an operation has been started
  ended,       \* ghost: the commands that have returned exit code 0
  late,        \* ghost: repositories changed after their status was read
  soiled       \* ghost: repositories collected while not clean

ghost == <<ended, late, soiled>>
vars  == <<batch, pc, cur, cmd, try, verdict, status, ticket, interrupted, repo, runs, ghost>>

Op       == DOMAIN batch
\* DNSFlushOp runs two commands, the others one.
Last(k)  == IF batch[k] = "dns" THEN 2 ELSE 1
Statuses == {"pending", "skipped", "ok", "notLoaded", "failed", "noPrivilege"}
Steps    == {"gate", "check", "markers", "begin", "acquire", "prompt", "sudo", "plain",
             "running", "again", "done", "declined"}
Trees    == {"clean", "edited", "merging"}

Init ==
  /\ batch \in Batches
  /\ pc = "gate" /\ cur = 1 /\ cmd = 1 /\ try = 1
  /\ verdict = [k \in Op |-> FALSE] /\ status = [k \in Op |-> "pending"]
  /\ ticket \in BOOLEAN /\ interrupted = FALSE
  /\ repo = [k \in Op |-> "clean"]
  /\ runs = [k \in Op |-> [c \in 1..2 |-> 0]]
  /\ ended = {} /\ late = {} /\ soiled = {}

Answer ==
  /\ pc = "gate"
  /\ pc' \in {"check", "declined"}
  /\ UNCHANGED <<batch, cur, cmd, try, verdict, status, ticket, interrupted, repo, runs, ghost>>

-----------------------------------------------------------------------------
(* Revalidate.                                                             *)
Checked(valid) ==
  /\ verdict' = [verdict EXCEPT ![cur] = valid]
  /\ IF cur = Len(batch) THEN pc' = "begin" /\ cur' = 1 ELSE pc' = "check" /\ cur' = cur + 1

\* A flush and a prune have nothing to check; a receipt is asked about, a plist
\* looked up, and either may be gone.
Check ==
  /\ pc = "check" /\ batch[cur] # "gc"
  /\ \E valid \in BOOLEAN :
       /\ batch[cur] \in {"dns", "prune"} => valid
       /\ batch[cur] = "forget" /\ interrupted => ~valid
       /\ Checked(valid)
  /\ UNCHANGED <<batch, cmd, try, status, ticket, interrupted, repo, runs, ghost>>

\* repoClean: first git status ...
CheckStatus ==
  /\ pc = "check" /\ batch[cur] = "gc"
  /\ \/ Checked(FALSE)
     \/ ~interrupted /\ repo[cur] # "edited" /\ pc' = "markers" /\ UNCHANGED <<verdict, cur>>
  /\ UNCHANGED <<batch, cmd, try, status, ticket, interrupted, repo, runs, ghost>>

\* Mutant: the marker files are not looked for.
CheckMarkers_Omitted ==
  /\ pc = "markers"
  /\ Checked(TRUE)
  /\ UNCHANGED <<batch, cmd, try, status, ticket, interrupted, repo, runs, ghost>>

\* ... then, by git rev-parse, the files that mark a merge under way.
CheckMarkers ==
  /\ pc = "markers"
  /\ \/ Checked(FALSE)
     \/ ~interrupted /\ repo[cur] # "merging" /\ Checked(TRUE)
  /\ UNCHANGED <<batch, cmd, try, status, ticket, interrupted, repo, runs, ghost>>

-----------------------------------------------------------------------------
(* Execute.                                                                *)
Settle(s) ==
  /\ status' = [status EXCEPT ![cur] = s]
  /\ cmd' = 1 /\ try' = 1
  /\ IF cur = Len(batch) THEN pc' = "done" /\ UNCHANGED cur ELSE pc' = "begin" /\ cur' = cur + 1
  /\ UNCHANGED <<batch, verdict, interrupted, repo>>

Go(step) ==
  /\ pc' = step
  /\ UNCHANGED <<batch, cur, verdict, status, interrupted, repo>>

Begin ==
  /\ pc = "begin"
  /\ IF ~verdict[cur] THEN Settle("skipped")
     ELSE Go(IF batch[cur] \in Privileged THEN "acquire" ELSE "plain") /\ UNCHANGED <<cmd, try>>
  /\ UNCHANGED <<ticket, runs, ghost>>

\* Acquire: sudo -n -v, which a cancelled context fails.
Acquire ==
  /\ pc = "acquire"
  /\ Go(IF ticket /\ ~interrupted THEN "sudo" ELSE "prompt")
  /\ UNCHANGED <<cmd, try, ticket, runs, ghost>>

\* Authenticate: sudo -v on the terminal, in Acquire and after a rejection.
Authenticate ==
  /\ pc \in {"prompt", "again"} /\ ~interrupted
  /\ Go("sudo") /\ ticket' = TRUE
  /\ try' = IF pc = "again" THEN 2 ELSE 1
  /\ UNCHANGED <<cmd, runs, ghost>>

\* Mutant: a declined prompt is shown again.
Declined_AsksAgain ==
  /\ pc \in {"prompt", "again"}
  /\ Go("acquire")
  /\ UNCHANGED <<cmd, try, ticket, runs, ghost>>

\* The user gives no password, or Control-C ends sudo -v: ErrCanceled in Acquire
\* and ErrExpired after a rejection, both ErrPrivilegeRequired to the operation.
Declined ==
  /\ pc \in {"prompt", "again"}
  /\ Settle("noPrivilege")
  /\ UNCHANGED <<ticket, runs, ghost>>

\* ticketRejected: exit code 1, of sudo or of the command.
Rejected ==
  IF try = 1 THEN Go("again") /\ UNCHANGED <<cmd, try>> ELSE Settle("noPrivilege")

\* Mutant: DNSFlushOp does not look at the result of its first command.
Result_FirstIgnored(e) ==
  IF e = "ok" \/ cmd < Last(cur)
    THEN IF cmd < Last(cur)
           THEN Go("acquire") /\ cmd' = cmd + 1 /\ try' = 1
           ELSE Settle("ok")
    ELSE Settle("failed")

\* What Execute makes of the result of the command.  Bootout forgives some
\* messages.  A flush goes on with its second command.  A prune is never skipped
\* for want of an engine: its command wires one before it executes.
Result(e) ==
  IF e = "ok"
    THEN IF cmd < Last(cur)
           THEN Go("acquire") /\ cmd' = cmd + 1 /\ try' = 1
           ELSE Settle("ok")
    ELSE \/ Settle("failed")
         \/ batch[cur] \in {"unload", "userunload"} /\ e # "unstarted" /\ Settle("notLoaded")

\* Runner.Run: under a cancelled context the command is not started; sudo -n
\* without a ticket exits with code 1.
Start ==
  /\ pc \in {"plain", "sudo"}
  /\ IF interrupted
       THEN Result("unstarted") /\ UNCHANGED <<runs, soiled>>
     ELSE IF pc = "sudo" /\ ~ticket
       THEN Rejected /\ UNCHANGED <<runs, soiled>>
       ELSE Go("running") /\ UNCHANGED <<cmd, try>>
            /\ runs' = [runs EXCEPT ![cur][cmd] = @ + 1]
            /\ soiled' = IF batch[cur] = "gc" /\ repo[cur] # "clean" THEN soiled \cup {cur}
                         ELSE soiled
  /\ UNCHANGED <<ticket, ended, late>>

\* Mutant: any error is taken for an expired ticket, and no error as well.
Returns_AlwaysAgain ==
  /\ pc = "running"
  /\ \E e \in {"ok", "one", "other"} :
       /\ IF try = 1 /\ batch[cur] \in Privileged THEN Rejected ELSE Result(e)
       /\ ended' = IF e = "ok" THEN ended \cup {<<cur, cmd>>} ELSE ended
  /\ UNCHANGED <<ticket, runs, late, soiled>>

\* The command returns; exit code 1 under sudo counts as a rejected ticket.
Returns ==
  /\ pc = "running"
  /\ \E e \in {"ok", "one", "other"} :
       /\ IF e = "one" /\ batch[cur] \in Privileged THEN Rejected ELSE Result(e)
       /\ ended' = IF e = "ok" THEN ended \cup {<<cur, cmd>>} ELSE ended
  /\ UNCHANGED <<ticket, runs, late, soiled>>

\* Control-C kills the command under way.
CutOff ==
  /\ pc = "running" /\ interrupted
  /\ Result("cut")
  /\ UNCHANGED <<ticket, runs, ghost>>

-----------------------------------------------------------------------------
(* The surroundings.                                                       *)
Expires ==
  /\ ticket /\ ticket' = FALSE
  /\ UNCHANGED <<batch, pc, cur, cmd, try, verdict, status, interrupted, repo, runs, ghost>>

Interrupt ==
  /\ ~interrupted /\ pc \notin {"done", "declined"} /\ interrupted' = TRUE
  /\ UNCHANGED <<batch, pc, cur, cmd, try, verdict, status, ticket, repo, runs, ghost>>

\* Somebody edits, commits, or starts a merge; it is late once the check of this
\* repository has gone past what would show it.
Works(k) ==
  /\ batch[k] = "gc" /\ pc \notin {"done", "declined"}
  /\ \E t \in Trees \ {repo[k]} :
       /\ repo' = [repo EXCEPT ![k] = t]
       /\ late' = IF pc = "gate" \/ (pc = "check" /\ cur <= k)
                     \/ (pc = "markers" /\ (cur < k \/ (cur = k /\ t # "edited")))
                    THEN late ELSE late \cup {k}
  /\ UNCHANGED <<batch, pc, cur, cmd, try, verdict, status, ticket, interrupted, runs, ended,
                 soiled>>

Process == Check \/ CheckStatus \/ CheckMarkers \/ Begin \/ Acquire \/ Start \/ CutOff
User    == Answer \/ Authenticate \/ Declined
Next    == Process \/ User \/ Returns \/ Expires \/ Interrupt \/ \E k \in Op : Works(k)

\* The process runs; Control-C ends prompts and commands.  Neither the user nor
\* a command is sure to answer, for the context has no deadline.
Fairness == WF_vars(Process) /\ WF_vars(Declined /\ interrupted)
Spec     == Init /\ [][Next]_vars /\ Fairness

-----------------------------------------------------------------------------
TypeOK ==
  /\ batch \in Batches /\ pc \in Steps /\ cur \in Op /\ cmd \in 1..2 /\ try \in 1..2
  /\ verdict \in [Op -> BOOLEAN] /\ status \in [Op -> Statuses]
  /\ ticket \in BOOLEAN /\ interrupted \in BOOLEAN
  /\ repo \in [Op -> Trees] /\ runs \in [Op -> [1..2 -> Nat]]
  /\ ended \subseteq Op \X (1..2) /\ late \subseteq Op /\ soiled \subseteq Op

\* The history is true where it says "ok": every command of the operation has
\* returned without an error; and where every command has, it says so.
OkMeansDone ==
  \A k \in Op : status[k] # "pending" =>
    (status[k] = "ok" <=> \A c \in 1..Last(k) : <<k, c>> \in ended)

\* A command is run again only when its first run failed.
NotAgainAfterSuccess ==
  [][\A k \in Op : \A c \in 1..2 : <<k, c>> \in ended => runs'[k][c] = runs[k][c]]_vars

\* No repository is collected while edited or in a merge, unless that happened
\* after its check.
CollectedWasClean == soiled \subseteq late

\* After Control-C a batch past the gate ends without any answer of the user.
InterruptEnds == interrupted /\ pc # "gate" ~> pc \in {"done", "declined"}
==============================================================================
