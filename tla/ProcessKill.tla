----------------------------- MODULE ProcessKill -----------------------------
(***************************************************************************)
(* `suns ps --kill <pid>`: internal/cli/ps.go, pkg/operation/processkill,  *)
(* pkg/procctl, internal/procadmin and the hidden __killproc command.      *)
(*                                                                         *)
(* The system may end the process that has the PID, give the PID to a new  *)
(* one, or have the process replace its program, between any two steps.    *)
(* A process of another user is signalled by a second instance of suns     *)
(* that sudo runs as root, side by side with the first.  Control-C cancels *)
(* the context of the first instance; it does not end it.                  *)
(***************************************************************************)
EXTENDS Naturals, Sequences

CONSTANTS
  Proc,     \* processes that may have the PID, each with its time of birth
  Mine,     \* those that belong to the user
  Nobody,   \* the PID is free
  Image,    \* executable paths
  Unknown,  \* the empty path read when Exe fails
  Name,     \* names shown in the list
  NameOf    \* the name of a process

ASSUME ProcAssumption  == Nobody \notin Proc /\ Mine \subseteq Proc
ASSUME ImageAssumption == Unknown \notin Image
ASSUME NameAssumption  == NameOf \in [Proc -> Name]

VARIABLES
  pc,          \* what the command does next
  listed,      \* the process List found under the PID
  expect,      \* ProcessKillOp.Expect, the identity shown at the gate
  privileged,  \* ProcessKillOp.Privileged
  consent,     \* --yes, or the answer at the gate
  status,      \* Receipt.Status, "none" before Execute
  recorded,    \* the status in the history record
  helper,      \* what the root instance does next, or how it exited
  ticket,      \* sudo has a valid ticket
  cancelled,   \* the context is cancelled
  at,          \* the process that has the PID
  zombie,      \* it has ended and waits for its parent
  image,       \* the program each process runs
  hits,        \* ghost: identities of the signalled processes, in order
  raced        \* ghost: the PID's holder changed after the last identity check

local   == <<listed, expect, privileged, consent, recorded>>
system  == <<at, zombie, image>>
vars    == <<pc, local, status, helper, ticket, cancelled, system, hits, raced>>

Ended    == {"refused", "done"}
Exits    == {"ok", "mismatch", "gone", "no-ticket", "killed"}
Verdicts == {"ok", "revalidation", "identity", "failed", "no-privilege"}
Identity == Proc \X (Image \cup {Unknown})
NoIdentity == <<>>

\* Current(pid): the birth, and the executable path unless it cannot be read.
Reads == IF at = Nobody THEN {} ELSE {<<at, image[at]>>, <<at, Unknown>>}

Init ==
  /\ pc = "list"
  /\ listed = Nobody /\ expect = NoIdentity /\ privileged = FALSE
  /\ consent \in BOOLEAN
  /\ status = "none" /\ recorded = "none"
  /\ helper = "none" /\ ticket \in BOOLEAN /\ cancelled = FALSE
  /\ at \in Proc \cup {Nobody} /\ zombie \in BOOLEAN
  /\ (at = Nobody => ~zombie)
  /\ image \in [Proc -> Image]
  /\ hits = <<>> /\ raced = FALSE

Refuse ==
  /\ pc' = "refused"
  /\ UNCHANGED <<local, status, helper, ticket, cancelled, system, hits, raced>>

\* List, then the row of the PID: absent and zombie rows end the command.
ListRows ==
  /\ pc = "list"
  /\ \/ Refuse
     \/ /\ at # Nobody /\ ~zombie
        /\ listed' = at
        /\ pc' = "read"
        /\ UNCHANGED <<expect, privileged, consent, recorded, status, helper, ticket,
                       cancelled, system, hits, raced>>

(* Current reads what the PID refers to by now; the name stays that of the *)
(* row.  An owner that cannot be read counts as another user.              *)
ReadTarget ==
  /\ pc = "read"
  /\ \/ at = Nobody /\ Refuse
     \/ /\ expect' \in Reads
        /\ privileged' \in {at \notin Mine, TRUE}
        /\ pc' = "gate"
        /\ UNCHANGED <<listed, consent, recorded, status, helper, ticket, cancelled,
                       system, hits, raced>>

Confirm ==
  /\ pc = "gate"
  /\ \/ ~consent /\ Refuse
     \/ /\ consent' = TRUE
        /\ pc' = IF privileged THEN "acquire" ELSE "open"
        /\ UNCHANGED <<listed, expect, privileged, recorded, status, helper, ticket,
                       cancelled, system, hits, raced>>

\* Chokepoint.Acquire: a cached ticket, or one typed password.
AcquireTicket ==
  /\ pc = "acquire"
  /\ \/ Refuse
     \/ /\ ~cancelled
        /\ ticket' = TRUE
        /\ pc' = "open"
        /\ UNCHANGED <<local, status, helper, cancelled, system, hits, raced>>

\* The history path; a log that cannot be opened does not stop the command.
OpenLog ==
  /\ pc = "open"
  /\ \/ Refuse
     \/ /\ pc' = "validate"
        /\ UNCHANGED <<local, status, helper, ticket, cancelled, system, hits, raced>>

-----------------------------------------------------------------------------
Conclude(v) ==
  /\ status' = v
  /\ pc' = "record"
  /\ UNCHANGED <<local, ticket, cancelled, system>>

\* ValidateAtExec inside Execute's revalidation.
Validate ==
  /\ pc = "validate"
  /\ \/ /\ expect \in Reads
        /\ pc' = IF privileged THEN "delegate" ELSE "check"
        /\ UNCHANGED <<local, status, ticket, cancelled, system>>
     \/ /\ at = Nobody \/ \E id \in Reads : id # expect
        /\ Conclude("revalidation")
  /\ UNCHANGED <<helper, hits, raced>>

\* Mutant: the birth alone is compared, not the executable path.
Check_BirthOnly ==
  /\ pc = "check"
  /\ \/ /\ at = expect[1]
        /\ pc' = "signal" /\ raced' = FALSE
        /\ UNCHANGED <<local, status, ticket, cancelled, system>>
     \/ /\ at # Nobody /\ at # expect[1]
        /\ Conclude("identity") /\ UNCHANGED raced
     \/ at = Nobody /\ Conclude("failed") /\ UNCHANGED raced
  /\ UNCHANGED <<helper, hits>>

\* ValidateAndSignal of an own process: the identity is read once more ...
Check ==
  /\ pc = "check"
  /\ \/ /\ expect \in Reads
        /\ pc' = "signal" /\ raced' = FALSE
        /\ UNCHANGED <<local, status, ticket, cancelled, system>>
     \/ /\ \E id \in Reads : id # expect
        /\ Conclude("identity") /\ UNCHANGED raced
     \/ at = Nobody /\ Conclude("failed") /\ UNCHANGED raced
  /\ UNCHANGED <<helper, hits>>

\* ... and kill(2) signals whatever has the PID by then, if it is the user's.
Signal ==
  /\ pc = "signal"
  /\ \/ /\ at \in Mine
        /\ hits' = Append(hits, <<at, image[at]>>)
        /\ Conclude("ok")
     \/ at \notin Mine /\ Conclude("failed") /\ UNCHANGED hits
  /\ UNCHANGED <<helper, raced>>

\* Kill of another user's process starts `sudo -n suns __killproc`; a command
\* whose context is cancelled does not start, nor one without its own path.
Delegate ==
  /\ pc = "delegate"
  /\ \/ /\ ~cancelled
        /\ helper' = "start"
        /\ pc' = "wait"
        /\ UNCHANGED <<local, status, ticket, cancelled, system>>
     \/ Conclude("no-privilege") /\ UNCHANGED helper
  /\ UNCHANGED <<hits, raced>>

\* Mutant: the exit code of the helper is not looked at.
ExitVerdict_Ignored(e) == "ok"

ExitVerdict(e) == CASE e = "ok" -> "ok"
                    [] e = "mismatch" -> "identity"
                    [] OTHER -> "no-privilege"

\* Mutant: an interrupted helper is started again.
Wait_Restarts ==
  /\ pc = "wait"
  /\ \/ helper \in Exits /\ Conclude(ExitVerdict(helper)) /\ UNCHANGED helper
     \/ /\ cancelled
        /\ helper' = "start"
        /\ UNCHANGED <<pc, local, status, ticket, cancelled, system>>
  /\ UNCHANGED <<hits, raced>>

\* Mutant: the command waits for a helper that found its target.
Wait_ForSuccess ==
  /\ pc = "wait" /\ helper \in {"ok", "mismatch"}
  /\ Conclude(ExitVerdict(helper))
  /\ UNCHANGED <<helper, hits, raced>>

\* The helper's exit code; once cancelled, Run may give up on it at any time.
Wait ==
  /\ pc = "wait"
  /\ \/ helper \in Exits /\ Conclude(ExitVerdict(helper))
     \/ cancelled /\ Conclude("no-privilege")
  /\ UNCHANGED <<helper, hits, raced>>

\* The caller appends the record; a failed Append or a missing log is ignored.
AppendRecord ==
  /\ pc = "record"
  /\ recorded' \in {recorded, status}
  /\ pc' = "done"
  /\ UNCHANGED <<listed, expect, privileged, consent, status, helper, ticket,
                 cancelled, system, hits, raced>>

-----------------------------------------------------------------------------
(* The root instance.                                                      *)
HelperGoes(h) ==
  /\ helper' = h
  /\ UNCHANGED <<pc, local, status, ticket, cancelled, system>>

SudoStart ==
  /\ helper = "start"
  /\ HelperGoes(IF ticket THEN "check" ELSE "no-ticket")
  /\ UNCHANGED <<hits, raced>>

HelperCheck ==
  /\ helper = "check"
  /\ \/ expect \in Reads /\ HelperGoes("signal") /\ raced' = FALSE
     \/ (\E id \in Reads : id # expect) /\ HelperGoes("mismatch") /\ UNCHANGED raced
     \/ at = Nobody /\ HelperGoes("gone") /\ UNCHANGED raced
  /\ UNCHANGED hits

HelperSignal ==
  /\ helper = "signal"
  /\ \/ /\ at # Nobody
        /\ hits' = Append(hits, <<at, image[at]>>)
        /\ HelperGoes("ok")
     \/ at = Nobody /\ HelperGoes("gone") /\ UNCHANGED hits
  /\ UNCHANGED raced

\* The interrupt or the killed sudo may take the helper along, or not.
HelperKilled ==
  /\ cancelled /\ helper \in {"start", "check", "signal"}
  /\ HelperGoes("killed")
  /\ UNCHANGED <<hits, raced>>

-----------------------------------------------------------------------------
(* The system and the user.                                                *)
InWindow == pc = "signal" \/ helper = "signal"

Active == pc \notin Ended \/ helper \in {"start", "check", "signal"}

SystemStep ==
  /\ Active
  /\ raced' = (raced \/ InWindow)
  /\ UNCHANGED <<pc, local, status, helper, ticket, cancelled, hits>>

\* The process ends and waits for its parent, or is gone at once.
Exit ==
  /\ SystemStep
  /\ at # Nobody
  /\ \/ ~zombie /\ zombie' = TRUE /\ UNCHANGED at
     \/ zombie' = FALSE /\ at' = Nobody
  /\ UNCHANGED image

\* The PID is given to a new process; births tell it from all earlier ones.
Reuse(p) ==
  /\ SystemStep
  /\ at = Nobody
  /\ listed # p /\ (expect # NoIdentity => expect[1] # p)
  /\ at' = p
  /\ UNCHANGED <<zombie, image>>

\* execve: same process, same birth, another program.
Exec ==
  /\ SystemStep
  /\ at # Nobody /\ ~zombie
  /\ \E i \in Image \ {image[at]} : image' = [image EXCEPT ![at] = i]
  /\ UNCHANGED <<at, zombie>>

TicketExpires ==
  /\ Active /\ ticket
  /\ ticket' = FALSE
  /\ UNCHANGED <<pc, local, status, helper, cancelled, system, hits, raced>>

Interrupt ==
  /\ pc \notin Ended /\ ~cancelled
  /\ cancelled' = TRUE
  /\ UNCHANGED <<pc, local, status, helper, ticket, system, hits, raced>>

-----------------------------------------------------------------------------
Execute == Validate \/ Check \/ Signal \/ Delegate \/ Wait
Command == ListRows \/ ReadTarget \/ AcquireTicket \/ OpenLog \/ Execute \/ AppendRecord
Helper  == SudoStart \/ HelperCheck \/ HelperSignal \/ HelperKilled

Environment ==
  \/ Exit \/ Exec \/ TicketExpires \/ Interrupt
  \/ \E p \in Proc : Reuse(p)

Next == Command \/ Confirm \/ Helper \/ Environment

\* Both instances run; nobody has to answer the gate.
Fairness == WF_vars(Command) /\ WF_vars(Helper)

Spec == Init /\ [][Next]_vars /\ Fairness

-----------------------------------------------------------------------------
TypeOK ==
  /\ pc \in {"list", "read", "gate", "acquire", "open", "validate", "check", "signal",
             "delegate", "wait", "record"} \cup Ended
  /\ listed \in Proc \cup {Nobody} /\ expect \in Identity \cup {NoIdentity}
  /\ privileged \in BOOLEAN /\ consent \in BOOLEAN
  /\ status \in Verdicts \cup {"none"} /\ recorded \in Verdicts \cup {"none"}
  /\ helper \in {"none", "start", "check", "signal"} \cup Exits
  /\ ticket \in BOOLEAN /\ cancelled \in BOOLEAN /\ raced \in BOOLEAN
  /\ at \in Proc \cup {Nobody} /\ zombie \in BOOLEAN /\ image \in [Proc -> Image]
  /\ hits \in Seq(Identity)

\* The signalled process is the one whose identity was shown at the gate.
IsExpected(id) == id[1] = expect[1] /\ expect[2] \in {id[2], Unknown}

(* A signal reaches the process of the identity shown at the gate, however *)
(* often the PID was reused before the last check, and whichever of the    *)
(* two instances sends it.  Only a change after that check can misdirect.  *)
SignalsOnlyTheConfirmed ==
  \A k \in DOMAIN hits : raced \/ IsExpected(hits[k])

(* The record and the printed line say "killed" only of a signal that was  *)
(* sent, and no other verdict hides one, except the "no-privilege" of a    *)
(* command the user interrupted.                                           *)
VerdictIsTrue ==
  /\ status = "ok" => hits # <<>>
  /\ status \in Verdicts \ {"ok"} /\ hits # <<>> =>
       status = "no-privilege" /\ cancelled
  /\ recorded \in {"none", status}

\* From the start of the execution on, the command comes to an end.
CommandEnds == pc = "open" ~> pc \in Ended

\* The request keeps the promise of KillPromise.
Promise == INSTANCE KillPromise WITH sent <- Len(hits), verdict <- status

KeepsKillPromise == Promise!Spec

-----------------------------------------------------------------------------
(* A statement of the repository's own documents that the code does not    *)
(* keep; a run shows a counterexample.                                     *)

(* "a confirmed, identity-checked signal, defeating PID reuse": what is    *)
(* signalled has the name the user confirmed.                              *)
NamedProcessIsSignalled ==
  \A k \in DOMAIN hits : raced \/ NameOf[hits[k][1]] = NameOf[listed]
=============================================================================
