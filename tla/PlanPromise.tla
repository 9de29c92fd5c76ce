------------------------------ MODULE PlanPromise ------------------------------
(***************************************************************************)
(* "Approve exactly what executes", of every command that finds a plan,    *)
(* shows it and hands it to safety.Execute, whatever its operations are.   *)
(* What was shown is what is run: consent seals the plan.  Every operation *)
(* is checked before the first one acts, and the world feels only those of *)
(* the plan that passed their check, each in its turn and not after its    *)
(* fate was recorded.  The command may end at any time, or be killed.      *)
(***************************************************************************)
EXTENDS Naturals, Sequences

CONSTANT Fates   \* of an operation; "skipped" is one

VARIABLES
  phase,    \* "finding", "asking", "approved", "done", or "stopped" before the end
  plan,     \* the operations, as far as they have been found
  verdict,  \* whether an operation passed its check, as far as checks have come
  fate,     \* what became of an operation, as far as the batch has come
  effect    \* what the batch has done to the world

vars == <<phase, plan, verdict, fate, effect>>

Init == phase \in {"finding", "asking"} /\ verdict = <<>> /\ fate = <<>>

\* Discovery may change the plan at will, up to the moment when it is shown.
Find ==
  /\ phase = "finding" /\ phase' \in {"finding", "asking"}
  /\ UNCHANGED <<verdict, fate, effect>>

NothingFound ==
  /\ phase \in {"finding", "asking"} /\ phase' = "done" /\ plan' = <<>>
  /\ UNCHANGED <<verdict, fate, effect>>

Approve ==
  /\ phase = "asking" /\ phase' = "approved"
  /\ UNCHANGED <<plan, verdict, fate, effect>>

Check ==
  /\ phase = "approved" /\ Len(verdict) < Len(plan)
  /\ \E valid \in BOOLEAN : verdict' = Append(verdict, valid)
  /\ UNCHANGED <<phase, plan, fate, effect>>

\* It is the turn of the next operation, whose check had this result.
Turn(valid) ==
  /\ phase = "approved" /\ Len(verdict) = Len(plan)
  /\ Len(fate) < Len(plan) /\ verdict[Len(fate) + 1] = valid
  /\ phase' \in {"approved", "done"} /\ (phase' = "done" => Len(fate') = Len(plan))
  /\ UNCHANGED <<plan, verdict>>

Refuse == Turn(FALSE) /\ fate' = Append(fate, "skipped") /\ UNCHANGED effect

\* One step of an operation, the last of which settles its fate.
Act == Turn(TRUE) /\ (UNCHANGED fate \/ \E f \in Fates : fate' = Append(fate, f))

Finish ==
  /\ phase = "approved" /\ phase' = "done"
  /\ Len(verdict) = Len(plan) /\ Len(fate) = Len(plan)
  /\ UNCHANGED <<plan, verdict, fate, effect>>

\* The answer is no, something cannot be opened, or the process is killed: what
\* it knew is lost with it.
Stop == phase \notin {"done", "stopped"} /\ phase' = "stopped" /\ UNCHANGED effect

Next == Find \/ NothingFound \/ Approve \/ Check \/ Refuse \/ Act \/ Finish \/ Stop
Spec == Init /\ [][Next]_vars
================================================================================
