----------------------------- MODULE BatchPromise -----------------------------
(***************************************************************************)
(* What a batch promises its user, whatever happens to the files meanwhile *)
(* ("approve exactly what executes"): nothing is settled before approval,  *)
(* operations settle one by one in the order of the plan, each exactly     *)
(* once and with a fate the approved deletion mode allows, and the log     *)
(* only ever says of an operation the fate it really had.                  *)
(***************************************************************************)
EXTENDS Naturals

CONSTANT N   \* number of operations in the approved plan

VARIABLES
  mode,   \* the deletion mode approved
  phase,  \* "asking", "approved", "declined", "ended" or "crashed"
  fate,   \* the fate of each operation, "pending" until it settles
  log     \* pairs of an operation and its recorded fate

vars == <<mode, phase, fate, log>>

Op == 1..N

Allowed(m) == IF m = "trash" THEN {"trashed", "skipped", "failed"}
                             ELSE {"obliterated", "skipped", "failed"}

Settled(i)  == fate[i] # "pending"
AllSettled  == \A i \in Op : Settled(i)

Init ==
  /\ mode \in {"trash", "obliterate"}
  /\ phase \in {"asking", "approved"}
  /\ fate = [i \in Op |-> "pending"]
  /\ log = {}

Answer ==
  /\ phase = "asking"
  /\ phase' \in {"approved", "declined"}
  /\ UNCHANGED <<mode, fate, log>>

Settle(i) ==
  /\ phase = "approved"
  /\ ~Settled(i) /\ \A j \in 1..(i - 1) : Settled(j)
  /\ \E f \in Allowed(mode) : fate' = [fate EXCEPT ![i] = f]
  /\ UNCHANGED <<mode, phase, log>>

\* Recording one operation may be what ends the batch.
LogOne(i) ==
  /\ phase = "approved" /\ Settled(i)
  /\ log' \in {log, log \cup {<<i, fate[i]>>}}
  /\ phase' = "approved" \/ (phase' = "ended" /\ AllSettled)
  /\ UNCHANGED <<mode, fate>>

Crash ==
  /\ phase \in {"asking", "approved"}
  /\ phase' = "crashed"
  /\ UNCHANGED <<mode, fate, log>>

Next == Answer \/ Crash \/ \E i \in Op : Settle(i) \/ LogOne(i)

Spec == Init /\ [][Next]_vars
===============================================================================
