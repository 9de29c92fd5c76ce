----------------------------- MODULE KillPromise -----------------------------
(***************************************************************************)
(* What a request to signal a process promises: no signal without consent, *)
(* at most one, and a verdict given once.  A verdict that says the signal  *)
(* was sent is true when it is given, and one that says it was not stays   *)
(* true; only "no-privilege" leaves it open, because an interrupted root   *)
(* helper may still be at work.                                            *)
(***************************************************************************)
EXTENDS Naturals

VARIABLES
  consent,  \* the user has agreed
  sent,     \* number of signals sent
  verdict   \* "none" until the request is settled

vars == <<consent, sent, verdict>>

NotSent == {"revalidation", "identity", "failed"}

Init == consent \in BOOLEAN /\ sent = 0 /\ verdict = "none"

Agree == ~consent /\ consent' /\ UNCHANGED <<sent, verdict>>

Send ==
  /\ consent /\ sent = 0 /\ verdict \in {"none", "no-privilege"}
  /\ sent' = 1
  /\ verdict' \in {verdict} \cup (IF verdict = "none" THEN {"ok"} ELSE {})
  /\ UNCHANGED consent

Conclude ==
  /\ consent /\ verdict = "none"
  /\ \/ verdict' = "ok" /\ sent = 1
     \/ verdict' \in NotSent /\ sent = 0
     \/ verdict' = "no-privilege"
  /\ UNCHANGED <<consent, sent>>

Next == Agree \/ Send \/ Conclude

Spec == Init /\ [][Next]_vars
==============================================================================
