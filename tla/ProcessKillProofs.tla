-------------------------- MODULE ProcessKillProofs --------------------------
(* Proofs about ProcessKill, for every set of processes and programs.      *)
EXTENDS ProcessKill, SequenceTheorems, TLAPS

Asking  == {"list", "read", "gate", "refused"}
Before  == {"list", "read", "gate", "acquire", "open", "validate", "check", "signal",
            "delegate", "refused"}
Working == {"start", "check", "signal"}

\* The order of the steps: the helper runs only while or after the command
\* waits for it, and outlives the wait only when it was interrupted.
Order ==
  /\ pc \in Before => helper = "none" /\ status = "none"
  /\ pc = "wait" => status = "none"
  /\ status = "none" => recorded = "none"
  /\ helper \in Working /\ status # "none" => status = "no-privilege" /\ cancelled
  /\ helper \in Exits \ {"ok"} => status # "ok"
  /\ helper = "ok" => status \in {"none", "ok"} \/ (status = "no-privilege" /\ cancelled)
  /\ pc \notin Asking => consent
  /\ pc \notin Asking \ {"gate"} => expect \in Identity
  /\ recorded \in {"none", status}

\* Who has signalled: at most one of the two instances, and at most once.
Signalled ==
  /\ Len(hits) <= 1
  /\ pc \in Before => Len(hits) = 0
  /\ helper \in Working \cup (Exits \ {"ok"}) => Len(hits) = 0
  /\ helper = "none" => (Len(hits) = 1 <=> status = "ok")
  /\ helper = "ok" => Len(hits) = 1

\* What the last identity check leaves behind.
Checked ==
  /\ pc = "signal" \/ helper = "signal" =>
       raced \/ (at # Nobody /\ IsExpected(<<at, image[at]>>))
  /\ Len(hits) = 1 => raced \/ IsExpected(hits[1])

Inv == TypeOK /\ Order /\ Signalled /\ Checked

LEMMA HitsStart == <<>> \in Seq(Identity) /\ Len(<<>>) = 0
OBVIOUS

\* The one signal of a request, as the first element of hits.
LEMMA OneHit ==
  ASSUME NEW s \in Seq(Identity), NEW id \in Identity, Len(s) = 0
  PROVE  /\ Append(s, id) \in Seq(Identity)
         /\ Len(Append(s, id)) = 1
         /\ Append(s, id)[1] = id
OBVIOUS

\* A sequence of hits is empty or has the one element.
LEMMA ShortHits ==
  ASSUME NEW s \in Seq(Identity), Len(s) <= 1
  PROVE  /\ s # <<>> <=> Len(s) = 1
         /\ \A k \in DOMAIN s : k = 1 /\ Len(s) = 1
<1>1. Len(s) \in Nat /\ DOMAIN s = 1..Len(s)
  BY LenProperties
<1>2. s # <<>> => Len(s) \in Nat \ {0}
  BY EmptySeq
<1>3. Len(<<>>) = 0
  BY HitsStart
<1> QED
  BY <1>1, <1>2, <1>3

LEMMA ReadsAreIdentities ==
  ASSUME TypeOK
  PROVE  /\ Reads \subseteq Identity
         /\ \A id \in Reads : at \in Proc /\ id[1] = at /\ id[2] \in {image[at], Unknown}
BY DEF TypeOK, Reads, Identity

LEMMA InitInv == Init => Inv
<1> SUFFICES ASSUME Init PROVE Inv
  OBVIOUS
<1>1. TypeOK
  BY HitsStart, ProcAssumption DEF Init, TypeOK, Ended, Exits, Verdicts
<1>2. Order
  BY DEF Init, Order, Asking, Before, Working, Exits
<1>3. Len(hits) = 0
  BY HitsStart DEF Init
<1>4. Signalled
  BY <1>3 DEF Init, Signalled, Before, Working, Exits
<1>5. Checked
  BY <1>3 DEF Init, Checked
<1> QED
  BY <1>1, <1>2, <1>4, <1>5 DEF Inv

(***************************************************************************)
(* A step of the system may hand the PID on, but then whoever is about to  *)
(* signal it counts as raced.                                              *)
(***************************************************************************)
LEMMA SystemInv ==
  ASSUME Inv, SystemStep, TypeOK'
  PROVE  Inv'
<1>1. UNCHANGED <<pc, listed, expect, privileged, consent, recorded, status, helper, ticket,
                  cancelled, hits>>
  BY DEF SystemStep, local
<1>2. Order' /\ Signalled'
  BY <1>1 DEF Inv, Order, Signalled
<1>3. (raced => raced') /\ (InWindow => raced')
  BY DEF SystemStep
<1>4. InWindow' => raced'
  BY <1>1, <1>3 DEF InWindow
<1>5. Checked'
  BY <1>1, <1>3, <1>4 DEF Inv, Checked, InWindow, IsExpected
<1> QED
  BY <1>2, <1>5 DEF Inv

(***************************************************************************)
(* Every step keeps the invariant.  The steps that neither send a signal   *)
(* nor check an identity leave hits alone; those come first.               *)
(***************************************************************************)
LEMMA StepInv ==
  ASSUME Inv, [Next]_vars
  PROVE  Inv'
<1> USE DEF Inv, local, system
<1> DEFINE Facts == TypeOK /\ Order /\ Signalled /\ Checked
<1>0. Facts
  OBVIOUS
<1>a. ASSUME Refuse, pc \in {"list", "read", "gate", "acquire", "open"} PROVE Inv'
  BY <1>a DEF Refuse, TypeOK, Order, Signalled, Checked, IsExpected, Asking, Before, Working,
     Exits, Ended, Verdicts
<1>b. ASSUME ListRows PROVE Inv'
  <2>1. CASE Refuse
    BY <1>a, <1>b, <2>1 DEF ListRows
  <2>2. CASE ~Refuse
    BY <1>b, <2>2 DEF ListRows, TypeOK, Order, Signalled, Checked, IsExpected, Asking, Before,
       Working, Exits, Ended, Verdicts
  <2> QED
    BY <2>1, <2>2
<1>c. ASSUME ReadTarget PROVE Inv'
  <2>1. CASE Refuse
    BY <1>a, <1>c, <2>1 DEF ReadTarget
  <2>2. CASE ~Refuse
    <3>1. expect' \in Identity
      BY <1>c, <2>2, ReadsAreIdentities DEF ReadTarget
    <3> QED
      BY <1>c, <2>2, <3>1 DEF ReadTarget, TypeOK, Order, Signalled, Checked, IsExpected, Asking,
         Before, Working, Exits, Ended, Verdicts
  <2> QED
    BY <2>1, <2>2
<1>d. ASSUME Confirm PROVE Inv'
  <2>1. CASE Refuse
    BY <1>a, <1>d, <2>1 DEF Confirm
  <2>2. CASE ~Refuse
    BY <1>d, <2>2 DEF Confirm, TypeOK, Order, Signalled, Checked, IsExpected,
     Asking, Before, Working, Exits, Ended, Verdicts
  <2> QED
    BY <2>1, <2>2
<1>e. ASSUME AcquireTicket PROVE Inv'
  <2>1. CASE Refuse
    BY <1>a, <1>e, <2>1 DEF AcquireTicket
  <2>2. CASE ~Refuse
    BY <1>e, <2>2 DEF AcquireTicket, TypeOK, Order, Signalled, Checked, IsExpected,
     Asking, Before, Working, Exits, Ended, Verdicts
  <2> QED
    BY <2>1, <2>2
<1>f. ASSUME OpenLog PROVE Inv'
  <2>1. CASE Refuse
    BY <1>a, <1>f, <2>1 DEF OpenLog
  <2>2. CASE ~Refuse
    BY <1>f, <2>2 DEF OpenLog, TypeOK, Order, Signalled, Checked, IsExpected,
     Asking, Before, Working, Exits, Ended, Verdicts
  <2> QED
    BY <2>1, <2>2
<1>g. ASSUME Validate PROVE Inv'
  BY <1>g DEF Validate, Conclude, TypeOK, Order, Signalled, Checked, IsExpected,
     Asking, Before, Working, Exits, Ended, Verdicts
<1>h. ASSUME Check PROVE Inv'
  <2>1. CASE expect \in Reads /\ pc' = "signal" /\ raced' = FALSE
    <3>1. at \in Proc /\ expect[1] = at /\ expect[2] \in {image[at], Unknown}
      BY <2>1, ReadsAreIdentities
    <3>2. IsExpected(<<at, image[at]>>)
      BY <3>1 DEF IsExpected
    <3>3. UNCHANGED <<listed, expect, privileged, consent, recorded, status, ticket, cancelled,
                      at, zombie, image, helper, hits>>
      BY <1>h, <2>1 DEF Check, Conclude
    <3>4. pc = "check" /\ at # Nobody
      BY <1>h, <3>1, ProcAssumption DEF Check
    <3>5. TypeOK' /\ Order' /\ Signalled'
      BY <2>1, <3>3, <3>4 DEF TypeOK, Order, Signalled, Asking, Before, Working, Exits, Ended,
         Verdicts
    <3>6. Checked'
      BY <3>2, <3>3, <3>4, <3>5 DEF Signalled, Checked, IsExpected, Before
    <3> QED
      BY <3>5, <3>6
  <2>2. CASE Conclude("identity") /\ UNCHANGED raced
    BY <1>h, <2>2 DEF Check, Conclude, TypeOK, Order, Signalled, Checked, IsExpected, Asking,
       Before, Working, Exits, Ended, Verdicts
  <2>3. CASE Conclude("failed") /\ UNCHANGED raced
    BY <1>h, <2>3 DEF Check, Conclude, TypeOK, Order, Signalled, Checked, IsExpected, Asking,
       Before, Working, Exits, Ended, Verdicts
  <2> QED
    BY <1>h, <2>1, <2>2, <2>3 DEF Check
<1>i. ASSUME Signal PROVE Inv'
  <2>1. CASE at \in Mine
    <3> DEFINE id == <<at, image[at]>>
    <3>1. id \in Identity /\ Len(hits) = 0 /\ hits \in Seq(Identity)
      BY <1>i, <2>1, ProcAssumption DEF Signal, TypeOK, Identity, Signalled, Before
    <3>2. hits' = Append(hits, id) /\ Conclude("ok") /\ pc = "signal"
      BY <1>i, <2>1 DEF Signal
    <3>3. hits' \in Seq(Identity) /\ Len(hits') = 1 /\ hits'[1] = id
      BY <3>1, <3>2, OneHit
    <3>4. TypeOK' /\ Order' /\ Signalled'
      BY <1>i, <3>2, <3>3 DEF Signal, Conclude, TypeOK, Order, Signalled, Asking, Before, Working,
         Exits, Ended, Verdicts
    <3>5. raced \/ IsExpected(id)
      BY <3>2 DEF Checked
    <3>6. Checked'
      BY <1>i, <3>2, <3>3, <3>5 DEF Signal, Conclude, Order, Before, Checked, IsExpected
    <3> QED
      BY <3>4, <3>6
  <2>2. CASE at \notin Mine
    BY <1>i, <2>2 DEF Signal, Conclude, TypeOK, Order, Signalled, Checked, IsExpected, Asking,
       Before, Working, Exits, Ended, Verdicts
  <2> QED
    BY <2>1, <2>2
<1>j. ASSUME Delegate PROVE Inv'
  BY <1>j DEF Delegate, Conclude, TypeOK, Order, Signalled, Checked, IsExpected,
     Asking, Before, Working, Exits, Ended, Verdicts
<1>k. ASSUME Wait PROVE Inv'
  <2>1. CASE Conclude("no-privilege") /\ (cancelled \/ helper \in Exits \ {"ok"})
    BY <1>k, <2>1 DEF Wait, Conclude, TypeOK, Order, Signalled, Checked, IsExpected, Asking,
       Before, Working, Exits, Ended, Verdicts
  <2>2. CASE Conclude("ok") /\ helper = "ok"
    BY <1>k, <2>2 DEF Wait, Conclude, TypeOK, Order, Signalled, Checked, IsExpected, Asking,
       Before, Working, Exits, Ended, Verdicts
  <2>3. CASE Conclude("identity") /\ helper = "mismatch"
    BY <1>k, <2>3 DEF Wait, Conclude, TypeOK, Order, Signalled, Checked, IsExpected, Asking,
       Before, Working, Exits, Ended, Verdicts
  <2> QED
    BY <1>k, <2>1, <2>2, <2>3 DEF Wait, ExitVerdict, Exits
<1>l. ASSUME AppendRecord PROVE Inv'
  BY <1>l DEF AppendRecord, TypeOK, Order, Signalled, Checked, IsExpected,
     Asking, Before, Working, Exits, Ended, Verdicts
<1>m. ASSUME SudoStart PROVE Inv'
  BY <1>m DEF SudoStart, HelperGoes, TypeOK, Order, Signalled, Checked, IsExpected,
     Asking, Before, Working, Exits, Ended, Verdicts
<1>n. ASSUME HelperCheck PROVE Inv'
  <2>1. CASE expect \in Reads /\ HelperGoes("signal") /\ raced' = FALSE
    <3>1. at \in Proc /\ expect[1] = at /\ expect[2] \in {image[at], Unknown}
      BY <2>1, ReadsAreIdentities
    <3>2. IsExpected(<<at, image[at]>>)
      BY <3>1 DEF IsExpected
    <3>3. helper = "check" /\ at # Nobody /\ UNCHANGED hits
      BY <1>n, <3>1, ProcAssumption DEF HelperCheck
    <3>4. TypeOK' /\ Order' /\ Signalled'
      BY <2>1, <3>3 DEF HelperGoes, TypeOK, Order, Signalled, Asking, Before, Working, Exits,
         Ended, Verdicts
    <3>5. Checked'
      BY <2>1, <3>2, <3>3 DEF HelperGoes, Signalled, Working, Checked, IsExpected
    <3> QED
      BY <3>4, <3>5
  <2>2. CASE HelperGoes("mismatch") /\ UNCHANGED raced
    BY <1>n, <2>2 DEF HelperCheck, HelperGoes, TypeOK, Order, Signalled, Checked, IsExpected,
       Asking, Before, Working, Exits, Ended, Verdicts
  <2>3. CASE HelperGoes("gone") /\ UNCHANGED raced
    BY <1>n, <2>3 DEF HelperCheck, HelperGoes, TypeOK, Order, Signalled, Checked, IsExpected,
       Asking, Before, Working, Exits, Ended, Verdicts
  <2> QED
    BY <1>n, <2>1, <2>2, <2>3 DEF HelperCheck
<1>o. ASSUME HelperSignal PROVE Inv'
  <2>1. CASE at # Nobody
    <3> DEFINE id == <<at, image[at]>>
    <3>1. id \in Identity /\ Len(hits) = 0 /\ hits \in Seq(Identity)
      BY <1>o, <2>1 DEF HelperSignal, TypeOK, Identity, Signalled, Working
    <3>2. hits' = Append(hits, id) /\ HelperGoes("ok") /\ helper = "signal" /\ UNCHANGED raced
      BY <1>o, <2>1 DEF HelperSignal
    <3>3. hits' \in Seq(Identity) /\ Len(hits') = 1 /\ hits'[1] = id
      BY <3>1, <3>2, OneHit
    <3>4. TypeOK' /\ Order' /\ Signalled'
      BY <3>2, <3>3 DEF HelperGoes, TypeOK, Order, Signalled, Asking, Before, Working, Exits,
         Ended, Verdicts
    <3>5. raced \/ IsExpected(id)
      BY <3>2 DEF Checked
    <3>6. Checked'
      BY <3>2, <3>3, <3>5 DEF HelperGoes, Order, Before, Checked, IsExpected
    <3> QED
      BY <3>4, <3>6
  <2>2. CASE at = Nobody
    BY <1>o, <2>2 DEF HelperSignal, HelperGoes, TypeOK, Order, Signalled, Checked, IsExpected,
       Asking, Before, Working, Exits, Ended, Verdicts
  <2> QED
    BY <2>1, <2>2
<1>p. ASSUME HelperKilled PROVE Inv'
  BY <1>p DEF HelperKilled, HelperGoes, TypeOK, Order, Signalled, Checked, IsExpected,
     Asking, Before, Working, Exits, Ended, Verdicts
<1>q. ASSUME Exit PROVE Inv'
  <2>1. raced' \in BOOLEAN
    BY <1>q DEF Exit, SystemStep
  <2>2. /\ UNCHANGED <<pc, listed, expect, privileged, consent, recorded, status, helper, ticket,
                        cancelled, image, hits>>
        /\ at' \in Proc \cup {Nobody} /\ zombie' \in BOOLEAN
    BY <1>q DEF Exit, SystemStep, TypeOK
  <2>3. TypeOK'
    BY <2>1, <2>2 DEF TypeOK
  <2> QED
    BY <1>q, <2>3, SystemInv DEF Exit
<1>r. ASSUME NEW p \in Proc, Reuse(p) PROVE Inv'
  <2>1. raced' \in BOOLEAN
    BY <1>r DEF Reuse, SystemStep
  <2>2. TypeOK'
    BY <1>r, <2>1 DEF Reuse, SystemStep, TypeOK
  <2> QED
    BY <1>r, <2>2, SystemInv DEF Reuse
<1>s. ASSUME Exec PROVE Inv'
  <2>1. raced' \in BOOLEAN
    BY <1>s DEF Exec, SystemStep
  <2>2. image' \in [Proc -> Image]
    BY <1>s DEF Exec, TypeOK
  <2>3. TypeOK'
    BY <1>s, <2>1, <2>2 DEF Exec, SystemStep, TypeOK
  <2> QED
    BY <1>s, <2>3, SystemInv DEF Exec
<1>t. ASSUME TicketExpires PROVE Inv'
  <2>0. /\ UNCHANGED <<pc, listed, expect, privileged, consent, recorded, status, helper,
                        cancelled, at, zombie, image, hits, raced>>
        /\ ticket' \in BOOLEAN
    BY <1>t DEF TicketExpires
  <2>1. TypeOK'
    BY <2>0 DEF TypeOK
  <2>2. Order' /\ Signalled' /\ Checked'
    BY <1>t DEF TicketExpires, Order, Signalled, Checked, IsExpected
  <2> QED
    BY <2>1, <2>2
<1>u. ASSUME Interrupt PROVE Inv'
  BY <1>u DEF Interrupt, TypeOK, Order, Signalled, Checked, IsExpected,
     Asking, Before, Working, Exits, Ended, Verdicts
<1>v. ASSUME UNCHANGED vars PROVE Inv'
  BY <1>v DEF vars, TypeOK, Order, Signalled, Checked, IsExpected
<1> QED
  BY <1>b, <1>c, <1>d, <1>e, <1>f, <1>g, <1>h, <1>i, <1>j, <1>k, <1>l, <1>m, <1>n, <1>o, <1>p,
     <1>q, <1>r, <1>s, <1>t, <1>u, <1>v DEF Next, Command, Execute, Helper, Environment

THEOREM Invariance == Spec => []Inv
<1>1. Init => Inv
  BY InitInv
<1>2. Inv /\ [Next]_vars => Inv'
  BY StepInv
<1> QED
  BY <1>1, <1>2, PTL DEF Spec

(* Every reachable state of a request is well typed.                       *)
THEOREM TypeCorrect == Spec => []TypeOK
BY Invariance, PTL DEF Inv

(* A signal reaches the process whose identity was shown at the gate,      *)
(* unless the PID's holder changed after the last check before the signal. *)
THEOREM OnlyTheConfirmed == Spec => []SignalsOnlyTheConfirmed
<1>1. Inv => SignalsOnlyTheConfirmed
  <2> SUFFICES ASSUME Inv, NEW k \in DOMAIN hits PROVE raced \/ IsExpected(hits[k])
    BY DEF SignalsOnlyTheConfirmed
  <2>1. hits \in Seq(Identity) /\ Len(hits) <= 1
    BY DEF Inv, TypeOK, Signalled
  <2>2. k = 1 /\ Len(hits) = 1
    BY <2>1, ShortHits
  <2> QED
    BY <2>2 DEF Inv, Checked
<1> QED
  BY <1>1, Invariance, PTL

(* "killed" is only said of a signal that was sent, and no other verdict   *)
(* hides one except that of an interrupted command.                        *)
THEOREM TrueVerdicts == Spec => []VerdictIsTrue
<1>1. Inv => VerdictIsTrue
  <2> SUFFICES ASSUME Inv PROVE VerdictIsTrue
    OBVIOUS
  <2>1. hits \in Seq(Identity) /\ Len(hits) <= 1
    BY DEF Inv, TypeOK, Signalled
  <2>2. hits # <<>> <=> Len(hits) = 1
    BY <2>1, ShortHits
  <2>3. status = "ok" => Len(hits) = 1
    BY DEF Inv, TypeOK, Order, Signalled, Exits, Working
  <2>4. status \in Verdicts \ {"ok"} /\ Len(hits) = 1 => status = "no-privilege" /\ cancelled
    BY DEF Inv, TypeOK, Order, Signalled, Exits, Working, Verdicts
  <2> QED
    BY <2>2, <2>3, <2>4 DEF Inv, Order, VerdictIsTrue
<1> QED
  BY <1>1, Invariance, PTL

-----------------------------------------------------------------------------
(* The refinement: what the steps do to consent, hits and status.          *)

Same == UNCHANGED <<consent, hits, status>>

\* The steps that neither ask, nor signal, nor conclude.
LEMMA QuietSteps ==
  ASSUME Inv,
         \/ ListRows \/ ReadTarget \/ AcquireTicket \/ OpenLog \/ AppendRecord
         \/ SudoStart \/ HelperCheck \/ HelperKilled \/ Environment \/ UNCHANGED vars
  PROVE  Same
<1>1. CASE ListRows \/ ReadTarget \/ AcquireTicket \/ OpenLog \/ AppendRecord
  BY <1>1 DEF ListRows, ReadTarget, AcquireTicket, OpenLog, AppendRecord, Refuse, local, Same
<1>2. CASE SudoStart \/ HelperCheck \/ HelperKilled
  BY <1>2 DEF SudoStart, HelperCheck, HelperKilled, HelperGoes, local, Same
<1>3. CASE Environment
  BY <1>3 DEF Environment, Exit, Exec, Reuse, SystemStep, TicketExpires, Interrupt, local, Same
<1>4. CASE UNCHANGED vars
  BY <1>4 DEF vars, local, Same
<1> QED
  BY <1>1, <1>2, <1>3, <1>4

\* The steps of Execute that conclude a request not yet concluded.
LEMMA ConcludingSteps ==
  ASSUME Inv, Validate \/ Check \/ Delegate \/ Wait
  PROVE  Same \/ Promise!Conclude
<1> USE DEF Inv, Conclude, local, Same, Promise!Conclude, Promise!NotSent
<1>1. CASE Validate
  BY <1>1 DEF Validate, Order, Signalled, Before, Asking
<1>2. CASE Check
  BY <1>2 DEF Check, Order, Signalled, Before, Asking
<1>3. CASE Delegate
  BY <1>3 DEF Delegate, Order, Signalled, Before, Asking
<1>4. CASE Wait
  <2>1. consent /\ status = "none" /\ UNCHANGED <<consent, hits>>
    BY <1>4 DEF Wait, Order, Asking
  <2>2. \/ status' = "no-privilege"
        \/ status' = "ok" /\ helper = "ok"
        \/ status' = "identity" /\ helper = "mismatch"
    BY <1>4 DEF Wait, ExitVerdict
  <2> QED
    BY <2>1, <2>2 DEF Signalled, Exits
<1> QED
  BY <1>1, <1>2, <1>3, <1>4

\* The two places a signal is sent.
LEMMA SendingSteps ==
  ASSUME Inv, Signal \/ HelperSignal
  PROVE  Same \/ Promise!Send \/ Promise!Conclude
<1>1. hits \in Seq(Identity) /\ Len(hits) = 0 /\ consent
  BY DEF Signal, HelperSignal, Inv, TypeOK, Order, Signalled, Asking, Before, Working
<1>2. at # Nobody => <<at, image[at]>> \in Identity
  BY DEF Inv, TypeOK, Identity
<1>3. CASE Signal
  <2>1. status = "none"
    BY <1>3 DEF Signal, Inv, Order, Before
  <2>2. CASE at \in Mine
    <3>1. hits' = Append(hits, <<at, image[at]>>) /\ status' = "ok" /\ UNCHANGED consent
      BY <1>3, <2>2 DEF Signal, Conclude, local
    <3>2. Len(hits') = 1
      BY <1>1, <1>2, <2>2, <3>1, OneHit, ProcAssumption
    <3> QED
      BY <1>1, <2>1, <3>1, <3>2 DEF Promise!Send
  <2>3. CASE at \notin Mine
    BY <1>1, <1>3, <2>1, <2>3 DEF Signal, Conclude, local, Promise!Conclude, Promise!NotSent
  <2> QED
    BY <2>2, <2>3
<1>4. CASE HelperSignal
  <2>1. status \in {"none", "no-privilege"}
    BY <1>4 DEF HelperSignal, Inv, Order, Working
  <2>2. UNCHANGED <<consent, status>>
    BY <1>4 DEF HelperSignal, HelperGoes, local
  <2>3. CASE at # Nobody
    <3>1. hits' = Append(hits, <<at, image[at]>>)
      BY <1>4, <2>3 DEF HelperSignal
    <3>2. Len(hits') = 1
      BY <1>1, <1>2, <2>3, <3>1, OneHit
    <3> QED
      BY <1>1, <2>1, <2>2, <3>2 DEF Promise!Send
  <2>4. CASE at = Nobody
    BY <1>4, <2>2, <2>4 DEF HelperSignal, Same
  <2> QED
    BY <2>3, <2>4
<1> QED
  BY <1>3, <1>4

(* A request, with two instances of the program, PID reuse and interrupts, *)
(* keeps the promise: one signal at most, never without consent, and a     *)
(* verdict that is and stays true.                                         *)
THEOREM PromiseKept == Spec => KeepsKillPromise
<1>1. Init => Promise!Init
  BY HitsStart DEF Init, Promise!Init
<1>2. Inv /\ [Next]_vars => [Promise!Next]_(Promise!vars)
  <2> SUFFICES ASSUME Inv, [Next]_vars PROVE Promise!Next \/ Same
    BY DEF Promise!vars, Same
  <2>1. CASE Confirm
    <3>1. UNCHANGED <<hits, status>> /\ (consent' = consent \/ (~consent /\ consent'))
      BY <2>1 DEF Confirm, Refuse, local, Inv, TypeOK
    <3> QED
      BY <3>1 DEF Same, Promise!Next, Promise!Agree
  <2>2. CASE Validate \/ Check \/ Delegate \/ Wait
    BY <2>2, ConcludingSteps DEF Promise!Next
  <2>3. CASE Signal \/ HelperSignal
    BY <2>3, SendingSteps DEF Promise!Next
  <2>4. CASE ~(Confirm \/ Validate \/ Check \/ Delegate \/ Wait \/ Signal \/ HelperSignal)
    BY <2>4, QuietSteps DEF Next, Command, Execute, Helper
  <2> QED
    BY <2>1, <2>2, <2>3, <2>4
<1> QED
  BY <1>1, <1>2, Invariance, PTL DEF Spec, KeepsKillPromise, Promise!Spec

-----------------------------------------------------------------------------
(* The command ends by itself: CommandLeft and HelperLeft bound the steps   *)
(* that the command and the root instance still take.                       *)
CommandLeft ==
  CASE pc = "list"               -> 12
    [] pc = "read"               -> 11
    [] pc = "gate"               -> 10
    [] pc = "acquire"            -> 9
    [] pc = "open"               -> 8
    [] pc = "validate"           -> 7
    [] pc = "delegate"           -> 6
    [] pc = "check"              -> 3
    [] pc \in {"signal", "wait"} -> 2
    [] pc = "record"             -> 1
    [] pc \in Ended              -> 0

HelperLeft ==
  CASE helper = "start"              -> 3
    [] helper = "check"              -> 2
    [] helper = "signal"             -> 1
    [] helper \in Exits \cup {"none"} -> 0

StepsLeft == CommandLeft + HelperLeft

Advances ==
  /\ Command \/ Confirm \/ Helper => StepsLeft' < StepsLeft
  /\ Environment => StepsLeft' = StepsLeft

Weighed ==
  /\ pc = "list" => CommandLeft = 12
  /\ pc = "read" => CommandLeft = 11
  /\ pc = "gate" => CommandLeft = 10
  /\ pc = "acquire" => CommandLeft = 9
  /\ pc = "open" => CommandLeft = 8
  /\ pc = "validate" => CommandLeft = 7
  /\ pc = "delegate" => CommandLeft = 6
  /\ pc = "check" => CommandLeft = 3
  /\ pc \in {"signal", "wait"} => CommandLeft = 2
  /\ pc = "record" => CommandLeft = 1
  /\ pc \in Ended => CommandLeft = 0
  /\ helper = "start" => HelperLeft = 3
  /\ helper = "check" => HelperLeft = 2
  /\ helper = "signal" => HelperLeft = 1
  /\ helper \in Exits \cup {"none"} => HelperLeft = 0

LEMMA StepsWeighed == Weighed /\ Weighed'
<1>1. Weighed
  BY DEF Weighed, CommandLeft, HelperLeft, Ended, Exits
<1>2. Weighed'
  BY DEF Weighed, CommandLeft, HelperLeft, Ended, Exits
<1> QED
  BY <1>1, <1>2

LEMMA OneIsLess ==
  ASSUME NEW a \in Nat, NEW b \in Nat, NEW c \in Nat, a < b
  PROVE  a + c < b + c /\ c + a < c + b
OBVIOUS

\* The root instance runs only from Delegate on.
LEMMA StepsBounded == Inv => StepsLeft \in 0..12
<1> SUFFICES ASSUME Inv PROVE StepsLeft \in 0..12
  OBVIOUS
<1>1. CommandLeft \in 0..12 /\ HelperLeft \in 0..3 /\ (pc \in Before => HelperLeft = 0)
      /\ (pc \notin Before => CommandLeft <= 2)
  BY StepsWeighed DEF Weighed, Inv, TypeOK, Order, Before, Ended, Exits
<1> QED
  BY <1>1 DEF StepsLeft

LEMMA CommandAdvances == ASSUME Inv, Command \/ Confirm PROVE StepsLeft' < StepsLeft
<1>0. HelperLeft \in 0..3
  BY StepsWeighed DEF Weighed, Inv, TypeOK, Exits
<1>1. CASE Delegate /\ helper' # helper
  <2>1. helper = "none" /\ helper' = "start" /\ pc = "delegate" /\ pc' = "wait"
    BY <1>1 DEF Delegate, Inv, Order, Before
  <2>2. CommandLeft = 6 /\ HelperLeft = 0 /\ CommandLeft' = 2 /\ HelperLeft' = 3
    BY <2>1, StepsWeighed DEF Weighed
  <2> QED
    BY <2>2 DEF StepsLeft
<1>2. CASE ~(Delegate /\ helper' # helper)
  <2>1. /\ helper' = helper
        /\ \/ pc \in {"list", "read", "gate", "acquire", "open"} /\ pc' = "refused"
           \/ pc = "list" /\ pc' = "read"
           \/ pc = "read" /\ pc' = "gate"
           \/ pc = "gate" /\ pc' \in {"acquire", "open"}
           \/ pc = "acquire" /\ pc' = "open"
           \/ pc = "open" /\ pc' = "validate"
           \/ pc = "validate" /\ pc' \in {"delegate", "check", "record"}
           \/ pc = "check" /\ pc' \in {"signal", "record"}
           \/ pc \in {"delegate", "signal", "wait"} /\ pc' = "record"
           \/ pc = "record" /\ pc' = "done"
    <3>1. CASE ListRows \/ ReadTarget \/ AcquireTicket \/ OpenLog \/ Confirm
      BY <3>1 DEF ListRows, ReadTarget, AcquireTicket, OpenLog, Confirm, Refuse
    <3>2. CASE Validate \/ Check \/ Signal
      BY <3>2 DEF Validate, Check, Signal, Conclude
    <3>3. CASE Delegate
      BY <1>2, <3>3 DEF Delegate, Conclude, Inv, Order, Before
    <3>4. CASE Wait \/ AppendRecord
      BY <3>4 DEF Wait, AppendRecord, Conclude
    <3> QED
      BY <3>1, <3>2, <3>3, <3>4 DEF Command, Execute
  <2>2. HelperLeft' = HelperLeft
    BY <2>1 DEF HelperLeft
  <2>3. CommandLeft \in Nat /\ CommandLeft' \in Nat /\ CommandLeft' < CommandLeft
    BY <2>1, StepsWeighed DEF Weighed, Ended
  <2>4. HelperLeft \in Nat
    BY <1>0
  <2> QED
    BY <2>2, <2>3, <2>4, OneIsLess DEF StepsLeft
<1> QED
  BY <1>1, <1>2

LEMMA HelperAdvances == ASSUME Inv, Helper PROVE StepsLeft' < StepsLeft
<1>0. CommandLeft \in 0..12
  BY StepsWeighed DEF Weighed, Inv, TypeOK, Ended
<1>1. /\ pc' = pc
      /\ \/ helper = "start" /\ helper' \in {"check", "no-ticket", "killed"}
         \/ helper = "check" /\ helper' \in {"signal", "mismatch", "gone", "killed"}
         \/ helper = "signal" /\ helper' \in {"ok", "gone", "killed"}
  BY DEF Helper, SudoStart, HelperCheck, HelperSignal, HelperKilled, HelperGoes
<1>2. CommandLeft' = CommandLeft
  BY <1>1 DEF CommandLeft
<1>3. HelperLeft \in Nat /\ HelperLeft' \in Nat /\ HelperLeft' < HelperLeft
  BY <1>1, StepsWeighed DEF Weighed, Exits
<1>4. CommandLeft \in Nat
  BY <1>0
<1> QED
  BY <1>2, <1>3, <1>4, OneIsLess DEF StepsLeft

LEMMA StepAdvances == ASSUME Inv, Next PROVE Advances
<1>1. CASE Environment
  <2>1. UNCHANGED <<pc, helper>>
    BY <1>1 DEF Environment, Exit, Exec, TicketExpires, Interrupt, Reuse, SystemStep
  <2>2. StepsLeft' = StepsLeft
    BY <2>1 DEF StepsLeft, CommandLeft, HelperLeft
  <2>3. ~(Command \/ Confirm \/ Helper)
    BY <2>2, CommandAdvances, HelperAdvances, StepsBounded
  <2> QED
    BY <2>2, <2>3 DEF Advances
<1>2. CASE ~Environment
  BY <1>2, CommandAdvances, HelperAdvances DEF Next, Advances
<1> QED
  BY <1>1, <1>2

(* However often the PID changes hands, the ticket expires and the user      *)
(* interrupts, the two instances take twelve steps at most between them:     *)
(* nothing is asked, checked or started a second time (runKill, Killer.Kill, *)
(* and the same again in the helper).                                        *)
THEOREM KillIsFinite == Spec => [](StepsLeft \in 0..12) /\ [][Advances]_vars
<1>1. Inv /\ [Next]_vars => [Advances]_vars
  BY StepAdvances
<1> QED
  BY <1>1, StepsBounded, Invariance, PTL DEF Spec
==============================================================================
