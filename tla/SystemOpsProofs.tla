--------------------------- MODULE SystemOpsProofs ---------------------------
(***************************************************************************)
(* What the history says of a batch of system commands, how often they are *)
(* run, and in which state repositories are collected: for every batch.    *)
(***************************************************************************)
EXTENDS SystemOps, SequenceTheorems, TLAPS

Planning  == {"gate", "check", "markers", "declined"}
Executing == {"begin", "acquire", "prompt", "sudo", "plain", "running", "again"}
UnderWay  == Executing \ {"begin"}

\* Where the batch stands: what is settled, what is pending, which commands of the
\* current operation have returned.
Progress ==
  /\ cmd <= Last(cur)
  /\ pc \in Planning =>
       (\A k \in Op : status[k] = "pending") /\ ended = {} /\ cmd = 1
  /\ pc \in Executing =>
       /\ \A k \in Op : status[k] = "pending" <=> k >= cur
       /\ \A k \in Op : \A c \in 1..2 : k > cur => <<k, c>> \notin ended
       /\ \A c \in 1..2 : <<cur, c>> \in ended <=> c < cmd
  /\ pc = "begin" => cmd = 1
  /\ pc = "done" => \A k \in Op : status[k] # "pending"

\* What the checks of the repositories still mean.
Vetted ==
  /\ pc \in {"gate", "check", "markers"} => \A k \in Op : k >= cur => ~verdict[k]
  /\ pc = "gate" => cur = 1
  /\ pc \in UnderWay => verdict[cur]
  /\ pc = "markers" => (repo[cur] = "edited" => cur \in late)
  /\ \A k \in Op : verdict[k] /\ batch[k] = "gc" /\ k \notin late => repo[k] = "clean"

IInv == TypeOK /\ Progress /\ OkMeansDone /\ Vetted /\ CollectedWasClean

\* The operations of a plan are numbered from 1.
LEMMA OpFacts == ASSUME batch \in Batches
                 PROVE  /\ batch \in Seq(Kind) /\ Len(batch) \in Nat \ {0} /\ Op = 1..Len(batch)
                        /\ \A k \in Op : batch[k] \in Kind /\ Last(k) \in 1..2
<1>1. batch \in Seq(Kind) /\ batch # <<>>
  BY BatchAssumption
<1>2. Len(batch) \in Nat /\ Op = 1..Len(batch)
  BY <1>1, LenProperties DEF Op
<1>3. Len(batch) # 0
  BY <1>1, EmptySeq
<1>4. \A k \in Op : batch[k] \in Kind
  BY <1>1, <1>2, ElementOfSeq
<1>5. \A k \in Op : Last(k) \in 1..2
  BY DEF Last
<1> QED
  BY <1>1, <1>2, <1>3, <1>4, <1>5

LEMMA InitIInv == Init => IInv
<1> SUFFICES ASSUME Init PROVE IInv
  OBVIOUS
<1>0. /\ batch \in Batches /\ Len(batch) \in Nat \ {0} /\ Op = 1..Len(batch)
      /\ \A k \in Op : Last(k) \in 1..2
  BY OpFacts DEF Init
<1>1. TypeOK
  <2>1. runs \in [Op -> [1..2 -> Nat]] /\ verdict \in [Op -> BOOLEAN]
    BY DEF Init
  <2>2. status \in [Op -> Statuses] /\ repo \in [Op -> Trees] /\ pc \in Steps
    BY DEF Init, Statuses, Trees, Steps
  <2>3. batch \in Batches /\ cur \in Op /\ cmd \in 1..2 /\ try \in 1..2
    BY <1>0 DEF Init
  <2>4. ended \subseteq Op \X (1..2) /\ late \subseteq Op /\ soiled \subseteq Op
    BY DEF Init
  <2>5. ticket \in BOOLEAN /\ interrupted \in BOOLEAN
    BY DEF Init
  <2> QED
    BY <2>1, <2>2, <2>3, <2>4, <2>5 DEF TypeOK
<1>2. Progress
  BY <1>0 DEF Init, Progress, Planning, Executing
<1>3. OkMeansDone /\ CollectedWasClean
  BY DEF Init, OkMeansDone, CollectedWasClean
<1>4. Vetted
  BY DEF Init, Vetted, UnderWay, Executing
<1> QED
  BY <1>1, <1>2, <1>3, <1>4 DEF IInv

-----------------------------------------------------------------------------
(* Steps before the first operation runs.                                  *)

\* A check of the current operation that says yes of a repository only when it is
\* clean, or has been changed since.
LEMMA CheckedStep ==
  ASSUME IInv, NEW valid \in BOOLEAN, pc \in {"check", "markers"}, Checked(valid),
         valid /\ batch[cur] = "gc" => cur \in late \/ repo[cur] = "clean",
         UNCHANGED <<batch, cmd, try, status, ticket, interrupted, repo, runs, ghost>>
  PROVE  IInv'
<1>0. /\ Len(batch) \in Nat \ {0} /\ Op = 1..Len(batch) /\ Op' = Op /\ cur \in Op
      /\ \A k \in Op : Last(k) \in 1..2
  BY OpFacts DEF IInv, TypeOK, Op
<1>1. TypeOK'
  BY <1>0 DEF IInv, TypeOK, Checked, ghost, Steps
<1>2. Progress'
  <2>1. CASE cur = Len(batch)
    BY <1>0, <2>1 DEF IInv, TypeOK, Progress, Checked, ghost, Planning, Executing, Last
  <2>2. CASE cur # Len(batch)
    BY <1>0, <2>2 DEF IInv, TypeOK, Progress, Checked, ghost, Planning, Executing, Last
  <2> QED
    BY <2>1, <2>2
<1>3. OkMeansDone' /\ CollectedWasClean'
  BY <1>0 DEF IInv, OkMeansDone, CollectedWasClean, ghost, Last
<1>4. Vetted'
  BY <1>0 DEF IInv, TypeOK, Vetted, Checked, ghost, UnderWay, Executing
<1> QED
  BY <1>1, <1>2, <1>3, <1>4 DEF IInv

LEMMA PlanningStep == ASSUME IInv, Answer \/ Check \/ CheckStatus \/ CheckMarkers
                      PROVE  IInv'
<1>1. CASE Answer
  BY <1>1 DEF Answer, ghost, IInv, TypeOK, Op, Steps, Progress, Planning, Executing, UnderWay,
              OkMeansDone, Vetted, CollectedWasClean, Last
<1>2. CASE Check
  BY <1>2, CheckedStep DEF Check
<1>3. CASE CheckStatus
  <2>1. CASE Checked(FALSE)
    BY <1>3, <2>1, CheckedStep DEF CheckStatus
  <2>2. CASE repo[cur] # "edited" /\ pc' = "markers" /\ UNCHANGED <<verdict, cur>>
    BY <1>3, <2>2 DEF CheckStatus, ghost, IInv, TypeOK, Op, Steps, Progress, Planning, Executing,
                      UnderWay, OkMeansDone, Vetted, CollectedWasClean, Last
  <2> QED
    BY <1>3, <2>1, <2>2 DEF CheckStatus
<1>4. CASE CheckMarkers
  <2>1. CASE Checked(FALSE)
    BY <1>4, <2>1, CheckedStep DEF CheckMarkers
  <2>2. CASE repo[cur] # "merging" /\ Checked(TRUE)
    <3>1. cur \in late \/ repo[cur] = "clean"
      BY <1>4, <2>2 DEF CheckMarkers, IInv, Vetted, TypeOK, Trees
    <3> QED
      BY <1>4, <2>2, <3>1, CheckedStep DEF CheckMarkers
  <2> QED
    BY <1>4, <2>1, <2>2 DEF CheckMarkers
<1> QED
  BY <1>1, <1>2, <1>3, <1>4

-----------------------------------------------------------------------------
(* Steps of the current operation.                                         *)

\* An operation is settled as "ok" exactly when its commands have all returned.
LEMMA SettleStep ==
  ASSUME IInv, pc \in Executing, NEW s \in Statuses \ {"pending"}, Settle(s),
         ended' \in {ended, ended \cup {<<cur, cmd>>}},
         s = "ok" <=> cmd = Last(cur) /\ <<cur, cmd>> \in ended',
         ticket' \in BOOLEAN, runs' \in [Op -> [1..2 -> Nat]], late' = late,
         soiled' \subseteq Op, soiled' \subseteq late
  PROVE  IInv'
<1>0. /\ Len(batch) \in Nat \ {0} /\ Op = 1..Len(batch) /\ Op' = Op /\ cur \in Op
      /\ \A k \in Op : Last(k) \in 1..2 /\ Last(k)' = Last(k)
  BY OpFacts DEF IInv, TypeOK, Op, Settle, Last
<1>c. cur' \in Op /\ cmd' = 1
  BY <1>0 DEF Settle
<1>1. TypeOK'
  BY <1>0, <1>c DEF IInv, TypeOK, Settle, Steps
<1>2. \A k \in Op : \A c \in 1..2 : k # cur => (<<k, c>> \in ended' <=> <<k, c>> \in ended)
  OBVIOUS
<1>3. Progress'
  <2>1. CASE cur = Len(batch)
    <3>1. \A k \in Op : status'[k] # "pending"
      BY <1>0, <2>1 DEF IInv, TypeOK, Progress, Settle
    <3> QED
      BY <1>0, <1>c, <2>1, <3>1 DEF Settle, Progress, Planning, Executing
  <2>2. CASE cur # Len(batch)
    <3>1. pc' = "begin" /\ cur' = cur + 1
      BY <2>2 DEF Settle
    <3>2. \A k \in Op : status'[k] = "pending" <=> k >= cur'
      BY <1>0, <3>1 DEF IInv, TypeOK, Progress, Settle
    <3>3. \A k \in Op : \A c \in 1..2 : k >= cur' => <<k, c>> \notin ended'
      <4> SUFFICES ASSUME NEW k \in Op, NEW c \in 1..2, k >= cur'
                   PROVE  <<k, c>> \notin ended'
        BY <1>0
      <4>1. k > cur /\ k # cur
        BY <1>0, <3>1
      <4>2. <<k, c>> \notin ended
        BY <4>1 DEF IInv, Progress
      <4> QED
        BY <1>2, <4>1, <4>2
    <3> QED
      BY <1>0, <1>c, <3>1, <3>2, <3>3 DEF Progress, Planning, Executing
  <2> QED
    BY <2>1, <2>2
<1>4. OkMeansDone'
  <2> SUFFICES ASSUME NEW k \in Op, status'[k] # "pending"
               PROVE  status'[k] = "ok" <=> \A c \in 1..Last(k) : <<k, c>> \in ended'
    BY <1>0 DEF OkMeansDone
  <2>1. CASE k = cur
    <3>1. status'[k] = s
      BY <2>1 DEF IInv, TypeOK, Settle
    <3>2. \A c \in 1..2 : <<cur, c>> \in ended <=> c < cmd
      BY DEF IInv, Progress
    <3>3. cmd \in 1..Last(cur) /\ Last(cur) \in 1..2
      BY <1>0 DEF IInv, TypeOK, Progress
    <3>4. s = "ok" => \A c \in 1..Last(cur) : <<cur, c>> \in ended'
      BY <3>2, <3>3
    <3>5. (\A c \in 1..Last(cur) : <<cur, c>> \in ended') => s = "ok"
      <4> SUFFICES ASSUME \A c \in 1..Last(cur) : <<cur, c>> \in ended' PROVE s = "ok"
        OBVIOUS
      <4>1. <<cur, cmd>> \in ended' /\ <<cur, Last(cur)>> \in ended'
        BY <3>3
      <4>2. Last(cur) <= cmd
        BY <3>2, <3>3, <4>1
      <4> QED
        BY <3>3, <4>1, <4>2
    <3> QED
      BY <2>1, <3>1, <3>4, <3>5
  <2>2. CASE k # cur
    <3>1. status'[k] = status[k]
      BY <2>2 DEF IInv, TypeOK, Settle
    <3>2. \A c \in 1..Last(k) : c \in 1..2
      BY <1>0
    <3> QED
      BY <1>2, <2>2, <3>1, <3>2 DEF IInv, OkMeansDone
  <2> QED
    BY <2>1, <2>2
<1>5. Vetted' /\ CollectedWasClean'
  BY <1>0 DEF IInv, Vetted, CollectedWasClean, Settle, Executing, UnderWay
<1> QED
  BY <1>1, <1>3, <1>4, <1>5 DEF IInv

\* The operation goes on.
LEMMA GoStep ==
  ASSUME IInv, pc \in Executing, NEW step \in UnderWay, Go(step), verdict[cur],
         \/ cmd' = cmd /\ ended' = ended
         \/ cmd < Last(cur) /\ cmd' = cmd + 1 /\ ended' = ended \cup {<<cur, cmd>>},
         try' \in 1..2, ticket' \in BOOLEAN, runs' \in [Op -> [1..2 -> Nat]], late' = late,
         soiled' \subseteq Op, soiled' \subseteq late
  PROVE  IInv'
<1>0. /\ Len(batch) \in Nat \ {0} /\ Op = 1..Len(batch) /\ Op' = Op /\ cur \in Op /\ cur' = cur
      /\ \A k \in Op : Last(k) \in 1..2 /\ Last(k)' = Last(k)
  BY OpFacts DEF IInv, TypeOK, Op, Go, Last
<1>n. cmd' \in 1..2 /\ cmd' <= Last(cur)
  BY <1>0 DEF IInv, TypeOK, Progress
<1>1. TypeOK'
  BY <1>0, <1>n DEF IInv, TypeOK, Go, Steps, UnderWay, Executing
<1>2. \A k \in Op : \A c \in 1..2 : k # cur => (<<k, c>> \in ended' <=> <<k, c>> \in ended)
  OBVIOUS
<1>3. \A c \in 1..2 : <<cur, c>> \in ended' <=> c < cmd'
  <2> SUFFICES ASSUME NEW c \in 1..2 PROVE <<cur, c>> \in ended' <=> c < cmd'
    OBVIOUS
  <2>1. cmd \in 1..2 /\ (<<cur, c>> \in ended <=> c < cmd)
    BY DEF IInv, TypeOK, Progress
  <2>2. CASE cmd' = cmd /\ ended' = ended
    BY <2>1, <2>2
  <2>3. CASE cmd' = cmd + 1 /\ ended' = ended \cup {<<cur, cmd>>}
    <3>1. <<cur, c>> \in ended' <=> <<cur, c>> \in ended \/ c = cmd
      BY <2>3
    <3> QED
      BY <2>1, <2>3, <3>1
  <2> QED
    BY <2>2, <2>3
<1>4. Progress'
  BY <1>0, <1>n, <1>2, <1>3 DEF IInv, TypeOK, Progress, Go, UnderWay, Executing, Planning
<1>5. OkMeansDone'
  <2> SUFFICES ASSUME NEW k \in Op, status[k] # "pending"
               PROVE  status[k] = "ok" <=> \A c \in 1..Last(k) : <<k, c>> \in ended'
    BY <1>0 DEF OkMeansDone, Go
  <2>1. k # cur
    BY <1>0 DEF IInv, TypeOK, Progress
  <2>2. \A c \in 1..Last(k) : c \in 1..2
    BY <1>0
  <2> QED
    BY <1>2, <2>1, <2>2 DEF IInv, OkMeansDone
<1>6. Vetted' /\ CollectedWasClean'
  BY <1>0 DEF IInv, Vetted, CollectedWasClean, Go, Executing, UnderWay
<1> QED
  BY <1>1, <1>4, <1>5, <1>6 DEF IInv

\* A command that is not finished leaves its operation undone.
LEMMA Unfinished == ASSUME IInv, pc \in Executing
                    PROVE  <<cur, cmd>> \notin ended /\ Last(cur) \in 1..2 /\ cmd \in 1..2
<1>1. cmd \in 1..2 /\ cur \in Op
  BY DEF IInv, TypeOK
<1>2. Last(cur) \in 1..2
  BY DEF Last
<1> QED
  BY <1>1, <1>2 DEF IInv, Progress

\* Whatever a command came to.
LEMMA ResultStep ==
  ASSUME IInv, pc \in UnderWay, NEW e, Result(e),
         ended' = IF e = "ok" THEN ended \cup {<<cur, cmd>>} ELSE ended,
         ticket' \in BOOLEAN, runs' \in [Op -> [1..2 -> Nat]], late' = late,
         soiled' = soiled
  PROVE  IInv'
<1>0. pc \in Executing /\ verdict[cur] /\ soiled' \subseteq Op /\ soiled' \subseteq late
  BY DEF IInv, TypeOK, Vetted, CollectedWasClean, UnderWay
<1>1. <<cur, cmd>> \notin ended /\ Last(cur) \in 1..2 /\ cmd \in 1..2
  BY <1>0, Unfinished
<1>2. CASE e = "ok" /\ cmd < Last(cur)
  <2>1. Go("acquire") /\ cmd' = cmd + 1 /\ try' = 1
    BY <1>2 DEF Result
  <2> QED
    BY <1>0, <1>2, <2>1, GoStep DEF UnderWay, Executing
<1>3. CASE e = "ok" /\ ~(cmd < Last(cur))
  <2>1. Settle("ok") /\ cmd = Last(cur)
    BY <1>1, <1>3 DEF Result, IInv, Progress
  <2> QED
    BY <1>0, <1>3, <2>1, SettleStep DEF Statuses
<1>4. CASE e # "ok" /\ Settle("failed")
  BY <1>0, <1>1, <1>4, SettleStep DEF Statuses
<1>5. CASE e # "ok" /\ Settle("notLoaded")
  BY <1>0, <1>1, <1>5, SettleStep DEF Statuses
<1> QED
  BY <1>2, <1>3, <1>4, <1>5 DEF Result

\* A ticket that counts as rejected.
LEMMA RejectedStep ==
  ASSUME IInv, pc \in UnderWay, Rejected, ended' \in {ended, ended \cup {<<cur, cmd>>}},
         ended' = ended,
         ticket' \in BOOLEAN, runs' \in [Op -> [1..2 -> Nat]], late' = late, soiled' = soiled
  PROVE  IInv'
<1>0. pc \in Executing /\ verdict[cur] /\ soiled' \subseteq Op /\ soiled' \subseteq late
  BY DEF IInv, TypeOK, Vetted, CollectedWasClean, UnderWay
<1>1. <<cur, cmd>> \notin ended
  BY <1>0, Unfinished
<1>2. CASE try = 1
  <2>1. Go("again") /\ cmd' = cmd /\ try' = try
    BY <1>2 DEF Rejected
  <2> QED
    BY <1>0, <1>2, <2>1, GoStep DEF UnderWay, Executing
<1>3. CASE try # 1
  <2>1. Settle("noPrivilege")
    BY <1>3 DEF Rejected
  <2> QED
    BY <1>0, <1>1, <2>1, SettleStep DEF Statuses
<1> QED
  BY <1>2, <1>3

\* A command is started: its count goes up, and a repository it collects is clean
\* unless it was changed late.
LEMMA StartStep == ASSUME IInv, Start
                   PROVE  IInv'
<1>0. pc \in UnderWay /\ pc \in Executing /\ verdict[cur] /\ cur \in Op /\ cmd \in 1..2
  BY DEF Start, IInv, TypeOK, Vetted, UnderWay, Executing
<1>1. ticket' \in BOOLEAN /\ ended' = ended /\ late' = late
  BY DEF Start, IInv, TypeOK
<1>2. CASE interrupted
  <2>1. Result("unstarted") /\ UNCHANGED <<runs, soiled>>
    BY <1>2 DEF Start
  <2>2. runs' \in [Op -> [1..2 -> Nat]] /\ soiled' = soiled
    BY <2>1 DEF IInv, TypeOK
  <2> QED
    BY <1>0, <1>1, <2>1, <2>2, ResultStep
<1>3. CASE ~interrupted /\ pc = "sudo" /\ ~ticket
  <2>1. Rejected /\ UNCHANGED <<runs, soiled>>
    BY <1>3 DEF Start
  <2>2. runs' \in [Op -> [1..2 -> Nat]] /\ soiled' = soiled
    BY <2>1 DEF IInv, TypeOK
  <2> QED
    BY <1>0, <1>1, <2>1, <2>2, RejectedStep
<1>4. CASE ~interrupted /\ ~(pc = "sudo" /\ ~ticket)
  <2>1. /\ Go("running") /\ cmd' = cmd /\ try' = try
        /\ runs' = [runs EXCEPT ![cur][cmd] = @ + 1]
        /\ soiled' = IF batch[cur] = "gc" /\ repo[cur] # "clean" THEN soiled \cup {cur} ELSE soiled
    BY <1>4 DEF Start
  <2>2. runs' \in [Op -> [1..2 -> Nat]]
    BY <1>0, <2>1 DEF IInv, TypeOK
  <2>3. soiled' \subseteq Op /\ soiled' \subseteq late
    BY <1>0, <2>1 DEF IInv, TypeOK, Vetted, CollectedWasClean
  <2>4. try' \in 1..2
    BY <2>1 DEF IInv, TypeOK
  <2> QED
    BY <1>0, <1>1, <2>1, <2>2, <2>3, <2>4, GoStep DEF UnderWay, Executing
<1> QED
  BY <1>2, <1>3, <1>4

LEMMA ReturnStep == ASSUME IInv, Returns \/ CutOff
                    PROVE  IInv'
<1>0. pc \in UnderWay
  BY DEF Returns, CutOff, UnderWay, Executing
<1>1. /\ ticket' \in BOOLEAN /\ runs' \in [Op -> [1..2 -> Nat]]
      /\ late' = late /\ soiled' = soiled
  BY DEF Returns, CutOff, ghost, IInv, TypeOK
<1>2. CASE Returns
  <2>1. PICK e \in {"ok", "one", "other"} :
          /\ IF e = "one" /\ batch[cur] \in Privileged THEN Rejected ELSE Result(e)
          /\ ended' = IF e = "ok" THEN ended \cup {<<cur, cmd>>} ELSE ended
    BY <1>2 DEF Returns
  <2>2. CASE e = "one" /\ batch[cur] \in Privileged
    BY <1>0, <1>1, <2>1, <2>2, RejectedStep
  <2>3. CASE ~(e = "one" /\ batch[cur] \in Privileged)
    BY <1>0, <1>1, <2>1, <2>3, ResultStep
  <2> QED
    BY <2>2, <2>3
<1>3. CASE CutOff
  <2>1. Result("cut") /\ ended' = ended
    BY <1>3 DEF CutOff, ghost
  <2> QED
    BY <1>0, <1>1, <2>1, ResultStep
<1> QED
  BY <1>2, <1>3

\* Steps that neither start nor end a command.
LEMMA TicketStep == ASSUME IInv, Begin \/ Acquire \/ Authenticate \/ Declined
                    PROVE  IInv'
<1>0. pc \in Executing
  BY DEF Begin, Acquire, Authenticate, Declined, Executing
<1>1. /\ ticket' \in BOOLEAN /\ runs' \in [Op -> [1..2 -> Nat]] /\ ended' = ended /\ late' = late
      /\ soiled' = soiled /\ soiled' \subseteq Op /\ soiled' \subseteq late
  BY DEF Begin, Acquire, Authenticate, Declined, ghost, IInv, TypeOK, CollectedWasClean
<1>2. <<cur, cmd>> \notin ended
  BY <1>0, Unfinished
<1>3. CASE Begin
  <2>1. CASE ~verdict[cur]
    <3>1. Settle("skipped")
      BY <1>3, <2>1 DEF Begin
    <3> QED
      BY <1>0, <1>1, <1>2, <3>1, SettleStep DEF Statuses
  <2>2. CASE verdict[cur]
    <3>1. PICK step \in {"acquire", "plain"} : Go(step) /\ cmd' = cmd /\ try' = try
      BY <1>3, <2>2 DEF Begin
    <3>2. try' \in 1..2
      BY <3>1 DEF IInv, TypeOK
    <3> QED
      BY <1>0, <1>1, <2>2, <3>1, <3>2, GoStep DEF UnderWay, Executing
  <2> QED
    BY <2>1, <2>2
<1>4. CASE Acquire
  <2>1. PICK step \in {"sudo", "prompt"} : Go(step) /\ cmd' = cmd /\ try' = try
    BY <1>4 DEF Acquire
  <2>2. try' \in 1..2 /\ verdict[cur]
    BY <1>4, <2>1 DEF Acquire, IInv, TypeOK, Vetted, UnderWay, Executing
  <2> QED
    BY <1>0, <1>1, <2>1, <2>2, GoStep DEF UnderWay, Executing
<1>5. CASE Authenticate
  <2>1. Go("sudo") /\ cmd' = cmd /\ try' \in 1..2
    BY <1>5 DEF Authenticate
  <2>2. verdict[cur]
    BY <1>5 DEF Authenticate, IInv, Vetted, UnderWay, Executing
  <2> QED
    BY <1>0, <1>1, <2>1, <2>2, GoStep DEF UnderWay, Executing
<1>6. CASE Declined
  <2>1. Settle("noPrivilege")
    BY <1>6 DEF Declined
  <2> QED
    BY <1>0, <1>1, <1>2, <2>1, SettleStep DEF Statuses
<1> QED
  BY <1>3, <1>4, <1>5, <1>6

-----------------------------------------------------------------------------
\* Somebody who works in a repository after its check makes it late.
LEMMA WorkStep == ASSUME IInv, NEW n \in Op, Works(n)
                  PROVE  IInv'
<1>1. PICK t \in Trees \ {repo[n]} :
        /\ repo' = [repo EXCEPT ![n] = t]
        /\ late' = IF pc = "gate" \/ (pc = "check" /\ cur <= n)
                      \/ (pc = "markers" /\ (cur < n \/ (cur = n /\ t # "edited")))
                     THEN late ELSE late \cup {n}
  BY DEF Works
<1>2. /\ Op' = Op /\ \A k \in Op : Last(k)' = Last(k)
      /\ UNCHANGED <<batch, pc, cur, cmd, try, verdict, status, ticket, interrupted, runs,
                     ended, soiled>>
  BY DEF Works, Op, Last
<1>3. TypeOK'
  BY <1>1, <1>2 DEF IInv, TypeOK
<1>4. Progress' /\ OkMeansDone' /\ CollectedWasClean'
  BY <1>1, <1>2 DEF IInv, TypeOK, Progress, OkMeansDone, CollectedWasClean
<1>5. Vetted'
  <2>0. cur \in Nat /\ n \in Nat
    BY OpFacts DEF IInv, TypeOK
  <2>1. ASSUME NEW k \in Op, verdict[k], batch[k] = "gc", k \notin late'
        PROVE  repo'[k] = "clean"
    <3>1. k \notin late /\ repo[k] = "clean"
      BY <1>1, <2>1 DEF IInv, Vetted
    <3>2. CASE k = n
      <4>1. pc \in {"gate", "check", "markers"} /\ (pc = "gate" \/ cur <= k)
        BY <1>1, <2>0, <2>1, <3>2
      <4>2. k >= cur
        BY <2>0, <3>2, <4>1, OpFacts DEF IInv, TypeOK, Vetted
      <4> QED
        BY <2>1, <4>1, <4>2 DEF IInv, Vetted
    <3>3. CASE k # n
      BY <1>1, <3>1, <3>3 DEF IInv, TypeOK
    <3> QED
      BY <3>2, <3>3
  <2>2. pc' = "markers" => (repo'[cur'] = "edited" => cur' \in late')
    BY <1>1, <1>2, <2>0 DEF IInv, TypeOK, Vetted
  <2> QED
    BY <1>2, <2>1, <2>2 DEF IInv, Vetted
<1> QED
  BY <1>3, <1>4, <1>5 DEF IInv

LEMMA SurroundingStep == ASSUME IInv, Expires \/ Interrupt \/ UNCHANGED vars
                         PROVE  IInv'
<1>1. /\ UNCHANGED <<batch, pc, cur, cmd, try, verdict, status, repo, runs, ended, late, soiled>>
      /\ ticket' \in BOOLEAN /\ interrupted' \in BOOLEAN
  BY DEF Expires, Interrupt, vars, ghost, IInv, TypeOK
<1>2. Op' = Op /\ \A k \in Op : Last(k)' = Last(k)
  BY <1>1 DEF Op, Last
<1>3. TypeOK'
  BY <1>1, <1>2 DEF IInv, TypeOK
<1>4. Progress' /\ OkMeansDone'
  BY <1>1, <1>2 DEF IInv, TypeOK, Progress, OkMeansDone
<1>5. Vetted' /\ CollectedWasClean'
  BY <1>1, <1>2 DEF IInv, Vetted, CollectedWasClean
<1> QED
  BY <1>3, <1>4, <1>5 DEF IInv

LEMMA Inductive == IInv /\ [Next]_vars => IInv'
BY PlanningStep, StartStep, ReturnStep, TicketStep, WorkStep, SurroundingStep
   DEF Next, Process, User

LEMMA Always == Spec => []IInv
BY InitIInv, Inductive, PTL DEF Spec

\* Every variable keeps its type, for every plan.
THEOREM TypeCorrect == Spec => []TypeOK
<1>1. IInv => TypeOK
  BY DEF IInv
<1> QED
  BY <1>1, Always, PTL

\* An operation is recorded "ok" exactly when all its commands have returned without
\* an error (DNSFlushOp and the others), whatever tickets, prompts and Control-C do.
THEOREM OkIsDone == Spec => []OkMeansDone
<1>1. IInv => OkMeansDone
  BY DEF IInv
<1> QED
  BY <1>1, Always, PTL

\* Only a repository that was changed after its check is collected while edited or
\* in a merge (RepoMaintenanceOp.ValidateAtExec).
THEOREM CollectedClean == Spec => []CollectedWasClean
<1>1. IInv => CollectedWasClean
  BY DEF IInv
<1> QED
  BY <1>1, Always, PTL

\* A command that has returned without an error is not started again, by the retry
\* after a rejected ticket (Chokepoint.Run) or otherwise.
THEOREM NeverAgain == Spec => NotAgainAfterSuccess
<1>1. IInv /\ [Next]_vars =>
        [\A k \in Op : \A c \in 1..2 : <<k, c>> \in ended => runs'[k][c] = runs[k][c]]_vars
  <2> SUFFICES ASSUME IInv, Next, NEW k \in Op, NEW c \in 1..2, <<k, c>> \in ended
               PROVE  runs'[k][c] = runs[k][c]
    OBVIOUS
  <2>1. CASE runs' = runs
    BY <2>1
  <2>2. CASE runs' # runs
    <3>1. Start
      BY <2>2 DEF Next, Process, User, Answer, Check, CheckStatus, CheckMarkers, Begin, Acquire,
                  Authenticate, Declined, Returns, CutOff, Expires, Interrupt, Works
    <3>2. pc \in Executing /\ cur \in Op /\ cmd \in 1..2
      BY <3>1 DEF Start, Executing, IInv, TypeOK
    <3>3. <<cur, cmd>> \notin ended
      BY <3>2, Unfinished
    <3>4. runs' = [runs EXCEPT ![cur][cmd] = @ + 1]
      BY <2>2, <3>1 DEF Start
    <3> QED
      BY <3>2, <3>3, <3>4 DEF IInv, TypeOK
  <2> QED
    BY <2>1, <2>2
<1> QED
  BY <1>1, Always, PTL DEF Spec, NotAgainAfterSuccess
-----------------------------------------------------------------------------
(* The plan of system commands is what executes: the phases of PlanPromise  *)
(* are the positions of the process, and the effect is what its commands    *)
(* have done.                                                               *)
PlanPhase ==
  CASE pc = "gate"     -> "asking"
    [] pc = "done"     -> "done"
    [] pc = "declined" -> "stopped"
    [] OTHER           -> "approved"

\* How far the checks and the operations have come.
NChecked == IF pc = "gate" THEN 0
            ELSE IF pc \in {"check", "markers"} THEN cur - 1
            ELSE Len(batch)
NSettled == IF pc \in {"gate", "check", "markers"} THEN 0
            ELSE IF pc = "done" THEN Len(batch)
            ELSE cur - 1

FirstOf(s, n) == [k \in 1..n |-> s[k]]

Plan == INSTANCE PlanPromise
          WITH Fates <- Statuses, phase <- PlanPhase, plan <- batch,
               verdict <- FirstOf(verdict, NChecked), fate <- FirstOf(status, NSettled),
               effect <- <<runs, ended, soiled>>

\* One more of the first elements, the others being what they were.
LEMMA OneMore ==
  ASSUME NEW n \in Nat, NEW s, NEW t, \A k \in 1..n : t[k] = s[k]
  PROVE  /\ Len(FirstOf(s, n)) = n /\ FirstOf(t, n) = FirstOf(s, n)
         /\ FirstOf(t, n + 1) = Append(FirstOf(s, n), t[n + 1])
BY DEF FirstOf

LEMMA PlanInit == Init => Plan!Init
BY DEF Init, Plan!Init, PlanPhase, NChecked, NSettled, FirstOf

\* What both counts are within a plan.
LEMMA Counts ==
  ASSUME IInv
  PROVE  /\ Op = 1..Len(batch) /\ Len(batch) \in Nat \ {0} /\ cur \in Op
         /\ NChecked \in Nat /\ NSettled \in Nat
         /\ Len(FirstOf(verdict, NChecked)) = NChecked /\ Len(FirstOf(status, NSettled)) = NSettled
<1>1. Op = 1..Len(batch) /\ Len(batch) \in Nat \ {0} /\ cur \in Op
  BY OpFacts DEF IInv, TypeOK
<1>2. NChecked \in Nat /\ NSettled \in Nat
  BY <1>1 DEF NChecked, NSettled
<1> QED
  BY <1>1, <1>2, OneMore

\* One result of a check.
LEMMA PlanCheck ==
  ASSUME IInv, pc \in {"check", "markers"}, NEW valid \in BOOLEAN, Checked(valid),
         UNCHANGED <<batch, status, runs, ended, soiled>>
  PROVE  Plan!Check
<1>1. /\ Op = 1..Len(batch) /\ Len(batch) \in Nat \ {0} /\ cur \in Op
      /\ NChecked = cur - 1 /\ NSettled = 0 /\ Len(FirstOf(verdict, NChecked)) = NChecked
  BY Counts DEF NChecked, NSettled
<1>2. /\ verdict' = [verdict EXCEPT ![cur] = valid]
      /\ \/ cur = Len(batch) /\ pc' = "begin" /\ cur' = 1
         \/ cur # Len(batch) /\ pc' = "check" /\ cur' = cur + 1
  BY DEF Checked
<1>3. NChecked' = NChecked + 1 /\ NSettled' = 0
  BY <1>1, <1>2 DEF NChecked, NSettled
<1>4. verdict'[cur] = valid /\ \A k \in 1..NChecked : verdict'[k] = verdict[k]
  BY <1>1, <1>2 DEF IInv, TypeOK
<1>5. FirstOf(verdict, NChecked)' = Append(FirstOf(verdict, NChecked), valid)
  <2> DEFINE v == verdict'
  <2>1. FirstOf(verdict, NChecked)' = FirstOf(v, NChecked')
    BY DEF FirstOf
  <2>2. v[NChecked + 1] = valid /\ NChecked \in Nat /\ \A k \in 1..NChecked : v[k] = verdict[k]
    BY <1>1, <1>4
  <2> HIDE DEF v
  <2>3. FirstOf(v, NChecked + 1) = Append(FirstOf(verdict, NChecked), v[NChecked + 1])
    BY <2>2, OneMore
  <2> QED
    BY <1>3, <2>1, <2>2, <2>3
<1>6. UNCHANGED FirstOf(status, NSettled)
  BY <1>1, <1>3 DEF FirstOf
<1>7. PlanPhase = "approved" /\ PlanPhase' = "approved"
  BY <1>2 DEF PlanPhase
<1>8. Len(FirstOf(verdict, NChecked)) < Len(batch)
  BY <1>1
<1> QED
  BY <1>5, <1>6, <1>7, <1>8 DEF Plan!Check

\* What the operation in hand may do: it was checked, and its turn has come.
LEMMA InTurn ==
  ASSUME IInv, pc \in Executing
  PROVE  /\ PlanPhase = "approved" /\ NChecked = Len(batch) /\ NSettled = cur - 1
         /\ NSettled < Len(batch) /\ NSettled + 1 = cur
         /\ Len(FirstOf(verdict, NChecked)) = Len(batch) /\ Len(FirstOf(status, NSettled)) = NSettled
         /\ FirstOf(verdict, NChecked)[NSettled + 1] = verdict[cur]
<1>1. /\ Op = 1..Len(batch) /\ Len(batch) \in Nat \ {0} /\ cur \in Op
      /\ NChecked = Len(batch) /\ NSettled = cur - 1 /\ PlanPhase = "approved"
      /\ Len(FirstOf(verdict, NChecked)) = NChecked /\ Len(FirstOf(status, NSettled)) = NSettled
  BY Counts DEF NChecked, NSettled, PlanPhase, Executing
<1> QED
  BY <1>1 DEF FirstOf

\* The operation in hand settles: refused, if it failed its check.
LEMMA PlanSettle ==
  ASSUME IInv, pc \in Executing, NEW s \in Statuses, Settle(s),
         \/ verdict[cur]
         \/ ~verdict[cur] /\ s = "skipped" /\ UNCHANGED <<runs, ended, soiled>>
  PROVE  Plan!Refuse \/ Plan!Act
<1>1. /\ Op = 1..Len(batch) /\ Len(batch) \in Nat \ {0} /\ cur \in Op
      /\ verdict \in [Op -> BOOLEAN] /\ status \in [Op -> Statuses]
  BY Counts DEF IInv, TypeOK
<1>2. /\ UNCHANGED <<batch, verdict>> /\ status' = [status EXCEPT ![cur] = s]
      /\ \/ cur = Len(batch) /\ pc' = "done" /\ cur' = cur
         \/ cur # Len(batch) /\ pc' = "begin" /\ cur' = cur + 1
  BY DEF Settle
<1>3. NChecked' = NChecked /\ NSettled' = NSettled + 1 /\ NSettled + 1 = cur /\ NSettled \in Nat
  BY <1>1, <1>2, InTurn DEF NChecked, NSettled
<1>4. UNCHANGED FirstOf(verdict, NChecked)
  BY <1>2, <1>3 DEF FirstOf
<1>5. FirstOf(status, NSettled)' = Append(FirstOf(status, NSettled), s)
  <2> DEFINE t == status'
  <2>1. FirstOf(status, NSettled)' = FirstOf(t, NSettled')
    BY DEF FirstOf
  <2>2. t[NSettled + 1] = s /\ \A k \in 1..NSettled : t[k] = status[k]
    BY <1>1, <1>2, <1>3
  <2> HIDE DEF t
  <2>3. FirstOf(t, NSettled + 1) = Append(FirstOf(status, NSettled), t[NSettled + 1])
    BY <1>3, <2>2, OneMore
  <2> QED
    BY <1>3, <2>1, <2>2, <2>3
<1>6. /\ PlanPhase' \in {"approved", "done"}
      /\ PlanPhase' = "done" => Len(FirstOf(status, NSettled)') = Len(batch)
  <2>1. Len(FirstOf(status, NSettled)') = NSettled + 1
    <3>1. Len(FirstOf(status', NSettled')) = NSettled'
      BY <1>3, OneMore
    <3> QED
      BY <1>3, <3>1 DEF FirstOf
  <2> QED
    BY <1>2, <1>3, <2>1 DEF PlanPhase
<1>7. CASE verdict[cur]
  <2>1. Plan!Turn(TRUE)
    BY <1>1, <1>2, <1>4, <1>6, <1>7, InTurn DEF Plan!Turn
  <2> QED
    BY <1>5, <2>1 DEF Plan!Act
<1>8. CASE ~verdict[cur]
  <2>1. Plan!Turn(FALSE)
    BY <1>1, <1>2, <1>4, <1>6, <1>8, InTurn DEF Plan!Turn
  <2> QED
    BY <1>5, <1>8, <2>1 DEF Plan!Refuse
<1> QED
  BY <1>7, <1>8

\* The operation in hand goes on.
LEMMA PlanGo ==
  ASSUME IInv, pc \in UnderWay, NEW step \in UnderWay, Go(step)
  PROVE  Plan!Act
<1>1. pc \in Executing /\ verdict[cur]
  BY DEF IInv, Vetted, UnderWay
<1>2. UNCHANGED <<batch, cur, verdict, status>> /\ pc' \in UnderWay
  BY DEF Go
<1>3. UNCHANGED <<PlanPhase, NChecked, NSettled>>
  BY <1>1, <1>2 DEF PlanPhase, NChecked, NSettled, UnderWay, Executing
<1>4. UNCHANGED <<FirstOf(verdict, NChecked), FirstOf(status, NSettled)>>
  BY <1>2, <1>3 DEF FirstOf
<1>5. Plan!Turn(TRUE)
  BY <1>1, <1>2, <1>3, <1>4, InTurn DEF Plan!Turn
<1> QED
  BY <1>4, <1>5 DEF Plan!Act

LEMMA PlanStep == IInv /\ [Next]_vars => [Plan!Next]_Plan!vars
<1> SUFFICES ASSUME IInv, [Next]_vars PROVE [Plan!Next]_Plan!vars
  OBVIOUS
<1>s. ASSUME UNCHANGED <<batch, cur, verdict, status, runs, ended, soiled>>,
             UNCHANGED <<PlanPhase, NChecked, NSettled>>
      PROVE  UNCHANGED Plan!vars
  BY <1>s DEF Plan!vars, FirstOf
<1>1. CASE Answer
  <2>1. /\ UNCHANGED <<batch, cur, verdict, status, runs, ended, soiled>>
        /\ pc = "gate" /\ pc' \in {"check", "declined"}
    BY <1>1 DEF Answer, ghost
  <2>2. CASE pc' = "declined"
    BY <2>1, <2>2 DEF PlanPhase, Plan!Next, Plan!Stop
  <2>3. CASE pc' = "check"
    <3>1. cur = 1
      BY <2>1 DEF IInv, Vetted
    <3>2. UNCHANGED <<NChecked, NSettled>>
      BY <2>1, <2>3, <3>1 DEF NChecked, NSettled
    <3>3. UNCHANGED <<FirstOf(verdict, NChecked), FirstOf(status, NSettled)>>
      BY <2>1, <3>2 DEF FirstOf
    <3> QED
      BY <2>1, <2>3, <3>3 DEF PlanPhase, Plan!Next, Plan!Approve
  <2> QED
    BY <2>1, <2>2, <2>3
<1>2. CASE Check \/ CheckStatus \/ CheckMarkers
  <2>1. /\ UNCHANGED <<batch, status, runs, ended, soiled>> /\ pc \in {"check", "markers"}
        /\ \/ \E valid \in BOOLEAN : Checked(valid)
           \/ pc = "check" /\ pc' = "markers" /\ UNCHANGED <<verdict, cur>>
    BY <1>2 DEF Check, CheckStatus, CheckMarkers, ghost
  <2>2. CASE \E valid \in BOOLEAN : Checked(valid)
    BY <2>1, <2>2, PlanCheck DEF Plan!Next
  <2>3. CASE pc = "check" /\ pc' = "markers" /\ UNCHANGED <<verdict, cur>>
    <3>1. UNCHANGED <<PlanPhase, NChecked, NSettled>>
      BY <2>1, <2>3 DEF PlanPhase, NChecked, NSettled
    <3> QED
      BY <1>s, <2>1, <2>3, <3>1
  <2> QED
    BY <2>1, <2>2, <2>3
<1>3. CASE Begin
  <2>1. CASE ~verdict[cur]
    BY <1>3, <2>1, PlanSettle DEF Begin, Statuses, Executing, ghost, Plan!Next
  <2>2. CASE verdict[cur]
    <3>1. /\ UNCHANGED <<batch, cur, verdict, status, runs, ended, soiled>>
          /\ pc = "begin" /\ pc' \in {"acquire", "plain"}
      BY <1>3, <2>2 DEF Begin, Go, ghost
    <3>2. UNCHANGED <<PlanPhase, NChecked, NSettled>>
      BY <3>1 DEF PlanPhase, NChecked, NSettled
    <3> QED
      BY <1>s, <3>1, <3>2
  <2> QED
    BY <2>1, <2>2
<1>4. CASE Acquire \/ Start \/ CutOff \/ Authenticate \/ Declined \/ Returns
  <2>1. pc \in UnderWay
    BY <1>4 DEF Acquire, Start, CutOff, Authenticate, Declined, Returns, UnderWay, Executing
  <2>2. pc \in Executing /\ verdict[cur]
    BY <2>1 DEF IInv, Vetted, UnderWay
  <2>3. \/ \E step \in UnderWay : Go(step)
        \/ \E s \in Statuses : Settle(s)
    BY <1>4 DEF Acquire, Start, CutOff, Authenticate, Declined, Returns, Result, Rejected,
                UnderWay, Executing, Statuses
  <2> QED
    BY <2>1, <2>2, <2>3, PlanGo, PlanSettle DEF Plan!Next
<1>5. CASE Expires \/ Interrupt \/ (\E k \in Op : Works(k)) \/ UNCHANGED vars
  <2>1. UNCHANGED <<batch, pc, cur, verdict, status, runs, ended, soiled>>
    BY <1>5 DEF Expires, Interrupt, Works, vars, ghost
  <2>2. UNCHANGED <<PlanPhase, NChecked, NSettled>>
    BY <2>1 DEF PlanPhase, NChecked, NSettled
  <2> QED
    BY <1>s, <2>1, <2>2
<1> QED
  BY <1>1, <1>2, <1>3, <1>4, <1>5 DEF Next, Process, User

\* No command runs but one of an operation that was shown, approved and found valid
\* by a check made before the first command, each operation in its turn (Revalidate
\* and Execute of pkg/safety, called by dnsflush.go, maintain.go and dockerprune.go).
THEOREM PlanKept == Spec => Plan!Spec
BY PlanInit, PlanStep, Always, PTL DEF Spec, Plan!Spec

-----------------------------------------------------------------------------
(* How often a command is started: at most once, and once more when it is   *)
(* privileged and its ticket was rejected, for Chokepoint.Run tries twice.  *)

\* The starts of the command in hand, where it stands with the chokepoint; those
\* to come have none.
Tries ==
  /\ pc \in Planning \cup {"begin", "acquire", "prompt", "plain", "again"} => try = 1
  /\ pc \in {"acquire", "prompt", "sudo", "again"} => batch[cur] \in Privileged
  /\ pc = "plain" => batch[cur] \in Plain
  /\ pc = "running" /\ batch[cur] \in Plain => try = 1
  /\ pc \in Planning => \A k \in Op : \A c \in 1..2 : runs[k][c] = 0
  /\ pc \in Executing =>
       /\ \A k \in Op : \A c \in 1..2 : k > cur \/ (k = cur /\ c > cmd) => runs[k][c] = 0
       /\ pc \in {"begin", "acquire", "prompt", "plain"} => runs[cur][cmd] = 0
       /\ pc = "sudo" => runs[cur][cmd] <= try - 1
       /\ pc = "running" => runs[cur][cmd] <= try
       /\ pc = "again" => runs[cur][cmd] <= 1

Limit(k)   == IF batch[k] \in Privileged THEN 2 ELSE 1
TwiceAtMost == \A k \in Op : \A c \in 1..2 : runs[k][c] <= Limit(k)

TriesInv == IInv /\ Tries /\ TwiceAtMost

LEMMA TriesInit == Init => Tries /\ TwiceAtMost
<1> SUFFICES ASSUME Init PROVE Tries /\ TwiceAtMost
  OBVIOUS
<1>1. \A k \in Op : \A c \in 1..2 : runs[k][c] = 0
  BY DEF Init
<1> QED
  BY <1>1 DEF Init, Tries, TwiceAtMost, Planning, Executing, Limit

\* Before the first operation none has been started.
LEMMA PlanningTries ==
  ASSUME TriesInv, Answer \/ Check \/ CheckStatus \/ CheckMarkers
  PROVE  Tries' /\ TwiceAtMost'
<1>1. /\ pc \in Planning /\ cmd = 1 /\ UNCHANGED <<batch, cmd, try, runs>>
      /\ pc' \in Planning \/ (pc' = "begin" /\ cur' = 1)
  BY DEF TriesInv, IInv, Progress, Planning, Answer, Check, CheckStatus, CheckMarkers, Checked, ghost
<1>2. /\ try' = 1 /\ cmd' = 1 /\ Op' = Op /\ pc' \in Planning \cup {"begin"}
      /\ \A k \in Op : \A c \in 1..2 : runs'[k][c] = 0
  BY <1>1 DEF TriesInv, Tries, Op, Planning
<1>3. pc' = "begin" => cur' \in Op
  BY <1>1, Counts DEF TriesInv, Planning
<1> QED
  BY <1>1, <1>2, <1>3 DEF Tries, TwiceAtMost, Planning, Executing, Limit

\* The next operation has not been started when it is its turn.
LEMMA SettleTries ==
  ASSUME TriesInv, pc \in Executing, NEW s, Settle(s), UNCHANGED runs
  PROVE  Tries' /\ TwiceAtMost'
<1>1. /\ Op = 1..Len(batch) /\ Len(batch) \in Nat \ {0} /\ cur \in Op
  BY Counts DEF TriesInv
<1>2. /\ UNCHANGED <<batch, runs>> /\ cmd' = 1 /\ try' = 1 /\ Op' = Op
      /\ \/ cur = Len(batch) /\ pc' = "done"
         \/ cur # Len(batch) /\ pc' = "begin" /\ cur' = cur + 1
  BY DEF Settle, Op
<1>3. \A k \in Op : \A c \in 1..2 : k > cur => runs'[k][c] = 0
  BY <1>2 DEF TriesInv, Tries
<1>4. Tries'
  <2>1. CASE pc' = "done"
    BY <1>2, <2>1 DEF Tries, Planning, Executing
  <2>2. CASE pc' = "begin" /\ cur' = cur + 1
    <3>1. cur' \in Op /\ cur' > cur /\ \A k \in Op : k >= cur' => k > cur
      BY <1>1, <1>2, <2>2
    <3>2. \A k \in Op : \A c \in 1..2 : k >= cur' => runs'[k][c] = 0
      BY <1>3, <3>1
    <3>3. runs'[cur'][1] = 0 /\ \A k \in Op : k > cur' => k >= cur'
      BY <1>1, <3>1, <3>2
    <3>4. \A k \in Op : \A c \in 1..2 : k > cur' \/ (k = cur' /\ c > 1) => runs'[k][c] = 0
      BY <1>1, <3>1, <3>2, <3>3
    <3> QED
      BY <1>2, <2>2, <3>3, <3>4 DEF Tries, Planning, Executing
  <2> QED
    BY <1>2, <2>1, <2>2
<1>5. TwiceAtMost'
  BY <1>2 DEF TriesInv, TwiceAtMost, Limit
<1> QED
  BY <1>4, <1>5

\* The operation goes on: what its next step assumes is shown where it is taken.
LEMMA GoTries ==
  ASSUME TriesInv, pc \in Executing, NEW step \in UnderWay, Go(step), UNCHANGED runs,
         cmd' = cmd \/ (cmd' = cmd + 1 /\ cmd < Last(cur)), try' \in 1..2,
         step \in {"acquire", "prompt", "plain", "again"} => try' = 1,
         step \in {"acquire", "prompt", "sudo", "again"} => batch[cur] \in Privileged,
         step = "plain" => batch[cur] \in Plain,
         step = "running" /\ batch[cur] \in Plain => try' = 1,
         step \in {"acquire", "prompt", "plain"} => runs[cur][cmd'] = 0,
         step = "sudo" => runs[cur][cmd'] <= try' - 1,
         step = "running" => runs[cur][cmd'] <= try',
         step = "again" => runs[cur][cmd'] <= 1
  PROVE  Tries' /\ TwiceAtMost'
<1>1. /\ UNCHANGED <<batch, cur, runs>> /\ pc' = step /\ Op' = Op /\ cmd \in 1..2 /\ cmd' >= cmd
  BY DEF Go, Op, TriesInv, IInv, TypeOK
<1>2. \A k \in Op : \A c \in 1..2 : k > cur \/ (k = cur /\ c > cmd') => runs'[k][c] = 0
  BY <1>1 DEF TriesInv, Tries
<1>3. Tries'
  BY <1>1, <1>2 DEF Tries, Planning, UnderWay, Executing
<1>4. TwiceAtMost'
  BY <1>1 DEF TriesInv, TwiceAtMost, Limit
<1> QED
  BY <1>3, <1>4

\* A flush goes on with a command that was not started; anything else settles.
LEMMA ResultTries ==
  ASSUME TriesInv, pc \in UnderWay, NEW e, Result(e), UNCHANGED runs
  PROVE  Tries' /\ TwiceAtMost'
<1>0. pc \in Executing /\ cur \in Op /\ cmd \in 1..2
  BY Counts DEF UnderWay, TriesInv, IInv, TypeOK
<1>1. CASE \E s : Settle(s)
  BY <1>0, <1>1, SettleTries
<1>2. CASE cmd < Last(cur) /\ Go("acquire") /\ cmd' = cmd + 1 /\ try' = 1
  <2>1. batch[cur] = "dns" /\ cmd = 1
    BY <1>0, <1>2 DEF Last
  <2>2. runs[cur][2] = 0
    BY <1>0, <2>1 DEF TriesInv, Tries
  <2> QED
    BY <1>0, <1>2, <2>1, <2>2, GoTries DEF UnderWay, Executing, Privileged
<1> QED
  BY <1>1, <1>2 DEF Result

\* The second attempt follows on one start at most.
LEMMA RejectedTries ==
  ASSUME TriesInv, pc \in {"sudo", "running"}, batch[cur] \in Privileged, Rejected,
         UNCHANGED runs
  PROVE  Tries' /\ TwiceAtMost'
<1>0. pc \in Executing /\ cur \in Op /\ cmd \in 1..2 /\ runs[cur][cmd] \in Nat
  BY Counts DEF Executing, TriesInv, IInv, TypeOK
<1>1. CASE \E s : Settle(s)
  BY <1>0, <1>1, SettleTries
<1>2. CASE try = 1 /\ Go("again") /\ UNCHANGED <<cmd, try>>
  <2>1. runs[cur][cmd] <= 1
    BY <1>0, <1>2 DEF TriesInv, Tries
  <2> QED
    BY <1>0, <1>2, <2>1, GoTries DEF UnderWay, Executing
<1> QED
  BY <1>1, <1>2 DEF Rejected

LEMMA StartTries == ASSUME TriesInv, Start PROVE Tries' /\ TwiceAtMost'
<1>0. /\ pc \in {"plain", "sudo"} /\ pc \in UnderWay /\ cur \in Op /\ cmd \in 1..2 /\ try \in 1..2
      /\ runs \in [Op -> [1..2 -> Nat]] /\ Privileged \cap Plain = {}
  BY Counts DEF Start, UnderWay, Executing, TriesInv, IInv, TypeOK, Privileged, Plain
<1>1. CASE Result("unstarted") /\ UNCHANGED runs
  BY <1>0, <1>1, ResultTries
<1>2. CASE pc = "sudo" /\ Rejected /\ UNCHANGED runs
  BY <1>0, <1>2, RejectedTries DEF TriesInv, Tries
<1>3. CASE Go("running") /\ UNCHANGED <<cmd, try>> /\ runs' = [runs EXCEPT ![cur][cmd] = @ + 1]
  <2>1. UNCHANGED <<batch, cur>> /\ pc' = "running" /\ Op' = Op
    BY <1>3 DEF Go, Op
  <2>2. /\ runs'[cur][cmd] = runs[cur][cmd] + 1 /\ runs[cur][cmd] \in Nat
        /\ \A k \in Op : \A c \in 1..2 : k # cur \/ c # cmd => runs'[k][c] = runs[k][c]
    BY <1>0, <1>3
  <2>3. /\ runs'[cur][cmd] <= try /\ (batch[cur] \in Plain => try = 1)
        /\ runs'[cur][cmd] <= Limit(cur)
    <3>1. CASE pc = "plain"
      BY <1>0, <2>2, <3>1 DEF TriesInv, Tries, Limit, Executing
    <3>2. CASE pc = "sudo"
      BY <1>0, <2>2, <3>2 DEF TriesInv, Tries, Limit, Executing
    <3> QED
      BY <1>0, <3>1, <3>2
  <2>4. \A k \in Op : \A c \in 1..2 : k > cur \/ (k = cur /\ c > cmd) => runs'[k][c] = 0
    <3>1. /\ Op \subseteq Nat
          /\ \A k \in Op : \A c \in 1..2 : k > cur \/ (k = cur /\ c > cmd) => k # cur \/ c # cmd
      BY <1>0, Counts DEF TriesInv
    <3> QED
      BY <1>0, <2>2, <3>1 DEF TriesInv, Tries, UnderWay
  <2>5. Tries'
    BY <1>3, <2>1, <2>3, <2>4 DEF Tries, Planning, Executing
  <2>6. TwiceAtMost'
    <3> SUFFICES ASSUME NEW k \in Op, NEW c \in 1..2 PROVE runs'[k][c] <= Limit(k)
      BY <2>1 DEF TwiceAtMost, Limit
    <3> QED
      BY <2>2, <2>3 DEF TriesInv, TwiceAtMost
  <2> QED
    BY <2>5, <2>6
<1> QED
  BY <1>1, <1>2, <1>3 DEF Start

LEMMA OtherTries ==
  ASSUME TriesInv, Begin \/ Acquire \/ Authenticate \/ Declined \/ Returns \/ CutOff
  PROVE  Tries' /\ TwiceAtMost'
<1>0. /\ pc \in Executing /\ UNCHANGED runs /\ cur \in Op /\ cmd \in 1..2 /\ try \in 1..2
      /\ runs[cur][cmd] \in Nat /\ batch[cur] \in Kind
  BY Counts, OpFacts DEF Begin, Acquire, Authenticate, Declined, Returns, CutOff, Executing,
                         TriesInv, IInv, TypeOK, ghost
<1>1. CASE \E s : Settle(s)
  BY <1>0, <1>1, SettleTries
<1>2. CASE Begin /\ ~\E s : Settle(s)
  <2>1. /\ Go(IF batch[cur] \in Privileged THEN "acquire" ELSE "plain") /\ UNCHANGED <<cmd, try>>
        /\ pc = "begin"
    BY <1>2 DEF Begin
  <2>2. try = 1 /\ runs[cur][cmd] = 0
    BY <2>1 DEF TriesInv, Tries, Executing
  <2>3. CASE batch[cur] \in Privileged
    BY <1>0, <2>1, <2>2, <2>3, GoTries DEF UnderWay, Executing
  <2>4. CASE batch[cur] \notin Privileged
    BY <1>0, <2>1, <2>2, <2>4, GoTries DEF UnderWay, Executing, Kind
  <2> QED
    BY <2>3, <2>4
<1>3. CASE Acquire
  <2>1. /\ pc = "acquire" /\ UNCHANGED <<cmd, try>> /\ try = 1 /\ runs[cur][cmd] = 0
        /\ batch[cur] \in Privileged /\ (Go("sudo") \/ Go("prompt"))
    BY <1>3 DEF Acquire, TriesInv, Tries, Executing
  <2> QED
    BY <1>0, <2>1, GoTries DEF UnderWay, Executing
<1>4. CASE Authenticate
  <2>1. /\ pc \in {"prompt", "again"} /\ UNCHANGED cmd /\ Go("sudo")
        /\ batch[cur] \in Privileged /\ try' = IF pc = "again" THEN 2 ELSE 1
    BY <1>4 DEF Authenticate, TriesInv, Tries
  <2>2. runs[cur][cmd] <= try' - 1
    BY <1>0, <2>1 DEF TriesInv, Tries
  <2> QED
    BY <1>0, <2>1, <2>2, GoTries DEF UnderWay, Executing
<1>5. CASE Declined
  BY <1>1, <1>5 DEF Declined
<1>6. CASE Returns \/ CutOff
  BY <1>0, <1>6, ResultTries, RejectedTries DEF Returns, CutOff, UnderWay, Executing
<1> QED
  BY <1>1, <1>2, <1>3, <1>4, <1>5, <1>6

LEMMA TriesNext == TriesInv /\ [Next]_vars => Tries' /\ TwiceAtMost'
<1> SUFFICES ASSUME TriesInv, [Next]_vars PROVE Tries' /\ TwiceAtMost'
  OBVIOUS
<1>1. CASE Expires \/ Interrupt \/ (\E k \in Op : Works(k)) \/ UNCHANGED vars
  <2>1. UNCHANGED <<batch, pc, cur, cmd, try, runs>> /\ Op' = Op
    BY <1>1 DEF Expires, Interrupt, Works, vars, ghost, Op
  <2> QED
    BY <2>1 DEF TriesInv, Tries, TwiceAtMost, Limit
<1> QED
  BY <1>1, PlanningTries, StartTries, OtherTries DEF Next, Process, User

LEMMA TriesAlways == Spec => []TriesInv
<1>1. Init => TriesInv
  BY InitIInv, TriesInit DEF TriesInv
<1>2. TriesInv /\ [Next]_vars => TriesInv'
  BY Inductive, TriesNext DEF TriesInv
<1> QED
  BY <1>1, <1>2, PTL DEF Spec

\* A command is started at most once, one under sudo at most twice: whatever fails, the
\* chokepoint never tries a third time and nothing else ever tries again (Chokepoint.Run,
\* Execute of the operations).
THEOREM NeverAThirdTry == Spec => []TwiceAtMost
<1>1. TriesInv => TwiceAtMost
  BY DEF TriesInv
<1> QED
  BY <1>1, TriesAlways, PTL
-----------------------------------------------------------------------------
(* How much a batch has still to do: every step of its own, of a command    *)
(* and of the user at the prompt takes some off, and nothing that happens   *)
(* around it puts any back.                                                 *)

\* Of the operation in hand: seven steps for a command, the two attempts included.
Ahead ==
  CASE pc = "begin"                            -> 15
    [] pc = "acquire"                          -> 7 * (2 - cmd) + 7
    [] pc = "prompt"                           -> 7 * (2 - cmd) + 6
    [] pc \in {"sudo", "plain"} /\ try = 1     -> 7 * (2 - cmd) + 5
    [] pc = "running" /\ try = 1               -> 7 * (2 - cmd) + 4
    [] pc = "again"                            -> 7 * (2 - cmd) + 3
    [] pc \in {"sudo", "plain"} /\ try = 2     -> 7 * (2 - cmd) + 2
    [] pc = "running" /\ try = 2               -> 7 * (2 - cmd) + 1

StepsLeft ==
  CASE pc = "gate"                 -> 17 * Len(batch) + 1
    [] pc = "check"                -> 15 * Len(batch) + 2 * (Len(batch) - cur) + 2
    [] pc = "markers"              -> 15 * Len(batch) + 2 * (Len(batch) - cur) + 1
    [] pc \in Executing            -> 15 * (Len(batch) - cur) + Ahead
    [] pc \in {"done", "declined"} -> 0

Advances ==
  /\ Process \/ User \/ Returns => StepsLeft' < StepsLeft
  /\ Expires \/ Interrupt \/ (\E k \in Op : Works(k)) => StepsLeft' = StepsLeft

Weighed ==
  /\ pc = "gate" => StepsLeft = 17 * Len(batch) + 1
  /\ pc = "check" => StepsLeft = 15 * Len(batch) + 2 * (Len(batch) - cur) + 2
  /\ pc = "markers" => StepsLeft = 15 * Len(batch) + 2 * (Len(batch) - cur) + 1
  /\ pc \in Executing => StepsLeft = 15 * (Len(batch) - cur) + Ahead
  /\ pc \in {"done", "declined"} => StepsLeft = 0
  /\ pc = "begin" => Ahead = 15
  /\ pc = "acquire" => Ahead = 7 * (2 - cmd) + 7
  /\ pc = "prompt" => Ahead = 7 * (2 - cmd) + 6
  /\ pc \in {"sudo", "plain"} => (try = 1 => Ahead = 7 * (2 - cmd) + 5)
  /\ pc = "running" => (try = 1 => Ahead = 7 * (2 - cmd) + 4)
  /\ pc = "again" => Ahead = 7 * (2 - cmd) + 3
  /\ pc \in {"sudo", "plain"} => (try = 2 => Ahead = 7 * (2 - cmd) + 2)
  /\ pc = "running" => (try = 2 => Ahead = 7 * (2 - cmd) + 1)

LEMMA StepsWeighed == Weighed /\ Weighed'
<1>1. Weighed
  BY DEF Weighed, StepsLeft, Ahead, Executing
<1>2. Weighed'
  BY DEF Weighed, StepsLeft, Ahead, Executing
<1> QED
  BY <1>1, <1>2

\* What is ahead of an operation, and of the batch.
LEMMA AheadRange ==
  ASSUME TriesInv
  PROVE  /\ cmd \in 1..2 /\ try \in 1..2
         /\ pc \in Executing => Ahead \in 1..15
         /\ StepsLeft \in 0..(17 * Len(batch) + 1)
<1>0. /\ Len(batch) \in Nat \ {0} /\ cur \in 1..Len(batch) /\ cmd \in 1..2 /\ try \in 1..2
      /\ pc \in Steps
  BY Counts DEF TriesInv, IInv, TypeOK
<1>1. pc \in Executing => Ahead \in 1..15
  BY <1>0, StepsWeighed DEF Weighed, Executing
<1> QED
  BY <1>0, <1>1, StepsWeighed DEF Weighed, Steps, Executing

\* Settling an operation leaves what the others take.
LEMMA SettleAdvances == ASSUME TriesInv, pc \in Executing, NEW s, Settle(s)
                        PROVE  StepsLeft' < StepsLeft
<1>1. /\ Len(batch) \in Nat \ {0} /\ cur \in 1..Len(batch) /\ Ahead \in 1..15
      /\ StepsLeft = 15 * (Len(batch) - cur) + Ahead
  BY Counts, AheadRange, StepsWeighed DEF TriesInv, Weighed
<1>2. /\ Len(batch') = Len(batch)
      /\ \/ cur = Len(batch) /\ pc' = "done"
         \/ cur # Len(batch) /\ pc' = "begin" /\ cur' = cur + 1
  BY DEF Settle
<1>3. CASE pc' = "done"
  BY <1>1, <1>3, StepsWeighed DEF Weighed
<1>4. CASE pc' = "begin" /\ cur' = cur + 1
  <2>1. StepsLeft' = 15 * (Len(batch) - (cur + 1)) + 15
    BY <1>2, <1>4, StepsWeighed DEF Weighed, Executing
  <2> QED
    BY <1>1, <2>1
<1> QED
  BY <1>2, <1>3, <1>4

\* An operation that goes on has less ahead of it.
LEMMA GoAdvances ==
  ASSUME TriesInv, pc \in Executing, NEW step \in Executing, Go(step), Ahead' < Ahead,
         Ahead' \in Nat
  PROVE  StepsLeft' < StepsLeft
<1>1. /\ Len(batch) \in Nat \ {0} /\ cur \in 1..Len(batch) /\ Ahead \in 1..15
      /\ StepsLeft = 15 * (Len(batch) - cur) + Ahead
  BY Counts, AheadRange, StepsWeighed DEF TriesInv, Weighed
<1>2. StepsLeft' = 15 * (Len(batch) - cur) + Ahead'
  BY StepsWeighed DEF Go, Weighed
<1> QED
  BY <1>1, <1>2

LEMMA ResultAdvances == ASSUME TriesInv, pc \in {"sudo", "plain", "running"}, NEW e, Result(e)
                        PROVE  StepsLeft' < StepsLeft
<1>0. pc \in Executing /\ cmd \in 1..2 /\ try \in 1..2 /\ Ahead \in 1..15
  BY AheadRange DEF Executing
<1>1. CASE \E s : Settle(s)
  BY <1>0, <1>1, SettleAdvances
<1>2. CASE cmd < Last(cur) /\ Go("acquire") /\ cmd' = cmd + 1 /\ try' = 1
  <2>1. cmd = 1 /\ pc' = "acquire"
    BY <1>0, <1>2 DEF Last, Go
  <2>2. Ahead' = 7
    BY <1>2, <2>1, StepsWeighed DEF Weighed
  <2>3. Ahead > 7
    BY <1>0, <2>1, StepsWeighed DEF Weighed
  <2> QED
    BY <1>0, <1>2, <2>2, <2>3, GoAdvances DEF Executing
<1> QED
  BY <1>1, <1>2 DEF Result

LEMMA RejectedAdvances == ASSUME TriesInv, pc \in {"sudo", "running"}, Rejected
                          PROVE  StepsLeft' < StepsLeft
<1>0. pc \in Executing /\ cmd \in 1..2 /\ try \in 1..2 /\ Ahead \in 1..15
  BY AheadRange DEF Executing
<1>1. CASE \E s : Settle(s)
  BY <1>0, <1>1, SettleAdvances
<1>2. CASE try = 1 /\ Go("again") /\ UNCHANGED <<cmd, try>>
  <2>1. Ahead' = 7 * (2 - cmd) + 3
    BY <1>2, StepsWeighed DEF Go, Weighed
  <2>2. Ahead > 7 * (2 - cmd) + 3
    BY <1>0, <1>2, StepsWeighed DEF Weighed
  <2> QED
    BY <1>0, <1>2, <2>1, <2>2, GoAdvances DEF Executing
<1> QED
  BY <1>1, <1>2 DEF Rejected

\* The answer at the gate, and every result of a check.
LEMMA PlanningAdvances ==
  ASSUME TriesInv, Answer \/ Check \/ CheckStatus \/ CheckMarkers
  PROVE  StepsLeft' < StepsLeft
<1>0. Len(batch) \in Nat \ {0} /\ cur \in 1..Len(batch) /\ Len(batch') = Len(batch)
  BY Counts DEF TriesInv, Answer, Check, CheckStatus, CheckMarkers
<1>1. CASE Answer
  <2>1. cur = 1 /\ cur' = cur /\ pc = "gate" /\ pc' \in {"check", "declined"}
    BY <1>1 DEF Answer, TriesInv, IInv, Vetted
  <2> QED
    BY <1>0, <2>1, StepsWeighed DEF Weighed
<1>2. CASE Check \/ CheckStatus \/ CheckMarkers
  <2>1. /\ pc \in {"check", "markers"}
        /\ \/ cur = Len(batch) /\ pc' = "begin" /\ cur' = 1
           \/ cur # Len(batch) /\ pc' = "check" /\ cur' = cur + 1
           \/ pc = "check" /\ pc' = "markers" /\ cur' = cur
    BY <1>2 DEF Check, CheckStatus, CheckMarkers, Checked
  <2>2. StepsLeft > 15 * Len(batch) + 2 * (Len(batch) - cur)
    BY <1>0, <2>1, StepsWeighed DEF Weighed
  <2>3. CASE pc' = "begin" /\ cur' = 1
    <3>1. StepsLeft' = 15 * (Len(batch) - 1) + 15
      BY <1>0, <2>3, StepsWeighed DEF Weighed, Executing
    <3>2. StepsLeft \in Nat
      BY AheadRange
    <3> QED
      BY <1>0, <2>2, <3>1, <3>2
  <2>4. CASE pc' = "check" /\ cur' = cur + 1
    <3>1. StepsLeft' = 15 * Len(batch) + 2 * (Len(batch) - (cur + 1)) + 2
      BY <1>0, <2>4, StepsWeighed DEF Weighed
    <3>2. StepsLeft \in Nat
      BY AheadRange
    <3> QED
      BY <1>0, <2>2, <3>1, <3>2
  <2>5. CASE pc = "check" /\ pc' = "markers" /\ cur' = cur
    BY <1>0, <2>5, StepsWeighed DEF Weighed
  <2> QED
    BY <2>1, <2>3, <2>4, <2>5
<1> QED
  BY <1>1, <1>2

LEMMA RunAdvances ==
  ASSUME TriesInv,
         Begin \/ Acquire \/ Start \/ CutOff \/ Authenticate \/ Declined \/ Returns
  PROVE  StepsLeft' < StepsLeft
<1>0. pc \in Executing /\ cmd \in 1..2 /\ try \in 1..2 /\ Ahead \in 1..15
  BY AheadRange DEF Begin, Acquire, Start, CutOff, Authenticate, Declined, Returns, Executing
<1>1. CASE \E s : Settle(s)
  BY <1>0, <1>1, SettleAdvances
<1>2. CASE \/ pc \in {"sudo", "plain", "running"} /\ \E e : Result(e)
           \/ pc \in {"sudo", "running"} /\ Rejected
  BY <1>2, ResultAdvances, RejectedAdvances
<1>3. CASE Begin /\ ~\E s : Settle(s)
  <2>1. pc = "begin" /\ cmd' = 1 /\ try' = 1 /\ (Go("acquire") \/ Go("plain"))
    BY <1>3 DEF Begin, TriesInv, IInv, Progress, Tries
  <2>2. Ahead = 15 /\ Ahead' \in {14, 12}
    BY <2>1, StepsWeighed DEF Weighed, Go
  <2> QED
    BY <1>0, <2>1, <2>2, GoAdvances DEF Executing
<1>4. CASE Acquire
  <2>1. pc = "acquire" /\ try = 1 /\ UNCHANGED <<cmd, try>> /\ (Go("sudo") \/ Go("prompt"))
    BY <1>4 DEF Acquire, TriesInv, Tries
  <2>2. Ahead = 7 * (2 - cmd) + 7 /\ Ahead' \in {7 * (2 - cmd) + 5, 7 * (2 - cmd) + 6}
    BY <2>1, StepsWeighed DEF Weighed, Go
  <2> QED
    BY <1>0, <2>1, <2>2, GoAdvances DEF Executing
<1>5. CASE Authenticate
  <2>1. pc \in {"prompt", "again"} /\ UNCHANGED cmd /\ try' = (IF pc = "again" THEN 2 ELSE 1)
        /\ Go("sudo")
    BY <1>5 DEF Authenticate
  <2>2. \/ Ahead = 7 * (2 - cmd) + 6 /\ Ahead' = 7 * (2 - cmd) + 5
        \/ Ahead = 7 * (2 - cmd) + 3 /\ Ahead' = 7 * (2 - cmd) + 2
    BY <2>1, StepsWeighed DEF Weighed, Go
  <2> QED
    BY <1>0, <2>1, <2>2, GoAdvances DEF Executing
<1>6. CASE Start /\ Go("running") /\ UNCHANGED <<cmd, try>>
  <2>1. pc \in {"sudo", "plain"}
    BY <1>6 DEF Start
  <2>2. \/ Ahead = 7 * (2 - cmd) + 5 /\ Ahead' = 7 * (2 - cmd) + 4
        \/ Ahead = 7 * (2 - cmd) + 2 /\ Ahead' = 7 * (2 - cmd) + 1
    BY <1>0, <1>6, <2>1, StepsWeighed DEF Weighed, Go
  <2> QED
    BY <1>0, <1>6, <2>2, GoAdvances DEF Executing
<1> QED
  BY <1>1, <1>2, <1>3, <1>4, <1>5, <1>6 DEF Start, CutOff, Declined, Returns

LEMMA StepAdvances == ASSUME TriesInv, Next PROVE Advances
<1>1. CASE Expires \/ Interrupt \/ (\E k \in Op : Works(k))
  <2>1. UNCHANGED <<batch, pc, cur, cmd, try>>
    BY <1>1 DEF Expires, Interrupt, Works
  <2>2. StepsLeft' = StepsLeft
    BY <2>1 DEF StepsLeft, Ahead
  <2>3. ~(Process \/ User \/ Returns)
    <3>1. ASSUME Process \/ User \/ Returns PROVE StepsLeft' < StepsLeft
      BY <3>1, PlanningAdvances, RunAdvances DEF Process, User
    <3>2. StepsLeft \in Nat
      BY AheadRange
    <3> QED
      BY <2>2, <3>1, <3>2
  <2> QED
    BY <2>2, <2>3 DEF Advances
<1>2. CASE ~(Expires \/ Interrupt \/ (\E k \in Op : Works(k)))
  BY <1>2, PlanningAdvances, RunAdvances DEF Next, Process, User, Advances
<1> QED
  BY <1>1, <1>2

\* A batch of n operations is over after 17n + 1 steps of the process, its commands and the
\* answers at the prompt, however often the ticket expires and commands fail: with every
\* prompt answered and every command returning, `suns` comes to an end.
THEOREM BatchIsFinite == Spec => [](StepsLeft \in 0..(17 * Len(batch) + 1)) /\ [][Advances]_vars
<1>1. TriesInv => StepsLeft \in 0..(17 * Len(batch) + 1)
  BY AheadRange
<1>2. TriesInv /\ [Next]_vars => [Advances]_vars
  BY StepAdvances
<1> QED
  BY <1>1, <1>2, TriesAlways, PTL DEF Spec
==============================================================================
