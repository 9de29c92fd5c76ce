--------------------------- MODULE ExecutionProofs ---------------------------
(***************************************************************************)
(* Proofs about Execution, for a plan of any length, any set of paths and  *)
(* objects, and any identity function.                                     *)
(***************************************************************************)
EXTENDS Execution, Sequences, TLAPS

(* At most one collision name is made per operation, so the clock readings *)
(* stay within Stamp; a move has a destination.                            *)
StampBound ==
  /\ pc \in {"gate", "open", "validate"} => lastStamp = 0
  /\ pc \in {"begin", "dest"} => lastStamp < cur
  /\ pc \in {"move", "unlink"} => lastStamp <= cur /\ dest[cur] \in Slot
  /\ pc = "remove" => lastStamp < cur

TypeInv == TypeOK /\ StampBound

LEMMA EntryType ==
  ASSUME TypeOK PROVE Entry(cur) \in Record
<1>1. fate[cur] \in Fates /\ expected[cur] \in {Ident[o] : o \in Object}
      /\ dest[cur] \in Slot \cup {NoSlot}
  BY DEF TypeOK
<1>2. QED
  BY <1>1 DEF Entry, Record, TypeOK

LEMMA TypeInit == Init => TypeInv
<1> SUFFICES ASSUME Init PROVE TypeInv
  OBVIOUS
<1> USE SizeAssumption, PlanAssumption, ObjectAssumption
<1>1. expected \in [Op -> {Ident[o] : o \in Object}]
  <2>1. \A i \in Op : Target[i] \in Path
    BY DEF Op
  <2>2. \A i \in Op : fs[Target[i]] \in Object
    BY <2>1 DEF Init, Held
  <2>3. QED
    BY <2>2 DEF Init
<1>2. 1 \in Op /\ 0 \in Stamp
  BY DEF Op, Stamp
<1>3. TypeOK
  BY <1>1, <1>2 DEF Init, TypeOK, Steps, Ended, Fates, Held, NoSlot
<1>4. StampBound
  BY DEF Init, StampBound
<1>5. QED
  BY <1>3, <1>4 DEF TypeInv

(* What settling an operation does, whatever its fate. *)
LEMMA SettleType ==
  ASSUME TypeInv, NEW f \in Fates, Settle(f),
         pc \in {"begin", "move", "unlink", "remove"},
         world' \in [Path -> Held] \X [Slot -> Held],
         took' \in [Op -> Held], harmed' \in [Op -> SUBSET Object]
  PROVE  TypeInv'
<1> USE SizeAssumption
<1>1. cur \in 1..N /\ N \in Nat /\ lastStamp \in 0..N /\ lastStamp <= cur
  BY DEF TypeInv, TypeOK, StampBound, Op, Stamp
<1>2. fate' \in [Op -> Fates]
  BY DEF Settle, TypeInv, TypeOK
<1>3. cur' \in Op /\ pc' \in Steps \cup Ended
  BY <1>1 DEF Settle, Op, Steps
<1>4. fs' \in [Path -> Held] /\ bin' \in [Slot -> Held]
  BY DEF world
<1>5. TypeOK'
  BY <1>2, <1>3, <1>4 DEF Settle, TypeInv, TypeOK
<1>6. StampBound'
  BY <1>1 DEF Settle, StampBound
<1>7. QED
  BY <1>5, <1>6 DEF TypeInv

LEMMA TypeNext == TypeInv /\ [Next]_vars => TypeInv'
<1> SUFFICES ASSUME TypeInv, [Next]_vars PROVE TypeInv'
  OBVIOUS
<1> USE SizeAssumption, PlanAssumption, ObjectAssumption
<1>0. /\ cur \in 1..N /\ N \in Nat /\ lastStamp \in 0..N
      /\ Target[cur] \in Path
      /\ fs \in [Path -> Held] /\ bin \in [Slot -> Held]
      /\ world \in [Path -> Held] \X [Slot -> Held]
      /\ took \in [Op -> Held] /\ harmed \in [Op -> SUBSET Object]
      /\ "skipped" \in Fates /\ "trashed" \in Fates
      /\ "obliterated" \in Fates /\ "failed" \in Fates
  BY DEF TypeInv, TypeOK, Op, Stamp, world, Fates
<1>a. ASSUME NEW d \in Held, Discard(d) PROVE harmed' \in [Op -> SUBSET Object]
  BY <1>0, <1>a DEF Discard, Held
<1>b. fs[Target[cur]] \in Held
  BY <1>0
<1>c. pc = "move" => bin[dest[cur]] \in Held
  BY <1>0 DEF TypeInv, StampBound
<1>1. CASE Approve \/ Decline \/ Crash
  BY <1>1 DEF Approve, Decline, Crash, TypeInv, TypeOK, StampBound, Steps, Ended,
              world, ghost
<1>o. CASE Open
  BY <1>o DEF Open, TypeInv, TypeOK, StampBound, Steps, Ended, world, ghost
<1>2. CASE Validate
  <2>1. verdict' \in [Op -> BOOLEAN]
    BY <1>2 DEF Validate, TypeInv, TypeOK, Matches
  <2>2. cur' \in Op /\ pc' \in {"validate", "begin"}
    BY <1>2, <1>0 DEF Validate, Op
  <2>3. StampBound'
    BY <1>2, <1>0 DEF Validate, TypeInv, StampBound
  <2>4. QED
    BY <1>2, <2>1, <2>2, <2>3 DEF Validate, TypeInv, TypeOK, Steps, world, ghost
<1>3. CASE SkipStale
  BY <1>3, <1>0, SettleType DEF SkipStale
<1>4. CASE TrashStat
  <2>1. CASE fs[Target[cur]] = Nothing
    BY <1>4, <2>1, <1>0, SettleType DEF TrashStat
  <2>2. CASE fs[Target[cur]] # Nothing
    BY <1>4, <2>2 DEF TrashStat, Continue, TypeInv, TypeOK, StampBound, Steps,
                      world, ghost
  <2>3. QED
    BY <2>1, <2>2
<1>5. CASE TrashDest
  <2> DEFINE base == BaseName[Target[cur]]
  <2>1. base \in Name
    BY <1>0
  <2>2. lastStamp < cur
    BY <1>5 DEF TrashDest, TypeInv, StampBound
  <2>3. lastStamp' \in Stamp /\ lastStamp' <= cur
    BY <1>5, <1>0, <2>2 DEF TrashDest, Stamp
  <2>4. dest' \in [Op -> Slot \cup {NoSlot}]
    <3>1. <<base, 0>> \in Slot /\ <<base, lastStamp'>> \in Slot
      BY <2>1, <2>3, <1>0 DEF Slot, Stamp
    <3>2. QED
      BY <1>5, <3>1 DEF TrashDest, TypeInv, TypeOK
  <2>5. pc' = "move" /\ cur' = cur /\ dest'[cur] \in Slot
    <3>1. <<base, 0>> \in Slot /\ <<base, lastStamp'>> \in Slot
      BY <2>1, <2>3, <1>0 DEF Slot, Stamp
    <3>2. QED
      BY <1>5, <1>0, <3>1 DEF TrashDest, Continue, TypeInv, TypeOK, Op
  <2>6. StampBound'
    BY <2>3, <2>5 DEF StampBound
  <2>7. QED
    BY <1>5, <2>3, <2>4, <2>5, <2>6
       DEF TrashDest, Continue, TypeInv, TypeOK, Steps, world, ghost
<1>6. CASE Rename
  <2>2. fs' \in [Path -> Held] /\ bin' \in [Slot -> Held]
    BY <1>6, <1>0 DEF Rename, Held
  <2>3. took' \in [Op -> Held]
    BY <1>6, <1>0, <1>b DEF Rename
  <2>4. harmed' \in [Op -> SUBSET Object]
    BY <1>6, <1>a, <1>c, <1>0 DEF Rename
  <2>5. QED
    BY <1>6, <2>2, <2>3, <2>4, <1>0, SettleType DEF Rename, world
<1>7. CASE RenameFails
  BY <1>7, <1>0, SettleType DEF RenameFails
<1>8. CASE CopyFails
  <2>1. bin' \in [Slot -> Held]
    BY <1>8, <1>0 DEF CopyFails, Held
  <2>2. harmed' \in [Op -> SUBSET Object]
    BY <1>8, <1>a, <1>c DEF CopyFails
  <2>3. QED
    BY <1>8, <2>1, <2>2, <1>0, SettleType DEF CopyFails, world
<1>9. CASE Copy
  <2>1. bin' \in [Slot -> Held] /\ took' \in [Op -> Held]
    BY <1>9, <1>0, <1>b DEF Copy
  <2>2. QED
    BY <1>9, <2>1 DEF Copy, TypeInv, TypeOK, StampBound, Steps
<1>u. CASE Unlink
  <2>1. fs' \in [Path -> Held]
    BY <1>u, <1>0 DEF Unlink, Held
  <2>2. harmed' \in [Op -> SUBSET Object]
    BY <1>u, <1>a, <1>b DEF Unlink, Held
  <2>3. QED
    BY <1>u, <2>1, <2>2, <1>0, SettleType DEF Unlink, world
<1>v. CASE UnlinkFails
  <2>1. harmed' \in [Op -> SUBSET Object]
    BY <1>v, <1>a, <1>b DEF UnlinkFails, Held
  <2>2. QED
    BY <1>v, <2>1, <1>0, SettleType DEF UnlinkFails, world
<1>10. CASE ObliterateCheck
  <2>1. CASE Settle("failed") /\ UNCHANGED <<world, took, harmed>>
    BY <1>10, <2>1, <1>0, SettleType DEF ObliterateCheck
  <2>2. CASE Settle("skipped") /\ UNCHANGED <<world, took, harmed>>
    BY <1>10, <2>2, <1>0, SettleType DEF ObliterateCheck
  <2>3. CASE Continue("remove") /\ UNCHANGED <<dest, lastStamp>>
    BY <1>10, <2>3 DEF ObliterateCheck, Continue, TypeInv, TypeOK, StampBound,
                       Steps, world, ghost
  <2>4. QED
    BY <1>10, <2>1, <2>2, <2>3 DEF ObliterateCheck
<1>11. CASE RemoveVanished \/ RemoveNothing
  BY <1>11, <1>0, SettleType DEF RemoveVanished, RemoveNothing
<1>12. CASE RemoveAt
  <2>1. fs' \in [Path -> Held] /\ bin' \in [Slot -> Held] /\ took' \in [Op -> Held]
    BY <1>12, <1>0, <1>b DEF RemoveAt, Held
  <2>2. harmed' \in [Op -> SUBSET Object]
    BY <1>12, <1>a, <1>b DEF RemoveAt
  <2>3. QED
    BY <1>12, <2>1, <2>2, <1>0, SettleType DEF RemoveAt, world
<1>13. CASE AppendHistory
  <2>1. Entry(cur) \in Record
    BY EntryType DEF TypeInv
  <2>2. cur' \in Op /\ pc' \in {"record", "done"}
    BY <1>13, <1>0 DEF AppendHistory, Op
  <2>5. log' \subseteq Record /\ unlogged' \subseteq Op
    <3>1. log \subseteq Record /\ unlogged \subseteq Op /\ cur \in Op
      BY DEF TypeInv, TypeOK
    <3>2. \/ log' = log \cup {Entry(cur)} /\ unlogged' = unlogged
          \/ log' = log /\ unlogged' = unlogged \cup {cur}
      BY <1>13 DEF AppendHistory
    <3>3. QED
      BY <2>1, <3>1, <3>2
  <2>3. report' \in {"none", "ok", "partial", "failed"}
    BY <1>13 DEF AppendHistory, ScheduledStatus, TypeInv, TypeOK
  <2>4. QED
    BY <1>13, <2>2, <2>3, <2>5 DEF AppendHistory, TypeInv, TypeOK, StampBound, Steps,
                             Ended, world, ghost
<1>14. ASSUME NEW p \in Path, OtherChangesPath(p) PROVE TypeInv'
  <2>1. fs' \in [Path -> Held]
    BY <1>14, <1>0 DEF OtherChangesPath
  <2>3. raced' \subseteq Op
    <3>1. raced \subseteq Op
      BY DEF TypeInv, TypeOK
    <3>2. QED
      BY <1>14, <3>1 DEF OtherChangesPath
  <2>2. QED
    BY <1>14, <2>1, <2>3 DEF OtherChangesPath, TypeInv, TypeOK, StampBound, program
<1>15. ASSUME NEW s \in Slot, OtherChangesTrash(s) PROVE TypeInv'
  <2>1. bin' \in [Slot -> Held]
    BY <1>15, <1>0 DEF OtherChangesTrash
  <2>2. QED
    BY <1>15, <2>1 DEF OtherChangesTrash, TypeInv, TypeOK, StampBound, program, ghost
<1>16. CASE UNCHANGED vars
  BY <1>16 DEF vars, program, world, ghost, TypeInv, TypeOK, StampBound
<1>17. QED
  BY <1>o, <1>u, <1>v, <1>1, <1>2, <1>3, <1>4, <1>5, <1>6, <1>7, <1>8, <1>9, <1>10, <1>11, <1>12,
     <1>13, <1>14, <1>15, <1>16
     DEF Next, Process, Execute, Environment

(* Every value the batch handles is of its type, for any N and any world:  *)
(* in particular the stamps it makes never exceed one per operation.       *)
THEOREM TypeCorrect == Spec => []TypeOK
<1>1. Spec => []TypeInv
  BY TypeInit, TypeNext, PTL DEF Spec
<1>2. TypeInv => TypeOK
  BY DEF TypeInv
<1>3. QED
  BY <1>1, <1>2, PTL

-----------------------------------------------------------------------------
(* The approved object.  Once the last check of operation i has passed,    *)
(* and until it acts, its target holds what was approved, or nothing when  *)
(* an operation of the same target came first, unless another program      *)
(* interfered since.  The current operation and those after it are pending.*)
HoldsApproved(i) == fs[Target[i]] # Nothing => Ident[fs[Target[i]]] = expected[i]

PlanOrder ==
  /\ pc \in {"gate", "open", "validate"} => \A i \in Op : fate[i] = "pending"
  /\ pc \in {"begin", "dest", "move", "unlink", "remove"} =>
       \A i \in Op : cur <= i => fate[i] = "pending"
  /\ pc \in {"dest", "move", "unlink"} => mode = "trash" /\ verdict[cur]
  /\ pc = "remove" => mode = "obliterate" /\ verdict[cur]

WindowInv == \A i \in Op : InWindow(i) /\ i \notin raced => HoldsApproved(i)

ApprovalInv == TypeInv /\ PlanOrder /\ WindowInv /\ TookWhatWasApproved

LEMMA ApprovalInit == Init => ApprovalInv
<1> SUFFICES ASSUME Init PROVE ApprovalInv
  OBVIOUS
<1>1. PlanOrder
  BY DEF Init, PlanOrder
<1>2. WindowInv
  BY DEF Init, WindowInv, InWindow
<1>3. TookWhatWasApproved
  BY DEF Init, TookWhatWasApproved
<1>4. QED
  BY <1>1, <1>2, <1>3, TypeInit DEF ApprovalInv

(* Settling the current operation keeps the invariant when all it did to   *)
(* the files was to empty its own target, after the last check.            *)
LEMMA SettleApproved ==
  ASSUME ApprovalInv, NEW f \in Fates \ {"pending"}, Settle(f), TypeInv',
         pc \in {"begin", "move", "unlink", "remove"},
         fs' = fs \/ fs' = [fs EXCEPT ![Target[cur]] = Nothing],
         \/ took' = took
         \/ took' = [took EXCEPT ![cur] = fs[Target[cur]]] /\ pc # "begin"
  PROVE  ApprovalInv'
<1> USE PlanAssumption
<1>1. /\ cur \in Op /\ Op = 1..N /\ cur \in Nat /\ fate \in [Op -> Fates]
      /\ took \in [Op -> Held] /\ fs \in [Path -> Held]
      /\ mode \in {"trash", "obliterate"} /\ Target[cur] \in Path
  BY SizeAssumption DEF ApprovalInv, TypeInv, TypeOK, Op
<1>2. /\ fate' = [fate EXCEPT ![cur] = f]
      /\ (pc' = "record" /\ cur' = 1) \/ (pc' = "begin" /\ cur' = cur + 1)
      /\ mode' = mode /\ verdict' = verdict /\ expected' = expected /\ raced' = raced
  BY DEF Settle
<1>3. PlanOrder'
  <2>1. \A i \in Op : cur <= i => fate[i] = "pending"
    BY DEF ApprovalInv, PlanOrder
  <2>2. ASSUME NEW i \in Op, pc' = "begin", cur' <= i PROVE fate'[i] = "pending"
    BY <1>1, <1>2, <2>1, <2>2
  <2>3. QED
    BY <1>2, <2>2 DEF PlanOrder
<1>4. WindowInv'
  <2> SUFFICES ASSUME NEW i \in Op, InWindow(i)', i \notin raced'
               PROVE  HoldsApproved(i)'
    BY DEF WindowInv
  <2>1. i # cur /\ mode = "trash" /\ InWindow(i)
    BY <1>1, <1>2 DEF InWindow
  <2>2. HoldsApproved(i)
    BY <2>1, <1>2 DEF ApprovalInv, WindowInv
  <2>3. fs'[Target[i]] = fs[Target[i]] \/ fs'[Target[i]] = Nothing
    BY <1>1
  <2>4. QED
    BY <2>2, <2>3, <1>2 DEF HoldsApproved
<1>5. TookWhatWasApproved'
  <2> SUFFICES ASSUME NEW i \in Op, took'[i] # Nothing, i \notin raced'
               PROVE  Ident[took'[i]] = expected'[i]
    BY DEF TookWhatWasApproved
  <2>1. CASE took'[i] = took[i]
    BY <2>1, <1>2 DEF ApprovalInv, TookWhatWasApproved
  <2>2. CASE took'[i] # took[i]
    <3>1. i = cur /\ took'[i] = fs[Target[cur]] /\ pc # "begin"
      BY <2>2, <1>1
    <3>2. InWindow(cur)
      BY <3>1, <1>1 DEF InWindow, ApprovalInv, PlanOrder
    <3>3. HoldsApproved(cur)
      BY <3>1, <3>2, <1>1, <1>2 DEF ApprovalInv, WindowInv
    <3>4. QED
      BY <3>1, <3>3, <1>2 DEF HoldsApproved
  <2>3. QED
    BY <2>1, <2>2
<1>6. QED
  BY <1>3, <1>4, <1>5 DEF ApprovalInv

LEMMA ApprovalNext == ApprovalInv /\ [Next]_vars => ApprovalInv'
<1> SUFFICES ASSUME ApprovalInv, [Next]_vars PROVE ApprovalInv'
  OBVIOUS
<1> USE PlanAssumption
<1>0. TypeInv /\ TypeInv' /\ cur \in Op /\ Target[cur] \in Path
      /\ {"skipped", "trashed", "obliterated", "failed"} \subseteq Fates \ {"pending"}
  BY TypeNext DEF ApprovalInv, TypeInv, TypeOK, Fates
<1>1. CASE Approve \/ Decline \/ Open \/ Crash
  <2>1. PlanOrder'
    BY <1>1 DEF Approve, Decline, Open, Crash, ApprovalInv, PlanOrder, Ended
  <2>2. WindowInv'
    BY <1>1 DEF Approve, Decline, Open, Crash, ApprovalInv, WindowInv, InWindow,
                HoldsApproved, world, ghost
  <2>3. TookWhatWasApproved'
    BY <1>1 DEF Approve, Decline, Open, Crash, ApprovalInv, TookWhatWasApproved, ghost
  <2>4. QED
    BY <1>0, <2>1, <2>2, <2>3 DEF ApprovalInv
<1>2. CASE Validate
  <2>1. PlanOrder'
    BY <1>2 DEF Validate, ApprovalInv, PlanOrder
  <2>2. WindowInv'
    <3> SUFFICES ASSUME NEW i \in Op, InWindow(i)', i \notin raced'
                 PROVE  HoldsApproved(i)'
      BY DEF WindowInv
    <3>1. fs' = fs /\ raced' = raced /\ expected' = expected /\ mode' = mode
          /\ fate' = fate /\ pc' # "remove"
      BY <1>2 DEF Validate, world, ghost
    <3>2. CASE i = cur
      <4>1. verdict'[cur]
        BY <3>1, <3>2 DEF InWindow
      <4>2. Matches(cur)
        <5>1. PICK readable \in BOOLEAN :
                verdict' = [verdict EXCEPT ![cur] = readable /\ Matches(cur)]
          BY <1>2 DEF Validate
        <5>2. verdict \in [Op -> BOOLEAN]
          BY <1>0 DEF TypeInv, TypeOK
        <5>3. verdict'[cur] = (readable /\ Matches(cur))
          BY <5>1, <5>2, <1>0
        <5>4. QED
          BY <4>1, <5>3
      <4>3. QED
        BY <3>1, <3>2, <4>2 DEF Matches, HoldsApproved
    <3>3. CASE i # cur
      <4>1. verdict'[i] = verdict[i]
        BY <1>2, <3>3, <1>0 DEF Validate, TypeInv, TypeOK
      <4>2. InWindow(i)
        BY <3>1, <4>1 DEF InWindow
      <4>3. QED
        BY <3>1, <4>2 DEF ApprovalInv, WindowInv, HoldsApproved
    <3>4. QED
      BY <3>2, <3>3
  <2>3. TookWhatWasApproved'
    BY <1>2 DEF Validate, ApprovalInv, TookWhatWasApproved, ghost
  <2>4. QED
    BY <1>0, <2>1, <2>2, <2>3 DEF ApprovalInv
<1>3. CASE \/ SkipStale \/ RenameFails \/ CopyFails \/ UnlinkFails
           \/ RemoveVanished \/ RemoveNothing
  BY <1>3, <1>0, SettleApproved
     DEF SkipStale, RenameFails, CopyFails, UnlinkFails, RemoveVanished, RemoveNothing,
         world
<1>4. CASE Rename \/ Unlink
  BY <1>4, <1>0, SettleApproved DEF Rename, Unlink
<1>c. CASE Copy
  <2>1. PlanOrder'
    BY <1>c DEF Copy, ApprovalInv, PlanOrder
  <2>2. WindowInv'
    BY <1>c DEF Copy, ApprovalInv, WindowInv, InWindow, HoldsApproved
  <2>3. TookWhatWasApproved'
    <3>1. InWindow(cur)
      BY <1>c, <1>0 DEF Copy, InWindow, ApprovalInv, PlanOrder, TypeInv, TypeOK, Op
    <3>2. cur \notin raced => Ident[fs[Target[cur]]] = expected[cur]
      BY <3>1, <1>c, <1>0 DEF Copy, ApprovalInv, WindowInv, HoldsApproved
    <3>3. QED
      BY <1>c, <3>2, <1>0
         DEF Copy, ApprovalInv, TookWhatWasApproved, TypeInv, TypeOK
  <2>4. QED
    BY <1>0, <2>1, <2>2, <2>3 DEF ApprovalInv
<1>5. CASE RemoveAt
  BY <1>5, <1>0, SettleApproved DEF RemoveAt
<1>6. ASSUME NEW step \in {"dest", "move", "remove"}, Continue(step),
             verdict[cur], step \in {"dest", "move"} => mode = "trash",
             step = "remove" => mode = "obliterate" /\ Matches(cur),
             pc \in {"begin", "dest"}
      PROVE  ApprovalInv'
  <2>1. PlanOrder'
    BY <1>6 DEF Continue, ApprovalInv, PlanOrder
  <2>2. WindowInv'
    BY <1>6 DEF Continue, ApprovalInv, WindowInv, InWindow, HoldsApproved, Matches,
                world, ghost
  <2>3. TookWhatWasApproved'
    BY <1>6 DEF Continue, ApprovalInv, TookWhatWasApproved, ghost
  <2>4. QED
    BY <1>0, <2>1, <2>2, <2>3 DEF ApprovalInv
<1>7. CASE TrashStat
  <2>1. CASE fs[Target[cur]] = Nothing
    BY <1>7, <2>1, <1>0, SettleApproved DEF TrashStat, world
  <2>2. CASE fs[Target[cur]] # Nothing
    BY <1>7, <2>2, <1>6 DEF TrashStat
  <2>3. QED
    BY <2>1, <2>2
<1>8. CASE TrashDest
  BY <1>8, <1>6 DEF TrashDest, ApprovalInv, PlanOrder
<1>9. CASE ObliterateCheck
  <2>1. CASE Continue("remove") /\ Matches(cur)
    BY <1>9, <2>1, <1>6 DEF ObliterateCheck
  <2>2. CASE \E f \in {"failed", "skipped"} :
               Settle(f) /\ UNCHANGED <<world, took, harmed>>
    BY <1>9, <2>2, <1>0, SettleApproved DEF ObliterateCheck, world
  <2>3. QED
    BY <1>9, <2>1, <2>2 DEF ObliterateCheck
<1>10. CASE AppendHistory
  <2>1. PlanOrder'
    BY <1>10 DEF AppendHistory, PlanOrder
  <2>2. WindowInv'
    BY <1>10 DEF AppendHistory, ApprovalInv, WindowInv, InWindow, HoldsApproved,
                 world, ghost
  <2>3. TookWhatWasApproved'
    BY <1>10 DEF AppendHistory, ApprovalInv, TookWhatWasApproved, ghost
  <2>4. QED
    BY <1>0, <2>1, <2>2, <2>3 DEF ApprovalInv
<1>11. ASSUME NEW p \in Path, OtherChangesPath(p) PROVE ApprovalInv'
  <2>1. PlanOrder'
    BY <1>11 DEF OtherChangesPath, program, ApprovalInv, PlanOrder
  <2>2. WindowInv'
    <3> SUFFICES ASSUME NEW i \in Op, InWindow(i)', i \notin raced'
                 PROVE  HoldsApproved(i)'
      BY DEF WindowInv
    <3>1. InWindow(i) /\ i \notin raced /\ Target[i] # p
      BY <1>11 DEF OtherChangesPath, program, InWindow
    <3>2. fs'[Target[i]] = fs[Target[i]] /\ expected' = expected
      BY <1>11, <3>1, <1>0 DEF OtherChangesPath, program, TypeInv, TypeOK
    <3>3. QED
      BY <3>1, <3>2 DEF ApprovalInv, WindowInv, HoldsApproved
  <2>3. TookWhatWasApproved'
    BY <1>11 DEF OtherChangesPath, program, ApprovalInv, TookWhatWasApproved
  <2>4. QED
    BY <1>0, <2>1, <2>2, <2>3 DEF ApprovalInv
<1>12. ASSUME NEW s \in Slot, OtherChangesTrash(s) PROVE ApprovalInv'
  <2>1. PlanOrder'
    BY <1>12 DEF OtherChangesTrash, program, ApprovalInv, PlanOrder
  <2>2. WindowInv'
    BY <1>12 DEF OtherChangesTrash, program, ghost, ApprovalInv, WindowInv,
                 InWindow, HoldsApproved
  <2>3. TookWhatWasApproved'
    BY <1>12 DEF OtherChangesTrash, program, ghost, ApprovalInv, TookWhatWasApproved
  <2>4. QED
    BY <1>0, <2>1, <2>2, <2>3 DEF ApprovalInv
<1>13. CASE UNCHANGED vars
  BY <1>13, <1>0 DEF vars, program, world, ghost, ApprovalInv, PlanOrder, WindowInv,
                     InWindow, HoldsApproved, TookWhatWasApproved
<1>14. QED
  BY <1>1, <1>2, <1>3, <1>4, <1>c, <1>5, <1>7, <1>8, <1>9, <1>10, <1>11, <1>12, <1>13
     DEF Next, Process, Execute, Environment

(* Whatever other programs do to the files and to the Trash, an operation  *)
(* takes away the object that was approved, unless its target was changed  *)
(* between the operation's own last identity check and the act.            *)
THEOREM TakesOnlyTheApproved == Spec => []TookWhatWasApproved
<1>1. Spec => []ApprovalInv
  BY ApprovalInit, ApprovalNext, PTL DEF Spec
<1>2. ApprovalInv => TookWhatWasApproved
  BY DEF ApprovalInv
<1>3. QED
  BY <1>1, <1>2, PTL

-----------------------------------------------------------------------------
(* The Trash.  Every name made so far carries a stamp no later than the    *)
(* last one, so the next name is free, and a free name stays free until    *)
(* the move because nobody else uses the Trash.                            *)
StampsUsed == \A s \in Slot : bin[s] # Nothing => s[2] <= lastStamp

FreeName == pc = "move" => bin[dest[cur]] = Nothing /\ dest[cur][2] <= lastStamp

Copied ==
  pc = "unlink" =>
    /\ Target[cur] \in CrossVolume
    /\ took[cur] # Nothing /\ bin[dest[cur]] = took[cur]
    /\ cur \notin raced => fs[Target[cur]] = took[cur]

KeptInTrash ==
  \A i \in Op : fate[i] = "trashed" =>
    took[i] # Nothing /\ dest[i] \in Slot /\ bin[dest[i]] = took[i]

OnlyObliterated ==
  \A i \in Op : mode = "obliterate" /\ took[i] # Nothing => fate[i] = "obliterated"

LogIsTrue ==
  /\ \A e \in log : e.op \in Op /\ e = Entry(e.op)
  /\ log # {} => pc \in {"record", "done", "crashed"}

TrashInv ==
  /\ ApprovalInv
  /\ StampsUsed /\ FreeName /\ Copied
  /\ DestroysOnlyRacedCopies
  /\ KeptInTrash /\ OnlyObliterated /\ LogIsTrue

LEMMA TrashInit == Init => TrashInv
<1> SUFFICES ASSUME Init PROVE TrashInv
  OBVIOUS
<1>1. StampsUsed /\ FreeName /\ Copied
  BY DEF Init, StampsUsed, FreeName, Copied
<1>2. DestroysOnlyRacedCopies /\ KeptInTrash /\ OnlyObliterated /\ LogIsTrue
  BY DEF Init, DestroysOnlyRacedCopies, KeptInTrash, OnlyObliterated, LogIsTrue
<1>3. QED
  BY <1>1, <1>2, ApprovalInit DEF TrashInv

(* What records say of an operation does not change while its fate, its    *)
(* destination and its expected identity do not.                           *)
LEMMA LogKept ==
  ASSUME LogIsTrue, log' = log, fate' = fate, dest' = dest, expected' = expected,
         log = {} \/ pc' \in {"record", "done", "crashed"}
  PROVE  LogIsTrue'
BY DEF LogIsTrue, Entry

(* Settling an operation that moved its target to the free name it chose,  *)
(* or that left the Trash alone.                                           *)
LEMMA SettleTrash ==
  ASSUME TrashInv, NEW f \in Fates \ {"pending"}, Settle(f), ApprovalInv',
         pc \in {"begin", "move", "unlink", "remove"},
         \/ bin' = bin /\ (f # "trashed" \/ (pc = "unlink" /\ took' = took))
         \/ /\ pc = "move" /\ fs[Target[cur]] # Nothing
            /\ bin' = [bin EXCEPT ![dest[cur]] = fs[Target[cur]]]
            /\ took' = [took EXCEPT ![cur] = fs[Target[cur]]],
         \/ took' = took
         \/ pc = "move" /\ took' = [took EXCEPT ![cur] = fs[Target[cur]]]
         \/ f = "obliterated" /\ took' = [took EXCEPT ![cur] = fs[Target[cur]]],
         DestroysOnlyRacedCopies'
  PROVE  TrashInv'
<1>1. /\ cur \in Op /\ Op = 1..N /\ fate \in [Op -> Fates] /\ took \in [Op -> Held]
      /\ bin \in [Slot -> Held]
      /\ pc \in {"move", "unlink"} => dest[cur] \in Slot
      /\ pc = "move" => mode = "trash"
      /\ Nothing \notin Object
      /\ mode \in {"trash", "obliterate"}
  BY ObjectAssumption
     DEF TrashInv, ApprovalInv, PlanOrder, TypeInv, TypeOK, StampBound, Op
<1>2. /\ fate' = [fate EXCEPT ![cur] = f] /\ dest' = dest /\ lastStamp' = lastStamp
      /\ mode' = mode /\ log' = log /\ pc' \in {"record", "begin"}
  BY DEF Settle
<1>3. StampsUsed' /\ FreeName' /\ Copied'
  <2>1. FreeName' /\ Copied'
    BY <1>2 DEF FreeName, Copied
  <2>2. StampsUsed'
    <3> SUFFICES ASSUME NEW s \in Slot, bin'[s] # Nothing PROVE s[2] <= lastStamp
      BY <1>2 DEF StampsUsed
    <3>1. CASE bin[s] # Nothing
      BY <3>1 DEF TrashInv, StampsUsed
    <3>2. CASE bin[s] = Nothing
      <4>1. pc = "move" /\ s = dest[cur]
        BY <3>2, <1>1
      <4>2. QED
        BY <4>1 DEF TrashInv, FreeName
    <3>3. QED
      BY <3>1, <3>2
  <2>3. QED
    BY <2>1, <2>2
<1>5. fate[cur] = "pending"
  BY <1>1 DEF TrashInv, ApprovalInv, PlanOrder
<1>6. KeptInTrash'
  <2> SUFFICES ASSUME NEW i \in Op, fate'[i] = "trashed"
               PROVE  took'[i] # Nothing /\ dest[i] \in Slot /\ bin'[dest[i]] = took'[i]
    BY <1>2 DEF KeptInTrash
  <2>1. CASE i = cur
    <3>1. f = "trashed"
      BY <2>1, <1>1, <1>2
    <3>2. QED
      BY <2>1, <3>1, <1>1 DEF TrashInv, Copied
  <2>2. CASE i # cur
    <3>1. took[i] # Nothing /\ dest[i] \in Slot /\ bin[dest[i]] = took[i]
      BY <2>2, <1>1, <1>2 DEF TrashInv, KeptInTrash
    <3>2. took'[i] = took[i]
      BY <2>2, <1>1
    <3>3. bin'[dest[i]] = bin[dest[i]]
      BY <3>1, <1>1 DEF TrashInv, FreeName
    <3>4. QED
      BY <3>1, <3>2, <3>3
  <2>3. QED
    BY <2>1, <2>2
<1>7. OnlyObliterated'
  BY <1>1, <1>2, <1>5 DEF TrashInv, OnlyObliterated
<1>8. LogIsTrue'
  BY <1>2 DEF TrashInv, LogIsTrue
<1>9. QED
  BY <1>3, <1>6, <1>7, <1>8 DEF TrashInv

LEMMA TrashNext ==
  ASSUME ~SameTick, ~Foreign, TrashInv, [Next]_vars PROVE TrashInv'
<1>0. /\ ApprovalInv /\ ApprovalInv' /\ cur \in Op /\ Target[cur] \in Path
      /\ {"skipped", "trashed", "obliterated", "failed"} \subseteq Fates \ {"pending"}
      /\ DestroysOnlyRacedCopies /\ harmed \in [Op -> SUBSET Object]
      /\ Nothing \notin Object
      /\ pc = "remove" => mode = "obliterate"
  BY ApprovalNext, PlanAssumption, ObjectAssumption
     DEF TrashInv, ApprovalInv, PlanOrder, TypeInv, TypeOK, Fates
<1>a. ASSUME bin' = bin, lastStamp' = lastStamp, fate' = fate, dest' = dest,
             mode' = mode, took' = took, harmed' = harmed, raced \subseteq raced',
             expected' = expected, log' = log, pc' = "move" => pc = "move" /\ cur' = cur,
             log = {} \/ pc' \in {"record", "done", "crashed"}, Copied'
      PROVE  TrashInv'
  <2>1. StampsUsed' /\ FreeName'
    BY <1>a DEF TrashInv, StampsUsed, FreeName
  <2>2. DestroysOnlyRacedCopies' /\ KeptInTrash' /\ OnlyObliterated'
    BY <1>a DEF TrashInv, DestroysOnlyRacedCopies, KeptInTrash, OnlyObliterated
  <2>3. LogIsTrue'
    BY <1>a, LogKept DEF TrashInv
  <2>4. QED
    BY <1>a, <1>0, <2>1, <2>2, <2>3 DEF TrashInv
<1>b. pc \notin {"record", "done", "crashed"} => log = {}
  BY DEF TrashInv, LogIsTrue
<1>c. Discard(Nothing) => harmed' = harmed
  BY <1>0 DEF Discard
<1>d. ASSUME harmed' = harmed, mode' = mode, raced' = raced
      PROVE  DestroysOnlyRacedCopies'
  BY <1>d, <1>0 DEF DestroysOnlyRacedCopies
<1>1. CASE Approve \/ Decline \/ Open \/ Crash
  BY <1>1, <1>a, <1>b DEF Approve, Decline, Open, Crash, world, ghost, Ended, Copied
<1>2. CASE Validate
  BY <1>2, <1>a, <1>b DEF Validate, world, ghost, Copied
<1>3. CASE SkipStale \/ RenameFails \/ RemoveVanished \/ RemoveNothing
  <2>1. DestroysOnlyRacedCopies'
    BY <1>3, <1>d DEF SkipStale, RenameFails, RemoveVanished, RemoveNothing, Settle
  <2>2. QED
    BY <1>3, <2>1, <1>0, SettleTrash
       DEF SkipStale, RenameFails, RemoveVanished, RemoveNothing, world
<1>4. CASE CopyFails
  <2>1. bin[dest[cur]] = Nothing /\ dest[cur] \in Slot /\ bin \in [Slot -> Held]
    BY <1>4 DEF CopyFails, TrashInv, FreeName, ApprovalInv, TypeInv, TypeOK, StampBound
  <2>2. bin' = bin /\ harmed' = harmed
    BY <1>4, <2>1, <1>c DEF CopyFails
  <2>3. DestroysOnlyRacedCopies'
    BY <1>4, <2>2, <1>d DEF CopyFails, Settle
  <2>4. QED
    BY <1>4, <2>2, <2>3, <1>0, SettleTrash DEF CopyFails
<1>5. CASE Rename
  <2>1. harmed' = harmed
    BY <1>5, <1>c DEF Rename, TrashInv, FreeName
  <2>2. DestroysOnlyRacedCopies'
    BY <1>5, <2>1, <1>d DEF Rename, Settle
  <2>3. QED
    BY <1>5, <2>2, <1>0, SettleTrash DEF Rename
<1>e. CASE Copy
  <2>1. /\ bin \in [Slot -> Held] /\ took \in [Op -> Held] /\ dest[cur] \in Slot
        /\ fate[cur] = "pending" /\ mode = "trash"
    BY <1>e, <1>0
       DEF Copy, ApprovalInv, PlanOrder, TypeInv, TypeOK, StampBound, Op
  <2>2. bin[dest[cur]] = Nothing /\ dest[cur][2] <= lastStamp /\ log = {}
    BY <1>e, <1>b DEF Copy, TrashInv, FreeName
  <2>3. StampsUsed' /\ FreeName'
    BY <1>e, <2>1, <2>2 DEF Copy, TrashInv, StampsUsed, FreeName
  <2>4. Copied'
    BY <1>e, <2>1, <1>0 DEF Copy, Copied
  <2>5. KeptInTrash'
    BY <1>e, <2>1, <2>2 DEF Copy, TrashInv, KeptInTrash
  <2>6. OnlyObliterated' /\ LogIsTrue'
    BY <1>e, <2>1, <2>2 DEF Copy, OnlyObliterated, LogIsTrue
  <2>7. DestroysOnlyRacedCopies'
    BY <1>e, <1>d DEF Copy
  <2>8. QED
    BY <1>0, <2>3, <2>4, <2>5, <2>6, <2>7 DEF TrashInv
<1>f. CASE Unlink \/ UnlinkFails
  <2>1. /\ Target[cur] \in CrossVolume /\ dest[cur] \in Slot
        /\ bin[dest[cur]] = took[cur]
        /\ cur \notin raced => fs[Target[cur]] = took[cur]
    BY <1>f DEF Unlink, UnlinkFails, TrashInv, Copied, ApprovalInv, TypeInv, StampBound
  <2>2. cur \notin raced => InTrash(fs[Target[cur]])
    BY <2>1 DEF InTrash
  <2>3. mode' = mode /\ raced' = raced
    BY <1>f DEF Unlink, UnlinkFails, Settle
  <2>4. harmed' = harmed \/ (cur \in raced /\ \E d : Discard(d))
    BY <1>f, <2>2, <1>c DEF Unlink, UnlinkFails
  <2>5. DestroysOnlyRacedCopies'
    BY <2>1, <2>3, <2>4, <1>0, <1>d DEF DestroysOnlyRacedCopies, Discard
  <2>6. QED
    BY <1>f, <2>5, <1>0, SettleTrash DEF Unlink, UnlinkFails, world
<1>6. CASE RemoveAt
  <2>1. DestroysOnlyRacedCopies'
    BY <1>6, <1>0 DEF RemoveAt, DestroysOnlyRacedCopies, Settle
  <2>2. QED
    BY <1>6, <2>1, <1>0, SettleTrash DEF RemoveAt
<1>7. CASE TrashStat
  <2>1. CASE fs[Target[cur]] = Nothing
    <3>1. DestroysOnlyRacedCopies'
      BY <1>7, <2>1, <1>d DEF TrashStat, Settle
    <3>2. QED
      BY <1>7, <2>1, <3>1, <1>0, SettleTrash DEF TrashStat, world
  <2>2. CASE fs[Target[cur]] # Nothing
    BY <1>7, <2>2, <1>a, <1>b DEF TrashStat, Continue, world, ghost, Copied
  <2>3. QED
    BY <2>1, <2>2
<1>8. CASE TrashDest
  <2> DEFINE base == BaseName[Target[cur]]
  <2>1. /\ base \in Name /\ lastStamp \in Nat /\ lastStamp < cur /\ cur \in 1..N
        /\ dest \in [Op -> Slot \cup {NoSlot}] /\ fate[cur] = "pending"
    BY <1>8, <1>0, PlanAssumption, SizeAssumption
       DEF TrashDest, ApprovalInv, PlanOrder, TypeInv, TypeOK, StampBound, Op, Stamp
  <2>2. /\ pc' = "move" /\ cur' = cur /\ bin' = bin /\ fate' = fate /\ mode' = mode
        /\ took' = took /\ harmed' = harmed /\ expected' = expected /\ log' = log
        /\ raced' = raced /\ log = {}
    BY <1>8, <1>b DEF TrashDest, Continue, world, ghost
  <2>3. CASE /\ bin[<<base, 0>>] = Nothing /\ lastStamp' = lastStamp
             /\ dest' = [dest EXCEPT ![cur] = <<base, 0>>]
    <3>1. dest'[cur] = <<base, 0>>
      BY <2>1, <2>3, <1>0
    <3>2. StampsUsed' /\ FreeName'
      BY <2>1, <2>2, <2>3, <3>1 DEF TrashInv, StampsUsed, FreeName
    <3>3. KeptInTrash'
      BY <2>1, <2>2, <2>3 DEF TrashInv, KeptInTrash
    <3>4. QED
      BY <2>2, <3>2, <3>3, <1>0
         DEF TrashInv, DestroysOnlyRacedCopies, OnlyObliterated, LogIsTrue, Copied
  <2>4. CASE /\ lastStamp' = lastStamp + 1
             /\ dest' = [dest EXCEPT ![cur] = <<base, lastStamp'>>]
    <3>1. dest'[cur] = <<base, lastStamp + 1>>
      BY <2>1, <2>4, <1>0
    <3>2. <<base, lastStamp + 1>> \in Slot
      <4>1. lastStamp + 1 \in 0..N
        BY <2>1, SizeAssumption
      <4>2. base \in Name
        BY <2>1
      <4> HIDE DEF base
      <4>3. QED
        BY <4>1, <4>2 DEF Slot, Stamp
    <3>3. bin[<<base, lastStamp + 1>>] = Nothing
      <4>1. <<base, lastStamp + 1>>[2] > lastStamp
        BY <2>1
      <4>2. \A s \in Slot : bin[s] # Nothing => s[2] <= lastStamp
        BY DEF TrashInv, StampsUsed
      <4> DEFINE slot == <<base, lastStamp + 1>>
      <4>3. slot \in Slot /\ slot[2] > lastStamp /\ slot[2] \in Nat
        BY <2>1, <3>2, <4>1
      <4> HIDE DEF slot
      <4>4. bin[slot] = Nothing
        BY <4>2, <4>3, <2>1
      <4>5. QED
        BY <4>4 DEF slot
    <3>4. StampsUsed'
      <4> SUFFICES ASSUME NEW s \in Slot, bin[s] # Nothing PROVE s[2] <= lastStamp + 1
        BY <2>2, <2>4 DEF StampsUsed
      <4>1. s[2] <= lastStamp /\ s[2] \in Nat
        BY DEF TrashInv, StampsUsed, Slot, Stamp
      <4>2. QED
        BY <4>1, <2>1
    <3>5. FreeName'
      BY <2>1, <2>2, <2>4, <3>1, <3>3 DEF FreeName
    <3>6. KeptInTrash'
      BY <2>1, <2>2, <2>4 DEF TrashInv, KeptInTrash
    <3>7. QED
      BY <2>2, <3>4, <3>5, <3>6, <1>0
         DEF TrashInv, DestroysOnlyRacedCopies, OnlyObliterated, LogIsTrue, Copied
  <2>5. QED
    BY <1>8, <2>3, <2>4 DEF TrashDest
<1>9. CASE ObliterateCheck
  <2>1. CASE Continue("remove") /\ UNCHANGED <<dest, lastStamp>>
    BY <1>9, <2>1, <1>a, <1>b DEF ObliterateCheck, Continue, world, ghost, Copied
  <2>2. CASE \E f \in {"failed", "skipped"} :
               Settle(f) /\ UNCHANGED <<world, took, harmed>>
    <3>1. DestroysOnlyRacedCopies'
      BY <2>2, <1>d DEF Settle
    <3>2. QED
      BY <1>9, <2>2, <3>1, <1>0, SettleTrash DEF ObliterateCheck, world
  <2>3. QED
    BY <1>9, <2>1, <2>2 DEF ObliterateCheck
<1>10. CASE AppendHistory
  <2>1. /\ bin' = bin /\ lastStamp' = lastStamp /\ fate' = fate /\ dest' = dest
        /\ mode' = mode /\ took' = took /\ harmed' = harmed /\ expected' = expected
        /\ raced' = raced /\ pc' \in {"record", "done"}
        /\ log' = log \cup {Entry(cur)} \/ log' = log
    BY <1>10 DEF AppendHistory, world, ghost
  <2>2. StampsUsed' /\ FreeName' /\ Copied'
    BY <2>1 DEF TrashInv, StampsUsed, FreeName, Copied
  <2>3. DestroysOnlyRacedCopies' /\ KeptInTrash' /\ OnlyObliterated'
    BY <2>1 DEF TrashInv, DestroysOnlyRacedCopies, KeptInTrash, OnlyObliterated
  <2>4. LogIsTrue'
    BY <2>1, <1>0 DEF TrashInv, LogIsTrue, Entry
  <2>5. QED
    BY <1>0, <2>2, <2>3, <2>4 DEF TrashInv
<1>11. ASSUME NEW p \in Path, OtherChangesPath(p) PROVE TrashInv'
  <2>1. Copied'
    <3>1. CASE pc = "unlink" /\ Target[cur] = p
      <4>1. InWindow(cur)
        BY <3>1, <1>0 DEF InWindow, ApprovalInv, PlanOrder, TypeInv, TypeOK, Op
      <4>2. QED
        BY <1>11, <3>1, <4>1, <1>0 DEF OtherChangesPath, program, TrashInv, Copied
    <3>2. CASE pc = "unlink" /\ Target[cur] # p
      <4>1. fs'[Target[cur]] = fs[Target[cur]]
        BY <1>11, <3>2, <1>0 DEF OtherChangesPath, ApprovalInv, TypeInv, TypeOK
      <4>2. QED
        BY <1>11, <4>1 DEF OtherChangesPath, program, TrashInv, Copied
    <3>3. QED
      BY <1>11, <3>1, <3>2 DEF OtherChangesPath, program, Copied
  <2>2. QED
    BY <1>11, <2>1, <1>a, <1>b DEF OtherChangesPath, program, Ended, LogIsTrue, TrashInv
<1>12. ASSUME NEW s \in Slot, OtherChangesTrash(s) PROVE TrashInv'
  BY <1>12 DEF OtherChangesTrash
<1>13. CASE UNCHANGED vars
  BY <1>13, <1>a, <1>b DEF vars, program, world, ghost, Copied, TrashInv
<1>14. QED
  BY <1>1, <1>2, <1>3, <1>4, <1>5, <1>e, <1>f, <1>6, <1>7, <1>8, <1>9, <1>10, <1>11,
     <1>12, <1>13 DEF Next, Process, Execute, Environment

(* Trash mode destroys nothing, neither a target nor an earlier item of    *)
(* the Trash, except what was put at a target after the batch check and    *)
(* removed with the source of a cross-volume copy, provided collision      *)
(* names are made in different milliseconds and nobody else uses the Trash.*)
THEOREM TrashModeDestroysNothing ==
  ASSUME ~SameTick, ~Foreign PROVE Spec => []DestroysOnlyRacedCopies
<1>1. TrashInv /\ [Next]_vars => TrashInv'
  BY TrashNext
<1>2. Spec => []TrashInv
  BY TrashInit, <1>1, PTL DEF Spec
<1>3. TrashInv => DestroysOnlyRacedCopies
  BY DEF TrashInv
<1>4. QED
  BY <1>2, <1>3, PTL

(* Under the same assumptions every "trashed" record leads to the object   *)
(* that was moved.                                                         *)
THEOREM RecordsLeadToTheTrash ==
  ASSUME ~SameTick, ~Foreign PROVE Spec => []RecordedTrashIsThere
<1>1. TrashInv /\ [Next]_vars => TrashInv'
  BY TrashNext
<1>2. Spec => []TrashInv
  BY TrashInit, <1>1, PTL DEF Spec
<1>3. TrashInv => RecordedTrashIsThere
  BY DEF TrashInv, LogIsTrue, KeptInTrash, Entry, RecordedTrashIsThere
<1>4. QED
  BY <1>2, <1>3, PTL

-----------------------------------------------------------------------------
(* Two names in one millisecond.  What is in the Trash under a name with   *)
(* the time of day was moved there by an operation of this batch, so that  *)
(* is all a second operation of the same name can replace.                 *)
Excused(i) ==
  \/ i \in raced /\ Target[i] \in CrossVolume
  \/ \E j \in Op : j # i /\ dest[j] = dest[i] /\ dest[i][2] > 0 /\ harmed[i] = {took[j]}

ItsOwnAtWorst == mode = "trash" => \A i \in Op : harmed[i] # {} => Excused(i)

HeldByOwn ==
  \A s \in Slot : bin[s] # Nothing /\ s[2] > 0 =>
    \E j \in Op : dest[j] = s /\ took[j] = bin[s]

FreePlain == pc = "move" /\ dest[cur][2] = 0 => bin[dest[cur]] = Nothing

NotYet ==
  \A i \in Op : fate[i] = "pending" =>
    harmed[i] = {} /\ (took[i] = Nothing \/ (i = cur /\ pc \in {"unlink", "crashed"}))

OwnInv == ApprovalInv /\ Copied /\ HeldByOwn /\ FreePlain /\ NotYet /\ ItsOwnAtWorst

LEMMA OwnInit == Init => OwnInv
<1> SUFFICES ASSUME Init PROVE OwnInv
  OBVIOUS
<1>1. HeldByOwn
  BY DEF Init, HeldByOwn
<1>2. Copied /\ FreePlain /\ NotYet /\ ItsOwnAtWorst
  BY DEF Init, Copied, FreePlain, NotYet, ItsOwnAtWorst
<1> QED
  BY <1>1, <1>2, ApprovalInit DEF OwnInv

\* What has been taken, and what has been harmed, keeps its name.
Keeps ==
  /\ mode' = mode /\ raced \subseteq raced'
  /\ \A j \in Op : /\ took[j] # Nothing => took'[j] = took[j] /\ dest'[j] = dest[j]
                   /\ harmed[j] # {} => dest'[j] = dest[j]

LEMMA ExcusedStays ==
  ASSUME OwnInv, Keeps, mode = "trash", NEW i \in Op, harmed'[i] = harmed[i], harmed[i] # {}
  PROVE  Excused(i)'
<1>1. Excused(i)
  BY DEF OwnInv, ItsOwnAtWorst
<1>2. harmed[i] \subseteq Object /\ Nothing \notin Object
  BY ObjectAssumption DEF OwnInv, ApprovalInv, TypeInv, TypeOK
<1>3. CASE i \in raced /\ Target[i] \in CrossVolume
  BY <1>3 DEF Keeps, Excused
<1>4. ASSUME NEW j \in Op, j # i, dest[j] = dest[i], dest[i][2] > 0, harmed[i] = {took[j]}
      PROVE  Excused(i)'
  <2>1. took[j] # Nothing
    BY <1>2, <1>4
  <2> QED
    BY <1>4, <2>1 DEF Keeps, Excused
<1> QED
  BY <1>1, <1>3, <1>4 DEF Excused

LEMMA OwnKept ==
  ASSUME OwnInv, Keeps, harmed' = harmed
  PROVE  ItsOwnAtWorst'
BY ExcusedStays DEF ItsOwnAtWorst, Keeps

LEMMA HeldKept ==
  ASSUME OwnInv, Keeps, NEW s \in Slot, bin[s] # Nothing, s[2] > 0
  PROVE  \E j \in Op : dest'[j] = s /\ took'[j] = bin[s]
BY DEF OwnInv, HeldByOwn, Keeps

\* What others do, and what the program does before and after it moves things.
LEMMA OwnStays ==
  ASSUME OwnInv, ApprovalInv', Copied', mode' = mode, raced \subseteq raced',
         UNCHANGED <<bin, took, harmed, fate, dest>>,
         pc' = "move" => pc = "move" /\ cur' = cur,
         (pc' \in {"unlink", "crashed"} /\ cur' = cur) \/ pc \notin {"unlink", "crashed"}
  PROVE  OwnInv'
<1>1. Keeps
  BY DEF Keeps
<1>2. ItsOwnAtWorst'
  BY <1>1, OwnKept
<1>3. HeldByOwn' /\ FreePlain' /\ NotYet'
  BY DEF OwnInv, HeldByOwn, FreePlain, NotYet
<1> QED
  BY <1>2, <1>3 DEF OwnInv

\* An operation settles: it has moved its target to the name it chose, or put
\* nothing there.
LEMMA SettleOwn ==
  ASSUME OwnInv, ApprovalInv', NEW f \in Fates \ {"pending"}, Settle(f),
         pc \in {"begin", "move", "unlink", "remove"},
         \/ bin' = bin /\ took' = took
         \/ bin' = bin /\ pc = "remove" /\ \E o \in Held : took' = [took EXCEPT ![cur] = o]
         \/ pc = "move" /\ bin' = [bin EXCEPT ![dest[cur]] = Nothing] /\ took' = took
         \/ /\ pc = "move" /\ bin' = [bin EXCEPT ![dest[cur]] = fs[Target[cur]]]
            /\ took' = [took EXCEPT ![cur] = fs[Target[cur]]],
         \/ harmed' = harmed
         \/ mode = "obliterate" /\ \E h : harmed' = [harmed EXCEPT ![cur] = h]
         \/ /\ cur \in raced /\ Target[cur] \in CrossVolume
            /\ \E h : harmed' = [harmed EXCEPT ![cur] = h]
         \/ pc = "move" /\ Discard(bin[dest[cur]])
  PROVE  OwnInv'
<1>1. /\ cur \in Op /\ fate \in [Op -> Fates] /\ took \in [Op -> Held] /\ bin \in [Slot -> Held]
      /\ harmed \in [Op -> SUBSET Object] /\ Nothing \notin Object
      /\ pc = "move" => dest[cur] \in Slot
      /\ fate[cur] = "pending" /\ mode \in {"trash", "obliterate"}
  BY ObjectAssumption, SizeAssumption
     DEF OwnInv, ApprovalInv, PlanOrder, TypeInv, TypeOK, StampBound, Op
<1>2. /\ fate' = [fate EXCEPT ![cur] = f] /\ dest' = dest /\ mode' = mode /\ raced' = raced
      /\ pc' \in {"record", "begin"}
  BY DEF Settle
<1>3. harmed[cur] = {} /\ (took[cur] = Nothing \/ pc = "unlink")
  BY <1>1 DEF OwnInv, NotYet
<1>4. /\ \A j \in Op : j # cur => took'[j] = took[j] /\ harmed'[j] = harmed[j]
      /\ pc \in {"begin", "unlink"} => took' = took
  BY <1>1 DEF Discard
<1>5. Keeps
  <2>1. took[cur] # Nothing => took'[cur] = took[cur]
    BY <1>3, <1>4
  <2> QED
    BY <1>2, <1>4, <2>1 DEF Keeps
<1>6. Copied' /\ FreePlain'
  BY <1>2 DEF Copied, FreePlain
<1>7. NotYet'
  <2> SUFFICES ASSUME NEW i \in Op, fate'[i] = "pending"
               PROVE  harmed'[i] = {} /\ took'[i] = Nothing
    BY DEF NotYet
  <2>1. i # cur /\ fate[i] = "pending"
    BY <1>1, <1>2
  <2> QED
    BY <1>4, <2>1 DEF OwnInv, NotYet
<1>8. HeldByOwn'
  <2> SUFFICES ASSUME NEW s \in Slot, bin'[s] # Nothing, s[2] > 0
               PROVE  \E j \in Op : dest'[j] = s /\ took'[j] = bin'[s]
    BY DEF HeldByOwn
  <2>1. CASE bin'[s] = bin[s]
    BY <1>5, <2>1, HeldKept
  <2>2. CASE bin'[s] # bin[s]
    <3>1. /\ pc = "move" /\ bin' = [bin EXCEPT ![dest[cur]] = fs[Target[cur]]]
          /\ took' = [took EXCEPT ![cur] = fs[Target[cur]]]
      BY <1>1, <2>2
    <3>2. s = dest[cur]
      BY <1>1, <2>2, <3>1
    <3>3. bin'[s] = fs[Target[cur]] /\ took'[cur] = fs[Target[cur]] /\ dest'[cur] = s
      BY <1>1, <1>2, <3>1, <3>2
    <3> QED
      BY <1>1, <3>3
  <2> QED
    BY <2>1, <2>2
<1>9. ItsOwnAtWorst'
  <2>1. CASE harmed' = harmed
    BY <1>5, <2>1, OwnKept
  <2>2. CASE mode = "obliterate"
    BY <1>2, <2>2 DEF ItsOwnAtWorst
  <2>3. ASSUME mode = "trash", \A i \in Op : i = cur /\ harmed'[i] # {} => Excused(i)'
        PROVE  ItsOwnAtWorst'
    <3> SUFFICES ASSUME NEW i \in Op, harmed'[i] # {} PROVE Excused(i)'
      BY DEF ItsOwnAtWorst
    <3>1. CASE i = cur
      BY <2>3, <3>1
    <3>2. CASE i # cur
      BY <1>4, <1>5, <2>3, <3>2, ExcusedStays
    <3> QED
      BY <3>1, <3>2
  <2>4. CASE cur \in raced /\ Target[cur] \in CrossVolume
    <3>1. \A i \in Op : i = cur => Excused(i)'
      BY <1>2, <2>4 DEF Excused
    <3> QED
      BY <1>1, <2>2, <2>3, <3>1
  <2>5. CASE pc = "move" /\ Discard(bin[dest[cur]])
    <3> DEFINE d == bin[dest[cur]]
    <3>1. harmed'[cur] = {d} \ {Nothing}
      BY <1>1, <1>3, <2>5 DEF Discard
    <3>2. ASSUME NEW i \in Op, i = cur, harmed'[i] # {} PROVE Excused(i)'
      <4>1. d # Nothing /\ harmed'[cur] = {d}
        BY <3>1, <3>2
      <4>2. dest[cur][2] > 0
        <5>1. dest[cur][2] # 0 /\ dest[cur][2] \in 0..N /\ N \in Nat
          BY <1>1, <2>5, <4>1, SizeAssumption DEF OwnInv, FreePlain, Slot, Stamp
        <5> QED
          BY <5>1
      <4>3. PICK j \in Op : dest[j] = dest[cur] /\ took[j] = d
        BY <1>1, <2>5, <4>1, <4>2 DEF OwnInv, HeldByOwn
      <4>4. j # cur
        BY <1>3, <2>5, <4>1, <4>3
      <4>5. took'[j] = d /\ dest'[j] = dest'[cur] /\ dest'[cur][2] > 0
        BY <1>2, <1>4, <4>2, <4>3, <4>4
      <4> QED
        BY <1>1, <3>2, <4>1, <4>4, <4>5 DEF Excused
    <3> QED
      BY <1>1, <2>2, <2>3, <3>2
  <2> QED
    BY <2>1, <2>2, <2>4, <2>5
<1> QED
  BY <1>6, <1>7, <1>8, <1>9 DEF OwnInv

LEMMA OwnNext ==
  ASSUME ~Foreign, OwnInv, [Next]_vars PROVE OwnInv'
<1>0. /\ ApprovalInv /\ ApprovalInv' /\ cur \in Op /\ Target[cur] \in Path
      /\ {"skipped", "trashed", "obliterated", "failed"} \subseteq Fates \ {"pending"}
      /\ harmed \in [Op -> SUBSET Object] /\ fs \in [Path -> Held] /\ bin \in [Slot -> Held]
      /\ took \in [Op -> Held] /\ dest \in [Op -> Slot \cup {NoSlot}]
      /\ pc \in {"move", "unlink"} => dest[cur] \in Slot
      /\ pc = "remove" => mode = "obliterate"
  BY ApprovalNext, PlanAssumption
     DEF OwnInv, ApprovalInv, PlanOrder, TypeInv, TypeOK, StampBound, Fates
<1>c. Discard(Nothing) => harmed' = harmed
  BY <1>0 DEF Discard
<1>1. CASE Approve \/ Decline \/ Open \/ Validate
  BY <1>1, <1>0, OwnStays DEF Approve, Decline, Open, Validate, world, ghost, Copied
<1>2. CASE Crash
  BY <1>2, <1>0, OwnStays DEF Crash, world, ghost, Copied, Ended
<1>3. CASE SkipStale \/ RenameFails \/ RemoveVanished \/ RemoveNothing
  BY <1>3, <1>0, SettleOwn DEF SkipStale, RenameFails, RemoveVanished, RemoveNothing, world
<1>4. CASE CopyFails
  BY <1>4, <1>0, SettleOwn DEF CopyFails
<1>5. CASE Rename
  BY <1>5, <1>0, SettleOwn DEF Rename
<1>6. CASE RemoveAt
  <2>1. fs[Target[cur]] \in Held /\ \E h : harmed' = [harmed EXCEPT ![cur] = h]
    BY <1>0, <1>6 DEF RemoveAt, Discard
  <2> QED
    BY <1>6, <2>1, <1>0, SettleOwn DEF RemoveAt
<1>7. CASE Unlink \/ UnlinkFails
  <2>1. /\ Target[cur] \in CrossVolume /\ bin[dest[cur]] = took[cur]
        /\ cur \notin raced => fs[Target[cur]] = took[cur]
    BY <1>7 DEF Unlink, UnlinkFails, OwnInv, Copied
  <2>2. cur \notin raced => InTrash(fs[Target[cur]])
    BY <1>0, <1>7, <2>1 DEF InTrash, Unlink, UnlinkFails
  <2>3. harmed' = harmed \/ (cur \in raced /\ \E h : harmed' = [harmed EXCEPT ![cur] = h])
    BY <1>7, <2>2, <1>c DEF Unlink, UnlinkFails, Discard
  <2>4. bin' = bin /\ took' = took /\ pc = "unlink" /\ (Settle("trashed") \/ Settle("skipped"))
    BY <1>7 DEF Unlink, UnlinkFails, world
  <2> QED
    BY <1>0, <2>1, <2>3, <2>4, SettleOwn
<1>8. CASE Copy
  <2> DEFINE o == fs[Target[cur]]
             s == dest[cur]
  <2>1. /\ pc = "move" /\ pc' = "unlink" /\ o # Nothing /\ bin[s] = Nothing /\ s \in Slot
        /\ bin' = [bin EXCEPT ![s] = o] /\ took' = [took EXCEPT ![cur] = o]
        /\ UNCHANGED <<mode, cur, fate, dest, fs, harmed, raced>> /\ Target[cur] \in CrossVolume
    BY <1>0, <1>8 DEF Copy
  <2>2. fate[cur] = "pending" /\ took[cur] = Nothing
    BY <1>0, <2>1, SizeAssumption DEF OwnInv, NotYet, ApprovalInv, PlanOrder, Op
  <2>3. Keeps
    BY <1>0, <2>1, <2>2 DEF Keeps
  <2>4. Copied'
    BY <1>0, <2>1 DEF Copied
  <2>5. HeldByOwn'
    <3> SUFFICES ASSUME NEW t \in Slot, bin'[t] # Nothing, t[2] > 0
                 PROVE  \E j \in Op : dest'[j] = t /\ took'[j] = bin'[t]
      BY DEF HeldByOwn
    <3>1. CASE t = s
      <4>1. dest'[cur] = t /\ took'[cur] = o /\ bin'[t] = o
        BY <1>0, <2>1, <3>1
      <4> QED
        BY <1>0, <4>1
    <3>2. CASE t # s
      <4>1. bin'[t] = bin[t]
        BY <1>0, <2>1, <3>2
      <4> QED
        BY <2>3, <4>1, HeldKept
    <3> QED
      BY <3>1, <3>2
  <2>6. FreePlain' /\ NotYet'
    BY <1>0, <2>1 DEF OwnInv, FreePlain, NotYet
  <2> QED
    BY <1>0, <2>1, <2>3, <2>4, <2>5, <2>6, OwnKept DEF OwnInv
<1>9. CASE TrashStat
  <2>1. CASE fs[Target[cur]] = Nothing
    BY <1>9, <2>1, <1>0, SettleOwn DEF TrashStat, world
  <2>2. CASE fs[Target[cur]] # Nothing
    BY <1>9, <2>2, <1>0, OwnStays DEF TrashStat, Continue, world, ghost, Copied
  <2> QED
    BY <2>1, <2>2
<1>10. CASE ObliterateCheck
  <2>1. CASE Continue("remove") /\ UNCHANGED <<dest, lastStamp>>
    BY <1>10, <2>1, <1>0, OwnStays DEF ObliterateCheck, Continue, world, ghost, Copied
  <2>2. CASE \E f \in {"failed", "skipped"} :
               Settle(f) /\ UNCHANGED <<world, took, harmed>>
    BY <1>10, <2>2, <1>0, SettleOwn DEF ObliterateCheck, world
  <2> QED
    BY <1>10, <2>1, <2>2 DEF ObliterateCheck
<1>11. CASE TrashDest
  <2> DEFINE base == BaseName[Target[cur]]
  <2>1. /\ pc = "dest" /\ pc' = "move"
        /\ UNCHANGED <<mode, cur, fate, fs, bin, took, harmed, raced>>
    BY <1>11 DEF TrashDest, Continue, world, ghost
  <2>2. fate[cur] = "pending" /\ took[cur] = Nothing /\ harmed[cur] = {}
    BY <1>0, <2>1, SizeAssumption DEF OwnInv, NotYet, ApprovalInv, PlanOrder, Op
  <2>3. \E k : /\ dest' = [dest EXCEPT ![cur] = <<base, k>>]
               /\ k = 0 => bin[<<base, 0>>] = Nothing
    <3>1. lastStamp \in Nat
      BY SizeAssumption DEF OwnInv, ApprovalInv, TypeInv, TypeOK, Stamp
    <3>2. \A k : k = lastStamp + 1 \/ (k = lastStamp /\ lastStamp > 0) => k # 0
      BY <3>1
    <3> HIDE DEF base
    <3>3. CASE bin[<<base, 0>>] = Nothing /\ dest' = [dest EXCEPT ![cur] = <<base, 0>>]
      BY <3>3
    <3>4. CASE /\ lastStamp' = lastStamp + 1 \/ (lastStamp' = lastStamp /\ lastStamp > 0)
               /\ dest' = [dest EXCEPT ![cur] = <<base, lastStamp'>>]
      BY <3>2, <3>4
    <3> QED
      BY <1>11, <3>3, <3>4 DEF TrashDest, base
  <2>4. Keeps
    BY <1>0, <2>1, <2>2, <2>3 DEF Keeps
  <2>5. FreePlain'
    <3>1. PICK k : dest' = [dest EXCEPT ![cur] = <<base, k>>] /\ (k = 0 => bin[<<base, 0>>] = Nothing)
      BY <2>3
    <3>2. dest'[cur] = <<base, k>> /\ dest'[cur][2] = k
      BY <1>0, <3>1
    <3> QED
      BY <2>1, <3>1, <3>2 DEF FreePlain
  <2>6. HeldByOwn'
    BY <2>1, <2>4, HeldKept DEF HeldByOwn
  <2>7. Copied' /\ NotYet'
    BY <2>1 DEF OwnInv, Copied, NotYet
  <2> QED
    BY <1>0, <2>1, <2>4, <2>5, <2>6, <2>7, OwnKept DEF OwnInv
<1>12. CASE AppendHistory
  <2>1. /\ UNCHANGED <<mode, fate, dest, bin, took, harmed, raced>>
        /\ pc = "record" /\ pc' \in {"record", "done"}
    BY <1>12 DEF AppendHistory, world, ghost
  <2> QED
    BY <1>0, <2>1, OwnStays DEF Copied
<1>13. ASSUME NEW p \in Path, OtherChangesPath(p) PROVE OwnInv'
  <2>1. Copied'
    <3>1. CASE pc = "unlink" /\ Target[cur] = p
      <4>1. InWindow(cur)
        BY <3>1, <1>0, SizeAssumption DEF InWindow, ApprovalInv, PlanOrder, Op
      <4> QED
        BY <1>13, <3>1, <4>1, <1>0 DEF OtherChangesPath, program, OwnInv, Copied
    <3>2. CASE pc = "unlink" /\ Target[cur] # p
      <4>1. fs'[Target[cur]] = fs[Target[cur]]
        BY <1>13, <3>2, <1>0 DEF OtherChangesPath
      <4> QED
        BY <1>13, <4>1 DEF OtherChangesPath, program, OwnInv, Copied
    <3> QED
      BY <1>13, <3>1, <3>2 DEF OtherChangesPath, program, Copied
  <2> QED
    BY <1>13, <1>0, <2>1, OwnStays DEF OtherChangesPath, program, Ended
<1>14. ASSUME NEW s \in Slot, OtherChangesTrash(s) PROVE OwnInv'
  BY <1>14 DEF OtherChangesTrash
<1>15. CASE UNCHANGED vars
  BY <1>15, <1>0, OwnStays DEF vars, program, world, ghost, Copied, OwnInv
<1> QED
  BY <1>1, <1>2, <1>3, <1>4, <1>5, <1>6, <1>7, <1>8, <1>9, <1>10, <1>11, <1>12, <1>13,
     <1>14, <1>15 DEF Next, Process, Execute, Environment

(* Even when two collision names are made within one millisecond, trash    *)
(* mode destroys nothing that was in the Trash before, and no target but   *)
(* a raced one of another volume: all that can go is the one object that   *)
(* an earlier operation of the batch has moved to the very same name.      *)
THEOREM AtWorstItsOwn == ASSUME ~Foreign PROVE Spec => []ItsOwnAtWorst
<1>1. OwnInv /\ [Next]_vars => OwnInv'
  BY OwnNext
<1>2. OwnInv => ItsOwnAtWorst
  BY DEF OwnInv
<1> QED
  BY OwnInit, <1>1, <1>2, PTL DEF Spec

-----------------------------------------------------------------------------
(* What is lost.  In trash mode everything an operation took is in the     *)
(* Trash, nothing there is lost, and a pending operation's target is not   *)
(* lost: another program cannot bring back what is gone, and no other      *)
(* operation of the plan has the same target.                              *)
PlannedOnce == \A i, j \in Op : Target[i] = Target[j] => i = j

Distinct == \A p, q \in Path : fs[p] = fs[q] /\ fs[p] # Nothing => p = q

Intact == mode = "trash" =>
  /\ \A i \in Op : took[i] # Nothing => InTrash(took[i])
  /\ \A o \in Lost : ~InTrash(o)
  /\ \A i \in Op : fate[i] = "pending" => fs[Target[i]] \notin Lost

LossInv == TrashInv /\ Distinct /\ Intact

LEMMA LossInit == Init => LossInv
<1> SUFFICES ASSUME Init PROVE LossInv
  OBVIOUS
<1>1. Distinct
  BY DEF Init, Distinct
<1>2. Lost = {} /\ \A i \in Op : took[i] = Nothing
  BY DEF Init, Lost
<1>3. Intact
  BY <1>2 DEF Intact
<1>4. QED
  BY <1>1, <1>3, TrashInit DEF LossInv

(* What the operation in hand may do to the world in trash mode: empty its *)
(* own target, put it under a free name, destroy what is not in the Trash. *)
LEMMA StepIntact ==
  ASSUME PlannedOnce, LossInv, mode' = mode, fate[cur] = "pending",
         \/ fate' = fate
         \/ \E f \in Fates \ {"pending"} : fate' = [fate EXCEPT ![cur] = f],
         fs' = fs \/ fs' = [fs EXCEPT ![Target[cur]] = Nothing],
         \/ bin' = bin /\ took' = took
         \/ /\ dest[cur] \in Slot /\ bin[dest[cur]] = Nothing
            /\ bin' = [bin EXCEPT ![dest[cur]] = fs[Target[cur]]]
            /\ took' = [took EXCEPT ![cur] = fs[Target[cur]]]
         \/ mode = "obliterate",
         \/ harmed' = harmed
         \/ /\ fate' # fate /\ bin' = bin
            /\ ~InTrash(fs[Target[cur]]) /\ Discard(fs[Target[cur]])
         \/ mode = "obliterate"
  PROVE  Distinct' /\ Intact'
<1> USE PlanAssumption, ObjectAssumption
<1>0. /\ cur \in Op /\ fs \in [Path -> Held] /\ bin \in [Slot -> Held]
      /\ took \in [Op -> Held] /\ fate \in [Op -> Fates]
      /\ harmed \in [Op -> SUBSET Object] /\ Target \in [Op -> Path]
  BY DEF LossInv, TrashInv, ApprovalInv, TypeInv, TypeOK
<1>1. Distinct'
  BY <1>0 DEF LossInv, Distinct
<1>2. CASE mode = "obliterate"
  BY <1>1, <1>2 DEF Intact
<1>3. CASE mode = "trash" /\ mode # "obliterate"
  <2> DEFINE o == fs[Target[cur]]
  <2>0. o \in Held /\ o \notin Lost
    BY <1>0, <1>3 DEF LossInv, Intact
  <2>2. ASSUME NEW i \in Op, took'[i] # Nothing PROVE InTrash(took[i])'
    <3>1. CASE took'[i] = took[i] /\ took[i] # Nothing
      <4>1. InTrash(took[i]) /\ took[i] \in Held \ {Nothing}
        BY <3>1, <1>0, <1>3 DEF LossInv, Intact
      <4>3. \E s \in Slot : bin[s] = took[i]
        BY <4>1 DEF InTrash
      <4>4. \E s \in Slot : bin'[s] = took[i]
        BY <4>3, <4>1, <1>0, <1>3
      <4>5. QED
        BY <4>4, <3>1 DEF InTrash
    <3>2. CASE took'[i] # took[i]
      <4>1. took'[i] = o /\ bin'[dest[cur]] = o /\ dest[cur] \in Slot
        BY <3>2, <1>0, <1>3
      <4>2. QED
        BY <4>1 DEF InTrash
    <3>3. QED
      BY <2>2, <3>1, <3>2
  <2>3. \A x \in Lost' : x \in Lost \/ (x = o /\ harmed' # harmed)
    BY <1>0, <1>3 DEF Lost, Discard
  <2>4. ASSUME NEW x \in Lost' PROVE ~(\E s \in Slot : bin'[s] = x)
    <3>0. x \in Object
      BY <1>0, <1>3, <2>0, <2>3, <2>4 DEF Lost, Discard, Held
    <3>1. CASE x \in Lost
      <4>1. \A s \in Slot : bin[s] # x
        BY <3>1, <1>3 DEF LossInv, Intact, InTrash
      <4>2. x # o
        BY <3>1, <2>0
      <4>3. QED
        BY <4>1, <4>2, <1>0, <1>3
    <3>2. CASE x = o /\ harmed' # harmed
      BY <3>2, <1>3 DEF InTrash
    <3>3. QED
      BY <3>1, <3>2, <2>3, <2>4
  <2>5. ASSUME NEW i \in Op, fate'[i] = "pending" PROVE fs'[Target[i]] \notin Lost'
    <3>1. fate[i] = "pending" /\ fs[Target[i]] \notin Lost
      BY <2>5, <1>0, <1>3 DEF LossInv, Intact
    <3>2. Lost' \subseteq Object
      BY <1>0, <1>3, <2>0, <2>3 DEF Lost, Discard, Held
    <3>3. CASE fs'[Target[i]] = Nothing
      BY <3>2, <3>3
    <3>4. CASE fs'[Target[i]] # Nothing
      <4>1. fs'[Target[i]] = fs[Target[i]]
        BY <3>4, <1>0
      <4>2. CASE fate' = fate
        <5>1. Lost' = Lost
          BY <4>2, <1>3 DEF Lost
        <5>2. QED
          BY <4>1, <5>1, <3>1
      <4>3. CASE fate' # fate
        <5>1. i # cur
          BY <4>3, <2>5, <1>0
        <5>2. fs[Target[i]] # o
          BY <5>1, <4>1, <3>4, <1>0 DEF PlannedOnce, LossInv, Distinct
        <5>3. QED
          BY <5>2, <4>1, <3>1, <2>3
      <4>4. QED
        BY <4>2, <4>3
    <3>5. QED
      BY <3>3, <3>4
  <2>6. QED
    BY <1>1, <1>3, <2>2, <2>4, <2>5 DEF Intact, InTrash
<1>4. QED
  BY <1>2, <1>3 DEF LossInv, TrashInv, ApprovalInv, TypeInv, TypeOK

LEMMA LossNext ==
  ASSUME PlannedOnce, ~SameTick, ~Foreign, LossInv, [Next]_vars PROVE LossInv'
<1>0. /\ TrashInv /\ TrashInv' /\ ApprovalInv /\ cur \in Op
      /\ fs \in [Path -> Held] /\ bin \in [Slot -> Held]
      /\ took \in [Op -> Held] /\ harmed \in [Op -> SUBSET Object]
      /\ {"skipped", "trashed", "obliterated", "failed"} \subseteq Fates \ {"pending"}
  BY TrashNext DEF LossInv, TrashInv, ApprovalInv, TypeInv, TypeOK, Fates
<1>a. pc \in {"begin", "dest", "move", "unlink", "remove"} => fate[cur] = "pending"
  BY <1>0 DEF ApprovalInv, PlanOrder, TypeInv, TypeOK, Op
<1>b. ASSUME mode' = mode, fs' = fs, bin' = bin, took' = took, harmed' = harmed,
             fate' = fate
      PROVE  LossInv'
  BY <1>b, <1>0 DEF LossInv, Distinct, Intact, Lost, InTrash
<1>c. ASSUME NEW f \in Fates, Settle(f) PROVE
        mode' = mode /\ fate' = [fate EXCEPT ![cur] = f]
  BY <1>c DEF Settle
<1>d. Discard(Nothing) => harmed' = harmed
  BY <1>0 DEF Discard
<1>1. CASE Approve \/ Decline \/ Open \/ Crash \/ Validate \/ AppendHistory
  BY <1>1, <1>b
     DEF Approve, Decline, Open, Crash, Validate, AppendHistory, world, ghost
<1>2. CASE TrashDest
  BY <1>2, <1>b DEF TrashDest, Continue, world, ghost
<1>3. ASSUME NEW f \in Fates \ {"pending"}, Settle(f), UNCHANGED <<world, took, harmed>>,
             pc \in {"begin", "move", "remove"}
      PROVE  LossInv'
  BY <1>3, <1>0, <1>a, <1>c, StepIntact DEF LossInv, world
<1>4. CASE SkipStale \/ RenameFails \/ RemoveVanished \/ RemoveNothing
  BY <1>4, <1>3, <1>0 DEF SkipStale, RenameFails, RemoveVanished, RemoveNothing
<1>5. CASE TrashStat
  <2>1. CASE fs[Target[cur]] = Nothing
    BY <1>5, <2>1, <1>3, <1>0 DEF TrashStat
  <2>2. CASE fs[Target[cur]] # Nothing
    BY <1>5, <2>2, <1>b DEF TrashStat, Continue, world, ghost
  <2>3. QED
    BY <2>1, <2>2
<1>6. CASE ObliterateCheck
  <2>1. CASE Continue("remove")
    BY <2>1, <1>b DEF Continue, world, ghost
  <2>2. CASE ~Continue("remove")
    BY <1>6, <2>2, <1>3, <1>0 DEF ObliterateCheck
  <2>3. QED
    BY <2>1, <2>2
<1>7. CASE Rename
  <2>1. dest[cur] \in Slot /\ bin[dest[cur]] = Nothing
    BY <1>7, <1>0 DEF Rename, TrashInv, FreeName, ApprovalInv, TypeInv, StampBound
  <2>2. harmed' = harmed
    BY <1>7, <2>1, <1>d DEF Rename
  <2>3. QED
    BY <1>7, <2>1, <2>2, <1>0, <1>a, <1>c, StepIntact DEF Rename, LossInv
<1>8. CASE Copy
  <2>1. dest[cur] \in Slot
    BY <1>8, <1>0 DEF Copy, ApprovalInv, TypeInv, StampBound
  <2>2. QED
    BY <1>8, <2>1, <1>0, <1>a, StepIntact DEF Copy, LossInv
<1>9. CASE CopyFails
  <2>1. dest[cur] \in Slot /\ bin[dest[cur]] = Nothing
    BY <1>9, <1>0 DEF CopyFails, TrashInv, FreeName, ApprovalInv, TypeInv, StampBound
  <2>2. harmed' = harmed /\ bin' = bin
    BY <1>9, <2>1, <1>0, <1>d DEF CopyFails
  <2>3. QED
    BY <1>9, <2>2, <1>3, <1>0 DEF CopyFails, world
<1>10. CASE Unlink
  <2>1. /\ fate' = [fate EXCEPT ![cur] = "trashed"] /\ fate[cur] = "pending"
        /\ fate' # fate /\ mode' = mode /\ bin' = bin /\ took' = took
    BY <1>10, <1>a, <1>0 DEF Unlink, Settle, ApprovalInv, TypeInv, TypeOK
  <2>2. \/ harmed' = harmed
        \/ ~InTrash(fs[Target[cur]]) /\ Discard(fs[Target[cur]])
    BY <1>10, <1>d DEF Unlink
  <2>3. QED
    BY <1>10, <2>1, <2>2, <1>0, StepIntact DEF Unlink, LossInv
<1>11. CASE UnlinkFails
  <2>1. /\ fate' = [fate EXCEPT ![cur] = "skipped"] /\ fate[cur] = "pending"
        /\ fate' # fate /\ mode' = mode /\ bin' = bin /\ took' = took /\ fs' = fs
    BY <1>11, <1>a, <1>0
       DEF UnlinkFails, Settle, world, ApprovalInv, TypeInv, TypeOK
  <2>2. \/ harmed' = harmed
        \/ ~InTrash(fs[Target[cur]]) /\ Discard(fs[Target[cur]])
    BY <1>11, <1>d DEF UnlinkFails
  <2>3. QED
    BY <2>1, <2>2, <1>0, StepIntact DEF LossInv
<1>12. CASE RemoveAt
  <2>1. mode = "obliterate"
    BY <1>12, <1>0 DEF RemoveAt, ApprovalInv, PlanOrder
  <2>2. QED
    BY <1>12, <2>1, <1>0, <1>a, <1>c, StepIntact DEF RemoveAt, LossInv
<1>13. ASSUME NEW p \in Path, OtherChangesPath(p) PROVE LossInv'
  <2>1. PICK o \in Held : (o # Nothing => Nowhere(o)) /\ fs' = [fs EXCEPT ![p] = o]
    BY <1>13 DEF OtherChangesPath
  <2>2. /\ mode' = mode /\ bin' = bin /\ took' = took /\ harmed' = harmed
        /\ fate' = fate /\ Lost' = Lost
    BY <1>13 DEF OtherChangesPath, program, Lost
  <2>3. Distinct'
    BY <2>1, <1>0 DEF LossInv, Distinct, Nowhere
  <2>4. o \notin Lost
    BY <2>1, <1>0, ObjectAssumption DEF Nowhere, Lost
  <2>5. Intact'
    BY <2>1, <2>2, <2>4, <1>0, PlanAssumption DEF LossInv, Intact, InTrash
  <2>6. QED
    BY <1>0, <2>3, <2>5 DEF LossInv
<1>14. ASSUME NEW s \in Slot, OtherChangesTrash(s) PROVE LossInv'
  BY <1>14 DEF OtherChangesTrash
<1>15. CASE UNCHANGED vars
  BY <1>15, <1>b DEF vars, program, world, ghost
<1>16. QED
  BY <1>1, <1>2, <1>4, <1>5, <1>6, <1>7, <1>8, <1>9, <1>10, <1>11, <1>12, <1>13,
     <1>14, <1>15 DEF Next, Process, Execute, Environment

(* No record says "reversible" of an object that is gone for good, given   *)
(* also that no path is planned twice.                                     *)
THEOREM ReversibleIsHonest ==
  ASSUME PlannedOnce, ~SameTick, ~Foreign PROVE Spec => []ReversibleMeansIntact
<1>1. LossInv /\ [Next]_vars => LossInv'
  BY LossNext
<1>2. Spec => []LossInv
  BY LossInit, <1>1, PTL DEF Spec
<1>3. ASSUME LossInv PROVE ReversibleMeansIntact
  <2> SUFFICES ASSUME NEW e \in log, e.reversible PROVE took[e.op] \notin Lost
    BY DEF ReversibleMeansIntact
  <2>1. e.op \in Op /\ fate[e.op] # "obliterated"
    <3>1. e.op \in Op /\ e = Entry(e.op)
      BY <1>3 DEF LossInv, TrashInv, LogIsTrue
    <3>2. PICK i \in Op : e = Entry(i) /\ i = e.op
      BY <3>1
    <3>3. e.reversible = (fate[i] # "obliterated")
      BY <3>2 DEF Entry
    <3>4. QED
      BY <3>2, <3>3
  <2>2. Lost \subseteq Object /\ mode \in {"trash", "obliterate"}
    BY <1>3 DEF LossInv, TrashInv, ApprovalInv, TypeInv, TypeOK, Lost
  <2>3. CASE took[e.op] = Nothing
    BY <2>2, <2>3, ObjectAssumption
  <2>4. CASE mode = "obliterate" /\ took[e.op] # Nothing
    BY <2>1, <2>4, <1>3 DEF LossInv, TrashInv, OnlyObliterated
  <2>5. CASE mode = "trash" /\ took[e.op] # Nothing
    BY <2>1, <2>5, <1>3 DEF LossInv, Intact
  <2>6. QED
    BY <2>2, <2>3, <2>4, <2>5
<1>4. QED
  BY <1>2, <1>3, PTL

-----------------------------------------------------------------------------
(* Execution keeps the promise of BatchPromise: the batch the user approved *)
(* settles in order, each operation once, with a fate its mode allows, and  *)
(* the log never tells another fate.                                        *)

(* Operations before the current one have settled; when the results are    *)
(* recorded all have.                                                      *)
SettledBefore ==
  /\ pc \in {"begin", "dest", "move", "unlink", "remove"} =>
       \A j \in Op : j < cur => fate[j] # "pending"
  /\ pc \in {"record", "done"} => \A j \in Op : fate[j] # "pending"

OrderInv == ApprovalInv /\ SettledBefore

LEMMA OrderInit == Init => OrderInv
BY ApprovalInit DEF Init, OrderInv, SettledBefore

(* Settling the operation in hand is one Settle of the promise.            *)
LEMMA SettlePromised ==
  ASSUME OrderInv, ApprovalInv', NEW f \in Promise!Allowed(mode), Settle(f),
         pc \in {"begin", "move", "unlink", "remove"}
  PROVE  SettledBefore' /\ Promise!Settle(cur)
<1>1. /\ cur \in Op /\ Op = 1..N /\ N \in Nat /\ cur \in Nat /\ fate \in [Op -> Fates]
      /\ fate[cur] = "pending" /\ f # "pending"
  BY SizeAssumption
     DEF OrderInv, ApprovalInv, PlanOrder, TypeInv, TypeOK, Op, Promise!Allowed
<1>2. \A j \in Op : j < cur => fate[j] # "pending"
  BY DEF OrderInv, SettledBefore
<1>3. /\ fate' = [fate EXCEPT ![cur] = f] /\ log' = log /\ mode' = mode
      /\ (cur = N /\ pc' = "record") \/ (cur # N /\ pc' = "begin" /\ cur' = cur + 1)
  BY DEF Settle
<1>4. SettledBefore'
  BY <1>1, <1>2, <1>3 DEF SettledBefore
<1>5. Phase = "approved" /\ Phase' = "approved"
  BY <1>3 DEF Phase
<1>6. Promise!Settle(cur)
  <2>1. \A j \in 1..(cur - 1) : fate[j] # "pending"
    BY <1>1, <1>2
  <2>2. ~Promise!Settled(cur) /\ \A j \in 1..(cur - 1) : Promise!Settled(j)
    BY <2>1, <1>1 DEF Promise!Settled
  <2>3. UNCHANGED <<mode, Phase, {<<e.op, e.fate>> : e \in log}>>
    BY <1>3, <1>5
  <2>4. QED
    BY <1>3, <1>5, <2>2, <2>3 DEF Promise!Settle
<1>7. QED
  BY <1>4, <1>6

(* Every step of Execution is a step of the promise or a stutter.          *)
LEMMA StepPromised ==
  ASSUME OrderInv, [Next]_vars PROVE SettledBefore' /\ [Promise!Next]_Promise!vars
<1>0. /\ ApprovalInv' /\ cur \in Op /\ Op = 1..N
      /\ {"skipped", "failed"} \subseteq Promise!Allowed(mode)
      /\ mode = "trash" => "trashed" \in Promise!Allowed(mode)
      /\ mode = "obliterate" => "obliterated" \in Promise!Allowed(mode)
      /\ pc \in {"move", "unlink"} => mode = "trash"
      /\ pc = "remove" => mode = "obliterate"
      /\ Promise!Op = Op
  BY ApprovalNext DEF OrderInv, ApprovalInv, PlanOrder, TypeInv, TypeOK,
                      Promise!Allowed, Promise!Op, Op
<1>a. ASSUME mode' = mode, Phase' = Phase, fate' = fate, log' = log
      PROVE  UNCHANGED Promise!vars
  BY <1>a DEF Promise!vars
<1>b. ASSUME NEW f \in Promise!Allowed(mode), Settle(f),
             pc \in {"begin", "move", "unlink", "remove"}
      PROVE  SettledBefore' /\ [Promise!Next]_Promise!vars
  BY <1>b, <1>0, SettlePromised DEF Promise!Next
<1>1. CASE Approve
  BY <1>1, <1>a DEF Approve, Phase, OrderInv, SettledBefore
<1>2. CASE Decline \/ Open
  <2>1. /\ mode' = mode /\ fate' = fate /\ log' = log
        /\ Phase = "asking" /\ Phase' \in {"approved", "declined"} /\ SettledBefore'
    BY <1>2 DEF Decline, Open, Phase, SettledBefore
  <2>2. Promise!Answer
    BY <2>1 DEF Promise!Answer
  <2>3. QED
    BY <2>1, <2>2 DEF Promise!Next
<1>3. CASE Validate
  <2>1. /\ mode' = mode /\ fate' = fate /\ log' = log
        /\ pc = "validate" /\ (pc' = "validate" \/ (pc' = "begin" /\ cur' = 1))
    BY <1>3 DEF Validate
  <2>2. Phase' = Phase
    BY <2>1 DEF Phase
  <2>3. SettledBefore'
    BY <2>1, <1>0 DEF SettledBefore, Op
  <2>4. QED
    BY <2>1, <2>2, <2>3, <1>a
<1>4. CASE \/ SkipStale \/ Rename \/ RenameFails \/ CopyFails \/ Unlink \/ UnlinkFails
           \/ RemoveVanished \/ RemoveAt \/ RemoveNothing
  <2>1. CASE SkipStale \/ RenameFails \/ CopyFails \/ UnlinkFails \/ RemoveNothing
    BY <2>1, <1>0, <1>b DEF SkipStale, RenameFails, CopyFails, UnlinkFails, RemoveNothing
  <2>2. CASE Rename \/ Unlink
    BY <2>2, <1>0, <1>b DEF Rename, Unlink
  <2>3. CASE RemoveVanished \/ RemoveAt
    BY <2>3, <1>0, <1>b DEF RemoveVanished, RemoveAt
  <2>4. QED
    BY <1>4, <2>1, <2>2, <2>3
<1>c. ASSUME mode' = mode, fate' = fate, log' = log, cur' = cur,
             pc \in {"begin", "dest", "move"}, pc' \in {"dest", "move", "unlink", "remove"}
      PROVE  SettledBefore' /\ [Promise!Next]_Promise!vars
  <2>1. Phase' = Phase
    BY <1>c DEF Phase
  <2>2. SettledBefore'
    BY <1>c DEF OrderInv, SettledBefore
  <2>3. QED
    BY <1>c, <2>1, <2>2, <1>a
<1>5. CASE TrashStat
  <2>1. CASE fs[Target[cur]] = Nothing
    BY <1>5, <2>1, <1>0, <1>b DEF TrashStat
  <2>2. CASE fs[Target[cur]] # Nothing
    BY <1>5, <2>2, <1>c DEF TrashStat, Continue
  <2>3. QED
    BY <2>1, <2>2
<1>6. CASE TrashDest \/ Copy
  BY <1>6, <1>c DEF TrashDest, Continue, Copy
<1>7. CASE ObliterateCheck
  <2>1. CASE Continue("remove")
    BY <1>7, <2>1, <1>c DEF ObliterateCheck, Continue
  <2>2. CASE Settle("failed") \/ Settle("skipped")
    BY <1>7, <2>2, <1>0, <1>b DEF ObliterateCheck
  <2>3. QED
    BY <1>7, <2>1, <2>2 DEF ObliterateCheck
<1>8. CASE AppendHistory
  <2> DEFINE pairs == {<<e.op, e.fate>> : e \in log}
  <2>1. /\ mode' = mode /\ fate' = fate /\ pc = "record" /\ pc' \in {"record", "done"}
        /\ log' = log \/ log' = log \cup {Entry(cur)}
    BY <1>8 DEF AppendHistory
  <2>2. pairs' \in {pairs, pairs \cup {<<cur, fate[cur]>>}}
    BY <2>1 DEF Entry
  <2>3. \A j \in Op : fate[j] # "pending"
    BY <2>1 DEF OrderInv, SettledBefore
  <2>4. Phase = "approved" /\ (Phase' = "approved" \/ Phase' = "ended")
    BY <2>1 DEF Phase
  <2>5. Promise!AllSettled /\ Promise!Settled(cur)
    BY <2>3, <1>0 DEF Promise!AllSettled, Promise!Settled
  <2>6. PICK i \in Promise!Op : i = cur
    BY <1>0
  <2>7. Promise!LogOne(i)
    BY <2>1, <2>2, <2>4, <2>5, <2>6 DEF Promise!LogOne
  <2>8. Promise!Next
    BY <2>6, <2>7 DEF Promise!Next
  <2>9. SettledBefore'
    BY <2>1, <2>3 DEF SettledBefore
  <2>10. QED
    BY <2>8, <2>9
<1>9. CASE Crash
  <2>1. /\ mode' = mode /\ fate' = fate /\ log' = log /\ SettledBefore'
        /\ Phase \in {"asking", "approved"} /\ Phase' = "crashed"
    BY <1>9 DEF Crash, Phase, Ended, SettledBefore
  <2>2. Promise!Crash
    BY <2>1 DEF Promise!Crash
  <2>3. QED
    BY <2>1, <2>2 DEF Promise!Next
<1>d. ASSUME UNCHANGED program PROVE SettledBefore' /\ [Promise!Next]_Promise!vars
  <2>1. SettledBefore'
    BY <1>d DEF program, OrderInv, SettledBefore
  <2>2. Phase' = Phase
    BY <1>d DEF program, Phase
  <2>3. QED
    BY <1>d, <2>1, <2>2, <1>a DEF program
<1>10. CASE Environment \/ UNCHANGED vars
  BY <1>10, <1>d DEF Environment, OtherChangesPath, OtherChangesTrash, vars
<1>11. QED
  BY <1>1, <1>2, <1>3, <1>4, <1>5, <1>6, <1>7, <1>8, <1>9, <1>10
     DEF Next, Process, Execute

(* Execution implements BatchPromise.                                      *)
THEOREM PromiseKept == Spec => KeepsPromise
<1>1. Init => Promise!Init
  BY DEF Init, Promise!Init, Phase, Promise!Op, Op
<1>2. OrderInv /\ [Next]_vars => OrderInv' /\ [Promise!Next]_Promise!vars
  BY ApprovalNext, StepPromised DEF OrderInv
<1>3. QED
  BY <1>1, <1>2, OrderInit, PTL DEF Spec, KeepsPromise, Promise!Spec
-----------------------------------------------------------------------------
(* The sealed plan is what executes, as PlanPromise says of every command: *)
(* the plan is the recorded identities, and the effect is what the         *)
(* operations have taken and destroyed.                                    *)
PlanPhase ==
  CASE pc \in {"gate", "open"}         -> "asking"
    [] pc = "done"                     -> "done"
    [] pc \in {"declined", "crashed"}  -> "stopped"
    [] OTHER                           -> "approved"

(* How far the checks and the operations have come.                        *)
NChecked == IF pc \in {"gate", "open"} THEN 0 ELSE IF pc = "validate" THEN cur - 1 ELSE N
NSettled == IF pc \in {"gate", "open", "validate"} THEN 0
            ELSE IF pc \in {"begin", "dest", "move", "unlink", "remove"} THEN cur - 1
            ELSE N

FirstOf(s, n) == [k \in 1..n |-> s[k]]

Plan == INSTANCE PlanPromise
          WITH Fates <- Fates \ {"pending"}, phase <- PlanPhase, plan <- expected,
               verdict <- FirstOf(verdict, NChecked), fate <- FirstOf(fate, NSettled),
               effect <- <<took, harmed>>

(* One more of the first elements, the others being what they were.        *)
LEMMA OneMore ==
  ASSUME NEW n \in Nat, NEW s, NEW t, \A k \in 1..n : t[k] = s[k]
  PROVE  /\ Len(FirstOf(s, n)) = n /\ FirstOf(t, n) = FirstOf(s, n)
         /\ FirstOf(t, n + 1) = Append(FirstOf(s, n), t[n + 1])
BY DEF FirstOf

LEMMA PlanInit == Init => Plan!Init
BY DEF Init, Plan!Init, PlanPhase, NChecked, NSettled, FirstOf

(* The plan has N operations, and both counts are within it; the first of  *)
(* an order opened is the first to be checked.                             *)
FirstOpened == pc \in {"gate", "open"} => cur = 1
PlanInv     == OrderInv /\ FirstOpened

LEMMA Counts ==
  ASSUME PlanInv
  PROVE  /\ Op = 1..N /\ N \in Nat \ {0} /\ cur \in Op /\ Len(expected) = N
         /\ verdict \in [Op -> BOOLEAN] /\ fate \in [Op -> Fates]
         /\ NChecked \in Nat /\ NSettled \in Nat
         /\ Len(FirstOf(verdict, NChecked)) = NChecked /\ Len(FirstOf(fate, NSettled)) = NSettled
<1>1. /\ Op = 1..N /\ N \in Nat \ {0} /\ cur \in Op
      /\ verdict \in [Op -> BOOLEAN] /\ fate \in [Op -> Fates]
      /\ expected \in [Op -> {Ident[o] : o \in Object}]
  BY SizeAssumption DEF PlanInv, OrderInv, ApprovalInv, TypeInv, TypeOK, Op
<1>2. NChecked \in Nat /\ NSettled \in Nat
  BY <1>1 DEF NChecked, NSettled
<1>3. expected \in Seq({Ident[o] : o \in Object}) /\ Len(expected) = N
  BY <1>1
<1>4. QED
  BY <1>1, <1>2, <1>3, OneMore

(* The operation in hand: its turn has come, and after "begin" it has      *)
(* passed the check of the batch.                                          *)
LEMMA InTurn ==
  ASSUME PlanInv, pc \in {"begin", "dest", "move", "unlink", "remove"}
  PROVE  /\ PlanPhase = "approved" /\ NChecked = N /\ NSettled = cur - 1
         /\ NSettled < N /\ NSettled + 1 = cur
         /\ Len(FirstOf(verdict, NChecked)) = N /\ Len(FirstOf(fate, NSettled)) = NSettled
         /\ FirstOf(verdict, NChecked)[NSettled + 1] = verdict[cur]
<1>1. /\ Op = 1..N /\ N \in Nat \ {0} /\ cur \in Op
      /\ NChecked = N /\ NSettled = cur - 1 /\ PlanPhase = "approved"
      /\ Len(FirstOf(verdict, NChecked)) = NChecked /\ Len(FirstOf(fate, NSettled)) = NSettled
  BY Counts DEF NChecked, NSettled, PlanPhase
<1>2. QED
  BY <1>1 DEF FirstOf

(* The operation in hand settles: refused, if it failed its check.         *)
LEMMA PlanSettle ==
  ASSUME PlanInv, pc \in {"begin", "dest", "move", "unlink", "remove"},
         NEW f \in Fates \ {"pending"}, Settle(f),
         verdict[cur] \/ (~verdict[cur] /\ f = "skipped" /\ UNCHANGED <<took, harmed>>)
  PROVE  Plan!Refuse \/ Plan!Act
<1>1. /\ Op = 1..N /\ N \in Nat \ {0} /\ cur \in Op /\ Len(expected) = N
      /\ verdict \in [Op -> BOOLEAN] /\ fate \in [Op -> Fates]
  BY Counts
<1>2. /\ UNCHANGED <<expected, verdict>> /\ fate' = [fate EXCEPT ![cur] = f]
      /\ (cur = N /\ pc' = "record") \/ (cur # N /\ pc' = "begin" /\ cur' = cur + 1)
  BY DEF Settle
<1>3. NChecked' = NChecked /\ NSettled' = NSettled + 1 /\ NSettled + 1 = cur /\ NSettled \in Nat
  BY <1>1, <1>2, InTurn DEF NChecked, NSettled
<1>4. UNCHANGED FirstOf(verdict, NChecked)
  BY <1>2, <1>3 DEF FirstOf
<1>5. FirstOf(fate, NSettled)' = Append(FirstOf(fate, NSettled), f)
  <2> DEFINE t == fate'
  <2>1. FirstOf(fate, NSettled)' = FirstOf(t, NSettled')
    BY DEF FirstOf
  <2>2. t[NSettled + 1] = f /\ \A k \in 1..NSettled : t[k] = fate[k]
    BY <1>1, <1>2, <1>3
  <2> HIDE DEF t
  <2>3. FirstOf(t, NSettled + 1) = Append(FirstOf(fate, NSettled), t[NSettled + 1])
    BY <1>3, <2>2, OneMore
  <2>4. QED
    BY <1>3, <2>1, <2>2, <2>3
<1>6. PlanPhase' = "approved"
  BY <1>2 DEF PlanPhase
<1>7. CASE verdict[cur]
  <2>1. Plan!Turn(TRUE)
    BY <1>1, <1>2, <1>4, <1>6, <1>7, InTurn DEF Plan!Turn
  <2>2. QED
    BY <1>5, <2>1 DEF Plan!Act
<1>8. CASE ~verdict[cur]
  <2>1. Plan!Turn(FALSE)
    BY <1>1, <1>2, <1>4, <1>6, <1>8, InTurn DEF Plan!Turn
  <2>2. QED
    BY <1>5, <1>8, <2>1 DEF Plan!Refuse
<1>9. QED
  BY <1>7, <1>8

(* One result of the check of the batch.                                   *)
LEMMA PlanCheck == ASSUME PlanInv, Validate PROVE Plan!Check
<1>1. /\ Op = 1..N /\ N \in Nat \ {0} /\ cur \in Op /\ Len(expected) = N
      /\ NChecked = cur - 1 /\ NSettled = 0 /\ Len(FirstOf(verdict, NChecked)) = NChecked
      /\ verdict \in [Op -> BOOLEAN]
  BY Counts DEF Validate, NChecked, NSettled
<1>2. PICK valid \in BOOLEAN : verdict' = [verdict EXCEPT ![cur] = valid]
  BY DEF Validate, Matches
<1>3. /\ UNCHANGED <<expected, fate, took, harmed>> /\ pc = "validate"
      /\ (cur = N /\ pc' = "begin" /\ cur' = 1) \/ (cur # N /\ pc' = "validate" /\ cur' = cur + 1)
  BY DEF Validate, ghost
<1>4. NChecked' = NChecked + 1 /\ NSettled' = 0
  BY <1>1, <1>3 DEF NChecked, NSettled
<1>5. FirstOf(verdict, NChecked)' = Append(FirstOf(verdict, NChecked), valid)
  <2> DEFINE v == verdict'
  <2>1. FirstOf(verdict, NChecked)' = FirstOf(v, NChecked')
    BY DEF FirstOf
  <2>2. v[NChecked + 1] = valid /\ NChecked \in Nat /\ \A k \in 1..NChecked : v[k] = verdict[k]
    BY <1>1, <1>2
  <2> HIDE DEF v
  <2>3. FirstOf(v, NChecked + 1) = Append(FirstOf(verdict, NChecked), v[NChecked + 1])
    BY <2>2, OneMore
  <2>4. QED
    BY <1>4, <2>1, <2>2, <2>3
<1>6. UNCHANGED FirstOf(fate, NSettled)
  BY <1>1, <1>4 DEF FirstOf
<1>7. PlanPhase = "approved" /\ PlanPhase' = "approved"
  BY <1>3 DEF PlanPhase
<1>8. Len(FirstOf(verdict, NChecked)) < Len(expected)
  BY <1>1
<1>9. QED
  BY <1>3, <1>5, <1>6, <1>7, <1>8 DEF Plan!Check

LEMMA FirstNext == PlanInv /\ [Next]_vars => FirstOpened'
<1> SUFFICES ASSUME PlanInv, [Next]_vars, pc' \in {"gate", "open"} PROVE cur' = 1
  BY DEF FirstOpened
<1>1. Approve \/ Environment \/ UNCHANGED vars
  BY DEF Next, Process, Execute, Decline, Open, Validate, SkipStale, TrashStat, TrashDest, Rename,
         RenameFails, Copy, CopyFails, Unlink, UnlinkFails, ObliterateCheck, RemoveVanished,
         RemoveAt, RemoveNothing, AppendHistory, Crash, Settle, Continue
<1>2. cur' = cur /\ pc \in {"gate", "open"}
  BY <1>1 DEF Approve, Environment, OtherChangesPath, OtherChangesTrash, vars, program
<1>3. QED
  BY <1>2 DEF PlanInv, FirstOpened

LEMMA PlanStep == PlanInv /\ [Next]_vars => [Plan!Next]_Plan!vars
<1> SUFFICES ASSUME PlanInv, [Next]_vars PROVE [Plan!Next]_Plan!vars
  OBVIOUS
<1>0. /\ pc \in {"dest", "move", "unlink"} => verdict[cur]
      /\ {"skipped", "trashed", "obliterated", "failed"} \subseteq Fates \ {"pending"}
  BY DEF PlanInv, OrderInv, ApprovalInv, PlanOrder, Fates
<1>s. ASSUME UNCHANGED <<expected, cur, verdict, fate, took, harmed>>,
             UNCHANGED <<PlanPhase, NChecked, NSettled>>
      PROVE  UNCHANGED Plan!vars
  BY <1>s DEF Plan!vars, FirstOf
<1>1. CASE Approve \/ Open
  <2>1. /\ UNCHANGED <<expected, cur, verdict, fate, took, harmed>>
        /\ pc \in {"gate", "open"} /\ pc' \in {"open", "validate", "declined"} /\ cur = 1
    BY <1>1 DEF Approve, Open, ghost, PlanInv, FirstOpened
  <2>2. CASE pc' = "open"
    <3>1. UNCHANGED <<PlanPhase, NChecked, NSettled>>
      BY <2>1, <2>2 DEF PlanPhase, NChecked, NSettled
    <3>2. QED
      BY <1>s, <2>1, <3>1
  <2>3. CASE pc' = "validate"
    <3>1. UNCHANGED <<NChecked, NSettled>>
      BY <2>1, <2>3 DEF NChecked, NSettled
    <3>2. UNCHANGED <<FirstOf(verdict, NChecked), FirstOf(fate, NSettled)>>
      BY <2>1, <3>1 DEF FirstOf
    <3>3. QED
      BY <2>1, <2>3, <3>2 DEF PlanPhase, Plan!Next, Plan!Approve
  <2>4. CASE pc' = "declined"
    BY <2>1, <2>4 DEF PlanPhase, Plan!Next, Plan!Stop
  <2>5. QED
    BY <2>1, <2>2, <2>3, <2>4
<1>2. CASE Decline \/ Crash
  BY <1>2 DEF Decline, Crash, ghost, Ended, PlanPhase, Plan!Next, Plan!Stop
<1>3. CASE Validate
  BY <1>3, PlanCheck DEF Plan!Next
<1>4. CASE SkipStale
  BY <1>0, <1>4, PlanSettle DEF SkipStale, Plan!Next, PlanInv, OrderInv, ApprovalInv, TypeInv, TypeOK
<1>5. CASE TrashDest \/ Copy \/ (TrashStat /\ Continue("dest"))
             \/ (ObliterateCheck /\ Continue("remove"))
  <2>1. /\ UNCHANGED <<expected, cur, verdict, fate, harmed>>
        /\ pc \in {"begin", "dest", "move"} /\ pc' \in {"dest", "move", "unlink", "remove"}
        /\ verdict[cur]
    BY <1>0, <1>5 DEF TrashDest, Copy, TrashStat, ObliterateCheck, Continue, ghost
  <2>2. UNCHANGED <<PlanPhase, NChecked, NSettled>>
    BY <2>1 DEF PlanPhase, NChecked, NSettled
  <2>3. UNCHANGED <<FirstOf(verdict, NChecked), FirstOf(fate, NSettled)>>
    BY <2>1, <2>2 DEF FirstOf
  <2>4. Plan!Turn(TRUE)
    BY <2>1, <2>2, <2>3, Counts, InTurn DEF Plan!Turn
  <2>5. QED
    BY <2>3, <2>4 DEF Plan!Act, Plan!Next
<1>6. CASE Rename \/ RenameFails \/ CopyFails \/ Unlink \/ UnlinkFails
  <2>1. /\ pc \in {"move", "unlink"} /\ verdict[cur]
        /\ \E f \in Fates \ {"pending"} : Settle(f)
    BY <1>0, <1>6 DEF Rename, RenameFails, CopyFails, Unlink, UnlinkFails
  <2>2. QED
    BY <2>1, PlanSettle DEF Plan!Next
<1>7. CASE (TrashStat /\ ~Continue("dest")) \/ (ObliterateCheck /\ ~Continue("remove"))
  <2>1. /\ pc = "begin" /\ verdict[cur] /\ \E f \in Fates \ {"pending"} : Settle(f)
    BY <1>0, <1>7 DEF TrashStat, ObliterateCheck
  <2>2. QED
    BY <2>1, PlanSettle DEF Plan!Next
<1>8. CASE RemoveVanished \/ RemoveAt \/ RemoveNothing
  <2>1. pc = "remove" /\ \E f \in Fates \ {"pending"} : Settle(f)
    BY <1>0, <1>8 DEF RemoveVanished, RemoveAt, RemoveNothing
  <2>2. verdict[cur]
    BY <2>1 DEF PlanInv, OrderInv, ApprovalInv, PlanOrder
  <2>3. QED
    BY <2>1, <2>2, PlanSettle DEF Plan!Next
<1>9. CASE AppendHistory
  <2>1. /\ UNCHANGED <<expected, verdict, fate, took, harmed>>
        /\ pc = "record" /\ pc' \in {"record", "done"}
    BY <1>9 DEF AppendHistory, ghost
  <2>2. NChecked = N /\ NSettled = N /\ UNCHANGED <<NChecked, NSettled>>
    BY <2>1 DEF NChecked, NSettled
  <2>3. UNCHANGED <<FirstOf(verdict, NChecked), FirstOf(fate, NSettled)>>
    BY <2>1, <2>2 DEF FirstOf
  <2>4. CASE pc' = "record"
    BY <2>1, <2>3, <2>4 DEF PlanPhase, Plan!vars
  <2>5. CASE pc' = "done"
    BY <2>1, <2>2, <2>3, <2>5, Counts DEF PlanPhase, Plan!Next, Plan!Finish
  <2>6. QED
    BY <2>1, <2>4, <2>5
<1>10. CASE Environment \/ UNCHANGED vars
  <2>1. UNCHANGED <<expected, cur, pc, verdict, fate, took, harmed>>
    BY <1>10 DEF Environment, OtherChangesPath, OtherChangesTrash, vars, program, ghost
  <2>2. UNCHANGED <<PlanPhase, NChecked, NSettled>>
    BY <2>1 DEF PlanPhase, NChecked, NSettled
  <2>3. QED
    BY <1>s, <2>1, <2>2
<1>11. QED
  BY <1>1, <1>2, <1>3, <1>4, <1>5, <1>6, <1>7, <1>8, <1>9, <1>10 DEF Next, Process, Execute

(* Nothing is taken or destroyed but by an operation that was approved and *)
(* found unchanged by a check made before the first one acts, each in its  *)
(* turn, and by none whose fate has been recorded (Revalidate, Execute).   *)
THEOREM PlanKept == Spec => Plan!Spec
<1>1. Init => PlanInv
  BY OrderInit DEF Init, PlanInv, FirstOpened
<1>2. PlanInv /\ [Next]_vars => PlanInv'
  BY ApprovalNext, StepPromised, FirstNext DEF PlanInv, OrderInv
<1>3. QED
  BY <1>1, <1>2, PlanInit, PlanStep, PTL DEF Spec, Plan!Spec
-----------------------------------------------------------------------------
(* How much a batch has still to do: every step of its own takes one off,  *)
(* and no step of another program puts one back.  A target is checked      *)
(* once, takes at most four steps, and is recorded once.                   *)
StepsLeft ==
  CASE pc = "gate"               -> 6 * N + 2
    [] pc = "open"               -> 6 * N + 1
    [] pc = "validate"           -> 5 * N + (N - cur) + 1
    [] pc = "begin"              -> N + 4 * (N - cur) + 4
    [] pc \in {"dest", "remove"} -> N + 4 * (N - cur) + 3
    [] pc = "move"               -> N + 4 * (N - cur) + 2
    [] pc = "unlink"             -> N + 4 * (N - cur) + 1
    [] pc = "record"             -> (N - cur) + 1
    [] pc \in Ended              -> 0

Advances ==
  /\ Approve \/ Decline \/ Process \/ Crash => StepsLeft' < StepsLeft
  /\ Environment => StepsLeft' = StepsLeft

Weighed ==
  /\ pc = "gate" => StepsLeft = 6 * N + 2
  /\ pc = "open" => StepsLeft = 6 * N + 1
  /\ pc = "validate" => StepsLeft = 5 * N + (N - cur) + 1
  /\ pc = "begin" => StepsLeft = N + 4 * (N - cur) + 4
  /\ pc \in {"dest", "remove"} => StepsLeft = N + 4 * (N - cur) + 3
  /\ pc = "move" => StepsLeft = N + 4 * (N - cur) + 2
  /\ pc = "unlink" => StepsLeft = N + 4 * (N - cur) + 1
  /\ pc = "record" => StepsLeft = (N - cur) + 1
  /\ pc \in Ended => StepsLeft = 0

LEMMA StepsWeighed == Weighed /\ Weighed'
<1>1. Weighed
  BY DEF Weighed, StepsLeft, Ended
<1>2. Weighed'
  BY DEF Weighed, StepsLeft, Ended
<1>3. QED
  BY <1>1, <1>2

LEMMA StepsBound == ASSUME TypeOK PROVE StepsLeft \in 0..(6 * N + 2)
<1>1. N \in Nat \ {0} /\ cur \in 1..N
  BY SizeAssumption DEF TypeOK, Op
<1>2. pc \in Steps \cup Ended
  BY DEF TypeOK
<1>3. QED
  BY <1>1, <1>2, StepsWeighed DEF Weighed, Steps

LEMMA StepAdvances == ASSUME TypeOK, Next PROVE Advances
<1>0. N \in Nat \ {0} /\ cur \in 1..N /\ pc \in Steps \cup Ended
  BY SizeAssumption DEF TypeOK, Op
<1>w. Weighed /\ Weighed'
  BY StepsWeighed
<1>a. ASSUME pc \in {"begin", "move", "unlink", "remove"}, NEW f, Settle(f)
      PROVE  StepsLeft' < StepsLeft
  <2>1. (cur = N /\ pc' = "record" /\ cur' = 1) \/ (cur # N /\ pc' = "begin" /\ cur' = cur + 1)
    BY <1>a DEF Settle
  <2>2. StepsLeft > N + 4 * (N - cur)
    BY <1>0, <1>a, <1>w DEF Weighed
  <2>3. StepsLeft' <= N + 4 * (N - cur)
    BY <1>0, <1>w, <2>1 DEF Weighed
  <2>4. StepsLeft \in Nat /\ StepsLeft' \in Nat
    BY <1>0, <1>a, <1>w, <2>1 DEF Weighed
  <2>5. QED
    BY <1>0, <2>2, <2>3, <2>4
<1>1. CASE Environment
  <2>1. UNCHANGED <<pc, cur>>
    BY <1>1 DEF Environment, OtherChangesPath, OtherChangesTrash, program
  <2>2. ~(Approve \/ Decline \/ Process \/ Crash)
    <3>1. ASSUME Approve \/ Decline \/ Process \/ Crash PROVE pc' # pc \/ cur' # cur
      BY <1>0, <3>1
         DEF Approve, Decline, Process, Crash, Open, Validate, Execute, AppendHistory, SkipStale,
             TrashStat, TrashDest, Rename, RenameFails, Copy, CopyFails, Unlink, UnlinkFails,
             ObliterateCheck, RemoveVanished, RemoveAt, RemoveNothing, Settle, Continue, Ended
    <3>2. QED
      BY <2>1, <3>1
  <2>3. StepsLeft' = StepsLeft
    BY <2>1 DEF StepsLeft
  <2>4. QED
    BY <2>2, <2>3 DEF Advances
<1>2. ASSUME ~Environment PROVE StepsLeft' < StepsLeft
  <2>1. CASE Approve \/ Decline \/ Open \/ Crash
    BY <1>0, <1>w, <2>1 DEF Approve, Decline, Open, Crash, Weighed, Steps, Ended
  <2>2. CASE Validate \/ AppendHistory
    BY <1>0, <1>w, <2>2 DEF Validate, AppendHistory, Weighed, Ended
  <2>3. CASE TrashDest \/ Copy \/ (TrashStat /\ Continue("dest"))
               \/ (ObliterateCheck /\ Continue("remove"))
    BY <1>0, <1>w, <2>3 DEF TrashDest, Copy, TrashStat, ObliterateCheck, Continue, Weighed
  <2>4. CASE (TrashStat /\ ~Continue("dest")) \/ (ObliterateCheck /\ ~Continue("remove"))
    BY <1>a, <2>4 DEF TrashStat, ObliterateCheck
  <2>5. CASE SkipStale \/ Rename \/ RenameFails \/ CopyFails \/ Unlink \/ UnlinkFails
               \/ RemoveVanished \/ RemoveAt \/ RemoveNothing
    BY <1>a, <2>5 DEF SkipStale, Rename, RenameFails, CopyFails, Unlink, UnlinkFails,
                      RemoveVanished, RemoveAt, RemoveNothing
  <2>6. QED
    BY <1>2, <2>1, <2>2, <2>3, <2>4, <2>5 DEF Next, Process, Execute
<1>3. QED
  BY <1>1, <1>2 DEF Advances

(* A batch of N operations is over after 6N + 2 steps of its own, whatever *)
(* fails in it and however often others change its targets meanwhile: no   *)
(* loop of Execute or of the recording starts anew.                        *)
THEOREM BatchIsFinite == Spec => [](StepsLeft \in 0..(6 * N + 2)) /\ [][Advances]_vars
<1>2. Spec => []TypeOK
  BY TypeCorrect
<1>3. TypeOK /\ [Next]_vars => [Advances]_vars
  BY StepAdvances
<1>4. TypeOK => StepsLeft \in 0..(6 * N + 2)
  BY StepsBound
<1>5. QED
  BY <1>2, <1>3, <1>4, PTL DEF Spec

-----------------------------------------------------------------------------
(* What is said of the batch: by the fates, by the log and by the status   *)
(* of a scheduled run.                                                     *)

(* Only a copy to another volume precedes the fate of its operation.       *)
Untaken ==
  /\ pc = "unlink" => Target[cur] \in CrossVolume
  /\ \A i \in Op : fate[i] \notin {"trashed", "obliterated"} /\ Target[i] \notin CrossVolume
                    => took[i] = Nothing

(* The operations the caller's loop has passed are in the log or unlogged. *)
Told(i) == i \in unlogged \/ \E e \in log : e.op = i /\ e.fate = fate[i]

Recorded ==
  /\ pc = "record" => \A i \in Op : i < cur => Told(i)
  /\ pc = "done" => \A i \in Op : Told(i)

(* A status is reported at the end of the loop, or before anything is done.*)
Reported ==
  report # "none" => \/ pc = "done" /\ report = ScheduledStatus
                     \/ /\ pc = "declined" /\ report = "failed"
                        /\ \A i \in Op : fate[i] = "pending"

ToldInv == ApprovalInv /\ Untaken /\ Recorded /\ Reported

LEMMA ToldInit == Init => ToldInv
BY ApprovalInit DEF Init, ToldInv, Untaken, Recorded, Reported

(* Settling the operation in hand takes its target away when the fate says *)
(* so, and otherwise only from another volume.                             *)
LEMMA SettleTold ==
  ASSUME ToldInv, NEW f \in Fates, Settle(f),
         pc \in {"begin", "move", "unlink", "remove"},
         \/ took' = took
         \/ /\ took' = [took EXCEPT ![cur] = fs[Target[cur]]]
            /\ f \in {"trashed", "obliterated"}
  PROVE  Untaken' /\ Recorded' /\ Reported'
<1>1. /\ cur \in Op /\ Op = 1..N /\ N \in Nat /\ fate \in [Op -> Fates] /\ took \in [Op -> Held]
      /\ fate[cur] = "pending"
  BY SizeAssumption DEF ToldInv, ApprovalInv, PlanOrder, TypeInv, TypeOK, Op
<1>2. /\ fate' = [fate EXCEPT ![cur] = f] /\ report' = report
      /\ (pc' = "record" /\ cur' = 1) \/ pc' = "begin"
  BY DEF Settle
<1>3. Untaken'
  BY <1>1, <1>2 DEF ToldInv, Untaken
<1>4. Recorded'
  BY <1>1, <1>2 DEF Recorded
<1>5. report = "none"
  BY DEF ToldInv, Reported
<1>6. QED
  BY <1>2, <1>3, <1>4, <1>5 DEF Reported

(* The loop records the operation in hand and goes on, whether or not the  *)
(* append has failed.                                                      *)
LEMMA AppendTold ==
  ASSUME ToldInv, AppendHistory PROVE Untaken' /\ Recorded' /\ Reported'
<1>1. cur \in Op /\ Op = 1..N /\ N \in Nat
  BY SizeAssumption DEF ToldInv, ApprovalInv, TypeInv, TypeOK, Op
<1>2. /\ fate' = fate /\ took' = took /\ pc = "record" /\ verdict' = verdict
      /\ \/ cur = N /\ pc' = "done" /\ cur' = cur
            /\ report' = (IF scheduled THEN ScheduledStatus ELSE report)
         \/ cur # N /\ pc' = "record" /\ cur' = cur + 1 /\ report' = report
      /\ \/ log' = log \cup {Entry(cur)} /\ unlogged' = unlogged
         \/ unlogged' = unlogged \cup {cur} /\ log' = log
  BY DEF AppendHistory, ghost
<1>3. Untaken'
  BY <1>2 DEF ToldInv, Untaken
<1>4. ASSUME NEW i \in Op, i = cur PROVE Told(i)'
  <2>1. Entry(i).op = i /\ Entry(i).fate = fate[i]
    BY DEF Entry
  <2>2. QED
    BY <1>2, <1>4, <2>1 DEF Told
<1>5. ASSUME NEW i \in Op, Told(i) PROVE Told(i)'
  BY <1>2, <1>5 DEF Told
<1>6. \A i \in Op : i < cur => Told(i)
  BY <1>2 DEF ToldInv, Recorded
<1>7. \A i \in Op : i <= cur => Told(i)'
  <2> SUFFICES ASSUME NEW i \in Op, i <= cur PROVE Told(i)'
    OBVIOUS
  <2>1. i = cur \/ i < cur
    BY <1>1
  <2>2. QED
    BY <2>1, <1>4, <1>5, <1>6
<1>8. Recorded'
  <2>1. CASE cur = N
    BY <2>1, <1>1, <1>2, <1>7 DEF Recorded
  <2>2. CASE cur # N
    <3>1. \A i \in Op : i < cur + 1 => i <= cur
      BY <1>1
    <3>2. QED
      BY <2>2, <3>1, <1>2, <1>7 DEF Recorded
  <2>3. QED
    BY <2>1, <2>2
<1>9. Reported'
  <2>1. report = "none"
    BY <1>2 DEF ToldInv, Reported
  <2>2. ScheduledStatus' = ScheduledStatus
    BY <1>2 DEF ScheduledStatus, FailedOps, SkippedOps, DoneOps
  <2>3. QED
    BY <2>1, <2>2, <1>2 DEF Reported
<1>10. QED
  BY <1>3, <1>8, <1>9

LEMMA ToldNext == ToldInv /\ [Next]_vars => ToldInv'
<1> SUFFICES ASSUME ToldInv, [Next]_vars PROVE ToldInv'
  OBVIOUS
<1>0. /\ ApprovalInv' /\ {"skipped", "trashed", "obliterated", "failed"} \subseteq Fates
      /\ cur \in Op /\ took \in [Op -> Held]
  BY ApprovalNext DEF ToldInv, Fates, ApprovalInv, TypeInv, TypeOK
<1> SUFFICES Untaken' /\ Recorded' /\ Reported'
  BY <1>0 DEF ToldInv
(* Steps that change neither a fate nor what was taken, log and report.    *)
<1>a. ASSUME fate' = fate, took' = took, report' = report,
             pc \in {"gate", "open", "validate", "begin", "dest", "move"},
             pc' \in {"open", "validate", "begin", "dest", "move", "remove", "declined"}
      PROVE  Untaken' /\ Recorded' /\ Reported'
  BY <1>a DEF ToldInv, Untaken, Recorded, Reported
<1>b. ASSUME UNCHANGED <<pc, cur, fate, verdict, log, unlogged, report, took>>
      PROVE  Untaken' /\ Recorded' /\ Reported'
  <2>1. ScheduledStatus' = ScheduledStatus
    BY <1>b DEF ScheduledStatus, FailedOps, SkippedOps, DoneOps
  <2>2. Untaken' /\ Recorded'
    BY <1>b DEF ToldInv, Untaken, Recorded, Told
  <2>3. QED
    BY <1>b, <2>1, <2>2 DEF ToldInv, Reported
<1>1. CASE Approve \/ Decline
  BY <1>1, <1>a DEF Approve, Decline, ghost
<1>2. CASE Open
  <2>1. CASE report' = report
    BY <1>2, <2>1, <1>a DEF Open, ghost
  <2>2. CASE report' # report
    <3>1. /\ fate' = fate /\ took' = took /\ pc = "open" /\ pc' = "declined"
          /\ report' = "failed"
      BY <1>2, <2>2 DEF Open, ghost
    <3>2. \A i \in Op : fate'[i] = "pending"
      BY <3>1 DEF ToldInv, ApprovalInv, PlanOrder
    <3>3. QED
      BY <3>1, <3>2 DEF ToldInv, Untaken, Recorded, Reported
  <2>3. QED
    BY <2>1, <2>2
<1>3. CASE Validate
  BY <1>3, <1>a DEF Validate, ghost
<1>4. CASE SkipStale \/ RenameFails \/ RemoveVanished \/ RemoveNothing
  BY <1>4, <1>0, SettleTold DEF SkipStale, RenameFails, RemoveVanished, RemoveNothing
<1>5. CASE TrashStat
  <2>1. CASE fs[Target[cur]] = Nothing
    BY <1>5, <2>1, <1>0, SettleTold DEF TrashStat
  <2>2. CASE fs[Target[cur]] # Nothing
    BY <1>5, <2>2, <1>a DEF TrashStat, Continue, ghost
  <2>3. QED
    BY <2>1, <2>2
<1>6. CASE TrashDest
  BY <1>6, <1>a DEF TrashDest, Continue, ghost
<1>7. CASE ObliterateCheck
  <2>1. CASE Continue("remove")
    BY <1>7, <2>1, <1>a DEF ObliterateCheck, Continue, ghost
  <2>2. CASE ~Continue("remove")
    BY <1>7, <2>2, <1>0, SettleTold DEF ObliterateCheck
  <2>3. QED
    BY <2>1, <2>2
<1>8. CASE Rename \/ CopyFails \/ Unlink \/ UnlinkFails \/ RemoveAt
  <2>1. CASE Rename \/ RemoveAt
    BY <2>1, <1>0, SettleTold DEF Rename, RemoveAt
  <2>2. CASE CopyFails \/ Unlink \/ UnlinkFails
    BY <2>2, <1>0, SettleTold DEF CopyFails, Unlink, UnlinkFails
  <2>3. QED
    BY <1>8, <2>1, <2>2
<1>9. CASE Copy
  <2>1. /\ Target[cur] \in CrossVolume /\ pc = "move" /\ pc' = "unlink"
        /\ took' = [took EXCEPT ![cur] = fs[Target[cur]]]
        /\ fate' = fate /\ cur' = cur /\ report' = report
    BY <1>9 DEF Copy
  <2>2. QED
    BY <2>1, <1>0 DEF ToldInv, Untaken, Recorded, Reported
<1>10. CASE AppendHistory
  BY <1>10, AppendTold
<1>11. CASE Crash
  <2>1. /\ pc' = "crashed" /\ fate' = fate /\ took' = took /\ report' = report
        /\ pc \notin {"done", "declined"}
    BY <1>11 DEF Crash, Ended, ghost
  <2>2. QED
    BY <2>1 DEF ToldInv, Untaken, Recorded, Reported
<1>12. CASE Environment \/ UNCHANGED vars
  BY <1>12, <1>b
     DEF Environment, OtherChangesPath, OtherChangesTrash, vars, program, ghost
<1>13. QED
  BY <1>1, <1>2, <1>3, <1>4, <1>5, <1>6, <1>7, <1>8, <1>9, <1>10, <1>11, <1>12
     DEF Next, Process, Execute

LEMMA Telling == Spec => []ToldInv
BY ToldInit, ToldNext, PTL DEF Spec

(* A fate that says nothing was done is true of every target on the volume *)
(* of the Trash, for any plan and any interference (trash.Move falls back  *)
(* to copying only across volumes).                                        *)
THEOREM SkippedIsUntouched == Spec => []SkippedLeavesTarget
<1>1. ToldInv => SkippedLeavesTarget
  BY DEF ToldInv, Untaken, SkippedLeavesTarget
<1>2. QED
  BY <1>1, Telling, PTL

(* A batch of any length that ran to its end has told of everything it     *)
(* took, but for the operations whose own append failed.                   *)
THEOREM EndedBatchIsTold == Spec => []TakenIsRecorded
<1>1. ToldInv => TakenIsRecorded
  BY DEF ToldInv, Recorded, Told, TakenIsRecorded
<1>2. QED
  BY <1>1, Telling, PTL

(* The status of a scheduled run of any length is true of its fates, be it *)
(* reported at the end or because log or Trash could not be opened.        *)
THEOREM ReportIsHonest == Spec => []ScheduledReportHonest
<1>1. ASSUME ToldInv PROVE ScheduledReportHonest
  <2>1. 1 \in Op
    BY SizeAssumption DEF Op
  <2>2. CASE pc = "declined" /\ report = "failed" /\ \A i \in Op : fate[i] = "pending"
    BY <2>1, <2>2 DEF ScheduledReportHonest
  <2>3. CASE report = ScheduledStatus
    BY <2>3 DEF ScheduledReportHonest, ScheduledStatus, SkippedOps, FailedOps, DoneOps
  <2>4. CASE report = "none"
    BY <2>4 DEF ScheduledReportHonest
  <2>5. QED
    BY <1>1, <2>2, <2>3, <2>4 DEF ToldInv, Reported
<1>2. QED
  BY <1>1, Telling, PTL
=============================================================================
