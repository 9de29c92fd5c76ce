---------------------------- MODULE RestoreProofs ----------------------------
(***************************************************************************)
(* Proofs about Restore, for every set of files, paths and Trash names,    *)
(* and every number of deletions, restores and changes by others.          *)
(***************************************************************************)
EXTENDS Restore, SequenceTheorems, TLAPS

\* The number before a positive one.
LEMMA BeforeLast ==
  ASSUME NEW n \in Nat \ {0}
  PROVE  /\ n - 1 \in Int /\ 1 \in Int
         /\ 1 <= n - 1 => n - 1 - 1 + 1 = n - 1
         /\ ~(1 <= n - 1) => n - 1 = 0
         /\ \A i \in 1..(n - 1) : i \in 1..n
OBVIOUS

\* What Append makes of a log of records is a log of records.
LEMMA WrittenType ==
  ASSUME NEW line \in Record \cup {Malformed},
         log \in Seq(Record \cup {Malformed}), unended => log # <<>>,
         Len(log) < MaxRecords, MaxRecords \in Nat
  PROVE  /\ Written(line) \in Seq(Record \cup {Malformed})
         /\ Len(Written(line)) <= MaxRecords
         /\ Written(line) # <<>>
<1> DEFINE S == Record \cup {Malformed}
<1>1. CASE unended
  <2>1. Len(log) \in Nat \ {0}
    BY <1>1, LenProperties, EmptySeq
  <2>2. Front(log) \in Seq(S) /\ Len(Front(log)) = Len(log) - 1
    <3> DEFINE last == Len(log) - 1
    <3>1. last \in Int /\ 1 \in Int /\ (1 <= last => last - 1 + 1 = last)
          /\ (~(1 <= last) => last = 0) /\ \A i \in 1..last : i \in 1..Len(log)
      BY <2>1, BeforeLast
    <3>2. log \in Seq(S)
      OBVIOUS
    <3>3. \A i \in 1..last : log[i] \in S
      BY <3>1, <3>2, ElementOfSeq
    <3> HIDE DEF S, last
    <3>4. SubSeq(log, 1, last) \in Seq(S)
          /\ Len(SubSeq(log, 1, last)) = IF 1 <= last THEN last - 1 + 1 ELSE 0
      BY <3>1, <3>3, SubSeqProperties
    <3> QED
      BY <3>1, <3>4 DEF Front, last
  <2>3. <<Malformed>> \in Seq(S) /\ Len(<<Malformed>>) = 1
    OBVIOUS
  <2>4. Front(log) \o <<Malformed>> \in Seq(S) /\ Len(Front(log) \o <<Malformed>>) = Len(log)
    BY <2>1, <2>2, <2>3, ConcatProperties
  <2> QED
    BY <1>1, <2>1, <2>4, EmptySeq DEF Written
<1>2. CASE ~unended
  <2>1. Append(log, line) \in Seq(S) /\ Len(Append(log, line)) = Len(log) + 1
    BY AppendProperties
  <2>2. Len(log) \in Nat
    BY LenProperties
  <2> QED
    BY <1>2, <2>1, <2>2, EmptySeq DEF Written
<1> QED
  BY <1>1, <1>2

\* What is at the head of a queue of records, and what is left of the queue.
LEMMA QueueType ==
  ASSUME NEW s \in Seq(Record), s # <<>>
  PROVE  Head(s) \in Record /\ Tail(s) \in Seq(Record)
BY HeadTailProperties

-----------------------------------------------------------------------------
LEMMA ItemType ==
  ASSUME NEW p \in Path, NEW s \in Slot, NEW i \in Item, TypeOK,
         Len(log) < MaxRecords, p \in CrossVolume => Copied(i) \in Item
  PROVE  Trashed(p, i) \in Item /\ Line(p, s, i) \in Record
<1>1. Trashed(p, i) \in Item
  BY DEF Trashed
<1>2. Ident(i) \in [content : {Content[o] : o \in Object}, mtime : 0..MaxCopies]
  BY DEF Ident, Item
<1>3. Len(log) + 1 \in 1..MaxRecords
  BY LenProperties, BoundAssumption DEF TypeOK
<1> QED
  BY <1>1, <1>2, <1>3 DEF Line, Record

LEMMA DeleteType ==
  ASSUME TypeOK, NEW p \in Path, Delete(p)
  PROVE  TypeOK'
<1> DEFINE i == fs[<<p, 0>>]
<1>1. <<p, 0>> \in Spot
  BY BoundAssumption DEF Spot, Stamp
<1>2. i \in Item /\ i # Nothing
  BY <1>1 DEF Delete, TypeOK, Held
<1>3. PICK s \in Slot : /\ bin' = [bin EXCEPT ![s] = Trashed(p, i)]
                        /\ AppendRecord(Line(p, s, i))
  BY DEF Delete
<1>4. Trashed(p, i) \in Item /\ Line(p, s, i) \in Record
  BY <1>2, ItemType DEF Delete
<1>5. fs' \in [Spot -> Held] /\ bin' \in [Slot -> Held]
  BY <1>3, <1>4 DEF Delete, TypeOK, Held
<1>6. /\ log' \in Seq(Record \cup {Malformed}) /\ Len(log') <= MaxRecords
      /\ unended' \in BOOLEAN /\ (unended' => log' # <<>>)
  <2> DEFINE Good(l) == /\ l \in Seq(Record \cup {Malformed})
                        /\ Len(l) <= MaxRecords /\ l # <<>>
  <2>1. Good(Written(Line(p, s, i))) /\ Good(Written(Malformed))
    BY <1>4, WrittenType, BoundAssumption DEF Delete, TypeOK
  <2>2. CASE log' = Written(Line(p, s, i)) /\ unended' = FALSE
    BY <2>1, <2>2
  <2>3. CASE UNCHANGED <<log, unended>>
    BY <2>3 DEF TypeOK
  <2>4. CASE log' \in {Written(Line(p, s, i)), Written(Malformed)} /\ unended' = TRUE
    BY <2>1, <2>4
  <2> QED
    BY <1>3, <2>2, <2>3, <2>4 DEF AppendRecord
<1> QED
  BY <1>5, <1>6 DEF Delete, TypeOK, run, ghost

\* Going on to the next candidate, with the rest of the state well typed.
LEMMA NextCandidateType ==
  ASSUME TypeOK, queue # <<>>, NextCandidate
  PROVE  /\ queue' \in Seq(Record) /\ pc' = "check" /\ dest' = NoSpot
BY QueueType DEF NextCandidate, TypeOK

LEMMA RestoringType ==
  ASSUME TypeOK, Restoring
  PROVE  TypeOK'
<1> USE DEF world, run, ghost
<1>1. CASE Finish
  BY <1>1 DEF Finish, TypeOK, Running
<1>2. CASE Check
  <2>1. CASE Verifies(Head(queue)) /\ pc' = "dest" /\ UNCHANGED <<log, unended, world, queue, dest, ghost>>
    BY <1>2, <2>1 DEF Check, TypeOK, Running
  <2>2. CASE Skip /\ UNCHANGED disturbed
    BY <1>2, <2>2, NextCandidateType DEF Check, Skip, TypeOK, Running
  <2> QED
    BY <1>2, <2>1, <2>2 DEF Check
<1>3. CASE SystemError
  BY <1>3, NextCandidateType DEF SystemError, Skip, TypeOK, Running
<1>4. CASE ChooseDest
  <2> DEFINE p == Head(queue).orig
  <2>1. queue # <<>> /\ p \in Path
    BY <1>4, QueueType DEF ChooseDest, TypeOK, Running, Record
  <2>2. dest' \in Spot
    <3>1. <<p, 0>> \in Spot /\ \A k \in Stamp : <<p, k>> \in Spot
      BY <2>1, BoundAssumption DEF Spot, Stamp
    <3>2. CASE dest' = <<p, 0>>
      BY <3>1, <3>2
    <3>3. CASE \E k \in Stamp \ {0} : Stamps(p, k) /\ dest' = <<p, k>>
      BY <3>1, <3>3
    <3> QED
      BY <1>4, <3>2, <3>3 DEF ChooseDest
  <2>3. pc' = "move" /\ UNCHANGED <<log, unended, world, queue, ghost>>
    BY <1>4 DEF ChooseDest
  <2> QED
    BY <2>1, <2>2, <2>3 DEF TypeOK, Running
<1>5. CASE MoveBack
  <2> DEFINE e == Head(queue)
  <2>1. queue # <<>> /\ e \in Record /\ e.at \in Slot /\ dest \in Spot
    BY <1>5, QueueType DEF MoveBack, TypeOK, Running, Record
  <2>2. bin[e.at] \in Item
    BY <1>5, <2>1 DEF MoveBack, TypeOK, Held
  <2>3. fs' \in [Spot -> Held] /\ bin' \in [Slot -> Held]
    BY <1>5, <2>1, <2>2 DEF MoveBack, TypeOK, Held
  <2>4. placed' \subseteq [record : Record, item : Item, at : Spot]
    BY <1>5, <2>1, <2>2 DEF MoveBack, Place, TypeOK
  <2>5. lost' \subseteq Object
    BY <1>5 DEF MoveBack, Overwrite, TypeOK
  <2> QED
    BY <1>5, <2>1, <2>3, <2>4, <2>5, NextCandidateType DEF MoveBack, TypeOK, Running
<1>6. CASE CopyBack
  <2> DEFINE e == Head(queue)
  <2>1. queue # <<>> /\ e \in Record /\ e.at \in Slot /\ dest \in Spot
    BY <1>6, QueueType DEF CopyBack, TypeOK, Running, Record
  <2>2. bin[e.at] \in Item /\ Copied(bin[e.at]) \in Item
    BY <1>6, <2>1 DEF CopyBack, TypeOK, Held
  <2>3. fs' \in [Spot -> Held]
    BY <1>6, <2>1, <2>2 DEF CopyBack, TypeOK, Held
  <2>4. placed' \subseteq [record : Record, item : Item, at : Spot]
    BY <1>6, <2>1, <2>2 DEF CopyBack, Place, TypeOK
  <2>5. /\ pc' = "unlink"
        /\ UNCHANGED <<log, unended, bin, queue, dest, lost, intruders, others, disturbed>>
    BY <1>6 DEF CopyBack
  <2> QED
    BY <2>1, <2>3, <2>4, <2>5 DEF TypeOK, Running
<1>7. CASE CopyFails
  <2>1. queue # <<>> /\ dest \in Spot
    BY <1>7 DEF CopyFails, TypeOK, Running
  <2>2. fs' \in [Spot -> Held] /\ lost' \subseteq Object
    BY <1>7 DEF CopyFails, Overwrite, TypeOK, Held
  <2> QED
    BY <1>7, <2>1, <2>2, NextCandidateType DEF CopyFails, TypeOK, Running
<1>8. CASE Unlink
  <2>1. queue # <<>> /\ pc' = "check" /\ UNCHANGED <<log, unended, fs, placed, intruders, others>>
    BY <1>8 DEF Unlink, TypeOK, Running, NextCandidate
  <2>2. bin' \in [Slot -> Held] /\ lost' \subseteq Object /\ disturbed' \in BOOLEAN
    <3>1. CASE /\ bin' = [bin EXCEPT ![Head(queue).at] = Nothing]
               /\ lost' = lost \cup {o \in Object : /\ bin[Head(queue).at] # Nothing
                                                    /\ bin[Head(queue).at].file = o
                                                    /\ ~WasCopied(o)}
               /\ UNCHANGED disturbed
      BY <3>1 DEF TypeOK, Held
    <3>2. CASE UNCHANGED <<bin, lost>> /\ disturbed' = TRUE
      BY <3>2 DEF TypeOK
    <3> QED
      BY <1>8, <3>1, <3>2 DEF Unlink
  <2>3. queue' \in Seq(Record) /\ dest' = NoSpot
    BY <1>8, <2>1, NextCandidateType DEF Unlink
  <2> QED
    BY <2>1, <2>2, <2>3 DEF TypeOK, Running
<1>9. CASE MoveFails
  BY <1>9, NextCandidateType DEF MoveFails, Skip, TypeOK, Running
<1> QED
  BY <1>1, <1>2, <1>3, <1>4, <1>5, <1>6, <1>7, <1>8, <1>9 DEF Restoring

LEMMA InitType == ASSUME Init PROVE TypeOK
<1>1. fs \in [Spot -> Held]
  <2>1. \A o \in Object : [file |-> o, mtime |-> 0] \in Item
    BY BoundAssumption DEF Item
  <2> QED
    BY <2>1 DEF Init, Held
<1>2. bin \in [Slot -> Held] /\ 0 \in 0..MaxOthers
  BY BoundAssumption DEF Init, Held
<1>3. <<>> \in Seq(Record) /\ <<>> \in Seq(Record \cup {Malformed}) /\ Len(<<>>) <= MaxRecords
  BY BoundAssumption
<1> QED
  BY <1>1, <1>2, <1>3 DEF Init, TypeOK, Running

LEMMA NextType == ASSUME TypeOK, [Next]_vars PROVE TypeOK'
<1> USE DEF world, run, ghost
<1>1. CASE Restoring
  BY <1>1, RestoringType
<1>2. CASE ReadFails
  BY <1>2 DEF ReadFails, TypeOK, Running
<1>3. CASE ReadRecords
  <2>1. log \in Seq(Record) /\ log # <<>>
    <3>1. \A k \in 1..Len(log) : log[k] \in Record
      BY <1>3, ElementOfSeq DEF ReadRecords, TypeOK
    <3> QED
      BY <1>3, <3>1, SeqDef DEF ReadRecords, TypeOK
  <2>2. Reverse(log) \in Seq(Record)
    <3>1. Len(log) \in Nat
      BY LenProperties DEF TypeOK
    <3>2. \A k \in 1..Len(log) : Len(log) - k + 1 \in 1..Len(log)
      BY <3>1
    <3>3. \A k \in 1..Len(log) : log[Len(log) - k + 1] \in Record
      BY <2>1, <3>2, ElementOfSeq
    <3> QED
      BY <3>1, <3>3, SeqDef DEF Reverse
  <2> QED
    BY <1>3, <2>2 DEF ReadRecords, TypeOK, Running
<1>4. CASE Return
  <2>1. disturbed' \in BOOLEAN
    BY <1>4 DEF Return
  <2>0. others' \in 0..MaxOthers
    BY <1>4, BoundAssumption DEF Return, TypeOK
  <2>2. placed' = {} /\ lost' = {} /\ intruders' = {} /\ pc' = "idle"
    BY <1>4 DEF Return
  <2>3. UNCHANGED <<log, unended, fs, bin, queue, dest>>
    BY <1>4 DEF Return
  <2> QED
    BY <2>0, <2>1, <2>2, <2>3 DEF TypeOK, Running
<1>5. ASSUME NEW p \in Path, Delete(p) PROVE TypeOK'
  BY <1>5, DeleteType
<1>6. ASSUME NEW s \in Spot, OtherChangesSpot(s) PROVE TypeOK'
  <2>1. PICK i \in (NewItems \cup {Nothing}) \ {fs[s]} :
          /\ fs' = [fs EXCEPT ![s] = i]
          /\ intruders' = intruders \cup {o \in Object : s \in Target /\ i # Nothing /\ i.file = o}
    BY <1>6 DEF OtherChangesSpot
  <2>2. fs' \in [Spot -> Held] /\ intruders' \subseteq Object
    BY <2>1 DEF TypeOK, Held, NewItems
  <2>3. others' \in 0..MaxOthers /\ disturbed' \in BOOLEAN
    <3>1. CASE UNCHANGED <<others, disturbed>>
      BY <3>1 DEF TypeOK
    <3>2. CASE Disturbs
      BY <3>2, BoundAssumption DEF TypeOK, Disturbs
    <3> QED
      BY <1>6, <3>1, <3>2 DEF OtherChangesSpot
  <2> QED
    BY <1>6, <2>2, <2>3 DEF OtherChangesSpot, TypeOK
<1>7. ASSUME NEW s \in Slot, OtherChangesTrash(s) PROVE TypeOK'
  <2>1. PICK i \in (NewItems \cup {Nothing}) \ {bin[s]} :
          /\ bin' = [bin EXCEPT ![s] = i]
          /\ intruders' = intruders \cup {o \in Object : s \in Source /\ i # Nothing /\ i.file = o}
    BY <1>7 DEF OtherChangesTrash
  <2>2. bin' \in [Slot -> Held] /\ intruders' \subseteq Object
    BY <2>1 DEF TypeOK, Held, NewItems
  <2>3. others' \in 0..MaxOthers /\ disturbed' \in BOOLEAN
    BY <1>7, BoundAssumption DEF OtherChangesTrash, Disturbs, TypeOK
  <2> QED
    BY <1>7, <2>2, <2>3 DEF OtherChangesTrash, TypeOK
<1>8. CASE UNCHANGED vars
  BY <1>8 DEF vars, TypeOK
<1> QED
  BY <1>1, <1>2, <1>3, <1>4, <1>5, <1>6, <1>7, <1>8 DEF Next

(* Every reachable state is well typed: no candidate is handled when none  *)
(* is left, and every line that can be read is a record.                   *)
THEOREM TypeCorrect == Spec => []TypeOK
BY InitType, NextType, PTL DEF Spec

-----------------------------------------------------------------------------
(* The strengthening: what a restore has verified, found free or copied    *)
(* stays so until it acts on it, unless an intruder came in between.  Only *)
(* a name that alongside makes twice may hold what the restore itself has  *)
(* put there.                                                              *)
InTrash == bin[Head(queue).at]

SourceVerified ==
  pc \in {"dest", "move"} =>
    InTrash = Nothing \/ Ident(InTrash) = Head(queue).ident \/ InTrash.file \in intruders

DestinationFree == pc = "move" => fs[dest] = Nothing \/ fs[dest].file \in Expendable

SourceCopied ==
  pc = "unlink" => InTrash = Nothing \/ WasCopied(InTrash.file) \/ InTrash.file \in intruders

\* What is at a name made before in this second.
NamesHeld ==
  SameSecond => \A s \in Spot :
    s[2] > 0 /\ fs[s] # Nothing /\ (\E r \in placed : r.at = s) => fs[s].file \in Expendable

Safe == /\ SourceVerified /\ DestinationFree /\ SourceCopied /\ NamesHeld
        /\ DestroysOnlyExpendable /\ RestoredIsVerified

LEMMA InitSafe == ASSUME Init PROVE Safe
BY DEF Init, Safe, SourceVerified, DestinationFree, SourceCopied, NamesHeld, DestroysOnlyExpendable,
       RestoredIsVerified

\* As long as the restore runs nothing becomes precious.
LEMMA MoreExpendable ==
  ASSUME placed \subseteq placed', intruders \subseteq intruders'
  PROVE  Expendable \subseteq Expendable'
BY DEF Expendable, Alongside

\* Between candidates the first three parts say nothing.
LEMMA BetweenSafe ==
  ASSUME Safe, pc' = "check", UNCHANGED <<fs, placed, lost, intruders>>
  PROVE  Safe'
BY DEF Safe, SourceVerified, DestinationFree, SourceCopied, NamesHeld, DestroysOnlyExpendable, Expendable,
       Alongside, RestoredIsVerified

\* One spot changes, and if it is a name alongside, to what may be destroyed.
LEMMA NamesStay ==
  ASSUME TypeOK, NamesHeld, placed \subseteq placed', intruders \subseteq intruders',
         NEW s \in Spot, NEW v, fs' = [fs EXCEPT ![s] = v],
         \A r \in placed' : r \in placed \/ r.at = s,
         SameSecond /\ s[2] > 0 => v = Nothing \/ v.file \in Expendable'
  PROVE  NamesHeld'
<1> SUFFICES ASSUME SameSecond, NEW t \in Spot, t[2] > 0, fs'[t] # Nothing,
                    NEW r \in placed', r.at = t
             PROVE  fs'[t].file \in Expendable'
  BY DEF NamesHeld
<1>1. CASE t = s
  BY <1>1 DEF TypeOK
<1>2. CASE t # s
  BY <1>2, MoreExpendable DEF TypeOK, NamesHeld
<1> QED
  BY <1>1, <1>2

LEMMA RestoringSafe ==
  ASSUME TypeOK, Safe, Restoring
  PROVE  Safe'
<1> USE DEF world, run, ghost, Safe
<1>1. CASE Finish
  BY <1>1 DEF Finish, SourceVerified, DestinationFree, SourceCopied, NamesHeld, DestroysOnlyExpendable,
              Expendable, Alongside, RestoredIsVerified
<1>2. CASE Check
  <2>1. CASE Verifies(Head(queue)) /\ pc' = "dest" /\ UNCHANGED <<log, unended, world, queue, dest, ghost>>
    <3>1. SourceVerified'
      BY <2>1 DEF SourceVerified, InTrash, Verifies, Ident
    <3>2. DestinationFree' /\ SourceCopied'
      BY <2>1 DEF DestinationFree, SourceCopied
    <3>3. NamesHeld' /\ DestroysOnlyExpendable' /\ RestoredIsVerified'
      BY <2>1 DEF NamesHeld, DestroysOnlyExpendable, Expendable, Alongside, RestoredIsVerified
    <3> QED
      BY <3>1, <3>2, <3>3
  <2>2. CASE Skip
    BY <2>2, BetweenSafe DEF Skip, NextCandidate
  <2> QED
    BY <1>2, <2>1, <2>2 DEF Check
<1>3. CASE SystemError
  BY <1>3, BetweenSafe DEF SystemError, Skip, NextCandidate
<1>4. CASE ChooseDest
  <2>1. fs[dest'] = Nothing \/ fs[dest'].file \in Expendable
    <3> DEFINE p == Head(queue).orig
    <3>1. CASE fs[<<p, 0>>] = Nothing /\ dest' = <<p, 0>>
      BY <3>1
    <3>2. ASSUME NEW k \in Stamp \ {0}, Stamps(p, k), dest' = <<p, k>>
          PROVE  fs[dest'] = Nothing \/ fs[dest'].file \in Expendable
      <4>1. p \in Path /\ k > 0
        <5>1. queue \in Seq(Record) /\ queue # <<>>
          BY <1>4 DEF ChooseDest, TypeOK, Running
        <5>2. p \in Path
          BY <5>1, QueueType DEF Record
        <5>3. k > 0
          BY BoundAssumption DEF Stamp
        <5> QED
          BY <5>2, <5>3
      <4> QED
        BY <3>2, <4>1 DEF Stamps, NamesHeld, Spot
    <3> QED
      BY <1>4, <3>1, <3>2 DEF ChooseDest
  <2>2. pc = "dest" /\ pc' = "move" /\ UNCHANGED <<log, unended, world, queue, ghost>>
    BY <1>4 DEF ChooseDest
  <2>3. SourceVerified'
    BY <2>2 DEF SourceVerified, InTrash, Ident
  <2>4. DestinationFree' /\ SourceCopied'
    BY <2>1, <2>2 DEF DestinationFree, SourceCopied, Expendable, Alongside
  <2>5. NamesHeld' /\ DestroysOnlyExpendable' /\ RestoredIsVerified'
    BY <2>2 DEF NamesHeld, DestroysOnlyExpendable, Expendable, Alongside, RestoredIsVerified
  <2> QED
    BY <2>3, <2>4, <2>5
<1>5. CASE MoveBack
  <2> DEFINE i == InTrash
             r == [record |-> Head(queue), item |-> i, at |-> dest]
  <2>1. /\ pc = "move" /\ pc' = "check" /\ UNCHANGED intruders
        /\ fs' = [fs EXCEPT ![dest] = i] /\ placed' = placed \cup {r}
        /\ lost' = lost \cup {o \in Object : fs[dest] # Nothing /\ fs[dest].file = o /\ ~InBin(o)}
    BY <1>5 DEF MoveBack, NextCandidate, Place, Overwrite, InTrash
  <2>2. DestroysOnlyExpendable'
    BY <2>1, MoreExpendable DEF DestinationFree, DestroysOnlyExpendable
  <2>3. RestoredIsVerified'
    <3>1. Ident(i) = Head(queue).ident \/ i.file \in intruders
      BY <1>5 DEF MoveBack, SourceVerified, InTrash
    <3> QED
      BY <2>1, <3>1 DEF RestoredIsVerified
  <2>4. NamesHeld'
    <3>1. dest \in Spot /\ i \in Item
      BY <1>5, QueueType DEF MoveBack, TypeOK, Running, Held, Record, InTrash
    <3>2. SameSecond /\ dest[2] > 0 => i.file \in Expendable'
      <4>1. r \in placed' /\ r.at = dest /\ r.item = i
        BY <2>1
      <4>2. i.file \in Object
        BY <3>1 DEF Item
      <4> QED
        BY <4>1, <4>2 DEF Expendable, Alongside
    <3>3. /\ placed \subseteq placed' /\ intruders \subseteq intruders'
          /\ \A q \in placed' : q \in placed \/ q.at = dest
      BY <2>1
    <3> HIDE DEF i, r
    <3> QED
      BY <2>1, <3>1, <3>2, <3>3, NamesStay
  <2> QED
    BY <2>1, <2>2, <2>3, <2>4 DEF SourceVerified, DestinationFree, SourceCopied
<1>6. CASE CopyBack
  <2> DEFINE i == InTrash
             r == [record |-> Head(queue), item |-> i, at |-> dest]
  <2>1. /\ pc = "move" /\ pc' = "unlink" /\ UNCHANGED <<bin, queue, lost, intruders>>
        /\ fs' = [fs EXCEPT ![dest] = Copied(i)] /\ placed' = placed \cup {r}
    BY <1>6 DEF CopyBack, Place, InTrash
  <2>2. RestoredIsVerified'
    <3>1. Ident(i) = Head(queue).ident \/ i.file \in intruders
      BY <1>6 DEF CopyBack, SourceVerified, InTrash
    <3> QED
      BY <2>1, <3>1 DEF RestoredIsVerified
  <2>3. SourceCopied'
    <3>1. r \in placed' /\ r.record = Head(queue) /\ r.item = i
      BY <2>1
    <3> QED
      BY <2>1, <3>1 DEF SourceCopied, WasCopied, InTrash
  <2>4. NamesHeld'
    <3>1. dest \in Spot /\ i \in Item
      BY <1>6, QueueType DEF CopyBack, TypeOK, Running, Held, Record, InTrash
    <3>2. SameSecond /\ dest[2] > 0 => Copied(i).file \in Expendable'
      <4>1. r \in placed' /\ r.at = dest /\ r.item = i
        BY <2>1
      <4>2. i.file \in Object /\ Copied(i).file = i.file
        BY <3>1 DEF Item, Copied
      <4> QED
        BY <4>1, <4>2 DEF Expendable, Alongside
    <3>3. /\ placed \subseteq placed' /\ intruders \subseteq intruders'
          /\ \A q \in placed' : q \in placed \/ q.at = dest
      BY <2>1
    <3> HIDE DEF i, r
    <3> QED
      BY <2>1, <3>1, <3>2, <3>3, NamesStay
  <2>5. DestroysOnlyExpendable'
    BY <2>1, MoreExpendable DEF DestroysOnlyExpendable
  <2> QED
    BY <2>1, <2>2, <2>3, <2>4, <2>5 DEF SourceVerified, DestinationFree
<1>7. CASE CopyFails
  <2>1. /\ pc = "move" /\ pc' = "check" /\ UNCHANGED <<placed, intruders>>
        /\ fs' = [fs EXCEPT ![dest] = Nothing]
        /\ lost' = lost \cup {o \in Object : fs[dest] # Nothing /\ fs[dest].file = o /\ ~InBin(o)}
    BY <1>7 DEF CopyFails, NextCandidate, Overwrite
  <2>2. DestroysOnlyExpendable'
    BY <2>1, MoreExpendable DEF DestinationFree, DestroysOnlyExpendable
  <2>3. NamesHeld'
    BY <2>1, NamesStay DEF TypeOK
  <2> QED
    BY <2>1, <2>2, <2>3 DEF SourceVerified, DestinationFree, SourceCopied, RestoredIsVerified
<1>8. CASE Unlink
  <2>1. pc = "unlink" /\ pc' = "check" /\ UNCHANGED <<fs, placed, intruders>>
    BY <1>8 DEF Unlink, NextCandidate
  <2>2. lost' \subseteq lost \cup {o \in Object : InTrash # Nothing /\ InTrash.file = o /\ ~WasCopied(o)}
    BY <1>8 DEF Unlink, InTrash
  <2>3. DestroysOnlyExpendable'
    BY <2>1, <2>2, MoreExpendable DEF SourceCopied, DestroysOnlyExpendable, Expendable
  <2> QED
    BY <2>1, <2>3 DEF SourceVerified, DestinationFree, SourceCopied, NamesHeld, Expendable, Alongside,
                      RestoredIsVerified
<1>9. CASE MoveFails
  BY <1>9, BetweenSafe DEF MoveFails, Skip, NextCandidate
<1> QED
  BY <1>1, <1>2, <1>3, <1>4, <1>5, <1>6, <1>7, <1>8, <1>9 DEF Restoring

LEMMA NextSafe ==
  ASSUME TypeOK, Safe, [Next]_vars
  PROVE  Safe'
<1> USE DEF world, run, ghost, Safe
<1>1. CASE Restoring
  BY <1>1, RestoringSafe
<1>2. CASE ReadFails
  BY <1>2 DEF ReadFails, SourceVerified, DestinationFree, SourceCopied, NamesHeld, DestroysOnlyExpendable,
              Expendable, Alongside, RestoredIsVerified
<1>3. CASE ReadRecords
  BY <1>3, BetweenSafe DEF ReadRecords
<1>4. CASE Return
  BY <1>4 DEF Return, SourceVerified, DestinationFree, SourceCopied, NamesHeld, DestroysOnlyExpendable,
              RestoredIsVerified
<1>5. ASSUME NEW p \in Path, Delete(p) PROVE Safe'
  <2>1. pc = "idle" /\ UNCHANGED <<pc, placed, lost, intruders>> /\ fs' = [fs EXCEPT ![<<p, 0>>] = Nothing]
    BY <1>5 DEF Delete
  <2>2. NamesHeld'
    <3>1. <<p, 0>> \in Spot
      BY BoundAssumption DEF Spot, Stamp
    <3> QED
      BY <2>1, <3>1, NamesStay
  <2> QED
    BY <2>1, <2>2, MoreExpendable DEF SourceVerified, DestinationFree, SourceCopied, DestroysOnlyExpendable,
                                      RestoredIsVerified
<1>6. ASSUME NEW s \in Spot, OtherChangesSpot(s) PROVE Safe'
  <2>1. PICK i \in (NewItems \cup {Nothing}) \ {fs[s]} :
          /\ fs' = [fs EXCEPT ![s] = i]
          /\ intruders' = intruders \cup {o \in Object : s \in Target /\ i # Nothing /\ i.file = o}
    BY <1>6 DEF OtherChangesSpot
  <2>2. UNCHANGED <<bin, pc, queue, dest, placed, lost>> /\ intruders \subseteq intruders'
    BY <1>6, <2>1 DEF OtherChangesSpot
  <2>3. SourceVerified' /\ SourceCopied' /\ RestoredIsVerified'
    BY <2>2 DEF SourceVerified, SourceCopied, InTrash, WasCopied, RestoredIsVerified, Ident
  <2>4. DestroysOnlyExpendable'
    BY <2>2, MoreExpendable DEF DestroysOnlyExpendable
  <2>5. i # Nothing => i.file \in Object
    BY DEF NewItems, Item
  <2>6. DestinationFree'
    <3> SUFFICES ASSUME pc = "move" PROVE fs'[dest] = Nothing \/ fs'[dest].file \in Expendable'
      BY <2>2 DEF DestinationFree
    <3>1. CASE s = dest
      <4>1. fs'[dest] = i
        BY <2>1, <3>1 DEF TypeOK
      <4> QED
        BY <2>1, <2>5, <3>1, <4>1 DEF Target, Expendable
    <3>2. CASE s # dest
      BY <2>1, <2>2, <3>2, MoreExpendable DEF TypeOK, DestinationFree
    <3> QED
      BY <3>1, <3>2
  <2>7. NamesHeld'
    <3>1. s[2] > 0 => s \in Target
      BY <1>6, BoundAssumption DEF OtherChangesSpot, Spot, Stamp
    <3>2. s[2] > 0 => i = Nothing \/ i.file \in Expendable'
      BY <2>1, <2>5, <3>1 DEF Expendable
    <3> QED
      BY <2>1, <2>2, <3>2, NamesStay
  <2> QED
    BY <2>3, <2>4, <2>6, <2>7
<1>7. ASSUME NEW s \in Slot, OtherChangesTrash(s) PROVE Safe'
  <2>1. PICK i \in (NewItems \cup {Nothing}) \ {bin[s]} :
          /\ bin' = [bin EXCEPT ![s] = i]
          /\ intruders' = intruders \cup {o \in Object : s \in Source /\ i # Nothing /\ i.file = o}
    BY <1>7 DEF OtherChangesTrash
  <2>2. UNCHANGED <<fs, pc, queue, dest, placed, lost>> /\ intruders \subseteq intruders'
    BY <1>7, <2>1 DEF OtherChangesTrash
  <2>3. DestinationFree' /\ NamesHeld' /\ DestroysOnlyExpendable' /\ RestoredIsVerified'
    BY <2>2, MoreExpendable DEF DestinationFree, NamesHeld, DestroysOnlyExpendable, RestoredIsVerified, Ident
  <2>4. SourceVerified' /\ SourceCopied'
    <3>1. CASE pc \in {"dest", "move", "unlink"} /\ s = Head(queue).at
      <4>1. InTrash' = i
        BY <2>1, <2>2, <3>1 DEF TypeOK, InTrash
      <4>2. i # Nothing => i.file \in intruders'
        BY <2>1, <3>1 DEF NewItems, Item, Source
      <4> QED
        BY <4>1, <4>2 DEF SourceVerified, SourceCopied
    <3>2. CASE s # Head(queue).at
      <4>1. InTrash' = InTrash
        BY <2>1, <2>2, <3>2 DEF TypeOK, InTrash
      <4> QED
        BY <2>2, <4>1 DEF SourceVerified, SourceCopied, WasCopied, Ident
    <3>3. CASE pc \notin {"dest", "move", "unlink"}
      BY <2>2, <3>3 DEF SourceVerified, SourceCopied
    <3> QED
      BY <3>1, <3>2, <3>3
  <2> QED
    BY <2>3, <2>4
<1>8. CASE UNCHANGED vars
  BY <1>8 DEF vars, SourceVerified, DestinationFree, SourceCopied, NamesHeld, DestroysOnlyExpendable,
              Expendable, Alongside, RestoredIsVerified, InTrash, WasCopied, Ident
<1> QED
  BY <1>1, <1>2, <1>3, <1>4, <1>5, <1>6, <1>7, <1>8 DEF Next

LEMMA AlwaysSafe == Spec => [](TypeOK /\ Safe)
<1>1. Init => TypeOK /\ Safe
  BY InitType, InitSafe
<1>2. TypeOK /\ Safe /\ [Next]_vars => (TypeOK /\ Safe)'
  BY NextType, NextSafe
<1> QED
  BY <1>1, <1>2, PTL DEF Spec

(* Whatever other programs do and however many records are restored, a     *)
(* restore destroys nothing but what they put in its way after it had      *)
(* looked and, where alongside makes a name twice, what it has itself put  *)
(* under such a name: never what occupied a path before it began, and      *)
(* never what got its own path back.                                       *)
THEOREM AtWorstItsOwn == Spec => []DestroysOnlyExpendable
BY AlwaysSafe, PTL DEF Safe

(* What is restored has the content that its record describes, unless it   *)
(* was exchanged after the check.                                          *)
THEOREM OnlyVerifiedIsRestored == Spec => []RestoredIsVerified
BY AlwaysSafe, PTL DEF Safe

-----------------------------------------------------------------------------
(* The order of a restore: a record is numbered by its line, the queue     *)
(* holds the lines from the last one down, and what has been put back      *)
(* belongs to later lines than what is still to do.                        *)

\* What the record of a deletion says is what its item will be known by in the
\* Trash, except of a large file that was copied there.
Restorable(e) == e.item.file \in Hashed \/ e.orig \notin CrossVolume

LogTrue ==
  \A k \in 1..Len(log) : log[k] # Malformed =>
    log[k].n = k /\ (Restorable(log[k]) => Ident(log[k].item) = log[k].ident)

QueueTrue ==
  pc \in Running => \A k \in 1..Len(queue) :
    Restorable(queue[k]) => Ident(queue[k].item) = queue[k].ident

Readable == pc \in Running \cup {"done"} => \A k \in 1..Len(log) : log[k] # Malformed

Descending == pc \in Running => \A j, k \in 1..Len(queue) : j < k => queue[j].n > queue[k].n

PlacedFirst ==
  pc \in Running => \A r \in placed : \A k \in 1..Len(queue) :
    r.record.n > queue[k].n \/ (pc = "unlink" /\ k = 1)

AllHandled == pc = "done" => queue = <<>>

NonePlaced == pc \in {"idle", "unreadable"} => placed = {}

Ordered == LogTrue /\ QueueTrue /\ Readable /\ Descending /\ PlacedFirst /\ AllHandled /\ NonePlaced

\* The lines of the log after Append: an unended one is spoilt, the others stay.
LEMMA WrittenOut ==
  ASSUME NEW line \in Record \cup {Malformed}, log \in Seq(Record \cup {Malformed}),
         unended => log # <<>>
  PROVE  /\ Len(log) \in Nat /\ Written(line) \in Seq(Record \cup {Malformed})
         /\ unended => /\ Len(Written(line)) = Len(log) /\ Written(line)[Len(log)] = Malformed
                       /\ \A i \in 1..(Len(log) - 1) : Written(line)[i] = log[i]
         /\ ~unended => /\ Len(Written(line)) = Len(log) + 1 /\ Written(line)[Len(log) + 1] = line
                        /\ \A i \in 1..Len(log) : Written(line)[i] = log[i]
<1> DEFINE S == Record \cup {Malformed}
<1>0. Len(log) \in Nat /\ \A j \in 1..Len(log) : log[j] \in S
  BY LenProperties, ElementOfSeq
<1>1. CASE unended
  <2> DEFINE last == Len(log) - 1
  <2>1. Len(log) \in Nat \ {0}
    BY <1>0, <1>1, EmptySeq
  <2>2. last \in Int /\ 1 \in Int /\ (1 <= last => last - 1 + 1 = last)
        /\ (~(1 <= last) => last = 0) /\ \A i \in 1..last : i \in 1..Len(log)
    BY <2>1, BeforeLast
  <2>3. \A i \in 1..last : log[i] \in S /\ 1 + i - 1 = i
    BY <1>0, <2>2
  <2>4. last \in Nat /\ last + 1 = Len(log)
    BY <2>1
  <2> HIDE DEF S, last
  <2>5. /\ SubSeq(log, 1, last) \in Seq(S)
        /\ Len(SubSeq(log, 1, last)) = IF 1 <= last THEN last - 1 + 1 ELSE 0
        /\ \A i \in 1..(last - 1 + 1) : SubSeq(log, 1, last)[i] = log[1 + i - 1]
    BY <2>2, <2>3, SubSeqProperties
  <2>6. Front(log) = SubSeq(log, 1, last)
    BY DEF Front, last
  <2>7. Len(Front(log)) = last /\ Front(log) \in Seq(S)
        /\ \A i \in 1..last : Front(log)[i] = log[i]
    BY <2>2, <2>3, <2>5, <2>6
  <2>8. <<Malformed>> \in Seq(S) /\ Len(<<Malformed>>) = 1 /\ <<Malformed>>[1] = Malformed
    BY DEF S
  <2>9. Written(line) = Front(log) \o <<Malformed>>
    BY <1>1 DEF Written
  <2>10. /\ Len(Written(line)) = last + 1 /\ Written(line) \in Seq(S)
         /\ \A i \in 1..(last + 1) :
              Written(line)[i] = IF i <= last THEN Front(log)[i] ELSE <<Malformed>>[i - last]
    BY <2>7, <2>8, <2>9, ConcatProperties
  <2>11. last + 1 \in 1..(last + 1) /\ ~(last + 1 <= last) /\ last + 1 - last = 1
    BY <2>4
  <2>12. \A i \in 1..last : i \in 1..(last + 1) /\ i <= last
    BY <2>4
  <2>13. Written(line)[Len(log)] = Malformed
    BY <2>4, <2>8, <2>10, <2>11
  <2>14. \A i \in 1..last : Written(line)[i] = log[i]
    BY <2>7, <2>10, <2>12
  <2> QED
    BY <1>0, <1>1, <2>4, <2>10, <2>13, <2>14 DEF last, S
<1>2. CASE ~unended
  BY <1>0, <1>2, AppendProperties DEF Written
<1> QED
  BY <1>1, <1>2

\* The same for each line.
LEMMA WrittenLines ==
  ASSUME NEW line \in Record \cup {Malformed}, log \in Seq(Record \cup {Malformed}),
         unended => log # <<>>, NEW k \in 1..Len(Written(line))
  PROVE  \/ k \in 1..Len(log) /\ Written(line)[k] = log[k]
         \/ Written(line)[k] = Malformed
         \/ k = Len(log) + 1 /\ Written(line)[k] = line
BY WrittenOut

\* The queue without its head.
LEMMA Behind ==
  ASSUME NEW s \in Seq(Record), s # <<>>
  PROVE  /\ Len(s) \in Nat \ {0} /\ 1 \in 1..Len(s) /\ Head(s) = s[1]
         /\ Len(Tail(s)) = Len(s) - 1
         /\ \A k \in 1..Len(Tail(s)) : k + 1 \in 1..Len(s) /\ Tail(s)[k] = s[k + 1]
<1>1. Len(s) \in Nat \ {0} /\ Head(s) = s[1]
  BY EmptySeq, LenProperties, HeadTailProperties
<1>2. Len(Tail(s)) = Len(s) - 1 /\ \A k \in 1..Len(Tail(s)) : Tail(s)[k] = s[k + 1]
  BY HeadTailProperties
<1> QED
  BY <1>1, <1>2

\* The last lines come first.
LEMMA Backwards ==
  ASSUME NEW s \in Seq(Record)
  PROVE  /\ Len(Reverse(s)) = Len(s) /\ Len(s) \in Nat
         /\ \A k \in 1..Len(s) : /\ Len(s) - k + 1 \in 1..Len(s)
                                 /\ Reverse(s)[k] = s[Len(s) - k + 1]
                                 /\ Reverse(s)[Len(s) - k + 1] = s[k]
<1>1. Len(s) \in Nat
  BY LenProperties
<1>2. Reverse(s) = [k \in 1..Len(s) |-> s[Len(s) - k + 1]]
  BY DEF Reverse
<1>3. \A k \in 1..Len(s) : /\ Len(s) - k + 1 \in 1..Len(s)
                           /\ Len(s) - (Len(s) - k + 1) + 1 = k
  BY <1>1
<1>4. \A k \in 1..Len(s) : s[Len(s) - k + 1] \in Record
  BY <1>3, ElementOfSeq
<1>5. Len(Reverse(s)) = Len(s)
  <2>1. DOMAIN Reverse(s) = 1..Len(s) /\ Reverse(s) \in Seq(Record)
    BY <1>1, <1>2, <1>4, SeqDef
  <2> QED
    BY <1>1, <2>1, LenProperties
<1> QED
  BY <1>1, <1>2, <1>3, <1>5

\* From one candidate to the next the order is kept.
LEMMA AdvanceOrdered ==
  ASSUME TypeOK, Ordered, pc \in Running, queue # <<>>, NextCandidate, UNCHANGED log,
         \A r \in placed' : r \in placed \/ r.record = Head(queue)
  PROVE  Ordered'
<1>0. /\ pc' = "check" /\ queue' = Tail(queue) /\ queue \in Seq(Record)
  BY DEF NextCandidate, TypeOK
<1>1. /\ Len(queue) \in Nat \ {0} /\ 1 \in 1..Len(queue) /\ Head(queue) = queue[1]
      /\ Len(queue') = Len(queue) - 1
      /\ \A k \in 1..Len(queue') : k + 1 \in 1..Len(queue) /\ queue'[k] = queue[k + 1]
  BY <1>0, Behind
<1>2. LogTrue' /\ Readable' /\ AllHandled' /\ NonePlaced'
  BY <1>0 DEF Ordered, LogTrue, Readable, AllHandled, NonePlaced, Restorable, Ident
<1>3. Descending'
  <2> SUFFICES ASSUME NEW j \in 1..Len(queue'), NEW k \in 1..Len(queue'), j < k
               PROVE  queue'[j].n > queue'[k].n
    BY DEF Descending
  <2>1. j + 1 < k + 1
    BY <1>1
  <2> QED
    BY <1>1, <2>1 DEF Ordered, Descending
<1>4. PlacedFirst'
  <2> SUFFICES ASSUME NEW r \in placed', NEW k \in 1..Len(queue')
               PROVE  r.record.n > queue'[k].n
    BY DEF PlacedFirst
  <2>1. k + 1 # 1 /\ 1 < k + 1
    BY <1>1
  <2>2. CASE r \in placed
    BY <1>1, <2>1, <2>2 DEF Ordered, PlacedFirst
  <2>3. CASE r.record = Head(queue)
    BY <1>1, <2>1, <2>3 DEF Ordered, Descending
  <2> QED
    BY <2>2, <2>3
<1>5. QueueTrue'
  BY <1>0, <1>1 DEF Ordered, QueueTrue, Running, Restorable, Ident
<1> QED
  BY <1>2, <1>3, <1>4, <1>5 DEF Ordered

\* While one is handled the order is kept as well.
LEMMA StayOrdered ==
  ASSUME TypeOK, Ordered, pc \in Running, pc' \in Running, pc # "unlink",
         UNCHANGED <<log, queue>>,
         \A r \in placed' : r \in placed \/ (r.record = Head(queue) /\ pc' = "unlink" /\ queue # <<>>)
  PROVE  Ordered'
<1>1. LogTrue' /\ QueueTrue' /\ Readable' /\ Descending' /\ AllHandled' /\ NonePlaced'
  BY DEF Ordered, LogTrue, QueueTrue, Readable, Descending, AllHandled, NonePlaced, Restorable, Ident, Running
<1>2. PlacedFirst'
  <2> SUFFICES ASSUME NEW r \in placed', NEW k \in 1..Len(queue)
               PROVE  r.record.n > queue[k].n \/ (pc' = "unlink" /\ k = 1)
    BY DEF PlacedFirst
  <2>1. CASE r \in placed
    BY <2>1 DEF Ordered, PlacedFirst
  <2>2. CASE r.record = Head(queue) /\ pc' = "unlink" /\ queue # <<>>
    <3>1. Head(queue) = queue[1] /\ 1 \in 1..Len(queue) /\ Len(queue) \in Nat
      BY <2>2, Behind DEF TypeOK
    <3>2. k = 1 \/ 1 < k
      OBVIOUS
    <3> QED
      BY <2>2, <3>1, <3>2 DEF Ordered, Descending
  <2> QED
    BY <2>1, <2>2
<1> QED
  BY <1>1, <1>2 DEF Ordered

LEMMA DeleteOrdered ==
  ASSUME TypeOK, Ordered, NEW p \in Path, Delete(p)
  PROVE  Ordered'
<1> DEFINE i == fs[<<p, 0>>]
<1>0. /\ pc = "idle" /\ pc' = "idle" /\ placed' = placed
      /\ i # Nothing /\ (p \in CrossVolume => Copied(i) \in Item)
      /\ Len(log) < MaxRecords
  BY DEF Delete, run, ghost
<1>1. PICK s \in Slot : AppendRecord(Line(p, s, i))
  BY DEF Delete
<1> DEFINE line == Line(p, s, i)
<1>2. i \in Item
  <2>1. <<p, 0>> \in Spot
    BY BoundAssumption DEF Spot, Stamp
  <2> QED
    BY <1>0, <2>1 DEF TypeOK, Held
<1>3. line \in Record /\ line # Malformed
  BY <1>0, <1>2, ItemType, ObjectAssumption
<1>4. line.n = Len(log) + 1 /\ (Restorable(line) => Ident(line.item) = line.ident)
  BY DEF Restorable, Line, Trashed, Copied
<1> HIDE DEF i, line
<1>5. ASSUME NEW l \in {line, Malformed}, log' = Written(l) PROVE LogTrue'
  <2> SUFFICES ASSUME NEW k \in 1..Len(log'), log'[k] # Malformed
               PROVE  /\ log'[k].n = k
                      /\ Restorable(log'[k]) => Ident(log'[k].item) = log'[k].ident
    BY DEF LogTrue, Restorable, Ident
  <2>1. \/ k \in 1..Len(log) /\ log'[k] = log[k]
        \/ k = Len(log) + 1 /\ log'[k] = line
    BY <1>3, <1>5, WrittenLines DEF TypeOK
  <2> QED
    BY <1>4, <2>1 DEF Ordered, LogTrue
<1>6. ASSUME UNCHANGED log PROVE LogTrue'
  BY <1>6 DEF Ordered, LogTrue, Restorable, Ident
<1>7. LogTrue'
  <2>1. (\E l \in {line, Malformed} : log' = Written(l)) \/ log' = log
    BY <1>1 DEF AppendRecord, line
  <2> QED
    BY <2>1, <1>5, <1>6
<1> QED
  BY <1>0, <1>7 DEF Ordered, QueueTrue, Readable, Descending, PlacedFirst, AllHandled, NonePlaced, Running

LEMMA ReadOrdered ==
  ASSUME TypeOK, Ordered, ReadRecords
  PROVE  Ordered' /\ log \in Seq(Record)
<1>1. /\ pc = "idle" /\ pc' = "check" /\ UNCHANGED <<log, placed>> /\ queue' = Reverse(log)
      /\ \A k \in 1..Len(log) : log[k] # Malformed
  BY DEF ReadRecords, ghost, TypeOK
<1>2. log \in Seq(Record)
  <2>1. \A k \in 1..Len(log) : log[k] \in Record
    BY <1>1, ElementOfSeq DEF TypeOK
  <2> QED
    BY <2>1, SeqDef DEF TypeOK
<1>3. Descending'
  <2> SUFFICES ASSUME NEW j \in 1..Len(queue'), NEW k \in 1..Len(queue'), j < k
               PROVE  queue'[j].n > queue'[k].n
    BY DEF Descending
  <2>1. /\ Len(queue') = Len(log) /\ Len(log) \in Nat
        /\ Len(log) - j + 1 \in 1..Len(log) /\ queue'[j] = log[Len(log) - j + 1]
        /\ Len(log) - k + 1 \in 1..Len(log) /\ queue'[k] = log[Len(log) - k + 1]
    BY <1>1, <1>2, Backwards
  <2>2. Len(log) - j + 1 > Len(log) - k + 1
    BY <2>1
  <2> QED
    BY <1>1, <2>1, <2>2 DEF Ordered, LogTrue
<1>4. QueueTrue'
  BY <1>1, <1>2, Backwards DEF Ordered, LogTrue, QueueTrue, Restorable, Ident
<1> QED
  BY <1>1, <1>2, <1>3, <1>4 DEF Ordered, LogTrue, Readable, PlacedFirst, AllHandled, NonePlaced,
                          Running, Restorable, Ident

LEMMA OrderedNext ==
  ASSUME TypeOK, Ordered, [Next]_vars
  PROVE  Ordered'
<1> USE DEF world, run, ghost
<1>1. CASE Finish
  BY <1>1 DEF Finish, Ordered, LogTrue, QueueTrue, Readable, Descending, PlacedFirst, AllHandled, NonePlaced,
              Running, Restorable, Ident
<1>2. CASE Check
  <2>1. CASE pc' = "dest" /\ UNCHANGED <<log, queue, placed>>
    BY <1>2, <2>1, StayOrdered DEF Check, Running
  <2>2. CASE Skip
    BY <1>2, <2>2, AdvanceOrdered DEF Check, Skip, Running
  <2> QED
    BY <1>2, <2>1, <2>2 DEF Check
<1>3. CASE SystemError
  BY <1>3, AdvanceOrdered DEF SystemError, Skip, Running
<1>4. CASE ChooseDest
  BY <1>4, StayOrdered DEF ChooseDest, Running
<1>5. CASE MoveBack
  <2>1. \A r \in placed' : r \in placed \/ r.record = Head(queue)
    BY <1>5 DEF MoveBack, Place
  <2> QED
    BY <1>5, <2>1, AdvanceOrdered DEF MoveBack, Running, TypeOK
<1>6. CASE CopyBack
  <2>1. \A r \in placed' : r \in placed \/ r.record = Head(queue)
    BY <1>6 DEF CopyBack, Place
  <2> QED
    BY <1>6, <2>1, StayOrdered DEF CopyBack, Running, TypeOK
<1>7. CASE CopyFails
  BY <1>7, AdvanceOrdered DEF CopyFails, Running, TypeOK
<1>8. CASE Unlink
  BY <1>8, AdvanceOrdered DEF Unlink, Running, TypeOK
<1>9. CASE MoveFails
  BY <1>9, AdvanceOrdered DEF MoveFails, Skip, Running, TypeOK
<1>10. CASE ReadFails
  BY <1>10 DEF ReadFails, Ordered, LogTrue, QueueTrue, Readable, Descending, PlacedFirst, AllHandled,
               NonePlaced, Running, Restorable, Ident
<1>11. CASE ReadRecords
  BY <1>11, ReadOrdered
<1>12. CASE Return
  BY <1>12 DEF Return, Ordered, LogTrue, QueueTrue, Readable, Descending, PlacedFirst, AllHandled,
               NonePlaced, Running, Restorable, Ident
<1>13. ASSUME NEW p \in Path, Delete(p) PROVE Ordered'
  BY <1>13, DeleteOrdered
<1>14. CASE UNCHANGED <<log, pc, queue, placed>>
  BY <1>14 DEF Ordered, LogTrue, QueueTrue, Readable, Descending, PlacedFirst, AllHandled,
               NonePlaced, Running, Restorable, Ident
<1>15. ASSUME NEW s \in Spot, OtherChangesSpot(s) PROVE UNCHANGED <<log, pc, queue, placed>>
  BY <1>15 DEF OtherChangesSpot
<1>16. ASSUME NEW s \in Slot, OtherChangesTrash(s) PROVE UNCHANGED <<log, pc, queue, placed>>
  BY <1>16 DEF OtherChangesTrash
<1> QED
  BY <1>1, <1>2, <1>3, <1>4, <1>5, <1>6, <1>7, <1>8, <1>9, <1>10, <1>11, <1>12, <1>13, <1>14,
     <1>15, <1>16 DEF Next, Restoring, vars

\* The order of a restore is kept, whatever comes in between.
LEMMA AlwaysOrdered == Spec => [](TypeOK /\ Ordered)
<1>1. Init => Ordered
  BY DEF Init, Ordered, LogTrue, QueueTrue, Readable, Descending, PlacedFirst, AllHandled, NonePlaced, Running
<1>2. TypeOK /\ Ordered /\ [Next]_vars => (TypeOK /\ Ordered)'
  BY NextType, OrderedNext
<1> QED
  BY <1>1, <1>2, InitType, PTL DEF Spec

-----------------------------------------------------------------------------
(* Nothing is forgotten: in an undisturbed restore a recorded item that is *)
(* still in the Trash is still in the queue.                               *)
Settled(e) == Restorable(e) => bin[e.at] # e.item

Pending ==
  pc \in Running \cup {"done"} /\ ~disturbed => \A k \in 1..Len(log) :
    Settled(log[k]) \/ \E j \in 1..Len(queue) : queue[j] = log[k]

\* A name in the Trash that is emptied holds no recorded item.
LEMMA EmptiedIsSettled ==
  ASSUME TypeOK, NEW t, bin' = [bin EXCEPT ![t] = Nothing] \/ bin' = bin,
         NEW e \in Record
  PROVE  /\ Settled(e) => Settled(e)'
         /\ bin' = [bin EXCEPT ![t] = Nothing] /\ e.at = t => Settled(e)'
<1>1. e.item # Nothing /\ e.at \in Slot
  BY ObjectAssumption DEF Record
<1> QED
  BY <1>1 DEF TypeOK, Settled, Restorable

LEMMA AdvancePending ==
  ASSUME TypeOK, Ordered, Pending, pc \in Running, queue # <<>>, NextCandidate, UNCHANGED log,
         ~disturbed' => ~disturbed,
         \A e \in Record : Settled(e) \/ (~disturbed' /\ e = Head(queue)) => Settled(e)'
  PROVE  Pending'
<1> SUFFICES ASSUME ~disturbed', NEW k \in 1..Len(log)
             PROVE  Settled(log[k])' \/ \E j \in 1..Len(queue') : queue'[j] = log[k]
  BY DEF Pending
<1>0. queue \in Seq(Record) /\ queue' = Tail(queue) /\ log' = log
  BY DEF TypeOK, NextCandidate
<1>1. log[k] \in Record
  BY ElementOfSeq DEF TypeOK, Ordered, Readable
<1>2. ASSUME Settled(log[k]) \/ log[k] = Head(queue) PROVE Settled(log[k])'
  <2>1. \A r \in Record : r = log[k] /\ Settled(r)' => Settled(log[k])'
    BY <1>0 DEF Settled, Restorable
  <2>2. \A r \in Record : r = log[k] /\ Settled(log[k]) => Settled(r)
    OBVIOUS
  <2> QED
    BY <1>1, <1>2, <2>1, <2>2
<1>3. ASSUME NEW j \in 1..Len(queue), queue[j] = log[k]
      PROVE  Settled(log[k])' \/ \E m \in 1..Len(queue') : queue'[m] = log[k]
  <2>1. /\ Len(queue) \in Nat /\ Head(queue) = queue[1] /\ Len(queue') = Len(queue) - 1
        /\ \A m \in 1..Len(queue') : queue'[m] = queue[m + 1]
    BY <1>0, Behind
  <2>2. CASE j = 1
    BY <1>2, <1>3, <2>1, <2>2
  <2>3. CASE j # 1
    <3>1. j - 1 \in 1..Len(queue') /\ (j - 1) + 1 = j
      BY <2>1, <2>3
    <3> QED
      BY <1>3, <2>1, <3>1
  <2> QED
    BY <2>2, <2>3
<1> QED
  BY <1>2, <1>3 DEF Pending

\* As long as a candidate is handled it stays in the queue.
LEMMA StayPending ==
  ASSUME TypeOK, Ordered, Pending, pc \in Running, UNCHANGED <<log, queue>>,
         ~disturbed' => ~disturbed /\ UNCHANGED bin
  PROVE  Pending'
<1> SUFFICES ASSUME ~disturbed', NEW k \in 1..Len(log)
             PROVE  Settled(log[k])' \/ \E j \in 1..Len(queue) : queue[j] = log[k]
  BY DEF Pending
<1> QED
  BY DEF Pending, Settled, Restorable

LEMMA PendingNext ==
  ASSUME TypeOK, Ordered, Pending, [Next]_vars
  PROVE  Pending'
<1> USE DEF world, run, ghost
<1>0. disturbed \in BOOLEAN
  BY DEF TypeOK
<1>1. CASE Finish
  BY <1>1 DEF Finish, Pending, Settled, Restorable, Running
<1>2. CASE Check
  <2>1. CASE pc' = "dest" /\ UNCHANGED <<log, queue, bin, disturbed>>
    BY <1>2, <2>1, StayPending DEF Check, Running
  <2>2. CASE ~Verifies(Head(queue)) /\ Skip /\ UNCHANGED disturbed
    <3>0. queue # <<>> /\ NextCandidate /\ UNCHANGED <<log, bin>> /\ pc \in Running /\ pc' = "check"
      BY <1>2, <2>2 DEF Check, Skip, NextCandidate, Running
    <3>1. Settled(Head(queue))
      <4> SUFFICES ASSUME Restorable(Head(queue)), bin[Head(queue).at] = Head(queue).item
                   PROVE  FALSE
        BY DEF Settled
      <4>1. Head(queue) \in Record /\ Head(queue).item # Nothing
        BY <3>0, QueueType, ObjectAssumption DEF TypeOK, Record
      <4>2. Ident(Head(queue).item) = Head(queue).ident
        BY <3>0, Behind DEF TypeOK, Ordered, QueueTrue
      <4> QED
        BY <2>2, <4>1, <4>2 DEF Verifies
    <3>2. \A e \in Record : Settled(e) \/ e = Head(queue) => Settled(e)'
      BY <3>0, <3>1 DEF Settled, Restorable
    <3> QED
      BY <2>2, <3>0, <3>2, AdvancePending
  <2> QED
    BY <1>2, <2>1, <2>2 DEF Check
<1>3. CASE SystemError
  <2>1. \A e \in Record : Settled(e) => Settled(e)'
    BY <1>3 DEF SystemError, Skip, Settled, Restorable
  <2> QED
    BY <1>3, <2>1, AdvancePending DEF SystemError, Skip, Running
<1>4. CASE ChooseDest
  BY <1>4, StayPending DEF ChooseDest, Running
<1>5. CASE MoveBack
  <2>1. bin' = [bin EXCEPT ![Head(queue).at] = Nothing]
    BY <1>5 DEF MoveBack
  <2>2. \A e \in Record : Settled(e) \/ e = Head(queue) => Settled(e)'
    BY <2>1, EmptiedIsSettled
  <2> QED
    BY <1>5, <2>2, AdvancePending DEF MoveBack, Running, TypeOK
<1>6. CASE CopyBack
  BY <1>6, StayPending DEF CopyBack, Running
<1>7. CASE CopyFails
  <2>1. \A e \in Record : Settled(e) => Settled(e)'
    BY <1>7 DEF CopyFails, Settled, Restorable
  <2> QED
    BY <1>7, <2>1, AdvancePending DEF CopyFails, Running, TypeOK
<1>8. CASE Unlink
  <2>0. pc \in Running /\ queue # <<>> /\ NextCandidate /\ UNCHANGED log
    BY <1>8 DEF Unlink, Running, TypeOK
  <2>1. CASE bin' = [bin EXCEPT ![Head(queue).at] = Nothing] /\ UNCHANGED disturbed
    <3>1. \A e \in Record : Settled(e) \/ e = Head(queue) => Settled(e)'
      BY <2>1, EmptiedIsSettled
    <3> QED
      BY <2>0, <2>1, <3>1, AdvancePending
  <2>2. CASE UNCHANGED bin /\ disturbed' = TRUE
    <3>1. \A e \in Record : Settled(e) => Settled(e)'
      BY <2>2 DEF Settled, Restorable
    <3> QED
      BY <2>0, <2>2, <3>1, AdvancePending
  <2> QED
    BY <1>8, <2>1, <2>2 DEF Unlink
<1>9. CASE MoveFails
  <2>1. \A e \in Record : Settled(e) => Settled(e)'
    BY <1>9 DEF MoveFails, Skip, Settled, Restorable
  <2> QED
    BY <1>9, <2>1, AdvancePending DEF MoveFails, Skip, Running, TypeOK
<1>10. CASE ReadRecords
  <2>1. log' = log /\ queue' = Reverse(log) /\ log \in Seq(Record)
    BY <1>10, ReadOrdered DEF ReadRecords
  <2>2. \A k \in 1..Len(log') : \E j \in 1..Len(queue') : queue'[j] = log'[k]
    BY <2>1, Backwards
  <2> QED
    BY <2>2 DEF Pending
<1>11. CASE pc' \in {"idle", "unreadable"}
  BY <1>11 DEF Pending, Running
<1>12. ASSUME ReadFails \/ Return \/ \E p \in Path : Delete(p)
       PROVE  pc' \in {"idle", "unreadable"}
  BY <1>12 DEF ReadFails, Return, Delete
<1>13. ASSUME NEW s \in Spot, OtherChangesSpot(s) PROVE Pending'
  <2>1. UNCHANGED <<log, bin, pc, queue>>
    BY <1>13 DEF OtherChangesSpot
  <2>2. CASE pc = "idle"
    BY <2>1, <2>2, <1>11
  <2>3. CASE pc # "idle"
    BY <1>13, <2>1, <2>3, StayPending DEF OtherChangesSpot, Disturbs
  <2> QED
    BY <2>2, <2>3
<1>14. ASSUME NEW s \in Slot, OtherChangesTrash(s) PROVE Pending'
  BY <1>14, StayPending DEF OtherChangesTrash, Disturbs
<1>15. CASE UNCHANGED vars
  BY <1>15 DEF vars, Pending, Settled, Restorable
<1> QED
  BY <1>1, <1>2, <1>3, <1>4, <1>5, <1>6, <1>7, <1>8, <1>9, <1>10, <1>11, <1>12, <1>13, <1>14,
     <1>15 DEF Next, Restoring

(* An undisturbed restore undoes every deletion that has a record, however *)
(* many there are and whatever lies at the paths by then: of the recorded  *)
(* items none stays in the Trash (CmdRestore, Restore).                    *)
THEOREM RestoreUndoes == Spec => []UndoBringsBack
<1>1. Init => Pending
  BY DEF Init, Pending, Running
<1>2. TypeOK /\ Ordered /\ Pending /\ [Next]_vars => Pending'
  BY PendingNext
<1>3. TypeOK /\ Ordered /\ Pending => UndoBringsBack
  <2> SUFFICES ASSUME TypeOK, Ordered, Pending, pc = "done", ~disturbed,
                      NEW k \in DOMAIN log, Restorable(log[k])
               PROVE  bin[log[k].at] # log[k].item
    BY DEF UndoBringsBack, Restorable
  <2>1. k \in 1..Len(log) /\ queue = <<>> /\ Len(<<>>) = 0 /\ 1..0 = {}
    BY LenProperties DEF TypeOK, Ordered, AllHandled
  <2> QED
    BY <2>1 DEF Pending, Settled
<1> QED
  BY <1>1, <1>2, <1>3, AlwaysOrdered, PTL DEF Spec

-----------------------------------------------------------------------------
(* Who gets the original name: once something was put alongside it, in an  *)
(* undisturbed restore, the name is taken and stays so.                    *)
Original(s) == <<s[1], 0>>

NameTaken == ~disturbed => \A t \in placed : t.at[2] > 0 => fs[Original(t.at)] # Nothing

DestChosen ==
  ~disturbed /\ pc = "move" =>
    IF dest[2] = 0 THEN fs[dest] = Nothing ELSE fs[Original(dest)] # Nothing

Named == NameTaken /\ DestChosen /\ NewestGetsItsName

\* A spot is a path and a stamp, and its original name is a spot as well.
LEMMA SpotParts ==
  ASSUME NEW s \in Spot
  PROVE  /\ s[1] \in Path /\ s[2] \in Nat /\ s = <<s[1], s[2]>>
         /\ Original(s) \in Spot /\ (s[2] = 0 => Original(s) = s)
         /\ Original(s)[1] = s[1] /\ Original(s)[2] = 0
BY BoundAssumption DEF Spot, Stamp, Original

\* What happens to neither the paths nor the places already given.
LEMMA NothingPlaced ==
  ASSUME Named, ~disturbed' => ~disturbed, UNCHANGED <<fs, placed>>, pc' # "move"
  PROVE  Named'
BY DEF Named, NameTaken, DestChosen, NewestGetsItsName, Original

\* A record is placed at the destination chosen for it, later ones before it.
LEMMA PlacedNamed ==
  ASSUME TypeOK, Ordered, Named, pc = "move", pc' # "move", ~disturbed' => ~disturbed,
         NEW i \in Item, NEW j \in Item, Place(j), fs' = [fs EXCEPT ![dest] = i]
  PROVE  Named'
<1> SUFFICES ASSUME ~disturbed' PROVE Named'
  BY DEF Named, NameTaken, DestChosen, NewestGetsItsName
<1> DEFINE x == [record |-> Head(queue), item |-> j, at |-> dest]
<1>0. /\ placed' = placed \cup {x} /\ x.at = dest /\ x.record = Head(queue)
      /\ ~disturbed /\ i # Nothing
  BY ObjectAssumption DEF Place
<1>1. /\ queue \in Seq(Record) /\ queue # <<>> /\ dest \in Spot /\ fs \in [Spot -> Held]
      /\ \A t \in placed : t.at \in Spot
  BY DEF TypeOK, Running
<1>2. \A s \in Spot : fs[s] # Nothing => fs'[s] # Nothing
  BY <1>0, <1>1
<1>3. fs'[dest] # Nothing
  BY <1>0, <1>1
<1> HIDE DEF x
<1>4. NameTaken'
  <2> SUFFICES ASSUME NEW t \in placed', t.at[2] > 0 PROVE fs'[Original(t.at)] # Nothing
    BY DEF NameTaken, Original
  <2>1. CASE t \in placed
    BY <1>0, <1>1, <1>2, <2>1, SpotParts DEF Named, NameTaken
  <2>2. CASE t = x
    <3>1. dest[2] # 0 /\ Original(dest) \in Spot
      BY <1>0, <1>1, <2>2, SpotParts
    <3>2. fs[Original(dest)] # Nothing
      BY <1>0, <3>1 DEF Named, DestChosen
    <3> QED
      BY <1>0, <1>2, <2>2, <3>1, <3>2
  <2> QED
    BY <1>0, <2>1, <2>2
<1>5. NewestGetsItsName'
  <2> SUFFICES ASSUME NEW r \in placed', NEW t \in placed',
                      r.at[1] = t.at[1], r.at[2] = 0, t.at[2] > 0
               PROVE  r.record.n > t.record.n
    BY DEF NewestGetsItsName
  <2>1. CASE r \in placed /\ t \in placed
    BY <1>0, <2>1 DEF Named, NewestGetsItsName
  <2>2. CASE r \in placed /\ t = x
    <3>1. 1 \in 1..Len(queue) /\ Head(queue) = queue[1]
      BY <1>1, Behind
    <3> QED
      BY <1>0, <2>2, <3>1 DEF Ordered, PlacedFirst, Running
  <2>3. CASE r = x /\ t \in placed
    <3>1. dest[2] = 0 /\ Original(t.at) = dest
      BY <1>0, <1>1, <2>3, SpotParts DEF Original
    <3>2. fs[dest] = Nothing
      BY <1>0, <3>1 DEF Named, DestChosen
    <3>3. fs[Original(t.at)] # Nothing
      BY <1>0, <2>3 DEF Named, NameTaken
    <3> QED
      BY <3>1, <3>2, <3>3
  <2>4. CASE r = x /\ t = x
    BY <1>0, <2>4
  <2> QED
    BY <1>0, <2>1, <2>2, <2>3, <2>4
<1>6. DestChosen'
  BY DEF DestChosen
<1> QED
  BY <1>4, <1>5, <1>6 DEF Named

LEMMA NamedNext ==
  ASSUME TypeOK, Ordered, Named, [Next]_vars
  PROVE  Named'
<1> USE DEF world, run, ghost
<1>0. disturbed' => Named'
  BY DEF Named, NameTaken, DestChosen, NewestGetsItsName
<1>1. CASE Finish
  BY <1>1, NothingPlaced DEF Finish
<1>2. CASE Check
  BY <1>2, NothingPlaced DEF Check, Skip, NextCandidate
<1>3. CASE SystemError \/ CopyFails \/ MoveFails
  BY <1>0, <1>3 DEF SystemError, CopyFails, MoveFails
<1>4. CASE ChooseDest
  <2> DEFINE p == Head(queue).orig
  <2>1. pc' = "move" /\ UNCHANGED <<fs, placed, disturbed>> /\ fs[<<p, 0>>] \in Held
    <3>1. queue # <<>> /\ p \in Path
      BY <1>4, QueueType DEF ChooseDest, TypeOK, Running, Record
    <3>2. <<p, 0>> \in Spot
      BY <3>1, BoundAssumption DEF Spot, Stamp
    <3> QED
      BY <1>4, <3>2 DEF ChooseDest, TypeOK
  <2>2. \/ dest' = <<p, 0>> /\ fs[<<p, 0>>] = Nothing
        \/ \E k \in Stamp \ {0} : dest' = <<p, k>> /\ fs[<<p, 0>>] # Nothing
    BY <1>4 DEF ChooseDest
  <2>3. DestChosen'
    BY <2>1, <2>2 DEF DestChosen, Original
  <2> QED
    BY <2>1, <2>3 DEF Named, NameTaken, NewestGetsItsName, Original
<1>5. CASE MoveBack
  <2>1. bin[Head(queue).at] \in Item
    <3>1. queue # <<>> /\ Head(queue) \in Record
      BY <1>5, QueueType DEF MoveBack, TypeOK, Running
    <3> QED
      BY <1>5, <3>1 DEF MoveBack, TypeOK, Held, Record
  <2> QED
    BY <1>5, <2>1, PlacedNamed DEF MoveBack, NextCandidate
<1>6. CASE CopyBack
  <2>1. bin[Head(queue).at] \in Item
    <3>1. queue # <<>> /\ Head(queue) \in Record
      BY <1>6, QueueType DEF CopyBack, TypeOK, Running
    <3> QED
      BY <1>6, <3>1 DEF CopyBack, TypeOK, Held, Record
  <2> QED
    BY <1>6, <2>1, PlacedNamed DEF CopyBack
<1>7. CASE Unlink
  <2>1. CASE disturbed' = TRUE
    BY <1>0, <2>1
  <2>2. CASE UNCHANGED disturbed
    BY <1>7, <2>2, NothingPlaced DEF Unlink, NextCandidate
  <2> QED
    BY <1>7, <2>1, <2>2 DEF Unlink
<1>8. CASE ReadFails \/ ReadRecords
  BY <1>8, NothingPlaced DEF ReadFails, ReadRecords
<1>9. ASSUME placed' = {}, pc' = "idle" PROVE Named'
  BY <1>9 DEF Named, NameTaken, DestChosen, NewestGetsItsName
<1>10. CASE Return
  BY <1>9, <1>10 DEF Return
<1>11. ASSUME NEW p \in Path, Delete(p) PROVE Named'
  BY <1>9, <1>11 DEF Delete, Ordered, NonePlaced
<1>12. ASSUME NEW s \in Spot, OtherChangesSpot(s) PROVE Named'
  <2>1. CASE pc = "idle"
    BY <1>9, <1>12, <2>1 DEF OtherChangesSpot, Ordered, NonePlaced
  <2>2. CASE pc # "idle"
    BY <1>0, <1>12, <2>2 DEF OtherChangesSpot, Disturbs
  <2> QED
    BY <2>1, <2>2
<1>13. ASSUME NEW s \in Slot, OtherChangesTrash(s) PROVE Named'
  BY <1>0, <1>13 DEF OtherChangesTrash, Disturbs
<1>14. CASE UNCHANGED vars
  BY <1>14 DEF vars, Named, NameTaken, DestChosen, NewestGetsItsName, Original
<1> QED
  BY <1>1, <1>2, <1>3, <1>4, <1>5, <1>6, <1>7, <1>8, <1>10, <1>11, <1>12, <1>13, <1>14
     DEF Next, Restoring

(* Of several deletions at one path the most recent gets the name back, in *)
(* an undisturbed restore, and the older ones are put alongside: for any   *)
(* number of deletions, whether or not alongside repeats a name.           *)
THEOREM NewestFirst == Spec => []NewestGetsItsName
<1>1. Init => Named
  BY DEF Init, Named, NameTaken, DestChosen, NewestGetsItsName
<1>2. TypeOK /\ Ordered /\ Named /\ [Next]_vars => Named'
  BY NamedNext
<1> QED
  BY <1>1, <1>2, AlwaysOrdered, PTL DEF Spec, Named

-----------------------------------------------------------------------------
(* What an append does to the lines before it.                             *)
Unreadable == \E k \in DOMAIN log : log[k] = Malformed

KeepsLines ==
  /\ \A k \in DOMAIN log : k < Len(log) \/ ~unended => k \in DOMAIN log' /\ log'[k] = log[k]
  /\ Unreadable => Unreadable'

LEMMA WrittenKeeps ==
  ASSUME TypeOK, NEW line \in Record \cup {Malformed}, log' = Written(line)
  PROVE  KeepsLines
<1>1. /\ Len(log) \in Nat /\ DOMAIN log = 1..Len(log) /\ DOMAIN log' = 1..Len(log')
      /\ log \in Seq(Record \cup {Malformed}) /\ (unended => log # <<>>)
  <2>1. log' \in Seq(Record \cup {Malformed})
    BY WrittenOut DEF TypeOK
  <2> QED
    BY <2>1, LenProperties DEF TypeOK
<1>2. CASE unended
  <2>1. /\ Len(log') = Len(log) /\ log'[Len(log)] = Malformed
        /\ \A i \in 1..(Len(log) - 1) : log'[i] = log[i]
    BY <1>1, <1>2, WrittenOut
  <2>2. Len(log) \in 1..Len(log)
    BY <1>1, <1>2, EmptySeq
  <2>3. \A k \in 1..Len(log) : k < Len(log) => k \in 1..(Len(log) - 1)
    BY <1>1
  <2> QED
    BY <1>1, <1>2, <2>1, <2>2, <2>3 DEF KeepsLines, Unreadable
<1>3. CASE ~unended
  <2>1. Len(log') = Len(log) + 1 /\ \A i \in 1..Len(log) : log'[i] = log[i]
    BY <1>1, <1>3, WrittenOut
  <2>2. \A k \in 1..Len(log) : k \in 1..Len(log')
    BY <1>1, <2>1
  <2> QED
    BY <1>1, <2>1, <2>2 DEF KeepsLines, Unreadable
<1> QED
  BY <1>2, <1>3

LEMMA StepKeepsLines ==
  ASSUME TypeOK, [Next]_vars
  PROVE  KeepsLines
<1> USE DEF world, run, ghost
<1>1. CASE UNCHANGED log
  BY <1>1 DEF KeepsLines, Unreadable
<1>2. ASSUME NEW p \in Path, Delete(p) PROVE KeepsLines
  <2> DEFINE i == fs[<<p, 0>>]
  <2>1. PICK s \in Slot : AppendRecord(Line(p, s, i))
    BY <1>2 DEF Delete
  <2>2. i \in Item
    <3>1. <<p, 0>> \in Spot
      BY BoundAssumption DEF Spot, Stamp
    <3> QED
      BY <1>2, <3>1 DEF Delete, TypeOK, Held
  <2>3. Line(p, s, i) \in Record
    BY <1>2, <2>2, ItemType DEF Delete
  <2>4. \/ UNCHANGED log
        \/ \E line \in Record \cup {Malformed} : log' = Written(line)
    BY <2>1, <2>3 DEF AppendRecord
  <2> QED
    BY <1>1, <2>4, WrittenKeeps
<1>3. CASE Restoring
  BY <1>1, <1>3 DEF Restoring, Finish, Check, Skip, SystemError, ChooseDest, MoveBack, CopyBack,
                    CopyFails, Unlink, MoveFails
<1>4. CASE ReadFails \/ ReadRecords \/ Return
  BY <1>1, <1>4 DEF ReadFails, ReadRecords, Return
<1>5. ASSUME NEW s \in Spot, OtherChangesSpot(s) PROVE KeepsLines
  BY <1>1, <1>5 DEF OtherChangesSpot
<1>6. ASSUME NEW s \in Slot, OtherChangesTrash(s) PROVE KeepsLines
  BY <1>1, <1>6 DEF OtherChangesTrash
<1> QED
  BY <1>1, <1>2, <1>3, <1>4, <1>5, <1>6 DEF Next, vars

(* The history only grows: what is appended leaves every line that has its *)
(* end as it was, and spoils the one that has not.  For the same reason a  *)
(* log that ReadAll gives up on stays so: no later deletion mends it, and  *)
(* nothing else in the program writes to it.                               *)
THEOREM HistoryOnlyGrows == Spec => [][KeepsLines]_vars
<1>1. TypeOK /\ [Next]_vars => [KeepsLines]_vars
  BY StepKeepsLines
<1>2. Spec => []TypeOK
  BY TypeCorrect
<1> QED
  BY <1>1, <1>2, PTL DEF Spec


-----------------------------------------------------------------------------
(* A restore comes to its end: the steps it may still take.                *)
StepsLeft ==
  CASE pc = "check"  -> 4 * Len(queue) + 1
    [] pc = "dest"   -> 4 * Len(queue)
    [] pc = "move"   -> 4 * Len(queue) - 1
    [] pc = "unlink" -> 4 * Len(queue) - 2
    [] OTHER -> 0

Advances ==
  /\ Restoring => StepsLeft' < StepsLeft
  /\ ~Restoring /\ ~ReadRecords => StepsLeft' = StepsLeft

\* What is still to restore has a line in the log.
QueueFits == pc \in Running => Len(queue) <= Len(log)

LEMMA FourSteps ==
  ASSUME NEW q \in Nat
  PROVE  /\ 4 * q + 1 \in Nat /\ 4 * q < 4 * q + 1 /\ 0 < 4 * q + 1
         /\ q # 0 => /\ 4 * q - 1 < 4 * q /\ 4 * q - 2 < 4 * q - 1
                     /\ 4 * (q - 1) + 1 < 4 * q - 2 /\ 4 * (q - 1) + 1 < 4 * q - 1
                     /\ 4 * (q - 1) + 1 < 4 * q + 1 /\ 4 * (q - 1) + 1 < 4 * q
                     /\ 4 * q - 1 \in Nat /\ 4 * q - 2 \in Nat
         /\ \A l \in Nat : q <= l => 4 * q + 1 <= 4 * l + 1
OBVIOUS

LEMMA StepsBounded == TypeOK /\ QueueFits => StepsLeft \in 0..(4 * Len(log) + 1)
<1> SUFFICES ASSUME TypeOK, QueueFits PROVE StepsLeft \in 0..(4 * Len(log) + 1)
  OBVIOUS
<1>1. Len(queue) \in Nat /\ Len(log) \in Nat
  BY LenProperties DEF TypeOK
<1>2. pc \in Running \ {"check"} => Len(queue) # 0
  BY EmptySeq DEF TypeOK
<1>3. pc \in Running => Len(queue) <= Len(log)
  BY DEF QueueFits
<1>4. CASE pc \in Running
  BY <1>1, <1>2, <1>3, <1>4 DEF StepsLeft, Running
<1>5. CASE pc \notin Running
  BY <1>1, <1>5 DEF StepsLeft, Running
<1> QED
  BY <1>4, <1>5

\* Going on to the next candidate leaves less to do.
LEMMA CandidateDone ==
  ASSUME TypeOK, pc \in Running, queue # <<>>, NextCandidate
  PROVE  StepsLeft' < StepsLeft /\ Len(queue') <= Len(queue)
<1>1. /\ Len(queue) \in Nat \ {0} /\ Len(queue') = Len(queue) - 1
      /\ pc' = "check"
  BY Behind DEF NextCandidate, TypeOK
<1>2. StepsLeft' = 4 * (Len(queue) - 1) + 1
  BY <1>1 DEF StepsLeft
<1> QED
  BY <1>1, <1>2, FourSteps DEF StepsLeft, Running

LEMMA RestoringAdvances ==
  ASSUME TypeOK, Restoring
  PROVE  StepsLeft' < StepsLeft /\ Len(queue') <= Len(queue) /\ log' = log /\ pc \in Running
<1> USE DEF world, run, ghost
<1>0. Len(queue) \in Nat /\ (pc \in Running \ {"check"} => queue # <<>> /\ Len(queue) # 0)
  BY LenProperties, EmptySeq DEF TypeOK
<1>1. CASE Finish
  BY <1>0, <1>1, FourSteps DEF Finish, StepsLeft, Running
<1>2. CASE Check
  <2>1. CASE pc' = "dest" /\ UNCHANGED <<log, queue>>
    BY <1>0, <1>2, <2>1, FourSteps DEF Check, StepsLeft, Running
  <2>2. CASE Skip
    BY <1>2, <2>2, CandidateDone DEF Check, Skip, Running
  <2> QED
    BY <1>2, <2>1, <2>2 DEF Check
<1>3. CASE SystemError
  BY <1>3, CandidateDone DEF SystemError, Skip, Running
<1>4. CASE ChooseDest
  BY <1>0, <1>4, FourSteps DEF ChooseDest, StepsLeft, Running
<1>5. CASE MoveBack
  BY <1>0, <1>5, CandidateDone DEF MoveBack, Running
<1>6. CASE CopyBack
  BY <1>0, <1>6, FourSteps DEF CopyBack, StepsLeft, Running
<1>7. CASE CopyFails
  BY <1>0, <1>7, CandidateDone DEF CopyFails, Running
<1>8. CASE Unlink
  BY <1>0, <1>8, CandidateDone DEF Unlink, Running
<1>9. CASE MoveFails
  BY <1>0, <1>9, CandidateDone DEF MoveFails, Skip, Running
<1> QED
  BY <1>1, <1>2, <1>3, <1>4, <1>5, <1>6, <1>7, <1>8, <1>9 DEF Restoring

LEMMA StepAdvances ==
  ASSUME TypeOK, QueueFits, [Next]_vars
  PROVE  QueueFits' /\ (Next => Advances)
<1> USE DEF world, run, ghost
<1>0. Len(queue) \in Nat /\ Len(log) \in Nat
  BY LenProperties DEF TypeOK
<1>1. CASE Restoring
  <2>1. queue' \in Seq(Record)
    BY <1>1, RestoringType DEF TypeOK
  <2>2. Len(queue') \in Nat
    BY <2>1, LenProperties
  <2> QED
    BY <1>0, <1>1, <2>2, RestoringAdvances DEF QueueFits, Advances
<1>2. CASE ~Restoring /\ ReadRecords
  <2>1. log \in Seq(Record) /\ queue' = Reverse(log) /\ log' = log
    <3>1. \A k \in 1..Len(log) : log[k] \in Record
      BY <1>2, ElementOfSeq DEF ReadRecords, TypeOK
    <3> QED
      BY <1>2, <3>1, SeqDef DEF ReadRecords, TypeOK
  <2> QED
    BY <1>0, <1>2, <2>1, Backwards DEF QueueFits, Advances
<1>3. CASE ~Restoring /\ pc \notin Running /\ pc' \notin Running
  BY <1>2, <1>3 DEF QueueFits, Advances, StepsLeft, Running
<1>4. CASE ~Restoring /\ UNCHANGED <<log, pc, queue>>
  BY <1>2, <1>4 DEF QueueFits, Advances, StepsLeft
<1>5. CASE ReadFails \/ Return
  BY <1>1, <1>3, <1>5 DEF ReadFails, Return, Running
<1>6. ASSUME NEW p \in Path, Delete(p) PROVE pc \notin Running /\ pc' \notin Running
  BY <1>6 DEF Delete, Running
<1>7. ASSUME NEW s \in Spot, OtherChangesSpot(s) PROVE UNCHANGED <<log, pc, queue>>
  BY <1>7 DEF OtherChangesSpot
<1>8. ASSUME NEW s \in Slot, OtherChangesTrash(s) PROVE UNCHANGED <<log, pc, queue>>
  BY <1>8 DEF OtherChangesTrash
<1> QED
  BY <1>1, <1>2, <1>3, <1>4, <1>5, <1>6, <1>7, <1>8 DEF Next, vars

(* A restore takes four steps at most for each line of the history, and one *)
(* more: whatever others put in its way, whatever fails, and however often  *)
(* a name alongside is occupied, no candidate is tried twice and the loop   *)
(* over the candidates ends (newRestoreCmd, Restore).  Only reading the     *)
(* history again makes new work.                                            *)
THEOREM RestoreIsFinite ==
  Spec => [](StepsLeft \in 0..(4 * Len(log) + 1)) /\ [][Advances]_vars
<1>1. Init => QueueFits
  BY DEF Init, QueueFits, Running
<1>2. TypeOK /\ QueueFits /\ [Next]_vars => QueueFits' /\ [Advances]_vars
  BY StepAdvances
<1> QED
  BY <1>1, <1>2, StepsBounded, TypeCorrect, PTL DEF Spec
==============================================================================
