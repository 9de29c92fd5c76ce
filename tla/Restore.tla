------------------------------- MODULE Restore -------------------------------
(***************************************************************************)
(* What becomes of a deletion afterwards: the records in history.jsonl     *)
(* (pkg/history), and `suns restore --all`, which reads them back and      *)
(* moves the items out of the Trash (internal/restore, internal/cli).      *)
(*                                                                         *)
(* A deletion in trash mode is one step here; Execution has its details.   *)
(* Restoring is done in the steps of the code, while other programs put    *)
(* objects at the target paths or change the Trash.  Objects are files; a  *)
(* directory behaves like a large file, which is known by its size and     *)
(* mtime, except that rename does not replace it.                          *)
(***************************************************************************)
EXTENDS Naturals, Sequences, SequencesExt

CONSTANTS
  Path,         \* original paths
  Slot,         \* names inside ~/.Trash
  Object,       \* files
  Nothing,      \* an empty place
  Malformed,    \* a line that is not one JSON object
  Hashed,       \* the files small enough to be identified by their hash
  Content,      \* what a file is compared by: its hash, or its size
  CrossVolume,  \* the paths that are not on the volume of ~/.Trash
  MaxRecords,   \* bound on the deletions, and on the names made by alongside
  MaxCopies,    \* bound on the copies made of a file
  MaxOthers,    \* bound on the changes others make during restores
  SameSecond    \* two names made by alongside may have the same second

Stamp  == 0..MaxRecords   \* 0: the original name; k: restored in the k-th second
Spot   == Path \X Stamp   \* the original path and the names alongside it
Item   == [file : Object, mtime : 0..MaxCopies]   \* of a large file, the copies so far
Held   == Item \cup {Nothing}

\* A line of the log (item and n are not in it: they identify the deletion).
Record == [orig : Path, at : Slot, item : Item, n : 1..MaxRecords,
           ident : [content : {Content[o] : o \in Object}, mtime : 0..MaxCopies]]

NoSpot == <<>>

ASSUME ObjectAssumption == Nothing \notin Item /\ Malformed \notin Record /\ Hashed \subseteq Object
ASSUME VolumeAssumption == CrossVolume \subseteq Path
ASSUME BoundAssumption  == {MaxRecords, MaxCopies, MaxOthers} \subseteq Nat
ASSUME SwitchAssumption == SameSecond \in BOOLEAN

VARIABLES
  log,        \* the lines of history.jsonl, oldest first
  unended,    \* the last line has no newline
  fs,         \* what each spot holds
  bin,        \* what each name in ~/.Trash holds
  pc,         \* what the restoring process does next
  queue,      \* the candidates still to restore, most recent first
  dest,       \* the destination chosen for the current candidate
  placed,     \* ghost: what this restore put where, and for which line of the log
  lost,       \* ghost: files a restore destroyed
  intruders,  \* ghost: files that came into the way of a running restore
  others,     \* the number of changes others made during restores
  disturbed   \* ghost: others changed something, or a system call failed

world == <<fs, bin>>
ghost == <<placed, lost, intruders, others, disturbed>>
run   == <<pc, queue, dest>>
vars  == <<log, unended, world, run, ghost>>

Running   == {"check", "dest", "move", "unlink"}

\* ComputeFile: the mtime tells large files apart, the hash small ones.
Ident(i) == [content |-> Content[i.file], mtime |-> i.mtime]

\* A copy has a new mtime, which is of interest for large files only.
Copied(i) == IF i.file \in Hashed THEN i ELSE [i EXCEPT !.mtime = @ + 1]

Trashed(p, i) == IF p \in CrossVolume THEN Copied(i) ELSE i

Line(p, s, i) ==
  [orig |-> p, at |-> s, ident |-> Ident(i), item |-> Trashed(p, i), n |-> Len(log) + 1]

InFs(o)  == \E s \in Spot : fs[s] # Nothing /\ fs[s].file = o
InBin(o) == \E s \in Slot : bin[s] # Nothing /\ bin[s].file = o

\* Where a running restore has looked already: what comes there is in its way.
Target == IF pc \in {"move", "unlink"} THEN {dest} ELSE {}
Source == IF pc \in {"dest", "move", "unlink"} THEN {Head(queue).at} ELSE {}

Init ==
  /\ log = <<>> /\ unended = FALSE
  /\ fs \in [Spot -> {[file |-> o, mtime |-> 0] : o \in Object} \cup {Nothing}]
  /\ \A s \in Spot : fs[s] # Nothing => s[2] = 0
  /\ \A s, t \in Spot : fs[s] = fs[t] /\ fs[s] # Nothing => s = t
  /\ bin = [s \in Slot |-> Nothing]
  /\ pc = "idle" /\ queue = <<>> /\ dest = NoSpot
  /\ placed = {} /\ lost = {} /\ intruders = {} /\ others = 0 /\ disturbed = FALSE

-----------------------------------------------------------------------------
(* Append: a line is written whole, not at all, or without its end.  What  *)
(* is appended to an unended line makes one malformed line of both.        *)
Written(line) == IF unended THEN Front(log) \o <<Malformed>> ELSE Append(log, line)

AppendRecord(line) ==
  \/ log' = Written(line) /\ unended' = FALSE
  \/ UNCHANGED <<log, unended>>
  \/ log' \in {Written(line), Written(Malformed)} /\ unended' = TRUE

(* A deletion in trash mode.  One by another process during a restore does *)
(* to the files what OtherChangesSpot and OtherChangesTrash do.            *)
Delete(p) ==
  LET i == fs[<<p, 0>>] IN
  /\ pc = "idle" /\ Len(log) < MaxRecords /\ i # Nothing
  /\ p \in CrossVolume => Copied(i) \in Item
  /\ \E s \in Slot :
       /\ bin[s] = Nothing
       /\ bin' = [bin EXCEPT ![s] = Trashed(p, i)]
       /\ AppendRecord(Line(p, s, i))
  /\ fs' = [fs EXCEPT ![<<p, 0>>] = Nothing]
  /\ UNCHANGED <<run, ghost>>

-----------------------------------------------------------------------------
(* ReadAll gives up at the first malformed line.                           *)
ReadFails ==
  /\ pc = "idle"
  /\ \E k \in DOMAIN log : log[k] = Malformed
  /\ pc' = "unreadable"
  /\ UNCHANGED <<log, unended, world, queue, dest, ghost>>

\* Mutant: the oldest record is restored first.
ReadRecords_OldestFirst ==
  /\ pc = "idle"
  /\ log # <<>> /\ \A k \in DOMAIN log : log[k] # Malformed
  /\ queue' = log
  /\ pc' = "check"
  /\ UNCHANGED <<log, unended, world, dest, ghost>>

\* Candidates, and the confirmation.
ReadRecords ==
  /\ pc = "idle"
  /\ log # <<>> /\ \A k \in DOMAIN log : log[k] # Malformed
  /\ queue' = Reverse(log)
  /\ pc' = "check"
  /\ UNCHANGED <<log, unended, world, dest, ghost>>

Finish ==
  /\ pc = "check" /\ queue = <<>>
  /\ pc' = "done"
  /\ UNCHANGED <<log, unended, world, queue, dest, ghost>>

\* The process ends; a later call starts afresh.
Return ==
  /\ pc \in {"done", "unreadable"}
  /\ pc' = "idle"
  /\ placed' = {} /\ lost' = {} /\ intruders' = {} /\ disturbed' = FALSE
  /\ UNCHANGED <<log, unended, world, queue, dest, others>>

NextCandidate == queue' = Tail(queue) /\ pc' = "check" /\ dest' = NoSpot

Skip ==
  /\ NextCandidate
  /\ UNCHANGED <<log, unended, world, placed, lost, intruders, others>>

\* Mutant: what is in the Trash is not compared with the record.
Verifies_Exists(e) == bin[e.at] # Nothing

\* Mutant: the inode is compared as well, as before a deletion.
Verifies_Inode(e) ==
  bin[e.at] # Nothing /\ Ident(bin[e.at]) = e.ident /\ e.orig \notin CrossVolume

\* VerifyContent, of whatever the Trash holds under the recorded name.
Verifies(e) == bin[e.at] # Nothing /\ Ident(bin[e.at]) = e.ident

Check ==
  /\ pc = "check" /\ queue # <<>>
  /\ \/ /\ Verifies(Head(queue))
        /\ pc' = "dest"
        /\ UNCHANGED <<log, unended, world, queue, dest, ghost>>
     \/ ~Verifies(Head(queue)) /\ Skip /\ UNCHANGED disturbed

\* ComputeFile or MkdirAll fails.
SystemError ==
  /\ pc \in {"check", "dest"} /\ queue # <<>>
  /\ Skip
  /\ disturbed' = TRUE

\* Mutant: an occupied original path is replaced.
ChooseDest_Replaces ==
  /\ pc = "dest"
  /\ dest' = <<Head(queue).orig, 0>>
  /\ pc' = "move"
  /\ UNCHANGED <<log, unended, world, queue, ghost>>

\* A later second makes a new name; the same second makes the same name.
Stamps(p, k) ==
  fs[<<p, k>>] = Nothing \/ (SameSecond /\ \E r \in placed : r.at = <<p, k>>)

(* The original path when it is free, else a name alongside it with the    *)
(* time of day, which is not looked up.                                    *)
ChooseDest ==
  LET p == Head(queue).orig IN
  /\ pc = "dest"
  /\ \/ /\ fs[<<p, 0>>] = Nothing
        /\ dest' = <<p, 0>>
     \/ /\ fs[<<p, 0>>] # Nothing
        /\ \E k \in Stamp \ {0} : Stamps(p, k) /\ dest' = <<p, k>>
  /\ pc' = "move"
  /\ UNCHANGED <<log, unended, world, queue, ghost>>

Place(i) ==
  placed' = placed \cup {[record |-> Head(queue), item |-> i, at |-> dest]}

\* What is at the destination is destroyed, unless the Trash has a copy.
Overwrite == lost' = lost \cup {o \in Object : fs[dest] # Nothing /\ fs[dest].file = o /\ ~InBin(o)}

\* MovePath within the volume: whatever is at the destination is replaced.
MoveBack ==
  LET e == Head(queue) IN
  /\ pc = "move" /\ e.orig \notin CrossVolume /\ bin[e.at] # Nothing
  /\ fs' = [fs EXCEPT ![dest] = bin[e.at]]
  /\ bin' = [bin EXCEPT ![e.at] = Nothing]
  /\ Overwrite
  /\ Place(bin[e.at])
  /\ NextCandidate
  /\ UNCHANGED <<log, unended, intruders, others, disturbed>>

\* Across volumes: the copy ...
CopyBack ==
  LET e == Head(queue) IN
  /\ pc = "move" /\ e.orig \in CrossVolume /\ bin[e.at] # Nothing /\ fs[dest] = Nothing
  /\ Copied(bin[e.at]) \in Item
  /\ fs' = [fs EXCEPT ![dest] = Copied(bin[e.at])]
  /\ Place(bin[e.at])
  /\ pc' = "unlink"
  /\ UNCHANGED <<log, unended, bin, queue, dest, lost, intruders, others, disturbed>>

\* ... which removes what is at the destination when it fails, as it does
\* when the destination exists ...
CopyFails ==
  /\ pc = "move" /\ Head(queue).orig \in CrossVolume
  /\ fs' = [fs EXCEPT ![dest] = Nothing]
  /\ Overwrite
  /\ disturbed' = TRUE
  /\ NextCandidate
  /\ UNCHANGED <<log, unended, bin, placed, intruders, others>>

\* ... and the removal of whatever the Trash holds under the name by now.
WasCopied(o) == \E r \in placed : r.record = Head(queue) /\ r.item.file = o

Unlink ==
  LET i == bin[Head(queue).at] IN
  /\ pc = "unlink"
  /\ \/ /\ bin' = [bin EXCEPT ![Head(queue).at] = Nothing]
        /\ lost' = lost \cup {o \in Object : i # Nothing /\ i.file = o /\ ~WasCopied(o)}
        /\ UNCHANGED disturbed
     \/ /\ UNCHANGED <<bin, lost>>
        /\ disturbed' = TRUE
  /\ NextCandidate
  /\ UNCHANGED <<log, unended, fs, placed, intruders, others>>

MoveFails ==
  /\ pc = "move"
  /\ Skip
  /\ disturbed' = TRUE

-----------------------------------------------------------------------------
(* Other programs put a new file somewhere, replacing what is there, or    *)
(* take a file away.  A name with the time of day is made by alongside     *)
(* alone: others touch it only once it has been chosen.  Between restores  *)
(* they only fill the paths: any other change made then is as good as one  *)
(* made when the next restore has begun.                                   *)
\* A file that was not there before; one that was destroyed stays so.
NewItems == {i \in Item : i.mtime = 0 /\ i.file \notin lost /\ ~InFs(i.file) /\ ~InBin(i.file)}

Disturbs == others < MaxOthers /\ others' = others + 1 /\ disturbed' = TRUE

OtherChangesSpot(s) ==
  /\ pc \in Running \/ (pc = "idle" /\ fs[s] = Nothing)
  /\ s[2] = 0 \/ s \in Target
  /\ \E i \in (NewItems \cup {Nothing}) \ {fs[s]} :
       /\ fs' = [fs EXCEPT ![s] = i]
       /\ intruders' = intruders \cup {o \in Object : s \in Target /\ i # Nothing /\ i.file = o}
  /\ IF pc = "idle" THEN UNCHANGED <<others, disturbed>> ELSE Disturbs
  /\ UNCHANGED <<log, unended, bin, run, placed, lost>>

OtherChangesTrash(s) ==
  /\ pc \in Running
  /\ \E i \in (NewItems \cup {Nothing}) \ {bin[s]} :
       /\ bin' = [bin EXCEPT ![s] = i]
       /\ intruders' = intruders \cup {o \in Object : s \in Source /\ i # Nothing /\ i.file = o}
  /\ Disturbs
  /\ UNCHANGED <<log, unended, fs, run, placed, lost>>

-----------------------------------------------------------------------------
Restoring ==
  \/ Finish \/ Check \/ SystemError \/ ChooseDest
  \/ MoveBack \/ CopyBack \/ CopyFails \/ Unlink \/ MoveFails

Next ==
  \/ Restoring
  \/ ReadFails \/ ReadRecords \/ Return
  \/ \E p \in Path : Delete(p)
  \/ \E s \in Spot : OtherChangesSpot(s)
  \/ \E s \in Slot : OtherChangesTrash(s)

Spec == Init /\ [][Next]_vars

-----------------------------------------------------------------------------
TypeOK ==
  /\ unended \in BOOLEAN /\ disturbed \in BOOLEAN /\ others \in 0..MaxOthers
  /\ log \in Seq(Record \cup {Malformed}) /\ Len(log) <= MaxRecords
  /\ unended => log # <<>>
  /\ fs \in [Spot -> Held] /\ bin \in [Slot -> Held]
  /\ pc \in Running \cup {"idle", "done", "unreadable"}
  /\ queue \in Seq(Record)
  /\ pc \in Running \ {"check"} => queue # <<>>
  /\ dest \in Spot \cup {NoSpot}
  /\ pc \in {"move", "unlink"} => dest \in Spot
  /\ lost \subseteq Object /\ intruders \subseteq Object
  /\ placed \subseteq [record : Record, item : Item, at : Spot]

\* What this restore has put under a name made by alongside.
Alongside == {o \in Object : \E r \in placed : r.at[2] > 0 /\ r.item.file = o}

\* What came into its way after it had looked, in the place it restores to or under
\* the name in the Trash; and what has a name that alongside may make again.
Expendable == intruders \cup (IF SameSecond THEN Alongside ELSE {})

(* "Restore alongside rather than overwrite" (Restore): no file that was    *)
(* there before, and none restored to its own path, is destroyed, but for  *)
(* intruders.  A file restored alongside is not as safe: alongside does    *)
(* not look its name up, which is the same for every record of that path   *)
(* restored within the second, and the next one's rename replaces it, or   *)
(* its failed copy removes it.                                             *)
DestroysOnlyExpendable == lost \subseteq Expendable

(* What is restored for a record has the content the record describes,     *)
(* unless the item was exchanged after it was verified.                    *)
RestoredIsVerified ==
  \A r \in placed : Ident(r.item) = r.record.ident \/ r.item.file \in intruders

(* An undisturbed restore undoes every deletion that has a record: none of *)
(* the recorded files stays in the Trash.  (Of files moved across volumes  *)
(* this holds for those identified by their hash.)                         *)
UndoBringsBack ==
  pc = "done" /\ ~disturbed => \A k \in DOMAIN log :
    LET e == log[k] IN
    e.item.file \in Hashed \/ e.orig \notin CrossVolume => bin[e.at] # e.item

(* Of several deletions at one path, the most recent gets the path back    *)
(* and the older ones are put alongside it.                                *)
NewestGetsItsName ==
  ~disturbed => \A r, t \in placed :
    r.at[1] = t.at[1] /\ r.at[2] = 0 /\ t.at[2] > 0 => r.record.n > t.record.n

==============================================================================
