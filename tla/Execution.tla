------------------------------ MODULE Execution ------------------------------
(***************************************************************************)
(* One batch of file deletions, from the sealed plan shown by the gate to  *)
(* the history log: pkg/safety (Revalidate, Execute), pkg/operation        *)
(* (FileDeleteOp), pkg/safety/fsdelete (Obliterate), the fallback of       *)
(* pkg/trash, and the tail shared by the callers in internal/cli.          *)
(*                                                                         *)
(* The program is one sequential process.  Other programs keep changing    *)
(* the target paths between any two of its system calls, and the process   *)
(* may be killed at any point.                                             *)
(*                                                                         *)
(* What a path holds is an object; Ident says which objects the tiered     *)
(* identity (size, mtime, inode, or content hash) tells apart.  Two        *)
(* objects with the same identity are, for example, a directory before     *)
(* and after a change deep inside it.                                      *)
(***************************************************************************)
EXTENDS Naturals, FiniteSets

CONSTANTS
  N,            \* number of operations in the sealed plan
  Path,         \* places in the file system a plan can name
  Target,       \* the path of each operation
  Object,       \* files, links and directories
  Nothing,      \* an empty path or an empty place in the Trash
  Folder,       \* the objects that are non-empty directories
  Ident,        \* the identity ComputeFile returns for an object
  Name,         \* base names
  BaseName,     \* the base name of a path
  CrossVolume,  \* the paths that are not on the volume of ~/.Trash
  SameTick,     \* two collision names may be made in one millisecond
  Foreign       \* other programs also use ~/.Trash during the run

Op     == 1..N
Stamp  == 0..N            \* 0: the plain name; k: the k-th distinct clock reading
Slot   == Name \X Stamp   \* names inside ~/.Trash
NoSlot == <<>>

ASSUME SizeAssumption     == N \in Nat \ {0}
ASSUME PlanAssumption     == Target \in [Op -> Path] /\ BaseName \in [Path -> Name]
ASSUME ObjectAssumption   == Nothing \notin Object /\ DOMAIN Ident = Object
ASSUME SubsetAssumption   == Folder \subseteq Object /\ CrossVolume \subseteq Path
ASSUME BooleanAssumption  == SameTick \in BOOLEAN /\ Foreign \in BOOLEAN

VARIABLES
  mode,       \* operation.Mode handed to Execute
  scheduled,  \* the caller is `clean --scheduled`
  pc,         \* what the process does next
  cur,        \* the operation it does that to
  expected,   \* FileDeleteOp.Expected: the identity recorded at plan time
  verdict,    \* ValidatedOp.Err = nil
  fate,       \* Receipt.Fate ("failed" stands for an empty fate, status failed)
  dest,       \* the name uniqueDest chose
  lastStamp,  \* the clock reading of the last collision name
  log,        \* the records in history.jsonl
  unlogged,   \* operations whose Append failed
  report,     \* status a scheduled run prints and appends
  fs,         \* what each path holds
  bin,        \* what each name in ~/.Trash holds
  took,       \* ghost: the object an operation moved or deleted
  harmed,     \* ghost: the objects an operation deleted for good, wholly or in part
  raced       \* ghost: operations whose target changed after its last check

program == <<mode, scheduled, pc, cur, expected, verdict, fate, dest, lastStamp,
             log, unlogged, report>>
world   == <<fs, bin>>
ghost   == <<took, harmed, raced>>
vars    == <<program, world, ghost>>

Fates    == {"pending", "trashed", "obliterated", "skipped", "failed"}
Ended    == {"done", "declined", "crashed"}
Steps    == {"gate", "open", "validate", "begin", "dest", "move", "unlink", "remove",
             "record"}
Held     == Object \cup {Nothing}
Record   == [op : Op, fate : Fates, reversible : BOOLEAN,
             at : Slot \cup {NoSlot}, ident : {Ident[o] : o \in Object}]

Lost      == UNION {harmed[i] : i \in Op}
InTrash(o) == \E s \in Slot : bin[s] = o

\* Mutant: the record repeats the reversibility shown at the gate in trash mode.
Entry_AlwaysReversible(i) ==
  [op |-> i, fate |-> fate[i], reversible |-> TRUE,
   at |-> IF fate[i] = "trashed" THEN dest[i] ELSE NoSlot, ident |-> expected[i]]

\* HistoryRecord: only an obliterated target is irreversible, and only a
\* trashed one has a trash path.
Entry(i) == [op |-> i, fate |-> fate[i], reversible |-> fate[i] # "obliterated",
             at |-> IF fate[i] = "trashed" THEN dest[i] ELSE NoSlot,
             ident |-> expected[i]]

\* Mutant: existence alone, the identity is not compared.
Matches_Exists(i) == fs[Target[i]] # Nothing

\* The identity check of ValidateAtExec and Obliterate: there, and unchanged.
Matches(i) == fs[Target[i]] # Nothing /\ Ident[fs[Target[i]]] = expected[i]

-----------------------------------------------------------------------------
(* The sealed plan: every target exists and its identity is recorded.  The *)
(* gate is shown unless confirm_mode, --yes or --scheduled skips it; a     *)
(* scheduled run is forced to trash.                                       *)
Init ==
  /\ mode \in {"trash", "obliterate"}
  /\ scheduled \in BOOLEAN
  /\ pc \in {"gate", "open"}
  /\ scheduled => mode = "trash" /\ pc = "open"
  /\ cur = 1
  /\ fs \in [Path -> Held]
  /\ \A p, q \in Path : fs[p] = fs[q] /\ fs[p] # Nothing => p = q
  /\ \A i \in Op : fs[Target[i]] # Nothing
  /\ expected = [i \in Op |-> Ident[fs[Target[i]]]]
  /\ bin \in [Slot -> Held]
  /\ \A s \in Slot : bin[s] # Nothing => s[2] = 0 /\ \A p \in Path : bin[s] # fs[p]
  /\ \A s, t \in Slot : bin[s] = bin[t] /\ bin[s] # Nothing => s = t
  /\ verdict = [i \in Op |-> FALSE]
  /\ fate = [i \in Op |-> "pending"]
  /\ dest = [i \in Op |-> NoSlot]
  /\ lastStamp = 0
  /\ log = {} /\ unlogged = {} /\ report = "none"
  /\ took = [i \in Op |-> Nothing]
  /\ harmed = [i \in Op |-> {}] /\ raced = {}

Approve ==
  /\ pc = "gate"
  /\ pc' = "open"
  /\ UNCHANGED <<mode, scheduled, cur, expected, verdict, fate, dest, lastStamp,
                 log, unlogged, report, world, ghost>>

Decline ==
  /\ pc = "gate"
  /\ pc' = "declined"
  /\ UNCHANGED <<mode, scheduled, cur, expected, verdict, fate, dest, lastStamp,
                 log, unlogged, report, world, ghost>>

(* The caller opens the history log and the Trash; when it cannot, it      *)
(* returns before Execute, a scheduled run possibly after saying "failed". *)
Open ==
  /\ pc = "open"
  /\ \/ pc' = "validate" /\ UNCHANGED report
     \/ pc' = "declined" /\ report' \in {report} \cup (IF scheduled THEN {"failed"} ELSE {})
  /\ UNCHANGED <<mode, scheduled, cur, expected, verdict, fate, dest, lastStamp,
                 log, unlogged, world, ghost>>

(* Revalidate: the whole plan is checked before anything is executed.  A   *)
(* read error or a path on the deny floor fails the check as well.         *)
Validate ==
  /\ pc = "validate"
  /\ \E readable \in BOOLEAN :
       verdict' = [verdict EXCEPT ![cur] = readable /\ Matches(cur)]
  /\ IF cur = N THEN pc' = "begin" /\ cur' = 1 ELSE pc' = pc /\ cur' = cur + 1
  /\ UNCHANGED <<mode, scheduled, expected, fate, dest, lastStamp, log, unlogged,
                 report, world, ghost>>

-----------------------------------------------------------------------------
(* Execute appends the result of the current operation and goes on with    *)
(* the next one; the caller gets the results when all have settled.        *)
Settle(f) ==
  /\ fate' = [fate EXCEPT ![cur] = f]
  /\ IF cur = N THEN pc' = "record" /\ cur' = 1 ELSE pc' = "begin" /\ cur' = cur + 1
  /\ UNCHANGED <<mode, scheduled, expected, verdict, dest, lastStamp, log,
                 unlogged, report, raced>>

Continue(step) ==
  /\ pc' = step
  /\ UNCHANGED <<mode, scheduled, cur, expected, verdict, fate, log, unlogged,
                 report, world, ghost>>

\* Mutant: the result is appended without going on to the next operation.
SkipStale_Stalls ==
  /\ pc = "begin" /\ ~verdict[cur]
  /\ fate' = [fate EXCEPT ![cur] = "skipped"]
  /\ UNCHANGED <<mode, scheduled, pc, cur, expected, verdict, dest, lastStamp, log,
                 unlogged, report, world, ghost>>

\* An operation that failed revalidation is recorded as skipped, never run.
SkipStale ==
  /\ pc = "begin" /\ ~verdict[cur]
  /\ Settle("skipped")
  /\ UNCHANGED <<world, took, harmed>>

\* Trash: Lstat of the path, no second identity check.
TrashStat ==
  /\ pc = "begin" /\ verdict[cur] /\ mode = "trash"
  /\ IF fs[Target[cur]] = Nothing
       THEN Settle("skipped") /\ UNCHANGED <<world, took, harmed>>
       ELSE Continue("dest") /\ UNCHANGED <<dest, lastStamp>>

\* Mutant: uniqueDest does not look whether the base name is taken.
TrashDest_Unchecked ==
  /\ pc = "dest"
  /\ dest' = [dest EXCEPT ![cur] = <<BaseName[Target[cur]], 0>>]
  /\ UNCHANGED lastStamp
  /\ Continue("move")

\* uniqueDest: the base name, or the base name with the time of day when the
\* base name is taken.  The stamped name is not looked up.  Any error of Lstat
\* counts as a free name (trash.go:154): one that does not mean absence refuses
\* the move to that name as well, which RenameFails and CopyFails stand for.
TrashDest ==
  LET base == BaseName[Target[cur]] IN
  /\ pc = "dest"
  /\ \/ /\ bin[<<base, 0>>] = Nothing
        /\ dest' = [dest EXCEPT ![cur] = <<base, 0>>]
        /\ UNCHANGED lastStamp
     \/ /\ bin[<<base, 0>>] # Nothing
        /\ lastStamp' \in {lastStamp + 1} \cup
             (IF SameTick /\ lastStamp > 0 THEN {lastStamp} ELSE {})
        /\ dest' = [dest EXCEPT ![cur] = <<base, lastStamp'>>]
  /\ Continue("move")

\* os.Rename replaces a file by a file; a non-empty directory at the
\* destination, or a directory moved onto a file, is an error.
Replaceable(o, d) == d = Nothing \/ (o \notin Folder /\ d \notin Folder)

\* The current operation destroys an object of which no copy is left.
Discard(d) == harmed' = [harmed EXCEPT ![cur] = @ \cup ({d} \ {Nothing})]

Rename ==
  LET p == Target[cur]
      s == dest[cur]
  IN /\ pc = "move" /\ p \notin CrossVolume
     /\ fs[p] # Nothing /\ Replaceable(fs[p], bin[s])
     /\ bin' = [bin EXCEPT ![s] = fs[p]]
     /\ fs' = [fs EXCEPT ![p] = Nothing]
     /\ took' = [took EXCEPT ![cur] = fs[p]]
     /\ Discard(bin[s])
     /\ Settle("trashed")

\* Mutant: a failed move falls back to deleting.
RenameFails_Deletes ==
  /\ pc = "move"
  /\ Settle("obliterated")
  /\ UNCHANGED <<world, took, harmed>>

RenameFails ==
  /\ pc = "move"
  /\ Settle("skipped")
  /\ UNCHANGED <<world, took, harmed>>

\* copyThenUnlink across volumes: first the copy (O_EXCL) ...
Copy ==
  LET p == Target[cur]
      s == dest[cur]
  IN /\ pc = "move" /\ p \in CrossVolume
     /\ fs[p] # Nothing /\ bin[s] = Nothing
     /\ pc' = "unlink"
     /\ bin' = [bin EXCEPT ![s] = fs[p]]
     /\ took' = [took EXCEPT ![cur] = fs[p]]
     /\ UNCHANGED <<mode, scheduled, cur, expected, verdict, fate, dest, lastStamp,
                    log, unlogged, report, fs, harmed, raced>>

\* Mutant: the unlink goes on although the copy has failed.
CopyFails_Unlinks ==
  LET p == Target[cur] IN
  /\ pc = "move" /\ p \in CrossVolume
  /\ fs' = [fs EXCEPT ![p] = Nothing]
  /\ Discard(fs[p])
  /\ UNCHANGED <<bin, took>>
  /\ Settle("skipped")

\* A failed copy (always so when the destination exists) removes whatever is
\* at the destination and leaves the source alone.
CopyFails ==
  LET s == dest[cur] IN
  /\ pc = "move" /\ Target[cur] \in CrossVolume
  /\ bin' = [bin EXCEPT ![s] = Nothing]
  /\ Discard(bin[s])
  /\ UNCHANGED <<fs, took>>
  /\ Settle("skipped")

\* ... then RemoveAll of whatever the source path holds by now.
Unlink ==
  LET p == Target[cur] IN
  /\ pc = "unlink"
  /\ fs' = [fs EXCEPT ![p] = Nothing]
  /\ Discard(IF InTrash(fs[p]) THEN Nothing ELSE fs[p])
  /\ UNCHANGED <<bin, took>>
  /\ Settle("trashed")

\* RemoveAll fails, of a directory possibly after removing some of it.
UnlinkFails ==
  LET p == Target[cur] IN
  /\ pc = "unlink" /\ fs[p] # Nothing
  /\ Discard(Nothing) \/ (fs[p] \in Folder /\ ~InTrash(fs[p]) /\ Discard(fs[p]))
  /\ UNCHANGED <<world, took>>
  /\ Settle("skipped")

-----------------------------------------------------------------------------
(* Obliterate: open the parent, check the identity by path, then remove    *)
(* by name below the parent's descriptor.                                  *)
ObliterateCheck ==
  /\ pc = "begin" /\ verdict[cur] /\ mode = "obliterate"
  /\ \/ Settle("failed") /\ UNCHANGED <<world, took, harmed>>
     \/ /\ fs[Target[cur]] # Nothing /\ ~Matches(cur)
        /\ Settle("skipped") /\ UNCHANGED <<world, took, harmed>>
     \/ Matches(cur) /\ Continue("remove") /\ UNCHANGED <<dest, lastStamp>>

\* A target that vanished after the check counts as obliterated.
RemoveVanished ==
  /\ pc = "remove" /\ fs[Target[cur]] = Nothing
  /\ Settle("obliterated")
  /\ UNCHANGED <<world, took, harmed>>

\* Mutant: a directory of which entries are left counts as skipped.
RemoveAt_PartSkipped ==
  LET p == Target[cur] IN
  /\ pc = "remove" /\ fs[p] # Nothing
  /\ \/ fs' = [fs EXCEPT ![p] = Nothing] /\ Settle("obliterated")
     \/ fs[p] \in Folder /\ UNCHANGED fs /\ Settle("skipped")
  /\ took' = [took EXCEPT ![cur] = fs[p]]
  /\ Discard(fs[p])
  /\ UNCHANGED bin

\* removeAt unlinks the target; of a directory it may have to leave entries.
RemoveAt ==
  LET p == Target[cur] IN
  /\ pc = "remove" /\ fs[p] # Nothing
  /\ \/ fs' = [fs EXCEPT ![p] = Nothing]
     \/ fs[p] \in Folder /\ UNCHANGED fs
  /\ took' = [took EXCEPT ![cur] = fs[p]]
  /\ Discard(fs[p])
  /\ UNCHANGED bin
  /\ Settle("obliterated")

RemoveNothing ==
  /\ pc = "remove" /\ fs[Target[cur]] # Nothing
  /\ Settle("skipped")
  /\ UNCHANGED <<world, took, harmed>>

-----------------------------------------------------------------------------
(* The caller's loop over the results.  A failed Append is a warning.      *)
(* runScheduledClean then classifies the results: trashed is done, an      *)
(* error (a failed revalidation is one) is failed, the rest is skipped.    *)
DoneOps    == {i \in Op : fate[i] = "trashed"}
FailedOps  == {i \in Op \ DoneOps : ~verdict[i] \/ fate[i] = "failed"}
SkippedOps == Op \ (DoneOps \cup FailedOps)
\* Mutant: skipped operations do not make the run partial.
ScheduledStatus_SkipsAreOk ==
  IF FailedOps # {} /\ DoneOps = {} THEN "failed"
  ELSE IF FailedOps # {} THEN "partial"
  ELSE "ok"

ScheduledStatus ==
  IF FailedOps # {} /\ DoneOps = {} THEN "failed"
  ELSE IF FailedOps # {} \/ SkippedOps # {} THEN "partial"
  ELSE "ok"

\* Mutant: the loop ends at the first failed Append.
AppendHistory_StopsOnError ==
  /\ pc = "record"
  /\ \/ log' = log \cup {Entry(cur)} /\ UNCHANGED unlogged
     \/ unlogged' = unlogged \cup {cur} /\ UNCHANGED log
  /\ IF cur = N \/ cur \in unlogged'
       THEN /\ pc' = "done"
            /\ report' = IF scheduled THEN ScheduledStatus ELSE report
            /\ UNCHANGED cur
       ELSE /\ cur' = cur + 1
            /\ UNCHANGED <<pc, report>>
  /\ UNCHANGED <<mode, scheduled, expected, verdict, fate, dest, lastStamp, world,
                 ghost>>

AppendHistory ==
  /\ pc = "record"
  /\ \/ log' = log \cup {Entry(cur)} /\ UNCHANGED unlogged
     \/ unlogged' = unlogged \cup {cur} /\ UNCHANGED log
  /\ IF cur = N
       THEN /\ pc' = "done"
            /\ report' = IF scheduled THEN ScheduledStatus ELSE report
            /\ UNCHANGED cur
       ELSE /\ cur' = cur + 1
            /\ UNCHANGED <<pc, report>>
  /\ UNCHANGED <<mode, scheduled, expected, verdict, fate, dest, lastStamp, world,
                 ghost>>

Crash ==
  /\ pc \notin Ended
  /\ pc' = "crashed"
  /\ UNCHANGED <<mode, scheduled, cur, expected, verdict, fate, dest, lastStamp,
                 log, unlogged, report, world, ghost>>

-----------------------------------------------------------------------------
(* Other programs.  They put an object that is nowhere else at a path,     *)
(* replacing what is there, or empty the path; with Foreign they do the    *)
(* same inside ~/.Trash.                                                   *)
Nowhere(o) ==
  /\ \A p \in Path : fs[p] # o
  /\ \A s \in Slot : bin[s] # o
  /\ o \notin Lost

\* Operations whose last identity check has passed and whose act is to come.
InWindow(i) ==
  /\ fate[i] = "pending"
  /\ IF mode = "trash" THEN verdict[i] ELSE pc = "remove" /\ cur = i

OtherChangesPath(p) ==
  /\ pc \notin Ended
  /\ \E o \in Held \ {fs[p]} :
       /\ o # Nothing => Nowhere(o)
       /\ fs' = [fs EXCEPT ![p] = o]
  /\ raced' = raced \cup {i \in Op : Target[i] = p /\ InWindow(i)}
  /\ UNCHANGED <<program, bin, took, harmed>>

OtherChangesTrash(s) ==
  /\ Foreign /\ pc \notin Ended
  /\ \E o \in Held \ {bin[s]} :
       /\ o # Nothing => Nowhere(o)
       /\ bin' = [bin EXCEPT ![s] = o]
  /\ UNCHANGED <<program, fs, ghost>>

-----------------------------------------------------------------------------
Execute ==
  \/ SkipStale
  \/ TrashStat \/ TrashDest \/ Rename \/ RenameFails
  \/ Copy \/ CopyFails \/ Unlink \/ UnlinkFails
  \/ ObliterateCheck \/ RemoveVanished \/ RemoveAt \/ RemoveNothing

Process == Open \/ Validate \/ Execute \/ AppendHistory

Environment ==
  \/ \E p \in Path : OtherChangesPath(p)
  \/ \E s \in Slot : OtherChangesTrash(s)

Next == Approve \/ Decline \/ Process \/ Crash \/ Environment

\* The process runs unless it is killed; nobody has to answer the gate.
Fairness == WF_vars(Process)

Spec == Init /\ [][Next]_vars /\ Fairness

-----------------------------------------------------------------------------
TypeOK ==
  /\ mode \in {"trash", "obliterate"} /\ scheduled \in BOOLEAN
  /\ pc \in Steps \cup Ended
  /\ cur \in Op
  /\ expected \in [Op -> {Ident[o] : o \in Object}]
  /\ verdict \in [Op -> BOOLEAN]
  /\ fate \in [Op -> Fates]
  /\ dest \in [Op -> Slot \cup {NoSlot}]
  /\ lastStamp \in Stamp
  /\ log \subseteq Record
  /\ unlogged \subseteq Op
  /\ report \in {"none", "ok", "partial", "failed"}
  /\ fs \in [Path -> Held] /\ bin \in [Slot -> Held]
  /\ took \in [Op -> Held] /\ harmed \in [Op -> SUBSET Object] /\ raced \subseteq Op

(* An operation only ever takes away the object the user approved, unless  *)
(* another program swapped the target after the operation's last identity  *)
(* check: the batch check in trash mode, Obliterate's own check otherwise. *)
TookWhatWasApproved ==
  \A i \in Op : took[i] # Nothing /\ i \notin raced => Ident[took[i]] = expected[i]

(* Trash mode deletes nothing for good, be it a target or an item already  *)
(* in the Trash, except what another program puts at a target on another   *)
(* volume after the batch check: RemoveAll takes it with the copied source.*)
(* Needs the Trash to itself and a clock that moves between two names.     *)
DestroysOnlyRacedCopies ==
  mode = "trash" => \A i \in Op :
    harmed[i] # {} => i \in raced /\ Target[i] \in CrossVolume

(* Every record that says "trashed" names the place in the Trash where the *)
(* very object that operation moved still is, so restore can find it.      *)
RecordedTrashIsThere ==
  \A e \in log : e.fate = "trashed" =>
    took[e.op] # Nothing /\ e.at \in Slot /\ bin[e.at] = took[e.op]

(* No record calls reversible an operation whose object is gone for good,  *)
(* including one destroyed by a later operation of the batch.              *)
ReversibleMeansIntact ==
  \A e \in log : e.reversible => took[e.op] \notin Lost

(* A target on the Trash's own volume that is reported skipped or failed   *)
(* was neither moved nor deleted by the operation.                         *)
SkippedLeavesTarget ==
  \A i \in Op : fate[i] \in {"skipped", "failed"} /\ Target[i] \notin CrossVolume
                  => took[i] = Nothing

(* When the batch has run to its end, everything it took away is in the    *)
(* log with its true fate, unless its own Append failed.                   *)
TakenIsRecorded ==
  pc = "done" => \A i \in Op : took[i] # Nothing =>
    i \in unlogged \/ \E e \in log : e.op = i /\ e.fate = fate[i]

(* The status of a scheduled run: "ok" exactly when every planned target   *)
(* was trashed, "failed" only when none was.                               *)
ScheduledReportHonest ==
  /\ report = "ok" => \A i \in Op : fate[i] = "trashed"
  /\ report = "failed" => \A i \in Op : fate[i] # "trashed"
  /\ report \in {"partial", "failed"} => \E i \in Op : fate[i] # "trashed"

(* Once approved, a batch that is not killed reaches its end: no target,   *)
(* however it changes under the process, can stall or abort the rest.      *)
ApprovedBatchEnds == pc = "open" ~> pc \in Ended

(* The batch keeps the promise of BatchPromise.                            *)
Phase == CASE pc \in {"gate", "open"} -> "asking"
           [] pc = "declined" -> "declined"
           [] pc = "crashed" -> "crashed"
           [] pc = "done" -> "ended"
           [] OTHER -> "approved"

Promise == INSTANCE BatchPromise
             WITH phase <- Phase, log <- {<<e.op, e.fate>> : e \in log}

KeepsPromise == Promise!Spec
=============================================================================
