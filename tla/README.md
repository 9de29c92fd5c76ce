# A TLA+ verification development for Suns

Suns is a command-line and terminal program for macOS that finds things worth
removing (caches, duplicates, leftovers of applications, runaway processes,
launch services, package receipts), shows them as a frozen plan, and carries the
plan out after the user's consent. Its promise is *approve exactly what
executes*: nothing happens before consent, an operation only acts on the object
that was shown, deletions go to the Trash unless the user asked otherwise, and
the history log says truthfully what happened so that it can be undone.

These modules model the parts of the program where that promise can break, check
them with TLC on small instances and prove the central results with TLAPS.

## The system: components, state, operations

| component | state it keeps | operations | what is hard |
|---|---|---|---|
| batch execution (`pkg/safety`, `pkg/operation/filedelete.go`, `pkg/safety/fsdelete`, tail of `internal/cli/clean.go`, `ashen.go`) | the sealed plan, one verdict and one receipt per operation; the file system and `~/.Trash` are shared with every other program | revalidate all, execute one by one, append the records | other programs act between any two system calls; crash before the records are written; partial failures |
| frozen plan and gate (`pkg/plan`, `pkg/safety/gate.go`) | the operation values, the plan ID | seal, group, render, approve or decline | consent must refer to what is executed |
| trash (`pkg/trash`) | the Trash directory, a breaker for the native call (a stub in this build) | `Trash`, `MovePath`, `uniqueDest`, `copyThenUnlink` | collisions of names, moves across volumes |
| history (`pkg/history`) | `history.jsonl` | `Append`, `ReadAll`, redaction | torn last line after a crash, failed appends |
| restore (`internal/restore`, `internal/cli/restore.go`) | the log and the Trash | candidates, verify, move back | items changed or restored before, occupied paths |
| process termination (`pkg/procctl`, `pkg/operation/processkill.go`, `internal/procadmin`, `internal/cli/ps.go`, `killproc.go`) | the process table (of the system), the sudo ticket | list, read identity, confirm, signal, delegate to a root helper | PIDs are reused between any two reads; Ctrl-C races the helper |
| privilege chokepoint (`pkg/privilege`, `internal/cli/system_runner.go`, `pkg/syscmd`) | the allow list, the ticket of sudo | `Acquire`, `Run` | expired tickets look like failing commands; prompts and commands have no deadline |
| system operations (`dnsflush.go`, `serviceunload.go`, `receiptforget.go`, `containerprune.go`) | launch services, receipts, containers (of the system) | flush, bootout, forget, prune | several commands of which one may fail; messages that count as success |
| uninstaller, orphans (`internal/uninstaller`, `internal/orphans`) | a bundle's files, services and receipts | discovery, plan, order of operations | every question to pkgutil may fail unnoticed; shared files; receipts forgotten too early |
| duplicates, purge (`internal/dedup`, `internal/purge`) | groups of equal files, trees of empty directories | find, choose a keeper, order | files change between the readings; the keeper is not looked at again; a directory's identity says nothing of what is deep in it |
| repository maintenance (`internal/maintain`, `repomaintenance.go`) | a working tree's cleanliness | validate, `git gc` | several commands read one state; the check is made long before the act |
| scheduler (`internal/scheduler`) | the agent's plist and launchd's idea of it | install, remove, status | two systems that must agree; results that are ignored; a plist cut short |
| telemetry (`internal/telemetry`, `pkg/plist/tokenizer.go`) | a snapshot ring, sources with a health | poll, stream, back off, restart | stalls, cancelled readers, stale values shown as live |
| terminal interface (`internal/tui`) | a stack of screens, the pending plan, the session's modes | key handlers, discovery and batch results, ticks | results and ticks that arrive after the screen changed |
| configuration, network tools, audit, doctor, floor, firmlink | none, or read once | read-only reports and predicates | parsing |

The command-line callers and the terminal interface call discovery, seal the
plan, ask, and hand the plan to `safety.Execute`; `Execute` calls each
operation's `ValidateAtExec` and `Execute`; those call the Trash, the
descriptor-anchored deleter, a process killer or an injected system runner, which
goes through the privilege chokepoint; the caller appends every record to the
history, from which restore works later. Everything runs in one process; the
concurrency is with *other programs* (the file system, the process table, the
Trash, the sudo ticket), with signals and crashes, and, in telemetry and the
terminal interface, among goroutines and messages.

## Modules

| module | models | state and steps |
|---|---|---|
| `BatchPromise` | nothing of the code: what a batch promises | fates settle in the order of the plan, once, after approval, and the log repeats them |
| `PlanPromise` | nothing of one command: what `plan.Seal`, the gate and `safety.Execute` promise of all of them | a plan is found, shown, approved; all checks come before the first act; only checked operations touch the world, each in its turn |
| `Execution` | `safety.Revalidate` and `Execute`, `FileDeleteOp`, `fsdelete.Obliterate`, the Trash fallback, the `Append` loop, the scheduled status | see below |
| `KillPromise` | nothing of the code: what a kill promises | at most one signal, after consent, and a verdict that stays true |
| `ProcessKill` | `suns ps --kill` and the hidden root command `__killproc` | see below |
| `Restore` | the records read back and `suns restore --all` | see below |
| `App` | the Bubble Tea model of the terminal interface | see below |
| `Telemetry` | one supervised source, its subprocess and its reader | see below |
| `Uninstall` | `suns nuke` and `suns orphans`, from discovery to the last record | see below |
| `SystemOps` | batches of system commands through the chokepoint: `dns-flush`, `maintain`, `docker-prune`, and those parts of the others | see below |
| `Dedup` | `suns ashen`: `dedup.Find` and its batch | see below |
| `Purge` | `suns clean empty-dirs` and `broken-symlinks` | see below |
| `Schedule` | `suns schedule install`, `uninstall`, `status` | see below |
| `ExecutionProofs`, `ProcessKillProofs`, `RestoreProofs`, `AppProofs`, `UninstallProofs`, `SystemOpsProofs`, `DedupProofs`, `PurgeProofs` | | the theorems; those about `Telemetry` are at the end of `AppProofs` (the instance `Source`), those about `Schedule` at the end of `UninstallProofs` (the instance `Agent`) |
| `MCExecution`, `MCProcessKill`, `MCRestore`, `MCApp`, `MCTelemetry`, `MCUninstall`, `MCSystemOps`, `MCDedup`, `MCPurge` | | constants of the runs |

Each module models a whole path through the program rather than a package,
because the hazards lie between packages. Names of definitions follow the code
where they can (`TrashDest` is `uniqueDest`, `Verifies` is `VerifyContent`, ...);
comments on variables name the field or the local variable they stand for.
Variables marked *ghost* belong to the properties only. Operators that follow a
comment "Mutant: ..." are wrong versions of the definition after them and are
used nowhere; each property has at least one such version that TLC shows to
violate it.

### Execution

The process is sequential; `pc` is what it does next and `cur` the operation it
does it to. One action is one system call as far as others can tell: `Validate`
(one operation of `Revalidate`), `TrashStat`, `TrashDest`, `Rename` or `Copy`
and `Unlink`, `ObliterateCheck` and `RemoveAt`, `AppendHistory`, with an action for
each way a call fails. Between any two of them other programs change the targets
(`OtherChangesPath`) and, with `Foreign`, the Trash (`OtherChangesTrash`), and the
process may be killed (`Crash`). An object has an identity (`Ident`), and objects
of equal identity exist: a directory before and after a change deep inside it.
`raced` marks operations whose target was changed after the last check; the code
cannot do better there without a lock, and the properties say exactly that.
`SameTick` lets two collision names be made within a millisecond. `uniqueDest` takes
the plain name upon any error of Lstat, the model only where the name is free: an
error that does not mean absence (no search permission on the Trash, an I/O error)
is taken to refuse the move to that name as well, as `RenameFails` and `CopyFails` do.

### ProcessKill

The command goes through list, read, gate, ticket, log, validate and either
check and signal, or delegate and wait; beside it the root instance goes from
`SudoStart` to its exit code. The system ends the process, gives the PID to a new
one, or replaces its program at every moment; tickets expire; Control-C cancels
the context, which ends the wait but not surely the helper. A process is its PID
and birth, so PID reuse is `at` changing, and `Reads` is what `Current` can
return: the executable path may be unreadable.

### Restore

`Delete` is a deletion in trash mode in one step (Execution has its details),
with the three ways `Append` can go: a line, nothing, or a part of a line, which
spoils the line appended next. The restoring process reads the records, newest
first, and for each verifies, chooses a destination, and moves within a volume
(`MoveBack`) or across (`CopyBack`, `Unlink`). `mtime` counts the copies made of
a file, because a copy does not keep the mtime and large files are compared by
it. Other programs act at the paths and in the Trash; what arrives where a
restore has looked already is in `intruders`. `SameSecond` lets `alongside` make a
name again, which it does not look up; what a restore has put under such a name is
`Alongside`.

### App

One action per message: keys on each screen and results of commands, of sudo and
of the tick, each followed by `Draw`, the view. Messages arrive in any order.
`jobs` counts commands under way, `ticks` the ticks in flight, `supervisors` and
`orphans` the goroutines that belong to a dashboard. Selection, the pause badge,
help, the filter and the layout are left out.

### Telemetry

Supervisor (`pc`), subprocess (`child`) and reader goroutine (`reader`, `held`, and
the channel `ch`) take steps independently. `kind` says which of the two sources
it is: documents of powermetrics or lines of nettop; they differ in the capacity
of the channel, in whether the reader looks at the context, and in the frames
nettop is compared by. `killable` is false for a sudo that refuses the user's
signal. The poller takes the source's
health over into a snapshot (`Poll`) and the dashboard draws it: `green` is the badge
for live, which three seconds without a sample take away (`SampleAges`,
`SnapshotAges`). `calm` is an assumption about the subprocess, not about the code: from
then on it starts and prints what it should, in time. What a subprocess printed outlives
it: `left` counts what is still to be read in the pipe and in the scanner's buffer, of
which closing the pipe takes a part. `stranded` says that a reader of an
earlier run can never end by itself.

### Uninstall

One module for two commands, because both end in a batch of unlike operations:
bootouts, then files, then receipts. Discovery goes path by path (`TraceByName`),
package by package (`ListPayload`) and question by question (`AskClaims`), or job
by job (`ScanJob`), with the failure of each answer, and fills the fields of
`engine`: `service`, `files`, `forget`, `retained`. `Ops` is their concatenation,
as `Plan` makes it. Then come `Seal`, `Answer`, one `Check` per operation and one
of `Bootout`, `Delete`, `DeleteInPart`, `DeleteSkips`, `Forget` or `SkipStale`. Other
programs remove and write paths and load jobs again. Which names and labels
belong to an application (`relatedPkg`, `jobRelated`, `resolveExec`) are constants;
a payload lists directories as well as files (`In`). The properties compare the
outcome with what discovery could not learn; ghosts remember that: `unasked`,
`unseen`, `unlisted`, `mute`. Obliterate compares the identity by path (`Verify`) and removes
by name a step later (`Delete`, `DeleteInPart`), whatever is there by then; how it removes
entry after entry is `Purge`'s matter, how the Trash is used `Execution`'s.

### SystemOps

`pc` takes the process through `Revalidate` (`Check`, and `CheckStatus` and
`CheckMarkers` for a repository) and then each operation through `Acquire`, the
prompt, sudo, the command and its result. The ticket expires at any moment; the
user answers or declines a prompt, or presses Control-C, which cancels the one
context all commands share; a command returns nothing, exit code 1 or another,
or is cut off. Exit code 1 under sudo is a rejected ticket to the chokepoint,
whoever said it. In the repositories people edit, commit and merge (`Works`); `late`
marks a repository changed after the command that would have shown it.

### Dedup

The walk (`Collect`, `PassOver`), the passes by size, head and whole content, the
choice of the keeper, the identities (`Burned`), and the batch. Groups of one size
are ranged over in any order, because the code ranges over a map. Paths lead to
inodes and inodes hold contents, so hard links are two paths of one inode; a path
that lies under two roots is met twice by the walk. Large files are identified by
inode, size and mtime; a writer may set the mtime back, and what he does then in
a file planned with the same size no check can see (`PlannedAs`). A file number is
not given twice while the scan knows it; one that comes again later is that of a
later file. Obliterate compares a file by path (`Verify`) and unlinks it by name in a
later step (`Burn`); others act between the two. `since` and `slipped` mark what
others changed where no later check can see it: among that what they change between
`Verify` and `Burn`, and in trash mode all after `Revalidate` (`Passed`).

### Purge

`empty-dirs` walks the tree, looks at the directories again from the deepest up,
keeps the topmost collapsible ones and records their identity, and the batch
removes them with everything in them; `broken-symlinks` reads the links of the
tree and stats their targets. A directory's `stamp` changes with its own entries
only, as its mtime does. The Trash takes a tree as a whole (`Move`). Obliterate compares the
identity by path (`Verify`), and then each directory is opened and listed (`Open`), its
entries are removed by name, and it goes last, if it is empty by then (`Unlink`,
`Vanish`); `descent` says of each place how far that has come, and others write beside
it: what they make in a directory before it is listed goes with it, what they make later
keeps it. `Above`, the directories a place is in, is defined without
recursion, as what is in every `Rooted` set that has the place's own.

### Schedule

Commands of several terminals run side by side, each a sequence of file
operations and launchctl calls. Writing the plist is two steps, for a command
killed between truncation and write leaves a plist that launchd cannot read. A
login loads what the plist holds. `crossed` marks commands beside or after which
another one changed something, `deaf` those whose bootout failed unnoticed.

## What the runs show

| run | bounds | shows |
|---|---|---|
| `execution_quiet` | 2 operations with one base name, on two volumes, 4 objects of which two share an identity | in trash mode nothing is destroyed but a target exchanged on another volume; every "trashed" record leads to the object; "reversible" is true; `Execution` implements `BatchPromise`; an approved batch ends |
| `execution_shared` | the same with 3 objects, others in the Trash, equal collision names | only approved objects are taken, a skipped target is still there, whatever was taken is in the log, and the status of a scheduled run is honest |
| `kill_reuse` | 3 processes, 2 programs | only the confirmed process is signalled, at most once, the verdict is true, `ProcessKill` implements `KillPromise`, the command ends |
| `kill_name` | the same | *violation*: the name shown may be that of an earlier process |
| `restore_undo` | 2 deletions, any number of restores, 2 interferences while restores run, 3 files, 2 paths, 2 places in the Trash | both records of an occupied path may be restored within a second; then a restore destroys what it has itself put alongside, and otherwise intruders only; only verified content is restored, an undisturbed restore brings everything back, the newest gets its name |
| `app_session` | 3 ticks in flight or to come | screens, commands and goroutines stay in step, nothing runs ungated, the busy screen ends |
| `telemetry_stream` | a channel of 2 lines, up to 2 items left by an ended subprocess | subprocesses do not pile up, what is dead turns from green for good, cancellation ends supervisor, poller and readers, and a source that behaves again turns green |
| `uninstall_nuke` | an application in a folder, a framework with a file of a second product, one daemon; 3 failures or interferences | what two packages list stays; a forgotten receipt leaves nothing unaccounted for; a job goes with its plist; live jobs stay |
| `system_batch` | 6 plans of 1 to 4 operations | "ok" means that every command returned; a repository is clean when it is collected, or was changed late; nothing that succeeded is run again; Control-C ends the batch |
| `dedup_burn` | 3 copies, or 2 and a hard link, one of them met twice by the walk, 3 contents of 2 sizes and a longer one to come, 2 interferences | a copy of what was removed stays; only duplicates are removed, but for what others change where no check follows, in either mode |
| `purge_sweep` | directories three deep of which the deepest is protected, a `.DS_Store`, two files to come, a link; 2 interferences | only what others made afterwards goes with an empty directory, also beside a running removal; only dangling links go, but for links exchanged after the last check |
| `schedule_agent` | 2 terminals, 3 commands, 2 troubles, an hour in range and one that is clamped | what a command that nobody crossed says is so |

**Why the bounds are enough.** Operations of a batch interact through the Trash
(one name for two targets) and through the order in which checks and acts
follow, and both take two operations: the second is checked before the first
acts. Two volumes give both ways of moving. Three objects are what two targets
and an intruder need, the fourth lets an intruder have an identity of its own.
For the kill, one process is confirmed, one may take its PID before the check
and one after; the interesting owners are *me* and *another*. For a restore, two
deletions compete for one path, two places in the Trash hold them, one
interference removes the assumption and the second lets it happen at both ends
of a move; the two equal small files and the two places are symmetric, and
neither `Init` nor any action names them. In the interface the third tick is
what a second sudo prompt beside a running tick chain needs. The channel of
nettop holds 64 lines; what matters is empty, neither, and full. Of what an ended
subprocess has left, two items are one that completes a frame and one that follows. An uninstallation
needs one path of each kind: sole, shared, in a directory that is itself listed,
a plist; two failures can excuse each other (a lost answer and a lost removal),
and the third shows what is not excused. A batch of commands interacts through
the ticket, the shared context and the state of repositories; four operations
give a prompt declined in the middle, three repositories one that is changed
while another is checked and one while another is collected. Three paths are a
keeper and two copies to burn, and the one met twice can be a keeper and a copy of
two different groups; two interferences reach a file and its keeper, or change a
size and restore it, for which the fourth content is.
Three levels of directories are one whose change shows two levels up and one
whose change does not. Two terminals and three commands give two that cross and
one that mends what they left. Where a theorem
exists it holds for all values of these constants.

`CHECK_DEADLOCK FALSE` is in every configuration, because every one of the
programs may end: a batch is done, a command returns, the session is quit, the
supervisor returns.

**Fairness.** `Execution` and `ProcessKill` assume weak fairness of the process
(and of the root instance): a process that can run is scheduled unless it is
killed. Answering the gate is not fair: a user may walk away. `App` assumes it
of results of commands and of the quit message: commands run on goroutines of
their own and return. Keys, ticks and sudo prompts are not assumed fair.
`Telemetry` assumes it of the goroutines, and of a select that is offered a
cancelled context for ever: Go picks among ready cases at random. Time passes, and the poller polls. Nothing is
assumed of the subprocess except under `calm`. `SystemOps` assumes it
of the process, and of a declined prompt once Control-C was pressed: the signal
ends sudo. Neither the user nor a command is assumed to answer, for no caller
gives the context a deadline. `Restore`, `Uninstall`, `Dedup`, `Purge` and `Schedule`
state no liveness: their loops take one element of a finite list after the other. For all
but `Schedule` that is a theorem (see the measures below).

## What is proved

TLAPS checks these for every value of the constants that the named assumptions
of the modules admit; the list is in `PROJECT.json`.

* **Execution.** `TypeCorrect` needs `StampBound`, that at most one collision name
  is made per operation. `TakesOnlyTheApproved` follows from `ApprovalInv`: a
  pending operation whose last check has passed, and that nobody raced, has a
  target that still holds what was approved, or nothing (`WindowInv`); earlier
  operations of the same target can only have emptied it. The property alone is
  not inductive, for it says nothing of the time between check and act. With the
  Trash to itself and a moving clock (`~Foreign`, `~SameTick`) `TrashInv` adds that
  names with later stamps are unused (`StampsUsed`), that the chosen name is free
  (`FreeName`), that the copy is in the Trash while the source is removed
  (`Copied`) and that what was trashed stays (`KeptInTrash`); it gives
  `TrashModeDestroysNothing` and `RecordsLeadToTheTrash`. `ReversibleIsHonest`
  also assumes that no path is planned twice and adds that nothing in the Trash
  is lost (`Intact`). What is said of a batch needs no assumption on others:
  `SkippedIsUntouched`, `EndedBatchIsTold` and `ReportIsHonest` follow from
  `ToldInv`, that only a copy to another volume precedes the fate of its operation
  (`Untaken`), that the loop of `Append` has told of the operations it has passed
  (`Recorded`), and that a status is reported at the end, or before anything was
  done (`Reported`).
* `PromiseKept` (in `ExecutionProofs`): `Execution` implements `BatchPromise`
  under no assumption on the surroundings. Each step maps to a step of the
  promise or to a stutter, given `OrderInv`, that the operations before the
  current one have settled and the later ones have not.
* `AtWorstItsOwn` (in `ExecutionProofs`) gives up the assumption on the clock and keeps
  only that on the Trash: all that trash mode can destroy then, besides a raced target
  of another volume, is the one object that an earlier operation of the batch has moved
  to the very same name. It needs to know whose objects lie under names with the time of day
  (`HeldByOwn`), that a plain name is free when it is used (`FreePlain`), and that a pending
  operation has taken and harmed nothing (`NotYet`).
* **ProcessKill.** `OnlyTheConfirmed`, `TrueVerdicts` and `PromiseKept` follow from
  one invariant: the order of the two instances (`Order`), how many signals each
  of their positions allows (`Signalled`), and what a passed check leaves behind
  (`Checked`).
* **Restore.** `OnlyVerifiedIsRestored` and `AtWorstItsOwn`, with no assumption on the
  clock: the source stays verified and the destination free up to the move unless an
  intruder came (`SourceVerified`, `DestinationFree`), a name made twice holds what the
  restore put there (`NamesHeld`), and what is removed after a copy has been copied
  (`SourceCopied`). So besides intruders a restore destroys only what it has itself put
  alongside, and without a second name of the same second nothing. `HistoryOnlyGrows` says
  what an append does to the lines before it: ended lines stay, a line without its end is
  spoilt by the next, and a history that `ReadAll` gives up on is never mended by
  the program. The order of
  the log needs no assumption on the names: `RestoreUndoes` and `NewestFirst` rest on
  `Ordered`, that the queue descends and that what has been put back belongs to
  later lines than what is still to do (`PlacedFirst`). To it the first adds `Pending`,
  that every record is in the queue or settled, and the second `Named`, that an item was
  put alongside only where the name was taken. Both hold of any number of deletions
  of one path.
* **App.** For every bound and with or without the kill key, provided the first
  message of `suns get-coffee` comes before the first key (`~TypeAhead`): `Drawn`,
  `DrawnAgain`, `OneJob`, `NothingLeftRunning`, `AlwaysGated`. The invariant adds that a kill
  under way has its dashboard's poller and waits for nothing else (`KillReturns`),
  and that before the first message nothing has happened.
* **Telemetry** (in `AppProofs`, of the instance `Source`, with its assumption on
  the channel as hypothesis). `HonestBetweenRuns` and `NeverTwoSubprocesses`, which is
  `OneChild` for every capacity of the channel and any rest in the pipe; the invariant relates the counter of subprocesses to the current one, and the result
  of a run to the health.
* **Uninstall.** For any paths, packages, payloads and plists: `SharedIsKept`,
  `JobGoesWithPlist`, `LiveJobsAreSafe`. The invariant says of the plan what the
  properties say of the outcome: what is queued was found by name, not asked
  about, or no other package's (`Guarded`); a plist in it has its job in it
  (`Paired`); an orphan's program is gone (`Orphaned`); and of the batch that what
  is removed lies at a path of the plan and goes after all bootouts (`Removed`,
  `BootedOut`). `PlanOrder` is the lemma about the three parts of the plan. That two
  claimants count as more than one needs finitely many packages
  (`PackageAssumption`). `NothingLeftUnexplained` is about all that happens to a
  package on its way from discovery to `Forget`: `Covered` says that discovery
  queued, retained or passed over each path of a payload whose receipt is queued,
  `FilesGone` that a file the batch did not skip is gone with all in it but for what
  others brought, `ForgottenLast` that receipts go after both.
* **SystemOps.** For every plan: `OkIsDone`, `CollectedClean`, `NeverAgain`. `Progress`
  relates the position in the batch to the statuses and to the commands that have
  returned; `Vetted` says that a repository with a positive verdict is clean
  unless it is late, and is true of no operation before its check.
* **Dedup.** For any walk, contents, thresholds, orders of the groups and numbers of
  interferences. `OnlyDuplicatesGo`: `Shows` says that a recorded identity is of the
  content that was hashed and that what others do afterwards shows in it or is
  counted, `Clear` the same of what the last check has let pass, which is the one of
  `Revalidate` in trash mode and that of `Verify` up to the unlink in obliterate mode. `ACopyIsKept` is about
  several groups at once: `Better` is a strict order in which any two paths compare
  (`BetterOrders`), so among the paths of one content there is a best one (`BestPath`), and
  a path that is burned has a better one (`Planned`); therefore the best is never
  burned, and holds what was hashed unless others changed it (`Kept`). That a path
  collected twice was hashed alike (`Agree`) is what makes this true of overlapping roots.
* **Purge.** For any tree: `OnlyEmptyGo` and `OnlyDanglingGo`. `Emptied` says that
  whatever is below a directory found empty came later, and where it came unseen it
  is counted, or else the identity recorded of that directory is out of date
  (`Stale`); `Dangles` says the same of a link and its target. `Descent` says that an
  obliteration under way is of a tree whose check has passed, and goes only to places below
  its root, through directories it has listed; so what it takes was there to be checked,
  or came after the check and is counted. The lemmas about
  `Above` are those of a tree: `AboveMeans` is the induction along it, and
  `EntryBetween` finds the entry of a directory through which a deeper place is reached.
* **Schedule** (in `UninstallProofs`, of the instance `Agent`, with its assumptions on
  hours and bounds as hypotheses). `SaidIsAlwaysSo`, which is `SaidIsSo` for any terminals: `OnCourse` is
  what a command that nobody crossed may rely on at its next step, and a step of
  another terminal leaves it alone or crosses it (`OthersUntouched`).

**One promise of five commands.** `PlanKept`, in the modules of `Execution`, `SystemOps`,
`Uninstall`, `Dedup` and `Purge`, says that each of them implements `PlanPromise`,
`Spec => Plan!Spec`, under no assumption on the surroundings. Discovery may change the plan up to the
gate, and consent seals it; every operation is checked once, and all of them before the
first acts; an operation that failed its check is recorded as skipped and touches nothing;
the world feels the others one at a time, in the order of the plan, never after their
fate was recorded; and a command that is declined, cannot open its log or is killed has
no effect from then on. `PlanPhase` of each module maps the program counter to the five
phases, `effect` is what the ghosts remember of the world (`took` and `harmed`; `runs`, `ended`
and `soiled`; `took`, `installed` and `notOut`; `removed`), and where a model has arrays with a
current index, `FirstOf` takes the part that is settled. The plan of `Uninstall` is the
concatenation `Ops` of three parts that are queued separately, so that the one order of
verdicts and fates there is the content of `PlanOrder`. For `Execution` this is another promise than
`BatchPromise`, which says what the log tells of the fates. `PlanPromise` is no property of
a listed run; TLC has checked it on the bounds of the runs before it was proved.

**Every loop ends.** Liveness needs fairness, which is out of the prover's reach; what
can be proved is that there are only so many steps to take. Each theorem gives
a measure that every step of the program lowers and that no step of the
surroundings raises: `BatchIsFinite` of `Execution` (at most 6N + 2 steps for N
operations) and of `SystemOps` (17 for each operation, with both commands of a flush, the
prompts and the retries, and one more), `KillIsFinite` of `ProcessKill` (12 of command and
helper together), `RestoreIsFinite` of `Restore` (4 for each line of the history, and one
more; reading the history again starts anew). `SearchIsFinite` of `Uninstall` and `Dedup` and
`SweepIsFinite` of `Purge` are lexicographic measures of four or three natural components
(`LessToDo`), for there a step in one loop may refill the loops within: the next package has a
payload of any length, the next size a group of any number of files, the next
obliteration a tree to descend, which others may fill but of which each directory is
listed only once. Under the weak fairness of the process, that an approved
batch, a command and an interrupted batch end follows from these but for deadlock; that
last step stays with TLC (`ApprovedBatchEnds`, `CommandEnds`, `InterruptEnds`).

**Never a third try.** `NeverAThirdTry` of `SystemOps`: of no operation is a command started
more than once, or twice when it goes through the chokepoint, whatever exit codes and
expiring tickets make of it. `NotAgainAfterSuccess` says nothing of commands that keep
failing. `Tries` relates the count of starts to the position, to `cmd` and to `try`;
that `try` is 1 again when the second command of a flush begins is what makes it hold.

Attempts at these proofs that failed led back to the models. The walk of `Dedup` may
meet a path twice; then the same path can be the keeper of one group and a copy in
another, and "the keeper of the group is still there" is false though a better
path of the content is (`ACopyStays` speaks of paths). A writer who changes the size
of a large file and changes it back with the mtime set back is not seen by a
comparison of size and mtime (`PlannedAs`). A file number that comes again must be
that of a later file, or the identity would not tell the two apart (`OtherReplaces`).
`dedup_burn` has all three in its bounds now.

**Model-checked only.** All liveness (`ApprovedBatchEnds`, `CommandEnds`, `BusyEnds`,
`CancelEnds`, `NetReadersEnd`, `DeadTurnsStale`, `Recovers`, `InterruptEnds`), which is out of the
prover's reach. Every safety property that a passing run checks is proved, under the
assumptions named above where there are any.

## Where code and documents disagree

One disagreement has a run that ends in a counterexample, `kill_name`, and
`PROJECT.json` quotes the statement: `suns ps --kill` pairs the name of the list with
an identity read later (`internal/cli/ps.go:120`), so that the gate may show the name
of one process and signal another.

The others are part of the models, as a case of a failure, a ghost, an assumption
or a `raced`, and the properties are stated around them:

*Terminal interface, restore, Trash*

* Esc on a home dashboard drops the poller before a last drawing
  (`internal/tui/app.go:375`): `suns get-coffee` ends in a panic, where `app.go:122`
  says that leaving it quits the program (the exception in `DrawnFromPoller`).
* The mode of deletion may be switched while a plan is on the screen
  (`internal/tui/app.go:268`): the badge tells another reversibility than the
  execution has, against `Docs/SunsMasterTD.md:310`.
* `alongside` does not look up the name it makes (`internal/restore/restore.go:107`,
  against the comment at `:76`): of two records of an occupied path that `--all` restores
  within a second the second replaces the first, which has left the Trash for it.
  `restore_undo` has this in its bounds (`SameSecond`); `DestroysOnlyExpendable` says that
  nothing beyond it goes.
* A move across volumes changes the mtime by which large items are verified
  (`pkg/trash/trash.go:227`, against `pkg/safety/identity/identity.go:131`): they are
  refused as modified (`mtime` in `Restore`).

*Batches, processes, telemetry*

* The batch checks every target first and acts later; in trash mode a target
  exchanged meanwhile is moved unseen (`pkg/trash/trash.go:95`; `raced`).
  `Docs/SunsMasterTD.md:394` speaks of a second look.
* Three targets of one name within one millisecond leave two in the Trash
  (`pkg/trash/trash.go:160`; `SameTick`).
* A batch that is killed has moved targets that no record names
  (`internal/cli/clean.go:116`; `TakenIsRecorded` speaks of `done` only).
* Between the identity check and `unlinkat`, or kill(2), the object or the PID
  may change (`pkg/safety/fsdelete/fsdelete.go:63` and `:90`,
  `pkg/procctl/procctl.go:55` and `:62`; `raced`, and `slipped` in `Dedup` and `Purge`); what
  comes into a directory before it is listed (`fsdelete.go:110`) goes with it.
* `copyThenUnlink` removes whatever the source holds after the copy
  (`pkg/trash/trash.go:187`); when it cannot, the target counts as skipped and its
  copy stays in the Trash.
* A helper that was interrupted may have signalled although the command says it
  had no privilege (`internal/procadmin/killer.go:74`; the exception in
  `VerdictIsTrue`).
* One line cut short makes the whole log unreadable
  (`pkg/history/history.go:95`; `ReadFails`).
* "k" on the dashboard is taken by the Up binding (`internal/tui/keys.go:20`), so
  that `startKill` is reached by no key although the hints name one. `app_session`
  sets `KillKey` to cover the flow as written; without it there are only fewer
  behaviours.
* "q" on the busy screen quits the program while a batch runs.
* A sudo prompt that returns on the dashboard starts one more chain of ticks.
* The reader of powermetrics sends to a channel of one document without a look at
  the context (`pkg/plist/tokenizer.go:61`): ended at the wrong time, it stays for
  ever. `NetReadersEnd` is stated for nettop.
* `Close` waits for a subprocess that a user may not be allowed to kill
  (`internal/tui/powerlaunch.go:64`); hence `killable` in `CancelEnds` and `Recovers`.
* A run that ends in a read error leaves the health live; the badge turns after three
  seconds (`DeadTurnsStale`), but the power tiles look at the health alone
  (`internal/tui/dashboard.go:85`) and the network rows at neither (`:125`), so frozen
  numbers stay beside the stale badge, against `dashboard.go:20`. The `stalled`
  of nettop is at once replaced by `unavailable`.

*Uninstallation* (`Uninstall`)

* "Files claimed by more than one package are RETAINED" (`internal/cli/nuke.go:31`),
  but a claim is only known when pkgutil answers: a failed `--file-info` makes a
  shared file, or the directory it lies in, look sole-owned (`unasked`), and a
  retained path goes with a directory above it that was found by name.
* A failed `pkgutil --files` leaves a payload nobody has looked at, and its receipt is
  forgotten all the same (`unlisted`). A package that was relocated is looked for
  where it was installed first (`unseen`).
* A launchd plist in a payload that cannot be decoded is removed without a bootout
  (`mute`), and a bootout that fails with one of five messages is recorded as done
  (`notOut`; `pkg/operation/serviceunload.go:83`).
* Obliterating an enclosing directory after something in it was removed finds its
  identity changed and skips it; the receipt is forgotten nevertheless.

*Commands of the system* (`SystemOps`)

* Exit code 1 is taken for a rejected ticket whatever the command wrote
  (`pkg/privilege/privilege.go:167`; its comment speaks of a message on stderr): a
  privileged command that failed is run a second time and recorded as
  `skipped:no-privilege`. `NotAgainAfterSuccess` says the most that is true.
* "callers should always pass one with a deadline" (`pkg/syscmd/syscmd.go:89`); none
  does. A declined prompt comes again with the next operation.
* `ValidateAtExec` of a repository runs "immediately before acting"
  (`pkg/operation/repomaintenance.go:60`), but the whole plan is validated before the
  first collection (`late`). The operation calls itself recoverable with
  `--prune=now` too.

*Duplicates and purge* (`Dedup`, `Purge`)

* Hard links "are never offered" (`internal/dedup/doc.go:20`): they are not offered
  beside each other, but the one that stands for them may be deleted as a copy of
  a third file, which frees nothing.
* A file changed between its full hash and its identity is deleted with what it
  holds then, and the keeper is not looked at again (`slipped`, `since`).
* A path under two roots is collected twice when its file was replaced in between
  (`internal/dedup/dedup.go:228` looks at inodes, not at paths), so one group may keep what
  another deletes (`Overtaken`).
* The identity of a directory is its own mtime: a file made two levels down after
  discovery goes with the "empty" tree. A link whose target comes back is removed.
* The deny floor is "enforced at plan time, execution time, and every directory
  descent" (`pkg/safety/floor/floor.go:4`), but neither the descent of Obliterate
  (`pkg/safety/fsdelete/fsdelete.go:78`) nor the collapse of empty trees
  (`internal/purge/purge.go:134`) asks it: an empty protected directory goes with an
  empty one above it that is not protected. `purge_sweep` has such a directory in
  `Protected`, and `Move` and the descent take it along.

*Scheduler* (`Schedule`)

* The hour that install prints is not clamped, the plist's is
  (`internal/cli/schedule.go:53`, `internal/scheduler/scheduler.go:157`).
* `Uninstall` ignores a bootout that failed: the agent stays loaded without a plist
  (`deaf`), although "removed" is printed; and an install beside an uninstall can leave
  an agent without a plist (`crossed`).

## What is not modelled

Configuration, network tools, audit and doctor only read and report: their
concurrency is one command after the other, their content parsing. The deny floor
and the firmlinks are predicates over path strings; where they refuse, the models
take a failed check. Of the container engine only the command is modelled; what a
prune removes is the engine's choice. The walk that finds repositories gives
`SystemOps` its plan. String matching of names, labels and package ids is a constant
of `Uninstall`. Rendering, parsing, sizes and redaction are left out. The native
Trash is a stub in this build, so its breaker is never reached. Within `Telemetry`
the sources the poller reads in process are left out; within `App` the choice of processes to list. Discoveries and batches that end in
file deletions are joined to `Execution` by their operations' fates, not by its
system calls: of `FileDeleteOp`, `Uninstall`, `Dedup` and `Purge` have what their properties tell apart: the check of
Obliterate apart from the removal, and in `Purge` the removal entry by entry; the move to the Trash
is one step there. A prune that finds no engine wired (`skipped:no-engine`) is left out of
`SystemOps`: `docker-prune` wires one before it executes.

## Plan

Done: 1. `BatchPromise`, `Execution`; 2. `KillPromise`, `ProcessKill`; 3. `Restore`;
4. `App`; 5. `Telemetry`; 6. `Uninstall`; 7. `SystemOps`; 8. `Schedule`; 9. `Dedup`;
10. `Purge`, each with its proofs.

After them: `PlanPromise`, proved of the five commands that seal a plan; the measures; and the
theorems without `~SameSecond` and `~SameTick`; the window between Obliterate's check and its
unlinks in `Dedup`, `Purge` and `Uninstall`.

Left: a theorem for a Trash that others use as well (`Foreign`), where only
`TakesOnlyTheApproved` and what is told of a batch are known; a measure for
`Schedule`, whose commands of several terminals share no loop; and the models of the sources that
`Telemetry` reads in process.
