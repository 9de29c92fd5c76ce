------------------------------ MODULE Uninstall ------------------------------
(***************************************************************************)
(* `suns nuke` and `suns orphans`: the discovery of what belongs to an     *)
(* application (internal/uninstaller), or of launchd jobs whose program is *)
(* gone (internal/orphans), and the batch of unlike operations that        *)
(* follows: ServiceUnloadOp, FileDeleteOp, ReceiptForgetOp, run by         *)
(* safety.Execute in this order.                                           *)
(*                                                                         *)
(* Discovery asks pkgutil one question at a time and ignores its errors;   *)
(* the plan may wait at the gate for long.  Meanwhile other programs       *)
(* remove, change and install files, and launchd loads jobs again.  What   *)
(* goes wrong, a command that fails or an interference, is counted by      *)
(* troubles and bounded by MaxTrouble.                                     *)
(***************************************************************************)
EXTENDS Naturals, FiniteSets, Sequences

CONSTANTS
  Item,        \* paths: bundle, support files, payload, launchd plists
  App,         \* the application bundle
  Traced,      \* the paths found by name, in the order of the search
  Plist,       \* the launchd plists among the paths
  Jobs,        \* the plists in the launchd directories, sorted
  Program,     \* the path a plist's program needs
  In,          \* the paths below a directory
  Package,     \* package ids
  Related,     \* the packages relatedPkg accepts, as pkgutil lists them
  Lists,       \* the payload of a package, as pkgutil --files lists it
  MaxTrouble   \* how many commands fail or programs interfere

ASSUME PathAssumption    == App \in Item /\ Plist \subseteq Item /\ In \in [Item -> SUBSET Item]
ASSUME JobAssumption     == Jobs \in Seq(Plist) /\ Program \in [Plist -> Item]
ASSUME TraceAssumption   == Traced \in Seq(Item)
ASSUME PackageAssumption == Related \in Seq(Package) /\ Lists \in [Package -> Seq(Item)]
                            /\ IsFiniteSet(Package)
ASSUME BoundAssumption   == MaxTrouble \in Nat

VARIABLES
  command,   \* nuke or orphans
  mode,      \* operation.Mode
  pc,        \* what the process does next
  todo,      \* the payload or the plists still to be looked at
  pkgs,      \* the receipts still to be looked at
  service,   \* engine.service: plists whose job is booted out
  files,     \* engine.files
  forget,    \* engine.forget
  retained,  \* engine.retained
  verdict,   \* ValidatedOp.Err = nil, as far as Revalidate has come
  fate,      \* Receipt.Fate, as far as Execute has come
  present,   \* the paths that exist
  same,      \* the paths whose identity is the one recorded
  loaded,    \* the plists whose job launchd has loaded
  claims,    \* the packages whose receipt lists a path
  installed, \* the receipts there are
  troubles,  \* faults and interferences so far
  took,      \* ghost: paths the batch has removed
  unasked,   \* ghost: paths whose claimants pkgutil did not tell
  unseen,    \* ghost: paths discovery passed over: absent or unreadable
  unlisted,  \* ghost: packages whose payload pkgutil did not tell
  mute,      \* ghost: launchd plists in a payload that could not be decoded
  foreign,   \* ghost: paths others put back, jobs others loaded again
  notOut     \* ghost: jobs whose bootout failed with a message of success

engine == <<service, files, forget, retained>>
world  == <<present, same, loaded, claims, installed>>
ghost  == <<took, unasked, unseen, unlisted, mute, foreign, notOut>>
vars   == <<command, mode, pc, todo, pkgs, engine, verdict, fate, world, troubles, ghost>>

SeqSet(s) == {s[k] : k \in DOMAIN s}

Steps == {"resolve", "trace", "list", "claims", "jobs", "gate", "check", "run", "unlink",
          "done", "declined"}
Fates == {"unloaded", "removed", "forgotten", "skipped"}

Tagged(kind, s) == [k \in DOMAIN s |-> [kind |-> kind, of |-> s[k]]]

\* The plan: bootouts, then files, then receipts.
Ops == Tagged("service", service) \o Tagged("file", files) \o Tagged("forget", forget)

Well    == UNCHANGED troubles
Trouble == troubles < MaxTrouble /\ troubles' = troubles + 1

Init ==
  /\ command \in {"nuke", "orphans"}
  /\ mode \in {"trash", "obliterate"}
  /\ pc = IF command = "nuke" THEN "resolve" ELSE "jobs"
  /\ todo = IF command = "nuke" THEN <<>> ELSE Jobs
  /\ pkgs = <<>> /\ service = <<>> /\ files = <<>> /\ forget = <<>> /\ retained = {}
  /\ verdict = <<>> /\ fate = <<>>
  /\ present \in {Item} \cup {Item \ {i} : i \in Item}
  /\ same = {} /\ loaded = Plist \cap present
  /\ installed = Package
  /\ claims = [i \in Item |-> {p \in Package : i \in SeqSet(Lists[p])}]
  /\ troubles = 0
  /\ took = {} /\ unasked = {} /\ unseen = {} /\ unlisted = {} /\ mute = {} /\ foreign = {} /\ notOut = {}

-----------------------------------------------------------------------------
(* addFileDelete and addServiceUnload queue each path once; a path that is *)
(* absent, unreadable or on the deny floor is passed over, and so is one   *)
(* whose package was relocated, for its path is made of volume and name.   *)
Queue(i, readable) ==
  IF i \in SeqSet(files) THEN UNCHANGED <<files, same, unseen>>
  ELSE IF i \in present /\ readable
         THEN files' = Append(files, i) /\ same' = same \cup {i} /\ UNCHANGED unseen
         ELSE unseen' = unseen \cup {i} /\ UNCHANGED <<files, same>>

QueueService(i, readable) ==
  service' = IF i \in Plist /\ i \in present /\ readable /\ i \notin SeqSet(service)
               THEN Append(service, i) ELSE service

\* resolveApp finds the bundle and its Info.plist tells a bundle id, or the
\* command ends.
ResolveApp ==
  /\ pc = "resolve"
  /\ \/ App \in present /\ pc' = "trace" /\ todo' = Traced /\ Well
     \/ pc' = "declined" /\ UNCHANGED todo /\ (IF App \in present THEN Trouble ELSE Well)
  /\ UNCHANGED <<command, mode, pkgs, engine, verdict, fate, world, ghost>>

\* The bundle, traceLibrary and traceLaunchJobs, path by path: a launchd plist
\* that cannot be decoded is not taken for the application's.
TraceByName ==
  LET i == Head(todo) IN
  /\ pc = "trace" /\ todo # <<>>
  /\ todo' = Tail(todo)
  /\ \E decoded, readable \in BOOLEAN :
       /\ i \in Plist \/ decoded
       /\ readable => decoded
       /\ QueueService(i, decoded) /\ Queue(i, readable)
       /\ IF readable THEN Well ELSE Trouble
  /\ UNCHANGED <<command, mode, pc, pkgs, forget, retained, verdict, fate, present, loaded,
                 claims, installed, took, unasked, unlisted, mute, foreign, notOut>>

\* pkgutil --pkgs; when it fails there are no packages.
ListPackages ==
  /\ pc = "trace" /\ todo = <<>>
  /\ \/ pkgs' = Related /\ Well
     \/ pkgs' = <<>> /\ Trouble
  /\ pc' = "list"
  /\ UNCHANGED <<command, mode, todo, engine, verdict, fate, world, ghost>>

\* pkgutil --files; when it fails the payload is empty, and the receipt is
\* queued to be forgotten all the same.
ListPayload ==
  /\ pc = "list" /\ pkgs # <<>>
  /\ \/ todo' = Lists[Head(pkgs)] /\ Well /\ UNCHANGED unlisted
     \/ todo' = <<>> /\ Trouble /\ unlisted' = unlisted \cup {Head(pkgs)}
  /\ pc' = "claims"
  /\ UNCHANGED <<command, mode, pkgs, engine, verdict, fate, world, took, unasked,
                 unseen, mute, foreign, notOut>>

\* Mutant: only a path claimed by three packages counts as shared.
AskClaims_ThreeClaimants ==
  LET i == Head(todo) IN
  /\ pc = "claims" /\ todo # <<>>
  /\ todo' = Tail(todo)
  /\ IF Cardinality(claims[i]) > 2
       THEN retained' = retained \cup {i} /\ UNCHANGED <<service, files, same, unseen>>
       ELSE QueueService(i, TRUE) /\ Queue(i, TRUE) /\ UNCHANGED retained
  /\ UNCHANGED <<command, mode, pc, pkgs, forget, verdict, fate, present, loaded,
                 claims, installed, troubles, took, unasked, unlisted, mute, foreign, notOut>>

\* Mutant: a shared path is passed over without a word.
AskClaims_SilentlyKept ==
  LET i == Head(todo) IN
  /\ pc = "claims" /\ todo # <<>>
  /\ todo' = Tail(todo)
  /\ IF Cardinality(claims[i]) > 1
       THEN UNCHANGED <<service, files, same, unseen>>
       ELSE QueueService(i, TRUE) /\ Queue(i, TRUE)
  /\ UNCHANGED <<command, mode, pc, pkgs, forget, retained, verdict, fate, present, loaded,
                 claims, installed, troubles, took, unasked, unlisted, mute, foreign, notOut>>

\* pkgutil --file-info of the next path of the payload: a path of several
\* packages is retained; no answer reads as no claimant at all.
AskClaims ==
  LET i == Head(todo) IN
  /\ pc = "claims" /\ todo # <<>>
  /\ todo' = Tail(todo)
  /\ \E told, decoded, readable \in BOOLEAN :
       /\ IF told /\ Cardinality(claims[i]) > 1
            THEN retained' = retained \cup {i} /\ UNCHANGED <<service, files, same, unseen>>
            ELSE QueueService(i, decoded) /\ Queue(i, readable) /\ UNCHANGED retained
       /\ unasked' = IF told THEN unasked ELSE unasked \cup {i}
       /\ mute' = IF decoded THEN mute ELSE mute \cup {i}
       /\ i \in Plist \/ decoded
       /\ IF told /\ decoded /\ readable THEN Well ELSE Trouble
  /\ UNCHANGED <<command, mode, pc, pkgs, forget, verdict, fate, present, loaded,
                 claims, installed, took, unlisted, foreign, notOut>>

\* The receipt of the package just looked at is queued last.
PayloadRead ==
  /\ pc = "claims" /\ todo = <<>>
  /\ forget' = Append(forget, Head(pkgs)) /\ pkgs' = Tail(pkgs)
  /\ pc' = "list"
  /\ UNCHANGED <<command, mode, todo, service, files, retained, verdict, fate, world,
                 troubles, ghost>>

\* Mutant: any error of Stat counts as a program that is gone.
ScanJob_AnyError ==
  LET j == Head(todo) IN
  /\ pc = "jobs" /\ todo # <<>>
  /\ todo' = Tail(todo)
  /\ \E sure \in BOOLEAN :
       /\ IF Program[j] \notin present \/ ~sure
            THEN QueueService(j, TRUE) /\ Queue(j, TRUE)
            ELSE UNCHANGED <<service, files, same, unseen>>
       /\ IF sure THEN Well ELSE Trouble
  /\ UNCHANGED <<command, mode, pc, pkgs, forget, retained, verdict, fate, present,
                 loaded, claims, installed, took, unasked, unlisted, mute, foreign, notOut>>

\* orphans.Find: a job is orphaned when its program is surely not there; its
\* plist may be unreadable a moment later.
ScanJob ==
  LET j == Head(todo) IN
  /\ pc = "jobs" /\ todo # <<>>
  /\ todo' = Tail(todo)
  /\ \E sure, readable \in BOOLEAN :
       /\ IF Program[j] \notin present /\ sure
            THEN QueueService(j, TRUE) /\ Queue(j, readable)
            ELSE UNCHANGED <<service, files, same, unseen>>
       /\ IF sure /\ readable THEN Well ELSE Trouble
  /\ UNCHANGED <<command, mode, pc, pkgs, forget, retained, verdict, fate, present,
                 loaded, claims, installed, took, unasked, unlisted, mute, foreign, notOut>>

\* The plan is sealed and shown; an empty one ends the command.
Seal ==
  /\ \/ pc = "list" /\ pkgs = <<>>
     \/ pc = "jobs" /\ todo = <<>>
  /\ pc' = IF Ops = <<>> THEN "declined" ELSE "gate"
  /\ UNCHANGED <<command, mode, todo, pkgs, engine, verdict, fate, world, troubles, ghost>>

Answer ==
  /\ pc = "gate"
  /\ pc' \in {"check", "declined"}
  /\ UNCHANGED <<command, mode, todo, pkgs, engine, verdict, fate, world, troubles, ghost>>

-----------------------------------------------------------------------------
\* Revalidate: the plist is there, the file is what was recorded, the receipt is
\* still installed; a check that cannot be made fails.
Check ==
  LET k == Len(verdict) + 1 IN
  /\ pc = "check"
  /\ \E readable \in BOOLEAN :
       /\ verdict' = Append(verdict,
            readable /\ CASE Ops[k].kind = "service" -> Ops[k].of \in present
                          [] Ops[k].kind = "file"    -> Ops[k].of \in present \cap same
                          [] Ops[k].kind = "forget"  -> Ops[k].of \in installed)
       /\ IF readable THEN Well ELSE Trouble
  /\ pc' = IF k = Len(Ops) THEN "run" ELSE pc
  /\ UNCHANGED <<command, mode, todo, pkgs, engine, fate, world, ghost>>

\* The result of the current operation.
Settle(f) ==
  /\ fate' = Append(fate, f)
  /\ pc' = IF Len(fate') = Len(Ops) THEN "done" ELSE "run"
  /\ UNCHANGED <<command, mode, todo, pkgs, engine, verdict, unasked, unseen, unlisted,
                 mute, foreign>>

Now == Len(fate) + 1

\* The operation whose turn it is is of this kind and about x.
Turn(kind, x) == verdict[Now] /\ Ops[Now] = [kind |-> kind, of |-> x]
Runs(kind, x) == pc = "run" /\ Turn(kind, x)

\* A failed check is recorded and not run.
SkipStale ==
  /\ pc = "run" /\ ~verdict[Now]
  /\ Settle("skipped")
  /\ UNCHANGED <<world, troubles, took, notOut>>

\* Mutant: a declined password counts as unloaded.
Bootout_DeclinedIsDone(j) ==
  /\ Runs("service", j)
  /\ \/ loaded' = loaded \ {j} /\ Well
     \/ UNCHANGED loaded /\ Trouble
  /\ Settle("unloaded")
  /\ UNCHANGED <<present, same, claims, installed, took, notOut>>

\* launchctl bootout, as root for /Library: unloaded; refused with one of the
\* messages that count as "not loaded"; refused otherwise, declined, or cut off.
Bootout(j) ==
  /\ Runs("service", j)
  /\ \/ loaded' = loaded \ {j} /\ Well /\ Settle("unloaded") /\ UNCHANGED notOut
     \/ UNCHANGED loaded /\ Trouble /\ Settle("unloaded") /\ notOut' = notOut \cup {j}
     \/ loaded' \in {loaded, loaded \ {j}} /\ Trouble /\ Settle("skipped") /\ UNCHANGED notOut
  /\ UNCHANGED <<present, same, claims, installed, took>>

\* The paths that go change the directories that held them.
Gone(s) ==
  /\ present' = present \ s
  /\ same' = {i \in same : i \notin s /\ In[i] \cap s = {}}
  /\ took' = took \cup (s \cap present)

\* FileDeleteOp.Execute: trash takes what is there.  Obliterate looks at the
\* identity once more, by path, and then removes by name whatever is there: others
\* act before the removal, and with it, entry by entry, it is one step.
Verify(i) ==
  /\ Runs("file", i) /\ mode = "obliterate" /\ i \in present \cap same
  /\ pc' = "unlink"
  /\ UNCHANGED <<command, mode, todo, pkgs, engine, verdict, fate, world, troubles, ghost>>

Unlinks(i) == pc = "unlink" /\ Turn("file", i)

Delete(i) ==
  /\ Unlinks(i) \/ (Runs("file", i) /\ mode = "trash" /\ i \in present)
  /\ Gone({i} \cup In[i])
  /\ Settle("removed")
  /\ UNCHANGED <<loaded, claims, installed, troubles, notOut>>

\* Obliterating a directory may leave some of it.
DeleteInPart(i) ==
  /\ Unlinks(i)
  /\ \E s \in SUBSET (In[i] \cap present) :
       /\ s # {} /\ \A d \in s : In[d] \cap present \subseteq s
       /\ Gone(s)
  /\ Trouble
  /\ Settle("removed")
  /\ UNCHANGED <<loaded, claims, installed, notOut>>

\* Gone or not the same any more, or a call that failed.
Deletable(i) == i \in present /\ (mode = "obliterate" /\ pc = "run" => i \in same)

DeleteSkips(i) ==
  /\ Runs("file", i) \/ Unlinks(i)
  /\ IF Deletable(i) THEN Trouble ELSE Well
  /\ Settle("skipped")
  /\ UNCHANGED <<world, took, notOut>>

\* pkgutil --forget through the chokepoint; a refusal may hide that it ran.
Forget(p) ==
  /\ Runs("forget", p)
  /\ \/ installed' = installed \ {p} /\ Well /\ Settle("forgotten")
     \/ installed' \in {installed, installed \ {p}} /\ Trouble /\ Settle("skipped")
  /\ claims' = [i \in Item |-> claims[i] \cap installed']
  /\ UNCHANGED <<present, same, loaded, took, notOut>>

-----------------------------------------------------------------------------
(* Other programs.  Removing, changing or making a path changes the        *)
(* directories above it.                                                   *)
Disturbed(i) == same' = {d \in same : d # i /\ i \notin In[d]}

OtherRemoves(i) ==
  /\ pc \notin {"done", "declined"} /\ i \in present /\ Trouble
  /\ present' = present \ ({i} \cup In[i])
  /\ Disturbed(i)
  /\ UNCHANGED <<command, mode, pc, todo, pkgs, engine, verdict, fate, loaded, claims,
                 installed, ghost>>

OtherWrites(i) ==
  /\ pc \notin {"done", "declined"} /\ Trouble
  /\ present' = present \cup {i} \cup {d \in Item : i \in In[d]}
  /\ Disturbed(i)
  /\ foreign' = foreign \cup {i} \cup {d \in Item : i \in In[d]}
  /\ UNCHANGED <<command, mode, pc, todo, pkgs, engine, verdict, fate, loaded, claims,
                 installed, took, unasked, unseen, unlisted, mute, notOut>>

\* An application or an update loads its job again.
OtherLoads(j) ==
  /\ pc \notin {"done", "declined"} /\ j \in present \ loaded /\ Trouble
  /\ loaded' = loaded \cup {j}
  /\ foreign' = foreign \cup {j}
  /\ UNCHANGED <<command, mode, pc, todo, pkgs, engine, verdict, fate, present, same,
                 claims, installed, took, unasked, unseen, unlisted, mute, notOut>>

Next ==
  \/ ResolveApp \/ TraceByName \/ ListPackages \/ ListPayload \/ AskClaims
  \/ PayloadRead \/ ScanJob \/ Seal \/ Answer \/ Check
  \/ SkipStale
  \/ \E p \in Package : Forget(p)
  \/ \E i \in Item : Verify(i) \/ Delete(i) \/ DeleteInPart(i) \/ DeleteSkips(i)
  \/ \E j \in Plist : Bootout(j)
  \/ \E i \in Item : OtherRemoves(i) \/ OtherWrites(i)
  \/ \E j \in Plist : OtherLoads(j)

Spec == Init /\ [][Next]_vars

-----------------------------------------------------------------------------
TypeOK ==
  /\ command \in {"nuke", "orphans"} /\ mode \in {"trash", "obliterate"} /\ pc \in Steps
  /\ todo \in Seq(Item) /\ pkgs \in Seq(Package)
  /\ service \in Seq(Plist) /\ files \in Seq(Item) /\ forget \in Seq(Package)
  /\ retained \subseteq Item
  /\ verdict \in Seq(BOOLEAN) /\ fate \in Seq(Fates)
  /\ present \subseteq Item /\ same \subseteq Item /\ loaded \subseteq Plist
  /\ claims \in [Item -> SUBSET Package] /\ installed \subseteq Package
  /\ troubles \in 0..MaxTrouble
  /\ took \subseteq Item /\ unasked \subseteq Item /\ unseen \subseteq Item
  /\ unlisted \subseteq Package /\ mute \subseteq Plist /\ foreign \subseteq Item /\ notOut \subseteq Plist

Above(i) == {d \in Item : i \in In[d]}

\* A package that lists a path lists the directories the path lies in.
ListsDirectories ==
  \A p \in Package : \A i \in SeqSet(Lists[p]) : Above(i) \subseteq SeqSet(Lists[p])

\* Removing one application does not brick another: what two packages list is
\* not removed, unless pkgutil did not answer for it or for a directory above
\* it, or one of these is there by its name.
SharedStays ==
  command = "nuke" /\ ListsDirectories =>
    \A i \in took : \A p, q \in Package :
      p # q /\ i \in SeqSet(Lists[p]) /\ i \in SeqSet(Lists[q]) =>
        ({i} \cup Above(i)) \cap (unasked \cup SeqSet(Traced)) # {}

\* When a receipt is forgotten, whatever of its payload is still there has been
\* accounted for: it was shown as retained, it could not be seen or listed, an
\* operation on it or on a directory with it went wrong, or others brought it.
ForgottenIsExplained ==
  \A k \in DOMAIN fate : fate[k] = "forgotten" =>
    \A i \in SeqSet(Lists[Ops[k].of]) \cap present :
      \/ i \in retained \/ i \in unseen \/ i \in foreign \/ Ops[k].of \in unlisted
      \/ \E n \in DOMAIN fate :
           /\ Ops[n].kind = "file" /\ i \in {Ops[n].of} \cup In[Ops[n].of]
           /\ fate[n] = "skipped" \/ mode = "obliterate"

\* A job whose plist the batch removed is no longer loaded, unless the record of
\* its bootout says so, launchd's refusal was of the kind that counts as success,
\* the plist could not be decoded when it was found, or others loaded the job again.
PlistGoneJobGone ==
  \A j \in SeqSet(files) \cap took \cap loaded :
    \/ j \in foreign \cup notOut \cup mute
    \/ \E k \in DOMAIN fate : Ops[k] = [kind |-> "service", of |-> j] /\ fate[k] = "skipped"

\* `orphans` neither unloads nor removes a job whose program has been there all
\* the time.
LiveJobsStay ==
  command = "orphans" =>
    \A k \in DOMAIN fate : fate[k] \in {"unloaded", "removed"} =>
      Program[Ops[k].of] \notin present \/ Program[Ops[k].of] \in foreign
==============================================================================
