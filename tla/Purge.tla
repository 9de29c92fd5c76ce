-------------------------------- MODULE Purge --------------------------------
(***************************************************************************)
(* `suns clean empty-dirs` and `suns clean broken-symlinks`: the discovery *)
(* in internal/purge, the scope confirmation and the batch of runPurge.    *)
(*                                                                         *)
(* empty-dirs walks the tree, then looks at the directories again, the     *)
(* deepest first, then records the identity of the topmost empty ones.     *)
(* Other programs create, remove and exchange entries between any two of   *)
(* these steps; what they do and what fails is counted by troubles.        *)
(***************************************************************************)
EXTENDS Naturals, FiniteSets, Sequences

CONSTANTS
  Root,        \* the named directory
  Place,       \* the paths below it where something may be
  Walk,        \* all of them in the order of the walk
  Parent,
  Kind,        \* what a place may hold: dir, file, link or store, a .DS_Store
  Depth,
  Protected,   \* the paths on the deny floor
  MaxTrouble

Dirs  == {x \in Place : Kind[x] = "dir"}
Links == {x \in Place : Kind[x] = "link"}

ASSUME TreeAssumption ==
  /\ Root \notin Place /\ Parent \in [Place -> Dirs \cup {Root}]
  /\ Kind \in [Place -> {"dir", "file", "link", "store"}]
  /\ Depth \in [Place -> Nat] /\ Protected \subseteq Place
  /\ \A x \in Place : Parent[x] # Root => Depth[x] > Depth[Parent[x]]
ASSUME WalkAssumption ==
  /\ Walk \in Seq(Place) /\ Place = {Walk[k] : k \in DOMAIN Walk}
  /\ \A j, k \in DOMAIN Walk : Parent[Walk[j]] = Walk[k] => k < j
ASSUME BoundAssumption == MaxTrouble \in Nat

VARIABLES
  command,   \* empty-dirs or broken-symlinks
  mode,      \* operation.Mode
  pc,        \* what the process does next
  at,        \* how far the walk has come
  listed,    \* the entries the walk was told of
  assessed,  \* the directories whose collapsibility is known
  collapsible,
  todo,      \* the collapsible directories not yet emitted
  ops,       \* Result.Ops: path and recorded identity
  verdict,   \* ValidatedOp.Err = nil, as far as Revalidate has come
  fate,      \* Receipt.Fate, as far as Execute has come
  descent,   \* how removeAt stands to a place, in obliterate mode
  present,   \* the places that hold something
  stamp,     \* inode and mtime of what a place holds, as a number of changes
  target,    \* of a link: there, missing, or not to be reached
  troubles,
  removed,   \* ghost: what the batch removed, and by which operation
  slipped    \* ghost: what others changed where no check follows

scan  == <<at, listed, assessed, collapsible, todo, ops>>
world == <<present, stamp, target>>
ghost == <<removed, slipped>>
vars  == <<command, mode, pc, scan, verdict, fate, descent, world, troubles, ghost>>

Well    == UNCHANGED troubles
Trouble == troubles < MaxTrouble /\ troubles' = troubles + 1

Children(x) == {y \in present : Parent[y] = x}

\* The directory of a place below Root is there when the place is.
Rooted(S) == \A x \in S : Parent[x] \in S \cup {Root}

\* The directories below Root that a place is in: the least set that has its own.
Above == [x \in Place |-> {y \in Place : \A S \in SUBSET Place :
                             Rooted(S) /\ Parent[x] \in S \cup {Root} => y \in S}]

Subtree(x) == {y \in present : x = y \/ x \in Above[y]}

Init ==
  /\ command \in {"empty-dirs", "broken-symlinks"}
  /\ mode \in {"trash", "obliterate"}
  /\ present \in {S \in SUBSET Place : Rooted(S)}
  /\ target \in [Links -> {"there", "missing", "unreachable"}]
  /\ stamp = [x \in Place |-> 0]
  /\ pc = "walk" /\ at = 0 /\ listed = Children(Root)
  /\ assessed = {} /\ collapsible = {} /\ todo = {} /\ ops = <<>>
  /\ verdict = <<>> /\ fate = <<>> /\ descent = [x \in Place |-> "unseen"]
  /\ troubles = 0 /\ removed = {} /\ slipped = {}

-----------------------------------------------------------------------------
(* The walk reads each directory it was told of; of one that cannot be     *)
(* read any more it notes a skip.  A link is followed by stat: only a      *)
(* missing target, no other error, makes it a finding.                     *)
Walks(x) == /\ pc = "walk" /\ todo = {} /\ at < Len(Walk) /\ x = Walk[at + 1] /\ at' = at + 1
            /\ UNCHANGED <<command, mode, pc, assessed, collapsible, verdict, fate, descent,
                           world, ghost>>

VisitDir(x) ==
  /\ Walks(x) /\ Kind[x] = "dir" /\ UNCHANGED <<todo, ops>>
  /\ \/ listed' = (IF x \in listed THEN listed \cup Children(x) ELSE listed) /\ Well
     \/ x \in listed /\ x \in present /\ UNCHANGED listed /\ Trouble

\* Mutant: whatever stat reports, the link is taken for broken.
Dangling_AnyError(x) == target[x] # "there"

Dangling(x) == target[x] = "missing"

Finding(x) == command = "broken-symlinks" /\ Kind[x] = "link" /\ x \in listed
                /\ x \in present /\ Dangling(x) /\ x \notin Protected

VisitOther(x) ==
  /\ Walks(x) /\ Kind[x] # "dir" /\ Well
  /\ todo' = IF Finding(x) THEN {x} ELSE {}
  /\ UNCHANGED <<listed, ops>>

\* The identity of a finding, unless it is gone or cannot be read.
Identify(x) ==
  /\ x \in todo /\ todo' = todo \ {x}
  /\ \/ x \in present /\ ops' = Append(ops, [path |-> x, ident |-> stamp[x]]) /\ Well
     \/ UNCHANGED ops /\ IF x \in present THEN Trouble ELSE Well
  /\ UNCHANGED <<command, mode, pc, at, listed, assessed, collapsible, verdict, fate,
                 descent, world, ghost>>

IdentifyLink(x) == pc = "walk" /\ Identify(x)

WalkEnds ==
  /\ pc = "walk" /\ at = Len(Walk) /\ todo = {}
  /\ pc' = IF command = "empty-dirs" THEN "assess" ELSE "emitted"
  /\ UNCHANGED <<command, mode, scan, verdict, fate, descent, world, troubles, ghost>>

\* The walk and the assessment look at the context.
Interrupt ==
  /\ pc \in {"walk", "assess"} /\ Trouble /\ pc' = "declined"
  /\ UNCHANGED <<command, mode, scan, verdict, fate, descent, world, ghost>>

-----------------------------------------------------------------------------
(* empty-dirs, the deepest directories first.                              *)
Found == listed \cap Dirs

\* Mutant: every subdirectory is taken for empty.
IsCollapsible_AnySubdir(x) ==
  x \in present /\ \A y \in Children(x) : Kind[y] \in {"dir", "store"}

IsCollapsible(x) ==
  x \in present /\ \A y \in Children(x) : \/ Kind[y] = "store"
                                          \/ Kind[y] = "dir" /\ y \in collapsible

Assess(x) ==
  /\ pc = "assess" /\ x \in Found \ assessed
  /\ \A y \in Found \ assessed : Depth[y] <= Depth[x]
  /\ assessed' = assessed \cup {x}
  /\ \/ collapsible' = collapsible \cup {y \in {x} : IsCollapsible(y)} /\ Well
     \/ IsCollapsible(x) /\ UNCHANGED collapsible /\ Trouble
  /\ UNCHANGED <<command, mode, pc, at, listed, todo, ops, verdict, fate, descent, world, ghost>>

\* Those whose parent is not collapsible; one on the deny floor is refused.
Maximal == {x \in collapsible : Parent[x] \notin collapsible /\ x \notin Protected}

Assessed ==
  /\ pc = "assess" /\ Found \subseteq assessed
  /\ pc' = "emit" /\ todo' = Maximal
  /\ UNCHANGED <<command, mode, at, listed, assessed, collapsible, ops, verdict, fate,
                 descent, world, troubles, ghost>>

Emit(x) == pc = "emit" /\ (\A y \in todo : Depth[y] <= Depth[x]) /\ Identify(x)

Emitted ==
  /\ pc = "emit" /\ todo = {} /\ pc' = "emitted"
  /\ UNCHANGED <<command, mode, scan, verdict, fate, descent, world, troubles, ghost>>

-----------------------------------------------------------------------------
(* runPurge.                                                               *)
\* Nothing found, --dry-run, the answer, or no history log or Trash.
Answer ==
  /\ pc = "emitted"
  /\ pc' \in IF ops = <<>> THEN {"done"} ELSE {"check", "declined"}
  /\ UNCHANGED <<command, mode, scan, verdict, fate, descent, world, troubles, ghost>>

Matches(op) == op.path \in present /\ stamp[op.path] = op.ident

Check ==
  /\ pc = "check"
  /\ LET op == ops[Len(verdict) + 1]
     IN \/ verdict' = Append(verdict, Matches(op)) /\ Well
        \/ Matches(op) /\ verdict' = Append(verdict, FALSE) /\ Trouble
  /\ pc' = IF Len(verdict') = Len(ops) THEN "run" ELSE pc
  /\ UNCHANGED <<command, mode, scan, fate, descent, world, ghost>>

Settle(f) == /\ fate' = Append(fate, f)
             /\ pc' = IF Len(fate') = Len(ops) THEN "done" ELSE "run"
             /\ UNCHANGED <<command, mode, scan, verdict, target, slipped>>

Due(op) == verdict[Len(fate) + 1]
             /\ IF mode = "trash" THEN op.path \in present ELSE Matches(op)

Skip ==
  /\ pc = "run"
  /\ IF Due(ops[Len(fate) + 1]) THEN Trouble ELSE Well
  /\ Settle("skipped") /\ UNCHANGED <<descent, present, stamp, removed>>

\* Part of the tree is taken out of the directory of x.
Takes(S, x) ==
  /\ present' = present \ S
  /\ stamp' = [y \in Place |-> IF Parent[x] = y THEN stamp[y] + 1 ELSE stamp[y]]
  /\ removed' = removed \cup {[op |-> Len(fate) + 1, place |-> y,
                               target |-> IF y \in Links THEN target[y] ELSE "none"] : y \in S}

\* Into the Trash, as a whole.
Move ==
  /\ pc = "run" /\ mode = "trash" /\ Due(ops[Len(fate) + 1]) /\ Well
  /\ LET x == ops[Len(fate) + 1].path IN Takes(Subtree(x), x)
  /\ Settle("removed") /\ UNCHANGED descent

-----------------------------------------------------------------------------
(* Obliterate compares the identity by path, and then takes entry after    *)
(* entry: each directory is opened and listed, its entries are removed by  *)
(* name within it, and then the directory, if nothing is left in it.       *)
Verify ==
  /\ pc = "run" /\ mode = "obliterate" /\ Due(ops[Len(fate) + 1]) /\ pc' = "unlink"
  /\ descent' = [descent EXCEPT ![ops[Len(fate) + 1].path] = "named"]
  /\ UNCHANGED <<command, mode, scan, verdict, fate, world, troubles, ghost>>

Opened == {y \in Place : descent[y] = "opened"}

\* removeAt comes to y, and later, with every entry it was told of, back to it.
Reaches(y) == descent[y] = "named" /\ Opened \subseteq Above[y]
Leaves(y)  == descent[y] = "opened" /\ Opened \subseteq Above[y] \cup {y}
                /\ \A z \in Place : Parent[z] = y => descent[z] # "named"

Descends == pc = "unlink" /\ UNCHANGED <<command, mode, pc, scan, verdict, fate, target, slipped>>
Marks(y, s) == descent' = [descent EXCEPT ![y] = s]
Spares == UNCHANGED <<present, stamp, removed>>

Open(y) ==
  /\ Descends /\ Reaches(y) /\ y \in present \cap Dirs /\ Spares
  /\ \/ /\ descent' = [z \in Place |-> IF z = y THEN "opened"
                                       ELSE IF z \in Children(y) THEN "named" ELSE descent[z]]
        /\ Well
     \/ Marks(y, "skipped") /\ Trouble

\* Of a directory only when it is empty by now.
Unlink(y) ==
  /\ Descends /\ (IF y \in Dirs THEN Leaves(y) ELSE Reaches(y)) /\ y \in present
  /\ \/ Children(y) = {} /\ Marks(y, "unlinked") /\ Takes({y}, y) /\ Well
     \/ Marks(y, "skipped") /\ Spares /\ IF Children(y) = {} THEN Trouble ELSE Well

\* Gone before it was looked at, or only after; a rmdir of nothing is a success.
Vanish(y) ==
  /\ Descends /\ y \notin present /\ Spares /\ Well
  /\ \E s \in {"absent", "unlinked", "skipped"} :
       /\ IF Leaves(y) THEN s = "unlinked"
          ELSE Reaches(y) /\ s # (IF y \in Dirs THEN "unlinked" ELSE "skipped")
       /\ Marks(y, s)

Return ==
  /\ pc = "unlink" /\ descent[ops[Len(fate) + 1].path] \notin {"named", "opened"}
  /\ Settle(IF (\E y \in Place : descent[y] = "skipped") /\ \A y \in Place : descent[y] # "unlinked"
              THEN "skipped" ELSE "removed")
  /\ descent' = [y \in Place |-> "unseen"] /\ Spares /\ Well

Process == \/ \E x \in Place : \/ VisitDir(x) \/ VisitOther(x) \/ IdentifyLink(x)
                               \/ Assess(x) \/ Emit(x)
                               \/ Open(x) \/ Unlink(x) \/ Vanish(x)
           \/ WalkEnds \/ Interrupt \/ Assessed \/ Emitted \/ Answer \/ Check
           \/ Skip \/ Move \/ Verify \/ Return

-----------------------------------------------------------------------------
(* Other programs.                                                         *)
Others(S) == /\ pc \notin {"done", "declined"} /\ Trouble
             /\ slipped' = slipped \cup S
             /\ UNCHANGED <<command, mode, pc, scan, verdict, fate, removed>>

Planned == {ops[k].path : k \in DOMAIN ops}

\* No check follows any more: in trash mode after Revalidate, in obliterate mode
\* from Verify to the last unlink.
Passed(k) == verdict[k] /\ (mode = "trash" \/ (pc = "unlink" /\ k = Len(fate) + 1))
Cleared == {ops[k].path : k \in {k \in DOMAIN verdict : Passed(k)}}

\* Changes in x no later check shows: below a directory already found empty,
\* unless it is the one whose recorded identity is still to be compared.
Unchecked(x) == \E d \in Above[x] \cap collapsible :
                  d \notin Planned \/ d # Parent[x] \/ d \in Cleared

Touch(x) == stamp' = [y \in Place |-> IF y \in {x, Parent[x]} THEN stamp[y] + 1 ELSE stamp[y]]

OtherCreates(x) ==
  /\ x \notin present /\ Parent[x] \in present \cup {Root}
  /\ present' = present \cup {x} /\ Touch(x) /\ UNCHANGED <<descent, target>>
  /\ Others({y \in {x} : Unchecked(y)})

\* In a directory that is gone nothing is found by name.
Orphaned(s) == CASE s = "named" -> "absent" [] s = "opened" -> "unlinked" [] OTHER -> s

OtherRemoves(x) ==
  /\ x \in present /\ Children(x) = {}
  /\ present' = present \ {x} /\ Touch(x) /\ UNCHANGED target
  /\ descent' = [y \in Place |-> IF Parent[y] = x THEN Orphaned(descent[y]) ELSE descent[y]]
  /\ Others({})

\* The target of a link comes or goes, the link itself unchanged.
OtherChangesTarget(x, t) ==
  /\ target[x] # t /\ target' = [target EXCEPT ![x] = t]
  /\ UNCHANGED <<descent, present, stamp>>
  /\ Others({x} \cap (todo \cup Planned))

\* A link is replaced by one to another target.
OtherRelinks(x, t) ==
  /\ x \in present /\ target[x] # t /\ target' = [target EXCEPT ![x] = t]
  /\ Touch(x) /\ UNCHANGED <<descent, present>>
  /\ Others({x} \cap (todo \cup Cleared))

Environment == \/ \E x \in Place : OtherCreates(x) \/ OtherRemoves(x)
               \/ \E x \in Links, t \in {"there", "missing", "unreachable"} :
                    OtherChangesTarget(x, t) \/ OtherRelinks(x, t)

Next == Process \/ Environment
Spec == Init /\ [][Next]_vars

-----------------------------------------------------------------------------
(* A file or a link goes with an "empty" directory only if another program *)
(* made it after the directories above it were found empty, and then only  *)
(* where the recorded identity, the directory's own mtime, does not show   *)
(* it: before it was recorded, two or more levels down, or after the last  *)
(* check, which trash mode makes before the batch and obliterate mode      *)
(* before it lists the directory (isCollapsible, VerifyFile, removeAt).    *)
OnlyEmptyOnes ==
  command = "empty-dirs" =>
    \A r \in removed : Kind[r.place] \in {"file", "link"} => r.place \in slipped

(* A link is removed only while its target is missing, unless the target   *)
(* came back after stat, which nothing repeats, or the link was exchanged  *)
(* between stat and its identity or after the last check: in trash mode    *)
(* the one before the batch, in obliterate mode the one by path before the *)
(* unlink by name.                                                         *)
OnlyDangling ==
  command = "broken-symlinks" =>
    \A r \in removed : r.target = "missing" \/ r.place \in slipped
==============================================================================
