-------------------------------- MODULE Dedup --------------------------------
(***************************************************************************)
(* `suns ashen`: dedup.Find walks the roots, groups files of one size by   *)
(* the hash of their first 4 KB and then by their whole content, chooses a *)
(* keeper in each group and plans to delete the others; internal/cli shows *)
(* the plan and safety.Execute runs it.                                    *)
(*                                                                         *)
(* Other programs write, replace and remove files meanwhile.  A file is    *)
(* read several times, its identity is recorded only after the groups were *)
(* formed, and the keeper is never looked at again.  What others do, and   *)
(* what cannot be read, is counted by troubles.                            *)
(***************************************************************************)
EXTENDS Integers, FiniteSets, Sequences, Functions

CONSTANTS
  Path,        \* regular files, symlinks and the interior of bundles
  Walk,        \* the paths in the order of the walk; roots may overlap
  PassedOver,  \* symlinks, bundle interiors, paths on the deny floor
  Segments,    \* what keeperScore finds in a path
  Depth,       \* the number of separators in a path
  Rank,        \* the lexicographic order of the paths
  Inode,       \* file numbers
  Gone,        \* no file
  Start,       \* the file systems a run may meet: node and data, see below
  Content,
  Size,        \* of a content
  First4K,     \* its first 4 KB
  MinSize,
  Threshold,   \* the size from which size and mtime identify a file
  MaxTrouble

ASSUME WalkAssumption  == Walk \in Seq(Path) /\ PassedOver \subseteq Path
ASSUME PlaceAssumption ==
  /\ Segments \in [Path -> SUBSET {"documents", "desktop", "cache", "downloads", "temporary"}]
  /\ Depth \in [Path -> Nat] /\ Rank \in [Path -> Nat]
  /\ \A p, q \in Path : Rank[p] = Rank[q] => p = q
ASSUME FileAssumption ==
  /\ Inode \subseteq Nat /\ Gone \notin Inode 
  /\ Start \subseteq [node : [Path -> Inode], data : [Inode -> Content]]
  /\ Size \in [Content -> Nat] /\ DOMAIN First4K = Content
  /\ MinSize \in Nat \ {0} /\ Threshold \in Nat /\ MaxTrouble \in Nat

File == 1..Len(Walk)   \* indices into files

VARIABLES
  mode,     \* operation.Mode
  pc,       \* what the process does next
  at,       \* how far the walk has come
  seen,     \* seenInode
  files,    \* the candidates gather returns
  sizes,    \* the keys of bySize still to be ranged over
  left,     \* the files still to be hashed in this pass
  head,     \* the head hash of a file
  full,     \* the full hash of a file
  burn,     \* the deletable members whose identity is not yet recorded
  ops,      \* Report.Ops
  verdict,  \* ValidatedOp.Err = nil, as far as Revalidate has come
  fate,     \* Receipt.Fate, as far as Execute has come
  node,     \* the file a path leads to
  data,     \* what a file holds
  mtime,    \* how often a file's mtime has moved
  troubles,
  removed,  \* ghost: the operations that removed a file, and what it held
  since,    \* ghost: candidates others changed after their full hash
  slipped   \* ghost: candidates others changed where no check follows

scan    == <<at, seen, files, sizes, left, head, full, burn>>
world   == <<node, data, mtime>>
ghost   == <<removed, since, slipped>>
vars    == <<mode, pc, scan, ops, verdict, fate, world, troubles, ghost>>

Unread == "unread"
Well    == UNCHANGED troubles
Trouble == troubles < MaxTrouble /\ troubles' = troubles + 1

There(p)  == node[p] # Gone
Holds(p)  == data[node[p]]
PathOf(i) == files[i].path

\* ComputeFile: a large file is known by its metadata, a small one by content.
Ident(p) == IF Size[Holds(p)] >= Threshold
              THEN <<node[p], Size[Holds(p)], mtime[node[p]]>>
              ELSE <<node[p], Holds(p)>>

Init ==
  /\ mode \in {"trash", "obliterate"}
  /\ pc = "walk" /\ at = 0 /\ seen = {} /\ files = <<>> /\ sizes = {} /\ left = {}
  /\ head = [i \in File |-> Unread] /\ full = [i \in File |-> Unread]
  /\ burn = <<>> /\ ops = <<>> /\ verdict = <<>> /\ fate = <<>>
  /\ \E w \in Start : node = w.node /\ data = w.data
  /\ mtime = [n \in Inode |-> 0]
  /\ troubles = 0 /\ removed = {} /\ since = {} /\ slipped = {}

-----------------------------------------------------------------------------
(* The walk.  A path that cannot be read is tolerated.                     *)
Step(p) == /\ pc = "walk" /\ at < Len(Walk) /\ p = Walk[at + 1] /\ at' = at + 1
           /\ UNCHANGED <<mode, pc, sizes, left, head, full, burn, ops, verdict, fate,
                          world, ghost>>

Candidate(p) == p \notin PassedOver /\ There(p) /\ Size[Holds(p)] >= MinSize
                  /\ node[p] \notin seen

Collect(p) ==
  /\ Step(p) /\ Candidate(p) /\ Well
  /\ seen' = seen \cup {node[p]}
  /\ files' = Append(files, [path |-> p, size |-> Size[Holds(p)]])

PassOver(p) ==
  /\ Step(p) /\ UNCHANGED <<seen, files>>
  /\ IF Candidate(p) THEN Trouble ELSE Well

Sized(s) == {i \in DOMAIN files : files[i].size = s}
Several(S) == Cardinality(S) > 1

WalkEnds ==
  /\ pc = "walk" /\ at = Len(Walk)
  /\ pc' = "size"
  /\ sizes' = {s \in {files[i].size : i \in DOMAIN files} : Several(Sized(s))}
  /\ UNCHANGED <<mode, at, seen, files, left, head, full, burn, ops, verdict, fate,
                 world, troubles, ghost>>

\* The walk and the head pass look at the context.
Interrupt ==
  /\ pc \in {"walk", "head"} /\ Trouble /\ pc' = "declined"
  /\ UNCHANGED <<mode, scan, ops, verdict, fate, world, ghost>>

-----------------------------------------------------------------------------
(* The passes.  The size groups are ranged over in any order; in each, the *)
(* heads of all members and then the whole of those that share a head.     *)
NextSize(s) ==
  /\ pc = "size" /\ s \in sizes
  /\ pc' = "head" /\ sizes' = sizes \ {s} /\ left' = Sized(s)
  /\ UNCHANGED <<mode, at, seen, files, head, full, burn, ops, verdict, fate, world,
                 troubles, ghost>>

\* hashHead and hashFull: what is read, or nothing.
Hash(i, hash) == \/ There(PathOf(i)) /\ hash = Holds(PathOf(i)) /\ Well
                 \/ hash = Unread /\ IF There(PathOf(i)) THEN Trouble ELSE Well

\* Of the files of one size, those that share their head with another.
Survivors(s, h) == {i \in Sized(s) : h[i] # Unread
                      /\ \E j \in Sized(s) \ {i} : h[j] = h[i]}

\* A head group is hashed to its end before the next one is begun.
Alike(j) == {k \in Survivors(files[j].size, head) : head[k] = head[j]}

Pass(after) == IF after = {} THEN "size" ELSE "full"

HashHead(i) ==
  /\ pc = "head" /\ i \in left /\ \A j \in left : i <= j
  /\ \E c \in Content \cup {Unread} :
       /\ Hash(i, c)
       /\ head' = [head EXCEPT ![i] = IF c = Unread THEN Unread ELSE First4K[c]]
       /\ left' = IF left = {i} THEN Survivors(files[i].size, head') ELSE left \ {i}
  /\ pc' = IF left = {i} THEN Pass(left') ELSE pc
  /\ UNCHANGED <<mode, at, seen, files, sizes, full, burn, ops, verdict, fate, world, ghost>>

HashFull(i) ==
  /\ pc = "full" /\ i \in left
  /\ \A j \in left : IF head[j] = head[i] THEN i <= j ELSE Alike(j) \subseteq left
  /\ \E c \in Content \cup {Unread} : Hash(i, c) /\ full' = [full EXCEPT ![i] = c]
  /\ left' = left \ {i} /\ pc' = Pass(left')
  /\ since' = since \ {i}
  /\ UNCHANGED <<mode, at, seen, files, sizes, head, burn, ops, verdict, fate, world,
                 removed, slipped>>

-----------------------------------------------------------------------------
(* Groups, keepers and the plan.                                           *)
\* Mutant: a common head is taken for common content.
Group_ByHead(i) == {j \in Sized(files[i].size) : full[i] # Unread /\ head[j] = head[i]}

Group(i) == {j \in Sized(files[i].size) : /\ full[i] # Unread
                                          /\ head[j] = head[i] /\ full[j] = full[i]}

\* keeperScore
Score == [p \in Path |->
  LET Has(s, n) == IF s \in Segments[p] THEN n ELSE 0
  IN Has("documents", 3) + (IF "documents" \in Segments[p] THEN 0 ELSE Has("desktop", 2))
       - Has("cache", 3) - Has("downloads", 2) - Has("temporary", 4)]

\* betterKeeper: by score, then the shallower, then the lexicographic first.
Better(p, q) ==
  \/ Score[p] > Score[q]
  \/ Score[p] = Score[q] /\ Depth[p] < Depth[q]
  \/ Score[p] = Score[q] /\ Depth[p] = Depth[q] /\ Rank[p] < Rank[q]

Keeper(i) == CHOOSE k \in Group(i) : \A j \in Group(i) : ~Better(PathOf(j), PathOf(k))

\* buildGroup: every member at another path than the keeper's.
Burned == {i \in DOMAIN files : Several(Group(i)) /\ PathOf(i) # PathOf(Keeper(i))}

\* The larger groups first, then by keeper; in a group by path.
Before(i, j) ==
  LET a == PathOf(Keeper(i))  b == PathOf(Keeper(j))
  IN \/ files[i].size > files[j].size
     \/ files[i].size = files[j].size /\ Rank[a] < Rank[b]
     \/ files[i].size = files[j].size /\ a = b /\ Rank[PathOf(i)] < Rank[PathOf(j)]

\* In that order; sort.Slice leaves open which of two equals comes first.
Orders(S) == {s \in [1..Cardinality(S) -> S] :
                IsInjective(s) /\ \A j, k \in DOMAIN s : j < k => ~Before(s[k], s[j])}

BuildGroups ==
  /\ pc = "size" /\ sizes = {}
  /\ burn' \in Orders(Burned)
  /\ pc' = IF Burned = {} THEN "done" ELSE "identify"
  /\ UNCHANGED <<mode, at, seen, files, sizes, left, head, full, ops, verdict, fate, world,
                 troubles, ghost>>

\* The identity is recorded; what vanished or cannot be read is not offered.
Identify(i) ==
  /\ pc = "identify" /\ burn # <<>> /\ i = burn[1]
  /\ burn' = Tail(burn)
  /\ LET p == PathOf(i)
         op == [file |-> i, keeper |-> Keeper(i), ident |-> Ident(p)]
     IN \/ There(p) /\ ops' = Append(ops, op) /\ Well
        \/ UNCHANGED ops /\ IF There(p) THEN Trouble ELSE Well
  /\ pc' = IF burn' # <<>> THEN pc ELSE IF ops' = <<>> THEN "done" ELSE "gate"
  /\ slipped' = slipped \cup (since \cap {i})
  /\ UNCHANGED <<mode, at, seen, files, sizes, left, head, full, verdict, fate, world,
                 removed, since>>

\* --dry-run, the answer, or a history log or a Trash that cannot be opened.
Answer ==
  /\ pc = "gate" /\ pc' \in {"check", "declined"}
  /\ UNCHANGED <<mode, scan, ops, verdict, fate, world, troubles, ghost>>

-----------------------------------------------------------------------------
(* The batch: all operations are validated, then all are executed.         *)
\* Mutant: existence alone, the identity is not compared.
Matches_Exists(op) == There(PathOf(op.file))

Matches(op) == There(PathOf(op.file)) /\ Ident(PathOf(op.file)) = op.ident

Check ==
  /\ pc = "check"
  /\ LET op == ops[Len(verdict) + 1]
     IN \/ verdict' = Append(verdict, Matches(op)) /\ Well
        \/ Matches(op) /\ verdict' = Append(verdict, FALSE) /\ Trouble
  /\ pc' = IF Len(verdict') = Len(ops) THEN "run" ELSE pc
  /\ UNCHANGED <<mode, scan, ops, fate, world, ghost>>

Settle(f) == /\ fate' = Append(fate, f)
             /\ pc' = IF Len(fate') = Len(ops) THEN "done" ELSE "run"
             /\ UNCHANGED <<mode, scan, ops, verdict, data, mtime, since, slipped>>

\* Obliterate compares the identity again, by path; it unlinks by name later.
Verify ==
  /\ pc = "run" /\ mode = "obliterate" /\ pc' = "unlink"
  /\ LET k == Len(fate) + 1 IN verdict[k] /\ Matches(ops[k])
  /\ UNCHANGED <<mode, scan, ops, verdict, fate, world, troubles, ghost>>

\* Refused by a check, gone, or a call that fails.
Skip ==
  /\ pc \in {"run", "unlink"}
  /\ LET k == Len(fate) + 1  op == ops[k]
         able == verdict[k] /\ (IF pc = "run" /\ mode = "obliterate" THEN Matches(op)
                                                                   ELSE There(PathOf(op.file)))
     IN IF able THEN Trouble ELSE pc = "run" /\ Well
  /\ Settle("skipped") /\ UNCHANGED <<node, removed>>

\* No check follows any more: in trash mode after Revalidate, in obliterate mode
\* between Verify and the unlink.
Passed(k) == verdict[k] /\ (mode = "trash" \/ (pc = "unlink" /\ k = Len(fate) + 1))

\* Whatever is at the path now; the unlink of nothing is a success.
Burn ==
  /\ pc \in {"run", "unlink"}
  /\ LET k == Len(fate) + 1  p == PathOf(ops[k].file)
     IN /\ Passed(k) /\ (pc = "run" => There(p))
        /\ removed' = removed \cup (IF There(p) THEN {[op |-> k, held |-> Holds(p)]} ELSE {})
        /\ node' = [node EXCEPT ![p] = Gone]
  /\ Settle("burned") /\ Well

Find == \/ \E p \in Path : Collect(p) \/ PassOver(p)
        \/ WalkEnds \/ Interrupt \/ BuildGroups
        \/ \E s \in sizes : NextSize(s)
        \/ \E i \in DOMAIN files : HashHead(i) \/ HashFull(i) \/ Identify(i)

Process == Find \/ Answer \/ Check \/ Verify \/ Skip \/ Burn

-----------------------------------------------------------------------------
(* Other programs.                                                         *)
Ended == pc \in {"done", "declined"}

Names(n) == {i \in DOMAIN files : node[PathOf(i)] = n}

Cleared == {ops[k].file : k \in {k \in DOMAIN verdict : Passed(k)}}

Disturb(touched, unseen) ==
  /\ ~Ended /\ Trouble
  /\ since' = since \cup touched
  /\ slipped' = slipped \cup (touched \cap (Cleared \cup unseen))
  /\ UNCHANGED <<mode, pc, scan, ops, verdict, fate, removed>>

\* Planned with this size of a large file.
PlannedAs(size) == {ops[k].file : k \in {k \in DOMAIN ops : Len(ops[k].ident) = 3 /\ ops[k].ident[2] = size}}

\* In place; the mtime of a large file may be set back.
OtherWrites(n, c) ==
  /\ \E p \in Path : node[p] = n
  /\ data[n] # c
  /\ data' = [data EXCEPT ![n] = c]
  /\ \E back \in {FALSE, Size[c] >= Threshold} :
       /\ mtime' = [mtime EXCEPT ![n] = IF back THEN @ ELSE @ + 1]
       /\ Disturb(Names(n), IF back THEN PlannedAs(Size[c]) ELSE {})
  /\ UNCHANGED node

\* APFS gives no file number twice: none that the scan has met comes again, and
\* one that comes again here is that of a file with a later mtime.
Unused == Inode \ (seen \cup {node[q] : q \in Path})

\* A save that renames a new file over the old one.
OtherReplaces(p, n, c) ==
  /\ n \in Unused /\ \A m \in Unused : n <= m
  /\ node' = [node EXCEPT ![p] = n] /\ data' = [data EXCEPT ![n] = c]
  /\ mtime' = [mtime EXCEPT ![n] = @ + 1]
  /\ Disturb({i \in DOMAIN files : PathOf(i) = p}, {})

OtherRemoves(p) ==
  /\ There(p) /\ node' = [node EXCEPT ![p] = Gone]
  /\ UNCHANGED <<data, mtime>>
  /\ Disturb({i \in DOMAIN files : PathOf(i) = p}, {})

Others == \/ \E n \in Inode, c \in Content : OtherWrites(n, c)
          \/ \E p \in Path, n \in Inode, c \in Content : OtherReplaces(p, n, c)
          \/ \E p \in Path : OtherRemoves(p)

Next == Process \/ Others
Spec == Init /\ [][Next]_vars

-----------------------------------------------------------------------------
(* What was removed still exists elsewhere: some path holds the content    *)
(* that was hashed, unless another program changed a keeper of that        *)
(* content after a full hash of its path.  The keeper is chosen among      *)
(* hashes and never looked at again; under overlapping roots its path may  *)
(* be a candidate twice, as two files (Group, Keeper, Burned).             *)
Overtaken(i) == \E j \in since : full[j] # Unread /\ PathOf(j) = PathOf(i)

ACopyStays ==
  \A r \in removed :
    LET hash == full[ops[r.op].file]
    IN \/ \E p \in Path : There(p) /\ Holds(p) = hash
       \/ \E k \in DOMAIN ops : full[ops[k].keeper] = hash /\ Overtaken(ops[k].keeper)

(* Only what was hashed is removed: a file changed after it was compared   *)
(* goes only when the change fell between the full hash and the recorded   *)
(* identity, when it came after the last check (in trash mode the one made *)
(* before the batch, in obliterate mode the one by path before the unlink  *)
(* by name), or when the size and the mtime of a large file do not show it *)
(* (Matches, Verify, Burn).                                                *)
OnlyDuplicates ==
  \A r \in removed : \/ r.held = full[ops[r.op].file]
                     \/ ops[r.op].file \in slipped
==============================================================================
