------------------------------ MODULE PurgeProofs ------------------------------
(***************************************************************************)
(* What `suns clean` takes with an empty directory or as a broken link,    *)
(* for any tree, any changes by other programs and any number of troubles. *)
(***************************************************************************)
EXTENDS Purge, FiniteSetTheorems, SequenceTheorems, TLAPS

-----------------------------------------------------------------------------
(* The tree.                                                               *)

\* A place is above another when every rooted set with the one's directory has it.
LEMMA AboveMeans ==
  ASSUME NEW x \in Place, NEW S \in SUBSET Place, Rooted(S), Parent[x] \in S \cup {Root}
  PROVE  Above[x] \subseteq S
BY DEF Above

\* Its own directory is above it, and with a place the place's own.
LEMMA AboveHas ==
  ASSUME NEW x \in Place
  PROVE  /\ Above[x] \subseteq Place
         /\ Parent[x] # Root => Parent[x] \in Above[x]
         /\ Rooted(Above[x])
<1>1. Parent[x] \in Place \cup {Root} /\ \A y \in Place : Parent[y] \in Place \cup {Root}
  BY TreeAssumption DEF Dirs
<1>2. Above[x] \subseteq Place /\ (Parent[x] # Root => Parent[x] \in Above[x])
  BY <1>1 DEF Above
<1>3. ASSUME NEW y \in Above[x], Parent[y] # Root PROVE Parent[y] \in Above[x]
  <2>1. y \in Place /\ Parent[y] \in Place
    BY <1>1, <1>2, <1>3
  <2>2. ASSUME NEW S \in SUBSET Place, Rooted(S), Parent[x] \in S \cup {Root}
        PROVE  Parent[y] \in S
    BY <1>3, <2>2, AboveMeans DEF Rooted
  <2> QED
    BY <2>1, <2>2 DEF Above
<1> QED
  BY <1>2, <1>3 DEF Rooted

\* What is above a place is a directory, and there if the place is.
LEMMA AboveThere ==
  ASSUME NEW x \in Place
  PROVE  /\ Above[x] \subseteq Dirs
         /\ \A S \in SUBSET Place : Rooted(S) /\ x \in S => Above[x] \subseteq S
<1>1. Rooted(Dirs) /\ Parent[x] \in Dirs \cup {Root} /\ Dirs \in SUBSET Place
  BY TreeAssumption DEF Rooted, Dirs
<1>2. \A S \in SUBSET Place : Rooted(S) /\ x \in S => Above[x] \subseteq S
  <2> SUFFICES ASSUME NEW S \in SUBSET Place, Rooted(S), x \in S PROVE Above[x] \subseteq S
    OBVIOUS
  <2> QED
    BY AboveMeans DEF Rooted
<1> QED
  BY <1>1, <1>2, AboveMeans

\* Between a place and a directory above it is an entry of that directory.
LEMMA EntryBetween ==
  ASSUME NEW x \in Place, NEW d \in Above[x]
  PROVE  \E c \in {x} \cup Above[x] : Parent[c] = d
<1> DEFINE S == {z \in Above[x] : \E c \in {x} \cup Above[x] : Parent[c] = z}
<1>1. S \in SUBSET Place
  BY AboveHas
<1>2. Parent[x] \in S \cup {Root}
  BY AboveHas
<1>3. Rooted(S)
  BY AboveHas DEF Rooted
<1>4. Above[x] \subseteq S
  <2> HIDE DEF S
  <2> QED
    BY <1>1, <1>2, <1>3, AboveMeans
<1> QED
  BY <1>4

-----------------------------------------------------------------------------
Op == [path : Place, ident : Nat]

Typed ==
  /\ command \in {"empty-dirs", "broken-symlinks"} /\ mode \in {"trash", "obliterate"}
  /\ present \in SUBSET Place /\ Rooted(present) /\ stamp \in [Place -> Nat]
  /\ target \in [Links -> {"there", "missing", "unreachable"}]
  /\ listed \subseteq Place /\ collapsible \subseteq Dirs /\ todo \subseteq Place
  /\ ops \in Seq(Op) /\ verdict \in Seq(BOOLEAN) /\ fate \in Seq({"skipped", "removed"})

\* How far the process has come.
Phase ==
  /\ command = "empty-dirs" => Planned \cup todo \subseteq collapsible /\ todo \cap Planned = {}
  /\ command = "empty-dirs" /\ pc \in {"walk", "assess"} => ops = <<>> /\ todo = {}
  /\ command = "broken-symlinks" =>
       collapsible = {} /\ Planned \cup todo \subseteq Links /\ pc \notin {"assess", "emit"}
  /\ pc \notin {"check", "run", "unlink", "done"} => verdict = <<>>
  /\ pc \notin {"run", "unlink", "done"} => fate = <<>>
  /\ pc = "check" => Len(verdict) < Len(ops)
  /\ pc \in {"run", "unlink"} => Len(verdict) = Len(ops) /\ Len(fate) < Len(ops)

\* An identity is never newer than the place.
Known == \A k \in 1..Len(ops) : ops[k].ident <= stamp[ops[k].path]

\* A planned place that changed since, before its last check.
Stale(x) == /\ x \in Planned /\ x \notin Cleared
            /\ \A k \in 1..Len(ops) : ops[k].path = x => ops[k].ident < stamp[x]

Solid == {x \in Place : Kind[x] \in {"file", "link"}}

\* What is in a directory found empty came later, and where it came unseen it is
\* counted; else the recorded identity of that directory gives it away.
Emptied ==
  \A y \in present \cap Solid : \A d \in Above[y] \cap collapsible :
    y \in slipped \/ (d = Parent[y] /\ Stale(d))

\* A link that was found or planned is dangling, or changed in the same ways.
Dangles ==
  command = "broken-symlinks" => \A x \in todo \cup Planned :
    x \in slipped \/ target[x] = "missing" \/ (x \notin todo /\ Stale(x))

IInv == Typed /\ Phase /\ Known /\ Emptied /\ Dangles /\ OnlyEmptyOnes /\ OnlyDangling

\* removeAt has met nothing but the entry it is to remove and what it was told of
\* by a directory it opened below it.
Named == {"unseen", "named", "opened", "unlinked", "skipped", "absent"}
Tried == {"opened", "unlinked", "skipped"}

Branch(x) == \A y \in Place : descent[y] # "unseen" =>
  y = x \/ (x \in Above[y] /\ Parent[y] \in Place /\ descent[Parent[y]] \in Tried)

Descent ==
  /\ descent \in [Place -> Named]
  /\ IF pc = "unlink"
       THEN mode = "obliterate" /\ verdict[Len(fate) + 1] /\ Branch(ops[Len(fate) + 1].path)
       ELSE \A y \in Place : descent[y] = "unseen"

Inv == IInv /\ Descent

-----------------------------------------------------------------------------
\* What a set of paths given by numbers of a sequence is.
LEMMA PlannedIs ==
  ASSUME ops \in Seq(Op)
  PROVE  /\ Len(ops) \in Nat /\ DOMAIN ops = 1..Len(ops)
         /\ \A k \in 1..Len(ops) : ops[k] \in Op /\ ops[k].path \in Place /\ ops[k].ident \in Nat
         /\ \A x : x \in Planned <=> \E k \in 1..Len(ops) : ops[k].path = x
<1>1. Len(ops) \in Nat /\ DOMAIN ops = 1..Len(ops)
  BY LenProperties
<1>2. \A k \in 1..Len(ops) : ops[k] \in Op
  BY ElementOfSeq
<1> QED
  BY <1>1, <1>2 DEF Planned, Op

LEMMA ClearedIs ==
  ASSUME verdict \in Seq(BOOLEAN)
  PROVE  /\ Len(verdict) \in Nat /\ DOMAIN verdict = 1..Len(verdict)
         /\ \A k \in 1..Len(verdict) : verdict[k] \in BOOLEAN
         /\ \A x : x \in Cleared <=> \E k \in 1..Len(verdict) : Passed(k) /\ ops[k].path = x
<1>1. Len(verdict) \in Nat /\ DOMAIN verdict = 1..Len(verdict)
  BY LenProperties
<1>2. \A k \in 1..Len(verdict) : verdict[k] \in BOOLEAN
  BY ElementOfSeq
<1> QED
  BY <1>1, <1>2, Zenon DEF Cleared

\* The plan with one operation more.
LEMMA PlanGrows ==
  ASSUME ops \in Seq(Op), NEW op \in Op, ops' = Append(ops, op)
  PROVE  /\ ops' \in Seq(Op) /\ Len(ops) \in Nat /\ Len(ops') = Len(ops) + 1
         /\ \A k \in 1..Len(ops) : k \in 1..Len(ops') /\ ops'[k] = ops[k]
         /\ ops'[Len(ops) + 1] = op
         /\ Planned' = Planned \cup {op.path}
<1>1. /\ ops' \in Seq(Op) /\ Len(ops') = Len(ops) + 1
      /\ \A k \in 1..Len(ops) : ops'[k] = ops[k]
      /\ ops'[Len(ops) + 1] = op
  BY AppendProperties
<1>2. Len(ops) \in Nat /\ DOMAIN ops = 1..Len(ops) /\ DOMAIN ops' = 1..Len(ops')
  BY <1>1, LenProperties
<1>3. \A k \in 1..Len(ops') : k \in 1..Len(ops) \/ k = Len(ops) + 1
  BY <1>1, <1>2
<1>4. \A k \in 1..Len(ops) : k \in 1..Len(ops')
  BY <1>1, <1>2
<1>5. Len(ops) + 1 \in 1..Len(ops')
  BY <1>1, <1>2
<1> QED
  BY <1>1, <1>2, <1>3, <1>4, <1>5 DEF Planned

\* Nothing passes a last check but by Check and Verify.
LEMMA ClearedStays ==
  ASSUME UNCHANGED <<mode, ops, verdict>>, pc' = "unlink" => pc = "unlink" /\ fate' = fate
  PROVE  Cleared' \subseteq Cleared
BY DEF Cleared, Passed

\* As long as the plan stays, nothing passes a last check and stamps only grow,
\* what is stale stays so.
LEMMA StaleStays ==
  ASSUME Typed, ops' = ops, Cleared' \subseteq Cleared, stamp' \in [Place -> Nat],
         \A x \in Place : stamp[x] <= stamp'[x], NEW d, Stale(d)
  PROVE  Stale(d)'
<1>1. d \in Place /\ \A k \in 1..Len(ops) : ops[k].ident \in Nat
  BY PlannedIs DEF Typed, Stale
<1>2. stamp[d] \in Nat /\ stamp'[d] \in Nat /\ stamp[d] <= stamp'[d]
  BY <1>1 DEF Typed
<1> QED
  BY <1>1, <1>2 DEF Stale, Planned

Kept == Known /\ Emptied /\ Dangles

\* While the plan stays, what comes, goes and changes elsewhere keeps the three,
\* if it is counted wherever no identity shows it.
LEMMA WorldKeeps ==
  ASSUME Typed, Kept, UNCHANGED <<command, mode, collapsible, todo, ops, verdict>>,
         Cleared' \subseteq Cleared, stamp' \in [Place -> Nat], \A x \in Place : stamp[x] <= stamp'[x],
         slipped \subseteq slipped',
         \A y \in (present' \ present) \cap Solid : \A d \in Above[y] \cap collapsible :
           y \in slipped' \/ (d = Parent[y] /\ Stale(d)'),
         command = "broken-symlinks" => \A x \in todo \cup Planned :
           target'[x] = target[x] \/ x \in slipped' \/ (x \notin todo /\ Stale(x)')
  PROVE  Kept'
<1>1. Known'
  <2> SUFFICES ASSUME NEW k \in 1..Len(ops) PROVE ops[k].ident <= stamp'[ops[k].path]
    BY DEF Known
  <2>1. ops[k].path \in Place /\ ops[k].ident \in Nat
    BY PlannedIs DEF Typed
  <2>2. stamp[ops[k].path] \in Nat /\ stamp'[ops[k].path] \in Nat
        /\ stamp[ops[k].path] <= stamp'[ops[k].path] /\ ops[k].ident <= stamp[ops[k].path]
    BY <2>1 DEF Typed, Kept, Known
  <2> QED
    BY <2>1, <2>2
<1>2. Emptied'
  <2> SUFFICES ASSUME NEW y \in present' \cap Solid, NEW d \in Above[y] \cap collapsible
               PROVE  y \in slipped' \/ (d = Parent[y] /\ Stale(d)')
    BY DEF Emptied, Solid
  <2>1. CASE y \in present
    BY <2>1, StaleStays DEF Kept, Emptied
  <2>2. CASE y \notin present
    BY <2>2
  <2> QED
    BY <2>1, <2>2
<1>3. Dangles'
  <2> SUFFICES ASSUME command = "broken-symlinks", NEW x \in todo \cup Planned
               PROVE  x \in slipped' \/ target'[x] = "missing" \/ (x \notin todo /\ Stale(x)')
    BY DEF Dangles, Planned
  <2>1. x \in slipped \/ target[x] = "missing" \/ (x \notin todo /\ Stale(x))
    BY DEF Kept, Dangles
  <2> QED
    BY <2>1, StaleStays
<1> QED
  BY <1>1, <1>2, <1>3 DEF Kept

\* A step that changes neither the plan nor the world, and is no last check.
LEMMA QuietKeeps ==
  ASSUME Typed, Kept, pc' = "unlink" => pc = "unlink" /\ fate' = fate,
         UNCHANGED <<command, mode, collapsible, todo, ops, verdict, present, stamp, target, slipped>>
  PROVE  Kept'
<1>1. \A x \in Place : stamp[x] <= stamp'[x]
  BY DEF Typed
<1>2. stamp' \in [Place -> Nat] /\ present' \ present = {}
      /\ \A x \in todo \cup Planned : target'[x] = target[x]
  BY DEF Typed
<1> QED
  BY <1>1, <1>2, ClearedStays, WorldKeeps

\* Nothing is removed by any step but Move and Unlink.
LEMMA NothingRemoved ==
  ASSUME OnlyEmptyOnes, OnlyDangling, UNCHANGED <<command, removed>>, slipped \subseteq slipped'
  PROVE  OnlyEmptyOnes' /\ OnlyDangling'
BY DEF OnlyEmptyOnes, OnlyDangling

-----------------------------------------------------------------------------
(* Discovery.                                                              *)
LEMMA InitIInv == ASSUME Init PROVE IInv
<1>1. present \subseteq Place /\ Rooted(present) /\ listed \subseteq Place
  BY DEF Init, Children
<1>2. ops = <<>> /\ Len(ops) = 0 /\ DOMAIN ops = {} /\ verdict = <<>> /\ fate = <<>>
  BY DEF Init
<1>3. Planned = {}
  BY <1>2 DEF Planned
<1>4. Typed
  BY <1>1 DEF Init, Typed
<1>5. Phase
  BY <1>2, <1>3 DEF Init, Phase
<1>6. Known /\ Emptied /\ Dangles /\ OnlyEmptyOnes /\ OnlyDangling
  BY <1>2, <1>3 DEF Init, Known, Emptied, Dangles, OnlyEmptyOnes, OnlyDangling
<1> QED
  BY <1>4, <1>5, <1>6 DEF IInv

LEMMA VisitDirKeeps == ASSUME IInv, NEW x \in Place, VisitDir(x) PROVE IInv'
<1> USE DEF Walks, world, ghost
<1>1. listed' \subseteq Place
  BY DEF VisitDir, IInv, Typed, Children
<1>2. Typed'
  BY <1>1 DEF VisitDir, IInv, Typed
<1>3. Phase'
  BY DEF VisitDir, IInv, Phase, Planned
<1>4. Kept'
  BY QuietKeeps DEF VisitDir, IInv, Kept
<1> QED
  BY <1>2, <1>3, <1>4, NothingRemoved DEF VisitDir, IInv, Kept

LEMMA VisitOtherKeeps == ASSUME IInv, NEW x \in Place, VisitOther(x) PROVE IInv'
<1> USE DEF Walks, world, ghost
<1>1. /\ todo = {} /\ todo' = IF Finding(x) THEN {x} ELSE {}
      /\ UNCHANGED <<command, mode, pc, collapsible, ops, verdict, fate, present, stamp, target,
                     slipped, removed, listed>>
      /\ pc = "walk"
  BY DEF VisitOther
<1>2. Typed'
  BY <1>1 DEF IInv, Typed
<1>3. Finding(x) => command = "broken-symlinks" /\ x \in Links /\ target[x] = "missing"
  BY DEF Finding, Links, Dangling
<1>4. Phase'
  BY <1>1, <1>3 DEF IInv, Phase, Planned
<1>5. Known' /\ Emptied'
  BY <1>1 DEF IInv, Known, Emptied, Stale, Planned, Cleared, Passed, Solid
<1>6. Dangles'
  <2> SUFFICES ASSUME command = "broken-symlinks", NEW y \in todo' \cup Planned
               PROVE  y \in slipped \/ target[y] = "missing" \/ (y \notin todo' /\ Stale(y))
    BY <1>1 DEF Dangles, Stale, Planned, Cleared, Passed
  <2> QED
    BY <1>1, <1>3 DEF IInv, Dangles
<1> QED
  BY <1>1, <1>2, <1>4, <1>5, <1>6, NothingRemoved DEF IInv

\* The identity of a finding, recorded or not.
LEMMA IdentifyKeeps ==
  ASSUME IInv, NEW x \in Place, Identify(x), pc \in {"walk", "emit"}
  PROVE  IInv'
<1> USE DEF world, ghost
<1>1. /\ x \in todo /\ todo' = todo \ {x} /\ pc' = pc
      /\ UNCHANGED <<command, mode, collapsible, verdict, fate, present, stamp, target,
                     slipped, removed, listed>>
      /\ (ops' = ops \/ (x \in present /\ ops' = Append(ops, [path |-> x, ident |-> stamp[x]])))
  BY DEF Identify
<1>2. Typed /\ Phase /\ Kept /\ verdict = <<>> /\ Cleared = {} /\ Cleared' = {}
  <2>1. verdict = <<>> /\ DOMAIN verdict = {} /\ verdict' = verdict
    BY <1>1 DEF IInv, Phase
  <2> QED
    BY <2>1 DEF IInv, Kept, Cleared
<1>3. CASE ops' = ops
  <2>1. Typed' /\ Phase'
    BY <1>1, <1>2, <1>3 DEF Typed, Phase, Planned
  <2>2. Known' /\ Emptied' /\ Dangles'
    BY <1>1, <1>2, <1>3 DEF Kept, Known, Emptied, Dangles, Stale, Planned, Cleared, Passed, Solid
  <2> QED
    BY <1>1, <2>1, <2>2, NothingRemoved DEF IInv
<1>4. CASE ops' = Append(ops, [path |-> x, ident |-> stamp[x]])
  <2> DEFINE op == [path |-> x, ident |-> stamp[x]]
  <2>1. op \in Op /\ op.path = x /\ op.ident = stamp[x]
    BY <1>2 DEF Op, Typed
  <2> HIDE DEF op
  <2>2. /\ ops' \in Seq(Op) /\ Len(ops) \in Nat /\ Len(ops') = Len(ops) + 1
        /\ \A k \in 1..Len(ops) : k \in 1..Len(ops') /\ ops'[k] = ops[k]
        /\ ops'[Len(ops) + 1] = op
        /\ Planned' = Planned \cup {x}
    BY <1>2, <1>4, <2>1, PlanGrows DEF Typed, op
  <2>3. \A k \in 1..Len(ops') : k \in 1..Len(ops) \/ k = Len(ops) + 1
    BY <2>2
  <2>4. Typed'
    BY <1>1, <1>2, <2>2 DEF Typed
  <2>5. Phase'
    BY <1>1, <1>2, <2>2 DEF Phase
  <2>6. Known'
    BY <1>1, <1>2, <2>1, <2>2, <2>3 DEF Kept, Known, Typed
  <2>7. ASSUME NEW d, Stale(d), d # x PROVE Stale(d)'
    BY <1>1, <1>2, <2>1, <2>2, <2>3, <2>7 DEF Stale
  <2>8. Emptied'
    <3> SUFFICES ASSUME NEW y \in present \cap Solid, NEW d \in Above[y] \cap collapsible,
                        y \notin slipped
                 PROVE  d = Parent[y] /\ Stale(d)'
      BY <1>1 DEF Emptied, Solid
    <3>1. d = Parent[y] /\ Stale(d)
      BY <1>2 DEF Kept, Emptied
    <3>2. d \in Planned /\ command = "empty-dirs"
      BY <1>2, <3>1 DEF Stale, Phase, Typed
    <3>3. d # x
      BY <1>1, <1>2, <3>2 DEF Phase
    <3> QED
      BY <2>7, <3>1, <3>3
  <2>9. Dangles'
    <3> SUFFICES ASSUME command = "broken-symlinks", NEW y \in todo' \cup Planned',
                        y \notin slipped, target[y] # "missing"
                 PROVE  y \notin todo' /\ Stale(y)'
      BY <1>1 DEF Dangles
    <3>1. y \in todo \cup Planned
      BY <1>1, <2>2
    <3>2. y \notin todo /\ Stale(y)
      BY <1>2, <3>1 DEF Kept, Dangles
    <3> QED
      BY <1>1, <2>7, <3>2
  <2> QED
    BY <1>1, <2>4, <2>5, <2>6, <2>8, <2>9, NothingRemoved DEF IInv
<1> QED
  BY <1>1, <1>3, <1>4

LEMMA BetweenKeeps ==
  ASSUME IInv, WalkEnds \/ Interrupt \/ Emitted \/ Answer
  PROVE  IInv'
<1> USE DEF scan, world, ghost
<1>1. /\ UNCHANGED <<command, mode, listed, collapsible, todo, ops, verdict, fate,
                     present, stamp, target, slipped, removed>>
      /\ pc \in {"walk", "assess", "emit", "emitted"} /\ pc' # "unlink"
  BY DEF WalkEnds, Interrupt, Emitted, Answer
<1>2. Typed'
  BY <1>1 DEF IInv, Typed
<1>3. Kept'
  BY <1>1, QuietKeeps DEF IInv, Kept
<1>4. Phase'
  <2>1. CASE WalkEnds
    BY <1>1, <2>1 DEF IInv, Phase, Typed, Planned, WalkEnds
  <2>2. CASE Interrupt
    BY <1>1, <2>2 DEF IInv, Phase, Typed, Planned, Interrupt
  <2>3. CASE Emitted
    BY <1>1, <2>3 DEF IInv, Phase, Typed, Planned, Emitted
  <2>4. CASE Answer
    <3>1. Len(ops) \in Nat /\ (ops # <<>> => Len(ops) > 0) /\ Len(<<>>) = 0
      BY LenProperties, EmptySeq DEF IInv, Typed
    <3> QED
      BY <1>1, <2>4, <3>1 DEF IInv, Phase, Typed, Planned, Answer
  <2> QED
    BY <2>1, <2>2, <2>3, <2>4
<1> QED
  BY <1>1, <1>2, <1>3, <1>4, NothingRemoved DEF IInv, Kept

\* A directory is found empty: below it nothing is left but what came unseen.
LEMMA AssessKeeps == ASSUME IInv, NEW x \in Place, Assess(x) PROVE IInv'
<1> USE DEF world, ghost
<1>1. /\ UNCHANGED <<command, mode, pc, listed, todo, ops, verdict, fate, present, stamp, target,
                     slipped, removed>>
      /\ x \in Dirs /\ pc = "assess"
      /\ collapsible \subseteq collapsible' /\ collapsible' \subseteq collapsible \cup {x}
      /\ (collapsible' = collapsible \/ IsCollapsible(x))
  <2>1. \/ collapsible' = collapsible
        \/ IsCollapsible(x) /\ collapsible' = collapsible \cup {x}
    BY DEF Assess
  <2> QED
    BY <2>1 DEF Assess, Found
<1>2. Typed /\ Phase /\ Kept /\ ops = <<>> /\ DOMAIN <<>> = {} /\ command = "empty-dirs"
  BY <1>1 DEF IInv, Phase, Kept, Typed
<1>3. Typed'
  BY <1>1, <1>2 DEF Typed
<1>4. Phase'
  BY <1>1, <1>2 DEF Phase, Planned
<1>5. Known' /\ Dangles'
  BY <1>1, <1>2 DEF Kept, Known, Dangles
<1>6. Planned = {}
  BY <1>2 DEF Planned
<1>7. Emptied'
  <2> SUFFICES ASSUME NEW y \in present \cap Solid, NEW d \in Above[y] \cap collapsible'
               PROVE  y \in slipped
    BY <1>1 DEF Emptied, Solid
  <2>1. ASSUME NEW c \in Above[y] \cap collapsible PROVE y \in slipped
    BY <1>2, <1>6, <2>1 DEF Kept, Emptied, Stale
  <2>2. CASE d \in collapsible
    BY <2>1, <2>2
  <2>3. CASE d = x /\ IsCollapsible(x)
    <3>1. PICK c \in {y} \cup Above[y] : Parent[c] = x
      BY <2>3, EntryBetween DEF Solid
    <3>2. c \in Children(x)
      BY <1>2, <3>1, AboveThere DEF Typed, Children, Solid
    <3>3. Kind[c] = "store" \/ (Kind[c] = "dir" /\ c \in collapsible)
      BY <2>3, <3>2 DEF IsCollapsible
    <3>4. c # y
      BY <1>2, <3>3 DEF Solid
    <3>5. c \in Above[y] /\ Kind[c] = "dir"
      BY <3>1, <3>4, AboveThere DEF Dirs, Solid
    <3> QED
      BY <2>1, <3>3, <3>5
  <2> QED
    BY <1>1, <2>2, <2>3
<1> QED
  BY <1>1, <1>3, <1>4, <1>5, <1>7, NothingRemoved DEF IInv

LEMMA AssessedKeeps == ASSUME IInv, Assessed PROVE IInv'
<1> USE DEF world, ghost
<1>1. /\ UNCHANGED <<command, mode, listed, collapsible, ops, verdict, fate, present, stamp,
                     target, slipped, removed>>
      /\ pc = "assess" /\ pc' = "emit" /\ todo' \subseteq collapsible
  BY DEF Assessed, Maximal
<1>2. Typed /\ Phase /\ Kept /\ ops = <<>> /\ DOMAIN <<>> = {} /\ command = "empty-dirs"
  BY <1>1 DEF IInv, Phase, Kept, Typed
<1>3. Planned = {}
  BY <1>2 DEF Planned
<1>4. Typed'
  BY <1>1, <1>2 DEF Typed, Dirs
<1>5. Phase'
  BY <1>1, <1>2, <1>3 DEF Phase, Planned
<1>6. Known' /\ Emptied' /\ Dangles'
  BY <1>1, <1>2 DEF Kept, Known, Emptied, Dangles, Stale, Planned, Cleared, Passed, Solid
<1> QED
  BY <1>1, <1>4, <1>5, <1>6, NothingRemoved DEF IInv

-----------------------------------------------------------------------------
(* The batch.                                                              *)

\* What matches its recorded identity is not stale.
LEMMA MatchesNotStale ==
  ASSUME Typed, NEW k \in 1..Len(ops), Matches(ops[k])
  PROVE  ~Stale(ops[k].path)
<1>1. ops[k].path \in Place /\ ops[k].ident \in Nat /\ stamp[ops[k].path] = ops[k].ident
  BY PlannedIs DEF Typed, Matches
<1> QED
  BY <1>1 DEF Stale

LEMMA CheckKeeps == ASSUME IInv, Check PROVE IInv'
<1> USE DEF scan, world, ghost
<1> DEFINE j == Len(verdict) + 1
<1>0. Typed /\ Phase /\ Kept
  BY DEF IInv, Kept
<1>1. /\ UNCHANGED <<command, mode, listed, collapsible, todo, ops, fate, present, stamp, target,
                     slipped, removed>>
      /\ pc = "check" /\ pc' = IF Len(verdict') = Len(ops) THEN "run" ELSE pc
  BY DEF Check
<1>2. PICK b \in BOOLEAN : verdict' = Append(verdict, b) /\ (b => Matches(ops[j]))
  <2>1. CASE verdict' = Append(verdict, Matches(ops[j]))
    BY <2>1, Zenon DEF Matches
  <2>2. CASE verdict' = Append(verdict, FALSE)
    BY <2>2
  <2> QED
    BY <2>1, <2>2, Zenon DEF Check
<1>3. /\ Len(verdict) \in Nat /\ Len(ops) \in Nat /\ Len(fate) \in Nat
      /\ Len(verdict) < Len(ops) /\ j \in 1..Len(ops) /\ fate = <<>> /\ Len(<<>>) = 0
  BY <1>0, <1>1, LenProperties DEF Typed, Phase
<1>4. /\ verdict' \in Seq(BOOLEAN) /\ Len(verdict') = j
      /\ \A k \in 1..Len(verdict) : verdict'[k] = verdict[k]
      /\ verdict'[j] = b
  BY <1>0, <1>2, AppendProperties DEF Typed
<1>5. Typed'
  BY <1>0, <1>1, <1>4 DEF Typed
<1>6. Phase'
  BY <1>0, <1>1, <1>3, <1>4 DEF Phase, Planned
<1>7. \A d : Stale(d) => Stale(d)'
  <2> SUFFICES ASSUME NEW d, Stale(d) PROVE Stale(d)'
    OBVIOUS
  <2>1. d # ops[j].path \/ ~b
    BY <1>0, <1>2, <1>3, MatchesNotStale
  <2>2. \A x : x \in Cleared' => mode = "trash" /\ \E k \in 1..j : verdict'[k] /\ ops[k].path = x
    <3>1. DOMAIN verdict' = 1..j
      BY <1>3, <1>4, LenProperties
    <3> QED
      BY <1>1, <3>1, Zenon DEF Cleared, Passed
  <2>3. d \notin Cleared'
    <3> SUFFICES ASSUME mode = "trash", NEW k \in 1..j, verdict'[k], ops[k].path = d PROVE FALSE
      BY <2>2
    <3>1. CASE k = j
      BY <1>4, <2>1, <3>1
    <3>2. CASE k # j
      <4>1. k \in 1..Len(verdict) /\ verdict[k]
        BY <1>3, <1>4, <3>2
      <4>2. d \in Cleared
        BY <1>0, <4>1, ClearedIs DEF Typed, Passed
      <4> QED
        BY <4>2 DEF Stale
    <3> QED
      BY <3>1, <3>2
  <2> QED
    BY <1>1, <2>3 DEF Stale, Planned
<1>8. Known'
  BY <1>0, <1>1 DEF Kept, Known
<1>9. Emptied'
  BY <1>0, <1>1, <1>7 DEF Kept, Emptied, Solid
<1>10. Dangles'
  BY <1>0, <1>1, <1>7 DEF Kept, Dangles, Planned
<1> QED
  BY <1>1, <1>5, <1>6, <1>8, <1>9, <1>10, NothingRemoved DEF IInv

\* The phase after an operation was settled.
LEMMA SettlePhase ==
  ASSUME IInv, pc \in {"run", "unlink"}, NEW f \in {"skipped", "removed"}, Settle(f),
         present' \in SUBSET Place, Rooted(present'), stamp' \in [Place -> Nat],
         UNCHANGED target
  PROVE  Typed' /\ Phase' /\ pc' # "unlink"
<1> USE DEF scan
<1>1. /\ UNCHANGED <<command, mode, listed, collapsible, todo, ops, verdict, target>>
      /\ fate' = Append(fate, f) /\ pc' = IF Len(fate') = Len(ops) THEN "done" ELSE "run"
  BY DEF Settle
<1>2. Typed /\ Phase /\ Len(fate) \in Nat /\ Len(ops) \in Nat /\ Len(fate) < Len(ops)
  BY LenProperties DEF IInv, Typed, Phase
<1>3. fate' \in Seq({"skipped", "removed"}) /\ Len(fate') = Len(fate) + 1
  BY <1>1, <1>2, AppendProperties DEF Typed
<1> QED
  BY <1>1, <1>2, <1>3 DEF Typed, Phase, Planned

LEMMA SkipKeeps == ASSUME IInv, Skip PROVE IInv'
<1>1. /\ UNCHANGED <<command, mode, collapsible, todo, ops, verdict, present, stamp, target,
                     slipped, removed>>
      /\ pc = "run" /\ Settle("skipped")
  BY DEF Skip, Settle, scan
<1>2. Typed' /\ Phase' /\ pc' # "unlink"
  BY <1>1, SettlePhase DEF IInv, Typed
<1>3. Kept'
  BY <1>1, <1>2, QuietKeeps DEF IInv, Kept
<1> QED
  BY <1>1, <1>2, <1>3, NothingRemoved DEF IInv, Kept

\* An operation that is due is of no stale place.
LEMMA DueNotStale ==
  ASSUME IInv, pc = "run", Due(ops[Len(fate) + 1])
  PROVE  /\ Len(fate) + 1 \in 1..Len(ops) /\ ops[Len(fate) + 1].path \in Planned
         /\ ~Stale(ops[Len(fate) + 1].path)
<1> DEFINE j == Len(fate) + 1
<1>1. Typed /\ Phase /\ Len(fate) \in Nat /\ Len(ops) \in Nat /\ Len(fate) < Len(ops)
      /\ Len(verdict) = Len(ops)
  BY LenProperties DEF IInv, Typed, Phase
<1>2. j \in 1..Len(ops)
  BY <1>1
<1>3. ops[j].path \in Planned
  BY <1>1, <1>2, PlannedIs DEF Typed
<1>4. CASE mode = "trash"
  <2>1. verdict[j]
    BY DEF Due
  <2>2. ops[j].path \in Cleared
    BY <1>1, <1>2, <1>4, <2>1, ClearedIs DEF Typed, Passed
  <2> QED
    BY <1>2, <1>3, <2>2 DEF Stale
<1>5. CASE mode # "trash"
  BY <1>1, <1>2, <1>3, <1>5, MatchesNotStale DEF Due
<1> QED
  BY <1>4, <1>5, <1>2, <1>3

\* Obliterate's own check passes nothing that is stale.
LEMMA VerifyKeeps == ASSUME IInv, Verify PROVE IInv'
<1> USE DEF scan, world, ghost
<1> DEFINE j == Len(fate) + 1
<1>0. Typed /\ Phase /\ Kept
  BY DEF IInv, Kept
<1>1. /\ UNCHANGED <<command, mode, listed, collapsible, todo, ops, verdict, fate, present, stamp,
                     target, slipped, removed>>
      /\ pc = "run" /\ pc' = "unlink" /\ mode = "obliterate" /\ Due(ops[j])
  BY DEF Verify
<1>2. ~Stale(ops[j].path)
  BY <1>1, DueNotStale
<1>3. Typed' /\ Phase'
  BY <1>0, <1>1 DEF Typed, Phase, Planned
<1>4. \A d : Stale(d) => Stale(d)'
  <2> SUFFICES ASSUME NEW d, Stale(d) PROVE Stale(d)'
    OBVIOUS
  <2>1. d # ops[j].path
    BY <1>2
  <2>2. d \notin Cleared'
    BY <1>1, <2>1 DEF Cleared, Passed
  <2> QED
    BY <1>1, <2>2 DEF Stale, Planned
<1>5. Known'
  BY <1>0, <1>1 DEF Kept, Known
<1>6. Emptied'
  BY <1>0, <1>1, <1>4 DEF Kept, Emptied, Solid
<1>7. Dangles'
  BY <1>0, <1>1, <1>4 DEF Kept, Dangles, Planned
<1> QED
  BY <1>1, <1>3, <1>5, <1>6, <1>7, NothingRemoved DEF IInv

\* Below a place is also what is below an entry below it.
LEMMA BelowStays ==
  ASSUME NEW x \in Place, NEW y \in Place, y = x \/ x \in Above[y],
         NEW z \in Place, Parent[z] = y
  PROVE  x \in Above[z]
<1>1. y \in Above[z] /\ Rooted(Above[z]) /\ Above[z] \in SUBSET Place
  BY AboveHas, TreeAssumption
<1>2. Above[y] \subseteq Above[z]
  BY <1>1, AboveThere
<1> QED
  BY <1>1, <1>2

\* What is taken from under a planned place that is not stale was empty or
\* dangling, or came unseen.
LEMMA TakesKeeps ==
  ASSUME IInv, NEW x \in Planned, ~Stale(x), NEW y \in Place,
         NEW S \in SUBSET Subtree(x), \A z \in S : Children(z) \subseteq S, Takes(S, y),
         UNCHANGED <<command, mode, collapsible, todo, ops, verdict, target, slipped>>,
         Cleared' \subseteq Cleared
  PROVE  /\ present' \in SUBSET Place /\ Rooted(present') /\ stamp' \in [Place -> Nat]
         /\ Kept' /\ OnlyEmptyOnes' /\ OnlyDangling'
<1>0. Typed /\ Phase /\ Kept /\ OnlyEmptyOnes /\ OnlyDangling
  BY DEF IInv, Kept
<1>1. x \in Place
  BY <1>0, PlannedIs DEF Typed
<1>2. /\ present' = present \ S
      /\ stamp' = [z \in Place |-> IF Parent[y] = z THEN stamp[z] + 1 ELSE stamp[z]]
  BY DEF Takes
<1>3. present' \in SUBSET Place /\ Rooted(present')
  <2>1. \A z \in present' : Parent[z] \notin S
    BY <1>0, <1>2 DEF Children, Typed
  <2> QED
    BY <1>0, <1>2, <2>1 DEF Rooted, Typed
<1>4. stamp' \in [Place -> Nat] /\ \A z \in Place : stamp[z] <= stamp'[z]
  BY <1>0, <1>2 DEF Typed
<1>5. Kept'
  BY <1>0, <1>2, <1>4, WorldKeeps
<1>6. ASSUME NEW r \in removed' \ removed
      PROVE  /\ r.place \in Place /\ r.place \in present
             /\ r.place = x \/ x \in Above[r.place]
             /\ r.target = IF r.place \in Links THEN target[r.place] ELSE "none"
  <2>1. PICK z \in S : r = [op |-> Len(fate) + 1, place |-> z,
                            target |-> IF z \in Links THEN target[z] ELSE "none"]
    BY Zenon DEF Takes
  <2> QED
    BY <1>0, <2>1 DEF Subtree, Typed
<1>7. OnlyEmptyOnes'
  <2> SUFFICES ASSUME command = "empty-dirs", NEW r \in removed', Kind[r.place] \in {"file", "link"}
               PROVE  r.place \in slipped
    BY DEF OnlyEmptyOnes
  <2>1. CASE r \in removed
    BY <1>0, <2>1 DEF OnlyEmptyOnes
  <2>2. CASE r \notin removed
    <3>1. x \in collapsible /\ x \in Dirs
      BY <1>0 DEF Phase, Typed
    <3>2. x # r.place
      BY <3>1 DEF Dirs
    <3>3. r.place \in present \cap Solid /\ x \in Above[r.place] \cap collapsible
      BY <1>6, <2>2, <3>1, <3>2 DEF Solid
    <3> QED
      BY <1>0, <3>3 DEF Kept, Emptied
  <2> QED
    BY <2>1, <2>2
<1>8. OnlyDangling'
  <2> SUFFICES ASSUME command = "broken-symlinks", NEW r \in removed'
               PROVE  r.target = "missing" \/ r.place \in slipped
    BY DEF OnlyDangling
  <2>1. CASE r \in removed
    BY <1>0, <2>1 DEF OnlyDangling
  <2>2. CASE r \notin removed
    <3>1. x \in Links
      BY <1>0 DEF Phase
    <3>2. x \notin Dirs
      BY <3>1 DEF Links, Dirs
    <3>3. r.place = x /\ r.target = target[x]
      BY <1>6, <2>2, <3>1, <3>2, AboveThere
    <3> QED
      BY <1>0, <3>3 DEF Kept, Dangles
  <2> QED
    BY <2>1, <2>2
<1> QED
  BY <1>3, <1>4, <1>5, <1>7, <1>8

LEMMA MoveKeeps == ASSUME IInv, Move PROVE IInv'
<1> DEFINE x == ops[Len(fate) + 1].path
<1>0. Typed /\ Phase
  BY DEF IInv
<1>1. /\ pc = "run" /\ Due(ops[Len(fate) + 1]) /\ Settle("removed") /\ Takes(Subtree(x), x)
      /\ UNCHANGED <<command, mode, collapsible, todo, ops, verdict, target, slipped>>
  BY DEF Move, Settle, scan
<1>2. x \in Planned /\ ~Stale(x) /\ x \in Place
  BY <1>0, <1>1, DueNotStale, PlannedIs DEF Typed
<1>3. \A y \in Subtree(x) : Children(y) \subseteq Subtree(x)
  <2> SUFFICES ASSUME NEW y \in Subtree(x), NEW z \in Children(y) PROVE z \in Subtree(x)
    OBVIOUS
  <2>1. y \in Place /\ z \in present /\ z \in Place /\ Parent[z] = y /\ (y = x \/ x \in Above[y])
    BY <1>0 DEF Subtree, Children, Typed
  <2> HIDE DEF x
  <2>2. x \in Above[z]
    BY <1>2, <2>1, BelowStays
  <2> QED
    BY <2>1, <2>2 DEF Subtree
<1>4. pc' # "unlink"
  BY <1>1 DEF Settle
<1> HIDE DEF x
<1>5. /\ present' \in SUBSET Place /\ Rooted(present') /\ stamp' \in [Place -> Nat]
      /\ Kept' /\ OnlyEmptyOnes' /\ OnlyDangling'
  BY <1>1, <1>2, <1>3, <1>4, ClearedStays, TakesKeeps
<1> QED
  BY <1>1, <1>5, SettlePhase DEF IInv, Kept

\* The entries removeAt comes to are those of a place that passed its last check.
LEMMA DescentNotStale ==
  ASSUME IInv, Descent, pc = "unlink"
  PROVE  LET x == ops[Len(fate) + 1].path
         IN x \in Planned /\ x \in Place /\ ~Stale(x)
<1> DEFINE j == Len(fate) + 1
<1>1. Typed /\ Len(fate) \in Nat /\ Len(verdict) \in Nat /\ j \in 1..Len(ops) /\ j \in 1..Len(verdict)
  BY LenProperties DEF IInv, Typed, Phase
<1>2. Passed(j)
  BY DEF Descent, Passed
<1>3. ops[j].path \in Cleared
  BY <1>1, <1>2, ClearedIs DEF Typed
<1> QED
  BY <1>1, <1>3, PlannedIs DEF Typed, Stale

LEMMA UnlinkKeeps ==
  ASSUME IInv, Descent, NEW y \in Place, Open(y) \/ Unlink(y) \/ Vanish(y)
  PROVE  IInv'
<1> USE DEF scan
<1>0. Typed /\ Phase
  BY DEF IInv
<1>1. /\ UNCHANGED <<command, mode, pc, listed, collapsible, todo, ops, verdict, fate, target, slipped>>
      /\ pc = "unlink"
  BY DEF Open, Unlink, Vanish, Descends
<1>2. CASE UNCHANGED <<present, stamp, removed>>
  <2>1. Typed' /\ Phase'
    BY <1>0, <1>1, <1>2 DEF Typed, Phase, Planned
  <2>2. Kept'
    BY <1>1, <1>2, QuietKeeps DEF IInv, Kept
  <2> QED
    BY <1>1, <1>2, <2>1, <2>2, NothingRemoved DEF IInv, Kept
<1>3. CASE ~UNCHANGED <<present, stamp, removed>>
  <2> DEFINE x == ops[Len(fate) + 1].path
  <2>1. /\ y \in present /\ Children(y) = {} /\ Takes({y}, y)
        /\ descent[y] \in {"named", "opened"}
    BY <1>3 DEF Open, Unlink, Vanish, Spares, Reaches, Leaves
  <2>2. y \in Subtree(x)
    BY <1>1, <2>1 DEF Descent, Branch, Subtree
  <2>3. x \in Planned /\ ~Stale(x)
    BY <1>1, DescentNotStale
  <2> HIDE DEF x
  <2>4. /\ present' \in SUBSET Place /\ Rooted(present') /\ stamp' \in [Place -> Nat]
        /\ Kept' /\ OnlyEmptyOnes' /\ OnlyDangling'
    BY <1>1, <2>1, <2>2, <2>3, ClearedStays, TakesKeeps
  <2>5. Typed' /\ Phase'
    BY <1>0, <1>1, <2>4 DEF Typed, Phase, Planned
  <2> QED
    BY <2>4, <2>5 DEF IInv, Kept
<1> QED
  BY <1>2, <1>3

LEMMA ReturnKeeps == ASSUME IInv, Return PROVE IInv'
<1>1. /\ UNCHANGED <<command, mode, collapsible, todo, ops, verdict, present, stamp, target,
                     slipped, removed>>
      /\ pc = "unlink" /\ (Settle("skipped") \/ Settle("removed"))
  BY DEF Return, Settle, Spares, scan
<1>2. Typed' /\ Phase' /\ pc' # "unlink"
  BY <1>1, SettlePhase DEF IInv, Typed
<1>3. Kept'
  BY <1>1, <1>2, QuietKeeps DEF IInv, Kept
<1> QED
  BY <1>1, <1>2, <1>3, NothingRemoved DEF IInv, Kept

\* The descent goes on below what it was told of.
LEMMA BranchGrows ==
  ASSUME NEW x \in Place, Branch(x), descent \in [Place -> Named], descent' \in [Place -> Named],
         \A y \in Place : descent[y] \in Tried => descent'[y] \in Tried,
         \A y \in Place : descent'[y] # "unseen" =>
           \/ descent[y] # "unseen"
           \/ Parent[y] \in Place /\ descent[Parent[y]] # "unseen" /\ descent'[Parent[y]] \in Tried
  PROVE  Branch(x)'
<1> SUFFICES ASSUME NEW y \in Place, descent'[y] # "unseen", y # x
             PROVE  x \in Above[y] /\ Parent[y] \in Place /\ descent'[Parent[y]] \in Tried
  BY DEF Branch
<1>1. CASE descent[y] # "unseen"
  BY <1>1 DEF Branch
<1>2. CASE Parent[y] \in Place /\ descent[Parent[y]] # "unseen" /\ descent'[Parent[y]] \in Tried
  <2>1. Parent[y] = x \/ x \in Above[Parent[y]]
    BY <1>2 DEF Branch
  <2> QED
    BY <1>2, <2>1, BelowStays
<1> QED
  BY <1>1, <1>2

-----------------------------------------------------------------------------
(* Other programs.                                                         *)
LEMMA OthersKeep ==
  ASSUME IInv, NEW S, Others(S), present' \in SUBSET Place, Rooted(present'),
         \/ UNCHANGED stamp
         \/ \E x \in Place : Touch(x),
         target' \in [Links -> {"there", "missing", "unreachable"}],
         \A y \in present' \ present : y \in S \/ (~Unchecked(y) /\ Touch(y)),
         \A x \in Links : \/ target'[x] = target[x] \/ x \notin todo \cup Planned \/ x \in S
                          \/ x \notin todo \cup Cleared /\ Touch(x)
  PROVE  IInv'
<1> USE DEF scan
<1>0. Typed /\ Phase /\ Kept
  BY DEF IInv, Kept
<1>1. /\ UNCHANGED <<command, mode, pc, listed, collapsible, todo, ops, verdict, fate, removed>>
      /\ slipped' = slipped \cup S
  BY DEF Others
<1>2. stamp' \in [Place -> Nat] /\ \A y \in Place : stamp[y] <= stamp'[y]
  <2>1. ASSUME NEW x \in Place, Touch(x)
        PROVE  stamp' \in [Place -> Nat] /\ \A y \in Place : stamp[y] <= stamp'[y]
    BY <1>0, <2>1 DEF Typed, Touch
  <2>2. CASE UNCHANGED stamp
    BY <1>0, <2>2 DEF Typed
  <2> QED
    BY <2>1, <2>2
<1>3. ASSUME NEW x \in Place, Touch(x), NEW d \in {x, Parent[x]}, d \in Planned, d \notin Cleared
      PROVE  Stale(d)'
  <2>1. d \in Place /\ \A k \in 1..Len(ops) : ops[k].ident \in Nat
    BY <1>0, <1>3, PlannedIs DEF Typed
  <2>2. stamp'[d] = stamp[d] + 1 /\ stamp[d] \in Nat
    BY <1>0, <1>3, <2>1 DEF Typed, Touch
  <2>3. \A k \in 1..Len(ops) : ops[k].path = d => ops[k].ident < stamp'[d]
    BY <1>0, <2>1, <2>2 DEF Kept, Known
  <2> QED
    BY <1>1, <1>3, <2>3 DEF Stale, Planned, Cleared, Passed
<1>4. ASSUME NEW y \in (present' \ present) \cap Solid, NEW d \in Above[y] \cap collapsible
      PROVE  y \in slipped' \/ (d = Parent[y] /\ Stale(d)')
  <2>1. CASE y \in S
    BY <1>1, <2>1
  <2>2. CASE ~Unchecked(y) /\ Touch(y)
    <3>1. d \in Planned /\ d = Parent[y] /\ d \notin Cleared
      BY <2>2 DEF Unchecked
    <3> QED
      BY <1>3, <2>2, <3>1 DEF Solid
  <2> QED
    BY <2>1, <2>2
<1>5. ASSUME command = "broken-symlinks", NEW x \in todo \cup Planned
      PROVE  target'[x] = target[x] \/ x \in slipped' \/ (x \notin todo /\ Stale(x)')
  <2>1. x \in Links
    BY <1>0, <1>5 DEF Phase
  <2>2. \/ target'[x] = target[x] \/ x \in S
        \/ x \notin todo \cup Cleared /\ Touch(x)
    BY <1>5, <2>1
  <2> QED
    BY <1>1, <1>3, <1>5, <2>1, <2>2 DEF Links
<1>6. Kept'
  BY <1>0, <1>1, <1>2, <1>4, <1>5, ClearedStays, WorldKeeps
<1>7. Typed' /\ Phase'
  BY <1>0, <1>1, <1>2 DEF Typed, Phase, Planned
<1> QED
  BY <1>1, <1>6, <1>7, NothingRemoved DEF IInv, Kept

LEMMA EnvironmentKeeps == ASSUME IInv, Environment PROVE IInv'
<1>0. Typed
  BY DEF IInv
<1>1. ASSUME NEW x \in Place, OtherCreates(x) PROVE IInv'
  <2>1. /\ present' = present \cup {x} /\ Parent[x] \in present \cup {Root} /\ Touch(x)
        /\ target' = target /\ Others({y \in {x} : Unchecked(y)})
    BY <1>1 DEF OtherCreates
  <2>2. present' \in SUBSET Place /\ Rooted(present')
    BY <1>0, <2>1 DEF Typed, Rooted
  <2>3. target' \in [Links -> {"there", "missing", "unreachable"}]
    BY <1>0, <2>1 DEF Typed
  <2> DEFINE S == {y \in {x} : Unchecked(y)}
  <2>4. \A y \in present' \ present : y \in S \/ (~Unchecked(y) /\ Touch(y))
    BY <2>1
  <2> HIDE DEF S
  <2> QED
    BY <2>1, <2>2, <2>3, <2>4, OthersKeep DEF S
<1>2. ASSUME NEW x \in Place, OtherRemoves(x) PROVE IInv'
  <2>1. /\ present' = present \ {x} /\ Children(x) = {} /\ Touch(x)
        /\ target' = target /\ Others({})
    BY <1>2 DEF OtherRemoves
  <2>2. present' \in SUBSET Place /\ Rooted(present') /\ present' \ present = {}
    BY <1>0, <2>1 DEF Typed, Rooted, Children
  <2>3. target' \in [Links -> {"there", "missing", "unreachable"}]
    BY <1>0, <2>1 DEF Typed
  <2> QED
    BY <2>1, <2>2, <2>3, OthersKeep
<1>3. ASSUME NEW x \in Links, NEW t \in {"there", "missing", "unreachable"},
             OtherChangesTarget(x, t) \/ OtherRelinks(x, t)
      PROVE  IInv'
  <2> DEFINE C == OtherChangesTarget(x, t)
  <2> DEFINE S == IF C THEN {x} \cap (todo \cup Planned) ELSE {x} \cap (todo \cup Cleared)
  <2>1. /\ target' = [target EXCEPT ![x] = t] /\ present' = present
        /\ Others(S) /\ (UNCHANGED stamp \/ Touch(x)) /\ (~C => Touch(x))
    BY <1>3 DEF OtherChangesTarget, OtherRelinks
  <2>2. target' \in [Links -> {"there", "missing", "unreachable"}]
        /\ \A y \in Links : y # x => target'[y] = target[y]
    BY <1>0, <2>1 DEF Typed
  <2>3. \A y \in Links : \/ target'[y] = target[y] \/ y \notin todo \cup Planned \/ y \in S
                         \/ y \notin todo \cup Cleared /\ Touch(y)
    BY <2>1, <2>2
  <2>4. x \in Place
    BY DEF Links
  <2> HIDE DEF S
  <2>5. present' \in SUBSET Place /\ Rooted(present') /\ present' \ present = {}
    BY <1>0, <2>1 DEF Typed, Rooted
  <2> QED
    BY <2>1, <2>2, <2>3, <2>4, <2>5, OthersKeep
<1> QED
  BY <1>1, <1>2, <1>3 DEF Environment

\* What is above a place is less deep.
LEMMA AboveShallower ==
  ASSUME NEW y \in Place
  PROVE  \A z \in Above[y] : Depth[z] < Depth[y]
<1> DEFINE S == {z \in Place : Depth[z] < Depth[y]}
<1>1. \A z \in Place : Depth[z] \in Nat /\ Parent[z] \in Place \cup {Root}
  BY TreeAssumption DEF Dirs
<1>2. \A z \in Place : Parent[z] # Root => Depth[Parent[z]] < Depth[z]
  BY TreeAssumption
<1>3. Rooted(S)
  <2> SUFFICES ASSUME NEW z \in Place, Depth[z] < Depth[y], Parent[z] # Root
               PROVE  Parent[z] \in Place /\ Depth[Parent[z]] < Depth[y]
    BY DEF Rooted
  <2>1. Parent[z] \in Place /\ Depth[Parent[z]] < Depth[z]
    BY <1>1, <1>2
  <2> QED
    BY <1>1, <2>1
<1>4. Parent[y] \in S \cup {Root}
  BY <1>1, <1>2
<1>5. Above[y] \subseteq S
  <2> HIDE DEF S
  <2>1. S \in SUBSET Place
    BY DEF S
  <2> QED
    BY <1>3, <1>4, <2>1, AboveMeans
<1> QED
  BY <1>5

\* A directory is opened before the descent has come to any of its entries.
LEMMA OpensNew ==
  ASSUME NEW x \in Place, Branch(x), NEW y \in Place, descent[y] = "named",
         NEW z \in Place, Parent[z] = y
  PROVE  descent[z] = "unseen"
<1> SUFFICES ASSUME descent[z] # "unseen" PROVE FALSE
  OBVIOUS
<1>1. z = x
  BY DEF Branch, Tried
<1>2. y = x \/ x \in Above[y]
  BY DEF Branch
<1>3. Depth[x] \in Nat /\ Depth[y] \in Nat /\ Depth[x] > Depth[y]
  BY <1>1, TreeAssumption
<1> QED
  BY <1>2, <1>3, AboveShallower

\* The descent is of the operation whose turn it is, and else there is none.
LEMMA DescentKeeps == ASSUME IInv, Descent, [Next]_vars PROVE Descent'
<1> USE DEF scan
<1> DEFINE x == ops[Len(fate) + 1].path
<1>0. Typed /\ Phase /\ descent \in [Place -> Named]
  BY DEF IInv, Descent
<1>1. CASE Verify
  <2>1. /\ UNCHANGED <<mode, ops, verdict, fate>> /\ pc = "run" /\ pc' = "unlink"
        /\ mode = "obliterate" /\ verdict[Len(fate) + 1]
        /\ descent' = [descent EXCEPT ![x] = "named"]
    BY <1>1 DEF Verify, Due
  <2>2. \A y \in Place : descent[y] = "unseen"
    BY <2>1 DEF Descent
  <2> QED
    BY <1>0, <2>1, <2>2 DEF Descent, Branch, Named
<1>2. CASE \E y \in Place : Open(y) \/ Unlink(y) \/ Vanish(y)
  <2>0. PICK y \in Place : Open(y) \/ Unlink(y) \/ Vanish(y)
    BY <1>2
  <2>1. /\ UNCHANGED <<mode, pc, ops, verdict, fate>> /\ pc = "unlink"
        /\ mode = "obliterate" /\ verdict[Len(fate) + 1] /\ Branch(x)
    BY <2>0 DEF Open, Unlink, Vanish, Descends, Descent
  <2>2. /\ descent[y] \in {"named", "opened"} /\ descent'[y] \in Tried \cup {"absent"}
        /\ descent[y] = "opened" => descent'[y] \in Tried
        /\ descent' \in [Place -> Named]
        /\ \A z \in Place \ {y} : \/ descent'[z] = descent[z]
                                  \/ descent'[z] = "named" /\ Open(y) /\ Parent[z] = y
                                       /\ descent'[y] = "opened"
    <3>1. CASE Open(y)
      BY <1>0, <3>1 DEF Open, Reaches, Marks, Children, Named, Tried
    <3>2. CASE Unlink(y)
      BY <1>0, <3>2 DEF Unlink, Reaches, Leaves, Marks, Named, Tried
    <3>3. CASE Vanish(y)
      BY <1>0, <3>3 DEF Vanish, Reaches, Leaves, Marks, Named, Tried
    <3> QED
      BY <2>0, <3>1, <3>2, <3>3
  <2>3. x \in Place
    BY <2>1, DescentNotStale
  <2>4. \A z \in Place : descent[z] \in Tried => descent'[z] \in Tried
    <3> SUFFICES ASSUME NEW z \in Place, descent[z] \in Tried, z # y PROVE descent'[z] \in Tried
      BY <2>2 DEF Tried
    <3>1. ~(Parent[z] = y /\ Open(y))
      <4>1. ASSUME Parent[z] = y, Open(y) PROVE FALSE
        BY <2>1, <2>3, <4>1, OpensNew DEF Open, Reaches, Tried
      <4> QED
        BY <4>1
    <3> QED
      BY <2>2, <3>1
  <2>5. \A a \in Place : Branch(a) => Branch(a)'
    <3>1. \A z \in Place : descent'[z] # "unseen" =>
            \/ descent[z] # "unseen"
            \/ Parent[z] \in Place /\ descent[Parent[z]] # "unseen" /\ descent'[Parent[z]] \in Tried
      BY <2>2 DEF Tried
    <3> QED
      BY <1>0, <2>2, <2>4, <3>1, BranchGrows
  <2>6. x' = x
    BY <2>1
  <2> QED
    BY <2>1, <2>2, <2>3, <2>5, <2>6 DEF Descent
<1>3. CASE Return
  BY <1>3 DEF Return, Settle, Descent, Named
<1>4. CASE \E z \in Place : OtherRemoves(z)
  <2>0. PICK z \in Place : OtherRemoves(z)
    BY <1>4
  <2>1. /\ UNCHANGED <<mode, pc, ops, verdict, fate>>
        /\ descent' = [y \in Place |-> IF Parent[y] = z THEN Orphaned(descent[y]) ELSE descent[y]]
    BY <2>0 DEF OtherRemoves, Others
  <2>2. /\ descent' \in [Place -> Named]
        /\ \A y \in Place : /\ descent[y] = "unseen" <=> descent'[y] = "unseen"
                            /\ descent[y] \in Tried => descent'[y] \in Tried
    BY <1>0, <2>1 DEF Orphaned, Named, Tried
  <2>3. CASE pc # "unlink"
    BY <2>1, <2>2, <2>3 DEF Descent
  <2>4. CASE pc = "unlink"
    <3>1. x \in Place /\ Branch(x) /\ x' = x
      BY <2>1, <2>4, DescentNotStale DEF Descent
    <3>2. \A a \in Place : Branch(a) => Branch(a)'
      BY <1>0, <2>2, BranchGrows
    <3> QED
      BY <2>1, <2>2, <2>4, <3>1, <3>2 DEF Descent
  <2> QED
    BY <2>3, <2>4
<1>5. CASE ~Verify /\ ~Return /\ ~(\E y \in Place : Open(y) \/ Unlink(y) \/ Vanish(y) \/ OtherRemoves(y))
  <2>1. /\ descent' = descent
        /\ \/ UNCHANGED <<mode, pc, ops, verdict, fate>>
           \/ pc # "unlink" /\ pc' # "unlink"
    BY <1>5 DEF Next, Process, VisitDir, VisitOther, Walks, IdentifyLink, Emit, Identify, Assess,
                WalkEnds, Interrupt, Assessed, Emitted, Answer, Check, Skip, Move, Settle,
                Environment, OtherCreates, OtherChangesTarget, OtherRelinks, Others, vars
  <2> QED
    BY <2>1 DEF Descent, Branch
<1> QED
  BY <1>1, <1>2, <1>3, <1>4, <1>5

LEMMA Inductive == Inv /\ [Next]_vars => Inv'
<1> SUFFICES ASSUME IInv, Descent, [Next]_vars PROVE IInv'
  BY DescentKeeps DEF Inv
<1>1. ASSUME NEW x \in Place,
             VisitDir(x) \/ VisitOther(x) \/ IdentifyLink(x) \/ Assess(x) \/ Emit(x)
      PROVE  IInv'
  BY <1>1, VisitDirKeeps, VisitOtherKeeps, IdentifyKeeps, AssessKeeps DEF IdentifyLink, Emit
<1>2. CASE Environment
  BY <1>2, EnvironmentKeeps
<1>3. CASE UNCHANGED vars
  <2>1. UNCHANGED <<command, mode, pc, listed, collapsible, todo, ops, verdict, fate,
                    present, stamp, target, removed, slipped>>
    BY <1>3 DEF vars, scan, world, ghost
  <2>2. Typed' /\ Phase'
    BY <2>1 DEF IInv, Typed, Phase, Planned, Rooted
  <2> QED
    BY <2>1, <2>2, QuietKeeps, NothingRemoved DEF IInv, Kept
<1> QED
  BY <1>1, <1>2, <1>3, BetweenKeeps, AssessedKeeps, CheckKeeps, SkipKeeps, MoveKeeps,
     VerifyKeeps, UnlinkKeeps, ReturnKeeps DEF Next, Process

LEMMA InitInv == Init => Inv
BY InitIInv DEF Inv, Init, Descent, Named

LEMMA Always == Spec => []Inv
BY InitInv, Inductive, PTL DEF Spec

-----------------------------------------------------------------------------
(* The walk, the assessment from below and the identities of the topmost   *)
(* directories do what they are for in every tree, whatever others do      *)
(* meanwhile: a file goes only if it came later, where no check shows it.  *)
THEOREM OnlyEmptyGo == Spec => []OnlyEmptyOnes
<1>1. Inv => OnlyEmptyOnes
  BY DEF Inv, IInv
<1> QED
  BY <1>1, Always, PTL

(* Only a link whose target is missing goes, but for what happens between  *)
(* the stat and the identity, and after the last check.                    *)
THEOREM OnlyDanglingGo == Spec => []OnlyDangling
<1>1. Inv => OnlyDangling
  BY DEF Inv, IInv
<1> QED
  BY <1>1, Always, PTL

(* The batch reads a verdict and an identity only where there is one: the  *)
(* types of the state and the lengths of plan, verdicts and fates agree.   *)
THEOREM TypeCorrect == Spec => [](Typed /\ Phase)
<1>1. Inv => Typed /\ Phase
  BY DEF Inv, IInv
<1> QED
  BY <1>1, Always, PTL

-----------------------------------------------------------------------------
(* The plan of `suns clean` is what executes: the phases of PlanPromise are *)
(* the positions of the process, and the effect is what has been removed.   *)
PlanPhase ==
  CASE pc \in {"walk", "assess", "emit"} -> "finding"
    [] pc = "emitted"                    -> "asking"
    [] pc \in {"check", "run", "unlink"} -> "approved"
    [] pc = "done"                       -> "done"
    [] pc = "declined"                   -> "stopped"

Plan == INSTANCE PlanPromise
          WITH Fates <- {"skipped", "removed"}, phase <- PlanPhase, plan <- ops,
               effect <- removed

LEMMA PlanInit == Init => Plan!Init
BY DEF Init, Plan!Init, PlanPhase

LEMMA PlanStep == Inv /\ [Next]_vars => [Plan!Next]_Plan!vars
<1> SUFFICES ASSUME Inv, [Next]_vars PROVE [Plan!Next]_Plan!vars
  OBVIOUS
<1> USE DEF scan, world, ghost
<1>0. Typed /\ Phase /\ Descent
  BY DEF Inv, IInv
<1>1. CASE \/ \E x \in Place : VisitDir(x) \/ VisitOther(x) \/ IdentifyLink(x) \/ Assess(x) \/ Emit(x)
          \/ WalkEnds \/ Assessed \/ Emitted
  <2>1. /\ UNCHANGED <<verdict, fate, removed>>
        /\ pc \in {"walk", "assess", "emit"} /\ pc' \in {"walk", "assess", "emit", "emitted"}
    BY <1>1 DEF VisitDir, VisitOther, Walks, IdentifyLink, Identify, Assess, Emit, WalkEnds,
                Assessed, Emitted
  <2> QED
    BY <2>1 DEF PlanPhase, Plan!Next, Plan!Find
<1>2. CASE Interrupt
  BY <1>2 DEF Interrupt, PlanPhase, Plan!Next, Plan!Stop
<1>3. CASE Answer
  <2>1. /\ UNCHANGED <<ops, verdict, fate, removed>> /\ pc = "emitted"
        /\ pc' \in {"check", "declined"} \/ (pc' = "done" /\ ops = <<>>)
    BY <1>3 DEF Answer
  <2> QED
    BY <2>1 DEF PlanPhase, Plan!Next, Plan!NothingFound, Plan!Approve, Plan!Stop
<1>4. CASE Check
  <2>1. /\ UNCHANGED <<ops, fate, removed>> /\ pc = "check" /\ pc' \in {"check", "run"}
        /\ Len(verdict) < Len(ops)
        /\ \E valid \in BOOLEAN : verdict' = Append(verdict, valid)
    BY <1>0, <1>4 DEF Check, Phase, Matches
  <2> QED
    BY <2>1 DEF PlanPhase, Plan!Next, Plan!Check
<1>5. CASE Skip \/ Move \/ Return
  <2>1. /\ UNCHANGED <<ops, verdict>> /\ pc \in {"run", "unlink"}
        /\ Len(verdict) = Len(ops) /\ Len(fate) < Len(ops)
        /\ verdict[Len(fate) + 1] \in BOOLEAN
        /\ pc' = "run" \/ (pc' = "done" /\ Len(fate') = Len(ops))
    BY <1>0, <1>5 DEF Skip, Move, Return, Settle, Phase, Typed
  <2>2. \/ verdict[Len(fate) + 1] = FALSE /\ fate' = Append(fate, "skipped") /\ UNCHANGED removed
        \/ /\ verdict[Len(fate) + 1] = TRUE
           /\ \E f \in {"skipped", "removed"} : fate' = Append(fate, f)
    BY <1>0, <1>5, <2>1 DEF Skip, Move, Due, Return, Descent, Spares, Settle
  <2> QED
    BY <2>1, <2>2 DEF PlanPhase, Plan!Next, Plan!Refuse, Plan!Act, Plan!Turn
<1>6. CASE Environment \/ UNCHANGED vars
  <2>1. UNCHANGED <<pc, ops, verdict, fate, removed>>
    BY <1>6 DEF Environment, OtherCreates, OtherRemoves, OtherChangesTarget, OtherRelinks,
                Others, vars
  <2> QED
    BY <2>1 DEF PlanPhase, Plan!vars
<1>7. CASE Verify
  BY <1>7 DEF Verify, PlanPhase, Plan!vars
<1>8. CASE \E y \in Place : Open(y) \/ Unlink(y) \/ Vanish(y)
  <2>1. /\ UNCHANGED <<pc, ops, verdict, fate>> /\ pc = "unlink"
        /\ Len(verdict) = Len(ops) /\ Len(fate) < Len(ops) /\ verdict[Len(fate) + 1] = TRUE
    BY <1>0, <1>8 DEF Open, Unlink, Vanish, Descends, Phase, Descent, Typed
  <2> QED
    BY <2>1 DEF PlanPhase, Plan!Next, Plan!Act, Plan!Turn
<1> QED
  BY <1>1, <1>2, <1>3, <1>4, <1>5, <1>6, <1>7, <1>8 DEF Next, Process

(* A tree or a link goes only if it was shown, consented to and, before the *)
(* first removal, found unchanged; each goes in its turn.                   *)
THEOREM PlanKept == Spec => Plan!Spec
BY PlanInit, PlanStep, Always, PTL DEF Spec, Plan!Spec

-----------------------------------------------------------------------------
(* The command ends by itself.  A stage goes through a list that does not  *)
(* grow, and the step in hand has its own: the findings still to identify  *)
(* of a visit, or the entries removeAt still has to try and to leave.      *)
Stage ==
  CASE pc = "walk"                 -> 6
    [] pc = "assess"               -> 5
    [] pc = "emit"                 -> 4
    [] pc = "emitted"              -> 3
    [] pc = "check"                -> 2
    [] pc \in {"run", "unlink"}    -> 1
    [] pc \in {"done", "declined"} -> 0

Turns ==
  CASE pc = "walk"              -> Len(Walk) - at
    [] pc = "assess"            -> Cardinality(Found \ assessed)
    [] pc = "emit"              -> Cardinality(todo)
    [] pc = "check"             -> Len(ops) - Len(verdict)
    [] pc \in {"run", "unlink"} -> Len(ops) - Len(fate)
    [] OTHER                    -> 0

Untried == {y \in Place : descent[y] \in {"unseen", "named"}}
Unended == {y \in Place : descent[y] \in {"unseen", "named", "opened"}}

InHand ==
  CASE pc = "walk"   -> Cardinality(todo)
    [] pc = "run"    -> 2 * Cardinality(Place) + 1
    [] pc = "unlink" -> Cardinality(Untried) + Cardinality(Unended)
    [] OTHER         -> 0

LessToDo ==
  \/ Stage' < Stage
  \/ Stage' = Stage /\ Turns' < Turns
  \/ Stage' = Stage /\ Turns' = Turns /\ InHand' < InHand

Advances ==
  /\ Process => LessToDo
  /\ Environment => UNCHANGED <<Stage, Turns>> /\ InHand' <= InHand

LeftCounted ==
  Stage \in 0..6 /\ Turns \in Nat /\ InHand \in 0..(2 * Cardinality(Place) + 1)

Staged ==
  /\ pc = "walk" => Stage = 6 /\ Turns = Len(Walk) - at /\ InHand = Cardinality(todo)
  /\ pc = "assess" => Stage = 5 /\ Turns = Cardinality(Found \ assessed) /\ InHand = 0
  /\ pc = "emit" => Stage = 4 /\ Turns = Cardinality(todo) /\ InHand = 0
  /\ pc = "emitted" => Stage = 3 /\ Turns = 0 /\ InHand = 0
  /\ pc = "check" => Stage = 2 /\ Turns = Len(ops) - Len(verdict) /\ InHand = 0
  /\ pc = "run" => /\ Stage = 1 /\ Turns = Len(ops) - Len(fate)
                   /\ InHand = 2 * Cardinality(Place) + 1
  /\ pc = "unlink" => /\ Stage = 1 /\ Turns = Len(ops) - Len(fate)
                      /\ InHand = Cardinality(Untried) + Cardinality(Unended)
  /\ pc \in {"done", "declined"} => Stage = 0 /\ Turns = 0 /\ InHand = 0

LEMMA StagesKnown == Staged /\ Staged'
<1>1. Staged
  BY DEF Staged, Stage, Turns, InHand
<1>2. Staged'
  BY DEF Staged, Stage, Turns, InHand
<1> QED
  BY <1>1, <1>2

\* The walk lists finitely many places.
LEMMA PlacesAreFinite ==
  /\ Len(Walk) \in Nat /\ DOMAIN Walk = 1..Len(Walk) /\ IsFiniteSet(Place)
  /\ \A S \in SUBSET Place : /\ IsFiniteSet(S) /\ Cardinality(S) \in Nat
                            /\ Cardinality(S) <= Cardinality(Place)
<1>1. Len(Walk) \in Nat /\ DOMAIN Walk = 1..Len(Walk)
  BY WalkAssumption, LenProperties
<1>2. IsFiniteSet(1..Len(Walk))
  BY <1>1, FS_Interval
<1>3. Walk \in Surjection(1..Len(Walk), Place)
  BY <1>1, WalkAssumption DEF Surjection
<1>5. IsFiniteSet(Place)
  BY <1>2, <1>3, FS_Surjection
<1> QED
  BY <1>1, <1>5, FS_Subset, FS_CardinalityType

\* A part of a set of places has no more elements, and fewer if one is not in it.
LEMMA CountPlaces ==
  ASSUME NEW S \in SUBSET Place, NEW T \in SUBSET S
  PROVE  /\ Cardinality(S) \in Nat /\ Cardinality(T) \in Nat
         /\ Cardinality(T) <= Cardinality(S)
         /\ T # S => Cardinality(T) < Cardinality(S)
<1>1. IsFiniteSet(S) /\ Cardinality(S) \in Nat /\ Cardinality(T) \in Nat
  BY PlacesAreFinite
<1> QED
  BY <1>1, FS_Subset

\* Where the walk and the descent are.
Walked ==
  /\ pc \in {"walk", "assess", "emit", "emitted", "check", "run", "unlink", "done", "declined"}
  /\ at \in 0..Len(Walk) /\ (command = "empty-dirs" => pc # "walk" \/ todo = {})

StepsInv == Inv /\ Walked

LEMMA StepsInvKept == StepsInv /\ [Next]_vars => StepsInv'
<1> SUFFICES ASSUME StepsInv, [Next]_vars PROVE StepsInv'
  OBVIOUS
<1> USE DEF scan, world
<1>1. Inv'
  BY Inductive DEF StepsInv
<1>2. Walked'
  <2>1. Walked /\ Len(Walk) \in Nat
    BY PlacesAreFinite DEF StepsInv
  <2>2. (command' = "empty-dirs" => pc' # "walk" \/ todo' = {})
    BY <1>1 DEF Inv, IInv, Phase
  <2>3. CASE \E x \in Place : VisitDir(x) \/ VisitOther(x)
    <3>1. at < Len(Walk) /\ at' = at + 1 /\ UNCHANGED pc
      BY <2>3 DEF VisitDir, VisitOther, Walks
    <3> QED
      BY <2>1, <2>2, <3>1 DEF Walked
  <2>4. CASE ~\E x \in Place : VisitDir(x) \/ VisitOther(x)
    <3>1. /\ at' = at
          /\ pc' = pc \/ pc' \in {"assess", "emit", "emitted", "check", "run", "unlink", "done",
                                  "declined"}
      BY <2>4 DEF Next, Process, IdentifyLink, Identify, Assess, Emit, WalkEnds, Interrupt,
                  Assessed, Emitted, Answer, Check, Skip, Move, Verify, Open, Unlink, Vanish,
                  Descends, Return, Settle, Environment,
                  OtherCreates, OtherRemoves, OtherChangesTarget, OtherRelinks, Others, vars
    <3> QED
      BY <2>1, <2>2, <3>1 DEF Walked
  <2> QED
    BY <2>3, <2>4
<1> QED
  BY <1>1, <1>2 DEF StepsInv

LEMMA StepsAlways == Spec => []StepsInv
<1>1. Init => StepsInv
  BY InitInv, PlacesAreFinite DEF Init, StepsInv, Walked
<1> QED
  BY <1>1, StepsInvKept, PTL DEF Spec

LEMMA Sizes ==
  ASSUME StepsInv
  PROVE  /\ Len(Walk) - at \in Nat /\ Len(ops) \in Nat /\ Len(verdict) \in Nat /\ Len(fate) \in Nat
         /\ Found \ assessed \in SUBSET Place /\ todo \in SUBSET Place
         /\ Untried \in SUBSET Place /\ Unended \in SUBSET Place
         /\ Cardinality(todo) \in Nat /\ Cardinality(Found \ assessed) \in Nat
         /\ Cardinality(Untried) \in Nat /\ Cardinality(Unended) \in Nat
         /\ Cardinality(todo) <= Cardinality(Place)
         /\ Cardinality(Untried) <= Cardinality(Place)
         /\ Cardinality(Unended) <= Cardinality(Place) /\ Cardinality(Place) \in Nat
<1>1. Typed /\ at \in 0..Len(Walk) /\ Len(Walk) \in Nat
  BY PlacesAreFinite DEF StepsInv, Inv, IInv, Walked
<1>2. Len(ops) \in Nat /\ Len(verdict) \in Nat /\ Len(fate) \in Nat
  BY <1>1, LenProperties DEF Typed
<1>3. /\ Found \ assessed \in SUBSET Place /\ todo \in SUBSET Place
      /\ Untried \in SUBSET Place /\ Unended \in SUBSET Place
  BY <1>1 DEF Typed, Found, Dirs, Untried, Unended
<1>4. Len(Walk) - at \in Nat
  BY <1>1
<1> QED
  BY <1>2, <1>3, <1>4, PlacesAreFinite

LEMMA WhatIsLeft == StepsInv => LeftCounted
<1> SUFFICES ASSUME StepsInv PROVE LeftCounted
  OBVIOUS
<1>1. Phase /\ Walked
  BY DEF StepsInv, Inv, IInv
<1>2. pc = "check" => Len(ops) - Len(verdict) \in Nat
  BY <1>1, Sizes DEF Phase
<1>3. pc \in {"run", "unlink"} => Len(ops) - Len(fate) \in Nat
  BY <1>1, Sizes DEF Phase
<1>4. pc = "unlink" => /\ Cardinality(Untried) + Cardinality(Unended) \in Nat
                       /\ Cardinality(Untried) + Cardinality(Unended) <= 2 * Cardinality(Place) + 1
  BY Sizes
<1>5. /\ Cardinality(todo) \in 0..(2 * Cardinality(Place) + 1)
      /\ 2 * Cardinality(Place) + 1 \in 0..(2 * Cardinality(Place) + 1)
      /\ 0 \in 0..(2 * Cardinality(Place) + 1)
  BY Sizes
<1>6. Stage \in 0..6
  BY <1>1, StagesKnown DEF Staged, Walked
<1>7. Turns \in Nat
  BY <1>1, <1>2, <1>3, StagesKnown, Sizes DEF Staged, Walked
<1>8. InHand \in 0..(2 * Cardinality(Place) + 1)
  BY <1>1, <1>4, <1>5, StagesKnown DEF Staged, Walked
<1> QED
  BY <1>6, <1>7, <1>8 DEF LeftCounted

\* Discovery goes down the walk, then the directories, then what it emits.
LEMMA VisitAdvances ==
  ASSUME StepsInv, NEW x \in Place, VisitDir(x) \/ VisitOther(x)
  PROVE  LessToDo
<1>1. pc = "walk" /\ pc' = "walk" /\ at' = at + 1
  BY DEF VisitDir, VisitOther, Walks
<1>2. at \in 0..Len(Walk) /\ Len(Walk) \in Nat
  BY PlacesAreFinite DEF StepsInv, Walked
<1>3. Stage' = Stage /\ Turns = Len(Walk) - at /\ Turns' = Len(Walk) - (at + 1)
  BY <1>1, StagesKnown DEF Staged
<1> QED
  BY <1>2, <1>3 DEF LessToDo

LEMMA IdentifyAdvances ==
  ASSUME StepsInv, pc \in {"walk", "emit"}, NEW x \in Place, Identify(x)
  PROVE  LessToDo
<1>1. UNCHANGED <<pc, at>> /\ todo' = todo \ {x} /\ x \in todo
  BY DEF Identify
<1>2. Cardinality(todo') \in Nat /\ Cardinality(todo) \in Nat
      /\ Cardinality(todo') < Cardinality(todo)
  <2>1. todo \in SUBSET Place /\ todo \ {x} \in SUBSET todo /\ todo \ {x} # todo
    BY <1>1, Sizes
  <2>2. /\ Cardinality(todo) \in Nat /\ Cardinality(todo \ {x}) \in Nat
        /\ Cardinality(todo \ {x}) < Cardinality(todo)
    BY <2>1, CountPlaces
  <2> QED
    BY <1>1, <2>2
<1>3. CASE pc = "walk"
  BY <1>1, <1>2, <1>3, StagesKnown DEF Staged, LessToDo
<1>4. CASE pc = "emit"
  BY <1>1, <1>2, <1>4, StagesKnown DEF Staged, LessToDo
<1> QED
  BY <1>3, <1>4

LEMMA AssessAdvances ==
  ASSUME StepsInv, NEW x \in Place, Assess(x)
  PROVE  LessToDo
<1>1. /\ pc = "assess" /\ pc' = "assess" /\ x \in Found \ assessed
      /\ (Found \ assessed)' = (Found \ assessed) \ {x}
  BY DEF Assess, Found
<1>2. /\ Cardinality(Found \ assessed) \in Nat
      /\ Cardinality((Found \ assessed) \ {x}) \in Nat
      /\ Cardinality((Found \ assessed) \ {x}) < Cardinality(Found \ assessed)
  <2>1. /\ Found \ assessed \in SUBSET Place
        /\ (Found \ assessed) \ {x} \in SUBSET (Found \ assessed)
        /\ (Found \ assessed) \ {x} # Found \ assessed
    BY <1>1, Sizes
  <2> QED
    BY <2>1, CountPlaces
<1>3. /\ Stage' = Stage /\ Turns = Cardinality(Found \ assessed)
      /\ Turns' = Cardinality((Found \ assessed) \ {x})
  BY <1>1, StagesKnown DEF Staged
<1> QED
  BY <1>2, <1>3 DEF LessToDo

LEMMA PassOnAdvances ==
  ASSUME StepsInv, WalkEnds \/ Interrupt \/ Assessed \/ Emitted \/ Answer
  PROVE  LessToDo
<1>1. \/ pc = "walk" /\ pc' \in {"assess", "emitted", "declined"}
      \/ pc = "assess" /\ pc' \in {"emit", "declined"}
      \/ pc = "emit" /\ pc' = "emitted"
      \/ pc = "emitted" /\ pc' \in {"done", "check", "declined"}
  BY DEF WalkEnds, Interrupt, Assessed, Emitted, Answer
<1>2. Stage' < Stage
  BY <1>1, StagesKnown DEF Staged
<1> QED
  BY <1>2 DEF LessToDo

\* Every operation is checked, then executed.
LEMMA BatchAdvances ==
  ASSUME StepsInv, Check \/ Skip \/ Move \/ Return
  PROVE  LessToDo
<1> USE DEF scan
<1>0. /\ verdict \in Seq(BOOLEAN) /\ fate \in Seq({"skipped", "removed"}) /\ Phase
      /\ Len(ops) \in Nat /\ Len(verdict) \in Nat /\ Len(fate) \in Nat
  BY Sizes DEF StepsInv, Inv, IInv, Typed
<1>1. CASE Check
  <2>1. /\ pc = "check" /\ ops' = ops /\ pc' \in {"check", "run"}
        /\ \E valid \in BOOLEAN : verdict' = Append(verdict, valid)
    BY <1>0, <1>1 DEF Check, Matches
  <2>2. Len(verdict') = Len(verdict) + 1
    BY <1>0, <2>1
  <2>3. CASE pc' = "run"
    BY <2>1, <2>3, StagesKnown DEF Staged, LessToDo
  <2>4. CASE pc' = "check"
    <3>1. /\ Stage' = Stage /\ Turns = Len(ops) - Len(verdict)
          /\ Turns' = Len(ops) - (Len(verdict) + 1)
      BY <2>1, <2>2, <2>4, StagesKnown DEF Staged
    <3> QED
      BY <1>0, <3>1 DEF LessToDo
  <2> QED
    BY <2>1, <2>3, <2>4
<1>2. CASE Skip \/ Move \/ Return
  <2>1. /\ pc \in {"run", "unlink"} /\ ops' = ops /\ pc' \in {"run", "done"}
        /\ \E f \in {"skipped", "removed"} : fate' = Append(fate, f)
    BY <1>2 DEF Skip, Move, Return, Settle
  <2>2. Len(fate') = Len(fate) + 1
    BY <1>0, <2>1
  <2>3. CASE pc' = "done"
    BY <2>1, <2>3, StagesKnown DEF Staged, LessToDo
  <2>4. CASE pc' = "run"
    <3>1. /\ Stage' = Stage /\ Turns = Len(ops) - Len(fate)
          /\ Turns' = Len(ops) - (Len(fate) + 1)
      BY <2>1, <2>2, <2>4, StagesKnown DEF Staged
    <3> QED
      BY <1>0, <3>1 DEF LessToDo
  <2> QED
    BY <2>1, <2>3, <2>4
<1> QED
  BY <1>1, <1>2

LEMMA VerifyAdvances == ASSUME StepsInv, Verify PROVE LessToDo
<1> USE DEF scan
<1>1. pc = "run" /\ pc' = "unlink" /\ UNCHANGED <<ops, fate>>
  BY DEF Verify
<1>2. /\ Cardinality(Untried') \in Nat /\ Cardinality(Unended') \in Nat /\ Cardinality(Place) \in Nat
      /\ Cardinality(Untried') <= Cardinality(Place)
      /\ Cardinality(Unended') <= Cardinality(Place)
  BY PlacesAreFinite DEF Untried, Unended
<1>3. /\ Stage' = Stage /\ Turns' = Turns /\ InHand = 2 * Cardinality(Place) + 1
      /\ InHand' = Cardinality(Untried') + Cardinality(Unended')
  BY <1>1, StagesKnown DEF Staged
<1> QED
  BY <1>2, <1>3 DEF LessToDo

\* Fewer entries to try or to leave, and no more of the other.
LEMMA DescentSums ==
  ASSUME StepsInv, pc = "unlink", pc' = "unlink", UNCHANGED <<ops, fate>>,
         Untried' \subseteq Untried, Unended' \subseteq Unended
  PROVE  /\ UNCHANGED <<Stage, Turns>> /\ InHand' <= InHand
         /\ Untried' # Untried \/ Unended' # Unended => InHand' < InHand
<1>1. /\ Cardinality(Untried) \in Nat /\ Cardinality(Untried') \in Nat
      /\ Cardinality(Untried') <= Cardinality(Untried)
      /\ Untried' # Untried => Cardinality(Untried') < Cardinality(Untried)
  BY Sizes, CountPlaces
<1>2. /\ Cardinality(Unended) \in Nat /\ Cardinality(Unended') \in Nat
      /\ Cardinality(Unended') <= Cardinality(Unended)
      /\ Unended' # Unended => Cardinality(Unended') < Cardinality(Unended)
  BY Sizes, CountPlaces
<1>3. /\ UNCHANGED <<Stage, Turns>> /\ InHand = Cardinality(Untried) + Cardinality(Unended)
      /\ InHand' = Cardinality(Untried') + Cardinality(Unended')
  BY StagesKnown DEF Staged
<1> QED
  BY <1>1, <1>2, <1>3

\* removeAt tries or leaves one entry; those an opened directory has are new to it.
LEMMA DescentAdvances ==
  ASSUME StepsInv, NEW y \in Place, Open(y) \/ Unlink(y) \/ Vanish(y)
  PROVE  LessToDo
<1> USE DEF scan
<1>1. pc = "unlink" /\ pc' = "unlink" /\ UNCHANGED <<ops, fate>>
  BY DEF Open, Unlink, Vanish, Descends
<1>2. descent \in [Place -> Named] /\ Branch(ops[Len(fate) + 1].path)
  BY <1>1 DEF StepsInv, Inv, Descent
<1>3. ops[Len(fate) + 1].path \in Place
  BY <1>1, DescentNotStale DEF StepsInv, Inv
<1>4. CASE Open(y)
  <2>1. descent[y] = "named"
    BY <1>4 DEF Open, Reaches
  <2>2. \A z \in Place : Parent[z] = y => descent[z] = "unseen"
    BY <1>2, <1>3, <2>1, OpensNew
  <2>3. /\ descent'[y] \in {"opened", "skipped"}
        /\ \A z \in Place \ {y} : descent'[z] = descent[z]
                                    \/ (descent[z] = "unseen" /\ descent'[z] = "named")
    BY <1>2, <1>4, <2>2 DEF Open, Marks, Children
  <2>4. Untried' \subseteq Untried /\ Unended' \subseteq Unended /\ y \in Untried \ Untried'
    BY <2>1, <2>3 DEF Untried, Unended
  <2> QED
    BY <1>1, <2>4, DescentSums DEF LessToDo
<1>5. CASE Unlink(y) \/ Vanish(y)
  <2>1. /\ descent[y] \in {"named", "opened"} /\ descent'[y] \in {"unlinked", "skipped", "absent"}
        /\ \A z \in Place \ {y} : descent'[z] = descent[z]
    BY <1>2, <1>5 DEF Unlink, Vanish, Reaches, Leaves, Marks
  <2>2. Untried' \subseteq Untried /\ Unended' \subseteq Unended /\ y \in Unended \ Unended'
    BY <2>1 DEF Untried, Unended
  <2> QED
    BY <1>1, <2>2, DescentSums DEF LessToDo
<1> QED
  BY <1>4, <1>5

LEMMA ProcessAdvances == ASSUME StepsInv, Process PROVE LessToDo
<1>1. CASE \E x \in Place : VisitDir(x) \/ VisitOther(x)
  BY <1>1, VisitAdvances
<1>2. CASE \E x \in Place : IdentifyLink(x) \/ Emit(x)
  BY <1>2, IdentifyAdvances DEF IdentifyLink, Emit
<1>3. CASE \E x \in Place : Assess(x)
  BY <1>3, AssessAdvances
<1>4. CASE \E y \in Place : Open(y) \/ Unlink(y) \/ Vanish(y)
  BY <1>4, DescentAdvances
<1> QED
  BY <1>1, <1>2, <1>3, <1>4, PassOnAdvances, BatchAdvances, VerifyAdvances DEF Process

\* What others remove under the descent it need not try any more.
LEMMA OthersAdvance ==
  ASSUME StepsInv, Environment
  PROVE  UNCHANGED <<Stage, Turns>> /\ InHand' <= InHand
<1> USE DEF scan
<1>1. UNCHANGED <<pc, at, listed, assessed, todo, ops, verdict, fate>>
  BY DEF Environment, OtherCreates, OtherRemoves, OtherChangesTarget, OtherRelinks, Others
<1>2. CASE pc # "unlink"
  <2>1. UNCHANGED <<Stage, Turns, InHand>>
    BY <1>1, <1>2 DEF Stage, Turns, InHand, Found
  <2> QED
    BY <2>1, WhatIsLeft DEF LeftCounted
<1>3. CASE pc = "unlink"
  <2>1. descent \in [Place -> Named]
    BY DEF StepsInv, Inv, Descent
  <2>2. \A y \in Place : descent'[y] = descent[y] \/ descent'[y] \in {"absent", "unlinked"}
    BY <2>1 DEF Environment, OtherCreates, OtherRemoves, OtherChangesTarget, OtherRelinks, Orphaned
  <2>3. Untried' \subseteq Untried /\ Unended' \subseteq Unended
    BY <2>2 DEF Untried, Unended
  <2> QED
    BY <1>1, <1>3, <2>3, DescentSums
<1> QED
  BY <1>2, <1>3

(* Discovery, batch and the descent of each obliteration end by themselves, *)
(* whatever other programs create, remove and exchange meanwhile: every     *)
(* step of the command leaves a stage, or in it a turn, or in the turn an   *)
(* entry fewer, and others never add one (the walk, assess and emit loops,  *)
(* Revalidate, Execute and removeAt, which lists a directory only once).    *)
THEOREM SweepIsFinite == Spec => []LeftCounted /\ [][Advances]_vars
<1>1. StepsInv /\ [Next]_vars => [Advances]_vars
  BY ProcessAdvances, OthersAdvance DEF Advances
<1> QED
  BY <1>1, WhatIsLeft, StepsAlways, PTL DEF Spec
==============================================================================
