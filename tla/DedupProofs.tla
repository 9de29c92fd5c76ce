------------------------------ MODULE DedupProofs ------------------------------
(***************************************************************************)
(* What `suns ashen` burns had been hashed, and a copy of it stays: for any *)
(* walk, any contents, any order of the groups and any number of troubles. *)
(***************************************************************************)
EXTENDS Dedup, SequenceTheorems, FiniteSetTheorems, TLAPS

-----------------------------------------------------------------------------
(* Keepers.                                                                *)
LEMMA Least ==
  ASSUME NEW T, T \subseteq Nat, T # {}
  PROVE  \E a \in T : \A b \in T : a <= b
<1>1. PICK a \in T : \A b \in T : ~(<<b, a>> \in OpToRel(<, Nat))
  BY NatLessThanWellFounded, WFMin
<1>2. ASSUME NEW b \in T PROVE a <= b
  <2>1. a \in Nat /\ b \in Nat
    OBVIOUS
  <2>2. ~(b < a)
    BY <1>1, <2>1 DEF OpToRel
  <2> QED
    BY <2>1, <2>2
<1> QED
  BY <1>1, <1>2

LEMMA ScoreBound == ASSUME NEW p \in Path PROVE Score[p] \in Int /\ Score[p] <= 3
BY DEF Score

\* betterKeeper is a strict order in which any two paths compare.
LEMMA BetterOrders ==
  ASSUME NEW p \in Path, NEW q \in Path
  PROVE  p = q \/ Better(p, q) \/ Better(q, p)
<1>1. Score[p] \in Int /\ Score[q] \in Int
  BY ScoreBound
<1>2. Depth[p] \in Nat /\ Depth[q] \in Nat /\ Rank[p] \in Nat /\ Rank[q] \in Nat
      /\ (Rank[p] = Rank[q] => p = q)
  BY PlaceAssumption
<1> QED
  BY <1>1, <1>2 DEF Better

\* Of some paths there is one that no other is better than.
LEMMA BestPath ==
  ASSUME NEW S \in SUBSET Path, S # {}
  PROVE  \E p \in S : \A q \in S : ~Better(q, p)
<1>1. PICK p1 \in S : \A q \in S : Score[q] <= Score[p1]
  <2> DEFINE T == {3 - Score[p] : p \in S}
  <2>1. T \subseteq Nat /\ T # {}
    BY ScoreBound
  <2>2. PICK a \in T : \A b \in T : a <= b
    <3> HIDE DEF T
    <3> QED
      BY <2>1, Least
  <2>3. PICK p \in S : a = 3 - Score[p]
    BY <2>2
  <2>4. ASSUME NEW q \in S PROVE Score[q] <= Score[p]
    <3>1. 3 - Score[p] <= 3 - Score[q]
      BY <2>2, <2>3
    <3>2. Score[p] \in Int /\ Score[q] \in Int
      BY ScoreBound
    <3> QED
      BY <3>1, <3>2
  <2> QED
    BY <2>4
<1> DEFINE S1 == {p \in S : Score[p] = Score[p1]}
<1>2. PICK p2 \in S1 : \A q \in S1 : Depth[p2] <= Depth[q]
  <2> DEFINE T == {Depth[p] : p \in S1}
  <2>1. T \subseteq Nat /\ T # {}
    BY PlaceAssumption
  <2>2. PICK a \in T : \A b \in T : a <= b
    <3> HIDE DEF T
    <3> QED
      BY <2>1, Least
  <2> QED
    BY <2>2
<1> DEFINE S2 == {p \in S1 : Depth[p] = Depth[p2]}
<1>3. PICK p3 \in S2 : \A q \in S2 : Rank[p3] <= Rank[q]
  <2> DEFINE T == {Rank[p] : p \in S2}
  <2>1. T \subseteq Nat /\ T # {}
    BY PlaceAssumption
  <2>2. PICK a \in T : \A b \in T : a <= b
    <3> HIDE DEF T
    <3> QED
      BY <2>1, Least
  <2> QED
    BY <2>2
<1>4. ASSUME NEW q \in S PROVE ~Better(q, p3)
  <2>1. Score[q] \in Int /\ Score[p3] \in Int /\ Score[q] <= Score[p3]
    BY <1>1, ScoreBound
  <2>2. Depth[q] \in Nat /\ Depth[p3] \in Nat /\ Rank[q] \in Nat /\ Rank[p3] \in Nat
    BY PlaceAssumption
  <2>3. Score[q] = Score[p3] => Depth[p3] <= Depth[q]
    BY <1>2
  <2>4. Score[q] = Score[p3] /\ Depth[q] = Depth[p3] => Rank[p3] <= Rank[q]
    BY <1>3
  <2> QED
    BY <2>1, <2>2, <2>3, <2>4 DEF Better
<1> QED
  BY <1>4

-----------------------------------------------------------------------------
Candidates == [path : Path, size : Nat]
Op == [file : Nat, keeper : Nat, ident : (Inode \X Nat \X Nat) \cup (Inode \X Content)]

Typed ==
  /\ mode \in {"trash", "obliterate"}
  /\ at \in 0..Len(Walk) /\ files \in Seq(Candidates) /\ Len(files) <= at
  /\ full \in [File -> Content \cup {Unread}] /\ left \subseteq DOMAIN files
  /\ burn \in Seq(Nat) /\ ops \in Seq(Op)
  /\ verdict \in Seq(BOOLEAN) /\ fate \in Seq({"skipped", "burned"})
  /\ node \in [Path -> Inode \cup {Gone}] /\ data \in [Inode -> Content]
  /\ mtime \in [Inode -> Nat]

\* How far the process has come.
Scanning == {"walk", "size", "head", "full"}

Phase ==
  /\ pc \in Scanning => ops = <<>>
  /\ pc = "walk" => \A i \in File : full[i] = Unread
  /\ pc = "identify" => burn # <<>> /\ \A x \in 1..Len(burn) : burn[x] \in Burned
  /\ pc = "gate" => ops # <<>>
  /\ pc \notin {"check", "run", "unlink", "done"} => verdict = <<>>
  /\ pc \notin {"run", "unlink", "done"} => fate = <<>>
  /\ pc = "check" => Len(verdict) < Len(ops)
  /\ pc \in {"run", "unlink"} => Len(verdict) = Len(ops) /\ Len(fate) < Len(ops)
  /\ pc = "unlink" => verdict[Len(fate) + 1]
  /\ pc = "done" => Len(fate) <= Len(ops)

\* A file that goes has a better one of the same content, at another path.
Outranked(i, m) ==
  /\ i \in DOMAIN files /\ m \in DOMAIN files
  /\ full[i] # Unread /\ full[m] = full[i] /\ Better(PathOf(m), PathOf(i))

Planned == \A k \in 1..Len(ops) : Outranked(ops[k].file, ops[k].keeper)

\* A path holds what was hashed there, or another program or an operation of
\* the batch changed that.
Kept == \A i \in DOMAIN files : full[i] # Unread =>
          \/ i \in since
          \/ There(PathOf(i)) /\ Holds(PathOf(i)) = full[i]
          \/ \E k \in 1..Len(fate) : fate[k] = "burned" /\ PathOf(ops[k].file) = PathOf(i)

\* A path that is a candidate twice was hashed alike.
Agree == \A i, j \in DOMAIN files :
           full[i] # Unread /\ full[j] # Unread /\ PathOf(i) = PathOf(j)
             /\ i \notin since /\ j \notin since => full[i] = full[j]

\* A recorded identity is of the hashed content, and what others do later shows
\* in it or is counted.
Shown(i, n, s, t) ==
  /\ t <= mtime[n]
  /\ t = mtime[n] /\ node[PathOf(i)] = n /\ Size[data[n]] = s => data[n] = full[i]

Shows == \A k \in 1..Len(ops) :
  \/ ops[k].file \in slipped
  \/ \E n \in Inode : ops[k].ident = <<n, full[ops[k].file]>>
  \/ \E n \in Inode, s \in Nat, t \in Nat :
       ops[k].ident = <<n, s, t>> /\ Shown(ops[k].file, n, s, t)

\* What has passed its last check.
Clear == \A k \in 1..Len(verdict) : Passed(k) =>
  LET i == ops[k].file
  IN i \in slipped \/ ~There(PathOf(i)) \/ Holds(PathOf(i)) = full[i]

Counted == \A r \in removed : r.op \in 1..Len(ops)

Held == Planned /\ Kept /\ Agree /\ Shows /\ Clear /\ Counted /\ OnlyDuplicates
IInv == Typed /\ Phase /\ Held

-----------------------------------------------------------------------------
\* What a sequence of the state is.
LEMMA FilesAre ==
  ASSUME Typed
  PROVE  /\ Len(files) \in Nat /\ DOMAIN files = 1..Len(files) /\ DOMAIN files \subseteq File
         /\ \A i \in DOMAIN files : PathOf(i) \in Path /\ files[i].size \in Nat
                                    /\ (full[i] # Unread => full[i] \in Content)
<1>1. Len(Walk) \in Nat
  BY WalkAssumption, LenProperties
<1>2. Len(files) \in Nat /\ DOMAIN files = 1..Len(files)
  BY LenProperties DEF Typed
<1>3. DOMAIN files \subseteq File
  BY <1>1, <1>2 DEF Typed, File
<1>4. \A i \in DOMAIN files : files[i] \in Candidates
  BY <1>2, ElementOfSeq DEF Typed
<1> QED
  BY <1>2, <1>3, <1>4 DEF Typed, Candidates, PathOf

LEMMA OpsAre ==
  ASSUME Typed
  PROVE  /\ Len(ops) \in Nat /\ DOMAIN ops = 1..Len(ops)
         /\ Len(verdict) \in Nat /\ DOMAIN verdict = 1..Len(verdict)
         /\ Len(fate) \in Nat /\ DOMAIN fate = 1..Len(fate)
         /\ \A k \in 1..Len(ops) : ops[k] \in Op
BY LenProperties, ElementOfSeq DEF Typed

LEMMA FilesFinite == ASSUME Typed, NEW S \in SUBSET DOMAIN files PROVE IsFiniteSet(S)
<1>1. IsFiniteSet(DOMAIN files)
  BY FilesAre, FS_Interval
<1> QED
  BY <1>1, FS_Subset

\* pickKeeper: of the files of a group, one that no other is better than.
LEMMA KeeperIs ==
  ASSUME Typed, NEW i \in DOMAIN files, full[i] # Unread
  PROVE  Keeper(i) \in Group(i) /\ ~Better(PathOf(i), PathOf(Keeper(i)))
<1>1. i \in Group(i) /\ Group(i) \subseteq DOMAIN files
  BY DEF Group, Sized
<1>2. PICK p \in {PathOf(j) : j \in Group(i)} : \A q \in {PathOf(j) : j \in Group(i)} : ~Better(q, p)
  <2> DEFINE S == {PathOf(j) : j \in Group(i)}
  <2>1. S \in SUBSET Path /\ S # {}
    BY <1>1, FilesAre
  <2> HIDE DEF S
  <2>2. \E p \in S : \A q \in S : ~Better(q, p)
    BY <2>1, BestPath
  <2> QED
    BY <2>2 DEF S
<1>3. \E k \in Group(i) : \A j \in Group(i) : ~Better(PathOf(j), PathOf(k))
  BY <1>2
<1>4. Keeper(i) \in Group(i) /\ \A j \in Group(i) : ~Better(PathOf(j), PathOf(Keeper(i)))
  BY <1>3 DEF Keeper
<1> QED
  BY <1>1, <1>4

\* buildGroup: what is to be burned is outranked by its keeper.
LEMMA BurnedIs ==
  ASSUME Typed, NEW i \in Burned
  PROVE  Outranked(i, Keeper(i))
<1>1. i \in DOMAIN files /\ Several(Group(i)) /\ PathOf(i) # PathOf(Keeper(i))
  BY DEF Burned
<1>2. full[i] # Unread
  <2>1. Group(i) # {}
    <3>1. Cardinality({}) = 0
      BY FS_EmptySet
    <3> QED
      BY <1>1, <3>1 DEF Several
  <2> QED
    BY <2>1 DEF Group
<1>3. Keeper(i) \in Group(i) /\ ~Better(PathOf(i), PathOf(Keeper(i)))
  BY <1>1, <1>2, KeeperIs
<1>4. Keeper(i) \in DOMAIN files /\ full[Keeper(i)] = full[i]
  BY <1>3 DEF Group, Sized
<1>5. PathOf(i) \in Path /\ PathOf(Keeper(i)) \in Path
  BY <1>1, <1>4, FilesAre
<1> QED
  BY <1>1, <1>2, <1>3, <1>4, <1>5, BetterOrders DEF Outranked

\* The groups depend on the hashes alone.
LEMMA BurnedStays ==
  ASSUME UNCHANGED <<files, head, full>>
  PROVE  Burned' = Burned /\ \A i : Keeper(i)' = Keeper(i)
BY DEF Burned, Keeper, Group, Sized, Several, PathOf

\* A step that leaves plan, hashes and world alone, and is not the last check.
LEMMA QuietKeeps ==
  ASSUME Held, UNCHANGED <<mode, files, full, ops, verdict, fate, world, ghost>>,
         pc' = "unlink" => pc = "unlink"
  PROVE  Held'
<1> USE DEF world, ghost
<1>1. Planned'
  BY DEF Held, Planned, Outranked, PathOf
<1>2. Kept'
  BY DEF Held, Kept, PathOf, There, Holds
<1>3. Agree'
  BY DEF Held, Agree, PathOf
<1>4. Shows'
  BY DEF Held, Shows, Shown, PathOf
<1>5. Clear'
  BY DEF Held, Clear, Passed, PathOf, There, Holds
<1>6. Counted' /\ OnlyDuplicates'
  BY DEF Held, Counted, OnlyDuplicates
<1> QED
  BY <1>1, <1>2, <1>3, <1>4, <1>5, <1>6 DEF Held

-----------------------------------------------------------------------------
(* The scan.                                                               *)
LEMMA InitIInv == ASSUME Init PROVE IInv
<1>1. /\ ops = <<>> /\ Len(ops) = 0 /\ verdict = <<>> /\ Len(verdict) = 0 /\ fate = <<>> /\ burn = <<>>
      /\ files = <<>> /\ Len(files) = 0 /\ DOMAIN files = {}
  BY DEF Init
<1>2. Len(Walk) \in Nat
  BY WalkAssumption, LenProperties
<1>3. node \in [Path -> Inode \cup {Gone}] /\ data \in [Inode -> Content]
  BY FileAssumption DEF Init
<1>4. Typed
  BY <1>1, <1>2, <1>3 DEF Init, Typed
<1>5. Phase
  BY <1>1 DEF Init, Phase
<1>6. Held
  BY <1>1 DEF Init, Held, Planned, Kept, Agree, Shows, Clear, Counted, OnlyDuplicates
<1> QED
  BY <1>4, <1>5, <1>6 DEF IInv

\* Before the plan there is nothing but the hashes.
LEMMA NoPlan ==
  ASSUME IInv, pc \in Scanning
  PROVE  /\ ops = <<>> /\ Len(ops) = 0 /\ verdict = <<>> /\ Len(verdict) = 0
         /\ fate = <<>> /\ Len(fate) = 0 /\ removed = {}
<1>1. ops = <<>> /\ verdict = <<>> /\ fate = <<>>
  BY DEF IInv, Phase, Scanning
<1>2. Len(<<>>) = 0
  OBVIOUS
<1> QED
  BY <1>1, <1>2 DEF IInv, Held, Counted

LEMMA CollectKeeps == ASSUME IInv, NEW p \in Path, Collect(p) PROVE IInv'
<1> USE DEF world, ghost
<1> DEFINE new == [path |-> p, size |-> Size[Holds(p)]]
<1>1. /\ pc = "walk" /\ at < Len(Walk) /\ at' = at + 1 /\ files' = Append(files, new)
      /\ There(p)
      /\ UNCHANGED <<mode, pc, left, full, burn, ops, verdict, fate, node, data, mtime,
                     removed, since, slipped>>
  BY DEF Collect, Step, Candidate
<1>2. Typed /\ Phase /\ Held /\ Len(Walk) \in Nat
  BY WalkAssumption, LenProperties DEF IInv
<1>3. new \in Candidates
  <2>1. node[p] \in Inode
    BY <1>1, <1>2 DEF There, Typed
  <2>2. Size[data[node[p]]] \in Nat
    BY <1>2, <2>1, FileAssumption DEF Typed
  <2> QED
    BY <2>2 DEF Candidates, Holds
<1> HIDE DEF new
<1>4. /\ files' \in Seq(Candidates) /\ Len(files') = Len(files) + 1
      /\ DOMAIN files' = 1..Len(files) + 1 /\ DOMAIN files = 1..Len(files) /\ Len(files) \in Nat
  <2>1. files' \in Seq(Candidates) /\ Len(files') = Len(files) + 1
    BY <1>1, <1>2, <1>3, AppendProperties DEF Typed
  <2> QED
    BY <1>2, <2>1, LenProperties DEF Typed
<1>5. Typed'
  BY <1>1, <1>2, <1>4 DEF Typed
<1>6. Phase'
  BY <1>1, <1>2, <1>4 DEF Phase
<1>7. DOMAIN files' \subseteq File
  BY <1>1, <1>2, <1>4 DEF Typed, File
<1>8. \A i \in DOMAIN files' : full'[i] = Unread
  BY <1>1, <1>2, <1>7 DEF Phase
<1>9. Kept' /\ Agree'
  BY <1>8 DEF Kept, Agree
<1>10. Planned' /\ Shows' /\ Clear' /\ Counted' /\ OnlyDuplicates'
  BY <1>1, NoPlan DEF Planned, Shows, Clear, Counted, OnlyDuplicates, Scanning
<1> QED
  BY <1>5, <1>6, <1>9, <1>10 DEF IInv, Held

\* Steps of the scan that hash no file to its end.
LEMMA ScanKeeps ==
  ASSUME IInv, \/ \E p \in Path : PassOver(p)
               \/ WalkEnds \/ Interrupt
               \/ \E s \in sizes : NextSize(s)
               \/ \E i \in DOMAIN files : HashHead(i)
  PROVE  IInv'
<1> USE DEF scan, world, ghost
<1>1. /\ UNCHANGED <<mode, files, full, burn, ops, verdict, fate, node, data, mtime,
                     removed, since, slipped>>
      /\ pc \in Scanning /\ pc' \in {"walk", "size", "head", "full", "declined"}
      /\ (pc' = "walk" => pc = "walk")
      /\ at' \in {at, at + 1} /\ (at' # at => at < Len(Walk))
      /\ left' \subseteq DOMAIN files \cup left
  <2>1. CASE \E p \in Path : PassOver(p)
    BY <2>1 DEF PassOver, Step, Scanning
  <2>2. CASE WalkEnds
    BY <2>2 DEF WalkEnds, Scanning
  <2>3. CASE Interrupt
    BY <2>3 DEF Interrupt, Scanning
  <2>4. CASE \E s \in sizes : NextSize(s)
    BY <2>4 DEF NextSize, Sized, Scanning
  <2>5. ASSUME NEW i \in DOMAIN files, HashHead(i)
        PROVE  /\ UNCHANGED <<mode, files, full, burn, ops, verdict, fate, node, data, mtime,
                              removed, since, slipped, at>>
               /\ pc = "head" /\ pc' \in {"head", "size", "full"} /\ left' \subseteq DOMAIN files \cup left
    <3>1. left' \in {Survivors(files[i].size, head'), left \ {i}}
      BY <2>5 DEF HashHead
    <3>2. left' \subseteq DOMAIN files \cup left
      BY <3>1 DEF Survivors, Sized
    <3> QED
      BY <2>5, <3>2 DEF HashHead, Pass
  <2> QED
    BY <2>1, <2>2, <2>3, <2>4, <2>5 DEF Scanning
<1>2. Typed /\ Phase /\ Held /\ Len(Walk) \in Nat
  BY WalkAssumption, LenProperties DEF IInv
<1>3. Typed'
  <2>1. Len(files) \in Nat
    BY <1>2, FilesAre
  <2>2. at' \in 0..Len(Walk) /\ Len(files) <= at'
    BY <1>1, <1>2, <2>1 DEF Typed
  <2> QED
    BY <1>1, <1>2, <2>2 DEF Typed
<1>4. Phase'
  BY <1>1, <1>2, NoPlan DEF Phase, Scanning
<1> QED
  BY <1>1, <1>2, <1>3, <1>4, QuietKeeps DEF IInv

LEMMA HashFullKeeps == ASSUME IInv, NEW i \in DOMAIN files, HashFull(i) PROVE IInv'
<1> USE DEF world, ghost
<1>1. PICK c \in Content \cup {Unread} : Hash(i, c) /\ full' = [full EXCEPT ![i] = c]
  BY DEF HashFull
<1>2. /\ UNCHANGED <<mode, at, files, burn, ops, verdict, fate, node, data, mtime, removed, slipped>>
      /\ pc = "full" /\ pc' \in {"size", "full"} /\ since' = since \ {i} /\ left' = left \ {i}
  BY DEF HashFull, Hash, Pass
<1>3. Typed /\ Phase /\ Held /\ DOMAIN files \subseteq File
  BY FilesAre DEF IInv
<1>4. full'[i] = c /\ \A j \in DOMAIN files : j # i => full'[j] = full[j]
  BY <1>1, <1>3 DEF Typed
<1>5. Typed'
  BY <1>1, <1>2, <1>3 DEF Typed
<1>6. Phase'
  BY <1>2, NoPlan DEF Phase, Scanning
<1>7. \A j \in DOMAIN files : full'[j] # Unread /\ j \notin since' =>
        There(PathOf(j)) /\ Holds(PathOf(j)) = full'[j]
  <2> SUFFICES ASSUME NEW j \in DOMAIN files, full'[j] # Unread, j \notin since'
               PROVE  There(PathOf(j)) /\ Holds(PathOf(j)) = full'[j]
    OBVIOUS
  <2>1. CASE j = i
    BY <1>1, <1>4, <2>1 DEF Hash
  <2>2. CASE j # i
    BY <1>2, <1>3, <1>4, <2>2, NoPlan DEF Held, Kept, Scanning
  <2> QED
    BY <2>1, <2>2
<1>8. Kept'
  BY <1>2, <1>7 DEF Kept, PathOf, There, Holds
<1>9. Agree'
  BY <1>2, <1>7 DEF Agree, PathOf
<1>10. Planned' /\ Shows' /\ Clear' /\ Counted' /\ OnlyDuplicates'
  BY <1>2, NoPlan DEF Planned, Shows, Clear, Counted, OnlyDuplicates, Scanning
<1> QED
  BY <1>5, <1>6, <1>8, <1>9, <1>10 DEF IInv, Held

-----------------------------------------------------------------------------
(* The plan.                                                               *)
LEMMA BuildGroupsKeeps == ASSUME IInv, BuildGroups PROVE IInv'
<1> USE DEF world, ghost
<1>1. /\ UNCHANGED <<mode, at, files, left, head, full, ops, verdict, fate, node, data, mtime,
                     removed, since, slipped>>
      /\ pc = "size" /\ pc' = (IF Burned = {} THEN "done" ELSE "identify")
      /\ burn' \in [1..Cardinality(Burned) -> Burned]
  BY DEF BuildGroups, Orders
<1>2. Typed /\ Phase /\ Held
  BY DEF IInv
<1>3. Burned \subseteq DOMAIN files /\ Cardinality(Burned) \in Nat
      /\ (Burned # {} => Cardinality(Burned) # 0)
  <2>1. Burned \in SUBSET DOMAIN files
    BY DEF Burned
  <2>2. IsFiniteSet(Burned)
    BY <1>2, <2>1, FilesFinite
  <2> QED
    BY <2>1, <2>2, FS_CardinalityType, FS_EmptySet
<1>4. /\ burn' \in Seq(Nat) /\ Len(burn') = Cardinality(Burned)
      /\ \A x \in 1..Len(burn') : burn'[x] \in Burned
  <2> DEFINE n == Cardinality(Burned)
  <2> DEFINE B == Burned
  <2>1. n \in Nat /\ B \subseteq Nat /\ burn' \in [1..n -> B]
    BY <1>1, <1>2, <1>3, FilesAre
  <2> HIDE DEF n, B
  <2>2. burn' \in [1..n -> Nat] /\ \A x \in 1..n : burn'[x] \in B
    BY <2>1
  <2>3. burn' \in Seq(Nat) /\ Len(burn') = n
    BY <2>1, <2>2, SeqDef
  <2> QED
    BY <2>2, <2>3 DEF n, B
<1>6. Typed'
  BY <1>1, <1>2, <1>4 DEF Typed
<1>7. Burned' = Burned
  BY <1>1, BurnedStays
<1>8. Phase'
  <2>1. Burned # {} => burn' # <<>>
    BY <1>3, <1>4
  <2>2. /\ pc' \notin {"check", "run", "unlink", "done"} => verdict' = <<>>
        /\ pc' \notin {"run", "unlink", "done"} => fate' = <<>>
        /\ pc' \notin Scanning \cup {"gate", "check", "run", "unlink"}
        /\ Len(fate') <= Len(ops')
    BY <1>1, NoPlan DEF Scanning
  <2>3. pc' = "identify" => burn' # <<>> /\ \A x \in 1..Len(burn') : burn'[x] \in Burned'
    <3>1. pc' = "identify" => Burned # {}
      BY <1>1
    <3> HIDE DEF Burned
    <3> QED
      BY <1>4, <1>7, <2>1, <3>1
  <2> QED
    BY <2>2, <2>3 DEF Phase, Scanning
<1> QED
  BY <1>1, <1>2, <1>6, <1>8, QuietKeeps DEF IInv

\* The plan with one operation more.
LEMMA PlanGrows ==
  ASSUME ops \in Seq(Op), NEW op \in Op, ops' = Append(ops, op)
  PROVE  /\ ops' \in Seq(Op) /\ Len(ops) \in Nat /\ Len(ops') = Len(ops) + 1
         /\ \A k \in 1..Len(ops) : ops'[k] = ops[k]
         /\ ops'[Len(ops) + 1] = op
         /\ \A k \in 1..Len(ops') : k \in 1..Len(ops) \/ k = Len(ops) + 1
<1>1. /\ ops' \in Seq(Op) /\ Len(ops') = Len(ops) + 1
      /\ \A k \in 1..Len(ops) : ops'[k] = ops[k]
      /\ ops'[Len(ops) + 1] = op
  BY AppendProperties
<1>2. Len(ops) \in Nat
  BY LenProperties
<1> QED
  BY <1>1, <1>2

LEMMA IdentifyKeeps == ASSUME IInv, NEW i \in DOMAIN files, Identify(i) PROVE IInv'
<1> USE DEF world, ghost
<1> DEFINE p == PathOf(i)
<1> DEFINE op == [file |-> i, keeper |-> Keeper(i), ident |-> Ident(p)]
<1>1. /\ UNCHANGED <<mode, at, files, left, head, full, verdict, fate, node, data, mtime,
                     removed, since>>
      /\ pc = "identify" /\ burn # <<>> /\ i = burn[1] /\ burn' = Tail(burn)
      /\ pc' = (IF burn' # <<>> THEN pc ELSE IF ops' = <<>> THEN "done" ELSE "gate")
      /\ slipped' = slipped \cup (since \cap {i})
      /\ (ops' = ops \/ (There(p) /\ ops' = Append(ops, op)))
  BY DEF Identify
<1>2. Typed /\ Phase /\ Held /\ verdict = <<>> /\ fate = <<>> /\ Len(verdict) = 0 /\ Len(fate) = 0
  <2>1. Len(<<>>) = 0
    OBVIOUS
  <2> QED
    BY <1>1, <2>1 DEF IInv, Phase
<1>3. /\ Len(burn) \in Nat /\ Len(burn) >= 1 /\ burn' \in Seq(Nat) /\ Len(burn') = Len(burn) - 1
      /\ \A x \in 1..Len(burn') : burn'[x] = burn[x + 1]
  BY <1>1, <1>2, HeadTailProperties, LenProperties, EmptySeq DEF Typed
<1>4. \A x \in 1..Len(burn) : burn[x] \in Burned
  BY <1>1, <1>2 DEF Phase
<1>5. i \in Burned
  BY <1>1, <1>3, <1>4
<1>6. Outranked(i, Keeper(i))
  BY <1>2, <1>5, BurnedIs
<1>7. Burned' = Burned
  BY <1>1, BurnedStays
<1>8. Phase'
  <2>1. \A x \in 1..Len(burn') : burn'[x] \in Burned
    BY <1>3, <1>4
  <2> HIDE DEF Burned
  <2>2. \A x \in 1..Len(burn') : burn'[x] \in Burned'
    BY <1>7, <2>1
  <2> QED
    BY <1>1, <1>2, <2>2 DEF Phase, Scanning
<1>9. Kept'
  BY <1>1, <1>2 DEF Held, Kept, PathOf, There, Holds
<1>10. Agree'
  BY <1>1, <1>2 DEF Held, Agree, PathOf
<1>11. Clear'
  BY <1>1, <1>2 DEF Clear
<1>12. CASE ops' = ops
  <2>1. Typed'
    BY <1>1, <1>2, <1>3, <1>12 DEF Typed
  <2>2. Planned'
    BY <1>1, <1>2, <1>12 DEF Held, Planned, Outranked, PathOf
  <2>3. Shows'
    BY <1>1, <1>2, <1>12 DEF Held, Shows, Shown, PathOf
  <2>4. Counted' /\ OnlyDuplicates'
    BY <1>1, <1>2, <1>12 DEF Held, Counted, OnlyDuplicates
  <2> QED
    BY <1>8, <1>9, <1>10, <1>11, <2>1, <2>2, <2>3, <2>4 DEF IInv, Held
<1>13. CASE There(p) /\ ops' = Append(ops, op)
  <2>1. /\ p \in Path /\ node[p] \in Inode /\ data[node[p]] \in Content
        /\ Size[data[node[p]]] \in Nat /\ mtime[node[p]] \in Nat
    <3>1. p \in Path
      BY <1>2, FilesAre
    <3>2. node[p] \in Inode
      BY <1>2, <1>13, <3>1 DEF There, Typed
    <3> QED
      BY <1>2, <3>1, <3>2, FileAssumption DEF Typed
  <2>2. \/ Ident(p) = <<node[p], Size[data[node[p]]], mtime[node[p]]>>
        \/ Ident(p) = <<node[p], data[node[p]]>>
    BY DEF Ident, Holds
  <2>3. Ident(p) \in (Inode \X Nat \X Nat) \cup (Inode \X Content)
    <3> HIDE DEF p
    <3> QED
      BY <2>1, <2>2
  <2>4. op \in Op /\ op.file = i /\ op.keeper = Keeper(i) /\ op.ident = Ident(p)
    <3>1. Keeper(i) \in Nat /\ i \in Nat
      BY <1>2, <1>6, FilesAre DEF Outranked
    <3> QED
      BY <2>3, <3>1 DEF Op
  <2> HIDE DEF op
  <2>5. /\ ops' \in Seq(Op) /\ Len(ops) \in Nat /\ Len(ops') = Len(ops) + 1
        /\ \A k \in 1..Len(ops) : ops'[k] = ops[k]
        /\ ops'[Len(ops) + 1] = op
        /\ \A k \in 1..Len(ops') : k \in 1..Len(ops) \/ k = Len(ops) + 1
    <3>1. ops \in Seq(Op)
      BY <1>2 DEF Typed
    <3> QED
      BY <1>13, <2>4, <3>1, PlanGrows
  <2>6. Typed'
    BY <1>1, <1>2, <1>3, <2>5 DEF Typed
  <2>7. Planned'
    <3> SUFFICES ASSUME NEW k \in 1..Len(ops') PROVE Outranked(ops'[k].file, ops'[k].keeper)
      BY <1>1 DEF Planned, Outranked, PathOf
    <3> QED
      BY <1>2, <1>6, <2>4, <2>5 DEF Held, Planned
  <2>8. Shows'
    <3> SUFFICES ASSUME NEW k \in 1..Len(ops'), ops'[k].file \notin slipped'
                 PROVE  \/ \E n \in Inode : ops'[k].ident = <<n, full[ops'[k].file]>>
                        \/ \E n \in Inode, s \in Nat, t \in Nat :
                             ops'[k].ident = <<n, s, t>> /\ Shown(ops'[k].file, n, s, t)
      BY <1>1 DEF Shows, Shown, PathOf
    <3>1. CASE k \in 1..Len(ops)
      BY <1>1, <1>2, <2>5, <3>1 DEF Held, Shows
    <3>2. CASE k = Len(ops) + 1
      <4>1. ops'[k].file = i /\ ops'[k].ident = Ident(p) /\ i \notin since
        BY <1>1, <2>4, <2>5, <3>2
      <4>2. full[i] # Unread
        BY <1>6 DEF Outranked
      <4>3. data[node[p]] = full[i]
        BY <1>2, <4>1, <4>2 DEF Held, Kept, Holds
      <4>4. Shown(i, node[p], Size[data[node[p]]], mtime[node[p]])
        BY <2>1, <4>3 DEF Shown
      <4> QED
        BY <2>1, <2>2, <4>1, <4>3, <4>4
    <3> QED
      BY <2>5, <3>1, <3>2
  <2>9. removed' = removed /\ \A r \in removed : r.op \in 1..Len(ops)
    BY <1>1, <1>2 DEF Held, Counted
  <2>10. Counted'
    BY <2>5, <2>9 DEF Counted
  <2>11. OnlyDuplicates'
    BY <1>1, <1>2, <2>5, <2>9 DEF Held, OnlyDuplicates
  <2> QED
    BY <1>8, <1>9, <1>10, <1>11, <2>6, <2>7, <2>8, <2>10, <2>11 DEF IInv, Held
<1> QED
  BY <1>1, <1>12, <1>13

LEMMA AnswerKeeps == ASSUME IInv, Answer PROVE IInv'
<1> USE DEF scan, world, ghost
<1>1. /\ UNCHANGED <<mode, at, files, left, full, burn, ops, verdict, fate, node, data, mtime,
                     removed, since, slipped>>
      /\ pc = "gate" /\ pc' \in {"check", "declined"}
  BY DEF Answer
<1>2. Typed' /\ Held'
  BY <1>1, QuietKeeps DEF IInv, Typed
<1>3. Len(ops) \in Nat /\ (ops # <<>> => Len(ops) > 0) /\ Len(<<>>) = 0
  BY LenProperties, EmptySeq DEF IInv, Typed
<1> QED
  BY <1>1, <1>2, <1>3 DEF IInv, Phase, Scanning

-----------------------------------------------------------------------------
(* The batch.                                                              *)

\* What matches its recorded identity holds what was hashed.
LEMMA MatchesHolds ==
  ASSUME IInv, NEW k \in 1..Len(ops), Matches(ops[k])
  PROVE  /\ There(PathOf(ops[k].file))
         /\ ops[k].file \in slipped \/ Holds(PathOf(ops[k].file)) = full[ops[k].file]
<1> DEFINE i == ops[k].file
<1> DEFINE p == PathOf(i)
<1>1. Typed /\ Shows /\ i \in DOMAIN files /\ There(p) /\ Ident(p) = ops[k].ident
  BY DEF IInv, Held, Planned, Outranked, Matches
<1>2. p \in Path /\ node[p] \in Inode
  BY <1>1, FilesAre DEF There, Typed
<1>3. \/ Ident(p) = <<node[p], Size[data[node[p]]], mtime[node[p]]>>
      \/ Ident(p) = <<node[p], data[node[p]]>>
  BY DEF Ident, Holds
<1>4. CASE i \in slipped
  BY <1>1, <1>4
<1>5. ASSUME NEW n \in Inode, ops[k].ident = <<n, full[i]>> PROVE Holds(p) = full[i]
  BY <1>1, <1>3, <1>5 DEF Holds
<1>6. ASSUME NEW n \in Inode, NEW s \in Nat, NEW t \in Nat,
             ops[k].ident = <<n, s, t>>, Shown(i, n, s, t)
      PROVE  Holds(p) = full[i]
  BY <1>1, <1>3, <1>6 DEF Holds, Shown
<1> QED
  BY <1>1, <1>4, <1>5, <1>6 DEF Shows

LEMMA CheckKeeps == ASSUME IInv, Check PROVE IInv'
<1> USE DEF scan, world, ghost
<1> DEFINE j == Len(verdict) + 1
<1>0. Typed /\ Phase /\ Held
  BY DEF IInv
<1>1. /\ UNCHANGED <<mode, at, files, left, full, burn, ops, fate, node, data, mtime,
                     removed, since, slipped>>
      /\ pc = "check" /\ pc' = IF Len(verdict') = Len(ops) THEN "run" ELSE pc
  BY DEF Check
<1>2. PICK b \in BOOLEAN : verdict' = Append(verdict, b) /\ (b => Matches(ops[j]))
  <2>1. CASE verdict' = Append(verdict, Matches(ops[j]))
    BY <2>1, Zenon DEF Matches
  <2>2. CASE verdict' = Append(verdict, FALSE)
    BY <2>2
  <2> QED
    BY <2>1, <2>2, Zenon DEF Check
<1>3. /\ Len(verdict) \in Nat /\ Len(ops) \in Nat
      /\ Len(verdict) < Len(ops) /\ j \in 1..Len(ops) /\ fate = <<>> /\ Len(<<>>) = 0
  BY <1>0, <1>1, LenProperties DEF Typed, Phase
<1>4. /\ verdict' \in Seq(BOOLEAN) /\ Len(verdict') = j
      /\ \A k \in 1..Len(verdict) : verdict'[k] = verdict[k]
      /\ verdict'[j] = b
  BY <1>0, <1>2, AppendProperties DEF Typed
<1>5. Typed'
  BY <1>0, <1>1, <1>4 DEF Typed
<1>6. Phase'
  BY <1>0, <1>1, <1>3, <1>4 DEF Phase, Scanning
<1>7. Planned' /\ Kept'
  BY <1>0, <1>1 DEF Held, Planned, Kept, Outranked, PathOf, There, Holds
<1>8. Agree' /\ Shows'
  BY <1>0, <1>1 DEF Held, Agree, Shows, Shown, PathOf
<1>9. Counted' /\ OnlyDuplicates'
  BY <1>0, <1>1 DEF Held, Counted, OnlyDuplicates
<1>10. Clear'
  <2> DEFINE Fine(k) == LET i == ops[k].file
                        IN i \in slipped \/ ~There(PathOf(i)) \/ Holds(PathOf(i)) = full[i]
  <2>1. b => Fine(j)
    BY <1>2, <1>3, MatchesHolds
  <2>2. mode = "trash" => \A k \in 1..Len(verdict) : verdict[k] => Fine(k)
    BY <1>0, Zenon DEF Held, Clear, Passed
  <2>3. \A k \in 1..j : k = j \/ k \in 1..Len(verdict)
    BY <1>3
  <2> HIDE DEF Fine
  <2>4. mode = "trash" => \A k \in 1..Len(verdict') : verdict'[k] => Fine(k)
    BY <1>4, <2>1, <2>2, <2>3, Zenon
  <2>5. pc' # "unlink" /\ mode' = mode
    BY <1>1
  <2>6. \A k \in 1..Len(verdict') : Passed(k)' => Fine(k)
    BY <2>4, <2>5, Zenon DEF Passed
  <2> QED
    BY <1>1, <2>6 DEF Clear, Fine, PathOf, There, Holds
<1> QED
  BY <1>5, <1>6, <1>7, <1>8, <1>9, <1>10 DEF IInv, Held

LEMMA VerifyKeeps == ASSUME IInv, Verify PROVE IInv'
<1> USE DEF scan, world, ghost
<1> DEFINE j == Len(fate) + 1
<1>0. Typed /\ Phase /\ Held /\ Len(fate) \in Nat /\ Len(ops) \in Nat
  BY OpsAre DEF IInv
<1>1. /\ UNCHANGED <<mode, at, files, left, full, burn, ops, verdict, fate, node, data, mtime,
                     removed, since, slipped>>
      /\ pc = "run" /\ pc' = "unlink" /\ mode = "obliterate" /\ verdict[j] /\ Matches(ops[j])
  BY Zenon DEF Verify
<1>2. Len(verdict) = Len(ops) /\ j \in 1..Len(ops)
  BY <1>0, <1>1 DEF Phase
<1>3. Typed'
  BY <1>0, <1>1 DEF Typed
<1>4. Phase'
  <2>1. fate' = fate /\ verdict' = verdict /\ verdict[Len(fate) + 1]
    BY <1>1
  <2> QED
    BY <1>0, <1>1, <1>2, <2>1 DEF Phase, Scanning
<1>5. Planned' /\ Kept'
  BY <1>0, <1>1 DEF Held, Planned, Kept, Outranked, PathOf, There, Holds
<1>6. Agree' /\ Shows'
  BY <1>0, <1>1 DEF Held, Agree, Shows, Shown, PathOf
<1>7. Counted' /\ OnlyDuplicates'
  BY <1>0, <1>1 DEF Held, Counted, OnlyDuplicates
<1>8. Clear'
  <2>1. \A k \in 1..Len(verdict') : Passed(k)' => k = j
    BY <1>1 DEF Passed
  <2>2. ops[j].file \in slipped \/ Holds(PathOf(ops[j].file)) = full[ops[j].file]
    BY <1>1, <1>2, MatchesHolds
  <2> HIDE DEF j
  <2> QED
    BY <1>1, <2>1, <2>2 DEF Clear, PathOf, There, Holds
<1> QED
  BY <1>3, <1>4, <1>5, <1>6, <1>7, <1>8 DEF IInv, Held

\* One operation more is settled.
LEMMA SettleGrows ==
  ASSUME IInv, pc \in {"run", "unlink"}, NEW f \in {"skipped", "burned"}, Settle(f),
         node' \in [Path -> Inode \cup {Gone}]
  PROVE  /\ UNCHANGED <<mode, files, full, ops, verdict, data, mtime, since, slipped>>
         /\ Len(fate) + 1 \in 1..Len(ops) /\ Len(fate) + 1 \in 1..Len(fate')
         /\ fate'[Len(fate) + 1] = f
         /\ \A k \in 1..Len(fate) : k \in 1..Len(fate') /\ fate'[k] = fate[k]
         /\ pc' # "unlink" /\ Typed' /\ Phase'
<1> USE DEF scan
<1>1. /\ UNCHANGED <<mode, at, files, left, full, burn, ops, verdict, data, mtime, since, slipped>>
      /\ fate' = Append(fate, f) /\ pc' = IF Len(fate') = Len(ops) THEN "done" ELSE "run"
  BY DEF Settle
<1>2. /\ Typed /\ Phase /\ Len(fate) \in Nat /\ Len(ops) \in Nat /\ Len(fate) < Len(ops)
      /\ Len(verdict) = Len(ops)
  BY LenProperties DEF IInv, Typed, Phase
<1>3. /\ fate' \in Seq({"skipped", "burned"}) /\ Len(fate') = Len(fate) + 1
      /\ \A k \in 1..Len(fate) : fate'[k] = fate[k]
      /\ fate'[Len(fate) + 1] = f
  BY <1>1, <1>2, AppendProperties DEF Typed
<1>4. Typed'
  BY <1>1, <1>2, <1>3 DEF Typed
<1>5. Phase'
  BY <1>1, <1>2, <1>3 DEF Phase, Scanning
<1> QED
  BY <1>1, <1>2, <1>3, <1>4, <1>5

LEMMA SkipKeeps == ASSUME IInv, Skip PROVE IInv'
<1>1. pc \in {"run", "unlink"} /\ Settle("skipped") /\ UNCHANGED <<node, removed>>
  BY DEF Skip
<1>2. /\ UNCHANGED <<mode, files, full, ops, verdict, data, mtime, since, slipped>>
      /\ \A k \in 1..Len(fate) : k \in 1..Len(fate') /\ fate'[k] = fate[k]
      /\ pc' # "unlink" /\ Typed' /\ Phase'
  BY <1>1, SettleGrows DEF IInv, Typed
<1>3. Planned' /\ Kept'
  BY <1>1, <1>2 DEF IInv, Held, Planned, Kept, Outranked, PathOf, There, Holds
<1>4. Agree' /\ Shows' /\ Clear'
  BY <1>1, <1>2 DEF IInv, Held, Agree, Shows, Shown, Clear, Passed, PathOf, There, Holds
<1>5. Counted' /\ OnlyDuplicates'
  BY <1>1, <1>2 DEF IInv, Held, Counted, OnlyDuplicates
<1> QED
  BY <1>2, <1>3, <1>4, <1>5 DEF IInv, Held

LEMMA BurnKeeps == ASSUME IInv, Burn PROVE IInv'
<1> DEFINE j == Len(fate) + 1
<1> DEFINE i == ops[j].file
<1> DEFINE p == PathOf(i)
<1>1. /\ pc \in {"run", "unlink"} /\ Settle("burned") /\ Passed(j)
      /\ removed' = removed \cup (IF There(p) THEN {[op |-> j, held |-> Holds(p)]} ELSE {})
      /\ node' = [node EXCEPT ![p] = Gone]
  BY Zenon DEF Burn
<1>2. Typed /\ Phase /\ Held
  BY DEF IInv
<1>3. node' \in [Path -> Inode \cup {Gone}]
  BY <1>1, <1>2 DEF Typed
<1>4. /\ UNCHANGED <<mode, files, full, ops, verdict, data, mtime, since, slipped>>
      /\ j \in 1..Len(ops) /\ j \in 1..Len(fate') /\ fate'[j] = "burned"
      /\ \A k \in 1..Len(fate) : k \in 1..Len(fate') /\ fate'[k] = fate[k]
      /\ pc' # "unlink" /\ Typed' /\ Phase'
  BY <1>1, <1>3, SettleGrows
<1>5. i \in DOMAIN files /\ p \in Path
  BY <1>2, <1>4, FilesAre DEF Held, Planned, Outranked
<1>6. i \in slipped \/ ~There(p) \/ Holds(p) = full[i]
  <2>1. j \in 1..Len(verdict)
    BY <1>1, <1>2, <1>4 DEF Phase
  <2> HIDE DEF j
  <2> QED
    BY <1>1, <1>2, <2>1, Zenon DEF Held, Clear
<1> HIDE DEF i, j, p
<1>7. \A q \in Path : q # p => node'[q] = node[q]
  BY <1>1, <1>2 DEF Typed
<1>8. node'[p] = Gone
  BY <1>1, <1>2, <1>5 DEF Typed
<1>9. Planned' /\ Agree'
  BY <1>2, <1>4 DEF Held, Planned, Agree, Outranked, PathOf
<1>10. Kept'
  <2> SUFFICES ASSUME NEW x \in DOMAIN files, full[x] # Unread, x \notin since
               PROVE  \/ There(PathOf(x))' /\ Holds(PathOf(x))' = full[x]
                      \/ \E k \in 1..Len(fate') : fate'[k] = "burned" /\ PathOf(ops[k].file) = PathOf(x)
    BY <1>4 DEF Kept, PathOf, There, Holds
  <2>1. CASE PathOf(x) = p
    BY <1>4, <2>1 DEF p, i
  <2>2. CASE PathOf(x) # p
    <3>1. node'[PathOf(x)] = node[PathOf(x)]
      BY <1>2, <1>7, <2>2, FilesAre
    <3>2. \/ There(PathOf(x)) /\ Holds(PathOf(x)) = full[x]
          \/ \E k \in 1..Len(fate) : fate[k] = "burned" /\ PathOf(ops[k].file) = PathOf(x)
      BY <1>2 DEF Held, Kept
    <3> QED
      BY <1>4, <3>1, <3>2 DEF There, Holds, PathOf
  <2> QED
    BY <2>1, <2>2
<1>11. ASSUME NEW x \in DOMAIN files, node'[PathOf(x)] # Gone
       PROVE  node'[PathOf(x)] = node[PathOf(x)]
  BY <1>2, <1>7, <1>8, <1>11, FilesAre
<1>12. \A k \in 1..Len(ops) : ops[k].file \in DOMAIN files
  BY <1>2 DEF Held, Planned, Outranked
<1>13. Shows'
  <2> SUFFICES ASSUME NEW k \in 1..Len(ops), NEW n \in Inode, NEW s \in Nat, NEW t \in Nat,
                      Shown(ops[k].file, n, s, t)
               PROVE  Shown(ops[k].file, n, s, t)'
    BY <1>2, <1>4 DEF Held, Shows
  <2>1. n # Gone
    BY FileAssumption
  <2> QED
    BY <1>4, <1>11, <1>12, <2>1 DEF Shown, PathOf
<1>14. Clear'
  <2>1. \A k \in 1..Len(verdict) : k \in 1..Len(ops)
    BY <1>1, <1>2 DEF Phase
  <2>2. ASSUME NEW k \in 1..Len(ops),
               LET x == ops[k].file
               IN x \in slipped \/ ~There(PathOf(x)) \/ Holds(PathOf(x)) = full[x]
        PROVE  LET x == ops[k].file
               IN x \in slipped' \/ ~There(PathOf(x))' \/ Holds(PathOf(x))' = full'[x]
    BY <1>4, <1>11, <1>12, <2>2 DEF There, Holds, PathOf
  <2>3. \A k \in 1..Len(verdict') : Passed(k)' => Passed(k)
    BY <1>4 DEF Passed
  <2> QED
    BY <1>2, <1>4, <2>1, <2>2, <2>3, Zenon DEF Held, Clear
<1>15. Counted'
  BY <1>1, <1>2, <1>4 DEF Held, Counted
<1>16. OnlyDuplicates'
  <2> SUFFICES ASSUME NEW r \in removed'
               PROVE  r.held = full[ops[r.op].file] \/ ops[r.op].file \in slipped
    BY <1>4 DEF OnlyDuplicates
  <2>1. CASE r \in removed
    BY <1>2, <2>1 DEF Held, OnlyDuplicates
  <2>2. CASE There(p) /\ r = [op |-> j, held |-> Holds(p)]
    BY <1>6, <2>2 DEF i
  <2> QED
    BY <1>1, <2>1, <2>2
<1> QED
  BY <1>4, <1>9, <1>10, <1>13, <1>14, <1>15, <1>16 DEF IInv, Held

-----------------------------------------------------------------------------
(* Other programs.                                                         *)
\* A path leads to what it led to.
Same(p) == node'[p] = node[p] /\ (node[p] # Gone => data'[node[p]] = data[node[p]])

LEMMA DisturbKeeps ==
  ASSUME IInv, NEW touched, NEW unseen, Disturb(touched, unseen),
         node' \in [Path -> Inode \cup {Gone}], data' \in [Inode -> Content],
         mtime' \in [Inode -> Nat],
         \A i \in DOMAIN files : i \in touched \/ Same(PathOf(i)),
         \A k \in 1..Len(ops), i \in DOMAIN files, n \in Inode, s \in Nat, t \in Nat :
           i = ops[k].file /\ ops[k].ident = <<n, s, t>> /\ Shown(i, n, s, t)
             => Shown(i, n, s, t)' \/ i \in touched \cap unseen
  PROVE  IInv'
<1> USE DEF scan
<1>1. /\ UNCHANGED <<mode, pc, at, files, left, head, full, burn, ops, verdict, fate, removed>>
      /\ since' = since \cup touched /\ slipped' = slipped \cup (touched \cap (Cleared \cup unseen))
      /\ pc \notin {"done", "declined"}
  BY DEF Disturb, Ended
<1>2. Typed /\ Phase /\ Held
  BY DEF IInv
<1>3. Typed'
  BY <1>1, <1>2 DEF Typed
<1>4. Phase'
  <2>1. Burned' = Burned
    BY <1>1, BurnedStays
  <2>2. pc' = "identify" => burn' # <<>> /\ \A x \in 1..Len(burn') : burn'[x] \in Burned'
    <3> HIDE DEF Burned
    <3> QED
      BY <1>1, <1>2, <2>1 DEF Phase
  <2> QED
    BY <1>1, <1>2, <2>2 DEF Phase
<1>5. Planned'
  BY <1>1, <1>2 DEF Held, Planned, Outranked, PathOf
<1>6. Kept'
  <2> SUFFICES ASSUME NEW i \in DOMAIN files, full[i] # Unread, i \notin since'
               PROVE  \/ node'[PathOf(i)] # Gone /\ data'[node'[PathOf(i)]] = full[i]
                      \/ \E k \in 1..Len(fate) : fate[k] = "burned" /\ PathOf(ops[k].file) = PathOf(i)
    BY <1>1 DEF Kept, PathOf, There, Holds
  <2>1. i \notin touched /\ i \notin since
    BY <1>1
  <2> QED
    BY <1>2, <2>1 DEF Held, Kept, Same, There, Holds
<1>7. Agree'
  BY <1>1, <1>2 DEF Held, Agree, PathOf
<1>8. Shows'
  <2> SUFFICES ASSUME NEW k \in 1..Len(ops), NEW i \in DOMAIN files, i = ops[k].file,
                      i \notin slipped'
               PROVE  \/ \E n \in Inode : ops[k].ident = <<n, full[i]>>
                      \/ \E n \in Inode, s \in Nat, t \in Nat :
                           ops[k].ident = <<n, s, t>> /\ Shown(i, n, s, t)'
    BY <1>1, <1>5 DEF Planned, Outranked, Shows, Shown, PathOf
  <2>1. i \notin slipped /\ i \notin touched \cap unseen
    BY <1>1
  <2> HIDE DEF Shown
  <2> QED
    BY <1>2, <2>1 DEF Held, Shows
<1>9. Clear'
  <2>1. \A k \in 1..Len(verdict) : k \in 1..Len(ops)
    <3>1. /\ pc = "check" => Len(verdict) < Len(ops)
          /\ pc \in {"run", "unlink"} => Len(verdict) = Len(ops)
          /\ pc \notin {"check", "run", "unlink"} => verdict = <<>>
      BY <1>1, <1>2 DEF Phase
    <3>2. Len(<<>>) = 0 /\ Len(verdict) \in Nat /\ Len(ops) \in Nat
      BY <1>2, OpsAre
    <3> QED
      BY <3>1, <3>2
  <2>2. \A k \in 1..Len(verdict) : Passed(k) => ops[k].file \in Cleared
    BY <1>2, OpsAre, Zenon DEF Cleared
  <2>3. ASSUME NEW k \in 1..Len(verdict), Passed(k),
               LET x == ops[k].file
               IN x \in slipped \/ ~There(PathOf(x)) \/ Holds(PathOf(x)) = full[x]
        PROVE  LET x == ops[k].file
               IN \/ x \in slipped' \/ node'[PathOf(x)] = Gone
                  \/ data'[node'[PathOf(x)]] = full[x]
    <3>1. ops[k].file \in DOMAIN files
      BY <1>2, <2>1 DEF Held, Planned, Outranked
    <3>2. ops[k].file \in touched => ops[k].file \in slipped'
      BY <1>1, <2>2, <2>3
    <3> QED
      BY <1>1, <2>3, <3>1, <3>2 DEF Same, There, Holds
  <2> SUFFICES ASSUME NEW k \in 1..Len(verdict), Passed(k)
               PROVE  LET x == ops[k].file
                      IN \/ x \in slipped' \/ node'[PathOf(x)] = Gone
                         \/ data'[node'[PathOf(x)]] = full[x]
    <3>1. \A k \in 1..Len(verdict) : Passed(k)' = Passed(k)
      BY <1>1 DEF Passed
    <3> QED
      BY <1>1, <3>1, Zenon DEF Clear, PathOf, There, Holds
  <2> QED
    BY <1>2, <2>3, Zenon DEF Held, Clear
<1>10. Counted' /\ OnlyDuplicates'
  BY <1>1, <1>2 DEF Held, Counted, OnlyDuplicates
<1> QED
  BY <1>3, <1>4, <1>5, <1>6, <1>7, <1>8, <1>9, <1>10 DEF IInv, Held

LEMMA OthersKeep == ASSUME IInv, Others PROVE IInv'
<1>0. Typed /\ Gone \notin Inode /\ \A i \in DOMAIN files : PathOf(i) \in Path
  BY FilesAre, FileAssumption DEF IInv
<1>00. files' = files /\ ops' = ops /\ full' = full
  BY DEF Others, OtherWrites, OtherReplaces, OtherRemoves, Disturb, scan
<1>1. ASSUME NEW n \in Inode, NEW c \in Content, OtherWrites(n, c) PROVE IInv'
  <2>1. PICK back \in {FALSE, Size[c] >= Threshold} :
          /\ mtime' = [mtime EXCEPT ![n] = IF back THEN @ ELSE @ + 1]
          /\ Disturb(Names(n), IF back THEN PlannedAs(Size[c]) ELSE {})
    BY <1>1, Zenon DEF OtherWrites
  <2>2. data' = [data EXCEPT ![n] = c] /\ node' = node
    BY <1>1 DEF OtherWrites
  <2> DEFINE S == IF back THEN PlannedAs(Size[c]) ELSE {}
  <2>3. /\ node' \in [Path -> Inode \cup {Gone}] /\ data' \in [Inode -> Content]
        /\ mtime' \in [Inode -> Nat]
        /\ data'[n] = c /\ \A m \in Inode : m # n => data'[m] = data[m] /\ mtime'[m] = mtime[m]
        /\ mtime'[n] = (IF back THEN mtime[n] ELSE mtime[n] + 1)
    BY <1>0, <2>1, <2>2 DEF Typed
  <2>4. ASSUME NEW i \in DOMAIN files, i \notin Names(n)
        PROVE  Same(PathOf(i))
    <3>1. node[PathOf(i)] # n /\ node[PathOf(i)] \in Inode \cup {Gone}
      BY <1>0, <2>4 DEF Names, Typed
    <3> QED
      BY <2>2, <2>3, <3>1 DEF Same
  <2>5. ASSUME NEW k \in 1..Len(ops), NEW i \in DOMAIN files, i = ops[k].file, NEW m \in Inode, NEW s \in Nat,
               NEW t \in Nat, ops[k].ident = <<m, s, t>>, Shown(i, m, s, t)
        PROVE  Shown(i, m, s, t)' \/ i \in Names(n) \cap S
    <3>1. CASE m # n
      BY <1>00, <2>2, <2>3, <2>5, <3>1 DEF Shown, PathOf
    <3>2. CASE m = n /\ ~back
      <4>1. t <= mtime[n] /\ mtime[n] \in Nat /\ mtime'[n] = mtime[n] + 1
        BY <1>0, <2>3, <2>5, <3>2 DEF Shown, Typed
      <4>2. t <= mtime'[n] /\ t # mtime'[n]
        BY <4>1
      <4> QED
        BY <3>2, <4>2 DEF Shown
    <3>3. CASE m = n /\ back
      <4>1. t <= mtime'[n]
        BY <2>3, <2>5, <3>3 DEF Shown
      <4>2. CASE node[PathOf(i)] = n /\ s = Size[c]
        <5>1. i \in PlannedAs(Size[c])
          <6>1. k \in DOMAIN ops
            BY <1>0, OpsAre
          <6>2. Len(ops[k].ident) = 3 /\ ops[k].ident[2] = Size[c]
            BY <2>5, <4>2
          <6> QED
            BY <2>5, <6>1, <6>2 DEF PlannedAs
        <5> QED
          BY <3>3, <4>2, <5>1 DEF Names
      <4>3. CASE node[PathOf(i)] # n \/ s # Size[c]
        BY <1>00, <2>2, <2>3, <3>3, <4>1, <4>3 DEF Shown, PathOf
      <4> QED
        BY <4>2, <4>3
    <3> QED
      BY <3>1, <3>2, <3>3
  <2> HIDE DEF S
  <2>6. Disturb(Names(n), S)
    BY <2>1 DEF S
  <2> QED
    BY <2>3, <2>4, <2>5, <2>6, DisturbKeeps
<1>2. ASSUME NEW p \in Path, NEW n \in Inode, NEW c \in Content, OtherReplaces(p, n, c) PROVE IInv'
  <2> DEFINE S == {i \in DOMAIN files : PathOf(i) = p}
  <2>1. /\ node' = [node EXCEPT ![p] = n] /\ data' = [data EXCEPT ![n] = c]
        /\ mtime' = [mtime EXCEPT ![n] = @ + 1] /\ Disturb(S, {})
        /\ \A q \in Path : node[q] # n
    BY <1>2 DEF OtherReplaces, Unused
  <2>2. /\ node' \in [Path -> Inode \cup {Gone}] /\ data' \in [Inode -> Content]
        /\ mtime' \in [Inode -> Nat]
        /\ \A m \in Inode : m # n => data'[m] = data[m] /\ mtime'[m] = mtime[m]
        /\ mtime'[n] = mtime[n] + 1 /\ mtime[n] \in Nat
        /\ node'[p] = n /\ \A q \in Path : q # p => node'[q] = node[q]
    BY <1>0, <2>1 DEF Typed
  <2>3. ASSUME NEW i \in DOMAIN files, i \notin S PROVE Same(PathOf(i))
    <3>1. /\ PathOf(i) \in Path /\ PathOf(i) # p /\ node[PathOf(i)] # n
          /\ node[PathOf(i)] \in Inode \cup {Gone}
      BY <1>0, <2>1, <2>3 DEF Typed
    <3> QED
      BY <2>2, <3>1 DEF Same
  <2>4. ASSUME NEW k \in 1..Len(ops), NEW i \in DOMAIN files, i = ops[k].file, NEW m \in Inode, NEW s \in Nat,
               NEW t \in Nat, ops[k].ident = <<m, s, t>>, Shown(i, m, s, t)
        PROVE  Shown(i, m, s, t)'
    <3>1. PathOf(i) \in Path
      BY <1>0
    <3>2. CASE m # n
      BY <1>00, <2>2, <2>4, <3>1, <3>2 DEF Shown, PathOf
    <3>3. CASE m = n
      <4>1. t <= mtime'[n] /\ t # mtime'[n]
        BY <2>2, <2>4, <3>3 DEF Shown
      <4> QED
        BY <3>3, <4>1 DEF Shown
    <3> QED
      BY <3>2, <3>3
  <2> HIDE DEF S
  <2> QED
    BY <2>1, <2>2, <2>3, <2>4, DisturbKeeps
<1>3. ASSUME NEW p \in Path, OtherRemoves(p) PROVE IInv'
  <2> DEFINE S == {i \in DOMAIN files : PathOf(i) = p}
  <2>1. node' = [node EXCEPT ![p] = Gone] /\ data' = data /\ mtime' = mtime /\ Disturb(S, {})
    BY <1>3 DEF OtherRemoves
  <2>2. /\ node' \in [Path -> Inode \cup {Gone}] /\ data' \in [Inode -> Content]
        /\ mtime' \in [Inode -> Nat]
        /\ node'[p] = Gone /\ \A q \in Path : q # p => node'[q] = node[q]
    BY <1>0, <2>1 DEF Typed
  <2>3. ASSUME NEW i \in DOMAIN files, i \notin S PROVE Same(PathOf(i))
    BY <1>0, <2>1, <2>2, <2>3 DEF Same
  <2>4. ASSUME NEW k \in 1..Len(ops), NEW i \in DOMAIN files, i = ops[k].file, NEW m \in Inode, NEW s \in Nat,
               NEW t \in Nat, ops[k].ident = <<m, s, t>>, Shown(i, m, s, t)
        PROVE  Shown(i, m, s, t)'
    <3>1. PathOf(i) \in Path /\ m # Gone
      BY <1>0
    <3> QED
      BY <1>00, <2>1, <2>2, <2>4, <3>1 DEF Shown, PathOf
  <2> HIDE DEF S
  <2> QED
    BY <2>1, <2>2, <2>3, <2>4, DisturbKeeps
<1> QED
  BY <1>1, <1>2, <1>3 DEF Others

LEMMA Inductive == IInv /\ [Next]_vars => IInv'
<1> SUFFICES ASSUME IInv, [Next]_vars PROVE IInv'
  OBVIOUS
<1>1. CASE Find
  BY <1>1, CollectKeeps, ScanKeeps, HashFullKeeps, BuildGroupsKeeps, IdentifyKeeps DEF Find
<1>2. CASE UNCHANGED vars
  <2>1. UNCHANGED <<mode, pc, at, files, left, head, full, burn, ops, verdict, fate, node, data, mtime,
                    removed, since, slipped>>
    BY <1>2 DEF vars, scan, world, ghost
  <2>2. Typed' /\ Held'
    BY <2>1, QuietKeeps DEF IInv, Typed, world, ghost
  <2>3. Burned' = Burned
    BY <2>1, BurnedStays
  <2>4. pc' = "identify" => burn' # <<>> /\ \A x \in 1..Len(burn') : burn'[x] \in Burned'
    <3> HIDE DEF Burned
    <3> QED
      BY <2>1, <2>3 DEF IInv, Phase
  <2>5. Phase'
    BY <2>1, <2>4 DEF IInv, Phase
  <2> QED
    BY <2>2, <2>5 DEF IInv
<1> QED
  BY <1>1, <1>2, AnswerKeeps, CheckKeeps, VerifyKeeps, SkipKeeps, BurnKeeps, OthersKeep DEF Next, Process

LEMMA Always == Spec => []IInv
BY InitIInv, Inductive, PTL DEF Spec

-----------------------------------------------------------------------------
\* Of the keepers of one content, the best is at a path that no operation burns.
LEMMA BestStays ==
  ASSUME IInv, NEW k \in 1..Len(ops)
  PROVE  \E m \in 1..Len(ops) :
           /\ full[ops[m].keeper] = full[ops[k].file]
           /\ \A x \in 1..Len(ops) : full[ops[x].file] = full[ops[k].file]
                                        => PathOf(ops[x].file) # PathOf(ops[m].keeper)
<1> DEFINE hash == full[ops[k].file]
<1> DEFINE F == {x \in 1..Len(ops) : full[ops[x].file] = hash}
<1> DEFINE S == {PathOf(ops[x].keeper) : x \in F}
<1>1. \A x \in 1..Len(ops) : Outranked(ops[x].file, ops[x].keeper)
  BY DEF IInv, Held, Planned
<1>2. S \in SUBSET Path /\ S # {}
  BY <1>1, FilesAre DEF IInv, Outranked
<1>3. PICK p \in S : \A q \in S : ~Better(q, p)
  <2> HIDE DEF S
  <2> QED
    BY <1>2, BestPath
<1>4. PICK m \in F : p = PathOf(ops[m].keeper)
  BY <1>3
<1>5. full[ops[m].keeper] = hash
  BY <1>1, <1>4 DEF Outranked
<1>6. ASSUME NEW x \in F, PathOf(ops[x].file) = p PROVE FALSE
  BY <1>1, <1>3, <1>6 DEF Outranked
<1> QED
  BY <1>4, <1>5, <1>6

LEMMA CopyStays == ASSUME IInv PROVE ACopyStays
<1> SUFFICES ASSUME NEW r \in removed
             PROVE  \/ \E p \in Path : There(p) /\ Holds(p) = full[ops[r.op].file]
                    \/ \E k \in DOMAIN ops : /\ full[ops[k].keeper] = full[ops[r.op].file]
                                             /\ Overtaken(ops[k].keeper)
  BY Zenon DEF ACopyStays
<1> DEFINE hash == full[ops[r.op].file]
<1>0. Typed /\ Held /\ DOMAIN ops = 1..Len(ops)
  BY OpsAre DEF IInv
<1>1. r.op \in 1..Len(ops)
  BY <1>0 DEF Held, Counted
<1>2. PICK m \in 1..Len(ops) :
        /\ full[ops[m].keeper] = hash
        /\ \A x \in 1..Len(ops) : full[ops[x].file] = hash
                                     => PathOf(ops[x].file) # PathOf(ops[m].keeper)
  BY <1>1, BestStays
<1> DEFINE j == ops[m].keeper
<1>3. j \in DOMAIN files /\ full[j] # Unread /\ PathOf(j) \in Path
  BY <1>0, FilesAre DEF Held, Planned, Outranked
<1>4. CASE j \in since
  <2>1. Overtaken(j)
    BY <1>3, <1>4 DEF Overtaken
  <2> QED
    BY <1>0, <1>2, <2>1
<1>5. CASE There(PathOf(j)) /\ Holds(PathOf(j)) = full[j]
  BY <1>2, <1>3, <1>5
<1>6. ASSUME j \notin since, NEW k \in 1..Len(fate), fate[k] = "burned",
             PathOf(ops[k].file) = PathOf(j)
      PROVE  Overtaken(j)
  <2> DEFINE i == ops[k].file
  <2>1. k \in 1..Len(ops)
    <3>1. /\ pc \in {"run", "unlink"} => Len(fate) < Len(ops)
          /\ pc = "done" => Len(fate) <= Len(ops)
          /\ pc \notin {"run", "unlink", "done"} => fate = <<>>
      BY DEF IInv, Phase
    <3>2. Len(<<>>) = 0 /\ Len(fate) \in Nat /\ Len(ops) \in Nat
      BY <1>0, OpsAre
    <3> QED
      BY <1>6, <3>1, <3>2
  <2>2. i \in DOMAIN files /\ full[i] # Unread
    BY <1>0, <2>1 DEF Held, Planned, Outranked
  <2>3. CASE i \in since
    BY <1>6, <2>2, <2>3 DEF Overtaken
  <2>4. CASE i \notin since
    <3>1. full[i] = full[j]
      BY <1>0, <1>3, <1>6, <2>2, <2>4 DEF Held, Agree
    <3> QED
      BY <1>2, <1>6, <2>1, <3>1
  <2> QED
    BY <2>3, <2>4
<1> QED
  BY <1>0, <1>2, <1>3, <1>4, <1>5, <1>6 DEF Held, Kept

(* Only what was hashed is burned, at every interleaving of the walk, the   *)
(* passes and the batch with the programs that write, replace and remove    *)
(* the files, for every content, threshold and identity.                    *)
THEOREM OnlyDuplicatesGo == Spec => []OnlyDuplicates
<1>1. IInv => OnlyDuplicates
  BY DEF IInv, Held
<1> QED
  BY <1>1, Always, PTL

(* betterKeeper is a strict total order on paths, so of the keepers of one  *)
(* content one is never burned: unless another program changes it, the      *)
(* content is still there, also when a path was collected twice.            *)
THEOREM ACopyIsKept == Spec => []ACopyStays
<1>1. IInv => ACopyStays
  BY CopyStays
<1> QED
  BY <1>1, Always, PTL

-----------------------------------------------------------------------------
(* The plan of `suns ashen` is what executes: the phases of PlanPromise are *)
(* the positions of the process, and the effect is what has been removed.   *)
PlanPhase ==
  CASE pc \in Scanning \cup {"identify"} -> "finding"
    [] pc = "gate"                       -> "asking"
    [] pc \in {"check", "run", "unlink"} -> "approved"
    [] pc = "done"                       -> "done"
    [] pc = "declined"                   -> "stopped"

Plan == INSTANCE PlanPromise
          WITH Fates <- {"skipped", "burned"}, phase <- PlanPhase, plan <- ops,
               effect <- removed

LEMMA PlanInit == Init => Plan!Init
BY DEF Init, Plan!Init, PlanPhase, Scanning

LEMMA PlanStep == IInv /\ [Next]_vars => [Plan!Next]_Plan!vars
<1> SUFFICES ASSUME IInv, [Next]_vars PROVE [Plan!Next]_Plan!vars
  OBVIOUS
<1> USE DEF scan, ghost
<1>0. Typed /\ Phase
  BY DEF IInv
<1>1. CASE (\E p \in Path : Collect(p) \/ PassOver(p)) \/ WalkEnds
             \/ (\E s \in sizes : NextSize(s))
             \/ (\E i \in DOMAIN files : HashHead(i) \/ HashFull(i))
  <2>1. /\ UNCHANGED <<ops, verdict, fate, removed>>
        /\ pc \in Scanning /\ pc' \in Scanning
    BY <1>1 DEF Collect, PassOver, Step, WalkEnds, NextSize, HashHead, HashFull, Pass, Scanning
  <2> QED
    BY <2>1 DEF PlanPhase, Scanning, Plan!vars
<1>2. CASE BuildGroups
  <2>1. /\ UNCHANGED <<ops, verdict, fate, removed>> /\ ops = <<>>
        /\ pc = "size" /\ pc' \in {"done", "identify"}
    BY <1>0, <1>2 DEF BuildGroups, Phase, Scanning
  <2> QED
    BY <2>1 DEF PlanPhase, Scanning, Plan!Next, Plan!Find, Plan!NothingFound
<1>3. CASE \E i \in DOMAIN files : Identify(i)
  <2>1. /\ UNCHANGED <<verdict, fate, removed>> /\ pc = "identify"
        /\ pc' \in {"identify", "gate"} \/ (pc' = "done" /\ ops' = <<>>)
    BY <1>3 DEF Identify
  <2> QED
    BY <2>1 DEF PlanPhase, Scanning, Plan!Next, Plan!Find, Plan!NothingFound
<1>4. CASE Interrupt
  BY <1>4 DEF Interrupt, PlanPhase, Scanning, Plan!Next, Plan!Stop
<1>5. CASE Answer
  BY <1>5 DEF Answer, PlanPhase, Scanning, Plan!Next, Plan!Approve, Plan!Stop
<1>6. CASE Check
  <2>1. /\ UNCHANGED <<ops, fate, removed>> /\ pc = "check" /\ pc' \in {"check", "run"}
        /\ Len(verdict) < Len(ops)
        /\ \E valid \in BOOLEAN : verdict' = Append(verdict, valid)
    BY <1>0, <1>6 DEF Check, Phase, Matches
  <2> QED
    BY <2>1 DEF PlanPhase, Scanning, Plan!Next, Plan!Check
<1>7. CASE Skip \/ Burn
  <2>1. /\ UNCHANGED <<ops, verdict>> /\ pc \in {"run", "unlink"}
        /\ Len(verdict) = Len(ops) /\ Len(fate) < Len(ops)
        /\ verdict[Len(fate) + 1] \in BOOLEAN
        /\ pc' = "run" \/ (pc' = "done" /\ Len(fate') = Len(ops))
    BY <1>0, <1>7 DEF Skip, Burn, Settle, Phase, Typed
  <2>2. \/ verdict[Len(fate) + 1] = FALSE /\ fate' = Append(fate, "skipped") /\ UNCHANGED removed
        \/ /\ verdict[Len(fate) + 1] = TRUE
           /\ \E f \in {"skipped", "burned"} : fate' = Append(fate, f)
    BY <1>7, <2>1 DEF Skip, Burn, Passed, Settle
  <2> QED
    BY <2>1, <2>2 DEF PlanPhase, Scanning, Plan!Next, Plan!Refuse, Plan!Act, Plan!Turn
<1>8. CASE Verify
  BY <1>8 DEF Verify, PlanPhase, Scanning, Plan!vars
<1>9. CASE Others \/ UNCHANGED vars
  <2>1. UNCHANGED <<pc, ops, verdict, fate, removed>>
    BY <1>9 DEF Others, OtherWrites, OtherReplaces, OtherRemoves, Disturb, vars
  <2> QED
    BY <2>1 DEF PlanPhase, Plan!vars
<1> QED
  BY <1>1, <1>2, <1>3, <1>4, <1>5, <1>6, <1>7, <1>8, <1>9 DEF Next, Process, Find

(* Nothing is removed but what was shown, consented to and found unchanged  *)
(* by a check made before the first removal, each file in its turn.         *)
THEOREM PlanKept == Spec => Plan!Spec
BY PlanInit, PlanStep, Always, PTL DEF Spec, Plan!Spec

-----------------------------------------------------------------------------
(* The command ends by itself.  Every step of the process leaves less to    *)
(* do: a later stage, or fewer sizes to range over, or a later pass of this *)
(* size, or fewer paths, files or calls, in this order of importance: each  *)
(* operation takes one, or two when obliterate checks it once more.         *)
Stage ==
  CASE pc = "walk"                     -> 6
    [] pc \in {"size", "head", "full"} -> 5
    [] pc = "identify"                 -> 4
    [] pc = "gate"                     -> 3
    [] pc = "check"                    -> 2
    [] pc \in {"run", "unlink"}        -> 1
    [] pc \in {"done", "declined"}     -> 0

Passes == CASE pc = "head" -> 2 [] pc = "full" -> 1 [] OTHER -> 0

InHand ==
  CASE pc = "walk"             -> Len(Walk) - at
    [] pc \in {"head", "full"} -> Cardinality(left)
    [] pc = "identify"         -> Len(burn)
    [] pc = "check"            -> Len(ops) - Len(verdict)
    [] pc = "run"              -> 2 * (Len(ops) - Len(fate))
    [] pc = "unlink"           -> 2 * (Len(ops) - Len(fate)) - 1
    [] OTHER                   -> 0

LessToDo ==
  \/ Stage' < Stage
  \/ Stage' = Stage /\ Cardinality(sizes') < Cardinality(sizes)
  \/ Stage' = Stage /\ sizes' = sizes /\ Passes' < Passes
  \/ Stage' = Stage /\ sizes' = sizes /\ Passes' = Passes /\ InHand' < InHand

Advances ==
  /\ Process => LessToDo
  /\ ~Process => UNCHANGED <<Stage, sizes, Passes, InHand>>

LeftCounted ==
  Stage \in 0..6 /\ Cardinality(sizes) \in Nat /\ Passes \in 0..2 /\ InHand \in Nat

Staged ==
  /\ pc = "walk" => Stage = 6 /\ Passes = 0 /\ InHand = Len(Walk) - at
  /\ pc = "size" => Stage = 5 /\ Passes = 0 /\ InHand = 0
  /\ pc = "head" => Stage = 5 /\ Passes = 2 /\ InHand = Cardinality(left)
  /\ pc = "full" => Stage = 5 /\ Passes = 1 /\ InHand = Cardinality(left)
  /\ pc = "identify" => Stage = 4 /\ Passes = 0 /\ InHand = Len(burn)
  /\ pc = "gate" => Stage = 3 /\ Passes = 0 /\ InHand = 0
  /\ pc = "check" => Stage = 2 /\ Passes = 0 /\ InHand = Len(ops) - Len(verdict)
  /\ pc = "run" => Stage = 1 /\ Passes = 0 /\ InHand = 2 * (Len(ops) - Len(fate))
  /\ pc = "unlink" => Stage = 1 /\ Passes = 0 /\ InHand = 2 * (Len(ops) - Len(fate)) - 1
  /\ pc \in {"done", "declined"} => Stage = 0 /\ Passes = 0 /\ InHand = 0

LEMMA StagesKnown == Staged /\ Staged'
<1>1. Staged
  BY DEF Staged, Stage, Passes, InHand
<1>2. Staged'
  BY DEF Staged, Stage, Passes, InHand
<1> QED
  BY <1>1, <1>2

\* There are finitely many sizes, for there are finitely many files.
StepsInv ==
  /\ IInv /\ IsFiniteSet(sizes)
  /\ pc \in Scanning \cup {"identify", "gate", "check", "run", "unlink", "done", "declined"}

LEMMA StepsInit == Init => StepsInv
BY InitIInv, FS_EmptySet DEF Init, StepsInv, Scanning

LEMMA StepsNext == StepsInv /\ [Next]_vars => StepsInv'
<1> SUFFICES ASSUME StepsInv, [Next]_vars PROVE StepsInv'
  OBVIOUS
<1> USE DEF scan, world
<1>1. IInv'
  BY Inductive DEF StepsInv
<1>2. IsFiniteSet(sizes')
  <2>1. CASE WalkEnds
    <3> DEFINE f == [i \in DOMAIN files |-> files[i].size]
    <3> DEFINE T == {files[i].size : i \in DOMAIN files}
    <3>1. IsFiniteSet(DOMAIN files)
      BY FilesFinite DEF StepsInv, IInv
    <3>2. f \in Surjection(DOMAIN files, T)
      BY DEF Surjection
    <3>3. sizes' \subseteq T
      BY <2>1 DEF WalkEnds
    <3> HIDE DEF f, T
    <3>4. IsFiniteSet(T)
      BY <3>1, <3>2, FS_Surjection
    <3> QED
      BY <3>3, <3>4, FS_Subset
  <2>2. CASE ~WalkEnds
    <3>1. sizes' \subseteq sizes
      BY <2>2 DEF Next, Process, Find, Collect, PassOver, Step, Interrupt, BuildGroups, NextSize,
                  HashHead, HashFull, Identify, Answer, Check, Verify, Skip, Burn, Settle, Others,
                  OtherWrites, OtherReplaces, OtherRemoves, Disturb, vars
    <3> QED
      BY <3>1, FS_Subset DEF StepsInv
  <2> QED
    BY <2>1, <2>2
<1>3. pc' = pc \/ pc' \in Scanning \cup {"identify", "gate", "check", "run", "unlink", "done", "declined"}
  BY DEF Next, Process, Find, Collect, PassOver, Step, WalkEnds, Interrupt, BuildGroups, NextSize,
         HashHead, HashFull, Pass, Identify, Answer, Check, Verify, Skip, Burn, Settle, Others,
         OtherWrites, OtherReplaces, OtherRemoves, Disturb, vars, Scanning
<1> QED
  BY <1>1, <1>2, <1>3 DEF StepsInv

LEMMA StepsAlways == Spec => []StepsInv
BY StepsInit, StepsNext, PTL DEF Spec

LEMMA WhatIsLeft == StepsInv => LeftCounted
<1> SUFFICES ASSUME StepsInv PROVE LeftCounted
  OBVIOUS
<1>1. /\ at \in 0..Len(Walk) /\ Len(Walk) \in Nat /\ Len(burn) \in Nat
      /\ Len(ops) \in Nat /\ Len(verdict) \in Nat /\ Len(fate) \in Nat /\ Phase
  BY OpsAre, WalkAssumption, LenProperties DEF StepsInv, IInv, Typed
<1>2. Cardinality(left) \in Nat /\ Cardinality(sizes) \in Nat
  BY FilesFinite, FS_CardinalityType DEF StepsInv, IInv, Typed
<1> QED
  BY <1>1, <1>2, StagesKnown DEF Staged, StepsInv, Scanning, Phase, LeftCounted

\* The walk, and what leads to another stage.
LEMMA StageAdvances ==
  ASSUME StepsInv, (\E p \in Path : Collect(p) \/ PassOver(p)) \/ WalkEnds \/ Interrupt
                     \/ BuildGroups \/ Answer
  PROVE  LessToDo
<1>1. CASE \E p \in Path : Collect(p) \/ PassOver(p)
  <2>1. /\ pc = "walk" /\ pc' = pc /\ sizes' = sizes /\ at < Len(Walk) /\ at' = at + 1
    BY <1>1 DEF Collect, PassOver, Step
  <2>2. at \in Nat /\ Len(Walk) \in Nat
    BY WalkAssumption, LenProperties DEF StepsInv, IInv, Typed
  <2>3. /\ Stage' = Stage /\ Passes' = Passes
        /\ InHand = Len(Walk) - at /\ InHand' = Len(Walk) - (at + 1)
    BY <2>1, StagesKnown DEF Staged
  <2> QED
    BY <2>1, <2>2, <2>3 DEF LessToDo
<1>2. CASE WalkEnds \/ Interrupt \/ BuildGroups \/ Answer
  <2>1. \/ pc = "walk" /\ pc' \in {"size", "declined"}
        \/ pc = "head" /\ pc' = "declined"
        \/ pc = "size" /\ pc' \in {"identify", "done"}
        \/ pc = "gate" /\ pc' \in {"check", "declined"}
    BY <1>2 DEF WalkEnds, Interrupt, BuildGroups, Answer
  <2>2. Stage' < Stage
    BY <2>1, StagesKnown DEF Staged
  <2> QED
    BY <2>2 DEF LessToDo
<1> QED
  BY <1>1, <1>2

\* One size less, the pass over full contents, or one file less to hash.
LEMMA PassAdvances ==
  ASSUME StepsInv, (\E s \in sizes : NextSize(s))
                     \/ \E i \in DOMAIN files : HashHead(i) \/ HashFull(i)
  PROVE  LessToDo
<1>1. CASE \E s \in sizes : NextSize(s)
  <2>1. PICK s \in sizes : pc = "size" /\ pc' = "head" /\ sizes' = sizes \ {s}
    BY <1>1 DEF NextSize
  <2>2. Cardinality(sizes') = Cardinality(sizes) - 1 /\ Cardinality(sizes) \in Nat
    BY <2>1, FS_RemoveElement, FS_CardinalityType DEF StepsInv
  <2>3. Stage' = Stage
    BY <2>1, StagesKnown DEF Staged
  <2> QED
    BY <2>2, <2>3 DEF LessToDo
<1>2. CASE \E i \in DOMAIN files : HashHead(i) \/ HashFull(i)
  <2>0. PICK i \in DOMAIN files : HashHead(i) \/ HashFull(i)
    BY <1>2
  <2>1. /\ i \in left /\ sizes' = sizes
        /\ \/ pc = "head" /\ pc' \in {"size", "full"}
           \/ pc = "full" /\ pc' = "size"
           \/ pc \in {"head", "full"} /\ pc' = pc /\ left' = left \ {i}
    BY <2>0 DEF HashHead, HashFull, Pass
  <2>2. Cardinality(left \ {i}) = Cardinality(left) - 1 /\ Cardinality(left) \in Nat
    BY <2>1, FilesFinite, FS_RemoveElement, FS_CardinalityType DEF StepsInv, IInv, Typed
  <2>3. Stage' = Stage
    BY <2>1, StagesKnown DEF Staged
  <2>4. CASE pc' # pc
    <3>1. Passes' < Passes
      BY <2>1, <2>4, StagesKnown DEF Staged
    <3> QED
      BY <2>1, <2>3, <3>1 DEF LessToDo
  <2>5. CASE pc' = pc
    <3>1. pc \in {"head", "full"} /\ left' = left \ {i}
      BY <2>1, <2>5
    <3>2. Passes' = Passes /\ InHand = Cardinality(left) /\ InHand' = Cardinality(left')
      BY <2>5, <3>1, StagesKnown DEF Staged
    <3>3. InHand' < InHand
      BY <2>2, <3>1, <3>2
    <3> QED
      BY <2>1, <2>3, <3>2, <3>3 DEF LessToDo
  <2> QED
    BY <2>4, <2>5
<1> QED
  BY <1>1, <1>2

\* One identity, one check or one operation less.
LEMMA BatchAdvances ==
  ASSUME StepsInv, (\E i \in DOMAIN files : Identify(i)) \/ Check \/ Verify \/ Skip \/ Burn
  PROVE  LessToDo
<1> USE DEF scan
<1>0. /\ burn \in Seq(Nat) /\ verdict \in Seq(BOOLEAN) /\ fate \in Seq({"skipped", "burned"})
      /\ Len(burn) \in Nat /\ Len(ops) \in Nat /\ Len(verdict) \in Nat /\ Len(fate) \in Nat
  BY OpsAre, LenProperties DEF StepsInv, IInv, Typed
<1>1. CASE \E i \in DOMAIN files : Identify(i)
  <2>1. /\ pc = "identify" /\ pc' \in {"identify", "done", "gate"} /\ sizes' = sizes
        /\ burn # <<>> /\ burn' = Tail(burn)
    BY <1>1 DEF Identify
  <2>2. Len(burn') < Len(burn)
    BY <1>0, <2>1, HeadTailProperties, LenProperties, EmptySeq
  <2> QED
    BY <2>1, <2>2, StagesKnown DEF Staged, LessToDo
<1>2. CASE Check
  <2>1. /\ pc = "check" /\ pc' \in {"check", "run"} /\ UNCHANGED <<ops, sizes>>
        /\ \E v \in BOOLEAN : verdict' = Append(verdict, v)
    BY <1>2 DEF Check, Matches
  <2>2. Len(verdict') = Len(verdict) + 1
    BY <1>0, <2>1
  <2>3. CASE pc' = "run"
    BY <2>1, <2>3, StagesKnown DEF Staged, LessToDo
  <2>4. CASE pc' = "check"
    <3>1. /\ Stage' = Stage /\ Passes' = Passes
          /\ InHand = Len(ops) - Len(verdict) /\ InHand' = Len(ops) - (Len(verdict) + 1)
      BY <2>1, <2>2, <2>4, StagesKnown DEF Staged
    <3> QED
      BY <1>0, <2>1, <3>1 DEF LessToDo
  <2> QED
    BY <2>1, <2>3, <2>4
<1>3. CASE Verify
  <2>1. pc = "run" /\ pc' = "unlink" /\ UNCHANGED <<ops, fate, sizes>>
    BY <1>3 DEF Verify
  <2>2. /\ Stage' = Stage /\ Passes' = Passes
        /\ InHand = 2 * (Len(ops) - Len(fate)) /\ InHand' = 2 * (Len(ops) - Len(fate)) - 1
    BY <2>1, StagesKnown DEF Staged
  <2> QED
    BY <1>0, <2>1, <2>2 DEF LessToDo
<1>4. CASE Skip \/ Burn
  <2>1. /\ pc \in {"run", "unlink"} /\ pc' \in {"run", "done"} /\ UNCHANGED <<ops, sizes>>
        /\ \E f \in {"skipped", "burned"} : fate' = Append(fate, f)
    BY <1>4 DEF Skip, Burn, Settle
  <2>2. Len(fate') = Len(fate) + 1
    BY <1>0, <2>1
  <2>3. CASE pc' = "done"
    BY <2>1, <2>3, StagesKnown DEF Staged, LessToDo
  <2>4. CASE pc' = "run"
    <3>1. /\ Stage' = Stage /\ Passes' = Passes
          /\ InHand \in {2 * (Len(ops) - Len(fate)), 2 * (Len(ops) - Len(fate)) - 1}
          /\ InHand' = 2 * (Len(ops) - (Len(fate) + 1))
      BY <2>1, <2>2, <2>4, StagesKnown DEF Staged
    <3> QED
      BY <1>0, <2>1, <3>1 DEF LessToDo
  <2> QED
    BY <2>1, <2>3, <2>4
<1> QED
  BY <1>1, <1>2, <1>3, <1>4

LEMMA StepAdvances == ASSUME StepsInv, [Next]_vars PROVE Advances
<1>1. ASSUME Process PROVE LessToDo
  BY <1>1, StageAdvances, PassAdvances, BatchAdvances DEF Process, Find
<1>2. ASSUME ~Process PROVE UNCHANGED <<Stage, sizes, Passes, InHand>>
  <2>1. UNCHANGED <<pc, scan, ops, verdict, fate>>
    BY <1>2 DEF Next, Others, OtherWrites, OtherReplaces, OtherRemoves, Disturb, vars
  <2> QED
    BY <2>1 DEF Stage, Passes, InHand, scan
<1> QED
  BY <1>1, <1>2 DEF Advances

(* The search never starts over: whatever is written and replaced while it   *)
(* reads, each step leaves less to do, and what others do leaves it as it    *)
(* was (the passes of Find go over lists made before they begin, Execute     *)
(* over the sealed plan).  The four counts are natural numbers and LessToDo  *)
(* is their lexicographic order, so the steps come to an end.                *)
THEOREM SearchIsFinite == Spec => []LeftCounted /\ [][Advances]_vars
<1>1. StepsInv /\ [Next]_vars => [Advances]_vars
  BY StepAdvances
<1> QED
  BY <1>1, WhatIsLeft, StepsAlways, PTL DEF Spec
==============================================================================
