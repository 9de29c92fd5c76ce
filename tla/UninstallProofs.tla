--------------------------- MODULE UninstallProofs ---------------------------
(***************************************************************************)
(* What `suns nuke` and `suns orphans` leave standing, for any paths,      *)
(* packages, payloads and launchd plists, and any number of troubles.      *)
(***************************************************************************)
EXTENDS Uninstall, SequenceTheorems, FiniteSetTheorems, TLAPS

Discovery == {"resolve", "trace", "list", "claims", "jobs"}
AllOps    == Len(service) + Len(files) + Len(forget)
Shares(i) == \E p, q \in Package : p # q /\ i \in SeqSet(Lists[p]) /\ i \in SeqSet(Lists[q])
Listed    == [i \in Item |-> {p \in Package : i \in SeqSet(Lists[p])}]

\* How far the lists have been worked through.
Counted ==
  /\ pc \in {"resolve", "trace", "list", "claims"} => command = "nuke" /\ claims = Listed
  /\ pc = "jobs" => command = "orphans" /\ todo \in Seq(Plist)
  /\ pc = "trace" => SeqSet(todo) \subseteq SeqSet(Traced)
  /\ pc = "claims" => pkgs # <<>>
  /\ pc \notin {"run", "unlink", "done"} => fate = <<>> /\ took = {}
  /\ pc \in Discovery \cup {"gate"} => verdict = <<>>
  /\ pc = "gate" => AllOps # 0
  /\ pc = "check" => Len(verdict) < AllOps
  /\ pc \in {"run", "unlink"} => Len(verdict) = AllOps /\ Len(fate) < AllOps
  /\ pc = "unlink" => mode = "obliterate"
  /\ Len(fate) <= AllOps

\* Only a path that was found by name, or that pkgutil told nothing about, or that
\* is no other package's, is queued.
Guarded == command = "nuke" =>
  \A i \in SeqSet(files) : i \in SeqSet(Traced) \/ i \in unasked \/ ~Shares(i)

\* A plist that is queued has its job queued, if it could be decoded.
Paired == \A j \in SeqSet(files) \cap Plist : j \in SeqSet(service) \cup mute

\* What orphans queues has no program but one that others brought.
Orphaned == command = "orphans" =>
  /\ forget = <<>>
  /\ \A j \in SeqSet(service) \cup SeqSet(files) :
       Program[j] \notin present \/ Program[j] \in foreign

\* What is removed belongs to a path of the plan, and all bootouts come before.
Removed ==
  /\ \A i \in took : \E f \in SeqSet(files) : i \in {f} \cup In[f]
  /\ took # {} => Len(fate) >= Len(service)

\* A bootout that is recorded as done was done, but for launchd and others.
BootedOut ==
  \A k \in 1..Len(service) : k <= Len(fate) =>
    \/ service[k] \notin loaded \/ service[k] \in foreign \cup notOut
    \/ fate[k] = "skipped"

IInv == TypeOK /\ Counted /\ Guarded /\ Paired /\ Orphaned /\ Removed /\ BootedOut

-----------------------------------------------------------------------------
(* Sequences as sets, and the plan.                                        *)

LEMMA SeqSetOf == ASSUME NEW S, NEW s \in Seq(S)
                  PROVE  /\ SeqSet(s) \subseteq S
                         /\ \A x : x \in SeqSet(s) <=> \E k \in 1..Len(s) : x = s[k]
<1>1. DOMAIN s = 1..Len(s)
  BY LenProperties
<1>2. \A k \in 1..Len(s) : s[k] \in S
  BY ElementOfSeq
<1> QED
  BY <1>1, <1>2 DEF SeqSet

\* SeqSetOf for a sequence that is known by another name.
LEMMA InSeqSet == ASSUME NEW S, NEW t, t \in Seq(S), NEW x \in SeqSet(t)
                  PROVE  \E k \in 1..Len(t) : x = t[k]
BY SeqSetOf

LEMMA AppendSet == ASSUME NEW S, NEW s \in Seq(S), NEW e \in S
                   PROVE  SeqSet(Append(s, e)) = SeqSet(s) \cup {e}
<1>1. /\ Append(s, e) \in Seq(S) /\ Len(Append(s, e)) = Len(s) + 1 /\ Len(s) \in Nat
      /\ \A k \in 1..Len(s) : Append(s, e)[k] = s[k]
      /\ Append(s, e)[Len(s) + 1] = e
  BY AppendProperties, LenProperties
<1>2. ASSUME NEW x \in SeqSet(Append(s, e)) PROVE x \in SeqSet(s) \cup {e}
  <2> DEFINE a == Append(s, e)
  <2>a. a \in Seq(S) /\ x \in SeqSet(a)
    BY <1>1
  <2> HIDE DEF a
  <2>b. \E k \in 1..Len(a) : x = a[k]
    BY <2>a, InSeqSet
  <2>1. \E k \in 1..Len(Append(s, e)) : x = Append(s, e)[k]
    BY <2>b DEF a
  <2>p. PICK k \in 1..(Len(s) + 1) : x = Append(s, e)[k]
    BY <1>1, <2>1
  <2>2. CASE k = Len(s) + 1
    BY <1>1, <2>p, <2>2
  <2>3. CASE k # Len(s) + 1
    <3>1. k \in 1..Len(s)
      BY <1>1, <2>3
    <3> QED
      BY <1>1, <2>p, <3>1, SeqSetOf
  <2> QED
    BY <2>2, <2>3
<1>3. ASSUME NEW x \in SeqSet(s) PROVE x \in SeqSet(Append(s, e))
  <2>1. PICK k \in 1..Len(s) : x = s[k]
    BY SeqSetOf
  <2>2. k \in 1..(Len(s) + 1) /\ x = Append(s, e)[k]
    BY <1>1, <2>1
  <2> QED
    BY <1>1, <2>2, SeqSetOf
<1>4. e \in SeqSet(Append(s, e))
  <2>1. Len(s) + 1 \in 1..(Len(s) + 1)
    BY <1>1
  <2> QED
    BY <1>1, <2>1, SeqSetOf
<1> QED
  BY <1>2, <1>3, <1>4

\* The elements of two sequences joined, by their lengths.
LEMMA Joined == ASSUME NEW S, NEW s \in Seq(S), NEW t \in Seq(S), NEW m, NEW n,
                       m = Len(s), n = Len(t)
                PROVE  /\ s \o t \in Seq(S) /\ Len(s \o t) = m + n /\ m \in Nat /\ n \in Nat
                       /\ \A k \in 1..m : (s \o t)[k] = s[k]
                       /\ \A k \in (m + 1)..(m + n) : (s \o t)[k] = t[k - m]
<1>1. Len(s) \in Nat /\ Len(t) \in Nat
  BY LenProperties
<1>2. /\ s \o t \in Seq(S) /\ Len(s \o t) = Len(s) + Len(t)
      /\ \A k \in 1..(Len(s) + Len(t)) :
           (s \o t)[k] = IF k <= Len(s) THEN s[k] ELSE t[k - Len(s)]
  BY ConcatProperties
<1> QED
  BY <1>1, <1>2

LEMMA HeadTailSet == ASSUME NEW S, NEW s \in Seq(S), s # <<>>
                     PROVE  /\ Head(s) \in SeqSet(s) /\ Head(s) \in S
                            /\ Tail(s) \in Seq(S) /\ SeqSet(Tail(s)) \subseteq SeqSet(s)
<1>1. /\ Head(s) \in S /\ Tail(s) \in Seq(S) /\ Len(Tail(s)) = Len(s) - 1
      /\ \A i \in 1..Len(Tail(s)) : Tail(s)[i] = s[i + 1]
      /\ Len(s) \in Nat \ {0}
  BY HeadTailProperties, EmptySeq
<1>h. Head(s) = s[1]
  OBVIOUS
<1>2. 1 \in 1..Len(s)
  BY <1>1
<1>3. ASSUME NEW x \in SeqSet(Tail(s)) PROVE x \in SeqSet(s)
  <2>1. PICK k \in 1..Len(Tail(s)) : x = Tail(s)[k]
    BY <1>1, InSeqSet, Zenon
  <2>2. k + 1 \in 1..Len(s) /\ x = s[k + 1]
    BY <1>1, <2>1
  <2> QED
    BY <2>2, SeqSetOf
<1> QED
  BY <1>1, <1>h, <1>2, <1>3, SeqSetOf

\* The plan is the bootouts, then the files, then the receipts.
LEMMA PlanOrder ==
  ASSUME TypeOK
  PROVE  /\ Len(service) \in Nat /\ Len(files) \in Nat /\ Len(forget) \in Nat
         /\ AllOps \in Nat /\ Len(Ops) = AllOps /\ (Ops = <<>> <=> AllOps = 0)
         /\ \A k \in 1..Len(service) : Ops[k] = [kind |-> "service", of |-> service[k]]
         /\ \A k \in (Len(service) + 1)..(Len(service) + Len(files)) :
              Ops[k] = [kind |-> "file", of |-> files[k - Len(service)]]
         /\ \A k \in (Len(service) + Len(files) + 1)..AllOps :
              Ops[k] = [kind |-> "forget", of |-> forget[k - Len(service) - Len(files)]]
<1> DEFINE R == [kind : {"service", "file", "forget"}, of : Plist \cup Item \cup Package]
<1> DEFINE S1 == Tagged("service", service)
<1> DEFINE S2 == Tagged("file", files)
<1> DEFINE S3 == Tagged("forget", forget)
<1>1. /\ Len(service) \in Nat /\ DOMAIN service = 1..Len(service)
      /\ Len(files) \in Nat /\ DOMAIN files = 1..Len(files)
      /\ Len(forget) \in Nat /\ DOMAIN forget = 1..Len(forget)
      /\ \A k \in 1..Len(service) : service[k] \in Plist
      /\ \A k \in 1..Len(files) : files[k] \in Item
      /\ \A k \in 1..Len(forget) : forget[k] \in Package
  BY LenProperties, ElementOfSeq DEF TypeOK
<1>2. S1 \in Seq(R) /\ Len(S1) = Len(service)
      /\ \A k \in 1..Len(service) : S1[k] = [kind |-> "service", of |-> service[k]]
  BY <1>1 DEF Tagged
<1>3. S2 \in Seq(R) /\ Len(S2) = Len(files)
      /\ \A k \in 1..Len(files) : S2[k] = [kind |-> "file", of |-> files[k]]
  BY <1>1 DEF Tagged
<1>4. S3 \in Seq(R) /\ Len(S3) = Len(forget)
      /\ \A k \in 1..Len(forget) : S3[k] = [kind |-> "forget", of |-> forget[k]]
  BY <1>1 DEF Tagged
<1> HIDE DEF S1, S2, S3, R
<1> DEFINE m == Len(service)
<1> DEFINE n == Len(files)
<1> DEFINE o == Len(forget)
<1>5. m \in Nat /\ n \in Nat /\ o \in Nat /\ AllOps = (m + n) + o
  BY <1>1 DEF AllOps
<1>6. /\ m = Len(S1) /\ n = Len(S2) /\ o = Len(S3)
  BY <1>2, <1>3, <1>4
<1> HIDE DEF m, n, o
<1>7. /\ S1 \o S2 \in Seq(R) /\ Len(S1 \o S2) = m + n
      /\ \A k \in 1..m : (S1 \o S2)[k] = S1[k]
      /\ \A k \in (m + 1)..(m + n) : (S1 \o S2)[k] = S2[k - m]
  BY <1>2, <1>3, <1>6, Joined
<1>8. m + n = Len(S1 \o S2)
  BY <1>7
<1> DEFINE mn == m + n
<1> HIDE DEF mn
<1>9. /\ (S1 \o S2) \o S3 \in Seq(R) /\ Len((S1 \o S2) \o S3) = mn + o
      /\ \A k \in 1..mn : ((S1 \o S2) \o S3)[k] = (S1 \o S2)[k]
      /\ \A k \in (mn + 1)..(mn + o) : ((S1 \o S2) \o S3)[k] = S3[k - mn]
  <2>1. mn = Len(S1 \o S2)
    BY <1>8 DEF mn
  <2> DEFINE S12 == S1 \o S2
  <2>2. S12 \in Seq(R) /\ mn = Len(S12) /\ S3 \in Seq(R) /\ o = Len(S3)
    BY <1>4, <1>6, <1>7, <2>1
  <2> HIDE DEF S12
  <2>3. /\ S12 \o S3 \in Seq(R) /\ Len(S12 \o S3) = mn + o
        /\ \A k \in 1..mn : (S12 \o S3)[k] = S12[k]
        /\ \A k \in (mn + 1)..(mn + o) : (S12 \o S3)[k] = S3[k - mn]
    BY <2>2, Joined
  <2> QED
    BY <2>3 DEF S12
<1>10. Ops = (S1 \o S2) \o S3
  BY DEF Ops, S1, S2, S3
<1>11. \A k \in 1..m : k \in 1..mn /\ Ops[k] = S1[k]
  BY <1>5, <1>7, <1>9, <1>10 DEF mn
<1>12. \A k \in (m + 1)..mn : k \in 1..mn /\ k - m \in 1..n /\ Ops[k] = S2[k - m]
  BY <1>5, <1>7, <1>9, <1>10 DEF mn
<1>13. \A k \in (mn + 1)..(mn + o) : k - mn \in 1..o /\ k - mn = k - m - n /\ Ops[k] = S3[k - mn]
  <2> SUFFICES ASSUME NEW k \in (mn + 1)..(mn + o)
               PROVE  k - mn \in 1..o /\ k - mn = k - m - n /\ Ops[k] = S3[k - mn]
    OBVIOUS
  <2>1. Ops[k] = S3[k - mn]
    BY <1>9, <1>10
  <2>2. mn \in Nat /\ mn = m + n
    BY <1>5 DEF mn
  <2> QED
    BY <1>5, <2>1, <2>2
<1>14. Len(Ops) = AllOps /\ AllOps \in Nat /\ Ops \in Seq(R)
  BY <1>5, <1>9, <1>10 DEF mn
<1>15. Ops = <<>> <=> AllOps = 0
  BY <1>14, EmptySeq
<1>16. \A k \in 1..Len(service) : Ops[k] = [kind |-> "service", of |-> service[k]]
  BY <1>2, <1>11 DEF m
<1>17. \A k \in (Len(service) + 1)..(Len(service) + Len(files)) :
         Ops[k] = [kind |-> "file", of |-> files[k - Len(service)]]
  BY <1>3, <1>12 DEF m, n, mn
<1>18. \A k \in (Len(service) + Len(files) + 1)..AllOps :
         Ops[k] = [kind |-> "forget", of |-> forget[k - Len(service) - Len(files)]]
  BY <1>4, <1>5, <1>13 DEF m, n, o, mn
<1> QED
  BY <1>1, <1>14, <1>15, <1>16, <1>17, <1>18

\* What Queue does to the files.
LEMMA Queued ==
  ASSUME TypeOK, NEW i \in Item, NEW r \in BOOLEAN, Queue(i, r)
  PROVE  /\ files' \in Seq(Item) /\ same' \subseteq Item /\ unseen' \subseteq Item
         /\ \A x \in SeqSet(files') : x \in SeqSet(files) \/ (x = i /\ i \in present /\ r)
<1>1. CASE i \in SeqSet(files)
  BY <1>1 DEF Queue, TypeOK
<1>2. CASE i \notin SeqSet(files) /\ i \in present /\ r
  <2>1. files' = Append(files, i) /\ same' = same \cup {i} /\ unseen' = unseen
    BY <1>2 DEF Queue
  <2> QED
    BY <1>2, <2>1, AppendSet, AppendProperties DEF TypeOK
<1>3. CASE i \notin SeqSet(files) /\ ~(i \in present /\ r)
  BY <1>3 DEF Queue, TypeOK
<1> QED
  BY <1>1, <1>2, <1>3

\* What QueueService does to the bootouts.
LEMMA ServiceQueued ==
  ASSUME TypeOK, NEW i \in Item, NEW r \in BOOLEAN, QueueService(i, r)
  PROVE  /\ service' \in Seq(Plist)
         /\ \A x \in SeqSet(service) : x \in SeqSet(service')
         /\ \A x \in SeqSet(service') : x \in SeqSet(service) \/ x = i
         /\ i \in Plist /\ i \in present /\ r => i \in SeqSet(service')
<1>1. CASE i \in Plist /\ i \in present /\ r /\ i \notin SeqSet(service)
  <2>1. service' = Append(service, i)
    BY <1>1 DEF QueueService
  <2> QED
    BY <1>1, <2>1, AppendSet, AppendProperties DEF TypeOK
<1>2. CASE ~(i \in Plist /\ i \in present /\ r /\ i \notin SeqSet(service))
  BY <1>2 DEF QueueService, TypeOK
<1> QED
  BY <1>1, <1>2

\* A shared path has more than one claimant.
LEMMA SharedCounts == ASSUME NEW i \in Item, Shares(i)
                      PROVE  Cardinality(Listed[i]) > 1
<1>1. PICK p, q \in Package : p # q /\ i \in SeqSet(Lists[p]) /\ i \in SeqSet(Lists[q])
  BY DEF Shares
<1>2. {p, q} \subseteq Listed[i] /\ Listed[i] \subseteq Package
  BY <1>1 DEF Listed
<1>3. IsFiniteSet(Listed[i])
  BY <1>2, PackageAssumption, FS_Subset
<1>4. Cardinality({p, q}) <= Cardinality(Listed[i]) /\ Cardinality(Listed[i]) \in Nat
  BY <1>2, <1>3, FS_Subset, FS_CardinalityType
<1>5. Cardinality({p, q}) = 2
  <2>1. IsFiniteSet({p}) /\ Cardinality({p}) = 1
    BY FS_Singleton
  <2>2. Cardinality({p} \cup {q}) = Cardinality({p}) + 1
    BY <1>1, <2>1, FS_AddElement
  <2>3. {p} \cup {q} = {p, q}
    OBVIOUS
  <2> QED
    BY <2>1, <2>2, <2>3
<1> QED
  BY <1>4, <1>5

-----------------------------------------------------------------------------
LEMMA InitIInv == Init => IInv
<1> SUFFICES ASSUME Init PROVE IInv
  OBVIOUS
<1>0. Len(<<>>) = 0
  OBVIOUS
<1>1. TypeOK
  <2>1. todo \in Seq(Item) /\ pkgs \in Seq(Package) /\ service \in Seq(Plist)
        /\ files \in Seq(Item) /\ forget \in Seq(Package) /\ verdict \in Seq(BOOLEAN)
        /\ fate \in Seq(Fates)
    <3>1. Jobs \in Seq(Item)
      BY JobAssumption, PathAssumption, SeqMonotonic
    <3>2. todo \in Seq(Item)
      BY <3>1 DEF Init
    <3> QED
      BY <3>2 DEF Init
  <2>2. command \in {"nuke", "orphans"} /\ mode \in {"trash", "obliterate"} /\ pc \in Steps
    BY DEF Init, Steps
  <2>3. claims \in [Item -> SUBSET Package]
    BY DEF Init
  <2>4. troubles \in 0..MaxTrouble
    BY BoundAssumption, SMT DEF Init
  <2> QED
    BY <2>1, <2>2, <2>3, <2>4 DEF Init, TypeOK
<1>2. Counted
  <2>1. AllOps = 0 /\ Len(fate) = 0
    BY <1>0 DEF Init, AllOps
  <2>2. claims = Listed
    BY DEF Init, Listed
  <2> QED
    BY <2>1, <2>2, JobAssumption DEF Init, Counted, Discovery
<1>3. SeqSet(service) = {} /\ SeqSet(files) = {} /\ Len(service) = 0 /\ Len(fate) = 0
  BY <1>0 DEF Init, SeqSet
<1> QED
  BY <1>1, <1>2, <1>3 DEF IInv, Guarded, Paired, Orphaned, Removed, BootedOut, Init

\* Well and Trouble keep within the bound.
LEMMA Bounded == ASSUME TypeOK, Well \/ Trouble
                 PROVE  troubles' \in 0..MaxTrouble
BY BoundAssumption, SMT DEF TypeOK, Well, Trouble

\* A path is queued during discovery.
LEMMA QueueStep ==
  ASSUME IInv, pc \in {"trace", "claims", "jobs"}, todo # <<>>, todo' = Tail(todo),
         NEW d \in BOOLEAN, NEW r \in BOOLEAN,
         QueueService(Head(todo), d), Queue(Head(todo), r),
         UNCHANGED <<command, mode, pc, pkgs, forget, retained, verdict, fate, present,
                     loaded, claims, installed, took, unlisted, foreign, notOut>>,
         troubles' \in 0..MaxTrouble,
         unasked \subseteq unasked', unasked' \subseteq Item,
         mute \subseteq mute', mute' \subseteq Plist,
         command = "nuke" => \/ Head(todo) \in SeqSet(Traced) \/ Head(todo) \in unasked'
                             \/ ~Shares(Head(todo)),
         r /\ ~d /\ Head(todo) \in Plist => Head(todo) \in mute',
         command = "orphans" => Program[Head(todo)] \notin present
  PROVE  IInv'
<1> DEFINE i == Head(todo)
<1>0. TypeOK /\ i \in Item /\ Tail(todo) \in Seq(Item) /\ SeqSet(Tail(todo)) \subseteq SeqSet(todo)
  BY HeadTailSet DEF IInv, TypeOK
<1>1. /\ files' \in Seq(Item) /\ same' \subseteq Item /\ unseen' \subseteq Item
      /\ \A x \in SeqSet(files') : x \in SeqSet(files) \/ (x = i /\ i \in present /\ r)
  BY <1>0, Queued
<1>2. /\ service' \in Seq(Plist)
      /\ \A x \in SeqSet(service) : x \in SeqSet(service')
      /\ \A x \in SeqSet(service') : x \in SeqSet(service) \/ x = i
      /\ i \in Plist /\ i \in present /\ d => i \in SeqSet(service')
  BY <1>0, ServiceQueued
<1>3. TypeOK'
  BY <1>0, <1>1, <1>2 DEF TypeOK
<1>4. Counted'
  <2>1. fate = <<>> /\ took = {} /\ verdict = <<>> /\ Len(fate) = 0
    BY DEF IInv, Counted, Discovery
  <2>2. AllOps' \in Nat
    BY <1>3, PlanOrder DEF AllOps
  <2>3. pc = "jobs" => todo' \in Seq(Plist)
    BY HeadTailSet DEF IInv, Counted
  <2> QED
    BY <1>0, <2>1, <2>2, <2>3 DEF IInv, Counted, Discovery, Listed
<1>5. Guarded'
  <2> SUFFICES ASSUME command = "nuke", NEW x \in SeqSet(files')
               PROVE  x \in SeqSet(Traced) \/ x \in unasked' \/ ~Shares(x)
    BY DEF Guarded
  <2> QED
    BY <1>1 DEF IInv, Guarded
<1>6. Paired'
  BY <1>1, <1>2 DEF IInv, Paired
<1>7. Orphaned'
  BY <1>1, <1>2 DEF IInv, Orphaned
<1>8. Removed' /\ BootedOut'
  <2>1. fate' = <<>> /\ took' = {} /\ Len(fate') = 0
    BY DEF IInv, Counted, Discovery
  <2> QED
    BY <2>1 DEF Removed, BootedOut
<1> QED
  BY <1>3, <1>4, <1>5, <1>6, <1>7, <1>8 DEF IInv

\* The current path of the payload is passed over, or the current job.
LEMMA PassStep ==
  ASSUME IInv, pc \in {"claims", "jobs"}, todo # <<>>, todo' = Tail(todo),
         UNCHANGED <<command, mode, pc, pkgs, service, files, forget, verdict, fate, world,
                     took, unseen, unlisted, foreign, notOut>>,
         troubles' \in 0..MaxTrouble, retained' \subseteq Item,
         unasked \subseteq unasked', unasked' \subseteq Item,
         mute \subseteq mute', mute' \subseteq Plist
  PROVE  IInv'
<1>0. Tail(todo) \in Seq(Item) /\ (todo \in Seq(Plist) => Tail(todo) \in Seq(Plist))
  BY HeadTailSet DEF IInv, TypeOK
<1>1. TypeOK'
  BY <1>0 DEF IInv, TypeOK, world
<1>2. Counted'
  BY <1>0 DEF IInv, Counted, Discovery, AllOps, Listed, world
<1>3. Guarded' /\ Paired'
  BY DEF IInv, Guarded, Paired
<1>4. Orphaned' /\ Removed' /\ BootedOut'
  BY DEF IInv, Orphaned, Removed, BootedOut, world
<1> QED
  BY <1>1, <1>2, <1>3, <1>4 DEF IInv

LEMMA TraceStep == ASSUME IInv, TraceByName
                   PROVE  IInv'
<1>1. PICK d, r \in BOOLEAN :
        /\ Head(todo) \in Plist \/ d
        /\ r => d
        /\ QueueService(Head(todo), d) /\ Queue(Head(todo), r)
        /\ IF r THEN Well ELSE Trouble
  BY DEF TraceByName
<1>2. troubles' \in 0..MaxTrouble
  BY <1>1, Bounded DEF IInv
<1>3. Head(todo) \in SeqSet(Traced) /\ command = "nuke" /\ pc = "trace" /\ todo # <<>>
  BY HeadTailSet DEF TraceByName, IInv, TypeOK, Counted
<1> QED
  BY <1>1, <1>2, <1>3, QueueStep DEF TraceByName, IInv, TypeOK

LEMMA ClaimStep == ASSUME IInv, AskClaims
                   PROVE  IInv'
<1> DEFINE i == Head(todo)
<1>0. /\ pc = "claims" /\ todo # <<>> /\ command = "nuke" /\ claims = Listed /\ i \in Item
      /\ TypeOK /\ todo' = Tail(todo)
  BY HeadTailSet DEF AskClaims, IInv, TypeOK, Counted
<1>1. PICK told, d, r \in BOOLEAN :
        /\ IF told /\ Cardinality(claims[i]) > 1
             THEN retained' = retained \cup {i} /\ UNCHANGED <<service, files, same, unseen>>
             ELSE QueueService(i, d) /\ Queue(i, r) /\ UNCHANGED retained
        /\ unasked' = IF told THEN unasked ELSE unasked \cup {i}
        /\ mute' = IF d THEN mute ELSE mute \cup {i}
        /\ i \in Plist \/ d
        /\ IF told /\ d /\ r THEN Well ELSE Trouble
  BY DEF AskClaims
<1>2. /\ troubles' \in 0..MaxTrouble
      /\ unasked \subseteq unasked' /\ unasked' \subseteq Item
      /\ mute \subseteq mute' /\ mute' \subseteq Plist
  BY <1>0, <1>1, Bounded DEF TypeOK
<1>3. CASE told /\ Cardinality(claims[i]) > 1
  <2>1. retained' \subseteq Item /\ UNCHANGED <<service, files, same, unseen>>
    BY <1>0, <1>1, <1>3 DEF TypeOK
  <2> QED
    BY <1>0, <1>2, <2>1, PassStep DEF AskClaims, world
<1>4. CASE ~(told /\ Cardinality(claims[i]) > 1)
  <2>1. i \in unasked' \/ ~Shares(i)
    <3>1. ASSUME told, Shares(i) PROVE FALSE
      BY <1>0, <1>4, <3>1, SharedCounts
    <3> QED
      BY <1>1, <3>1
  <2>2. QueueService(i, d) /\ Queue(i, r) /\ retained' = retained
    BY <1>1, <1>4
  <2>3. r /\ ~d /\ i \in Plist => i \in mute'
    BY <1>1
  <2> QED
    BY <1>0, <1>2, <2>1, <2>2, <2>3, QueueStep DEF AskClaims
<1> QED
  BY <1>3, <1>4

LEMMA JobStep == ASSUME IInv, ScanJob
                 PROVE  IInv'
<1> DEFINE j == Head(todo)
<1>0. pc = "jobs" /\ todo # <<>> /\ command = "orphans" /\ TypeOK /\ todo' = Tail(todo)
  BY DEF ScanJob, IInv, Counted
<1>1. PICK sure, r \in BOOLEAN :
        /\ IF Program[j] \notin present /\ sure
             THEN QueueService(j, TRUE) /\ Queue(j, r)
             ELSE UNCHANGED <<service, files, same, unseen>>
        /\ IF sure /\ r THEN Well ELSE Trouble
  BY DEF ScanJob
<1>2. troubles' \in 0..MaxTrouble
  BY <1>0, <1>1, Bounded
<1>3. CASE Program[j] \notin present /\ sure
  <2>1. QueueService(j, TRUE) /\ Queue(j, r)
    BY <1>1, <1>3
  <2> QED
    BY <1>0, <1>2, <1>3, <2>1, QueueStep DEF ScanJob, TypeOK
<1>4. CASE ~(Program[j] \notin present /\ sure)
  BY <1>0, <1>1, <1>2, <1>4, PassStep DEF ScanJob, world, TypeOK
<1> QED
  BY <1>3, <1>4

\* The steps between the queues.
LEMMA BetweenStep ==
  ASSUME IInv, ResolveApp \/ ListPackages \/ ListPayload \/ PayloadRead \/ Seal \/ Answer
  PROVE  IInv'
<1> USE DEF engine, world, ghost
<1>0. /\ TypeOK /\ AllOps \in Nat /\ (Ops = <<>> <=> AllOps = 0)
      /\ fate = <<>> /\ took = {} /\ verdict = <<>> /\ Len(<<>>) = 0
  BY PlanOrder DEF IInv, Counted, Discovery, ResolveApp, ListPackages, ListPayload, PayloadRead,
                   Seal, Answer
<1>1. /\ UNCHANGED <<command, mode, service, files, retained, verdict, fate, world, took,
                     unasked, unseen, mute, foreign, notOut>>
      /\ Well \/ Trouble
  BY DEF ResolveApp, ListPackages, ListPayload, PayloadRead, Seal, Answer, Well
<1>2. troubles' \in 0..MaxTrouble
  BY <1>0, <1>1, Bounded
<1>3. /\ Guarded' /\ Paired' /\ Removed' /\ BootedOut'
  BY <1>0, <1>1 DEF IInv, Guarded, Paired, Removed, BootedOut
<1>4. ASSUME forget' = forget, todo' \in Seq(Item), pkgs' \in Seq(Package), pc' \in Steps,
             unlisted' \subseteq Package, Counted'
      PROVE  IInv'
  <2>1. TypeOK'
    BY <1>0, <1>1, <1>2, <1>4 DEF TypeOK
  <2>2. Orphaned'
    BY <1>1, <1>4 DEF IInv, Orphaned
  <2> QED
    BY <1>3, <1>4, <2>1, <2>2 DEF IInv
<1>5. CASE ResolveApp
  <2>1. forget' = forget /\ pkgs' = pkgs /\ unlisted' = unlisted /\ pc' \in {"trace", "declined"}
        /\ todo' \in Seq(Item) /\ (pc' = "trace" => todo' = Traced)
    BY <1>0, <1>5, TraceAssumption DEF ResolveApp, TypeOK
  <2>2. Counted'
    BY <1>0, <1>1, <1>5, <2>1 DEF ResolveApp, IInv, Counted, Discovery, AllOps, Listed
  <2> QED
    BY <1>0, <1>4, <2>1, <2>2 DEF TypeOK, Steps
<1>6. CASE ListPackages
  <2>1. forget' = forget /\ pkgs' \in Seq(Package) /\ unlisted' = unlisted /\ pc' = "list"
        /\ todo' = todo
    <3>1. Related \in Seq(Package) /\ <<>> \in Seq(Package)
      BY PackageAssumption
    <3> QED
      BY <1>0, <1>6, <3>1 DEF ListPackages, TypeOK
  <2>2. Counted'
    BY <1>0, <1>1, <1>6, <2>1 DEF ListPackages, IInv, Counted, Discovery, AllOps, Listed
  <2> QED
    BY <1>0, <1>4, <2>1, <2>2 DEF TypeOK, Steps
<1>7. CASE ListPayload
  <2>1. pkgs # <<>> /\ pkgs' = pkgs /\ forget' = forget /\ pc = "list" /\ pc' = "claims"
        /\ Head(pkgs) \in Package
    BY <1>0, <1>7, HeadTailSet DEF ListPayload, TypeOK
  <2>2. todo' \in Seq(Item) /\ unlisted' \subseteq Package
    <3>1. Lists[Head(pkgs)] \in Seq(Item) /\ <<>> \in Seq(Item)
      BY <2>1, PackageAssumption
    <3> QED
      BY <1>0, <1>7, <2>1, <3>1 DEF ListPayload, TypeOK
  <2>3. Counted'
    BY <1>0, <1>1, <2>1 DEF IInv, Counted, Discovery, AllOps, Listed
  <2> QED
    BY <1>0, <1>4, <2>1, <2>2, <2>3 DEF TypeOK, Steps
<1>8. CASE PayloadRead
  <2>1. /\ pc = "claims" /\ pc' = "list" /\ todo' = todo /\ unlisted' = unlisted
        /\ forget' = Append(forget, Head(pkgs)) /\ pkgs' = Tail(pkgs) /\ pkgs # <<>>
        /\ command = "nuke"
    BY <1>8 DEF PayloadRead, IInv, Counted
  <2>2. Head(pkgs) \in Package /\ Tail(pkgs) \in Seq(Package)
    BY <1>0, <2>1, HeadTailSet DEF TypeOK
  <2>3. forget' \in Seq(Package)
    BY <1>0, <2>1, <2>2, AppendProperties DEF TypeOK
  <2>4. TypeOK'
    BY <1>0, <1>1, <1>2, <2>1, <2>2, <2>3 DEF TypeOK, Steps
  <2>5. AllOps' \in Nat
    BY <2>4, PlanOrder DEF AllOps
  <2>6. Counted' /\ Orphaned'
    BY <1>0, <1>1, <2>1, <2>5 DEF IInv, Counted, Orphaned, Discovery, Listed
  <2> QED
    BY <1>3, <2>4, <2>6 DEF IInv
<1>9. CASE Seal
  <2>1. UNCHANGED <<forget, todo, pkgs, unlisted>> /\ pc' = IF Ops = <<>> THEN "declined" ELSE "gate"
    BY <1>9 DEF Seal
  <2>2. Counted'
    BY <1>0, <1>1, <2>1 DEF IInv, Counted, Discovery, AllOps
  <2> QED
    BY <1>0, <1>4, <2>1, <2>2 DEF TypeOK, Steps
<1>10. CASE Answer
  <2>1. /\ UNCHANGED <<forget, todo, pkgs, unlisted>> /\ pc = "gate"
        /\ pc' \in {"check", "declined"}
    BY <1>10 DEF Answer
  <2>2. Counted'
    BY <1>0, <1>1, <2>1 DEF IInv, Counted, Discovery, AllOps
  <2> QED
    BY <1>0, <1>4, <2>1, <2>2 DEF TypeOK, Steps
<1> QED
  BY <1>5, <1>6, <1>7, <1>8, <1>9, <1>10

-----------------------------------------------------------------------------
(* The batch.                                                              *)

LEMMA CheckStep == ASSUME IInv, Check
                   PROVE  IInv'
<1> USE DEF engine, world, ghost
<1>0. /\ TypeOK /\ AllOps \in Nat /\ Len(Ops) = AllOps /\ Len(verdict) \in Nat
      /\ pc = "check" /\ Len(verdict) < AllOps /\ fate = <<>> /\ Len(<<>>) = 0
  BY PlanOrder, LenProperties DEF IInv, TypeOK, Counted, Check
<1>1. PICK readable \in BOOLEAN :
        /\ verdict' = Append(verdict, readable /\ CASE Ops[Len(verdict) + 1].kind = "service" ->
                                         Ops[Len(verdict) + 1].of \in present
                          [] Ops[Len(verdict) + 1].kind = "file" ->
                                         Ops[Len(verdict) + 1].of \in present \cap same
                          [] Ops[Len(verdict) + 1].kind = "forget" ->
                                         Ops[Len(verdict) + 1].of \in installed)
        /\ IF readable THEN Well ELSE Trouble
  BY DEF Check
<1>2. PICK b \in BOOLEAN : verdict' = Append(verdict, b)
  BY <1>1, Zenon
<1>3. verdict' \in Seq(BOOLEAN) /\ Len(verdict') = Len(verdict) + 1
  BY <1>0, <1>2, AppendProperties DEF TypeOK
<1>4. troubles' \in 0..MaxTrouble
  BY <1>0, <1>1, Bounded
<1>5. /\ pc' = IF Len(verdict) + 1 = AllOps THEN "run" ELSE "check"
      /\ UNCHANGED <<command, mode, todo, pkgs, engine, fate, world, ghost>>
  BY <1>0 DEF Check
<1>6. TypeOK'
  BY <1>0, <1>3, <1>4, <1>5 DEF TypeOK, Steps
<1>7. Counted'
  BY <1>0, <1>3, <1>5 DEF IInv, Counted, Discovery, AllOps
<1>8. Guarded' /\ Paired' /\ Orphaned' /\ Removed' /\ BootedOut'
  BY <1>5 DEF IInv, Guarded, Paired, Orphaned, Removed, BootedOut
<1> QED
  BY <1>6, <1>7, <1>8 DEF IInv

\* An operation settles: removals stay with its file, and only after the bootouts.
LEMMA SettleStep ==
  ASSUME IInv, pc \in {"run", "unlink"}, NEW f \in Fates, Settle(f),
         present' \subseteq present, same' \subseteq Item, loaded' \subseteq loaded,
         claims' \in [Item -> SUBSET Package], installed' \subseteq Package,
         troubles' \in 0..MaxTrouble, took' \subseteq Item,
         notOut \subseteq notOut', notOut' \subseteq Plist,
         \A i \in took' \ took : \E x \in SeqSet(files) : i \in {x} \cup In[x],
         took' # took => Now > Len(service),
         Now <= Len(service) => \/ service[Now] \notin loaded' \/ service[Now] \in notOut'
                                \/ f = "skipped"
  PROVE  IInv'
<1> USE DEF engine
<1>0. /\ TypeOK /\ AllOps \in Nat /\ Len(Ops) = AllOps /\ Len(fate) \in Nat /\ Len(fate) < AllOps
      /\ Len(verdict) = AllOps /\ Len(service) \in Nat
  BY PlanOrder, LenProperties DEF IInv, TypeOK, Counted
<1>1. /\ fate' = Append(fate, f)
      /\ UNCHANGED <<command, mode, todo, pkgs, engine, verdict, unasked, unseen, unlisted,
                     mute, foreign>>
  BY DEF Settle
<1>2. /\ fate' \in Seq(Fates) /\ Len(fate') = Len(fate) + 1
      /\ \A k \in 1..Len(fate) : fate'[k] = fate[k]
      /\ fate'[Len(fate) + 1] = f
  BY <1>0, <1>1, AppendProperties DEF TypeOK
<1>3. /\ pc' = IF Len(fate) + 1 = AllOps THEN "done" ELSE "run"
  <2>1. pc' = IF Len(fate') = Len(Ops) THEN "done" ELSE "run"
    BY DEF Settle
  <2> QED
    BY <1>0, <1>2, <2>1
<1>4. TypeOK'
  BY <1>0, <1>1, <1>2, <1>3 DEF TypeOK, Steps
<1>5. Counted'
  BY <1>0, <1>1, <1>2, <1>3 DEF IInv, Counted, Discovery, AllOps
<1>6. Guarded' /\ Paired' /\ Orphaned'
  BY <1>1 DEF IInv, Guarded, Paired, Orphaned
<1>7. Removed'
  <2>1. \A i \in took' : \E x \in SeqSet(files) : i \in {x} \cup In[x]
    BY DEF IInv, Removed
  <2>2. took' # {} => Len(fate') >= Len(service)
    BY <1>0, <1>2 DEF IInv, Removed, Now
  <2> QED
    BY <1>1, <2>1, <2>2 DEF Removed
<1>8. BootedOut'
  <2> SUFFICES ASSUME NEW k \in 1..Len(service), k <= Len(fate')
               PROVE  \/ service[k] \notin loaded' \/ service[k] \in foreign \cup notOut'
                      \/ fate'[k] = "skipped"
    BY <1>1 DEF BootedOut
  <2>1. CASE k = Len(fate) + 1
    BY <1>2, <2>1 DEF Now
  <2>2. CASE k # Len(fate) + 1
    <3>1. k <= Len(fate) /\ k \in 1..Len(fate)
      BY <1>0, <1>2, <2>2
    <3> QED
      BY <1>2, <3>1 DEF IInv, BootedOut
  <2> QED
    BY <2>1, <2>2
<1> QED
  BY <1>4, <1>5, <1>6, <1>7, <1>8 DEF IInv

\* Which operation runs.
LEMMA Running ==
  ASSUME IInv, pc \in {"run", "unlink"}
  PROVE  /\ Now \in 1..AllOps /\ Len(service) \in Nat
         /\ Now <= Len(service) => Ops[Now] = [kind |-> "service", of |-> service[Now]]
         /\ \A x : Turn("file", x) => Now > Len(service) /\ x \in SeqSet(files)
         /\ \A x : Turn("forget", x) => Now > Len(service)
<1>0. /\ TypeOK /\ Len(fate) \in Nat /\ Len(fate) < AllOps
  BY LenProperties DEF IInv, TypeOK, Counted
<1>1. /\ Len(service) \in Nat /\ Len(files) \in Nat /\ Len(forget) \in Nat
      /\ AllOps \in Nat
      /\ \A k \in 1..Len(service) : Ops[k] = [kind |-> "service", of |-> service[k]]
      /\ \A k \in (Len(service) + 1)..(Len(service) + Len(files)) :
           Ops[k] = [kind |-> "file", of |-> files[k - Len(service)]]
      /\ \A k \in (Len(service) + Len(files) + 1)..AllOps :
           Ops[k] = [kind |-> "forget", of |-> forget[k - Len(service) - Len(files)]]
  BY <1>0, PlanOrder
<1>2. Now \in 1..AllOps
  BY <1>0, <1>1 DEF Now
<1>3. CASE Now <= Len(service)
  <2>1. Ops[Now] = [kind |-> "service", of |-> service[Now]]
    BY <1>1, <1>2, <1>3
  <2>2. \A x : ~Turn("file", x) /\ ~Turn("forget", x)
    BY <2>1 DEF Turn
  <2> QED
    BY <1>1, <1>2, <2>1, <2>2
<1>4. CASE ~(Now <= Len(service)) /\ Now <= Len(service) + Len(files)
  <2>1. Ops[Now] = [kind |-> "file", of |-> files[Now - Len(service)]]
        /\ Now - Len(service) \in 1..Len(files) /\ Now > Len(service)
    BY <1>1, <1>2, <1>4
  <2>2. files[Now - Len(service)] \in SeqSet(files)
    BY <1>0, <2>1, SeqSetOf DEF TypeOK
  <2>3. \A x : Turn("file", x) => x = files[Now - Len(service)]
    BY <2>1 DEF Turn
  <2> QED
    BY <1>1, <1>2, <1>4, <2>1, <2>2, <2>3
<1>5. CASE ~(Now <= Len(service) + Len(files))
  <2>1. Ops[Now] = [kind |-> "forget", of |-> forget[Now - Len(service) - Len(files)]]
        /\ Now > Len(service)
    BY <1>1, <1>2, <1>5
  <2>2. \A x : ~Turn("file", x)
    BY <2>1 DEF Turn
  <2> QED
    BY <1>1, <1>2, <1>5, <2>1, <2>2
<1> QED
  BY <1>3, <1>4, <1>5

LEMMA FileStep ==
  ASSUME IInv, NEW i \in Item, Delete(i) \/ DeleteInPart(i) \/ DeleteSkips(i)
  PROVE  IInv'
<1> USE DEF world
<1>0. TypeOK /\ pc \in {"run", "unlink"} /\ Turn("file", i) /\ In[i] \subseteq Item
  BY PathAssumption DEF IInv, Delete, DeleteInPart, DeleteSkips, Runs, Unlinks
<1>1. Now > Len(service) /\ i \in SeqSet(files) /\ ~(Now <= Len(service))
  BY <1>0, Running
<1>2. /\ UNCHANGED <<loaded, claims, installed, notOut>>
      /\ Well \/ Trouble
  BY DEF Delete, DeleteInPart, DeleteSkips, Well
<1>3. troubles' \in 0..MaxTrouble
  BY <1>0, <1>2, Bounded
<1>s. /\ loaded' \subseteq loaded /\ claims' \in [Item -> SUBSET Package]
      /\ installed' \subseteq Package /\ notOut \subseteq notOut' /\ notOut' \subseteq Plist
      /\ {"removed", "skipped"} \subseteq Fates
  BY <1>0, <1>2 DEF TypeOK, Fates
<1>4. ASSUME NEW s \in SUBSET ({i} \cup In[i]), Gone(s), Settle("removed") PROVE IInv'
  <2>1. present' \subseteq present /\ same' \subseteq Item /\ took' \subseteq Item
        /\ took' \ took \subseteq {i} \cup In[i]
    BY <1>0, <1>4 DEF Gone, TypeOK
  <2>2. \A x \in took' \ took : \E y \in SeqSet(files) : x \in {y} \cup In[y]
    BY <1>1, <2>1
  <2> QED
    BY <1>0, <1>1, <1>s, <1>3, <1>4, <2>1, <2>2, SettleStep
<1>5. CASE Delete(i)
  BY <1>4, <1>5 DEF Delete
<1>6. CASE DeleteInPart(i)
  <2>1. PICK s \in SUBSET (In[i] \cap present) : Gone(s)
    BY <1>6 DEF DeleteInPart
  <2> QED
    BY <1>4, <1>6, <2>1 DEF DeleteInPart
<1>7. CASE DeleteSkips(i)
  <2>1. UNCHANGED <<present, same, took>> /\ Settle("skipped")
    BY <1>7 DEF DeleteSkips
  <2>2. present' \subseteq present /\ same' \subseteq Item /\ took' \subseteq Item
        /\ took' = took
    BY <1>0, <2>1 DEF TypeOK
  <2> QED
    BY <1>0, <1>1, <1>s, <1>3, <2>1, <2>2, SettleStep
<1> QED
  BY <1>5, <1>6, <1>7

\* The check by path changes nothing.
LEMMA VerifyStep == ASSUME IInv, NEW i \in Item, Verify(i)
                    PROVE  IInv'
<1> USE DEF engine, world, ghost
<1>1. /\ UNCHANGED <<command, mode, todo, pkgs, engine, verdict, fate, world, troubles, ghost>>
      /\ pc = "run" /\ pc' = "unlink"
  BY DEF Verify, Runs
<1>2. TypeOK'
  BY <1>1 DEF IInv, TypeOK, Steps
<1>3. Counted'
  BY <1>1 DEF Verify, IInv, Counted, Discovery, AllOps
<1>4. Guarded' /\ Paired' /\ Orphaned' /\ Removed' /\ BootedOut'
  BY <1>1 DEF IInv, Guarded, Paired, Orphaned, Removed, BootedOut
<1> QED
  BY <1>2, <1>3, <1>4 DEF IInv

LEMMA BootoutStep == ASSUME IInv, NEW j \in Plist, Bootout(j)
                     PROVE  IInv'
<1>0. TypeOK /\ pc = "run" /\ Runs("service", j)
  BY DEF IInv, Bootout, Runs
<1>1. Now <= Len(service) => service[Now] = j
  BY <1>0, Running DEF Runs, Turn
<1>2. UNCHANGED <<present, same, claims, installed, took>>
  BY DEF Bootout
<1>3. troubles' \in 0..MaxTrouble
  <2>1. Well \/ Trouble
    BY DEF Bootout
  <2> QED
    BY <1>0, <2>1, Bounded
<1>4. CASE loaded' = loaded \ {j} /\ Settle("unloaded") /\ notOut' = notOut
  BY <1>0, <1>1, <1>2, <1>3, <1>4, SettleStep DEF Fates, TypeOK
<1>5. CASE loaded' = loaded /\ Settle("unloaded") /\ notOut' = notOut \cup {j}
  BY <1>0, <1>1, <1>2, <1>3, <1>5, SettleStep DEF Fates, TypeOK
<1>6. CASE loaded' \in {loaded, loaded \ {j}} /\ Settle("skipped") /\ notOut' = notOut
  BY <1>0, <1>1, <1>2, <1>3, <1>6, SettleStep DEF Fates, TypeOK
<1> QED
  BY <1>4, <1>5, <1>6 DEF Bootout

LEMMA ForgetStep == ASSUME IInv, NEW p \in Package, Forget(p)
                    PROVE  IInv'
<1>0. TypeOK /\ pc = "run" /\ Runs("forget", p)
  BY DEF IInv, Forget, Runs
<1>1. ~(Now <= Len(service))
  BY <1>0, Running DEF Runs
<1>2. /\ UNCHANGED <<present, same, loaded, took, notOut>> /\ installed' \subseteq Package
      /\ claims' = [i \in Item |-> claims[i] \cap installed']
  BY <1>0 DEF Forget, TypeOK
<1>3. claims' \in [Item -> SUBSET Package]
  BY <1>0, <1>2 DEF TypeOK
<1>4. troubles' \in 0..MaxTrouble
  <2>1. Well \/ Trouble
    BY DEF Forget
  <2> QED
    BY <1>0, <2>1, Bounded
<1>5. \/ Settle("forgotten") \/ Settle("skipped")
  BY DEF Forget
<1>6. CASE Settle("forgotten")
  BY <1>0, <1>1, <1>2, <1>3, <1>4, <1>6, SettleStep DEF Fates, TypeOK
<1>7. CASE Settle("skipped")
  BY <1>0, <1>1, <1>2, <1>3, <1>4, <1>7, SettleStep DEF Fates, TypeOK
<1> QED
  BY <1>5, <1>6, <1>7

LEMMA StaleStep == ASSUME IInv, SkipStale
                   PROVE  IInv'
<1>0. TypeOK /\ pc = "run" /\ Settle("skipped")
      /\ UNCHANGED <<present, same, loaded, claims, installed, troubles, took, notOut>>
  BY DEF IInv, SkipStale, world
<1> QED
  BY <1>0, SettleStep DEF Fates, TypeOK

\* Other programs.  What they bring is foreign.
LEMMA OtherStep ==
  ASSUME IInv, \/ \E i \in Item : OtherRemoves(i) \/ OtherWrites(i)
               \/ \E j \in Plist : OtherLoads(j)
  PROVE  IInv'
<1> USE DEF engine, ghost
<1>0. TypeOK
  BY DEF IInv
<1>1. /\ UNCHANGED <<command, mode, pc, todo, pkgs, engine, verdict, fate, claims, installed,
                     took, unasked, unseen, unlisted, mute, notOut>>
      /\ Trouble
  BY DEF OtherRemoves, OtherWrites, OtherLoads
<1>2. /\ present' \subseteq Item /\ same' \subseteq Item /\ loaded' \subseteq Plist
      /\ foreign \subseteq foreign' /\ foreign' \subseteq Item
      /\ present' \subseteq present \cup foreign'
      /\ loaded' \subseteq loaded \cup foreign'
  <2>1. CASE \E i \in Item : OtherRemoves(i)
    BY <1>0, <2>1 DEF OtherRemoves, Disturbed, TypeOK
  <2>2. CASE \E i \in Item : OtherWrites(i)
    BY <1>0, <2>2 DEF OtherWrites, Disturbed, TypeOK
  <2>3. CASE \E j \in Plist : OtherLoads(j)
    BY <1>0, <2>3, PathAssumption DEF OtherLoads, TypeOK
  <2> QED
    BY <2>1, <2>2, <2>3
<1>3. troubles' \in 0..MaxTrouble
  BY <1>0, <1>1, Bounded
<1>4. TypeOK'
  BY <1>0, <1>1, <1>2, <1>3 DEF TypeOK
<1>5. Counted' /\ Guarded' /\ Paired' /\ Removed'
  BY <1>1 DEF IInv, Counted, Guarded, Paired, Removed, AllOps
<1>6. Orphaned'
  BY <1>1, <1>2 DEF IInv, Orphaned
<1>7. BootedOut'
  BY <1>1, <1>2 DEF IInv, BootedOut
<1> QED
  BY <1>4, <1>5, <1>6, <1>7 DEF IInv

LEMMA Inductive == IInv /\ [Next]_vars => IInv'
<1> SUFFICES ASSUME IInv, [Next]_vars PROVE IInv'
  OBVIOUS
<1>1. CASE UNCHANGED vars
  BY <1>1 DEF vars, engine, world, ghost, IInv, TypeOK, Counted, Guarded, Paired, Orphaned,
              Removed, BootedOut, AllOps, Discovery
<1>2. CASE Next
  BY <1>2, TraceStep, ClaimStep, JobStep, BetweenStep, CheckStep, FileStep, VerifyStep,
     BootoutStep, ForgetStep, StaleStep, OtherStep DEF Next
<1> QED
  BY <1>1, <1>2

LEMMA Always == Spec => []IInv
BY InitIInv, Inductive, PTL DEF Spec

\* Every variable keeps its type, for every application and every package.
THEOREM TypeCorrect == Spec => []TypeOK
<1>1. IInv => TypeOK
  BY DEF IInv
<1> QED
  BY <1>1, Always, PTL

\* What two packages list is not removed with one of them, for any number of
\* packages and payloads, unless pkgutil did not answer or the path was found by
\* its name (tracePackages).
THEOREM SharedIsKept == Spec => []SharedStays
<1>1. IInv => SharedStays
  <2> SUFFICES ASSUME IInv, command = "nuke", ListsDirectories, NEW i \in took,
                      NEW p \in Package, NEW q \in Package, p # q,
                      i \in SeqSet(Lists[p]), i \in SeqSet(Lists[q])
               PROVE  ({i} \cup Above(i)) \cap (unasked \cup SeqSet(Traced)) # {}
    BY DEF SharedStays
  <2>1. PICK f \in SeqSet(files) : i \in {f} \cup In[f]
    BY DEF IInv, Removed
  <2>2. f \in Item
    BY SeqSetOf DEF IInv, TypeOK
  <2>3. f = i \/ f \in Above(i)
    BY <2>1, <2>2 DEF Above
  <2>4. f \in SeqSet(Lists[p]) /\ f \in SeqSet(Lists[q])
    BY <2>3 DEF ListsDirectories
  <2>5. f \in SeqSet(Traced) \/ f \in unasked
    BY <2>4 DEF IInv, Guarded, Shares
  <2> QED
    BY <2>3, <2>5
<1> QED
  BY <1>1, Always, PTL

\* A job whose plist the batch removed is unloaded, but for the reasons the record
\* or launchd give (Plan orders bootouts before files).
THEOREM JobGoesWithPlist == Spec => []PlistGoneJobGone
<1>1. IInv => PlistGoneJobGone
  <2> SUFFICES ASSUME IInv, NEW j \in SeqSet(files) \cap took \cap loaded,
                      j \notin foreign \cup notOut \cup mute
               PROVE  \E k \in DOMAIN fate :
                        Ops[k] = [kind |-> "service", of |-> j] /\ fate[k] = "skipped"
    BY DEF PlistGoneJobGone
  <2>1. j \in SeqSet(service)
    BY DEF IInv, TypeOK, Paired
  <2>2. PICK k \in 1..Len(service) : j = service[k]
    BY <2>1, SeqSetOf DEF IInv, TypeOK
  <2>3. Len(fate) >= Len(service) /\ Len(fate) \in Nat /\ DOMAIN fate = 1..Len(fate)
        /\ Len(service) \in Nat
    BY LenProperties DEF IInv, TypeOK, Removed
  <2>4. k \in 1..Len(fate) /\ k <= Len(fate)
    BY <2>3
  <2>5. fate[k] = "skipped"
    BY <2>2, <2>4 DEF IInv, BootedOut
  <2>6. Ops[k] = [kind |-> "service", of |-> j]
    BY <2>2, PlanOrder DEF IInv
  <2> QED
    BY <2>3, <2>4, <2>5, <2>6
<1> QED
  BY <1>1, Always, PTL

\* orphans leaves the jobs alone whose program has been there all the time (Find).
THEOREM LiveJobsAreSafe == Spec => []LiveJobsStay
<1>1. IInv => LiveJobsStay
  <2> SUFFICES ASSUME IInv, command = "orphans", NEW k \in DOMAIN fate
               PROVE  Program[Ops[k].of] \notin present \/ Program[Ops[k].of] \in foreign
    BY DEF LiveJobsStay
  <2>0. /\ Len(service) \in Nat /\ Len(files) \in Nat /\ forget = <<>> /\ Len(<<>>) = 0
        /\ k \in 1..AllOps /\ AllOps \in Nat
    BY LenProperties, PlanOrder DEF IInv, TypeOK, Counted, Orphaned
  <2>1. AllOps = Len(service) + Len(files)
    BY <2>0 DEF AllOps
  <2>2. CASE k <= Len(service)
    <3>1. k \in 1..Len(service) /\ Ops[k].of = service[k]
      <4>1. k \in 1..Len(service)
        BY <2>0, <2>2
      <4>2. Ops[k] = [kind |-> "service", of |-> service[k]]
        BY <4>1, PlanOrder DEF IInv
      <4> QED
        BY <4>1, <4>2
    <3>2. service[k] \in SeqSet(service)
      BY <3>1, SeqSetOf DEF IInv, TypeOK
    <3> QED
      BY <3>1, <3>2 DEF IInv, Orphaned
  <2>3. CASE ~(k <= Len(service))
    <3>1. k - Len(service) \in 1..Len(files) /\ Ops[k].of = files[k - Len(service)]
      <4>1. /\ k \in (Len(service) + 1)..(Len(service) + Len(files))
            /\ k - Len(service) \in 1..Len(files)
        BY <2>0, <2>1, <2>3
      <4>2. Ops[k] = [kind |-> "file", of |-> files[k - Len(service)]]
        BY <4>1, PlanOrder DEF IInv
      <4> QED
        BY <4>1, <4>2
    <3>2. files[k - Len(service)] \in SeqSet(files)
      BY <3>1, SeqSetOf DEF IInv, TypeOK
    <3> QED
      BY <3>1, <3>2 DEF IInv, Orphaned
  <2> QED
    BY <2>2, <2>3
<1> QED
  BY <1>1, Always, PTL
-----------------------------------------------------------------------------
(* What a forgotten receipt leaves behind.                                 *)

\* What discovery did with a path: queued, retained or passed over.
SeenTo == SeqSet(files) \cup retained \cup unseen

\* The payload of a receipt that is queued has been seen to, and of the one that
\* is being read, what has been read.
Covered ==
  /\ \A p \in SeqSet(forget) : p \in unlisted \/ SeqSet(Lists[p]) \subseteq SeenTo
  /\ pc = "claims" => \/ Head(pkgs) \in unlisted
                      \/ SeqSet(Lists[Head(pkgs)]) \subseteq SeqSet(todo) \cup SeenTo

\* In trash mode a file that was not skipped is gone with all that was in it, but
\* for what others brought.
FilesGone == mode = "trash" =>
  \A n \in 1..Len(files) : Len(service) + n <= Len(fate) =>
    \/ fate[Len(service) + n] = "skipped"
    \/ ({files[n]} \cup In[files[n]]) \cap present \subseteq foreign

\* Receipts are forgotten when bootouts and files have settled.
ForgottenLast ==
  \A k \in 1..Len(fate) : fate[k] = "forgotten" => k > Len(service) + Len(files)

Explained == Covered /\ FilesGone /\ ForgottenLast

\* Outside the batch nothing has a fate.
LEMMA NothingSettled ==
  ASSUME IInv, pc' \notin {"run", "unlink", "done"}, IInv'
  PROVE  FilesGone' /\ ForgottenLast'
<1>1. fate' = <<>> /\ Len(fate') = 0 /\ Len(service') \in Nat
  BY LenProperties DEF IInv, Counted, TypeOK
<1>2. \A n \in 1..Len(files') : ~(Len(service') + n <= Len(fate'))
  <2>1. Len(files') \in Nat
    BY LenProperties DEF IInv, TypeOK
  <2> QED
    BY <1>1, <2>1
<1>3. 1..Len(fate') = {}
  BY <1>1
<1> QED
  BY <1>2, <1>3 DEF FilesGone, ForgottenLast

\* A path that is looked at is seen to, and nothing seen to is dropped.
LEMMA QueueSees ==
  ASSUME TypeOK, NEW i \in Item, NEW r \in BOOLEAN, Queue(i, r), retained \subseteq retained'
  PROVE  SeenTo \cup {i} \subseteq SeenTo'
<1>1. CASE i \in SeqSet(files)
  BY <1>1 DEF Queue, SeenTo
<1>2. CASE i \notin SeqSet(files) /\ i \in present /\ r
  <2>1. files' = Append(files, i) /\ unseen' = unseen
    BY <1>2 DEF Queue
  <2>2. SeqSet(files') = SeqSet(files) \cup {i}
    BY <2>1, AppendSet DEF TypeOK
  <2> QED
    BY <2>1, <2>2 DEF SeenTo
<1>3. CASE i \notin SeqSet(files) /\ ~(i \in present /\ r)
  BY <1>3 DEF Queue, SeenTo
<1> QED
  BY <1>1, <1>2, <1>3

\* A list is its head and its tail.
LEMMA HeadOrTail == ASSUME NEW S, NEW s \in Seq(S), s # <<>>
                    PROVE  SeqSet(s) \subseteq {Head(s)} \cup SeqSet(Tail(s))
<1>1. /\ Tail(s) \in Seq(S) /\ Len(Tail(s)) = Len(s) - 1
      /\ \A i \in 1..Len(Tail(s)) : Tail(s)[i] = s[i + 1]
      /\ Len(s) \in Nat \ {0}
  BY HeadTailProperties, EmptySeq
<1>2. Head(s) = s[1]
  OBVIOUS
<1> SUFFICES ASSUME NEW x \in SeqSet(s), x # s[1] PROVE x \in SeqSet(Tail(s))
  BY <1>2
<1>3. PICK k \in 1..Len(s) : x = s[k]
  BY InSeqSet
<1>4. k # 1
  BY <1>3
<1>5. k - 1 \in 1..Len(Tail(s)) /\ (k - 1) + 1 = k
  BY <1>1, <1>4
<1>6. x = Tail(s)[k - 1]
  BY <1>1, <1>3, <1>5
<1> DEFINE t == Tail(s)
<1>7. t \in Seq(S) /\ k - 1 \in 1..Len(t) /\ x = t[k - 1]
  BY <1>1, <1>5, <1>6
<1> HIDE DEF t
<1>8. x \in SeqSet(t)
  BY <1>7, SeqSetOf
<1> QED
  BY <1>8 DEF t

\* Discovery: what is not queued to be seen to is seen to.
LEMMA DiscoverySees ==
  ASSUME IInv, Explained, pc \in {"trace", "claims", "jobs"}, todo # <<>>, todo' = Tail(todo),
         UNCHANGED <<pc, pkgs, forget, unlisted>>, SeenTo \subseteq SeenTo',
         pc = "claims" => Head(todo) \in SeenTo'
  PROVE  Covered'
<1>1. SeqSet(todo) \subseteq {Head(todo)} \cup SeqSet(todo')
  BY HeadOrTail DEF IInv, TypeOK
<1> QED
  BY <1>1 DEF Explained, Covered

LEMMA SearchSees ==
  ASSUME IInv, Explained, TraceByName \/ AskClaims \/ ScanJob PROVE Covered'
<1>0. /\ TypeOK /\ todo # <<>> /\ todo' = Tail(todo) /\ Head(todo) \in Item
      /\ pc \in {"trace", "claims", "jobs"} /\ UNCHANGED <<pc, pkgs, forget, unlisted>>
  BY HeadTailSet DEF IInv, TypeOK, TraceByName, AskClaims, ScanJob
<1>1. CASE TraceByName
  <2>1. PICK r \in BOOLEAN : Queue(Head(todo), r)
    BY <1>1 DEF TraceByName
  <2>2. retained' = retained /\ pc = "trace"
    BY <1>1 DEF TraceByName
  <2>3. SeenTo \cup {Head(todo)} \subseteq SeenTo'
    BY <1>0, <2>1, <2>2, QueueSees
  <2> QED
    BY <1>0, <2>3, DiscoverySees
<1>2. CASE AskClaims
  <2>1. PICK told, r \in BOOLEAN :
          IF told /\ Cardinality(claims[Head(todo)]) > 1
            THEN retained' = retained \cup {Head(todo)} /\ UNCHANGED <<service, files, same, unseen>>
            ELSE Queue(Head(todo), r) /\ UNCHANGED retained
    BY <1>2 DEF AskClaims
  <2>2. CASE retained' = retained \cup {Head(todo)} /\ UNCHANGED <<files, unseen>>
    <3>1. SeenTo \cup {Head(todo)} \subseteq SeenTo'
      BY <2>2 DEF SeenTo
    <3> QED
      BY <1>0, <3>1, DiscoverySees
  <2>3. CASE Queue(Head(todo), r) /\ retained' = retained
    <3>1. SeenTo \cup {Head(todo)} \subseteq SeenTo'
      BY <1>0, <2>3, QueueSees
    <3> QED
      BY <1>0, <3>1, DiscoverySees
  <2> QED
    BY <2>1, <2>2, <2>3
<1>3. CASE ScanJob
  <2>1. pc = "jobs" /\ retained' = retained
    BY <1>3 DEF ScanJob
  <2>2. PICK r \in BOOLEAN : Queue(Head(todo), r) \/ UNCHANGED <<files, unseen>>
    BY <1>3 DEF ScanJob
  <2>3. SeenTo \subseteq SeenTo'
    BY <1>0, <2>1, <2>2, QueueSees DEF SeenTo
  <2> QED
    BY <1>0, <2>1, <2>3, DiscoverySees
<1> QED
  BY <1>1, <1>2, <1>3

\* A receipt is queued when its payload has been read to the end.
LEMMA BetweenSees ==
  ASSUME IInv, Explained, ResolveApp \/ ListPackages \/ ListPayload \/ PayloadRead \/ Seal \/ Answer
  PROVE  Covered'
<1> USE DEF engine, ghost
<1>0. SeenTo' = SeenTo /\ unlisted \subseteq unlisted' /\ TypeOK
  BY DEF SeenTo, IInv, ResolveApp, ListPackages, ListPayload, PayloadRead, Seal, Answer
<1>1. CASE ListPayload
  <2>1. pkgs' = pkgs /\ forget' = forget
    BY <1>1 DEF ListPayload
  <2>2. todo' = Lists[Head(pkgs)] \/ Head(pkgs) \in unlisted'
    BY <1>1 DEF ListPayload
  <2> QED
    BY <1>0, <2>1, <2>2 DEF Explained, Covered
<1>2. CASE PayloadRead
  <2>1. /\ pc = "claims" /\ todo = <<>> /\ pc' = "list" /\ pkgs # <<>>
        /\ forget' = Append(forget, Head(pkgs)) /\ unlisted' = unlisted
    BY <1>2 DEF PayloadRead, IInv, Counted
  <2>2. Head(pkgs) \in Package
    BY <1>0, <2>1, HeadTailSet DEF TypeOK
  <2>3. SeqSet(forget') = SeqSet(forget) \cup {Head(pkgs)}
    BY <1>0, <2>1, <2>2, AppendSet DEF TypeOK
  <2>4. SeqSet(todo) = {}
    BY <2>1 DEF SeqSet
  <2> QED
    BY <1>0, <2>1, <2>3, <2>4 DEF Explained, Covered
<1>3. CASE ResolveApp \/ ListPackages \/ Seal \/ Answer
  <2>1. forget' = forget /\ pc' # "claims" /\ unlisted' = unlisted
    BY <1>3 DEF ResolveApp, ListPackages, Seal, Answer
  <2> QED
    BY <1>0, <2>1 DEF Explained, Covered
<1> QED
  BY <1>1, <1>2, <1>3

\* Which file or receipt runs.
LEMMA RunningAt ==
  ASSUME IInv, pc \in {"run", "unlink"}
  PROVE  /\ Now \in Nat /\ Len(service) \in Nat /\ Len(files) \in Nat
         /\ \A x : Turn("service", x) => Now <= Len(service)
         /\ \A x : Turn("file", x) => /\ Now <= Len(service) + Len(files)
                                      /\ x = files[Now - Len(service)]
         /\ \A x : Turn("forget", x) => Now > Len(service) + Len(files)
<1>0. /\ TypeOK /\ Len(fate) \in Nat /\ Len(fate) < AllOps
  BY LenProperties DEF IInv, TypeOK, Counted
<1>1. /\ Len(service) \in Nat /\ Len(files) \in Nat /\ Len(forget) \in Nat
      /\ AllOps \in Nat
      /\ \A k \in 1..Len(service) : Ops[k] = [kind |-> "service", of |-> service[k]]
      /\ \A k \in (Len(service) + 1)..(Len(service) + Len(files)) :
           Ops[k] = [kind |-> "file", of |-> files[k - Len(service)]]
      /\ \A k \in (Len(service) + Len(files) + 1)..AllOps :
           Ops[k] = [kind |-> "forget", of |-> forget[k - Len(service) - Len(files)]]
  BY <1>0, PlanOrder
<1>2. Now \in 1..AllOps /\ Now \in Nat
  BY <1>0, <1>1 DEF Now
<1>3. CASE Now <= Len(service)
  <2>1. Ops[Now] = [kind |-> "service", of |-> service[Now]]
    BY <1>1, <1>2, <1>3
  <2> QED
    BY <1>1, <1>2, <1>3, <2>1 DEF Turn
<1>4. CASE ~(Now <= Len(service)) /\ Now <= Len(service) + Len(files)
  <2>1. Ops[Now] = [kind |-> "file", of |-> files[Now - Len(service)]]
    BY <1>1, <1>2, <1>4
  <2> QED
    BY <1>1, <1>2, <1>4, <2>1 DEF Turn
<1>5. CASE ~(Now <= Len(service) + Len(files))
  <2>1. Ops[Now] = [kind |-> "forget", of |-> forget[Now - Len(service) - Len(files)]]
        /\ Now > Len(service) + Len(files)
    BY <1>1, <1>2, <1>5
  <2> QED
    BY <1>1, <1>2, <2>1 DEF Turn
<1> QED
  BY <1>3, <1>4, <1>5

\* An operation settles: a file that is not skipped is gone, a receipt comes last.
LEMMA SettleExplained ==
  ASSUME IInv, Explained, pc \in {"run", "unlink"}, NEW f \in Fates, Settle(f), present' \subseteq present,
         f = "forgotten" => Now > Len(service) + Len(files),
         mode = "trash" /\ Now > Len(service) /\ Now <= Len(service) + Len(files) =>
           \/ f = "skipped"
           \/ LET x == files[Now - Len(service)] IN ({x} \cup In[x]) \cap present' = {}
  PROVE  Explained'
<1> USE DEF engine
<1>0. TypeOK /\ Len(fate) \in Nat /\ Len(service) \in Nat /\ Len(files) \in Nat
  BY LenProperties DEF IInv, TypeOK
<1>1. /\ fate' = Append(fate, f)
      /\ UNCHANGED <<command, mode, todo, pkgs, engine, unseen, unlisted, foreign>>
      /\ pc' \in {"run", "done"}
  BY DEF Settle
<1>2. /\ Len(fate') = Len(fate) + 1
      /\ \A k \in 1..Len(fate) : fate'[k] = fate[k]
      /\ fate'[Len(fate) + 1] = f
  BY <1>0, <1>1, AppendProperties DEF TypeOK
<1>3. Covered'
  BY <1>1 DEF Explained, Covered, SeenTo
<1>4. FilesGone'
  <2> SUFFICES ASSUME mode = "trash", NEW n \in 1..Len(files), Len(service) + n <= Len(fate')
               PROVE  \/ fate'[Len(service) + n] = "skipped"
                      \/ ({files[n]} \cup In[files[n]]) \cap present' \subseteq foreign
    BY <1>1 DEF FilesGone
  <2>1. CASE Len(service) + n = Len(fate) + 1
    <3>1. Now = Len(service) + n /\ Now - Len(service) = n /\ Now > Len(service)
          /\ Now <= Len(service) + Len(files)
      BY <1>0, <2>1 DEF Now
    <3>2. f = "skipped" \/ ({files[n]} \cup In[files[n]]) \cap present' = {}
      BY <3>1
    <3> QED
      BY <1>2, <2>1, <3>2
  <2>2. CASE Len(service) + n # Len(fate) + 1
    <3>1. Len(service) + n <= Len(fate) /\ Len(service) + n \in 1..Len(fate)
      BY <1>0, <1>2, <2>2
    <3>2. \/ fate[Len(service) + n] = "skipped"
          \/ ({files[n]} \cup In[files[n]]) \cap present \subseteq foreign
      BY <3>1 DEF Explained, FilesGone
    <3> QED
      BY <1>2, <3>1, <3>2
  <2> QED
    BY <2>1, <2>2
<1>5. ForgottenLast'
  <2> SUFFICES ASSUME NEW k \in 1..Len(fate'), fate'[k] = "forgotten"
               PROVE  k > Len(service) + Len(files)
    BY <1>1 DEF ForgottenLast
  <2>1. CASE k = Len(fate) + 1
    BY <1>2, <2>1 DEF Now
  <2>2. CASE k # Len(fate) + 1
    <3>1. k \in 1..Len(fate)
      BY <1>0, <1>2, <2>2
    <3> QED
      BY <1>2, <3>1 DEF Explained, ForgottenLast
  <2> QED
    BY <2>1, <2>2
<1> QED
  BY <1>3, <1>4, <1>5 DEF Explained

LEMMA BatchExplained ==
  ASSUME IInv, Explained,
         \/ SkipStale
         \/ \E p \in Package : Forget(p)
         \/ \E i \in Item : Delete(i) \/ DeleteInPart(i) \/ DeleteSkips(i)
         \/ \E j \in Plist : Bootout(j)
  PROVE  Explained'
<1> USE DEF world
<1>0. pc \in {"run", "unlink"} /\ {"skipped", "removed", "unloaded", "forgotten"} \subseteq Fates
  BY DEF SkipStale, Forget, Delete, DeleteInPart, DeleteSkips, Bootout, Runs, Unlinks, Fates
<1>1. CASE SkipStale
  BY <1>0, <1>1, SettleExplained DEF SkipStale
<1>2. ASSUME NEW p \in Package, Forget(p) PROVE Explained'
  <2>1. Now > Len(service) + Len(files) /\ Now \in Nat /\ Len(service) + Len(files) \in Nat
    BY <1>0, <1>2, RunningAt DEF Forget, Runs
  <2>2. ~(Now <= Len(service) + Len(files))
    BY <2>1
  <2>3. present' = present /\ (Settle("forgotten") \/ Settle("skipped"))
    BY <1>2 DEF Forget
  <2> QED
    BY <1>0, <2>1, <2>2, <2>3, SettleExplained
<1>3. ASSUME NEW i \in Item, Delete(i) PROVE Explained'
  <2>1. i = files[Now - Len(service)]
    BY <1>0, <1>3, RunningAt DEF Delete, Runs, Unlinks
  <2>2. present' = present \ ({i} \cup In[i]) /\ Settle("removed")
    BY <1>3 DEF Delete, Gone
  <2>3. ({i} \cup In[i]) \cap present' = {}
    BY <2>2
  <2> QED
    BY <1>0, <2>1, <2>2, <2>3, SettleExplained
<1>4. ASSUME NEW i \in Item, DeleteInPart(i) PROVE Explained'
  <2>1. /\ present' \subseteq present /\ Settle("removed") /\ Turn("file", i)
        /\ mode = "obliterate"
    BY <1>4 DEF DeleteInPart, Unlinks, Gone, IInv, Counted
  <2> QED
    BY <1>0, <2>1, SettleExplained
<1>5. ASSUME NEW i \in Item, DeleteSkips(i) PROVE Explained'
  BY <1>0, <1>5, SettleExplained DEF DeleteSkips
<1>6. ASSUME NEW j \in Plist, Bootout(j) PROVE Explained'
  <2>1. Now <= Len(service) /\ Now \in Nat /\ Len(service) \in Nat
    BY <1>0, <1>6, RunningAt DEF Bootout, Runs
  <2>2. ~(Now > Len(service))
    BY <2>1
  <2>3. present' = present /\ (Settle("unloaded") \/ Settle("skipped"))
    BY <1>6 DEF Bootout
  <2> QED
    BY <1>0, <2>2, <2>3, SettleExplained
<1> QED
  BY <1>1, <1>2, <1>3, <1>4, <1>5, <1>6

LEMMA ExplainedNext == ASSUME IInv, IInv', Explained, [Next]_vars
                       PROVE  Explained'
<1> USE DEF engine, ghost
<1>1. CASE TraceByName \/ AskClaims \/ ScanJob
  <2>1. pc' \notin {"run", "unlink", "done"}
    BY <1>1 DEF TraceByName, AskClaims, ScanJob
  <2> QED
    BY <1>1, <2>1, SearchSees, NothingSettled DEF Explained
<1>2. CASE ResolveApp \/ ListPackages \/ ListPayload \/ PayloadRead \/ Seal \/ Answer
  <2>1. pc' \notin {"run", "unlink", "done"}
    BY <1>2 DEF ResolveApp, ListPackages, ListPayload, PayloadRead, Seal, Answer
  <2> QED
    BY <1>2, <2>1, BetweenSees, NothingSettled DEF Explained
<1>3. CASE \/ SkipStale
           \/ \E p \in Package : Forget(p)
           \/ \E i \in Item : Delete(i) \/ DeleteInPart(i) \/ DeleteSkips(i)
           \/ \E j \in Plist : Bootout(j)
  BY <1>3, BatchExplained
<1>4. CASE \/ Check \/ (\E i \in Item : Verify(i)) \/ UNCHANGED vars
           \/ \E i \in Item : OtherRemoves(i) \/ OtherWrites(i)
           \/ \E j \in Plist : OtherLoads(j)
  <2>1. /\ UNCHANGED <<mode, todo, pkgs, engine, fate, unseen, unlisted>>
        /\ pc' = "claims" => pc = "claims"
        /\ foreign \subseteq foreign' /\ present' \subseteq present \cup foreign'
    BY <1>4 DEF Check, Verify, OtherRemoves, OtherWrites, OtherLoads, vars, world
  <2>2. Covered'
    BY <2>1 DEF Explained, Covered, SeenTo
  <2>3. FilesGone' /\ ForgottenLast'
    BY <2>1 DEF Explained, FilesGone, ForgottenLast
  <2> QED
    BY <2>2, <2>3 DEF Explained
<1> QED
  BY <1>1, <1>2, <1>3, <1>4 DEF Next

LEMMA ExplainedAlways == Spec => [](IInv /\ Explained)
<1>1. Init => Explained
  <2> SUFFICES ASSUME Init PROVE Explained
    OBVIOUS
  <2>1. fate = <<>> /\ forget = <<>> /\ pc # "claims" /\ files = <<>> /\ Len(<<>>) = 0
    BY DEF Init
  <2>2. SeqSet(forget) = {} /\ 1..Len(files) = {} /\ 1..Len(fate) = {}
    BY <2>1 DEF SeqSet
  <2> QED
    BY <2>1, <2>2 DEF Explained, Covered, FilesGone, ForgottenLast
<1>2. IInv /\ Explained /\ [Next]_vars => IInv' /\ Explained'
  BY Inductive, ExplainedNext
<1> QED
  BY <1>1, <1>2, InitIInv, PTL DEF Spec

\* Of a package whose receipt is forgotten nothing stays without a word, for any
\* packages and payloads: it was retained, not to be seen, skipped, left in part by
\* obliterate, or brought by others (Plan: receipts after files).
THEOREM NothingLeftUnexplained == Spec => []ForgottenIsExplained
<1>1. IInv /\ Explained => ForgottenIsExplained
  <2> SUFFICES ASSUME IInv, Explained, NEW k \in DOMAIN fate, fate[k] = "forgotten",
                      NEW i \in SeqSet(Lists[Ops[k].of]) \cap present,
                      i \notin retained, i \notin unseen, i \notin foreign,
                      Ops[k].of \notin unlisted
               PROVE  \E n \in DOMAIN fate :
                        /\ Ops[n].kind = "file" /\ i \in {Ops[n].of} \cup In[Ops[n].of]
                        /\ fate[n] = "skipped" \/ mode = "obliterate"
    BY DEF ForgottenIsExplained
  <2>0. /\ TypeOK /\ DOMAIN fate = 1..Len(fate) /\ Len(fate) \in Nat /\ Len(fate) <= AllOps
        /\ Len(service) \in Nat /\ Len(files) \in Nat /\ Len(forget) \in Nat /\ AllOps \in Nat
        /\ AllOps = Len(service) + Len(files) + Len(forget)
    BY LenProperties, PlanOrder DEF IInv, TypeOK, Counted, AllOps
  <2>1. k > Len(service) + Len(files) /\ k \in 1..Len(fate)
    BY <2>0 DEF Explained, ForgottenLast
  <2>2. Ops[k].of \in SeqSet(forget)
    <3>1. /\ k \in (Len(service) + Len(files) + 1)..AllOps
          /\ k - Len(service) - Len(files) \in 1..Len(forget)
      BY <2>0, <2>1
    <3> DEFINE j == k - Len(service) - Len(files)
    <3>2. Ops[k] = [kind |-> "forget", of |-> forget[j]]
      BY <2>0, <3>1, PlanOrder
    <3>3. Ops[k].of = forget[j]
      BY <3>2
    <3>4. forget[j] \in SeqSet(forget)
      BY <3>1 DEF SeqSet
    <3> QED
      BY <3>3, <3>4
  <2>3. i \in SeqSet(files)
    BY <2>2 DEF Explained, Covered, SeenTo
  <2>4. PICK n \in 1..Len(files) : i = files[n]
    BY <2>0, <2>3, InSeqSet DEF TypeOK
  <2> DEFINE m == Len(service) + n
  <2>5. m \in DOMAIN fate /\ m <= Len(fate) /\ m \in (Len(service) + 1)..(Len(service) + Len(files))
        /\ m - Len(service) = n
    BY <2>0, <2>1
  <2>6. Ops[m] = [kind |-> "file", of |-> i]
    BY <2>0, <2>4, <2>5, PlanOrder
  <2>7. fate[m] = "skipped" \/ mode = "obliterate"
    BY <2>0, <2>4, <2>5 DEF Explained, FilesGone, TypeOK
  <2> QED
    BY <2>5, <2>6, <2>7
<1> QED
  BY <1>1, ExplainedAlways, PTL

-----------------------------------------------------------------------------
(* The plan of `suns nuke` and `suns orphans` is what executes: the phases  *)
(* of PlanPromise are the positions of the process, the plan is bootouts,   *)
(* files and receipts in this order, and the effect is the paths that went, *)
(* the receipts that are left, and the jobs wrongly taken for unloaded.     *)
(* (What launchd has loaded is others' to change as well.)                  *)
PlanPhase ==
  CASE pc \in Discovery        -> "finding"
    [] pc = "gate"             -> "asking"
    [] pc \in {"check", "run", "unlink"} -> "approved"
    [] pc = "done"             -> "done"
    [] pc = "declined"         -> "stopped"

Plan == INSTANCE PlanPromise
          WITH phase <- PlanPhase, plan <- Ops, effect <- <<took, installed, notOut>>

LEMMA PlanInit == Init => Plan!Init
BY DEF Init, Plan!Init, PlanPhase, Discovery

\* Every operation settles in its turn.
LEMMA PlanTurn ==
  ASSUME IInv, SkipStale \/ (\E p \in Package : Forget(p))
               \/ (\E i \in Item : Delete(i) \/ DeleteInPart(i) \/ DeleteSkips(i))
               \/ (\E j \in Plist : Bootout(j))
  PROVE  Plan!Refuse \/ Plan!Act
<1>0. TypeOK /\ Len(Ops) = AllOps
  BY PlanOrder DEF IInv
<1>1. /\ pc \in {"run", "unlink"} /\ Len(verdict) = AllOps /\ Len(fate) < AllOps
      /\ \E f \in Fates : Settle(f)
  BY DEF IInv, Counted, SkipStale, Forget, Delete, DeleteInPart, DeleteSkips, Bootout, Runs,
         Unlinks, Fates
<1>2. /\ UNCHANGED <<engine, verdict>> /\ \E f \in Fates : fate' = Append(fate, f)
      /\ pc' = "run" \/ (pc' = "done" /\ Len(fate') = Len(Ops))
  BY <1>1 DEF Settle
<1>3. UNCHANGED <<Ops, verdict>>
  BY <1>2 DEF Ops, engine
<1>4. \/ verdict[Now] = FALSE /\ fate' = Append(fate, "skipped") /\ UNCHANGED <<took, installed, notOut>>
      \/ verdict[Now] = TRUE
  <2>1. Now \in 1..Len(verdict)
    BY <1>0, <1>1, PlanOrder, LenProperties DEF Now, TypeOK
  <2>2. verdict[Now] \in BOOLEAN
    BY <1>0, <2>1, ElementOfSeq DEF TypeOK
  <2> QED
    BY <2>2 DEF SkipStale, Settle, Forget, Delete, DeleteInPart, DeleteSkips, Bootout, Runs,
                Unlinks, Turn, world
<1>5. PlanPhase = "approved" /\ PlanPhase' \in {"approved", "done"}
      /\ (PlanPhase' = "done" => Len(fate') = Len(Ops))
  BY <1>1, <1>2 DEF PlanPhase, Discovery
<1> QED
  BY <1>0, <1>1, <1>2, <1>3, <1>4, <1>5 DEF Now, Plan!Refuse, Plan!Act, Plan!Turn

LEMMA PlanStep == IInv /\ [Next]_vars => [Plan!Next]_Plan!vars
<1> SUFFICES ASSUME IInv, [Next]_vars PROVE [Plan!Next]_Plan!vars
  OBVIOUS
<1> USE DEF engine, world, ghost
<1>0. TypeOK /\ Counted /\ Len(Ops) = AllOps
  BY PlanOrder DEF IInv
<1>1. CASE ResolveApp \/ TraceByName \/ ListPackages \/ ListPayload \/ AskClaims
             \/ PayloadRead \/ ScanJob \/ Seal
  <2>1. /\ UNCHANGED <<verdict, fate, took, installed, notOut>> /\ pc \in Discovery
        /\ pc' \in Discovery \cup {"gate", "declined"}
    BY <1>1 DEF ResolveApp, TraceByName, ListPackages, ListPayload, AskClaims, PayloadRead,
                ScanJob, Seal, Discovery
  <2> QED
    BY <2>1 DEF PlanPhase, Discovery, Plan!Next, Plan!Find, Plan!Stop
<1>2. CASE Answer
  <2>1. UNCHANGED <<Ops, verdict, fate, took, installed, notOut>> /\ pc = "gate" /\ pc' \in {"check", "declined"}
    BY <1>2 DEF Answer, Ops
  <2> QED
    BY <2>1 DEF PlanPhase, Discovery, Plan!Next, Plan!Approve, Plan!Stop
<1>3. CASE Check
  <2>1. PICK readable \in BOOLEAN :
          verdict' = Append(verdict, readable /\ CASE Ops[Len(verdict) + 1].kind = "service" ->
                                         Ops[Len(verdict) + 1].of \in present
                          [] Ops[Len(verdict) + 1].kind = "file" ->
                                         Ops[Len(verdict) + 1].of \in present \cap same
                          [] Ops[Len(verdict) + 1].kind = "forget" ->
                                         Ops[Len(verdict) + 1].of \in installed)
    BY <1>3 DEF Check
  <2>2. \E valid \in BOOLEAN : verdict' = Append(verdict, valid)
    BY <2>1, Zenon
  <2>3. /\ UNCHANGED <<Ops, fate, took, installed, notOut>> /\ pc = "check" /\ pc' \in {"check", "run"}
        /\ Len(verdict) < Len(Ops)
    BY <1>0, <1>3 DEF Check, Counted, Ops
  <2> QED
    BY <2>2, <2>3 DEF PlanPhase, Discovery, Plan!Next, Plan!Check
<1>4. CASE \/ SkipStale
           \/ \E p \in Package : Forget(p)
           \/ \E i \in Item : Delete(i) \/ DeleteInPart(i) \/ DeleteSkips(i)
           \/ \E j \in Plist : Bootout(j)
  BY <1>4, PlanTurn DEF Plan!Next
<1>5. CASE \/ UNCHANGED vars
           \/ \E i \in Item : OtherRemoves(i) \/ OtherWrites(i)
           \/ \E j \in Plist : OtherLoads(j)
  <2>1. UNCHANGED <<pc, Ops, verdict, fate, took, installed, notOut>>
    BY <1>5 DEF OtherRemoves, OtherWrites, OtherLoads, vars, Ops
  <2> QED
    BY <2>1 DEF PlanPhase, Plan!vars
<1>6. CASE \E i \in Item : Verify(i)
  BY <1>6 DEF Verify, Runs, Ops, PlanPhase, Discovery, Plan!vars
<1> QED
  BY <1>1, <1>2, <1>3, <1>4, <1>5, <1>6 DEF Next

(* Nothing is removed, booted out or forgotten but what was shown, approved  *)
(* and found unchanged by a check made before the first operation acts, each *)
(* operation in its turn (safety.Execute, called by nuke.go and orphans.go). *)
THEOREM PlanKept == Spec => Plan!Spec
BY PlanInit, PlanStep, Always, PTL DEF Spec, Plan!Spec

-----------------------------------------------------------------------------
(* The command ends by itself.  Every one of its own steps leaves less to   *)
(* do: a later stage, or fewer receipts to look at, or a payload asked for, *)
(* or fewer paths or operations, in this order of importance.               *)
Stage ==
  CASE pc = "resolve"                  -> 6
    [] pc = "trace"                    -> 5
    [] pc \in {"list", "claims", "jobs"} -> 4
    [] pc = "gate"                     -> 3
    [] pc = "check"                    -> 2
    [] pc \in {"run", "unlink"}        -> 1
    [] pc \in {"done", "declined"}     -> 0

Unread == IF pc = "list" THEN 1 ELSE 0

InHand ==
  CASE pc = "check"  -> AllOps - Len(verdict)
    [] pc = "run"    -> 2 * (AllOps - Len(fate))
    [] pc = "unlink" -> 2 * (AllOps - Len(fate)) - 1
    [] OTHER         -> Len(todo)

LessToDo ==
  \/ Stage' < Stage
  \/ Stage' = Stage /\ Len(pkgs') < Len(pkgs)
  \/ Stage' = Stage /\ pkgs' = pkgs /\ Unread' < Unread
  \/ Stage' = Stage /\ pkgs' = pkgs /\ Unread' = Unread /\ InHand' < InHand

Own == \/ ResolveApp \/ TraceByName \/ ListPackages \/ ListPayload \/ AskClaims
       \/ PayloadRead \/ ScanJob \/ Seal \/ Answer \/ Check
       \/ SkipStale
       \/ \E p \in Package : Forget(p)
       \/ \E i \in Item : Verify(i) \/ Delete(i) \/ DeleteInPart(i) \/ DeleteSkips(i)
       \/ \E j \in Plist : Bootout(j)

Advances ==
  /\ Own => LessToDo
  /\ ~Own => UNCHANGED <<Stage, pkgs, Unread, InHand>>

LeftCounted ==
  Stage \in 0..6 /\ Len(pkgs) \in Nat /\ Unread \in 0..1 /\ InHand \in Nat

Staged ==
  /\ pc = "resolve" => Stage = 6 /\ Unread = 0 /\ InHand = Len(todo)
  /\ pc = "trace" => Stage = 5 /\ Unread = 0 /\ InHand = Len(todo)
  /\ pc = "list" => Stage = 4 /\ Unread = 1 /\ InHand = Len(todo)
  /\ pc \in {"claims", "jobs"} => Stage = 4 /\ Unread = 0 /\ InHand = Len(todo)
  /\ pc = "gate" => Stage = 3 /\ Unread = 0 /\ InHand = Len(todo)
  /\ pc = "check" => Stage = 2 /\ Unread = 0 /\ InHand = AllOps - Len(verdict)
  /\ pc = "run" => Stage = 1 /\ Unread = 0 /\ InHand = 2 * (AllOps - Len(fate))
  /\ pc = "unlink" => Stage = 1 /\ Unread = 0 /\ InHand = 2 * (AllOps - Len(fate)) - 1
  /\ pc \in {"done", "declined"} => Stage = 0 /\ Unread = 0 /\ InHand = Len(todo)

LEMMA StagesKnown == Staged /\ Staged'
<1>1. Staged
  BY DEF Staged, Stage, Unread, InHand
<1>2. Staged'
  BY DEF Staged, Stage, Unread, InHand
<1> QED
  BY <1>1, <1>2

LEMMA WhatIsLeft == IInv => LeftCounted
<1> SUFFICES ASSUME IInv PROVE LeftCounted
  OBVIOUS
<1>1. /\ Len(todo) \in Nat /\ Len(pkgs) \in Nat /\ Len(verdict) \in Nat /\ Len(fate) \in Nat
      /\ AllOps \in Nat /\ pc \in Steps /\ Counted
  BY PlanOrder, LenProperties DEF IInv, TypeOK
<1> QED
  BY <1>1, StagesKnown DEF Staged, Steps, Counted, LeftCounted

\* Discovery passes to a later stage, to another receipt, or to the next path.
LEMMA DiscoveryAdvances ==
  ASSUME IInv, ResolveApp \/ TraceByName \/ ListPackages \/ ListPayload \/ AskClaims
               \/ PayloadRead \/ ScanJob \/ Seal \/ Answer
  PROVE  LessToDo
<1>0. TypeOK /\ Counted
  BY DEF IInv
<1>1. ASSUME NEW S, NEW s \in Seq(S), s # <<>>
      PROVE  Len(s) \in Nat /\ Len(Tail(s)) \in Nat /\ Len(Tail(s)) < Len(s)
  BY <1>1, HeadTailProperties, LenProperties, EmptySeq
<1>2. CASE ResolveApp \/ ListPackages \/ Seal \/ Answer
  <2>1. \/ pc = "resolve" /\ pc' \in {"trace", "declined"}
        \/ pc = "trace" /\ pc' = "list"
        \/ pc \in {"list", "jobs"} /\ pc' \in {"gate", "declined"}
        \/ pc = "gate" /\ pc' \in {"check", "declined"}
    BY <1>2 DEF ResolveApp, ListPackages, Seal, Answer
  <2>2. Stage' < Stage
    BY <2>1, StagesKnown DEF Staged
  <2> QED
    BY <2>2 DEF LessToDo
<1>3. CASE TraceByName \/ AskClaims \/ ScanJob
  <2>1. /\ pc \in {"trace", "claims", "jobs"} /\ UNCHANGED <<pc, pkgs>>
        /\ todo # <<>> /\ todo' = Tail(todo)
    BY <1>3 DEF TraceByName, AskClaims, ScanJob
  <2>2. Len(todo') < Len(todo)
    BY <1>0, <1>1, <2>1 DEF TypeOK
  <2>3. Stage' = Stage /\ Unread' = Unread /\ InHand = Len(todo) /\ InHand' = Len(todo')
    BY <2>1, StagesKnown DEF Staged
  <2> QED
    BY <2>1, <2>2, <2>3 DEF LessToDo
<1>4. CASE ListPayload
  <2>1. pc = "list" /\ pc' = "claims" /\ pkgs' = pkgs
    BY <1>4 DEF ListPayload
  <2>2. Stage' = Stage /\ Unread' < Unread
    BY <2>1, StagesKnown DEF Staged
  <2> QED
    BY <2>1, <2>2 DEF LessToDo
<1>5. CASE PayloadRead
  <2>1. pc = "claims" /\ pc' = "list" /\ pkgs # <<>> /\ pkgs' = Tail(pkgs)
    BY <1>0, <1>5 DEF PayloadRead, Counted
  <2>2. Stage' = Stage
    BY <2>1, StagesKnown DEF Staged
  <2>3. Len(pkgs') < Len(pkgs)
    BY <1>0, <1>1, <2>1 DEF TypeOK
  <2> QED
    BY <2>2, <2>3 DEF LessToDo
<1> QED
  BY <1>2, <1>3, <1>4, <1>5

\* Each check and each operation is one less.
LEMMA BatchAdvances ==
  ASSUME IInv, \/ Check \/ SkipStale
               \/ \E p \in Package : Forget(p)
               \/ \E i \in Item : Delete(i) \/ DeleteInPart(i) \/ DeleteSkips(i)
               \/ \E j \in Plist : Bootout(j)
  PROVE  LessToDo
<1>0. /\ verdict \in Seq(BOOLEAN) /\ fate \in Seq(Fates) /\ AllOps \in Nat
      /\ Len(verdict) \in Nat /\ Len(fate) \in Nat
  BY PlanOrder, LenProperties DEF IInv, TypeOK
<1>1. CASE Check
  <2>1. /\ pc = "check" /\ pc' \in {"check", "run"} /\ UNCHANGED <<engine, pkgs>>
        /\ \E v : verdict' = Append(verdict, v)
    BY <1>1 DEF Check
  <2>2. Len(verdict') = Len(verdict) + 1 /\ AllOps' = AllOps
    BY <1>0, <2>1 DEF AllOps, engine
  <2>3. CASE pc' = "run"
    BY <2>1, <2>3, StagesKnown DEF Staged, LessToDo
  <2>4. CASE pc' = "check"
    <3>1. /\ Stage' = Stage /\ Unread' = Unread
          /\ InHand = AllOps - Len(verdict) /\ InHand' = AllOps - (Len(verdict) + 1)
      BY <2>1, <2>2, <2>4, StagesKnown DEF Staged
    <3> QED
      BY <1>0, <2>1, <3>1 DEF LessToDo
  <2> QED
    BY <2>1, <2>3, <2>4
<1>2. CASE ~Check
  <2>1. pc \in {"run", "unlink"} /\ \E f \in Fates : Settle(f)
    BY <1>2 DEF SkipStale, Forget, Delete, DeleteInPart, DeleteSkips, Bootout, Runs, Unlinks, Fates
  <2>2. /\ pc' \in {"run", "done"} /\ UNCHANGED <<engine, pkgs>>
        /\ \E f \in Fates : fate' = Append(fate, f)
    BY <2>1 DEF Settle
  <2>3. Len(fate') = Len(fate) + 1 /\ AllOps' = AllOps
    BY <1>0, <2>2 DEF AllOps, engine
  <2>4. CASE pc' = "done"
    BY <2>1, <2>4, StagesKnown DEF Staged, LessToDo
  <2>5. CASE pc' = "run"
    <3>1. /\ Stage' = Stage /\ Unread' = Unread
          /\ InHand \in {2 * (AllOps - Len(fate)), 2 * (AllOps - Len(fate)) - 1}
          /\ InHand' = 2 * (AllOps - (Len(fate) + 1))
      BY <2>1, <2>3, <2>5, StagesKnown DEF Staged
    <3> QED
      BY <1>0, <2>2, <3>1 DEF LessToDo
  <2> QED
    BY <2>2, <2>4, <2>5
<1> QED
  BY <1>1, <1>2

LEMMA VerifyAdvances == ASSUME IInv, NEW i \in Item, Verify(i)
                        PROVE  LessToDo
<1>1. pc = "run" /\ pc' = "unlink" /\ UNCHANGED <<engine, pkgs, fate>>
  BY DEF Verify, Runs
<1>2. AllOps \in Nat /\ Len(fate) \in Nat /\ AllOps' = AllOps
  BY <1>1, PlanOrder, LenProperties DEF IInv, TypeOK, AllOps, engine
<1>3. /\ Stage' = Stage /\ Unread' = Unread
      /\ InHand = 2 * (AllOps - Len(fate)) /\ InHand' = 2 * (AllOps - Len(fate)) - 1
  BY <1>1, <1>2, StagesKnown DEF Staged
<1> QED
  BY <1>1, <1>2, <1>3 DEF LessToDo

LEMMA StepAdvances == ASSUME IInv, [Next]_vars PROVE Advances
<1>1. ASSUME Own PROVE LessToDo
  BY <1>1, DiscoveryAdvances, BatchAdvances, VerifyAdvances DEF Own
<1>2. ASSUME ~Own PROVE UNCHANGED <<Stage, pkgs, Unread, InHand>>
  <2>1. UNCHANGED <<pc, engine, todo, pkgs, verdict, fate>>
    BY <1>2 DEF Own, Next, OtherRemoves, OtherWrites, OtherLoads, vars
  <2> QED
    BY <2>1 DEF Stage, Unread, InHand, AllOps, engine
<1> QED
  BY <1>1, <1>2 DEF Advances

(* Neither command goes round in circles: each question to pkgutil, each     *)
(* check and each operation leaves less to do, whatever fails and whatever   *)
(* other programs do, which leaves it as it was (tracePackages looks at each *)
(* receipt once and at each path of its payload once, Execute at each        *)
(* operation once).  The four counts are natural numbers and LessToDo is     *)
(* their lexicographic order, so the steps come to an end.                   *)
THEOREM SearchIsFinite == Spec => []LeftCounted /\ [][Advances]_vars
<1>1. IInv /\ [Next]_vars => [Advances]_vars
  BY StepAdvances
<1> QED
  BY <1>1, WhatIsLeft, Always, PTL DEF Spec

-----------------------------------------------------------------------------
(* The other client of launchd: the agent of `suns schedule`, whose plist   *)
(* and whose job install, uninstall and logins keep in step, for any number *)
(* of terminals, commands and troubles, and any hours.                      *)
CONSTANTS Terminal, Hour, None, Torn, MaxCommands
VARIABLES step, typed, hour, saw, said, plist, agent, commands, mishaps, crossed, deaf

Agent == INSTANCE Schedule WITH pc <- step, command <- typed, troubles <- mishaps

AgentConstants == Agent!HourAssumption /\ Agent!BoundAssumption

\* TypeOK with the two fields a command brings.
AgentTyped ==
  /\ AgentConstants /\ Agent!TypeOK
  /\ typed \in [Terminal -> {"install", "uninstall", "status"}]
  /\ hour \in [Terminal -> Hour \cup {0}]

\* What a command nobody crossed may rely on at its next step.
OnCourse(t) ==
  /\ step[t] = "bootout" /\ typed[t] = "install" => plist = Agent!Clamp(hour[t])
  /\ step[t] = "bootstrap" => plist = Agent!Clamp(hour[t])
  /\ step[t] = "remove" => agent = None \/ t \in deaf
  /\ step[t] # "idle" => said[t] = "nothing"
  /\ said[t] = "installed" => plist = Agent!Clamp(hour[t]) /\ agent = plist
  /\ said[t] = "removed" => plist = None /\ (agent = None \/ t \in deaf)

Courses == \A t \in Terminal \ crossed : OnCourse(t)
AgentInv == AgentTyped /\ Courses

AgentStep(t) ==
  \/ Agent!Type(t) \/ Agent!Truncate(t) \/ Agent!Fill(t) \/ Agent!Bootout(t)
  \/ Agent!Bootstrap(t) \/ Agent!Remove(t) \/ Agent!Stat(t) \/ Agent!PrintStatus(t)
  \/ Agent!Killed(t)

\* A clamped hour is an hour.
LEMMA ClampRange ==
  ASSUME AgentConstants, NEW h \in Hour \cup {0}
  PROVE  Agent!Clamp(h) \in 0..23
BY SMT DEF AgentConstants, Agent!HourAssumption, Agent!Clamp

\* Neither absence nor a plist cut short is an hour.
LEMMA NoHour ==
  ASSUME AgentConstants PROVE None \notin 0..23 /\ Torn \notin 0..23 /\ None # Torn
BY SMT DEF AgentConstants, Agent!HourAssumption

LEMMA AgentInitTyped == ASSUME AgentConstants, Agent!Init PROVE AgentTyped
<1>1. plist \in (0..23) \cup {None}
  BY ClampRange DEF Agent!Init
<1>2. commands \in 0..MaxCommands /\ mishaps \in 0..MaxTrouble
  BY SMT DEF AgentConstants, Agent!BoundAssumption, Agent!Init
<1> QED
  BY <1>1, <1>2 DEF Agent!Init, AgentTyped, Agent!TypeOK

\* Types along a step of a command.
LEMMA StepTyped == ASSUME AgentTyped, NEW t \in Terminal, AgentStep(t)
                   PROVE  AgentTyped'
<1> USE DEF AgentTyped, Agent!TypeOK, Agent!Goes, Agent!Ends, Agent!Others, Agent!Changes
<1>h. Agent!Clamp(hour[t]) \in 0..23
  BY ClampRange
<1>t. ASSUME Agent!Well \/ Agent!Trouble PROVE mishaps' \in 0..MaxTrouble
  BY <1>t, SMT DEF AgentConstants, Agent!BoundAssumption, Agent!Well, Agent!Trouble
<1>1. CASE Agent!Type(t)
  <2>1. commands' \in 0..MaxCommands
    BY <1>1, SMT DEF AgentConstants, Agent!BoundAssumption, Agent!Type
  <2> QED
    BY <1>1, <2>1 DEF Agent!Type
<1>2. CASE Agent!Truncate(t)
  BY <1>2, <1>t DEF Agent!Truncate
<1>3. CASE Agent!Fill(t)
  BY <1>3, <1>t, <1>h DEF Agent!Fill
<1>4. CASE Agent!Bootout(t)
  BY <1>4, <1>t DEF Agent!Bootout, Agent!AfterBootout
<1>5. CASE Agent!Bootstrap(t)
  BY <1>5, <1>t DEF Agent!Bootstrap, Agent!Loadable
<1>6. CASE Agent!Remove(t)
  BY <1>6, <1>t DEF Agent!Remove
<1>7. CASE Agent!Stat(t)
  BY <1>7 DEF Agent!Stat
<1>8. CASE Agent!PrintStatus(t)
  BY <1>8, <1>t DEF Agent!PrintStatus
<1>9. CASE Agent!Killed(t)
  BY <1>9, <1>t DEF Agent!Killed
<1> QED
  BY <1>1, <1>2, <1>3, <1>4, <1>5, <1>6, <1>7, <1>8, <1>9 DEF AgentStep

LEMMA LoginTyped == ASSUME AgentTyped, Agent!Login
                    PROVE  AgentTyped'
<1>1. mishaps' \in 0..MaxTrouble
  BY SMT DEF AgentConstants, Agent!BoundAssumption, AgentTyped, Agent!TypeOK, Agent!Login,
             Agent!Trouble
<1> QED
  BY <1>1 DEF AgentTyped, Agent!TypeOK, Agent!Login, Agent!process

\* The command that takes the step stays on its course.
LEMMA OwnCourse == ASSUME AgentInv, NEW t \in Terminal, AgentStep(t), t \notin crossed'
                   PROVE  OnCourse(t)'
<1> USE DEF AgentInv, AgentTyped, Agent!TypeOK, OnCourse, Agent!Goes, Agent!Ends, Agent!Others,
            Agent!Changes
<1>1. CASE Agent!Type(t)
  BY <1>1 DEF Agent!Type
<1>c. ASSUME ~Agent!Type(t) PROVE t \notin crossed /\ OnCourse(t)
  <2>1. t \notin crossed
    BY <1>c DEF AgentStep, Agent!Truncate, Agent!Fill, Agent!Bootout, Agent!Bootstrap,
                Agent!Remove, Agent!Stat, Agent!PrintStatus, Agent!Killed
  <2> QED
    BY <2>1 DEF Courses
<1>2. CASE ~Agent!Type(t) /\ Agent!Truncate(t)
  BY <1>2, <1>c DEF Agent!Truncate
<1>3. CASE ~Agent!Type(t) /\ Agent!Fill(t)
  BY <1>3, <1>c DEF Agent!Fill
<1>4. CASE ~Agent!Type(t) /\ Agent!Bootout(t)
  BY <1>4, <1>c DEF Agent!Bootout, Agent!AfterBootout
<1>5. CASE ~Agent!Type(t) /\ Agent!Bootstrap(t)
  BY <1>5, <1>c DEF Agent!Bootstrap
<1>6. CASE ~Agent!Type(t) /\ Agent!Remove(t)
  BY <1>6, <1>c DEF Agent!Remove
<1>7. CASE ~Agent!Type(t) /\ Agent!Stat(t)
  BY <1>7, <1>c DEF Agent!Stat
<1>8. CASE ~Agent!Type(t) /\ Agent!PrintStatus(t)
  BY <1>8, <1>c DEF Agent!PrintStatus
<1>9. CASE ~Agent!Type(t) /\ Agent!Killed(t)
  BY <1>9, <1>c DEF Agent!Killed
<1> QED
  BY <1>1, <1>2, <1>3, <1>4, <1>5, <1>6, <1>7, <1>8, <1>9 DEF AgentStep

\* A step of t changes nothing of another command, and neither plist nor agent
\* unless it crosses that command.
LEMMA OthersUntouched ==
  ASSUME AgentTyped, NEW t \in Terminal, AgentStep(t), NEW u \in Terminal \ {t}, u \notin crossed'
  PROVE  /\ u \notin crossed /\ plist' = plist /\ agent' = agent
         /\ step'[u] = step[u] /\ typed'[u] = typed[u] /\ hour'[u] = hour[u]
         /\ said'[u] = said[u] /\ (u \in deaf' <=> u \in deaf)
<1> USE DEF AgentTyped, Agent!TypeOK, Agent!Goes, Agent!Ends, Agent!Others, Agent!Changes
<1>1. CASE Agent!Type(t)
  BY <1>1 DEF Agent!Type
<1>2. CASE Agent!Truncate(t)
  BY <1>2 DEF Agent!Truncate
<1>3. CASE Agent!Fill(t)
  BY <1>3 DEF Agent!Fill
<1>4. CASE Agent!Bootout(t)
  BY <1>4 DEF Agent!Bootout
<1>5. CASE Agent!Bootstrap(t)
  BY <1>5 DEF Agent!Bootstrap
<1>6. CASE Agent!Remove(t)
  BY <1>6 DEF Agent!Remove
<1>7. CASE Agent!Stat(t)
  BY <1>7 DEF Agent!Stat
<1>8. CASE Agent!PrintStatus(t)
  BY <1>8 DEF Agent!PrintStatus
<1>9. CASE Agent!Killed(t)
  BY <1>9 DEF Agent!Killed
<1> QED
  BY <1>1, <1>2, <1>3, <1>4, <1>5, <1>6, <1>7, <1>8, <1>9 DEF AgentStep

\* A login brings the agent in step with the plist, so it confirms what was said.
LEMMA LoginCourse == ASSUME AgentInv, Agent!Login
                     PROVE  Courses'
<1> SUFFICES ASSUME NEW u \in Terminal \ crossed' PROVE OnCourse(u)'
  BY DEF Courses
<1>1. step[u] = "idle" /\ u \notin crossed /\ OnCourse(u)
  BY DEF AgentInv, Courses, Agent!Login
<1>2. Agent!Clamp(hour[u]) \in 0..23
  BY ClampRange DEF AgentInv, AgentTyped
<1>3. None \notin 0..23 /\ Torn \notin 0..23 /\ None # Torn
  BY NoHour DEF AgentInv, AgentTyped
<1> QED
  BY <1>1, <1>2, <1>3 DEF OnCourse, Agent!Login, Agent!process, Agent!Clamp

\* The invariant is inductive.
LEMMA AgentInductive == AgentInv /\ [Agent!Next]_(Agent!vars) => AgentInv'
<1> SUFFICES ASSUME AgentInv, [Agent!Next]_(Agent!vars) PROVE AgentInv'
  OBVIOUS
<1>1. ASSUME NEW t \in Terminal, AgentStep(t) PROVE AgentInv'
  <2>1. AgentTyped'
    BY <1>1, StepTyped DEF AgentInv
  <2>2. ASSUME NEW u \in Terminal \ crossed' PROVE OnCourse(u)'
    <3>1. CASE u = t
      BY <1>1, <3>1, OwnCourse
    <3>2. CASE u # t
      <4>1. u \notin crossed /\ OnCourse(u)
        BY <1>1, <3>2, OthersUntouched DEF AgentInv, Courses
      <4> QED
        BY <1>1, <3>2, <4>1, OthersUntouched DEF AgentInv, OnCourse, Agent!Clamp
    <3> QED
      BY <3>1, <3>2
  <2> QED
    BY <2>1, <2>2 DEF AgentInv, Courses
<1>2. CASE Agent!Login
  BY <1>2, LoginTyped, LoginCourse DEF AgentInv
<1>3. CASE UNCHANGED Agent!vars
  BY <1>3 DEF Agent!vars, Agent!process, AgentInv, AgentTyped, Agent!TypeOK, Courses, OnCourse,
              Agent!Clamp
<1> QED
  BY <1>1, <1>2, <1>3 DEF Agent!Next, AgentStep

LEMMA AgentAlways == ASSUME AgentConstants PROVE Agent!Spec => []AgentInv
<1>1. Agent!Init => AgentInv
  <2>1. Agent!Init => Courses
    BY DEF Agent!Init, Courses, OnCourse
  <2> QED
    BY <2>1, AgentInitTyped DEF AgentInv
<1> QED
  BY <1>1, AgentInductive, PTL DEF Agent!Spec

(* Every variable keeps its type: clamped hours, counted commands           *)
(* (scheduler.go).                                                          *)
THEOREM AgentTypeCorrect ==
  ASSUME Agent!HourAssumption, Agent!BoundAssumption
  PROVE  Agent!Spec => []Agent!TypeOK
<1>1. AgentInv => Agent!TypeOK
  BY DEF AgentInv, AgentTyped
<1>2. AgentConstants
  BY DEF AgentConstants
<1> QED
  BY <1>1, <1>2, AgentAlways, PTL

(* "Installed and loaded" and "removed" are true of plist and agent until   *)
(* another command crosses, also over failures of launchctl that go         *)
(* unnoticed, over commands that are killed and over logins (Install,       *)
(* Uninstall of scheduler.go).                                              *)
THEOREM SaidIsAlwaysSo ==
  ASSUME Agent!HourAssumption, Agent!BoundAssumption
  PROVE  Agent!Spec => []Agent!SaidIsSo
<1>1. AgentInv => Agent!SaidIsSo
  BY DEF AgentInv, Courses, OnCourse, Agent!SaidIsSo
<1>2. AgentConstants
  BY DEF AgentConstants
<1> QED
  BY <1>1, <1>2, AgentAlways, PTL
==============================================================================
