---------------------------- MODULE BackupProofs ----------------------------
(***************************************************************************)
(* The daily snapshot for any number of days, crashes, faults and clock    *)
(* changes and any values of --backup-keep-days: the snapshots that count  *)
(* are exact unless they were spoiled while they were copied, pruning      *)
(* leaves enough of them, and a daemon that serves has its safety net.     *)
(***************************************************************************)
EXTENDS Backup, FiniteSetTheorems, FunctionTheorems, WellFoundedInduction, TLAPS

Copying == CopySteps \cup {"rename"}

\* What each step of a start may count on.
StepInHand ==
    /\ pc # "down" => least <= keep
    /\ pc \in Copying \cup {"remove", "mkdir"} => today \notin Stamps
    /\ pc \in Copying => tmp[today] # NoDir
    /\ pc = "list" => today \in Stamps
    /\ pc # "prune" => doomed = {}

\* While nothing has spoiled the copy, the files copied so far restore what the
\* databases held when the copying began.
CopyInHand ==
    basis # Torn =>
        LET to == tmp[today] IN
        /\ pc \in Copying \ {"book_main"}
        /\ basis["journal"] = Recovered(disk, "journal")
        /\ pc = "book_log" =>
              basis["book"] = Recovered(disk, "book") /\ to["book"]["main"] = disk["book"]["main"]
        /\ pc # "book_log" => basis["book"] = Recovered(to, "book")
        /\ pc \in {"journal_log", "rename"} => to["journal"]["main"] = disk["journal"]["main"]
        /\ pc = "rename" => to["journal"]["log"] = disk["journal"]["log"]

\* What UnspoiledAreExact asks of snapshot d.
Sound(d) == Spoiled(d) \/ Exact(d)

\* The newer stamps that the prune loop is going to leave.
Survivors(d) == Newer(d) \ doomed

\* What is about to be removed, what is damaged, and a start whose own stamp is
\* gone, all have enough newer stamps that stay.
EnoughSurvive ==
    /\ doomed \subseteq Stamps
    /\ \A d \in doomed : Cardinality(Survivors(d)) >= least
    /\ \A d \in Stamps : ~Sound(d) => Cardinality(Survivors(d)) >= least
    /\ pc \in {"prune", "open", "serving"} =>
          today \in Stamps \/ Cardinality(Survivors(today)) >= least

BackupInv == BackupTypeOK /\ StepInHand /\ CopyInHand /\ EnoughSurvive
-----------------------------------------------------------------------------
\* A set of days that is not empty has a first one.
LEMMA OldestIsOne ==
    ASSUME NEW S \in SUBSET Nat, S # {}
    PROVE  Oldest(S) \in S /\ \A e \in S : Oldest(S) <= e
<1> DEFINE less == {ss \in Nat \X Nat : ss[1] < ss[2]}
<1>1. IsWellFoundedOn(less, Nat)
  BY NatLessThanWellFounded DEF OpToRel
<1> HIDE DEF less
<1>2. \E x \in S : \A y \in S : ~(<<y, x>> \in less)
  BY <1>1, WFMin
<1>3. \A x, y \in S : <<y, x>> \in less <=> y < x
  BY DEF less
<1>4. PICK x \in S : \A y \in S : ~(y < x)
  BY <1>2, <1>3
<1>5. ASSUME NEW y \in S PROVE x <= y
  <2>1. x \in Nat /\ y \in Nat /\ ~(y < x)
    BY <1>4
  <2> QED  BY <2>1
<1> QED  BY <1>5 DEF Oldest

\* Among finitely many days at least k have fewer than k newer ones, if there are
\* as many as k: a day's rank is a bijection to 0 .. Cardinality(S) - 1.
LEMMA NewestSuffice ==
    ASSUME NEW S \in SUBSET Nat, IsFiniteSet(S), NEW k \in Nat, k <= Cardinality(S)
    PROVE  Cardinality({d \in S : Cardinality({e \in S : e > d}) < k}) >= k
<1> DEFINE n == Cardinality(S)
           N(d) == {e \in S : e > d}
           rank == [d \in S |-> Cardinality(N(d))]
           T == {d \in S : Cardinality(N(d)) < k}
<1>1. n \in Nat
  BY FS_CardinalityType
<1>2. ASSUME NEW d \in S
      PROVE  IsFiniteSet(N(d)) /\ Cardinality(N(d)) \in 0 .. n - 1
  <2>1. IsFiniteSet(S \ {d}) /\ Cardinality(S \ {d}) = n - 1
    BY FS_RemoveElement
  <2>2. N(d) \in SUBSET (S \ {d})
    OBVIOUS
  <2>3. IsFiniteSet(N(d)) /\ Cardinality(N(d)) <= n - 1
    BY <2>1, <2>2, FS_Subset
  <2> QED  BY <1>1, <2>3, FS_CardinalityType
<1>3. ASSUME NEW d \in S, NEW e \in S, d < e
      PROVE  Cardinality(N(e)) < Cardinality(N(d))
  <2>1. N(e) \in SUBSET N(d) /\ e \in N(d) /\ e \notin N(e)
    <3>1. \A f \in S : f \in Nat
      OBVIOUS
    <3>2. \A f \in S : f > e => f > d
      BY <1>3, <3>1
    <3>3. e > d /\ ~(e > e)
      BY <1>3, <3>1
    <3> QED  BY <3>2, <3>3
  <2>2. Cardinality(N(e)) <= Cardinality(N(d)) /\ Cardinality(N(e)) # Cardinality(N(d))
    BY <1>2, <2>1, FS_Subset
  <2> QED  BY <1>2, <2>2
<1>4. rank \in [S -> 0 .. n - 1]
  BY <1>2
<1>5. \A d, e \in S : rank[d] = rank[e] => d = e
  <2> SUFFICES ASSUME NEW d \in S, NEW e \in S, d # e PROVE Cardinality(N(d)) # Cardinality(N(e))
    OBVIOUS
  <2>1. Cardinality(N(d)) \in Nat /\ Cardinality(N(e)) \in Nat
    BY <1>2
  <2>2. CASE d < e
    BY <1>3, <2>1, <2>2
  <2>3. CASE e < d
    BY <1>3, <2>1, <2>3
  <2> QED  BY <2>2, <2>3
<1> HIDE DEF rank
<1>6. rank \in Injection(S, 0 .. n - 1)
  BY <1>4, <1>5, Fun_IsInj
<1>7. IsFiniteSet(0 .. n - 1) /\ Cardinality(0 .. n - 1) = n
  <2>1. n - 1 \in Int /\ 0 \in Int
    BY <1>1
  <2>2. /\ IsFiniteSet(0 .. n - 1)
        /\ Cardinality(0 .. n - 1) = IF 0 > n - 1 THEN 0 ELSE (n - 1) - 0 + 1
    BY <2>1, FS_Interval
  <2> QED  BY <1>1, <2>2
<1>8. rank \in Surjection(S, 0 .. n - 1)
  BY <1>6, <1>7, FS_Injection
<1>9. \A r \in 0 .. n - 1 : \E d \in S : rank[d] = r
  BY <1>8 DEF Surjection
<1> DEFINE low == [d \in T |-> rank[d]]
<1>10. low \in [T -> 0 .. k - 1] /\ \A r \in 0 .. k - 1 : \E d \in T : low[d] = r
  <2>1. \A d \in S : rank[d] = Cardinality(N(d)) /\ rank[d] \in 0 .. n - 1
    BY <1>4 DEF rank
  <2>2. low \in [T -> 0 .. k - 1]
    <3>1. ASSUME NEW d \in T PROVE rank[d] \in 0 .. k - 1
      <4>1. d \in S /\ Cardinality(N(d)) < k
        OBVIOUS
      <4> QED  BY <1>1, <2>1, <4>1
    <3> QED  BY <3>1
  <2>3. ASSUME NEW r \in 0 .. k - 1 PROVE \E d \in T : low[d] = r
    <3>1. r \in 0 .. n - 1
      BY <1>1
    <3>2. PICK d \in S : rank[d] = r
      BY <1>9, <3>1
    <3>3. d \in T
      BY <2>1, <3>2
    <3> QED  BY <3>2, <3>3
  <2> QED  BY <2>2, <2>3
<1> HIDE DEF low
<1>11. low \in Surjection(T, 0 .. k - 1)
  BY <1>10, Fun_IsSurj
<1>12. IsFiniteSet(T)
  BY FS_Subset
<1>13. Cardinality(0 .. k - 1) <= Cardinality(T) /\ Cardinality(T) \in Nat
  BY <1>11, <1>12, FS_Surjection, FS_CardinalityType
<1>14. Cardinality(0 .. k - 1) = k
  BY FS_Interval
<1> QED  BY <1>13, <1>14
-----------------------------------------------------------------------------
LEMMA DirFacts ==
    /\ EmptyDir \in Dir
    /\ \A dir \in Dir : \A gone : Without(dir, gone) \in Dir
    /\ \A dir \in Dir : \A d \in Db : Recovered(dir, d) \in Content
    /\ \A dir \in Dir : \A d \in Db, p \in Part, c \in Content :
          [dir EXCEPT ![d][p] = c] \in Dir
    /\ \A dir \in Dir : \A d \in Db, p \in Part : dir[d][p] \in Content
  BY DEF EmptyDir, Dir, Without, Recovered, Content, Db, Part

LEMMA SourceIsFile ==
    ASSUME NEW s \in CopySteps
    PROVE  /\ Source(s)[1] \in Db /\ Source(s)[2] \in Part
           /\ After(s) \in Copying
  BY DEF CopySteps, Source, After, Copying, Db, Part

LEMMA BackupTypeInit == Init => BackupTypeOK
<1> SUFFICES ASSUME Init PROVE BackupTypeOK
  OBVIOUS
<1>1. disk \in Dir
  BY DirFacts DEF Init, Db, Part, Content
<1>2. Torn \in [Db -> Content] \cup {Torn} /\ 1 \in Days
  BY BackupAssumption DEF Days
<1> QED  BY <1>1, <1>2, BackupAssumption DEF Init, BackupTypeOK, Steps

\* The prune loop always has a directory in hand.
LEMMA OldestDoomed ==
    ASSUME BackupInv, doomed # {}
    PROVE  /\ Oldest(doomed) \in doomed /\ Oldest(doomed) \in Days
           /\ snaps[Oldest(doomed)] \in Dir
<1>1. doomed \in SUBSET Nat
  BY DEF BackupInv, BackupTypeOK, Days
<1>2. Oldest(doomed) \in doomed
  BY <1>1, OldestIsOne
<1> QED  BY <1>2 DEF BackupInv, BackupTypeOK, EnoughSurvive, Stamps

\* The steps of a start, those that fail included.
StartSteps ==
    \/ Restart \/ SnapshotBeforeOpen \/ RemoveTmpFails
    \/ CopyOverlooks \/ CopyFails \/ AttemptFails \/ ListFails \/ PruneFails

LEMMA StartKeepsTypes ==
    ASSUME BackupInv, StartSteps
    PROVE  BackupTypeOK'
<1> USE BackupAssumption DEF BackupTypeOK, files, start, history, counters, Goto
<1>0. BackupTypeOK /\ (pc \in Copying => tmp[today] \in Dir)
  BY DEF BackupInv, StepInHand
<1>1. CASE Restart
  BY <1>0, <1>1 DEF Restart, Start, SizeT, Steps
<1>2. CASE Exists \/ Pruned
  BY <1>0, <1>2 DEF Exists, Pruned, Steps
<1>3. CASE RemoveTmp
  BY <1>0, <1>3 DEF RemoveTmp, Steps
<1>4. CASE MakeTmp
  BY <1>0, <1>4, DirFacts DEF MakeTmp, Steps
<1>5. CASE CopyFile \/ CopyFails \/ CopyOverlooks
  <2> DEFINE f == Source(pc)
  <2>1. pc \in CopySteps /\ f[1] \in Db /\ f[2] \in Part /\ After(pc) \in Steps
    BY <1>5, SourceIsFile DEF CopyFile, CopyFails, CopyOverlooks, Copying, CopySteps, Steps
  <2>2. tmp[today] \in Dir /\ disk[f[1]][f[2]] \in Content /\ Torn \in Content
    BY <1>0, <2>1, DirFacts DEF Copying, Content
  <2>3. ASSUME NEW c \in Content PROVE [tmp[today] EXCEPT ![f[1]][f[2]] = c] \in Dir
    BY <2>1, <2>2, <2>3, DirFacts
  <2>4. /\ UNCHANGED <<disk, snaps, day, today, keep, least, doomed, taken, writes, backs, crashes>>
        /\ basis' \in {Begun, Torn} /\ faults' \in 0 .. MaxFaults
        /\ pc' \in Steps \cup {"down", "serving"}
    BY <1>0, <1>5, <2>1 DEF CopyFile, CopyFails, CopyOverlooks, GiveUp
  <2>b. Begun \in [Db -> Content] \cup {Torn}
    BY <1>0, DirFacts DEF Begun
  <2>5. \/ tmp' = tmp
        \/ tmp' = [tmp EXCEPT ![today] = tmp[today]]
        \/ tmp' = [tmp EXCEPT ![today][f[1]][f[2]] = disk[f[1]][f[2]]]
        \/ tmp' = [tmp EXCEPT ![today] = [tmp[today] EXCEPT ![f[1]][f[2]] = Torn]]
    BY <1>5 DEF CopyFile, CopyFails, CopyOverlooks, GiveUp
  <2> HIDE DEF f
  <2>6. [tmp EXCEPT ![today][f[1]][f[2]] = disk[f[1]][f[2]]]
           = [tmp EXCEPT ![today] = [tmp[today] EXCEPT ![f[1]][f[2]] = disk[f[1]][f[2]]]]
    OBVIOUS
  <2>7. tmp' \in [Days -> Dir \cup {NoDir}]
    <3>1. \/ tmp' = tmp
          \/ \E dir \in Dir : tmp' = [tmp EXCEPT ![today] = dir]
      BY <2>2, <2>3, <2>5, <2>6
    <3> QED  BY <1>0, <3>1
  <2> QED  BY <1>0, <2>4, <2>7, <2>b
<1>6. CASE Rename
  BY <1>0, <1>6 DEF Rename, Steps, Copying
<1>7. CASE ListStamps \/ ListFails
  BY <1>0, <1>7 DEF ListStamps, ListFails, Steps, Stamps
<1>8. CASE Prune
  BY <1>0, <1>8, OldestDoomed DEF Prune
<1>9. CASE PruneFails
  <2>1. \A gone : Without(snaps[Oldest(doomed)], gone) \in Dir
    BY <1>9, OldestDoomed, DirFacts DEF PruneFails
  <2>2. PICK gone : snaps' = [snaps EXCEPT ![Oldest(doomed)] = Without(snaps[Oldest(doomed)], gone)]
    BY <1>9 DEF PruneFails
  <2>3. snaps' \in [Days -> Dir \cup {NoDir}]
    BY <1>0, <2>1, <2>2
  <2> QED  BY <1>0, <1>9, <2>3 DEF PruneFails
<1>10. CASE RemoveTmpFails
  <2>1. tmp[today] \in Dir
    BY <1>0, <1>10 DEF RemoveTmpFails
  <2>2. \A gone : Without(tmp[today], gone) \in Dir
    BY <2>1, DirFacts
  <2> QED  BY <1>0, <1>10, <2>2 DEF RemoveTmpFails, Steps
<1>11. CASE AttemptFails
  BY <1>0, <1>11 DEF AttemptFails, GiveUp
<1> QED  BY <1>1, <1>2, <1>3, <1>4, <1>5, <1>6, <1>7, <1>8, <1>9, <1>10, <1>11
         DEF StartSteps, SnapshotBeforeOpen

\* Everything else: the databases at work, shutdown, crashes and the clock.
OtherSteps == Open \/ DaemonWrites \/ DesktopWrites \/ Shutdown \/ Crash \/ Tick \/ ClockBack

LEMMA OthersKeepTypes ==
    ASSUME BackupInv, OtherSteps
    PROVE  BackupTypeOK'
<1> USE BackupAssumption DEF BackupTypeOK, files, start, history, counters, Goto
<1>0. BackupTypeOK
  BY DEF BackupInv
<1>f. /\ Missing \in Content /\ Torn \in Content /\ Nat \subseteq Content
      /\ "book" \in Db /\ "journal" \in Db /\ "main" \in Part /\ "log" \in Part
  BY DEF Content, Db, Part
<1>1. ASSUME BeginWrite \/ EndWrite PROVE disk' \in Dir /\ writes' \in 0 .. MaxWrites
  <2>1. Recovered(disk, "book") \in Content /\ writes \in Content
    BY <1>0, <1>f, DirFacts
  <2>2. CASE BeginWrite
    BY <1>0, <1>f, <2>1, <2>2 DEF BeginWrite, Count, Dir
  <2>3. CASE EndWrite
    BY <1>0, <1>f, <2>1, <2>3 DEF EndWrite, Dir
  <2> QED  BY <1>1, <2>2, <2>3
<1>2. CASE DaemonWrites
  <2>1. disk' \in Dir /\ writes' \in 0 .. MaxWrites
    <3>1. writes + 1 \in Content /\ disk["journal"]["log"] \in Content
      BY <1>0, <1>f, DirFacts
    <3>2. CASE BeginWrite \/ EndWrite
      BY <1>1, <3>2
    <3>3. CASE Count /\ disk' = [disk EXCEPT !["journal"]["log"] = writes + 1]
      BY <1>0, <1>f, <3>1, <3>3 DEF Count, Dir
    <3>4. CASE /\ disk' = [disk EXCEPT !["journal"]["main"] = disk["journal"]["log"],
                                       !["journal"]["log"] = Missing]
               /\ UNCHANGED writes
      BY <1>0, <1>f, <3>1, <3>4 DEF Dir
    <3> QED  BY <1>2, <3>2, <3>3, <3>4 DEF DaemonWrites
  <2> QED  BY <1>0, <1>2, <2>1 DEF DaemonWrites
<1>3. CASE DesktopWrites
  BY <1>0, <1>1, <1>3 DEF DesktopWrites
<1>4. CASE Open
  <2>1. disk' \in Dir
    BY <1>0, <1>f, <1>4, DirFacts DEF Open, Dir
  <2> QED  BY <1>0, <1>4, <2>1 DEF Open
<1>5. CASE Shutdown
  <2>1. Recovered(disk, "journal") \in Content
    BY <1>0, <1>f, DirFacts
  <2>2. disk' \in Dir
    BY <1>0, <1>f, <1>5, <2>1 DEF Shutdown, Dir
  <2> QED  BY <1>0, <1>5, <2>2 DEF Shutdown
<1>6. CASE Crash
  BY <1>0, <1>6 DEF Crash
<1>7. CASE Tick \/ ClockBack
  <2>1. day' \in Days /\ today \in Days /\ today' = today
    BY <1>0, <1>7 DEF Tick, ClockBack, Days
  <2> QED  BY <1>0, <1>7, <2>1 DEF Tick, ClockBack
<1> QED  BY <1>2, <1>3, <1>4, <1>5, <1>6, <1>7 DEF OtherSteps
-----------------------------------------------------------------------------
LEMMA StampsAreFinite ==
    ASSUME BackupTypeOK, NEW d \in Days
    PROVE  /\ Stamps \in SUBSET Days /\ IsFiniteSet(Stamps)
           /\ IsFiniteSet(Newer(d)) /\ Cardinality(Newer(d)) \in Nat
           /\ IsFiniteSet(Survivors(d)) /\ Cardinality(Survivors(d)) \in Nat
           /\ Cardinality(Survivors(d)) <= Cardinality(Newer(d))
<1>1. IsFiniteSet(Days)
  BY BackupAssumption, FS_Interval DEF Days
<1>2. Stamps \in SUBSET Days /\ Newer(d) \in SUBSET Stamps /\ Survivors(d) \in SUBSET Newer(d)
  BY DEF Stamps, Newer, Survivors
<1>3. IsFiniteSet(Stamps)
  BY <1>1, <1>2, FS_Subset
<1>4. IsFiniteSet(Newer(d))
  BY <1>2, <1>3, FS_Subset
<1>5. IsFiniteSet(Survivors(d)) /\ Cardinality(Survivors(d)) <= Cardinality(Newer(d))
  BY <1>2, <1>4, FS_Subset
<1> QED  BY <1>2, <1>3, <1>4, <1>5, FS_CardinalityType

\* A step that takes no survivor away, dooms nothing, and damages or removes only
\* what is doomed, leaves enough.
LEMMA MoreSurvive ==
    ASSUME BackupTypeOK, BackupTypeOK', EnoughSurvive, least' <= least,
           \A d \in Days : Survivors(d) \subseteq Survivors(d)',
           doomed' \subseteq doomed, doomed' \subseteq Stamps',
           \A d \in Stamps' : \/ Sound(d)'
                              \/ d \in doomed
                              \/ d \in Stamps /\ (Sound(d) => Sound(d)'),
           pc' \in {"prune", "open", "serving"} =>
               \/ today' \in Stamps'
               \/ /\ today' = today /\ pc \in {"prune", "open", "serving"}
                  /\ today \in Stamps => today \in doomed
    PROVE  EnoughSurvive'
<1>1. ASSUME NEW d \in Days, Cardinality(Survivors(d)) >= least
      PROVE  Cardinality(Survivors(d)') >= least'
  <2>1. IsFiniteSet(Survivors(d)') /\ Cardinality(Survivors(d)') \in Nat
    <3>1. IsFiniteSet(Days) /\ Survivors(d)' \in SUBSET Days
      BY BackupAssumption, FS_Interval DEF Days, Survivors, Newer, Stamps
    <3> QED  BY <3>1, FS_Subset, FS_CardinalityType
  <2>2. Cardinality(Survivors(d)) \in Nat
    BY StampsAreFinite
  <2>3. Survivors(d) \in SUBSET Survivors(d)'
    OBVIOUS
  <2>4. Cardinality(Survivors(d)) <= Cardinality(Survivors(d)')
    BY <2>1, <2>3, FS_Subset
  <2> QED  BY <1>1, <2>1, <2>2, <2>4 DEF BackupTypeOK
<1>2. \A d \in doomed' : Cardinality(Survivors(d)') >= least'
  BY <1>1 DEF EnoughSurvive, BackupTypeOK
<1>3. \A d \in Stamps' : ~Sound(d)' => Cardinality(Survivors(d)') >= least'
  BY <1>1 DEF EnoughSurvive, BackupTypeOK, Stamps
<1>4. (pc \in {"prune", "open", "serving"} =>
          today \in Stamps \/ Cardinality(Survivors(today)) >= least)'
  <2> SUFFICES ASSUME pc' \in {"prune", "open", "serving"}, today' \notin Stamps'
               PROVE  (Cardinality(Survivors(today)) >= least)'
    OBVIOUS
  <2>1. today' = today /\ today \in Days /\ Cardinality(Survivors(today)) >= least
    BY DEF EnoughSurvive, BackupTypeOK
  <2>2. PICK d \in Days : d = today
    BY <2>1
  <2>3. Survivors(d)' = Survivors(today)'
    BY <2>1, <2>2 DEF Survivors, Newer
  <2> QED  BY <1>1, <2>1, <2>2, <2>3
<1> QED  BY <1>2, <1>3, <1>4 DEF EnoughSurvive
-----------------------------------------------------------------------------
LEMMA BackupInvInit == Init => BackupInv
<1> SUFFICES ASSUME Init PROVE BackupInv
  OBVIOUS
<1>1. BackupTypeOK
  BY BackupTypeInit
<1>2. Stamps = {} /\ doomed = {} /\ pc = "down" /\ basis = Torn
  BY DEF Init, Stamps
<1>3. StepInHand /\ CopyInHand
  BY <1>2 DEF StepInHand, CopyInHand, Copying, CopySteps
<1>4. EnoughSurvive
  BY <1>2 DEF EnoughSurvive
<1> QED  BY <1>1, <1>3, <1>4 DEF BackupInv

\* Nobody but Rename and the prune loop touches a directory with a stamp.
LEMMA StepsKeepInHand ==
    ASSUME BackupInv, Next
    PROVE  StepInHand'
<1> USE DEF StepInHand, Copying, CopySteps, files, start, history, counters, Goto, Stamps
<1>0. BackupTypeOK /\ StepInHand
  BY DEF BackupInv
<1>1. CASE Restart
  <2>1. PICK k \in KeepOptions : Start(k)
    BY <1>1 DEF Restart
  <2>2. SizeT(k) \in Int /\ least \in Int
    BY <1>0, BackupAssumption DEF SizeT, BackupTypeOK
  <2>3. least' <= keep'
    BY <2>1, <2>2 DEF Start
  <2> QED  BY <1>0, <2>1, <2>3 DEF Start
<1>2. CASE Exists \/ Pruned \/ Open
  BY <1>0, <1>2 DEF Exists, Pruned, Open, BackupTypeOK
<1>3. CASE RemoveTmp \/ RemoveTmpFails
  BY <1>0, <1>3 DEF RemoveTmp, RemoveTmpFails
<1>4. CASE MakeTmp
  <2>1. tmp' \in [Days -> Dir \cup {NoDir}] /\ tmp'[today] # NoDir
    BY <1>0, <1>4, DirFacts, NoDirAssumption DEF MakeTmp, BackupTypeOK
  <2> QED  BY <1>0, <1>4, <2>1 DEF MakeTmp
<1>5. CASE CopyFile \/ CopyFails \/ CopyOverlooks
  <2>1. tmp[today] \in Dir /\ today \in Days
    BY <1>0, <1>5 DEF CopyFile, CopyFails, CopyOverlooks, BackupTypeOK
  <2>2. UNCHANGED <<snaps, today, keep, least, doomed>> /\ pc \in CopySteps
    BY <1>5 DEF CopyFile, CopyFails, CopyOverlooks, GiveUp
  <2>3. CASE pc' = "down"
    BY <1>0, <2>2, <2>3
  <2>4. CASE pc' = After(pc)
    <3>1. tmp'[today] # NoDir
      <4> DEFINE f == Source(pc)
      <4>1. f[1] \in Db /\ f[2] \in Part
        BY <2>2, SourceIsFile
      <4>2. After(pc) # "down"
        BY <2>2 DEF After
      <4>3. tmp' = tmp \/ tmp' = [tmp EXCEPT ![today][f[1]][f[2]] = disk[f[1]][f[2]]]
        BY <1>5, <2>4, <4>2 DEF CopyFile, CopyFails, CopyOverlooks, GiveUp
      <4>4. disk[f[1]][f[2]] \in Content
        BY <1>0, <4>1, DirFacts DEF BackupTypeOK
      <4> HIDE DEF f
      <4>5. tmp'[today] = tmp[today] \/ tmp'[today] = [tmp[today] EXCEPT ![f[1]][f[2]] = disk[f[1]][f[2]]]
        BY <1>0, <2>1, <4>3 DEF BackupTypeOK
      <4>6. tmp'[today] \in Dir
        BY <2>1, <4>1, <4>4, <4>5, DirFacts
      <4> QED  BY <4>6, NoDirAssumption
    <3>2. After(pc) \in Copying
      BY <2>2, SourceIsFile
    <3> QED  BY <1>0, <2>2, <2>4, <3>1, <3>2
  <2> QED  BY <1>5, <2>3, <2>4 DEF CopyFile, CopyFails, CopyOverlooks, GiveUp
<1>6. CASE Rename
  BY <1>0, <1>6 DEF Rename, BackupTypeOK
<1>7. CASE ListStamps \/ ListFails
  BY <1>0, <1>7 DEF ListStamps, ListFails
<1>8. CASE Prune \/ PruneFails
  BY <1>0, <1>8 DEF Prune, PruneFails
<1>9. CASE AttemptFails
  BY <1>0, <1>9 DEF AttemptFails, GiveUp
<1>10. CASE DaemonWrites \/ DesktopWrites \/ Tick \/ ClockBack
  BY <1>0, <1>10 DEF DaemonWrites, DesktopWrites, Tick, ClockBack
<1>11. CASE Shutdown \/ Crash
  BY <1>0, <1>11 DEF Shutdown, Crash
<1> QED  BY <1>1, <1>2, <1>3, <1>4, <1>5, <1>6, <1>7, <1>8, <1>9, <1>10, <1>11
         DEF Next, SnapshotBeforeOpen

\* The four files are copied one after the other from databases that stand still,
\* but for the book once its two files are copied.
LEMMA CopyStaysInHand ==
    ASSUME BackupInv, Next
    PROVE  CopyInHand'
<1> USE DEF files, start, history, counters, Goto
<1>0. BackupTypeOK /\ CopyInHand /\ StepInHand
  BY DEF BackupInv
<1>1. CASE basis' = Torn
  BY <1>1 DEF CopyInHand
<1>2. CASE basis' = basis /\ pc \notin Copying
  BY <1>0, <1>1, <1>2 DEF CopyInHand
<1>3. CASE CopyFile /\ basis' # Torn
  <2>1. pc \in CopySteps /\ UNCHANGED <<disk, today>> /\ pc' = After(pc) /\ basis' = Begun
    BY <1>3 DEF CopyFile, GiveUp
  <2>2. tmp[today] \in Dir /\ today \in Days /\ tmp \in [Days -> Dir \cup {NoDir}]
    BY <1>0, <2>1 DEF StepInHand, BackupTypeOK, Copying
  <2> DEFINE f == Source(pc)
             to == tmp[today]
             new == tmp'[today]
  <2>3. /\ to[f[1]][f[2]] = Missing
        /\ \/ disk[f[1]][f[2]] = Missing /\ tmp' = tmp
           \/ tmp' = [tmp EXCEPT ![today][f[1]][f[2]] = disk[f[1]][f[2]]]
    BY <1>3 DEF CopyFile, GiveUp
  <2>4. \/ disk[f[1]][f[2]] = Missing /\ new = to
        \/ new = [to EXCEPT ![f[1]][f[2]] = disk[f[1]][f[2]]]
    BY <2>2, <2>3
  <2>5. ASSUME NEW d \in Db, NEW p \in Part
        PROVE  new[d][p] = IF d = f[1] /\ p = f[2] THEN disk[d][p] ELSE to[d][p]
    <3>1. f[1] \in Db /\ f[2] \in Part
      BY <2>1, SourceIsFile
    <3> HIDE DEF f, new
    <3>2. ASSUME NEW c PROVE [to EXCEPT ![f[1]][f[2]] = c][d][p]
                                = IF d = f[1] /\ p = f[2] THEN c ELSE to[d][p]
      BY <2>2, <3>1 DEF Dir
    <3> QED  BY <2>3, <2>4, <3>2
  <2>6. "book" \in Db /\ "journal" \in Db /\ "main" \in Part /\ "log" \in Part
    BY DEF Db, Part
  <2>7. \A d \in Db : Recovered(disk, d)' = Recovered(disk, d)
    BY <2>1 DEF Recovered
  <2>8. pc # "book_main" => basis' = basis /\ basis # Torn
    BY <1>3, <2>1 DEF Begun
  <2>t. tmp'[today'] = new
    BY <2>1
  <2> HIDE DEF to, new
  <2>9. CASE pc = "book_main"
    <3>1. pc' = "book_log" /\ basis' = [d \in Db |-> Recovered(disk, d)]
      BY <2>1, <2>9 DEF After, Begun
    <3>2. new["book"]["main"] = disk["book"]["main"]
      BY <2>5, <2>6, <2>9 DEF Source
    <3> QED  BY <2>1, <2>6, <2>7, <2>t, <3>1, <3>2 DEF CopyInHand, Copying, CopySteps
  <2>10. CASE pc = "book_log"
    <3>1. pc' = "journal_main" /\ basis' = basis
      BY <2>1, <2>8, <2>10 DEF After
    <3>2. /\ basis["journal"] = Recovered(disk, "journal")
          /\ basis["book"] = Recovered(disk, "book")
          /\ to["book"]["main"] = disk["book"]["main"]
      BY <1>0, <2>8, <2>10 DEF CopyInHand, to
    <3>3. new["book"]["main"] = disk["book"]["main"] /\ new["book"]["log"] = disk["book"]["log"]
      BY <2>5, <2>6, <2>10, <3>2 DEF Source
    <3>4. Recovered(new, "book") = Recovered(disk, "book")
      BY <3>3 DEF Recovered
    <3>5. Recovered(tmp[today], "book")' = Recovered(new, "book")
      BY <2>t DEF Recovered
    <3> QED  BY <2>6, <2>7, <3>1, <3>2, <3>4, <3>5 DEF CopyInHand, Copying, CopySteps
  <2>11. CASE pc \in {"journal_main", "journal_log"}
    <3>1. /\ basis' = basis
          /\ pc' = IF pc = "journal_main" THEN "journal_log" ELSE "rename"
      BY <2>1, <2>8, <2>11 DEF After
    <3>2. /\ basis["journal"] = Recovered(disk, "journal")
          /\ basis["book"] = Recovered(to, "book")
          /\ pc = "journal_log" => to["journal"]["main"] = disk["journal"]["main"]
      BY <1>0, <2>8, <2>11 DEF CopyInHand, to
    <3>3. \A p \in Part : new["book"][p] = to["book"][p]
      BY <2>5, <2>6, <2>11 DEF Source
    <3>4. Recovered(new, "book") = Recovered(to, "book")
      BY <2>6, <3>3 DEF Recovered
    <3>5. new["journal"]["main"] = disk["journal"]["main"]
      BY <2>5, <2>6, <2>11, <3>2 DEF Source
    <3>6. pc = "journal_log" => new["journal"]["log"] = disk["journal"]["log"]
      BY <2>5, <2>6 DEF Source
    <3>7. Recovered(tmp[today], "book")' = Recovered(new, "book")
      BY <2>t DEF Recovered
    <3> QED  BY <2>1, <2>6, <2>7, <2>11, <2>t, <3>1, <3>2, <3>4, <3>5, <3>6, <3>7
             DEF CopyInHand, Copying, CopySteps
  <2> QED  BY <2>1, <2>9, <2>10, <2>11 DEF CopySteps
<1>4. CASE DesktopWrites /\ basis' # Torn
  <2>1. basis' = basis /\ pc # "book_log" /\ UNCHANGED <<tmp, pc, today>>
    BY <1>4 DEF DesktopWrites
  <2>2. disk'["journal"] = disk["journal"]
    BY <1>0, <1>4 DEF DesktopWrites, BeginWrite, EndWrite, BackupTypeOK, Dir, Db
  <2>3. Recovered(disk, "journal")' = Recovered(disk, "journal")
    BY <2>2 DEF Recovered
  <2>4. Recovered(tmp[today], "book")' = Recovered(tmp[today], "book")
    BY <2>1 DEF Recovered
  <2> QED  BY <1>0, <1>4, <2>1, <2>2, <2>3, <2>4 DEF CopyInHand
<1>5. CASE Tick \/ ClockBack
  BY <1>0, <1>5 DEF Tick, ClockBack, CopyInHand, Recovered
<1>6. CASE \/ Restart \/ Exists \/ RemoveTmp \/ MakeTmp \/ ListStamps \/ Prune \/ Pruned
           \/ Open \/ RemoveTmpFails \/ ListFails \/ PruneFails \/ DaemonWrites \/ Shutdown
  <2>1. basis' = basis /\ pc \notin Copying
    BY <1>6 DEF Restart, Start, Exists, RemoveTmp, MakeTmp, ListStamps, ListFails, Prune,
                Pruned, Open, RemoveTmpFails, PruneFails, DaemonWrites, Shutdown, Copying,
                CopySteps
  <2> QED  BY <1>2, <2>1
<1>7. CASE CopyOverlooks \/ CopyFails \/ AttemptFails \/ Rename \/ Crash
  <2>1. basis' = Torn
    BY <1>7 DEF CopyOverlooks, CopyFails, AttemptFails, GiveUp, Rename, Crash
  <2> QED  BY <1>1, <2>1
<1> QED  BY <1>1, <1>3, <1>4, <1>5, <1>6, <1>7 DEF Next, SnapshotBeforeOpen
-----------------------------------------------------------------------------
LEMMA QuietSurvive ==
    ASSUME BackupTypeOK, BackupTypeOK', EnoughSurvive, UNCHANGED <<snaps, taken>>,
           doomed' = doomed \/ doomed' = {}, least' <= least,
           pc' \in {"prune", "open", "serving"} =>
               \/ today' \in Stamps
               \/ today' = today /\ pc \in {"prune", "open", "serving"}
    PROVE  EnoughSurvive'
<1>1. Stamps' = Stamps
  BY DEF Stamps
<1>2. \A d \in Days : Survivors(d) \subseteq Survivors(d)'
  BY <1>1 DEF Survivors, Newer
<1>3. \A d \in Stamps' : d \in Stamps /\ (Sound(d) => Sound(d)')
  BY <1>1 DEF Sound, Spoiled, Exact, Recovered
<1>4. doomed' \subseteq doomed /\ doomed' \subseteq Stamps'
  BY <1>1 DEF EnoughSurvive
<1> QED  BY <1>1, <1>2, <1>3, <1>4, MoreSurvive

\* A snapshot whose copy is not spoiled holds what the databases hold.
LEMMA RenameSurvive ==
    ASSUME BackupInv, BackupTypeOK', Rename
    PROVE  EnoughSurvive'
<1>0. BackupTypeOK /\ EnoughSurvive /\ StepInHand /\ CopyInHand
  BY DEF BackupInv
<1>1. pc = "rename" /\ today \notin Stamps /\ tmp[today] # NoDir /\ doomed = {} /\ today \in Days
  BY <1>0 DEF Rename, StepInHand, Copying, BackupTypeOK
<1>2. Stamps' = Stamps \cup {today} /\ doomed' = {} /\ pc' = "list" /\ least' = least
  BY <1>0, <1>1 DEF Rename, Stamps, BackupTypeOK, Goto, start
<1>3. \A d \in Days : Survivors(d) \subseteq Survivors(d)'
  BY <1>1, <1>2 DEF Survivors, Newer
<1>4. PICK t \in Days : t = today
  BY <1>1
<1>5. Sound(t)'
  <2>1. taken'[t] = basis /\ snaps'[t] = tmp[today]
    BY <1>0, <1>1, <1>4 DEF Rename, BackupTypeOK
  <2>2. SUFFICES ASSUME basis # Torn
                 PROVE  \A db \in Db : Recovered(snaps'[t], db) = taken'[t][db]
    BY <2>1 DEF Sound, Spoiled, Exact
  <2>3. /\ basis["book"] = Recovered(tmp[today], "book")
        /\ basis["journal"] = Recovered(disk, "journal")
        /\ \A p \in Part : tmp[today]["journal"][p] = disk["journal"][p]
    BY <1>0, <1>1, <2>2 DEF CopyInHand, Part
  <2>4. Recovered(tmp[today], "journal") = Recovered(disk, "journal")
    BY <2>3 DEF Recovered, Part
  <2> QED  BY <2>1, <2>3, <2>4 DEF Db
<1>6. \A d \in Stamps : Sound(d) => Sound(d)'
  <2> SUFFICES ASSUME NEW d \in Stamps, Sound(d) PROVE Sound(d)'
    OBVIOUS
  <2>1. taken'[d] = taken[d] /\ snaps'[d] = snaps[d]
    BY <1>0, <1>1 DEF Rename, BackupTypeOK, Stamps
  <2> QED  BY <2>1 DEF Sound, Spoiled, Exact
<1>7. \A d \in Stamps' : Sound(d)' \/ d \in doomed \/ (d \in Stamps /\ (Sound(d) => Sound(d)'))
  BY <1>2, <1>4, <1>5, <1>6
<1>8. least' <= least
  BY <1>0, <1>2 DEF BackupTypeOK
<1> QED  BY <1>0, <1>1, <1>2, <1>3, <1>7, <1>8, MoreSurvive

\* The prune loop takes or damages a stamp that has been counted out.
LEMMA PruneSurvive ==
    ASSUME BackupInv, BackupTypeOK', Prune \/ PruneFails
    PROVE  EnoughSurvive'
<1>0. BackupTypeOK /\ EnoughSurvive
  BY DEF BackupInv
<1> DEFINE o == Oldest(doomed)
<1>1. o \in doomed /\ o \in Days /\ snaps[o] \in Dir
  BY OldestDoomed DEF Prune, PruneFails
<1>2. /\ doomed' = doomed \ {o} /\ pc = "prune" /\ pc' = pc
      /\ UNCHANGED <<taken, today, least>>
  BY DEF Prune, PruneFails, history, start
<1>3. \A d \in Days \ {o} : snaps'[d] = snaps[d]
  BY <1>0 DEF Prune, PruneFails, BackupTypeOK
<1> HIDE DEF o
<1>4. \/ Stamps' = Stamps
      \/ Stamps' = Stamps \ {o}
  <2>1. \A d \in Days \ {o} : d \in Stamps' <=> d \in Stamps
    BY <1>3 DEF Stamps
  <2>2. o \in Stamps /\ Stamps \subseteq Days /\ Stamps' \subseteq Days
    BY <1>0, <1>1 DEF Stamps, EnoughSurvive
  <2> QED  BY <2>1, <2>2
<1>5. doomed' \subseteq doomed /\ doomed' \subseteq Stamps'
  BY <1>0, <1>2, <1>4 DEF EnoughSurvive
<1>6. \A d \in Days : Survivors(d) \subseteq Survivors(d)'
  BY <1>1, <1>2, <1>4 DEF Survivors, Newer
<1>7. \A d \in Stamps' : d \in doomed \/ (d \in Stamps /\ (Sound(d) => Sound(d)'))
  <2> SUFFICES ASSUME NEW d \in Stamps'
               PROVE  d \in doomed \/ (d \in Stamps /\ (Sound(d) => Sound(d)'))
    OBVIOUS
  <2>1. CASE d = o
    BY <1>1, <2>1
  <2>2. CASE d # o
    <3>1. d \in Days /\ d \in Stamps /\ snaps'[d] = snaps[d]
      BY <1>3, <1>4, <2>2 DEF Stamps
    <3>2. Sound(d) => Sound(d)'
      BY <1>2, <3>1 DEF Sound, Spoiled, Exact
    <3> QED  BY <3>1, <3>2
  <2> QED  BY <2>1, <2>2
<1>8. today' \in Stamps' \/ (today' = today /\ (today \in Stamps => today \in doomed))
  BY <1>1, <1>2, <1>4
<1>9. least' <= least
  BY <1>0, <1>2 DEF BackupTypeOK
<1> QED  BY <1>0, <1>2, <1>5, <1>6, <1>7, <1>8, <1>9, MoreSurvive

\* The stamps that are not counted out are the newest keep of them: whatever has
\* enough newer ones has enough that stay.
LEMMA ListSurvive ==
    ASSUME BackupInv, BackupTypeOK', ListStamps
    PROVE  EnoughSurvive'
<1>0. BackupTypeOK /\ EnoughSurvive /\ StepInHand
  BY DEF BackupInv
<1>1. /\ doomed = {} /\ today \in Stamps /\ least <= keep
      /\ keep \in Nat /\ least \in Nat
  BY <1>0 DEF ListStamps, StepInHand, BackupTypeOK
<1>2. UNCHANGED <<snaps, taken, today, least>> /\ pc' = "prune"
  BY DEF ListStamps, Goto, files, history, start
<1>3. doomed' = {d \in Stamps : Cardinality(Newer(d)) >= keep}
  BY DEF ListStamps
<1>4. Stamps' = Stamps /\ \A d : Newer(d)' = Newer(d)
  BY <1>2 DEF Stamps, Newer
<1>f. /\ Stamps \in SUBSET Nat /\ IsFiniteSet(Stamps)
      /\ \A d \in Days : IsFiniteSet(Newer(d)) /\ Cardinality(Newer(d)) \in Nat
  BY <1>0, <1>1, StampsAreFinite DEF Days, Stamps
<1> DEFINE R == {d \in Stamps : Cardinality(Newer(d)) < keep}
<1>5. \A d \in Days : Survivors(d)' = Newer(d) \cap R
  <2> SUFFICES ASSUME NEW d \in Days PROVE Survivors(d)' = Newer(d) \cap R
    OBVIOUS
  <2>1. Survivors(d)' = Newer(d) \ doomed'
    BY <1>4 DEF Survivors
  <2>2. \A e \in Newer(d) : e \in Stamps /\ Cardinality(Newer(e)) \in Nat
    BY <1>f DEF Newer, Stamps
  <2>3. \A e \in Newer(d) : e \notin doomed' <=> e \in R
    BY <1>1, <1>3, <2>2
  <2> QED  BY <2>1, <2>3
<1>6. ASSUME NEW e \in Stamps, Cardinality(Newer(e)) >= keep
      PROVE  R \subseteq Newer(e) /\ Cardinality(R) >= least
  <2>1. e \in Days /\ Cardinality(Newer(e)) \in Nat /\ Newer(e) \in SUBSET Stamps
    BY <1>f DEF Stamps, Newer
  <2>2. ASSUME NEW d \in R PROVE d \in Newer(e)
    <3>1. d \in Nat /\ e \in Nat /\ d \in Stamps /\ Cardinality(Newer(d)) \in Nat /\ d \in Days
      BY <1>f DEF Stamps
    <3>2. SUFFICES ASSUME d <= e PROVE FALSE
      BY <3>1 DEF Newer
    <3>3. Newer(e) \in SUBSET Newer(d)
      <4>1. \A x \in Nat : x > e => x > d
        BY <3>1, <3>2
      <4> QED  BY <1>f, <4>1 DEF Newer
    <3>4. Cardinality(Newer(e)) <= Cardinality(Newer(d))
      BY <1>f, <3>1, <3>3, FS_Subset
    <3> QED  BY <1>1, <1>6, <2>1, <3>1, <3>4
  <2>3. Cardinality(Stamps) \in Nat /\ Cardinality(Newer(e)) <= Cardinality(Stamps)
    BY <1>f, <2>1, FS_Subset, FS_CardinalityType
  <2>4. keep <= Cardinality(Stamps)
    BY <1>1, <1>6, <2>1, <2>3
  <2>5. R = {d \in Stamps : Cardinality({x \in Stamps : x > d}) < keep}
    BY DEF Newer
  <2>6. Cardinality({d \in Stamps : Cardinality({x \in Stamps : x > d}) < keep}) >= keep
    BY <1>1, <1>f, <2>4, NewestSuffice
  <2>7. IsFiniteSet(R) /\ Cardinality(R) \in Nat
    BY <1>f, FS_Subset, FS_CardinalityType
  <2> HIDE DEF R
  <2>8. Cardinality(R) >= keep
    BY <2>5, <2>6
  <2>9. Cardinality(R) >= least
    BY <1>1, <2>7, <2>8
  <2> QED  BY <2>2, <2>9
<1> HIDE DEF R
<1>7. ASSUME NEW d \in Days, Cardinality(Newer(d)) >= least
      PROVE  Cardinality(Survivors(d)') >= least'
  <2>1. CASE Newer(d) \subseteq R
    <3>1. Survivors(d)' = Newer(d)
      BY <1>5, <2>1
    <3> QED  BY <1>2, <1>7, <3>1
  <2>2. CASE ~(Newer(d) \subseteq R)
    <3>1. PICK e \in Newer(d) : e \notin R
      BY <2>2
    <3>2. e \in Stamps /\ e > d /\ e \in Nat /\ d \in Nat /\ Cardinality(Newer(e)) \in Nat
      BY <1>f DEF Newer, Stamps, Days
    <3>3. Cardinality(Newer(e)) >= keep
      BY <1>1, <3>1, <3>2 DEF R
    <3>4. R \subseteq Newer(e) /\ Cardinality(R) >= least
      BY <1>6, <3>2, <3>3
    <3>5. Newer(e) \subseteq Newer(d)
      <4>1. \A x \in Nat : x > e => x > d
        BY <3>2
      <4> QED  BY <1>f, <4>1 DEF Newer
    <3>6. Survivors(d)' = R
      BY <1>5, <3>4, <3>5
    <3> QED  BY <1>2, <3>4, <3>6
  <2> QED  BY <2>1, <2>2
<1>8. \A d \in Days : Survivors(d) = Newer(d)
  BY <1>1 DEF Survivors
<1>9. \A d \in doomed' : Cardinality(Survivors(d)') >= least'
  <2> SUFFICES ASSUME NEW d \in doomed' PROVE Cardinality(Survivors(d)') >= least'
    OBVIOUS
  <2>1. d \in Days /\ Cardinality(Newer(d)) >= keep
    BY <1>3 DEF Stamps
  <2>2. Cardinality(Newer(d)) >= least
    BY <1>1, <1>f, <2>1
  <2> QED  BY <1>7, <2>1, <2>2
<1>10. \A d \in Stamps' : ~Sound(d)' => Cardinality(Survivors(d)') >= least'
  <2> SUFFICES ASSUME NEW d \in Stamps', ~Sound(d)' PROVE Cardinality(Survivors(d)') >= least'
    OBVIOUS
  <2>1. d \in Stamps /\ d \in Days /\ ~Sound(d)
    BY <1>2, <1>4 DEF Sound, Spoiled, Exact, Stamps
  <2>2. Cardinality(Newer(d)) >= least
    BY <1>0, <1>8, <2>1 DEF EnoughSurvive
  <2> QED  BY <1>7, <2>1, <2>2
<1>11. doomed' \subseteq Stamps' /\ today' \in Stamps'
  BY <1>1, <1>2, <1>3, <1>4
<1> QED  BY <1>9, <1>10, <1>11 DEF EnoughSurvive

LEMMA StepsSurvive ==
    ASSUME BackupInv, BackupTypeOK', Next
    PROVE  EnoughSurvive'
<1> USE DEF files, start, history, counters, Goto
<1>0. BackupTypeOK /\ EnoughSurvive /\ StepInHand /\ least \in Int
  BY DEF BackupInv, BackupTypeOK
<1>1. CASE Restart
  <2>1. PICK k \in KeepOptions : Start(k)
    BY <1>1 DEF Restart
  <2>2. SizeT(k) \in Int
    BY BackupAssumption DEF SizeT
  <2>3. least' <= least /\ UNCHANGED <<snaps, taken, doomed>> /\ pc' = "exists"
    BY <1>0, <2>1, <2>2 DEF Start
  <2> QED  BY <1>0, <2>3, QuietSurvive
<1>2. CASE Exists
  <2>1. UNCHANGED <<snaps, taken, doomed, least, today>> /\ (pc' = "open" => today \in Stamps)
    BY <1>0, <1>2 DEF Exists, Stamps, BackupTypeOK
  <2>2. pc' \in {"open", "remove"}
    BY <1>2 DEF Exists
  <2> QED  BY <1>0, <2>1, <2>2, QuietSurvive
<1>3. CASE \/ RemoveTmp \/ MakeTmp \/ CopyFile \/ RemoveTmpFails \/ CopyOverlooks
           \/ CopyFails \/ AttemptFails \/ Shutdown \/ Crash
  <2>1. UNCHANGED <<snaps, taken, least>> /\ (doomed' = doomed \/ doomed' = {})
    BY <1>3 DEF RemoveTmp, MakeTmp, CopyFile, RemoveTmpFails, CopyOverlooks, CopyFails, AttemptFails,
                Shutdown, Crash, GiveUp
  <2>2. pc' \notin {"prune", "open", "serving"}
    <3>1. pc' \in {"mkdir", "book_main", "down"} \/ (pc \in CopySteps /\ pc' = After(pc))
      BY <1>3 DEF RemoveTmp, MakeTmp, CopyFile, RemoveTmpFails, CopyOverlooks, CopyFails, AttemptFails,
                  Shutdown, Crash, GiveUp
    <3> QED  BY <3>1, SourceIsFile DEF Copying, CopySteps
  <2> QED  BY <1>0, <2>1, <2>2, QuietSurvive
<1>4. CASE Pruned \/ Open \/ DaemonWrites \/ DesktopWrites \/ Tick \/ ClockBack
  <2>1. UNCHANGED <<snaps, taken, least, doomed, today>>
    BY <1>4 DEF Pruned, Open, DaemonWrites, DesktopWrites, Tick, ClockBack
  <2>2. pc' \in {"prune", "open", "serving"} => pc \in {"prune", "open", "serving"}
    BY <1>4 DEF Pruned, Open, DaemonWrites, DesktopWrites, Tick, ClockBack
  <2> QED  BY <1>0, <2>1, <2>2, QuietSurvive
<1>5. CASE Rename
  BY <1>5, RenameSurvive
<1>6. CASE ListStamps
  BY <1>6, ListSurvive
<1>7. CASE Prune \/ PruneFails
  BY <1>7, PruneSurvive
<1>8. CASE ListFails
  <2>1. UNCHANGED <<snaps, taken, least, today>> /\ doomed' = {} /\ today \in Stamps
    BY <1>0, <1>8 DEF ListFails, StepInHand
  <2> QED  BY <1>0, <2>1, QuietSurvive
<1> QED  BY <1>1, <1>2, <1>3, <1>4, <1>5, <1>6, <1>7, <1>8 DEF Next, SnapshotBeforeOpen

LEMMA BackupInvNext == BackupInv /\ [Next]_vars => BackupInv'
<1> SUFFICES ASSUME BackupInv, [Next]_vars PROVE BackupInv'
  OBVIOUS
<1>1. CASE Next
  <2>1. BackupTypeOK'
    BY <1>1, StartKeepsTypes, OthersKeepTypes DEF Next, StartSteps, OtherSteps
  <2>2. StepInHand' /\ CopyInHand' /\ EnoughSurvive'
    BY <1>1, <2>1, StepsKeepInHand, CopyStaysInHand, StepsSurvive
  <2> QED  BY <2>1, <2>2 DEF BackupInv
<1>2. CASE UNCHANGED vars
  <2> USE <1>2 DEF vars, files, start, history, counters
  <2>1. BackupTypeOK' /\ StepInHand'
    BY DEF BackupInv, BackupTypeOK, StepInHand, Stamps
  <2>2. CopyInHand'
    BY DEF BackupInv, CopyInHand, Recovered
  <2>3. EnoughSurvive'
    <3>1. least' <= least
      BY DEF BackupInv, BackupTypeOK
    <3> QED  BY <2>1, <3>1, QuietSurvive DEF BackupInv
  <2> QED  BY <2>1, <2>2, <2>3 DEF BackupInv
<1> QED  BY <1>1, <1>2

LEMMA BackupInvAlways == Spec => []BackupInv
  BY BackupInvInit, BackupInvNext, PTL DEF Spec

\* Enough survivors are enough newer stamps.
LEMMA SurvivorsAreNewer ==
    ASSUME BackupTypeOK, NEW d \in Days, Cardinality(Survivors(d)) >= least
    PROVE  Cardinality(Newer(d)) >= least
  BY StampsAreFinite DEF BackupTypeOK
-----------------------------------------------------------------------------
(***************************************************************************)
(* The variables of the snapshot keep their types: in particular the copy, *)
(* rename and prune steps always find the directory they work on.          *)
(***************************************************************************)
THEOREM BackupTypes == Spec => []BackupTypeOK
  BY BackupInvAlways, PTL DEF BackupInv

(***************************************************************************)
(* Among the newest keep_days stamps every one that was not spoiled while  *)
(* it was copied restores the book and the journal of the moment its       *)
(* copying began: the .tmp and its rename, and the prune loop's ignored    *)
(* error codes, cost no such snapshot.  SnapshotBeforeOpen completes three *)
(* kinds of spoiled ones (see Spoiled) as if they were good; of those the  *)
(* theorem says nothing.                                                   *)
(***************************************************************************)
THEOREM UnspoiledSnapshotsAreExact == Spec => []UnspoiledAreExact
<1>1. BackupInv => UnspoiledAreExact
  <2> SUFFICES ASSUME BackupInv, NEW d \in Stamps, Cardinality(Newer(d)) < least, ~Sound(d)
               PROVE  FALSE
    BY DEF UnspoiledAreExact, Sound
  <2>1. BackupTypeOK /\ d \in Days /\ Cardinality(Survivors(d)) >= least
    BY DEF BackupInv, EnoughSurvive, Stamps
  <2>2. Cardinality(Newer(d)) >= least /\ Cardinality(Newer(d)) \in Nat /\ least \in Int
    BY <2>1, SurvivorsAreNewer, StampsAreFinite DEF BackupTypeOK
  <2> QED  BY <2>2
<1> QED  BY <1>1, BackupInvAlways, PTL

(***************************************************************************)
(* A daemon that opens the book or serves it has the snapshot of its day,  *)
(* unless keep_days newer ones exist.                                      *)
(***************************************************************************)
THEOREM NoServiceWithoutSafetyNet == Spec => []SafetyNet
<1>1. BackupInv => SafetyNet
  BY SurvivorsAreNewer DEF BackupInv, EnoughSurvive, SafetyNet, BackupTypeOK
<1> QED  BY <1>1, BackupInvAlways, PTL

(***************************************************************************)
(* No step of a start, of the databases or of the clock changes a snapshot *)
(* that was taken, unless it is one the prune loop removes because         *)
(* keep_days newer ones exist.                                             *)
(***************************************************************************)
THEOREM PruningIsSafe == Spec => PruneKeepsNewest
<1> DEFINE Kept == \A d \in Stamps : snaps'[d] # snaps[d] => Cardinality(Newer(d)) >= least
<1>1. BackupInv /\ [Next]_vars => [Kept]_vars
  <2> SUFFICES ASSUME BackupInv, Next, NEW d \in Stamps, snaps'[d] # snaps[d]
               PROVE  Cardinality(Newer(d)) >= least
    OBVIOUS
  <2>0. BackupTypeOK /\ StepInHand /\ EnoughSurvive /\ d \in Days
    BY DEF BackupInv, Stamps
  <2>1. CASE Prune \/ PruneFails
    <3>1. doomed # {}
      BY <2>1 DEF Prune, PruneFails
    <3>2. d = Oldest(doomed)
      BY <2>0, <2>1 DEF Prune, PruneFails, BackupTypeOK
    <3>3. d \in doomed
      BY <3>1, <3>2, OldestDoomed
    <3> QED  BY <2>0, <3>3, SurvivorsAreNewer DEF EnoughSurvive
  <2>2. CASE Rename
    BY <2>0, <2>2 DEF Rename, StepInHand, Copying, BackupTypeOK
  <2>3. CASE ~(Prune \/ PruneFails \/ Rename)
    <3>1. snaps' = snaps
      BY <2>3 DEF Next, SnapshotBeforeOpen, Restart, Start, Exists, RemoveTmp, MakeTmp,
                  CopyFile, CopyOverlooks, CopyFails, AttemptFails, GiveUp, ListStamps,
                  ListFails, Pruned, Open,
                  RemoveTmpFails, DaemonWrites, DesktopWrites, Shutdown, Crash, Tick,
                  ClockBack, files
    <3> QED  BY <3>1
  <2> QED  BY <2>1, <2>2, <2>3
<1> QED  BY <1>1, BackupInvAlways, PTL DEF Spec, PruneKeepsNewest
=============================================================================
