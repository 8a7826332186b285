------------------------------- MODULE Backup -------------------------------
(***************************************************************************)
(* The daily snapshot (src/util/backup.cpp): before a start opens anything *)
(* it copies the book and the journal, each with the log SQLite may have   *)
(* left beside it, into <stamp>.tmp, renames that to <stamp>, and prunes   *)
(* the oldest stamps.  One file operation per step; the process may die    *)
(* between any two.                                                        *)
(*                                                                         *)
(* A database is a main file and a log.  What it holds is what SQLite      *)
(* recovers: the log if there is one, else the main file.  That describes  *)
(* a rollback journal (the book: while a transaction is written, the log   *)
(* holds the old pages and the main file is torn) as well as a write-ahead *)
(* log (the journal: a commit is in the log until a checkpoint).  -shm is  *)
(* an index SQLite rebuilds and is left out.                               *)
(***************************************************************************)
EXTENDS Integers, FiniteSets

CONSTANTS
    Missing,      \* there is no such file
    Torn,         \* half of a write
    NoDir,        \* there is no such directory
    MaxDay,       \* bound: the days are 1 .. MaxDay
    KeepOptions,  \* the values --backup-keep-days may have at a start
    SizeValues,   \* the number of values of size_t: 2 ^ 64
    MaxWrites,    \* bound: committed transactions
    MaxBack,      \* bound: how often the clock is set back
    MaxCrashes,   \* bound: crashes
    MaxFaults     \* bound: failing file operations

ASSUME BackupAssumption ==
    /\ MaxDay \in Nat \ {0} /\ SizeValues \in Nat \ {0}
    /\ KeepOptions \subseteq Int /\ KeepOptions # {}
    /\ MaxWrites \in Nat /\ MaxBack \in Nat /\ MaxCrashes \in Nat /\ MaxFaults \in Nat

Days == 1 .. MaxDay
Db   == {"book", "journal"}
Part == {"main", "log"}

Content == Nat \cup {Missing, Torn}
Dir     == [Db -> [Part -> Content]]

ASSUME NoDirAssumption == NoDir \notin Dir

EmptyDir == [d \in Db |-> [p \in Part |-> Missing]]

\* What SQLite finds when it opens database d of directory dir.
Recovered(dir, d) == IF dir[d]["log"] # Missing THEN dir[d]["log"] ELSE dir[d]["main"]

\* Directory dir when the files gone have been removed from it.
Without(dir, gone) == [d \in Db |-> [p \in Part |-> IF <<d, p>> \in gone THEN Missing ELSE dir[d][p]]]

VARIABLES
    disk,     \* the live files
    day,      \* the local date
    tmp,      \* per stamp, the directory <stamp>.tmp or NoDir
    snaps,    \* per stamp, the directory <stamp> or NoDir
    pc,       \* the daemon's next step, "down" or "serving"
    today,    \* the stamp of this start
    keep,     \* static_cast<size_t>(keep_days) of this start
    doomed,   \* the stamps the prune loop has yet to remove
    basis,    \* history: what the databases held when the copying began, or
              \* Torn: nothing is being copied, or the copy is spoiled
    taken,    \* history: per stamp, the basis of its snapshot
    least,    \* history: the smallest keep so far
    writes, backs, crashes, faults   \* counters for the bounds

files    == <<disk, tmp, snaps>>
start    == <<today, keep, least>>
history  == <<basis, taken>>
counters == <<writes, backs, crashes, faults>>
vars == <<files, day, pc, start, doomed, history, counters>>

Steps == {"exists", "remove", "mkdir", "book_main", "book_log", "journal_main",
          "journal_log", "rename", "list", "prune", "open"}

\* What is copied at each step of CopyWithSidecars, and the step after it.
Source(s) == CASE s = "book_main"    -> <<"book", "main">>
               [] s = "book_log"     -> <<"book", "log">>
               [] s = "journal_main" -> <<"journal", "main">>
               [] s = "journal_log"  -> <<"journal", "log">>

After(s) == CASE s = "book_main"    -> "book_log"
              [] s = "book_log"     -> "journal_main"
              [] s = "journal_main" -> "journal_log"
              [] s = "journal_log"  -> "rename"

CopySteps == {"book_main", "book_log", "journal_main", "journal_log"}

\* Mutant: the comparison is signed.
Signed(k) == k

\* static_cast<size_t>(keep_days).
SizeT(k) == k % SizeValues
Stamps == {d \in Days : snaps[d] # NoDir}
Newer(d) == {e \in Stamps : e > d}
Oldest(S) == CHOOSE d \in S : \A e \in S : d <= e

Init ==
    /\ disk = [EmptyDir EXCEPT !["book"]["main"] = 0]
    /\ day = 1
    /\ tmp = [d \in Days |-> NoDir] /\ snaps = [d \in Days |-> NoDir]
    /\ pc = "down" /\ today = 1 /\ keep = 0 /\ doomed = {}
    /\ basis = Torn /\ taken = [d \in Days |-> Torn]
    /\ least = SizeValues
    /\ writes = 0 /\ backs = 0 /\ crashes = 0 /\ faults = 0

Goto(s) == pc' = s /\ UNCHANGED <<day, start, counters>>
-----------------------------------------------------------------------------
(* SnapshotBeforeOpen                                                       *)

\* A start computes its stamp once.
Start(k) ==
    /\ pc = "down"
    /\ pc' = "exists" /\ today' = day /\ keep' = SizeT(k)
    /\ least' = IF SizeT(k) < least THEN SizeT(k) ELSE least
    /\ UNCHANGED <<files, day, doomed, history, counters>>

\* Mutant: the .tmp of a failed attempt counts as well.
ExistsInPart ==
    /\ pc = "exists"
    /\ Goto(IF snaps[today] # NoDir \/ tmp[today] # NoDir THEN "open" ELSE "remove")
    /\ UNCHANGED <<files, doomed, history>>

\* Today's directory is there: nothing to copy, nothing to prune.
Exists ==
    /\ pc = "exists"
    /\ Goto(IF snaps[today] # NoDir THEN "open" ELSE "remove")
    /\ UNCHANGED <<files, doomed, history>>

\* Mutant: a leftover of an earlier attempt is kept.
KeepTmp ==
    /\ pc = "remove"
    /\ Goto("mkdir")
    /\ UNCHANGED <<files, doomed, history>>

\* remove_all(tmp, ec).
RemoveTmp ==
    /\ pc = "remove"
    /\ tmp' = [tmp EXCEPT ![today] = NoDir]
    /\ Goto("mkdir")
    /\ UNCHANGED <<disk, snaps, doomed, history>>

\* It stops halfway, and its error code is ignored.
RemoveTmpFails ==
    /\ pc = "remove" /\ tmp[today] # NoDir
    /\ faults < MaxFaults /\ faults' = faults + 1
    /\ \E gone \in SUBSET (Db \X Part) :
          tmp' = [tmp EXCEPT ![today] = Without(tmp[today], gone)]
    /\ pc' = "mkdir"
    /\ UNCHANGED <<disk, snaps, day, start, doomed, history, writes, backs, crashes>>

\* create_directories, which a directory that is there does not disturb.
MakeTmp ==
    /\ pc = "mkdir"
    /\ tmp' = IF tmp[today] = NoDir THEN [tmp EXCEPT ![today] = EmptyDir] ELSE tmp
    /\ Goto("book_main")
    /\ UNCHANGED <<disk, snaps, doomed, history>>

\* An exception: Fail("backup_failed") exits and leaves the .tmp behind.
GiveUp(dir) ==
    /\ tmp' = [tmp EXCEPT ![today] = dir]
    /\ pc' = "down" /\ basis' = Torn
    /\ UNCHANGED <<disk, snaps, day, start, doomed, taken>>

\* The snapshot is to be of the moment at which its first file is copied.
Begun == IF pc = "book_main" THEN [d \in Db |-> Recovered(disk, d)] ELSE basis

\* Mutant: only the main files are copied.
CopyWithoutSidecars ==
    /\ pc \in CopySteps
    /\ LET f == Source(pc) IN
          IF disk[f[1]][f[2]] = Missing \/ f[2] = "log"
          THEN Goto(After(pc)) /\ basis' = Begun /\ UNCHANGED <<files, doomed, taken>>
          ELSE /\ tmp[today][f[1]][f[2]] = Missing
               /\ tmp' = [tmp EXCEPT ![today][f[1]][f[2]] = disk[f[1]][f[2]]]
               /\ basis' = Begun
               /\ Goto(After(pc))
               /\ UNCHANGED <<disk, snaps, doomed, taken>>

\* CopyWithSidecars: a file that exists is copied, but never over another one.
\* One that does not exist is passed over, and spoils the copy if a leftover of
\* that name is in the .tmp.
CopyFile ==
    /\ pc \in CopySteps
    /\ LET f == Source(pc)
           there == disk[f[1]][f[2]]
           left == tmp[today][f[1]][f[2]]
       IN  \/ /\ there = Missing
              /\ basis' = IF left = Missing THEN Begun ELSE Torn
              /\ Goto(After(pc))
              /\ UNCHANGED <<files, doomed, taken>>
           \/ /\ there # Missing /\ left = Missing
              /\ tmp' = [tmp EXCEPT ![today][f[1]][f[2]] = there]
              /\ basis' = Begun
              /\ Goto(After(pc))
              /\ UNCHANGED <<disk, snaps, doomed, taken>>
           \/ /\ there # Missing /\ left # Missing
              /\ GiveUp(tmp[today])
              /\ UNCHANGED counters

\* exists(source, ec) fails: the error is ignored and the file left out.
CopyOverlooks ==
    /\ pc \in CopySteps
    /\ LET f == Source(pc) IN disk[f[1]][f[2]] # Missing
    /\ pc' = After(pc) /\ basis' = Torn
    /\ faults < MaxFaults /\ faults' = faults + 1
    /\ UNCHANGED <<files, day, start, doomed, taken, writes, backs, crashes>>

\* A copy fails, for want of space say, and leaves half of the file.
CopyFails ==
    /\ pc \in CopySteps
    /\ LET f == Source(pc) IN
          /\ disk[f[1]][f[2]] # Missing
          /\ GiveUp([tmp[today] EXCEPT ![f[1]][f[2]] = Torn])
    /\ faults < MaxFaults /\ faults' = faults + 1
    /\ UNCHANGED <<writes, backs, crashes>>

\* create_directories or rename throws, or the increment of the directory
\* iterator, which has no error code to report to.
AttemptFails ==
    /\ pc \in {"mkdir", "rename", "list"}
    /\ GiveUp(tmp[today])
    /\ faults < MaxFaults /\ faults' = faults + 1
    /\ UNCHANGED <<writes, backs, crashes>>

\* rename(tmp, today): the snapshot is complete.
Rename ==
    /\ pc = "rename"
    /\ snaps' = [snaps EXCEPT ![today] = tmp[today]]
    /\ tmp' = [tmp EXCEPT ![today] = NoDir]
    /\ taken' = [taken EXCEPT ![today] = basis]
    /\ basis' = Torn
    /\ Goto("list")
    /\ UNCHANGED <<disk, doomed>>

\* Mutant: the newest stamps are taken for the oldest.
ListNewest ==
    /\ pc = "list"
    /\ doomed' = {d \in Stamps : Cardinality(Stamps \ Newer(d)) > keep}
    /\ Goto("prune")
    /\ UNCHANGED <<files, history>>

\* The stamped directories, sorted, as many as exceed keep_days.
ListStamps ==
    /\ pc = "list"
    /\ doomed' = {d \in Stamps : Cardinality(Newer(d)) >= keep}
    /\ Goto("prune")
    /\ UNCHANGED <<files, history>>

\* directory_iterator(root, ec) cannot be made: it is an empty one, and nothing
\* is pruned today.
ListFails ==
    /\ pc = "list"
    /\ doomed' = {} /\ pc' = "prune"
    /\ faults < MaxFaults /\ faults' = faults + 1
    /\ UNCHANGED <<files, day, start, history, writes, backs, crashes>>

\* One turn of the prune loop: remove_all of the oldest.
Prune ==
    /\ pc = "prune" /\ doomed # {}
    /\ snaps' = [snaps EXCEPT ![Oldest(doomed)] = NoDir]
    /\ doomed' = doomed \ {Oldest(doomed)}
    /\ UNCHANGED <<disk, tmp, day, pc, start, history, counters>>

\* remove_all stops halfway; its error code is ignored and the loop goes on.
PruneFails ==
    /\ pc = "prune" /\ doomed # {}
    /\ \E gone \in SUBSET (Db \X Part) :
          snaps' = [snaps EXCEPT ![Oldest(doomed)] = Without(snaps[Oldest(doomed)], gone)]
    /\ doomed' = doomed \ {Oldest(doomed)}
    /\ faults < MaxFaults /\ faults' = faults + 1
    /\ UNCHANGED <<disk, tmp, day, pc, start, history, writes, backs, crashes>>

Pruned ==
    /\ pc = "prune" /\ doomed = {}
    /\ Goto("open")
    /\ UNCHANGED <<files, doomed, history>>
-----------------------------------------------------------------------------
(* What surrounds it                                                        *)

\* Journal::Open creates a journal that is not there; SQLite recovers both.
Open ==
    /\ pc = "open"
    /\ disk' = [d \in Db |->
                  [p \in Part |-> IF p = "log" THEN Missing
                                  ELSE IF Recovered(disk, d) = Missing THEN 0
                                  ELSE Recovered(disk, d)]]
    /\ Goto("serving")
    /\ UNCHANGED <<tmp, snaps, doomed, history>>

Count == writes < MaxWrites /\ writes' = writes + 1

\* A transaction on the book begins: the old pages go to the rollback journal.
BeginWrite ==
    /\ disk["book"]["log"] = Missing /\ Count
    /\ disk' = [disk EXCEPT !["book"]["log"] = Recovered(disk, "book"), !["book"]["main"] = Torn]

\* It ends: the new pages are in the book, and the log is deleted.
EndWrite ==
    /\ disk["book"]["log"] # Missing /\ UNCHANGED writes
    /\ disk' = [disk EXCEPT !["book"]["main"] = writes, !["book"]["log"] = Missing]

\* The daemon's own writes: the book, the journal's log, its checkpoint.
DaemonWrites ==
    /\ pc = "serving"
    /\ \/ BeginWrite
       \/ EndWrite
       \/ /\ Count
          /\ disk' = [disk EXCEPT !["journal"]["log"] = writes + 1]
       \/ /\ disk["journal"]["log"] # Missing
          /\ disk' = [disk EXCEPT !["journal"]["main"] = disk["journal"]["log"],
                                  !["journal"]["log"] = Missing]
          /\ UNCHANGED writes
    /\ UNCHANGED <<tmp, snaps, day, pc, start, doomed, history, backs, crashes, faults>>

\* Desktop GnuCash does not know daichod's locks: while no daemon has the book
\* open it may write, also while one is copying; between the first byte copied of
\* the book and the last of its rollback journal that spoils the copy.
DesktopWrites ==
    /\ pc # "serving"
    /\ BeginWrite \/ EndWrite
    /\ basis' = IF pc = "book_log" THEN Torn ELSE basis
    /\ UNCHANGED <<tmp, snaps, day, pc, start, doomed, taken, backs, crashes, faults>>

Shutdown ==
    /\ pc = "serving" /\ disk["book"]["log"] = Missing
    /\ pc' = "down"
    /\ disk' = [disk EXCEPT !["journal"]["main"] = Recovered(disk, "journal"),
                            !["journal"]["log"] = Missing]
    /\ UNCHANGED <<tmp, snaps, day, start, doomed, history, counters>>

Crash ==
    /\ pc # "down"
    /\ crashes < MaxCrashes /\ crashes' = crashes + 1
    /\ pc' = "down" /\ doomed' = {} /\ basis' = Torn
    /\ UNCHANGED <<files, day, start, taken, writes, backs, faults>>

Tick ==
    /\ day < MaxDay /\ day' = day + 1
    /\ UNCHANGED <<files, pc, start, doomed, history, counters>>

\* The clock, or the time zone, is set back by a day.
ClockBack ==
    /\ day > 1 /\ day' = day - 1
    /\ backs < MaxBack /\ backs' = backs + 1
    /\ UNCHANGED <<files, pc, start, doomed, history, writes, crashes, faults>>

SnapshotBeforeOpen ==
    \/ Exists \/ RemoveTmp \/ MakeTmp \/ CopyFile \/ Rename
    \/ ListStamps \/ Prune \/ Pruned

Restart == \E k \in KeepOptions : Start(k)

Next ==
    \/ Restart \/ SnapshotBeforeOpen \/ Open
    \/ RemoveTmpFails \/ CopyOverlooks \/ CopyFails \/ AttemptFails \/ ListFails \/ PruneFails
    \/ DaemonWrites \/ DesktopWrites \/ Shutdown \/ Crash \/ Tick \/ ClockBack

Spec == Init /\ [][Next]_vars

(***************************************************************************)
(* A start goes on until it serves or fails, and the supervisor restarts a *)
(* daemon that is down.                                                    *)
(***************************************************************************)
Fairness == WF_vars(SnapshotBeforeOpen) /\ WF_vars(Open) /\ WF_vars(Restart)

LiveSpec == Spec /\ Fairness
-----------------------------------------------------------------------------
BackupTypeOK ==
    /\ disk \in Dir /\ day \in Days /\ today \in Days
    /\ tmp \in [Days -> Dir \cup {NoDir}] /\ snaps \in [Days -> Dir \cup {NoDir}]
    /\ pc \in Steps \cup {"down", "serving"}
    /\ keep \in 0 .. SizeValues - 1 /\ least \in 0 .. SizeValues /\ doomed \subseteq Days
    /\ basis \in [Db -> Content] \cup {Torn}
    /\ taken \in [Days -> [Db -> Content] \cup {Torn}]
    /\ writes \in 0 .. MaxWrites /\ backs \in 0 .. MaxBack
    /\ crashes \in 0 .. MaxCrashes /\ faults \in 0 .. MaxFaults

\* A snapshot that was completed although it cannot be trusted: a leftover that
\* remove_all did not get rid of is in it, a file that could not be asked for is
\* not, or desktop GnuCash was writing while the book was copied.
Spoiled(d) == taken[d] = Torn

\* Snapshot d restores what book and journal held when its copying began.
Exact(d) == \A db \in Db : Recovered(snaps[d], db) = taken[d][db]

(***************************************************************************)
(* Among the newest keep_days directories with a stamp, every one restores *)
(* the book and the journal of the moment its copying began, except those  *)
(* spoiled while they were copied: by a leftover that remove_all, its      *)
(* error ignored, did not remove; by a file left out because exists failed *)
(* and its error was ignored; by desktop GnuCash writing the book.  A      *)
(* crash, a copy, rename or removal that fails, and the pruning of other   *)
(* stamps spoil none.  The sources promise more, no exception at all: a    *)
(* failed attempt "can never be mistaken for a completed one" (backup.h),  *)
(* a "retry begins clean" (backup.cpp), the files are "quiescent"          *)
(* (main.cpp); that stronger promise the code does not keep.               *)
(***************************************************************************)
UnspoiledAreExact ==
    \A d \in Stamps : Cardinality(Newer(d)) < least => Spoiled(d) \/ Exact(d)

(***************************************************************************)
(* backup.h: "refusing to serve without the safety net".  A daemon that is *)
(* past the snapshot has one of its day, unless keep_days newer ones exist *)
(* (the clock was set back, or keep_days is 0).                            *)
(***************************************************************************)
SafetyNet ==
    pc \in {"open", "serving"} => today \in Stamps \/ Cardinality(Newer(today)) >= least

(***************************************************************************)
(* A snapshot that was taken is never written again, and is damaged or     *)
(* removed only when keep_days newer ones exist.                           *)
(***************************************************************************)
PruneKeepsNewest ==
    [][\A d \in Stamps : snaps'[d] # snaps[d] => Cardinality(Newer(d)) >= least]_vars

(***************************************************************************)
(* Whatever an earlier attempt left behind, the daemon that is restarted   *)
(* serves in the end, once files can be removed and copied again.          *)
(***************************************************************************)
LeftoversDoNotBlock == pc = "down" ~> pc = "serving"
=============================================================================
