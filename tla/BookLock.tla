------------------------------ MODULE BookLock ------------------------------
(***************************************************************************)
(* Who may have the book open.  Daemons on one host start, serve, stop and *)
(* crash; each takes the flock of its socket path and then the flock of    *)
(* the book (src/main.cpp), and then meets the engine's own lock, a row in *)
(* the book that outlives a crash (src/engine/session.cpp).  Desktop       *)
(* GnuCash, here or on another host, knows only that row.                  *)
(*                                                                         *)
(* A flock dies with its process; the row, the PID file and the socket     *)
(* file do not.  PIDs are reused once their process is gone.  The book is  *)
(* a sqlite3 one, opened for writing.                                      *)
(***************************************************************************)
EXTENDS Naturals, FiniteSets

CONSTANTS Daemons,    \* runs of daichod on this book
          Desktops,   \* desktop GnuCash programs
          Sockets,    \* --socket paths
          Pids,       \* process ids
          Hosts,      \* hosts
          Here,       \* the host of the daemons
          HostOf,     \* the host of each desktop
          MaxOpens    \* bound: how often each desktop opens the book

ASSUME HostAssumption == Here \in Hosts /\ HostOf \in [Desktops -> Hosts]
ASSUME OpensAssumption == MaxOpens \in Nat

None == "none"
Book == "book"              \* <book>.daichod.lock
Locks == Sockets \cup {Book}   \* the lock files; <socket>.lock is named by its path

ASSUME NameAssumption ==
    /\ None \notin Daemons /\ None \notin Pids /\ Daemons \cap Desktops = {}
    /\ Book \notin Sockets

VARIABLES
    pc,        \* per daemon, where it is between its start and its end
    sock,      \* per daemon, its --socket
    pid,       \* per process, its PID while it runs, else None
    holder,    \* per lock file, the daemon that has the flock
    pidFile,   \* per lock file, the PID in the PID file beside it
    sockFile,  \* per socket path, the daemon that listens on the socket file
    gnclock,   \* the rows of the engine's lock table
    opens      \* per desktop, how often it has opened the book

vars == <<pc, sock, pid, holder, pidFile, sockFile, gnclock, opens>>

Processes == Daemons \cup Desktops

Init ==
    /\ pc = [d \in Daemons |-> "unborn"]
    /\ sock \in [Daemons -> Sockets]
    /\ pid = [p \in Processes |-> None]
    /\ holder = [l \in Locks |-> None] /\ pidFile = [l \in Locks |-> None]
    /\ sockFile = [s \in Sockets |-> None]
    /\ gnclock = {} /\ opens = [g \in Desktops |-> 0]

LocalPids == {pid[p] : p \in {q \in Processes : q \in Desktops => HostOf[q] = Here}}
Row(p) == [host |-> IF p \in Daemons THEN Here ELSE HostOf[p], pid |-> pid[p]]

Goto(d, s) == pc' = [pc EXCEPT ![d] = s] /\ UNCHANGED <<sock, opens>>

\* The process is gone, and its flocks with it.
Die(d) ==
    /\ Goto(d, "gone")
    /\ pid' = [pid EXCEPT ![d] = None]
    /\ holder' = [l \in Locks |-> IF holder[l] = d THEN None ELSE holder[l]]

Spawn(d, n) ==
    /\ pc[d] = "unborn" /\ n \notin LocalPids
    /\ pid' = [pid EXCEPT ![d] = n]
    /\ Goto(d, "socket")
    /\ UNCHANGED <<holder, pidFile, sockFile, gnclock>>
-----------------------------------------------------------------------------
(* AcquireLocks                                                             *)

\* The socket's lock first, then the book's.
LockAt(d) == IF pc[d] \in {"socket", "socket pid"} THEN sock[d] ELSE Book

\* Mutant: the lock is taken without asking whether it is held.
FlockBlindly(d) ==
    /\ pc[d] \in {"socket", "book"}
    /\ holder' = [holder EXCEPT ![LockAt(d)] = d]
    /\ Goto(d, IF pc[d] = "socket" THEN "socket pid" ELSE "book pid")
    /\ UNCHANGED <<pid, pidFile, sockFile, gnclock>>

\* Mutant: the PID file is written before the lock is asked for.
FlockAfterPidFile(d) ==
    /\ pc[d] \in {"socket", "book"}
    /\ \/ /\ holder[LockAt(d)] = None
          /\ holder' = [holder EXCEPT ![LockAt(d)] = d]
          /\ Goto(d, IF pc[d] = "socket" THEN "socket pid" ELSE "book pid")
          /\ UNCHANGED pid
       \/ holder[LockAt(d)] # None /\ Die(d)
    /\ pidFile' = [pidFile EXCEPT ![LockAt(d)] = pid[d]]
    /\ UNCHANGED <<sockFile, gnclock>>

\* AcquireOneLock: flock(LOCK_EX | LOCK_NB), and Fail() if somebody has it.
Flock(d) ==
    /\ pc[d] \in {"socket", "book"}
    /\ \/ /\ holder[LockAt(d)] = None
          /\ holder' = [holder EXCEPT ![LockAt(d)] = d]
          /\ Goto(d, IF pc[d] = "socket" THEN "socket pid" ELSE "book pid")
          /\ UNCHANGED pid
       \/ holder[LockAt(d)] # None /\ Die(d)
    /\ UNCHANGED <<pidFile, sockFile, gnclock>>

\* Mutant: the name of the lock ends up in the PID file.
WriteLockName(d) ==
    /\ pc[d] \in {"socket pid", "book pid"}
    /\ pidFile' = [pidFile EXCEPT ![LockAt(d)] = LockAt(d)]
    /\ Goto(d, IF pc[d] = "socket pid" THEN "book" ELSE "unlink")
    /\ UNCHANGED <<pid, holder, sockFile, gnclock>>

\* AcquireOneLock: the PID file is written under the lock.
WritePidFile(d) ==
    /\ pc[d] \in {"socket pid", "book pid"}
    /\ pidFile' = [pidFile EXCEPT ![LockAt(d)] = pid[d]]
    /\ Goto(d, IF pc[d] = "socket pid" THEN "book" ELSE "unlink")
    /\ UNCHANGED <<pid, holder, sockFile, gnclock>>

\* A socket file found here was left by a daemon that is gone.
UnlinkSocket(d) ==
    /\ pc[d] = "unlink"
    /\ sockFile' = [sockFile EXCEPT ![sock[d]] = None]
    /\ Goto(d, "begin")
    /\ UNCHANGED <<pid, holder, pidFile, gnclock>>
-----------------------------------------------------------------------------
(* Session::Open and Close, at startup and by the OpenBook and CloseBook     *)
(* calls of a client.  A daemon that listens is "serving" while its book is  *)
(* open and "idle" while it is closed.                                       *)

\* qof_session_begin(SESSION_NORMAL_OPEN): a row, whosever, means LOCKED.
BeginNormal(d) ==
    /\ pc[d] \in {"begin", "idle"}
    /\ \/ gnclock = {} /\ gnclock' = {Row(d)}
          /\ Goto(d, IF pc[d] = "begin" THEN "listen" ELSE "serving")
       \/ gnclock # {} /\ UNCHANGED gnclock
          /\ Goto(d, IF pc[d] = "begin" THEN "inspect" ELSE "reinspect")
    /\ UNCHANGED <<pid, holder, pidFile, sockFile>>

GncLockIsProvablyStale == \A r \in gnclock : r.host = Here /\ r.pid \notin LocalPids

\* The rows are read over a connection of its own, after begin has failed.  If
\* one may be live, the startup fails, and so does the call of a client.
Inspect(d) ==
    /\ pc[d] \in {"inspect", "reinspect"}
    /\ \/ /\ GncLockIsProvablyStale
          /\ Goto(d, IF pc[d] = "inspect" THEN "break" ELSE "rebreak")
          /\ UNCHANGED <<holder, pid>>
       \/ ~GncLockIsProvablyStale /\ pc[d] = "inspect" /\ Die(d)
       \/ /\ ~GncLockIsProvablyStale /\ pc[d] = "reinspect"
          /\ Goto(d, "idle") /\ UNCHANGED <<holder, pid>>
    /\ UNCHANGED <<pidFile, sockFile, gnclock>>

\* qof_session_begin(SESSION_BREAK_LOCK): whatever rows there are now go.
BreakLock(d) ==
    /\ pc[d] \in {"break", "rebreak"}
    /\ gnclock' = {Row(d)}
    /\ Goto(d, IF pc[d] = "break" THEN "listen" ELSE "serving")
    /\ UNCHANGED <<pid, holder, pidFile, sockFile>>

Listen(d) ==
    /\ pc[d] = "listen"
    /\ sockFile' = [sockFile EXCEPT ![sock[d]] = d]
    /\ Goto(d, "serving")
    /\ UNCHANGED <<pid, holder, pidFile, gnclock>>

\* qof_session_end deletes the lock if the row is its own.
Unlock(p) == gnclock' = IF Row(p) \in gnclock THEN {} ELSE gnclock

\* Session::Close, for a client or at the end of Run; also what a client's
\* OpenBook does when the book does not load.
CloseBook(d) ==
    /\ pc[d] = "serving"
    /\ Unlock(d)
    /\ Goto(d, "idle") \/ Goto(d, "closed")
    /\ UNCHANGED <<pid, holder, pidFile, sockFile>>

\* The end of Run finds the book closed by a client.
NothingToClose(d) ==
    /\ pc[d] = "idle"
    /\ Goto(d, "closed")
    /\ UNCHANGED <<pid, holder, pidFile, sockFile, gnclock>>

\* Mutant: the process lets go of its locks before it removes the socket file.
UnlockBeforeUnlink(d) ==
    /\ pc[d] = "closed"
    /\ IF holder[Book] = d
       THEN /\ holder' = [l \in Locks |-> IF holder[l] = d THEN None ELSE holder[l]]
            /\ UNCHANGED <<pc, sock, opens, sockFile>>
       ELSE /\ sockFile' = [sockFile EXCEPT ![sock[d]] = None]
            /\ Goto(d, "exiting") /\ UNCHANGED holder
    /\ UNCHANGED <<pid, pidFile, gnclock>>

\* The end of Run: remove the socket file, then exit.
Finish(d) ==
    /\ pc[d] = "closed"
    /\ sockFile' = [sockFile EXCEPT ![sock[d]] = None]
    /\ Goto(d, "exiting")
    /\ UNCHANGED <<pid, holder, pidFile, gnclock>>

Exit(d) ==
    /\ pc[d] = "exiting"
    /\ Die(d)
    /\ UNCHANGED <<pidFile, sockFile, gnclock>>

\* abort(), kill -9, or Fail() in a later startup step: nothing is cleaned up.
Crash(d) ==
    /\ pc[d] \notin {"unborn", "gone"}
    /\ Die(d)
    /\ UNCHANGED <<pidFile, sockFile, gnclock>>
-----------------------------------------------------------------------------
(* Desktop GnuCash                                                          *)

DesktopOpen(g, n) ==
    /\ pid[g] = None /\ opens[g] < MaxOpens
    /\ gnclock = {}
    /\ HostOf[g] = Here => n \notin LocalPids
    /\ pid' = [pid EXCEPT ![g] = n]
    /\ gnclock' = {[host |-> HostOf[g], pid |-> n]}
    /\ opens' = [opens EXCEPT ![g] = @ + 1]
    /\ UNCHANGED <<pc, sock, holder, pidFile, sockFile>>

DesktopClose(g) ==
    /\ pid[g] # None
    /\ Unlock(g)
    /\ pid' = [pid EXCEPT ![g] = None]
    /\ UNCHANGED <<pc, sock, holder, pidFile, sockFile, opens>>

DesktopCrash(g) ==
    /\ pid[g] # None
    /\ pid' = [pid EXCEPT ![g] = None]
    /\ UNCHANGED <<pc, sock, holder, pidFile, sockFile, gnclock, opens>>
-----------------------------------------------------------------------------
AcquireLocks(d) == Flock(d) \/ WritePidFile(d) \/ UnlinkSocket(d)
Session(d) == BeginNormal(d) \/ Inspect(d) \/ BreakLock(d) \/ Listen(d)
Shutdown(d) == CloseBook(d) \/ NothingToClose(d) \/ Finish(d) \/ Exit(d)

Next ==
    \/ \E d \in Daemons : \/ \E n \in Pids : Spawn(d, n)
                          \/ AcquireLocks(d) \/ Session(d) \/ Shutdown(d) \/ Crash(d)
    \/ \E g \in Desktops : \/ \E n \in Pids : DesktopOpen(g, n)
                           \/ DesktopClose(g) \/ DesktopCrash(g)

Spec == Init /\ [][Next]_vars
-----------------------------------------------------------------------------
Stage == {"unborn", "socket", "socket pid", "book", "book pid", "unlink", "begin",
          "inspect", "break", "listen", "serving", "idle", "reinspect", "rebreak",
          "closed", "exiting", "gone"}

TypeOK ==
    /\ pc \in [Daemons -> Stage] /\ sock \in [Daemons -> Sockets]
    /\ pid \in [Processes -> Pids \cup {None}]
    /\ holder \in [Locks -> Daemons \cup {None}]
    /\ pidFile \in [Locks -> Pids \cup {None}]
    /\ sockFile \in [Sockets -> Daemons \cup {None}]
    /\ gnclock \subseteq [host : Hosts, pid : Pids]
    /\ opens \in [Desktops -> 0 .. MaxOpens]

\* The stages at which clients can call a daemon, whether or not its book is open.
Listening == {"serving", "idle", "reinspect", "rebreak"}

\* The stages at which it is at the book: from the engine's lock on.
AtTheBook == {"begin", "inspect", "break", "listen", "closed"} \cup Listening

(***************************************************************************)
(* DESIGN.md: "a second instance pointed at the same book fails loudly at  *)
(* startup regardless of which socket it was given".  No two daemons are   *)
(* ever past AcquireLocks together, crashes and broken locks included.     *)
(***************************************************************************)
OneDaemon ==
    \A d, e \in Daemons : pc[d] \in AtTheBook /\ pc[e] \in AtTheBook => d = e

(***************************************************************************)
(* The socket file clients connect to is the daemon's that listens, also   *)
(* while its book is closed: neither a second instance that starts nor a   *)
(* first one that stops takes it away.                                     *)
(***************************************************************************)
ServingIsReachable ==
    \A d \in Daemons : pc[d] \in Listening => sockFile[sock[d]] = d

(***************************************************************************)
(* The PID files beside the locks name the daemon that listens, however    *)
(* many instances tried to start meanwhile.                                *)
(***************************************************************************)
PidFilesTrue ==
    \A d \in Daemons : pc[d] \in Listening =>
        pidFile[Book] = pid[d] /\ pidFile[sock[d]] = pid[d]

(***************************************************************************)
(* DESIGN.md: "desktop GnuCash's live lock is never stolen".               *)
(***************************************************************************)
LiveLockKept == \A g \in Desktops : pid[g] # None => Row(g) \in gnclock

\* The exclusion argument: who is past a flock holds it.
LocksHeld ==
    \A d \in Daemons :
        /\ pc[d] \notin {"unborn", "socket", "gone"} => holder[sock[d]] = d
        /\ pc[d] \in AtTheBook \cup {"book pid", "unlink", "exiting"} => holder[Book] = d
=============================================================================
