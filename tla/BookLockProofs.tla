--------------------------- MODULE BookLockProofs ---------------------------
(***************************************************************************)
(* At most one daemon is ever at the book, and the files beside the book   *)
(* and the socket are its own, for any number of daemons, desktops,        *)
(* sockets and PIDs.                                                       *)
(***************************************************************************)
EXTENDS BookLock, TLAPS

\* The part of the type invariant that the exclusion argument rests on.
LockTypes ==
    /\ pc \in [Daemons -> Stage] /\ sock \in [Daemons -> Sockets]
    /\ holder \in [Locks -> Daemons \cup {None}]

LockInv == LockTypes /\ LocksHeld

LEMMA LockInvInit == Init => LockInv
  BY DEF Init, LockInv, LockTypes, LocksHeld, AtTheBook, Listening, Stage

\* A daemon that goes takes its flocks along and nobody else's.
LEMMA DieKeepsLocks ==
    ASSUME LockInv, NEW d \in Daemons, Die(d)
    PROVE  LockInv'
<1> USE NameAssumption DEF LockInv, LockTypes, Locks
<1>1. LockTypes'
  BY DEF Die, Goto, Stage
<1>2. ASSUME NEW e \in Daemons, e # d
      PROVE  /\ pc'[e] = pc[e] /\ sock'[e] = sock[e]
             /\ \A l \in Locks : holder[l] = e => holder'[l] = e
  BY <1>2 DEF Die, Goto
<1>3. pc'[d] = "gone"
  BY DEF Die, Goto
<1>4. LocksHeld'
  <2> SUFFICES ASSUME NEW e \in Daemons
               PROVE  /\ pc'[e] \notin {"unborn", "socket", "gone"} => holder'[sock'[e]] = e
                      /\ pc'[e] \in AtTheBook \cup {"book pid", "unlink", "exiting"} =>
                            holder'[Book] = e
    BY DEF LocksHeld
  <2>1. CASE e = d
    BY <1>3, <2>1 DEF AtTheBook, Listening
  <2>2. CASE e # d
    <3>1. sock[e] \in Locks /\ Book \in Locks
      OBVIOUS
    <3>2. /\ pc'[e] = pc[e] /\ sock'[e] = sock[e]
          /\ holder[sock[e]] = e => holder'[sock[e]] = e
          /\ holder[Book] = e => holder'[Book] = e
      BY <1>2, <2>2, <3>1
    <3>3. /\ pc[e] \notin {"unborn", "socket", "gone"} => holder[sock[e]] = e
          /\ pc[e] \in AtTheBook \cup {"book pid", "unlink", "exiting"} => holder[Book] = e
      BY DEF LocksHeld
    <3> QED  BY <3>2, <3>3
  <2> QED  BY <2>1, <2>2
<1> QED  BY <1>1, <1>4

\* A daemon that moves on without touching a flock must hold what its new
\* stage requires.
LEMMA GotoKeepsLocks ==
    ASSUME LockInv, NEW d \in Daemons, NEW s \in Stage, Goto(d, s), UNCHANGED holder,
           s \notin {"unborn", "socket", "gone"} => holder[sock[d]] = d,
           s \in AtTheBook \cup {"book pid", "unlink", "exiting"} => holder[Book] = d
    PROVE  LockInv'
  BY DEF LockInv, LockTypes, LocksHeld, Goto, AtTheBook, Listening

\* A flock that was free is taken.
LEMMA FlockKeepsLocks ==
    ASSUME LockInv, NEW d \in Daemons, Flock(d)
    PROVE  LockInv'
<1> USE NameAssumption DEF LockInv, LockTypes, Locks
<1>1. CASE holder[LockAt(d)] # None
  BY <1>1, DieKeepsLocks DEF Flock
<1>2. CASE holder[LockAt(d)] = None
  <2> DEFINE l == LockAt(d)
  <2>1. /\ pc[d] \in {"socket", "book"} /\ l \in Locks
        /\ l = IF pc[d] = "socket" THEN sock[d] ELSE Book
        /\ holder' = [holder EXCEPT ![l] = d] /\ sock' = sock
        /\ pc' = [pc EXCEPT ![d] = IF pc[d] = "socket" THEN "socket pid" ELSE "book pid"]
    BY <1>2 DEF Flock, Goto, LockAt
  <2>2. LockTypes'
    BY <2>1 DEF Stage
  <2>3. ASSUME NEW e \in Daemons, e # d
        PROVE  /\ pc'[e] = pc[e] /\ sock'[e] = sock[e]
               /\ \A k \in Locks : holder[k] = e => holder'[k] = e
    BY <1>2, <2>1, <2>3
  <2>4. /\ pc'[d] \notin {"unborn", "socket", "gone"} => holder'[sock'[d]] = d
        /\ pc'[d] \in AtTheBook \cup {"book pid", "unlink", "exiting"} => holder'[Book] = d
    <3>1. CASE pc[d] = "socket"
      BY <2>1, <3>1 DEF AtTheBook, Listening
    <3>2. CASE pc[d] = "book"
      <4>1. holder[sock[d]] = d /\ l = Book /\ pc'[d] = "book pid"
        BY <2>1, <3>2 DEF LocksHeld
      <4> QED  BY <2>1, <4>1
    <3> QED  BY <2>1, <3>1, <3>2
  <2>5. LocksHeld'
    <3> SUFFICES ASSUME NEW e \in Daemons, e # d
                 PROVE  /\ pc'[e] \notin {"unborn", "socket", "gone"} => holder'[sock'[e]] = e
                        /\ pc'[e] \in AtTheBook \cup {"book pid", "unlink", "exiting"} =>
                              holder'[Book] = e
      BY <2>4 DEF LocksHeld
    <3>1. sock[e] \in Locks /\ Book \in Locks
      OBVIOUS
    <3>2. /\ pc'[e] = pc[e] /\ sock'[e] = sock[e]
          /\ holder[sock[e]] = e => holder'[sock[e]] = e
          /\ holder[Book] = e => holder'[Book] = e
      BY <2>3, <3>1
    <3>3. /\ pc[e] \notin {"unborn", "socket", "gone"} => holder[sock[e]] = e
          /\ pc[e] \in AtTheBook \cup {"book pid", "unlink", "exiting"} => holder[Book] = e
      BY DEF LocksHeld
    <3> QED  BY <3>2, <3>3
  <2> QED  BY <2>2, <2>5
<1> QED  BY <1>1, <1>2

LEMMA LockInvStep == LockInv /\ [Next]_vars => LockInv'
<1> SUFFICES ASSUME LockInv, [Next]_vars PROVE LockInv'
  OBVIOUS
<1>1. ASSUME NEW d \in Daemons, NEW n \in Pids, Spawn(d, n) PROVE LockInv'
  BY <1>1, GotoKeepsLocks DEF Spawn, Stage, AtTheBook, Listening
<1>2. ASSUME NEW d \in Daemons, AcquireLocks(d) PROVE LockInv'
  <2>1. CASE Flock(d)
    BY <2>1, FlockKeepsLocks
  <2>2. CASE WritePidFile(d) \/ UnlinkSocket(d)
    BY <2>2, GotoKeepsLocks
    DEF WritePidFile, UnlinkSocket, Stage, AtTheBook, Listening, LockInv, LocksHeld
  <2> QED  BY <1>2, <2>1, <2>2 DEF AcquireLocks
<1>3. ASSUME NEW d \in Daemons, Session(d) PROVE LockInv'
  <2>1. CASE BeginNormal(d) \/ BreakLock(d) \/ Listen(d)
    BY <2>1, GotoKeepsLocks
    DEF BeginNormal, BreakLock, Listen, Stage, AtTheBook, Listening, LockInv, LocksHeld
  <2>2. CASE Inspect(d)
    BY <2>2, GotoKeepsLocks, DieKeepsLocks
    DEF Inspect, Stage, AtTheBook, Listening, LockInv, LocksHeld
  <2> QED  BY <1>3, <2>1, <2>2 DEF Session
<1>4. ASSUME NEW d \in Daemons, Shutdown(d) \/ Crash(d) PROVE LockInv'
  <2>1. CASE CloseBook(d) \/ NothingToClose(d) \/ Finish(d)
    BY <2>1, GotoKeepsLocks
    DEF CloseBook, NothingToClose, Finish, Stage, AtTheBook, Listening, LockInv, LocksHeld
  <2>2. CASE Exit(d) \/ Crash(d)
    BY <2>2, DieKeepsLocks DEF Exit, Crash
  <2> QED  BY <1>4, <2>1, <2>2 DEF Shutdown
<1>5. CASE \/ UNCHANGED vars
           \/ \E g \in Desktops : \/ \E n \in Pids : DesktopOpen(g, n)
                                  \/ DesktopClose(g) \/ DesktopCrash(g)
  <2>1. UNCHANGED <<pc, sock, holder>>
    BY <1>5 DEF vars, DesktopOpen, DesktopClose, DesktopCrash
  <2> QED  BY <2>1 DEF LockInv, LockTypes, LocksHeld
<1> QED  BY <1>1, <1>2, <1>3, <1>4, <1>5 DEF Next

(***************************************************************************)
(* main.cpp, AcquireLocks: "a second instance on the same book fails       *)
(* loudly", regardless of --socket, of crashes and of broken engine locks. *)
(***************************************************************************)
THEOREM AtMostOneDaemon == Spec => []OneDaemon
<1>1. LockInv => OneDaemon
  BY NameAssumption DEF LockInv, LocksHeld, OneDaemon
<1> QED  BY <1>1, LockInvInit, LockInvStep, PTL DEF Spec
-----------------------------------------------------------------------------
(* What the holders of the locks find in the files beside them.             *)

\* A daemon that runs has a PID.
PidsInHand == \A d \in Daemons : pc[d] \notin {"unborn", "gone"} => pid[d] # None

\* Once written, the PID files and the socket file of a daemon stay its own
\* until it lets go.
FilesInHand ==
    \A d \in Daemons :
        /\ pc[d] \notin {"unborn", "socket", "socket pid", "gone"} => pidFile[sock[d]] = pid[d]
        /\ pc[d] \in AtTheBook \cup {"unlink", "exiting"} => pidFile[Book] = pid[d]
        /\ pc[d] \in Listening => sockFile[sock[d]] = d

DaemonInv == TypeOK /\ LocksHeld /\ PidsInHand /\ FilesInHand

LEMMA DaemonInvInit == Init => DaemonInv
  BY OpensAssumption DEF Init, DaemonInv, TypeOK, LocksHeld, PidsInHand, FilesInHand, AtTheBook,
                         Listening, Stage, Processes

\* The row a running process leaves in the engine's lock table.
LEMMA RowIsTyped ==
    ASSUME DaemonInv, NEW d \in Daemons, pc[d] \notin {"unborn", "gone"}
    PROVE  Row(d) \in [host : Hosts, pid : Pids]
<1>1. pid[d] \in Pids
  BY DEF DaemonInv, TypeOK, PidsInHand, Processes
<1> QED  BY <1>1, HostAssumption DEF Row

LEMMA DaemonTypes ==
    ASSUME DaemonInv, NEW d \in Daemons,
           (\E n \in Pids : Spawn(d, n)) \/ AcquireLocks(d) \/ Session(d) \/ Shutdown(d) \/ Crash(d)
    PROVE  TypeOK'
<1> USE DEF TypeOK, Goto, Stage
<1>0. TypeOK /\ d \in Processes /\ sock[d] \in Locks /\ Book \in Locks
  BY DEF DaemonInv, Processes, Locks
<1>1. CASE \E n \in Pids : Spawn(d, n)
  BY <1>0, <1>1 DEF Spawn
<1>2. ASSUME Die(d), UNCHANGED <<pidFile, sockFile, gnclock>> PROVE TypeOK'
  BY <1>0, <1>2 DEF Die
<1>3. CASE Flock(d)
  <2>1. CASE holder[LockAt(d)] # None
    BY <1>2, <1>3, <2>1 DEF Flock
  <2>2. CASE holder[LockAt(d)] = None
    BY <1>0, <1>3, <2>2, NameAssumption DEF Flock, Die
  <2> QED  BY <2>1, <2>2
<1>4. CASE WritePidFile(d) \/ UnlinkSocket(d)
  BY <1>0, <1>4 DEF WritePidFile, UnlinkSocket
<1>5. CASE BeginNormal(d) \/ BreakLock(d)
  <2>1. Row(d) \in [host : Hosts, pid : Pids]
    BY <1>5, RowIsTyped DEF BeginNormal, BreakLock
  <2> QED  BY <1>0, <1>5, <2>1 DEF BeginNormal, BreakLock
<1>6. CASE Inspect(d)
  BY <1>0, <1>2, <1>6 DEF Inspect
<1>7. CASE Listen(d) \/ CloseBook(d) \/ NothingToClose(d) \/ Finish(d)
  BY <1>0, <1>7 DEF Listen, CloseBook, NothingToClose, Finish, Unlock
<1>8. CASE Exit(d) \/ Crash(d)
  BY <1>2, <1>8 DEF Exit, Crash
<1> QED  BY <1>1, <1>3, <1>4, <1>5, <1>6, <1>7, <1>8 DEF AcquireLocks, Session, Shutdown

\* A daemon writes only to files whose lock it holds, so the others' are safe.
LEMMA OnlyOwnFiles ==
    ASSUME DaemonInv, NEW e \in Daemons,
           \A d \in Daemons \ {e} : pc'[d] = pc[d] /\ sock'[d] = sock[d] /\ pid'[d] = pid[d],
           \A l \in Locks : holder[l] # e => pidFile'[l] = pidFile[l],
           \A s \in Sockets : holder[s] # e => sockFile'[s] = sockFile[s],
           pc'[e] \notin {"unborn", "gone"} => pid'[e] # None,
           pc'[e] \notin {"unborn", "socket", "socket pid", "gone"} =>
               pidFile'[sock'[e]] = pid'[e],
           pc'[e] \in AtTheBook \cup {"unlink", "exiting"} => pidFile'[Book] = pid'[e],
           pc'[e] \in Listening => sockFile'[sock'[e]] = e
    PROVE  PidsInHand' /\ FilesInHand'
<1>1. PidsInHand'
  <2> SUFFICES ASSUME NEW d \in Daemons, pc'[d] \notin {"unborn", "gone"} PROVE pid'[d] # None
    BY DEF PidsInHand
  <2>1. CASE d = e
    BY <2>1
  <2>2. CASE d # e
    BY <2>2 DEF DaemonInv, PidsInHand
  <2> QED  BY <2>1, <2>2
<1>2. FilesInHand'
  <2> SUFFICES ASSUME NEW d \in Daemons
               PROVE  /\ pc'[d] \notin {"unborn", "socket", "socket pid", "gone"} =>
                            pidFile'[sock'[d]] = pid'[d]
                      /\ pc'[d] \in AtTheBook \cup {"unlink", "exiting"} =>
                            pidFile'[Book] = pid'[d]
                      /\ pc'[d] \in Listening => sockFile'[sock'[d]] = d
    BY DEF FilesInHand
  <2>1. CASE d = e
    BY <2>1
  <2>2. CASE d # e
    <3>1. /\ pc'[d] = pc[d] /\ sock'[d] = sock[d] /\ pid'[d] = pid[d]
          /\ sock[d] \in Sockets /\ sock[d] \in Locks /\ Book \in Locks
      BY <2>2 DEF DaemonInv, TypeOK, Locks
    <3>2. /\ pc[d] \notin {"unborn", "socket", "gone"} => holder[sock[d]] # e
          /\ pc[d] \in AtTheBook \cup {"unlink", "exiting"} => holder[Book] # e
      BY <2>2 DEF DaemonInv, LocksHeld
    <3>3. /\ pc[d] \notin {"unborn", "socket", "socket pid", "gone"} => pidFile[sock[d]] = pid[d]
          /\ pc[d] \in AtTheBook \cup {"unlink", "exiting"} => pidFile[Book] = pid[d]
          /\ pc[d] \in Listening => sockFile[sock[d]] = d
      BY DEF DaemonInv, FilesInHand
    <3> QED  BY <3>1, <3>2, <3>3 DEF Listening
  <2> QED  BY <2>1, <2>2
<1> QED  BY <1>1, <1>2

LEMMA DaemonFiles ==
    ASSUME DaemonInv, NEW d \in Daemons,
           (\E n \in Pids : Spawn(d, n)) \/ AcquireLocks(d) \/ Session(d) \/ Shutdown(d) \/ Crash(d)
    PROVE  PidsInHand' /\ FilesInHand'
<1> USE DEF Goto
<1>0. /\ TypeOK /\ d \in Processes /\ sock[d] \in Locks /\ Book \in Locks
      /\ Sockets \subseteq Locks /\ Daemons \subseteq Processes
  BY DEF DaemonInv, TypeOK, Processes, Locks
<1>1. /\ pc[d] \notin {"unborn", "gone"} => pid[d] # None
      /\ pc[d] \notin {"unborn", "socket", "socket pid", "gone"} => pidFile[sock[d]] = pid[d]
      /\ pc[d] \in AtTheBook \cup {"unlink", "exiting"} => pidFile[Book] = pid[d]
      /\ pc[d] \notin {"unborn", "socket", "gone"} => holder[sock[d]] = d
      /\ pc[d] \in AtTheBook \cup {"book pid", "unlink", "exiting"} => holder[Book] = d
      /\ pc[d] \in Listening => sockFile[sock[d]] = d
  BY DEF DaemonInv, PidsInHand, FilesInHand, LocksHeld
<1>2. CASE \E n \in Pids : Spawn(d, n)
  <2>1. PICK n \in Pids : Spawn(d, n)
    BY <1>2
  <2>2. pc'[d] = "socket" /\ pid'[d] # None /\ UNCHANGED <<pidFile, sockFile>>
    BY <1>0, <2>1, NameAssumption DEF Spawn, TypeOK
  <2>3. \A e \in Daemons \ {d} : pc'[e] = pc[e] /\ sock'[e] = sock[e] /\ pid'[e] = pid[e]
    BY <1>0, <2>1 DEF Spawn, TypeOK
  <2> QED  BY <2>2, <2>3, OnlyOwnFiles DEF AtTheBook, Listening
<1>3. ASSUME Die(d), UNCHANGED <<pidFile, sockFile, gnclock>> PROVE PidsInHand' /\ FilesInHand'
  <2>1. pc'[d] = "gone" /\ UNCHANGED <<sock, pidFile, sockFile>>
    BY <1>0, <1>3 DEF Die, TypeOK
  <2>2. \A e \in Daemons \ {d} : pc'[e] = pc[e] /\ sock'[e] = sock[e] /\ pid'[e] = pid[e]
    BY <1>0, <1>3 DEF Die, TypeOK
  <2> QED  BY <2>1, <2>2, OnlyOwnFiles DEF AtTheBook, Listening
<1>4. ASSUME NEW s, Goto(d, s), UNCHANGED pid
      PROVE  /\ pc'[d] = s /\ pid'[d] = pid[d] /\ sock'[d] = sock[d]
             /\ \A e \in Daemons \ {d} : pc'[e] = pc[e] /\ sock'[e] = sock[e] /\ pid'[e] = pid[e]
  BY <1>0, <1>4 DEF TypeOK
<1>5. CASE Flock(d)
  <2>1. CASE holder[LockAt(d)] # None
    BY <1>3, <1>5, <2>1 DEF Flock
  <2>2. CASE holder[LockAt(d)] = None
    <3> DEFINE s == IF pc[d] = "socket" THEN "socket pid" ELSE "book pid"
    <3>1. /\ pc[d] \in {"socket", "book"} /\ Goto(d, s)
          /\ UNCHANGED <<pid, pidFile, sockFile>>
      BY <1>5, <2>2 DEF Flock
    <3>2. /\ pc'[d] = s /\ pid'[d] = pid[d] /\ sock'[d] = sock[d]
          /\ \A e \in Daemons \ {d} : pc'[e] = pc[e] /\ sock'[e] = sock[e] /\ pid'[e] = pid[e]
      BY <1>4, <3>1
    <3>3. s \notin AtTheBook /\ s \notin Listening /\ s \notin {"unlink", "exiting"}
      BY DEF AtTheBook, Listening
    <3>4. pid[d] # None /\ (s = "book pid" => pidFile[sock[d]] = pid[d])
      BY <1>1, <3>1
    <3>5. s \in {"socket pid", "book pid"}
      OBVIOUS
    <3> HIDE DEF s
    <3> QED  BY <3>1, <3>2, <3>3, <3>4, <3>5, OnlyOwnFiles
  <2> QED  BY <2>1, <2>2
<1>6. CASE WritePidFile(d)
  <2> DEFINE s == IF pc[d] = "socket pid" THEN "book" ELSE "unlink"
             l == IF pc[d] = "socket pid" THEN sock[d] ELSE Book
  <2>1. /\ pc[d] \in {"socket pid", "book pid"} /\ Goto(d, s)
        /\ pidFile' = [pidFile EXCEPT ![l] = pid[d]] /\ UNCHANGED <<pid, sockFile>>
    BY <1>6 DEF WritePidFile, LockAt
  <2>2. holder[l] = d /\ l \in Locks
    BY <1>0, <1>1, <2>1
  <2>3. /\ pidFile'[l] = pid[d]
        /\ \A k \in Locks : k # l => pidFile'[k] = pidFile[k]
    BY <1>0, <2>1, <2>2 DEF TypeOK
  <2>4. /\ pc'[d] = s /\ pid'[d] = pid[d] /\ sock'[d] = sock[d]
        /\ \A e \in Daemons \ {d} : pc'[e] = pc[e] /\ sock'[e] = sock[e] /\ pid'[e] = pid[e]
    BY <1>4, <2>1
  <2>5. \A k \in Locks : holder[k] # d => pidFile'[k] = pidFile[k]
    BY <2>2, <2>3
  <2>6. pid[d] # None
    BY <1>1, <2>1
  <2>7. CASE pc[d] = "socket pid"
    <3>1. pc'[d] = "book" /\ pidFile'[sock[d]] = pid[d]
      BY <2>3, <2>4, <2>7
    <3> QED  BY <2>1, <2>4, <2>5, <2>6, <3>1, OnlyOwnFiles DEF AtTheBook, Listening
  <2>8. CASE pc[d] = "book pid"
    <3>1. l = Book /\ pc'[d] = "unlink"
      BY <2>4, <2>8
    <3>2. sock[d] # Book
      BY <1>0, NameAssumption DEF TypeOK
    <3>3. pidFile[sock[d]] = pid[d]
      BY <1>1, <2>8
    <3> HIDE DEF l
    <3>4. pidFile'[sock[d]] = pid[d] /\ pidFile'[Book] = pid[d]
      BY <1>0, <2>3, <3>1, <3>2, <3>3
    <3> QED  BY <2>1, <2>4, <2>5, <2>6, <3>1, <3>4, OnlyOwnFiles DEF AtTheBook, Listening
  <2> QED  BY <2>1, <2>7, <2>8
<1>7. CASE UnlinkSocket(d) \/ Finish(d)
  <2> DEFINE s == IF pc[d] = "unlink" THEN "begin" ELSE "exiting"
  <2>1. /\ pc[d] \in {"unlink", "closed"} /\ Goto(d, s)
        /\ sockFile' = [sockFile EXCEPT ![sock[d]] = None] /\ UNCHANGED <<pid, pidFile>>
    BY <1>7 DEF UnlinkSocket, Finish
  <2>2. \A k \in Sockets : holder[k] # d => sockFile'[k] = sockFile[k]
    BY <1>0, <1>1, <2>1 DEF TypeOK
  <2>3. /\ pc'[d] = s /\ pid'[d] = pid[d] /\ sock'[d] = sock[d]
        /\ \A e \in Daemons \ {d} : pc'[e] = pc[e] /\ sock'[e] = sock[e] /\ pid'[e] = pid[e]
    BY <1>4, <2>1
  <2>4. pid[d] # None /\ pidFile[sock[d]] = pid[d] /\ pidFile[Book] = pid[d]
    BY <1>1, <2>1 DEF AtTheBook, Listening
  <2>5. pc'[d] \notin Listening
    BY <2>3 DEF Listening
  <2> QED  BY <2>1, <2>2, <2>3, <2>4, <2>5, OnlyOwnFiles
<1>8. CASE Listen(d)
  <2>1. /\ pc[d] = "listen" /\ Goto(d, "serving")
        /\ sockFile' = [sockFile EXCEPT ![sock[d]] = d] /\ UNCHANGED <<pid, pidFile>>
    BY <1>8 DEF Listen
  <2>2. /\ sockFile'[sock[d]] = d
        /\ \A k \in Sockets : holder[k] # d => sockFile'[k] = sockFile[k]
    BY <1>0, <1>1, <2>1 DEF TypeOK
  <2> QED  BY <1>0, <1>1, <1>4, <2>1, <2>2, OnlyOwnFiles DEF AtTheBook, Listening
<1>9. CASE BeginNormal(d) \/ BreakLock(d) \/ CloseBook(d) \/ NothingToClose(d)
  <2>1. PICK s \in AtTheBook : Goto(d, s) /\ (s \in Listening => pc[d] \in Listening)
    BY <1>9 DEF BeginNormal, BreakLock, CloseBook, NothingToClose, AtTheBook, Listening
  <2>2. pc[d] \in AtTheBook /\ UNCHANGED <<pid, pidFile, sockFile>>
    BY <1>9 DEF BeginNormal, BreakLock, CloseBook, NothingToClose, AtTheBook, Listening
  <2> QED  BY <1>0, <1>1, <1>4, <2>1, <2>2, OnlyOwnFiles DEF AtTheBook, Listening
<1>10. CASE Inspect(d)
  <2>1. CASE ~GncLockIsProvablyStale /\ pc[d] = "inspect"
    BY <1>3, <1>10, <2>1 DEF Inspect
  <2>2. CASE GncLockIsProvablyStale \/ pc[d] = "reinspect"
    <3>1. PICK s \in AtTheBook : Goto(d, s) /\ (s \in Listening => pc[d] \in Listening)
      BY <1>10, <2>2 DEF Inspect, AtTheBook, Listening
    <3>2. pc[d] \in AtTheBook /\ UNCHANGED <<pid, pidFile, sockFile>>
      BY <1>10, <2>2 DEF Inspect, AtTheBook, Listening
    <3> QED  BY <1>0, <1>1, <1>4, <3>1, <3>2, OnlyOwnFiles DEF AtTheBook, Listening
  <2> QED  BY <1>10, <2>1, <2>2 DEF Inspect
<1>11. CASE Exit(d) \/ Crash(d)
  BY <1>3, <1>11 DEF Exit, Crash
<1> QED  BY <1>2, <1>5, <1>6, <1>7, <1>8, <1>9, <1>10, <1>11
         DEF AcquireLocks, Session, Shutdown

LEMMA DaemonInvStep == DaemonInv /\ [Next]_vars => DaemonInv'
<1> SUFFICES ASSUME DaemonInv, [Next]_vars PROVE DaemonInv'
  OBVIOUS
<1>1. LocksHeld'
  BY LockInvStep DEF DaemonInv, TypeOK, LockInv, LockTypes
<1>2. ASSUME NEW d \in Daemons,
             (\E n \in Pids : Spawn(d, n)) \/ AcquireLocks(d) \/ Session(d) \/ Shutdown(d) \/ Crash(d)
      PROVE  DaemonInv'
  BY <1>1, <1>2, DaemonTypes, DaemonFiles DEF DaemonInv
<1>3. ASSUME NEW g \in Desktops,
             (\E n \in Pids : DesktopOpen(g, n)) \/ DesktopClose(g) \/ DesktopCrash(g)
      PROVE  DaemonInv'
  <2>0. TypeOK /\ g \in Processes /\ HostOf[g] \in Hosts /\ opens[g] \in 0 .. MaxOpens
    BY HostAssumption DEF DaemonInv, Processes, TypeOK
  <2>1. UNCHANGED <<pc, sock, holder, pidFile, sockFile>>
    BY <1>3 DEF DesktopOpen, DesktopClose, DesktopCrash
  <2>2. \A d \in Daemons : pid'[d] = pid[d]
    BY <1>3, <2>0, NameAssumption DEF DesktopOpen, DesktopClose, DesktopCrash, TypeOK, Processes
  <2>3. TypeOK'
    <3>1. CASE \E n \in Pids : DesktopOpen(g, n)
      BY <2>0, <3>1, OpensAssumption DEF DesktopOpen, TypeOK
    <3>2. CASE DesktopClose(g) \/ DesktopCrash(g)
      BY <2>0, <3>2 DEF DesktopClose, DesktopCrash, Unlock, TypeOK
    <3> QED  BY <1>3, <3>1, <3>2
  <2>4. PidsInHand' /\ FilesInHand'
    BY <2>1, <2>2 DEF DaemonInv, PidsInHand, FilesInHand
  <2> QED  BY <1>1, <2>3, <2>4 DEF DaemonInv
<1>4. CASE UNCHANGED vars
  BY <1>4 DEF vars, DaemonInv, TypeOK, LocksHeld, PidsInHand, FilesInHand
<1> QED  BY <1>2, <1>3, <1>4 DEF Next

LEMMA DaemonInvAlways == Spec => []DaemonInv
  BY DaemonInvInit, DaemonInvStep, PTL DEF Spec

(***************************************************************************)
(* The variables of the locks keep their types: in particular a row of the *)
(* engine's lock table always carries the PID of a process.                *)
(***************************************************************************)
THEOREM LockTypesHold == Spec => []TypeOK
  BY DaemonInvAlways, PTL DEF DaemonInv

(***************************************************************************)
(* main.cpp unlinks a stale socket file only under the locks, and Run      *)
(* removes its own before they are released: a daemon that listens is the  *)
(* one behind its socket file, whether its book is open or not.            *)
(***************************************************************************)
THEOREM ServingDaemonIsReachable == Spec => []ServingIsReachable
<1>1. DaemonInv => ServingIsReachable
  BY DEF DaemonInv, FilesInHand, ServingIsReachable
<1> QED  BY <1>1, DaemonInvAlways, PTL

(***************************************************************************)
(* AcquireOneLock writes a PID file only under its lock: while a daemon    *)
(* listens, both name it, whoever else tried to start.                     *)
(***************************************************************************)
THEOREM PidFilesNameTheServer == Spec => []PidFilesTrue
<1>1. DaemonInv => PidFilesTrue
  BY DEF DaemonInv, FilesInHand, PidFilesTrue, AtTheBook, Listening
<1> QED  BY <1>1, DaemonInvAlways, PTL
=============================================================================
