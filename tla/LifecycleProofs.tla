-------------------------- MODULE LifecycleProofs ---------------------------
(***************************************************************************)
(* A daemon's life is a life of its worker (so everything WorkerProofs     *)
(* shows of the worker holds in the daemon), the final close is never      *)
(* refused, and exit code 0 means what main.cpp says it means.             *)
(***************************************************************************)
EXTENDS Lifecycle, WorkerProofs

\* How far along Run's main line a place is.
Rank(p) ==
    CASE p = "begin" -> 0 [] p = "spawn" -> 1 [] p = "journal" -> 2 [] p = "book" -> 3
      [] p = "checks" -> 4 [] p = "reconcile" -> 5 [] p = "indeterminate" -> 6
      [] p = "listen" -> 7 [] p = "wait" -> 8 [] p = "close" -> 9 [] p = "drain" -> 10
      [] p = "unlink" -> 11 [] p = "kill" -> 12 [] p = "join" -> 13 [] p = "destroy" -> 14
      [] p = "exited" -> 15 [] OTHER -> 16

Aborted == proc \in {"failed", "killed"}

\* From pthread_sigmask on, every thread there is blocks SIGTERM.
SignalsBlocked ==
    /\ proc = "begin" => masked = {} /\ threads = {"main"}
    /\ proc = "killed" => threads = {"main"}
    /\ proc \notin {"begin", "killed"} => "main" \in masked /\ threads \subseteq masked

\* Where the server is when the main thread is somewhere, and who is in it.
ServerInHand ==
    /\ Aborted \/ Rank(proc) < 8 => server = "none"
    /\ ~Aborted /\ Rank(proc) > 8 => server = "down"
    /\ server \in {"none", "down"} => inflight = {}
    /\ ~Aborted /\ Rank(proc) > 11 => ~socket

\* Who may have a task at the worker, and when the worker stops.
CallsInHand ==
    /\ \A t \in Handlers : /\ call[t] \in {"pushed", "blocked"} => t \in inflight
                           /\ call[t] # "stopped"
    /\ stopping => ~Aborted /\ Rank(proc) > 9
    /\ \A t \in MainTasks : ~Aborted =>
          /\ Rank(proc) < Rank(t) => call[t] = "idle"
          /\ Rank(proc) > Rank(t) /\ t # "close" => call[t] = "returned"
    /\ Aborted => call["close"] = "idle"
    /\ ~Aborted /\ Rank(proc) > 9 => call["close"] \in {"returned", "full"}
    /\ call["close"] # "stopped"
    /\ MaxDepth > 0 => call["close"] # "full"

\* Once the final close has run the book stays closed, and whoever could not
\* save it is a task that has run (or ~Session, after a close that was refused).
BookInHand ==
    /\ threw \subseteq done
    /\ "close" \in done => book = "closed"
    /\ unsaved \subseteq done \/ (proc = "exited" /\ exit_code = 1)
    /\ "close" \in unsaved => "close" \in threw
    /\ ~Aborted /\ Rank(proc) > 9 /\ exit_code = 0 =>
          call["close"] = "returned" /\ "close" \notin threw

LifeInv ==
    WorkerInv /\ LTypeOK /\ SignalsBlocked /\ ServerInHand /\ CallsInHand /\ BookInHand
-----------------------------------------------------------------------------
LEMMA MainTasksAre ==
    MainTasks = {"journal", "book", "checks", "reconcile", "indeterminate", "close"}
  BY DEF MainTasks, Startup

LEMMA TasksAre ==
    /\ Handlers \subseteq Tasks /\ MainTasks \subseteq Tasks /\ Tasks = Handlers \cup MainTasks
    /\ \A t \in Handlers : t \notin MainTasks
  BY LifecycleAssumption

\* The tasks of the start follow one another.
LEMMA StartupOrder ==
    /\ Startup[1] = "journal"
    /\ AfterStartup("journal") = "book" /\ AfterStartup("book") = "checks"
    /\ AfterStartup("checks") = "reconcile" /\ AfterStartup("reconcile") = "indeterminate"
    /\ AfterStartup("indeterminate") = "listen"
<1>1. /\ DOMAIN Startup = 1 .. 5 /\ Len(Startup) = 5
      /\ Startup[1] = "journal" /\ Startup[2] = "book" /\ Startup[3] = "checks"
      /\ Startup[4] = "reconcile" /\ Startup[5] = "indeterminate"
  BY DEF Startup
<1>2. ASSUME NEW t, NEW k \in 1 .. 5, Startup[k] = t
      PROVE  (CHOOSE i \in DOMAIN Startup : Startup[i] = t) = k
  <2>1. \A i \in 1 .. 5 : Startup[i] = Startup[k] => i = k
    <3>1. \A i \in 1 .. 5 : i \in {1, 2, 3, 4, 5}
      OBVIOUS
    <3> QED  BY <1>1, <3>1
  <2>2. \E i \in DOMAIN Startup : Startup[i] = t
    BY <1>1, <1>2
  <2>3. \A i \in DOMAIN Startup : Startup[i] = t => i = k
    BY <1>1, <1>2, <2>1
  <2> QED  BY <2>2, <2>3
<1>3. /\ (CHOOSE i \in DOMAIN Startup : Startup[i] = "journal") = 1
      /\ (CHOOSE i \in DOMAIN Startup : Startup[i] = "book") = 2
      /\ (CHOOSE i \in DOMAIN Startup : Startup[i] = "checks") = 3
      /\ (CHOOSE i \in DOMAIN Startup : Startup[i] = "reconcile") = 4
      /\ (CHOOSE i \in DOMAIN Startup : Startup[i] = "indeterminate") = 5
  BY <1>1, <1>2
<1> QED  BY <1>1, <1>3 DEF AfterStartup

LEMMA Ranks ==
    /\ Rank("begin") = 0 /\ Rank("spawn") = 1 /\ Rank("journal") = 2 /\ Rank("book") = 3
    /\ Rank("checks") = 4 /\ Rank("reconcile") = 5 /\ Rank("indeterminate") = 6
    /\ Rank("listen") = 7 /\ Rank("wait") = 8 /\ Rank("close") = 9 /\ Rank("drain") = 10
    /\ Rank("unlink") = 11 /\ Rank("kill") = 12 /\ Rank("join") = 13 /\ Rank("destroy") = 14
    /\ Rank("exited") = 15
  BY DEF Rank
-----------------------------------------------------------------------------
\* Whatever a thread of the daemon does is a step of the worker or leaves the
\* worker alone.
LEMMA LifeStepIsWorkerStep ==
    ASSUME inflight \subseteq Handlers, [LNext]_lvars
    PROVE  [Next]_vars
<1>1. CASE MainCalls
  BY <1>1, TasksAre DEF MainCalls, Next, CallStep
<1>2. CASE MainDrains \/ Destroy
  BY <1>2 DEF MainDrains, Destroy, Next, Drain
<1>3. CASE \/ BlockSignals \/ StartWorker \/ StartupGoesOn \/ StartupFails \/ Listen
           \/ ServerWait \/ CloseReturned \/ Unlink \/ KillSelf \/ JoinSignalThread
  BY <1>3 DEF BlockSignals, StartWorker, StartupGoesOn, StartupFails, Listen,
              ServerWait, CloseReturned, Unlink, KillSelf, JoinSignalThread
<1>4. CASE EngineThread \/ WakesForNoReason
  BY <1>4 DEF EngineThread, WakesForNoReason, Next, EngineStep
<1>5. CASE Sigterm \/ Sigwait \/ ShutdownReturns \/ Terminated \/ UNCHANGED lvars
  BY <1>5 DEF Sigterm, Sigwait, ShutdownReturns, Terminated, lvars
<1>6. ASSUME NEW t \in Handlers, HandlerStarts(t) \/ HandlerRuns(t)
      PROVE  [Next]_vars
  BY <1>6, TasksAre DEF HandlerStarts, HandlerRuns, Next, CallStep
<1> QED  BY <1>1, <1>2, <1>3, <1>4, <1>5, <1>6 DEF LNext, MainThread

LEMMA LifeInvInit == LInit => LifeInv
<1> SUFFICES ASSUME LInit PROVE LifeInv
  OBVIOUS
<1>1. WorkerInv
  BY WorkerInvInit DEF LInit
<1>2. LTypeOK
  BY <1>1 DEF LInit, LTypeOK, WorkerInv, Places
<1>3. SignalsBlocked /\ ServerInHand
  BY Ranks DEF LInit, SignalsBlocked, ServerInHand, Aborted
<1>4. \A t \in Tasks : call[t] = "idle"
  BY DEF LInit, Init
<1>5. CallsInHand
  BY <1>4, Ranks, TasksAre, MainTasksAre DEF LInit, Init, CallsInHand, Aborted
<1>6. BookInHand
  BY Ranks DEF LInit, Init, BookInHand, Aborted
<1> QED  BY <1>1, <1>2, <1>3, <1>5, <1>6 DEF LifeInv

\* What the main thread does by itself: it moves on, and the worker is left
\* alone.
MainMoves ==
    \/ BlockSignals \/ StartWorker \/ StartupGoesOn \/ StartupFails \/ Listen
    \/ ServerWait \/ CloseReturned \/ Unlink \/ KillSelf \/ JoinSignalThread
    \/ (MainDrains /\ UNCHANGED vars)

LEMMA MainMovesKeepInv ==
    ASSUME LifeInv, MainMoves
    PROVE  LTypeOK' /\ SignalsBlocked' /\ ServerInHand' /\ CallsInHand' /\ BookInHand'
<1> USE Ranks, MainTasksAre DEF LifeInv
<1>0. UNCHANGED <<queue, stopping, joinable, engine, task, call, done, main, accepted, executed>>
      /\ UNCHANGED <<inflight, book, threw, unsaved>>
  BY DEF MainMoves, BlockSignals, StartWorker, StartupGoesOn, StartupFails, Listen, ServerWait,
         CloseReturned, Unlink, KillSelf, JoinSignalThread, MainDrains, vars, process
<1>t. TypeOK'
  BY <1>0 DEF LTypeOK, TypeOK
<1>1. CASE BlockSignals
  <2> USE <1>0, <1>1 DEF BlockSignals, Aborted
  <2>1. LTypeOK' /\ SignalsBlocked'
    BY <1>t DEF LTypeOK, Places, SignalsBlocked
  <2>2. ServerInHand' /\ CallsInHand' /\ BookInHand'
    BY DEF ServerInHand, CallsInHand, BookInHand
  <2> QED  BY <2>1, <2>2
<1>2. CASE StartWorker
  <2> USE <1>0, <1>2, StartupOrder DEF StartWorker, Aborted
  <2>1. LTypeOK' /\ SignalsBlocked'
    BY <1>t DEF LTypeOK, Places, SignalsBlocked, Spawn
  <2>2. ServerInHand' /\ CallsInHand' /\ BookInHand'
    BY DEF ServerInHand, CallsInHand, BookInHand
  <2> QED  BY <2>1, <2>2
<1>3. CASE StartupGoesOn
  <2> USE <1>0, <1>3, StartupOrder DEF StartupGoesOn, Aborted
  <2>1. LTypeOK' /\ SignalsBlocked'
    BY <1>t DEF LTypeOK, Places, SignalsBlocked
  <2>2. Rank(proc') = Rank(proc) + 1 /\ Rank(proc) \in 2 .. 6 /\ call[proc] = "returned"
    OBVIOUS
  <2>3. ServerInHand' /\ BookInHand'
    BY <2>2 DEF ServerInHand, BookInHand
  <2>4. CallsInHand'
    <3>1. \A t \in MainTasks : Rank(t) \in Int
      OBVIOUS
    <3>2. \A t \in MainTasks : Rank(t) = Rank(proc) => t = proc
      OBVIOUS
    <3> QED  BY <2>2, <3>1, <3>2 DEF CallsInHand
  <2> QED  BY <2>1, <2>3, <2>4
<1>4. CASE StartupFails
  <2> USE <1>0, <1>4 DEF StartupFails, Aborted
  <2>1. LTypeOK' /\ SignalsBlocked'
    BY <1>t DEF LTypeOK, Places, SignalsBlocked
  <2>2. ServerInHand' /\ CallsInHand' /\ BookInHand'
    BY DEF ServerInHand, CallsInHand, BookInHand
  <2> QED  BY <2>1, <2>2
<1>5. CASE Listen
  <2> USE <1>0, <1>5 DEF Listen, Aborted
  <2>1. LTypeOK' /\ SignalsBlocked'
    BY <1>t DEF LTypeOK, Places, SignalsBlocked, Spawn
  <2>2. ServerInHand' /\ CallsInHand' /\ BookInHand'
    BY DEF ServerInHand, CallsInHand, BookInHand
  <2> QED  BY <2>1, <2>2
<1>6. CASE ServerWait
  <2> USE <1>0, <1>6 DEF ServerWait, Aborted
  <2>1. LTypeOK' /\ SignalsBlocked'
    BY <1>t DEF LTypeOK, Places, SignalsBlocked
  <2>2. ServerInHand' /\ CallsInHand' /\ BookInHand'
    BY DEF ServerInHand, CallsInHand, BookInHand
  <2> QED  BY <2>1, <2>2
<1>7. CASE CloseReturned
  <2> USE <1>0, <1>7 DEF CloseReturned, MainThrew, Aborted
  <2>1. LTypeOK' /\ SignalsBlocked'
    BY <1>t DEF LTypeOK, Places, SignalsBlocked
  <2>2. ServerInHand' /\ CallsInHand'
    BY DEF ServerInHand, CallsInHand
  <2>3. BookInHand'
    BY DEF BookInHand, CallsInHand
  <2> QED  BY <2>1, <2>2, <2>3
<1>8. CASE Unlink
  <2> USE <1>0, <1>8 DEF Unlink, Aborted
  <2>1. LTypeOK' /\ SignalsBlocked'
    BY <1>t DEF LTypeOK, Places, SignalsBlocked
  <2>2. ServerInHand' /\ CallsInHand' /\ BookInHand'
    BY DEF ServerInHand, CallsInHand, BookInHand
  <2> QED  BY <2>1, <2>2
<1>10. CASE JoinSignalThread \/ (MainDrains /\ UNCHANGED vars)
  <2>1. /\ UNCHANGED <<masked, threads, signal, server, exit_code, socket>>
        /\ \/ proc = "join" /\ proc' = "destroy"
           \/ proc = "drain" /\ proc' = "drain"
           \/ proc = "drain" /\ proc' = "unlink"
    <3>1. CASE JoinSignalThread
      BY <3>1 DEF JoinSignalThread
    <3>2. CASE MainDrains
      BY <3>2 DEF MainDrains, process
    <3> QED  BY <1>10, <3>1, <3>2
  <2>2. LTypeOK' /\ SignalsBlocked'
    BY <1>0, <1>t, <2>1 DEF LTypeOK, Places, SignalsBlocked
  <2>3. ServerInHand' /\ CallsInHand' /\ BookInHand'
    BY <1>0, <2>1 DEF ServerInHand, CallsInHand, BookInHand, Aborted
  <2> QED  BY <2>2, <2>3
<1>9. CASE KillSelf
  <2> USE <1>0, <1>9 DEF KillSelf, Aborted
  <2>1. threads \subseteq masked
    BY DEF SignalsBlocked
  <2>2. LTypeOK' /\ SignalsBlocked'
    BY <1>t, <2>1 DEF LTypeOK, Places, SignalsBlocked
  <2>3. ServerInHand' /\ CallsInHand' /\ BookInHand'
    BY <2>1 DEF ServerInHand, CallsInHand, BookInHand
  <2> QED  BY <2>2, <2>3
<1> QED  BY <1>1, <1>2, <1>3, <1>4, <1>5, <1>6, <1>7, <1>8, <1>9, <1>10 DEF MainMoves

\* The main thread at its own worker.Run: the final close finds the queue empty
\* and the worker accepting, because nobody else has a task there any more.
LEMMA MainCallsKeepInv ==
    ASSUME LifeInv, WorkerInv', MainCalls
    PROVE  LTypeOK' /\ SignalsBlocked' /\ ServerInHand' /\ CallsInHand' /\ BookInHand'
<1> USE Ranks, MainTasksAre DEF LifeInv
<1>0. /\ UNCHANGED <<proc, masked, threads, signal, server, inflight, book, threw, unsaved, socket, exit_code>>
      /\ proc \in MainTasks /\ proc \in Tasks /\ ~Aborted /\ Rank(proc) \in 2 .. 9
      /\ Enqueue(proc) \/ Notify(proc) \/ Return(proc)
  BY TasksAre DEF MainCalls, process, Aborted, Alive, Ended
<1>1. LTypeOK' /\ SignalsBlocked' /\ ServerInHand'
  BY <1>0 DEF LTypeOK, WorkerInv, SignalsBlocked, ServerInHand, Aborted
<1>2. ~stopping /\ ~stopping'
  BY <1>0 DEF CallsInHand, Enqueue, Notify, Return
<1>3. /\ \A t \in Tasks : t # proc => call'[t] = call[t]
      /\ call'[proc] \in {"pushed", "blocked", "returned", "full"}
      /\ call'[proc] = "full" => Len(queue) >= MaxDepth
      /\ done' = done
  BY <1>0, <1>2 DEF Enqueue, Notify, Return, LTypeOK, TypeOK
<1>4. proc = "close" /\ call[proc] = "idle" => Len(queue) = 0
  <2> SUFFICES ASSUME proc = "close", call[proc] = "idle", Len(queue) # 0
               PROVE  FALSE
    OBVIOUS
  <2>1. Len(queue) \in Nat /\ queue \in [1 .. Len(queue) -> Tasks]
    BY LenProperties DEF LTypeOK, TypeOK
  <2>2. queue[1] \in Tasks /\ Queued(queue[1])
    BY <2>1 DEF Queued
  <2>3. call[queue[1]] \in {"pushed", "blocked"}
    BY <2>2 DEF WorkerInv, OnePlace
  <2>4. inflight = {}
    BY DEF ServerInHand, Aborted
  <2>5. queue[1] \in MainTasks \ {"close"}
    BY <2>2, <2>3, <2>4, TasksAre DEF CallsInHand
  <2> QED  BY <2>3, <2>5 DEF CallsInHand, Aborted
<1>5. proc = "close" /\ MaxDepth > 0 => call'["close"] # "full"
  <2> SUFFICES ASSUME proc = "close", MaxDepth > 0, call'["close"] = "full" PROVE FALSE
    OBVIOUS
  <2>1. call[proc] # "idle" => call'[proc] # "full"
    BY <1>0 DEF Enqueue, Notify, Return, LTypeOK, TypeOK
  <2> QED  BY <1>3, <1>4, <2>1, WorkerAssumption
<1>6. CallsInHand'
  <2>1. \A t \in Handlers : t # proc /\ t \in Tasks
    BY <1>0, TasksAre
  <2>2. \A t \in MainTasks : t \in Tasks
    BY TasksAre
  <2>3. \A t \in Handlers : call'[t] = call[t]
    BY <1>3, <2>1
  <2>4. \A t \in MainTasks : Rank(proc) # Rank(t) => call'[t] = call[t]
    BY <1>3, <2>2
  <2>5. call'["close"] # "stopped"
    BY <1>3, <2>2 DEF CallsInHand
  <2>6. MaxDepth > 0 => call'["close"] # "full"
    BY <1>3, <1>5, <2>2 DEF CallsInHand
  <2> QED  BY <1>0, <1>2, <2>3, <2>4, <2>5, <2>6 DEF CallsInHand, Aborted
<1>7. BookInHand'
  BY <1>0, <1>3 DEF BookInHand, Aborted
<1> QED  BY <1>1, <1>6, <1>7

\* Drain, and the destructors: the main thread is past its last call.
LEMMA MainDrainsKeepsInv ==
    ASSUME LifeInv, WorkerInv', MainDrains \/ Destroy
    PROVE  LTypeOK' /\ SignalsBlocked' /\ ServerInHand' /\ CallsInHand' /\ BookInHand'
<1> USE Ranks, MainTasksAre DEF LifeInv
<1>1. CASE MainDrains /\ UNCHANGED vars
  BY <1>1, MainMovesKeepInv DEF MainMoves
<1>2. CASE \/ MainDrains /\ ~UNCHANGED vars
           \/ Destroy
  <2>1. /\ UNCHANGED <<masked, threads, signal, server, inflight, threw, socket, exit_code>>
        /\ UNCHANGED <<call, done>>
        /\ \/ proc = "drain" /\ proc' = "drain" /\ UNCHANGED <<book, unsaved>>
           \/ /\ proc = "destroy" /\ proc' = "exited" /\ book' = "closed"
              /\ \/ UNCHANGED unsaved
                 \/ book = "open" /\ unsaved' = unsaved \cup {"~Session"}
    BY <1>2 DEF MainDrains, Destroy, process, DrainBegin, DrainNotify, DrainJoin
  <2>2. LTypeOK' /\ SignalsBlocked'
    BY <2>1 DEF LTypeOK, WorkerInv, SignalsBlocked, Places
  <2>3. ServerInHand' /\ CallsInHand'
    BY <2>1 DEF ServerInHand, CallsInHand, Aborted
  <2>4. proc = "destroy" /\ book = "open" => exit_code = 1
    <3> SUFFICES ASSUME proc = "destroy", book = "open", exit_code = 0 PROVE FALSE
      BY DEF LTypeOK
    <3>1. call["close"] = "returned"
      BY DEF BookInHand, Aborted
    <3> QED  BY <3>1, TasksAre DEF BookInHand, WorkerInv, OnePlace
  <2>5. BookInHand'
    BY <2>1, <2>4 DEF BookInHand, Aborted
  <2> QED  BY <2>2, <2>3, <2>5
<1> QED  BY <1>1, <1>2

\* The engine thread: once the final close has run there is no other task that
\* could open the book again.
LEMMA EngineKeepsInv ==
    ASSUME LifeInv, WorkerInv', EngineThread \/ WakesForNoReason
    PROVE  LTypeOK' /\ SignalsBlocked' /\ ServerInHand' /\ CallsInHand' /\ BookInHand'
<1> USE Ranks, MainTasksAre DEF LifeInv
<1>1. /\ UNCHANGED <<proc, masked, threads, signal, server, inflight, socket, exit_code>>
      /\ UNCHANGED <<call, stopping>> /\ ~Aborted
  BY DEF EngineThread, WakesForNoReason, process, Exit, Take, Sleep, RunTask, SpuriousWakeup,
         Aborted, Alive, Ended
<1>2. SignalsBlocked' /\ ServerInHand' /\ CallsInHand'
  BY <1>1 DEF SignalsBlocked, ServerInHand, CallsInHand, Aborted
<1>3. CASE UNCHANGED <<book, threw, unsaved, done>>
  BY <1>1, <1>2, <1>3 DEF LTypeOK, WorkerInv, BookInHand, Aborted
<1>4. CASE RunTask /\ EngineThread
  <2>1. engine = "running" /\ task \in Tasks /\ task \notin done /\ done' = done \cup {task}
        /\ call[task] \in {"pushed", "blocked"}
    BY <1>4 DEF RunTask, LTypeOK, TypeOK, WorkerInv, EngineInHand, OnePlace
  <2>2. "close" \in done => task = "close"
    <3> SUFFICES ASSUME "close" \in done, task # "close" PROVE FALSE
      OBVIOUS
    <3>1. call["close"] # "idle"
      BY DEF WorkerInv, OnePlace
    <3>2. Rank(proc) \in Int /\ Rank(proc) > 8
      <4>1. Rank(proc) < 9 => call["close"] = "idle"
        BY <1>1 DEF CallsInHand
      <4>2. Rank(proc) \in Int
        BY <1>1 DEF LTypeOK, Places, Aborted
      <4> QED  BY <3>1, <4>1, <4>2
    <3>3. inflight = {}
      BY <1>1, <3>2 DEF ServerInHand
    <3>4. task \in MainTasks
      BY <2>1, <3>3, TasksAre DEF CallsInHand
    <3>5. Rank(task) \in Int /\ Rank(task) < 9
      BY <3>4
    <3>6. call[task] = "returned"
      BY <1>1, <3>2, <3>4, <3>5 DEF CallsInHand
    <3> QED  BY <2>1, <3>6
  <2>3. "close" \notin done
    BY <2>1, <2>2
  <2>4. unsaved \subseteq done
    <3>1. proc # "exited"
      BY <1>4 DEF EngineThread, Alive, Ended
    <3> QED  BY <3>1 DEF BookInHand
  <2>5. \/ task \in MainTasks \ {"close"} /\ StartupTask
        \/ task \in Handlers /\ OpenSession
        \/ task \in Handlers \cup {"close"} /\ CloseSession
    <3>1. ~(Exit \/ Take \/ Sleep)
      BY <2>1 DEF Exit, Take, Sleep
    <3> QED  BY <1>4, <3>1 DEF EngineThread
  <2>6. CASE task \in MainTasks \ {"close"} /\ StartupTask
    BY <1>1, <1>2, <2>1, <2>3, <2>4, <2>6
       DEF StartupTask, LTypeOK, WorkerInv, BookInHand, Aborted
  <2>7. CASE task \in Handlers /\ OpenSession
    <3>1. task # "close"
      BY <2>7, TasksAre
    <3> QED  BY <1>1, <1>2, <2>1, <2>3, <2>4, <2>7, <3>1
                DEF OpenSession, LTypeOK, WorkerInv, BookInHand, Aborted
  <2>8. CASE task \in Handlers \cup {"close"} /\ CloseSession
    <3>1. task \in MainTasks <=> task = "close"
      BY <2>8, TasksAre
    <3> QED  BY <1>1, <1>2, <2>1, <2>3, <2>4, <2>8, <3>1
                DEF CloseSession, LTypeOK, WorkerInv, BookInHand, Aborted
  <2> QED  BY <2>5, <2>6, <2>7, <2>8
<1>5. \/ UNCHANGED <<book, threw, unsaved, done>>
      \/ RunTask /\ EngineThread
  BY DEF EngineThread, WakesForNoReason, process, Exit, Take, Sleep, SpuriousWakeup
<1> QED  BY <1>2, <1>3, <1>4, <1>5

\* The handlers: they come only while the server listens, and the worker stops
\* only when the last of them is gone.
LEMMA HandlersKeepInv ==
    ASSUME LifeInv, WorkerInv', NEW t \in Handlers, HandlerStarts(t) \/ HandlerRuns(t)
    PROVE  LTypeOK' /\ SignalsBlocked' /\ ServerInHand' /\ CallsInHand' /\ BookInHand'
<1> USE Ranks DEF LifeInv
<1>1. /\ UNCHANGED <<proc, masked, threads, signal, server, book, threw, unsaved, socket, exit_code>>
      /\ UNCHANGED <<stopping, done>>
      /\ inflight' \in {inflight, inflight \cup {t}, inflight \ {t}}
      /\ server \in {"none", "down"} => inflight' = inflight
  BY DEF HandlerStarts, HandlerRuns, process, vars, Enqueue, Notify, Return, ServerInHand
<1>2. LTypeOK' /\ SignalsBlocked' /\ ServerInHand'
  BY <1>1 DEF LTypeOK, WorkerInv, SignalsBlocked, ServerInHand, Aborted
<1>3. \A u \in Tasks : u # t => call'[u] = call[u]
  BY TasksAre DEF HandlerStarts, HandlerRuns, vars, Enqueue, Notify, Return, LTypeOK, TypeOK
<1>4. /\ call'[t] \in {"pushed", "blocked"} => t \in inflight'
      /\ call'[t] # "stopped"
  <2>1. CASE UNCHANGED vars
    BY <1>1, <2>1 DEF HandlerStarts, HandlerRuns, vars, process, CallsInHand
  <2>2. CASE HandlerRuns(t) /\ (Enqueue(t) \/ Notify(t) \/ Return(t)) /\ UNCHANGED process
    <3>1. t \in inflight /\ inflight' = inflight /\ server \notin {"none", "down"}
      BY <2>2 DEF HandlerRuns, process, ServerInHand
    <3>2. ~Aborted /\ proc \in Places
      BY <2>2 DEF HandlerRuns, Aborted, Alive, Ended, LTypeOK
    <3>3. ~stopping
      <4>1. Rank(proc) \in Int
        BY <3>2, MainTasksAre DEF Places, Aborted
      <4>2. ~(Rank(proc) > 8)
        BY <3>1, <3>2 DEF ServerInHand
      <4> QED  BY <4>1, <4>2 DEF CallsInHand
    <3>4. call'[t] # "stopped"
      BY <2>2, <3>3, TasksAre DEF Enqueue, Notify, Return, LTypeOK, TypeOK
    <3> QED  BY <3>1, <3>4
  <2> QED  BY <2>1, <2>2 DEF HandlerStarts, HandlerRuns
<1>5. CallsInHand'
  <2>1. \A u \in Handlers : u # t => (u \in inflight <=> u \in inflight') /\ call'[u] = call[u]
    BY <1>1, <1>3, TasksAre
  <2>2. \A u \in MainTasks : call'[u] = call[u]
    BY <1>3, TasksAre
  <2>3. call'["close"] = call["close"]
    BY <2>2, MainTasksAre
  <2> QED  BY <1>1, <1>4, <2>1, <2>2, <2>3 DEF CallsInHand, Aborted
<1>6. BookInHand'
  <2>1. call'["close"] = call["close"]
    BY <1>3, TasksAre, MainTasksAre
  <2> QED  BY <1>1, <2>1 DEF BookInHand, Aborted
<1> QED  BY <1>2, <1>5, <1>6

\* Signals and the server's shutdown.
LEMMA SignalsKeepInv ==
    ASSUME LifeInv, WorkerInv', Sigterm \/ Sigwait \/ ShutdownReturns
    PROVE  LTypeOK' /\ SignalsBlocked' /\ ServerInHand' /\ CallsInHand' /\ BookInHand'
<1> USE Ranks DEF LifeInv
<1>1. /\ UNCHANGED <<masked, inflight, book, threw, unsaved, socket, exit_code>>
      /\ UNCHANGED <<stopping, call, done>>
  BY DEF Sigterm, Sigwait, ShutdownReturns, vars
<1>2. CASE Sigterm
  <2>1. CASE threads \subseteq masked
    <3>1. UNCHANGED <<proc, threads, server>> /\ signal' = TRUE
      BY <1>2, <2>1 DEF Sigterm
    <3> QED  BY <1>1, <3>1 DEF LTypeOK, WorkerInv, SignalsBlocked, ServerInHand, CallsInHand,
                               BookInHand, Aborted
  <2>2. CASE ~(threads \subseteq masked)
    <3>1. proc = "begin"
      BY <1>2, <2>2 DEF Sigterm, Alive, Ended, SignalsBlocked
    <3>2. proc' = "killed" /\ UNCHANGED <<threads, server, signal>>
      BY <1>2, <2>2 DEF Sigterm
    <3>3. LTypeOK' /\ SignalsBlocked'
      BY <1>1, <3>1, <3>2 DEF LTypeOK, WorkerInv, SignalsBlocked, Places
    <3>4. ServerInHand' /\ CallsInHand' /\ BookInHand'
      BY <1>1, <3>1, <3>2, MainTasksAre DEF ServerInHand, CallsInHand, BookInHand, Aborted
    <3> QED  BY <3>3, <3>4
  <2> QED  BY <2>1, <2>2
<1>3. CASE Sigwait \/ ShutdownReturns
  <2>1. /\ UNCHANGED proc /\ threads' \subseteq threads /\ signal' \in {signal, FALSE}
        /\ \/ server = "listening" /\ server' = "shutting"
           \/ server = "shutting" /\ server' = "down" /\ inflight = {}
           \/ server' = server
    BY <1>3 DEF Sigwait, ShutdownReturns
  <2>2. LTypeOK'
    BY <1>1, <2>1 DEF LTypeOK, WorkerInv
  <2>3. SignalsBlocked'
    <3>1. "main" \in threads' => "main" \in threads
      BY <2>1
    <3>2. proc \in {"begin", "killed"} => threads' = threads
      BY <1>3, Ranks DEF Sigwait, ShutdownReturns, SignalsBlocked, ServerInHand, Aborted
    <3> QED  BY <1>1, <2>1, <3>2 DEF SignalsBlocked
  <2>4. ServerInHand' /\ CallsInHand' /\ BookInHand'
    BY <1>1, <2>1 DEF ServerInHand, CallsInHand, BookInHand, Aborted
  <2> QED  BY <2>2, <2>3, <2>4
<1> QED  BY <1>2, <1>3

LEMMA LifeInvStep == LifeInv /\ [LNext]_lvars => LifeInv'
<1> SUFFICES ASSUME LifeInv, [LNext]_lvars PROVE LifeInv'
  OBVIOUS
<1> DEFINE Rest == LTypeOK' /\ SignalsBlocked' /\ ServerInHand' /\ CallsInHand' /\ BookInHand'
<1>1. WorkerInv'
  BY LifeStepIsWorkerStep, WorkerInvStep DEF LifeInv, LTypeOK
<1> SUFFICES Rest
  BY <1>1 DEF LifeInv
<1>2. CASE MainMoves
  BY <1>2, MainMovesKeepInv
<1>3. CASE MainCalls
  BY <1>1, <1>3, MainCallsKeepInv
<1>4. CASE MainDrains \/ Destroy
  BY <1>1, <1>4, MainDrainsKeepsInv
<1>5. CASE EngineThread \/ WakesForNoReason
  BY <1>1, <1>5, EngineKeepsInv
<1>6. CASE Sigterm \/ Sigwait \/ ShutdownReturns
  BY <1>1, <1>6, SignalsKeepInv
<1>7. ASSUME NEW t \in Handlers, HandlerStarts(t) \/ HandlerRuns(t) PROVE Rest
  BY <1>1, <1>7, HandlersKeepInv
<1>8. CASE Terminated \/ UNCHANGED lvars
  <2>1. /\ UNCHANGED <<proc, masked, threads, signal, server, inflight, book, threw, unsaved, socket, exit_code>>
        /\ UNCHANGED <<stopping, call, done>>
    BY <1>8 DEF Terminated, lvars, process, vars
  <2> QED  BY <1>1, <2>1 DEF LifeInv, LTypeOK, WorkerInv, SignalsBlocked, ServerInHand,
                             CallsInHand, BookInHand, Aborted
<1> QED  BY <1>2, <1>3, <1>4, <1>5, <1>6, <1>7, <1>8 DEF LNext, MainThread, MainMoves

LEMMA CleanExitFollows == LifeInv => CleanExit
<1> SUFFICES ASSUME LifeInv, proc = "exited", exit_code = 0
             PROVE  /\ book = "closed" /\ ~socket
                    /\ unsaved \subseteq {t \in Handlers : call[t] = "returned"}
                    /\ \A t \in Tasks : call[t] \in {"idle", "returned", "full"}
  BY DEF CleanExit
<1> USE Ranks, MainTasksAre DEF LifeInv, Aborted
<1>1. ~socket /\ inflight = {}
  BY DEF ServerInHand
<1>2. call["close"] = "returned" /\ "close" \in done /\ "close" \notin threw
  BY TasksAre DEF BookInHand, WorkerInv, OnePlace
<1>3. \A t \in MainTasks : call[t] = "returned"
  BY <1>2 DEF CallsInHand
<1>4. \A t \in Handlers : call[t] \in {"idle", "returned", "full"}
  BY <1>1, TasksAre DEF CallsInHand, LTypeOK, TypeOK
<1>5. ASSUME NEW t \in unsaved PROVE t \in Handlers /\ call[t] = "returned"
  <2>1. t \in done /\ t # "close"
    BY <1>2 DEF BookInHand
  <2>2. t \in Tasks /\ call[t] \in {"pushed", "blocked", "returned"}
    BY <2>1 DEF WorkerInv, OnePlace, TypeOK
  <2>3. t \in Handlers
    BY <2>1, <2>2, TasksAre DEF LTypeOK
  <2> QED  BY <1>4, <2>2, <2>3
<1> QED  BY <1>1, <1>2, <1>3, <1>4, <1>5, TasksAre DEF BookInHand
-----------------------------------------------------------------------------
(***************************************************************************)
(* The daemon's threads use the worker as the module Worker says callers   *)
(* and the main thread use it: every behaviour of the daemon is one of the *)
(* worker, so the theorems of WorkerProofs hold in it.                     *)
(***************************************************************************)
THEOREM DaemonUsesWorker == LSafety => Spec
<1>1. LInit => Init
  BY DEF LInit
<1>2. LifeInv => inflight \subseteq Handlers
  BY DEF LifeInv, LTypeOK
<1>3. LifeInv /\ [LNext]_lvars => [Next]_vars
  BY <1>2, LifeStepIsWorkerStep
<1> QED  BY <1>1, <1>3, LifeInvInit, LifeInvStep, PTL DEF LSafety, Spec

(***************************************************************************)
(* Every variable of the daemon and of its worker keeps its type.          *)
(***************************************************************************)
THEOREM LifecycleTypes == LSafety => []LTypeOK
<1>1. LifeInv => LTypeOK
  BY DEF LifeInv
<1> QED  BY <1>1, LifeInvInit, LifeInvStep, PTL DEF LSafety

(***************************************************************************)
(* main.cpp: the close is put on the queue after server->Wait().  For any  *)
(* number of clients it finds room, and no client's call meets a worker    *)
(* that is draining.                                                       *)
(***************************************************************************)
THEOREM FinalCloseIsAccepted == LSafety => []CloseIsAccepted
<1>1. LifeInv => CloseIsAccepted
  BY DEF LifeInv, CallsInHand, CloseIsAccepted
<1> QED  BY <1>1, LifeInvInit, LifeInvStep, PTL DEF LSafety

(***************************************************************************)
(* main.cpp: "A failed final save must not exit 0".  With exit code 0 the  *)
(* book is closed and every save that failed was that of a client's        *)
(* CloseBook, which has returned the error to that client.                 *)
(***************************************************************************)
THEOREM ExitZeroIsClean == LSafety => []CleanExit
  BY CleanExitFollows, LifeInvInit, LifeInvStep, PTL DEF LSafety

(***************************************************************************)
(* main.cpp: the signals are blocked before the first thread is created,   *)
(* so SIGTERM never ends a daemon that has one.                            *)
(***************************************************************************)
THEOREM SignalsNeverKill == LSafety => []NoDefaultTermination
<1>1. LifeInv => NoDefaultTermination
  BY DEF LifeInv, SignalsBlocked, NoDefaultTermination
<1> QED  BY <1>1, LifeInvInit, LifeInvStep, PTL DEF LSafety
=============================================================================
