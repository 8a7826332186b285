----------------------------- MODULE Lifecycle ------------------------------
(***************************************************************************)
(* The life of one daemon process (Run in src/main.cpp), on top of the     *)
(* engine worker: the signal mask, the tasks the main thread runs while it *)
(* starts, the gRPC server with its handler threads, the thread that waits *)
(* for SIGTERM, and the way down to the exit code.                         *)
(*                                                                         *)
(* The main thread's own calls of worker.Run are tasks of the same queue.  *)
(* A handler is a call from a client; it may be any RPC, so its task may   *)
(* open or close the book.  Locks and snapshot, which come before the      *)
(* first thread, are the modules BookLock and Backup.                      *)
(***************************************************************************)
EXTENDS Worker

CONSTANTS Handlers    \* the calls clients make

\* The worker.Run calls of the start, in order, and the one of the end.
Startup == <<"journal", "book", "checks", "reconcile", "indeterminate">>
MainTasks == {Startup[i] : i \in DOMAIN Startup} \cup {"close"}

ASSUME LifecycleAssumption ==
    Tasks = Handlers \cup MainTasks /\ Handlers \cap MainTasks = {}

VARIABLES
    proc,      \* where the main thread is in Run
    masked,    \* the threads that block SIGTERM
    threads,   \* the threads there are
    signal,    \* a SIGTERM is pending
    server,    \* the gRPC server: "none", "listening", "shutting" or "down"
    inflight,  \* the handlers that have started and not finished
    book,      \* "open" or "closed"
    threw,     \* the main thread's tasks that ended in an exception
    unsaved,   \* history: the calls of Session::Close that could not save the
               \* book, by the task that made them, or "~Session"
    socket,    \* the socket file exists
    exit_code

process == <<proc, masked, threads, signal, server, inflight, book, threw, unsaved, socket, exit_code>>
lvars == <<vars, process>>

\* Where the main thread is: a task of its own, or one of these.
Places == {"begin", "spawn", "listen", "wait", "drain", "unlink", "kill", "join",
           "destroy", "exited", "failed", "killed"} \cup MainTasks

Ended == {"exited", "failed", "killed"}

LInit ==
    /\ Init
    /\ proc = "begin" /\ threads = {"main"} /\ masked = {} /\ signal = FALSE
    /\ server = "none" /\ inflight = {} /\ book = "closed" /\ threw = {}
    /\ unsaved = {}
    /\ socket = FALSE /\ exit_code = 0

Alive == proc \notin Ended

\* New threads inherit the mask of the main thread.
Spawn(new) ==
    /\ threads' = threads \cup new
    /\ masked' = IF "main" \in masked THEN masked \cup new ELSE masked

AfterStartup(t) ==
    LET i == CHOOSE i \in DOMAIN Startup : Startup[i] = t
    IN  IF i = Len(Startup) THEN "listen" ELSE Startup[i + 1]
-----------------------------------------------------------------------------
(* The main thread                                                          *)

\* pthread_sigmask, before there is another thread.
BlockSignals ==
    /\ proc = "begin"
    /\ proc' = "spawn" /\ masked' = {"main"}
    /\ UNCHANGED <<vars, threads, signal, server, inflight, book, threw, unsaved, socket, exit_code>>

\* Mutant: the mask is set when the engine thread is already there.
SpawnUnmasked ==
    /\ proc = "spawn"
    /\ proc' = Startup[1] /\ threads' = threads \cup {"engine"}
    /\ UNCHANGED <<vars, masked, signal, server, inflight, book, threw, unsaved, socket, exit_code>>

\* The constructor of EngineWorker.
StartWorker ==
    /\ proc = "spawn"
    /\ proc' = Startup[1] /\ Spawn({"engine"})
    /\ UNCHANGED <<vars, signal, server, inflight, book, threw, unsaved, socket, exit_code>>

\* worker.Run of the main thread: Enqueue, and what follows it.
MainCalls ==
    /\ Alive /\ proc \in MainTasks
    /\ Enqueue(proc) \/ Notify(proc) \/ Return(proc)
    /\ UNCHANGED process

MainThrew == call[proc] \in {"full", "stopped"} \/ (call[proc] = "returned" /\ proc \in threw)

\* A task of the start returned: on to the next one.
StartupGoesOn ==
    /\ proc \in MainTasks \ {"close"} /\ call[proc] = "returned" /\ ~MainThrew
    /\ proc' = AfterStartup(proc)
    /\ UNCHANGED <<vars, masked, threads, signal, server, inflight, book, threw, unsaved, socket, exit_code>>

\* It threw, or the server cannot listen: Fail.  (The last task is not in a
\* try block and the process is terminated instead.)
StartupFails ==
    /\ \/ proc \in MainTasks \ {"close"} /\ MainThrew
       \/ proc = "listen"
    /\ proc' = "failed" /\ exit_code' = 1
    /\ UNCHANGED <<vars, masked, threads, signal, server, inflight, book, threw, unsaved, socket>>

\* BuildAndStart with the threads of gRPC, and the signal thread.
Listen ==
    /\ proc = "listen"
    /\ proc' = "wait" /\ server' = "listening" /\ socket' = TRUE /\ Spawn({"grpc", "signal"})
    /\ UNCHANGED <<vars, signal, inflight, book, threw, unsaved, exit_code>>

\* Mutant: the server is not waited for, only told to stop.
WaitForShutdownCall ==
    /\ proc = "wait" /\ server # "listening"
    /\ proc' = "close"
    /\ UNCHANGED <<vars, masked, threads, signal, server, inflight, book, threw, unsaved, socket, exit_code>>

\* server->Wait().
ServerWait ==
    /\ proc = "wait" /\ server = "down"
    /\ proc' = "close"
    /\ UNCHANGED <<vars, masked, threads, signal, server, inflight, book, threw, unsaved, socket, exit_code>>

\* Mutant: a failed close does not change the exit code.
CloseFailureUnreported ==
    /\ proc = "close" /\ call[proc] \in {"returned", "full", "stopped"}
    /\ proc' = "drain"
    /\ UNCHANGED <<vars, masked, threads, signal, server, inflight, book, threw, unsaved, socket, exit_code>>

\* The final session.Close() is back: a failure makes the exit code 1.
CloseReturned ==
    /\ proc = "close" /\ call[proc] \in {"returned", "full", "stopped"}
    /\ proc' = "drain"
    /\ exit_code' = IF MainThrew THEN 1 ELSE exit_code
    /\ UNCHANGED <<vars, masked, threads, signal, server, inflight, book, threw, unsaved, socket>>

\* worker.Drain().
MainDrains ==
    /\ proc = "drain"
    /\ \/ main = "serving" /\ DrainBegin /\ UNCHANGED process
       \/ (DrainNotify \/ DrainJoin) /\ UNCHANGED process
       \/ /\ main = "drained" /\ proc' = "unlink"
          /\ UNCHANGED <<vars, masked, threads, signal, server, inflight, book, threw, unsaved, socket, exit_code>>

Unlink ==
    /\ proc = "unlink"
    /\ proc' = "kill" /\ socket' = FALSE
    /\ UNCHANGED <<vars, masked, threads, signal, server, inflight, book, threw, unsaved, exit_code>>

\* kill(getpid(), SIGTERM): blocked in every thread, it stays pending.
KillSelf ==
    /\ proc = "kill"
    /\ IF threads \subseteq masked THEN signal' = TRUE /\ proc' = "join"
       ELSE proc' = "killed" /\ UNCHANGED signal
    /\ UNCHANGED <<vars, masked, threads, server, inflight, book, threw, unsaved, socket, exit_code>>

JoinSignalThread ==
    /\ proc = "join" /\ "signal" \notin threads
    /\ proc' = "destroy"
    /\ UNCHANGED <<vars, masked, threads, signal, server, inflight, book, threw, unsaved, socket, exit_code>>

\* The destructors: ~Session closes a book that is still open, on the main
\* thread, and swallows its error; ~EngineWorker drains once more.
Destroy ==
    /\ proc = "destroy"
    /\ DrainBegin
    /\ proc' = "exited"
    /\ book' = "closed"
    /\ \/ UNCHANGED unsaved
       \/ book = "open" /\ unsaved' = unsaved \cup {"~Session"}
    /\ UNCHANGED <<masked, threads, signal, server, inflight, threw, socket, exit_code>>

MainThread ==
    \/ BlockSignals \/ StartWorker \/ MainCalls \/ StartupGoesOn \/ StartupFails \/ Listen
    \/ ServerWait \/ CloseReturned \/ MainDrains \/ Unlink \/ KillSelf \/ JoinSignalThread
    \/ Destroy
-----------------------------------------------------------------------------
(* The other threads                                                        *)

\* Session::Open by a client: a book that is open stays so; else it may fail.
OpenSession == book' \in {book, "open"} /\ UNCHANGED <<threw, unsaved>>

(***************************************************************************)
(* Session::Close: nothing to do if there is no session.  A save that      *)
(* fails is reported by an exception, after the session has been torn down *)
(* all the same.                                                           *)
(***************************************************************************)
CloseSession ==
    /\ book' = "closed"
    /\ \/ UNCHANGED <<threw, unsaved>>
       \/ /\ book = "open" /\ unsaved' = unsaved \cup {task}
          /\ threw' = IF task \in MainTasks THEN threw \cup {task} ELSE threw

\* The tasks of the start: each may throw, and one of them opens the book.
StartupTask ==
    /\ \/ threw' = threw /\ book' = IF task = "book" THEN "open" ELSE book
       \/ threw' = threw \cup {task} /\ UNCHANGED book
    /\ UNCHANGED unsaved

\* The engine thread, while it exists.  A client's call is any RPC: OpenBook,
\* CloseBook, or one that leaves the session alone.
EngineThread ==
    /\ Alive /\ "engine" \in threads
    /\ \/ /\ Exit \/ Take \/ Sleep
          /\ UNCHANGED process
       \/ /\ RunTask
          /\ \/ task \in MainTasks \ {"close"} /\ StartupTask
             \/ task \in Handlers /\ OpenSession
             \/ task \in Handlers \cup {"close"} /\ CloseSession
          /\ UNCHANGED <<proc, masked, threads, signal, server, inflight, socket, exit_code>>

WakesForNoReason == Alive /\ SpuriousWakeup /\ UNCHANGED process

\* gRPC starts a handler for a call.
HandlerStarts(t) ==
    /\ server = "listening" /\ t \in Handlers \ inflight /\ call[t] = "idle"
    /\ inflight' = inflight \cup {t}
    /\ UNCHANGED <<vars, proc, masked, threads, signal, server, book, threw, unsaved, socket, exit_code>>

HandlerRuns(t) ==
    /\ Alive /\ t \in inflight
    /\ \/ (Enqueue(t) \/ Notify(t) \/ Return(t)) /\ UNCHANGED process
       \/ /\ call[t] \in {"returned", "full", "stopped"}
          /\ inflight' = inflight \ {t}
          /\ UNCHANGED <<vars, proc, masked, threads, signal, server, book, threw, unsaved, socket, exit_code>>

\* SIGTERM from outside: pending if every thread blocks it, else the default
\* action ends the process.
Sigterm ==
    /\ Alive /\ ~signal
    /\ IF threads \subseteq masked THEN signal' = TRUE /\ UNCHANGED proc
       ELSE proc' = "killed" /\ UNCHANGED signal
    /\ UNCHANGED <<vars, masked, threads, server, inflight, book, threw, unsaved, socket, exit_code>>

\* Mutant: the signal thread forgets the server.
SigwaitOnly ==
    /\ Alive /\ "signal" \in threads /\ server = "listening" /\ signal
    /\ signal' = FALSE /\ threads' = threads \ {"signal"}
    /\ UNCHANGED <<vars, proc, masked, server, inflight, book, threw, unsaved, socket, exit_code>>

\* sigwait, and the call of server->Shutdown().
Sigwait ==
    /\ Alive /\ "signal" \in threads /\ server = "listening" /\ signal
    /\ signal' = FALSE /\ server' = "shutting"
    /\ UNCHANGED <<vars, proc, masked, threads, inflight, book, threw, unsaved, socket, exit_code>>

\* Shutdown has no deadline: it returns when the last handler has finished.
ShutdownReturns ==
    \/ /\ Alive /\ server = "shutting" /\ inflight = {}
       /\ server' = "down"
       /\ UNCHANGED <<vars, proc, masked, threads, signal, inflight, book, threw, unsaved, socket, exit_code>>
    \/ /\ Alive /\ server = "down" /\ "signal" \in threads
       /\ threads' = threads \ {"signal"}
       /\ UNCHANGED <<vars, proc, masked, signal, server, inflight, book, threw, unsaved, socket, exit_code>>

Terminated == ~Alive /\ UNCHANGED lvars

LNext ==
    \/ MainThread \/ EngineThread \/ WakesForNoReason \/ Sigterm \/ Sigwait \/ ShutdownReturns
    \/ \E t \in Handlers : HandlerStarts(t) \/ HandlerRuns(t)
    \/ Terminated

(***************************************************************************)
(* Every thread that can run does; nothing obliges a client to call or     *)
(* SIGTERM to come.                                                        *)
(***************************************************************************)
LFairness ==
    /\ WF_lvars(MainThread) /\ WF_lvars(EngineThread)
    /\ WF_lvars(Sigwait) /\ WF_lvars(ShutdownReturns)
    /\ \A t \in Handlers : WF_lvars(HandlerRuns(t))

LSafety == LInit /\ [][LNext]_lvars

LSpec == LSafety /\ LFairness
-----------------------------------------------------------------------------
LTypeOK ==
    /\ TypeOK
    /\ proc \in Places
    /\ threads \subseteq {"main", "engine", "grpc", "signal"} /\ masked \subseteq {"main", "engine", "grpc", "signal"}
    /\ signal \in BOOLEAN /\ socket \in BOOLEAN /\ exit_code \in {0, 1}
    /\ server \in {"none", "listening", "shutting", "down"}
    /\ inflight \subseteq Handlers /\ threw \subseteq MainTasks
    /\ book \in {"closed", "open"} /\ unsaved \subseteq Handlers \cup {"close", "~Session"}

(***************************************************************************)
(* main.cpp: "In-flight handlers have finished; run the close on the       *)
(* engine thread".  However many calls were under way when SIGTERM came,   *)
(* the final close finds room in the queue, and no client's call is ever   *)
(* answered that the worker is draining.                                   *)
(***************************************************************************)
CloseIsAccepted ==
    /\ MaxDepth > 0 => call["close"] \notin {"full", "stopped"}
    /\ \A t \in Handlers : call[t] # "stopped"

(***************************************************************************)
(* "A failed final save must not exit 0": exit code 0 means that the book  *)
(* was closed after the last client call had run, that the socket file is  *)
(* gone, and that no failed save went unreported.  It does not mean that   *)
(* every save worked: a client's CloseBook whose save fails tears the      *)
(* session down, so the final close finds nothing left to save.  But then  *)
(* that client's call has returned the error; neither the final close nor  *)
(* ~Session, which swallows it, has had one.                               *)
(***************************************************************************)
CleanExit ==
    proc = "exited" /\ exit_code = 0 =>
        /\ book = "closed" /\ ~socket
        /\ unsaved \subseteq {t \in Handlers : call[t] = "returned"}
        /\ \A t \in Tasks : call[t] \in {"idle", "returned", "full"}

(***************************************************************************)
(* "what guarantees the drain path below runs instead of default           *)
(* termination": once the engine thread exists a SIGTERM never ends the    *)
(* process by itself.                                                      *)
(***************************************************************************)
NoDefaultTermination == proc = "killed" => "engine" \notin threads

(***************************************************************************)
(* A SIGTERM, also one that comes while the daemon is still starting,      *)
(* brings it down through Run's end or a startup failure.                  *)
(***************************************************************************)
SigtermEnds == signal ~> proc \in Ended
=============================================================================
