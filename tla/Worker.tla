------------------------------- MODULE Worker -------------------------------
(***************************************************************************)
(* The engine worker (src/engine/worker.cpp): gRPC handler threads put     *)
(* tasks on a bounded FIFO queue and block on a future; one thread runs    *)
(* them in order; the main thread drains the worker on shutdown and once   *)
(* more in the destructor.                                                 *)
(*                                                                         *)
(* A critical section of mu_ is one step.  What happens outside the lock,  *)
(* cv_.notify_one(), the task itself, thread_.join(), are steps of their   *)
(* own.  A handler whose call was refused may call again: that is another  *)
(* task here.                                                              *)
(***************************************************************************)
EXTENDS Naturals, Sequences

CONSTANTS Tasks,     \* the calls of EngineWorker::Run
          MaxDepth   \* max_depth_

ASSUME WorkerAssumption == MaxDepth \in Nat

None == "none"       \* no task in hand

ASSUME NoneAssumption == None \notin Tasks

VARIABLES
    queue,      \* queue_
    stopping,   \* stopping_
    joinable,   \* thread_.joinable()
    engine,     \* the engine thread: "check" (about to take the lock),
                \* "asleep" (in cv_.wait), "running" or "exited"
    task,       \* the task the engine thread has taken, or None
    call,       \* per task, its caller: "idle", "pushed" (before notify_one),
                \* "blocked" (in future.get), "returned", "full" or "stopped"
    done,       \* the tasks whose future is ready
    main,       \* the main thread: "serving", then twice (Drain, destructor)
                \* "notify" and "join", in between "drained", at last "over"
    accepted,   \* history: the tasks that entered the queue, in order
    executed    \* history: the tasks the engine thread took, in order

vars == <<queue, stopping, joinable, engine, task, call, done, main, accepted, executed>>

Init ==
    /\ queue = <<>> /\ stopping = FALSE /\ joinable = TRUE
    /\ engine = "check" /\ task = None
    /\ call = [t \in Tasks |-> "idle"] /\ done = {}
    /\ main = "serving"
    /\ accepted = <<>> /\ executed = <<>>

\* cv_.notify_one(): lost when the engine thread is not in cv_.wait.
NotifyOne == engine' = IF engine = "asleep" THEN "check" ELSE engine
-----------------------------------------------------------------------------
\* Mutant: a task is still accepted while the worker is stopping.
EnqueueWhileStopping(t) ==
    /\ call[t] = "idle"
    /\ IF Len(queue) >= MaxDepth
       THEN call' = [call EXCEPT ![t] = "full"] /\ UNCHANGED <<queue, accepted>>
       ELSE /\ call' = [call EXCEPT ![t] = "pushed"]
            /\ queue' = Append(queue, t) /\ accepted' = Append(accepted, t)
    /\ UNCHANGED <<stopping, joinable, engine, task, done, main, executed>>

\* Enqueue, under the lock: refuse, or push.
Enqueue(t) ==
    /\ call[t] = "idle"
    /\ \/ /\ stopping
          /\ call' = [call EXCEPT ![t] = "stopped"]
          /\ UNCHANGED <<queue, accepted>>
       \/ /\ ~stopping /\ Len(queue) >= MaxDepth
          /\ call' = [call EXCEPT ![t] = "full"]
          /\ UNCHANGED <<queue, accepted>>
       \/ /\ ~stopping /\ Len(queue) < MaxDepth
          /\ call' = [call EXCEPT ![t] = "pushed"]
          /\ queue' = Append(queue, t) /\ accepted' = Append(accepted, t)
    /\ UNCHANGED <<stopping, joinable, engine, task, done, main, executed>>

\* Mutant: the notification is forgotten.
NoNotify(t) ==
    /\ call[t] = "pushed"
    /\ call' = [call EXCEPT ![t] = "blocked"]
    /\ UNCHANGED <<queue, stopping, joinable, engine, task, done, main, accepted, executed>>

\* Enqueue, after the lock, and on to future.get().
Notify(t) ==
    /\ call[t] = "pushed"
    /\ call' = [call EXCEPT ![t] = "blocked"]
    /\ NotifyOne
    /\ UNCHANGED <<queue, stopping, joinable, task, done, main, accepted, executed>>

\* future.get() returns the result or rethrows.
Return(t) ==
    /\ call[t] = "blocked" /\ t \in done
    /\ call' = [call EXCEPT ![t] = "returned"]
    /\ UNCHANGED <<queue, stopping, joinable, engine, task, done, main, accepted, executed>>
-----------------------------------------------------------------------------
\* Mutant: the thread leaves as soon as it is told to stop.
ExitAtOnce ==
    /\ engine = "check" /\ stopping
    /\ engine' = "exited"
    /\ UNCHANGED <<queue, stopping, joinable, task, call, done, main, accepted, executed>>

\* Loop, under the lock: the wait predicate holds and the queue is empty.
Exit ==
    /\ engine = "check" /\ stopping /\ queue = <<>>
    /\ engine' = "exited"
    /\ UNCHANGED <<queue, stopping, joinable, task, call, done, main, accepted, executed>>

\* Mutant: the newest task is taken.
TakeNewest ==
    /\ engine = "check" /\ queue # <<>>
    /\ engine' = "running" /\ task' = queue[Len(queue)]
    /\ queue' = SubSeq(queue, 1, Len(queue) - 1)
    /\ executed' = Append(executed, task')
    /\ UNCHANGED <<stopping, joinable, call, done, main, accepted>>

\* Loop, under the lock: pop the front.
Take ==
    /\ engine = "check" /\ queue # <<>>
    /\ engine' = "running" /\ task' = Head(queue) /\ queue' = Tail(queue)
    /\ executed' = Append(executed, task')
    /\ UNCHANGED <<stopping, joinable, call, done, main, accepted>>

\* Loop, under the lock: the predicate is false; sleep and release the lock.
Sleep ==
    /\ engine = "check" /\ ~stopping /\ queue = <<>>
    /\ engine' = "asleep"
    /\ UNCHANGED <<queue, stopping, joinable, task, call, done, main, accepted, executed>>

\* A condition variable may wake up for no reason.
SpuriousWakeup ==
    /\ engine = "asleep"
    /\ engine' = "check"
    /\ UNCHANGED <<queue, stopping, joinable, task, call, done, main, accepted, executed>>

\* Mutant: the task is moved away before it is run.
RunMovedTask ==
    /\ engine = "running"
    /\ engine' = "check" /\ task' = None
    /\ done' = done \cup {task'}
    /\ UNCHANGED <<queue, stopping, joinable, call, main, accepted, executed>>

\* task(): the packaged_task makes the future ready, by value or exception.
RunTask ==
    /\ engine = "running"
    /\ done' = done \cup {task}
    /\ engine' = "check" /\ task' = None
    /\ UNCHANGED <<queue, stopping, joinable, call, main, accepted, executed>>
-----------------------------------------------------------------------------
\* Drain, under the lock; a Drain after the join returns at once.
DrainBegin ==
    /\ main \in {"serving", "drained"}
    /\ IF stopping /\ ~joinable THEN main' = "over" /\ UNCHANGED stopping
       ELSE main' = "notify" /\ stopping' = TRUE
    /\ UNCHANGED <<queue, joinable, engine, task, call, done, accepted, executed>>

\* Mutant: Drain sets the flag and does not wake the thread.
DrainWithoutNotify ==
    /\ main = "notify"
    /\ main' = "join"
    /\ UNCHANGED <<queue, stopping, joinable, engine, task, call, done, accepted, executed>>

DrainNotify ==
    /\ main = "notify"
    /\ main' = "join"
    /\ NotifyOne
    /\ UNCHANGED <<queue, stopping, joinable, task, call, done, accepted, executed>>

\* thread_.join() returns when the thread function has.
DrainJoin ==
    /\ main = "join" /\ engine = "exited"
    /\ main' = "drained" /\ joinable' = FALSE
    /\ UNCHANGED <<queue, stopping, engine, task, call, done, accepted, executed>>
-----------------------------------------------------------------------------
Over ==
    /\ main = "over"
    /\ \A t \in Tasks : call[t] \in {"returned", "full", "stopped"}
    /\ UNCHANGED vars

EngineStep == Exit \/ Take \/ Sleep \/ RunTask
CallStep(t) == Notify(t) \/ Return(t)
Drain == DrainBegin \/ DrainNotify \/ DrainJoin

Next ==
    \/ \E t \in Tasks : Enqueue(t) \/ CallStep(t)
    \/ EngineStep \/ SpuriousWakeup
    \/ Drain \/ Over

Spec == Init /\ [][Next]_vars

(***************************************************************************)
(* Threads that can run do run.  Nothing obliges clients to call, SIGTERM  *)
(* to arrive (the first DrainBegin), or a spurious wakeup to happen.       *)
(***************************************************************************)
Fairness ==
    /\ WF_vars(EngineStep)
    /\ \A t \in Tasks : WF_vars(CallStep(t))
    /\ WF_vars(DrainNotify) /\ WF_vars(DrainJoin)
    /\ WF_vars(main = "drained" /\ DrainBegin)

LiveSpec == Spec /\ Fairness
-----------------------------------------------------------------------------
TypeOK ==
    /\ queue \in Seq(Tasks) /\ stopping \in BOOLEAN /\ joinable \in BOOLEAN
    /\ engine \in {"check", "asleep", "running", "exited"}
    /\ task \in Tasks \cup {None}
    /\ call \in [Tasks -> {"idle", "pushed", "blocked", "returned", "full", "stopped"}]
    /\ done \subseteq Tasks
    /\ main \in {"serving", "notify", "join", "drained", "over"}
    /\ accepted \in Seq(Tasks) /\ executed \in Seq(Tasks)

(***************************************************************************)
(* worker.h: tasks execute "strictly in FIFO order".  What has been taken, *)
(* followed by what is queued, is exactly what was accepted: nothing is    *)
(* lost, run twice or overtaken.                                           *)
(***************************************************************************)
FifoOrder == executed \o queue = accepted

(***************************************************************************)
(* worker.h, Drain: "executes everything already queued, joins".  Once it  *)
(* has returned, every task that was ever accepted has run, and none can   *)
(* be accepted any more.                                                   *)
(***************************************************************************)
DrainedMeansDone ==
    main \in {"drained", "over"} =>
        /\ engine = "exited" /\ stopping
        /\ \A t \in Tasks : call[t] \in {"pushed", "blocked", "returned"} => t \in done

(***************************************************************************)
(* The engine thread does not sleep through work: whenever it sleeps with  *)
(* a task queued or a stop requested, a notification is still on its way.  *)
(***************************************************************************)
NoLostWakeup ==
    engine = "asleep" /\ (queue # <<>> \/ stopping) =>
        main = "notify" \/ \E t \in Tasks : call[t] = "pushed"

(***************************************************************************)
(* Every accepted call gets its answer, also when SIGTERM comes in between.*)
(***************************************************************************)
AcceptedReturns == \A t \in Tasks : call[t] = "pushed" ~> call[t] = "returned"

(***************************************************************************)
(* Drain ends, and the destructor's second Drain returns at once.          *)
(***************************************************************************)
DrainTerminates == main = "notify" ~> main = "over"
=============================================================================
