---------------------------- MODULE WorkerProofs ----------------------------
(***************************************************************************)
(* The engine worker keeps its promises for any number of callers and any  *)
(* depth of the queue: tasks run in the order in which they were accepted, *)
(* each once; no wakeup is lost; a drained worker has run everything.      *)
(***************************************************************************)
EXTENDS Worker, SequenceTheorems, TLAPS

Queued(t) == \E i \in 1 .. Len(queue) : queue[i] = t

\* Where the engine thread is and what it has in hand.
EngineInHand ==
    /\ engine = "running" <=> task # None
    /\ engine = "exited" => stopping /\ queue = <<>>

\* How far the main thread has got with its two Drains.
MainInHand ==
    /\ main = "serving" <=> ~stopping
    /\ main \in {"drained", "over"} => engine = "exited"
    /\ joinable <=> main \notin {"drained", "over"}

\* A task whose caller waits is in exactly one place: queued (once), in the
\* engine thread's hands, or done.
OnePlace ==
    /\ \A i, j \in 1 .. Len(queue) : queue[i] = queue[j] => i = j
    /\ \A t \in Tasks : Queued(t) => call[t] \in {"pushed", "blocked"} /\ t # task /\ t \notin done
    /\ task # None => call[task] \in {"pushed", "blocked"} /\ task \notin done
    /\ \A t \in Tasks : call[t] = "returned" => t \in done
    /\ \A t \in done : call[t] \in {"pushed", "blocked", "returned"}
    /\ \A t \in Tasks : call[t] \in {"pushed", "blocked"} => Queued(t) \/ t = task \/ t \in done

WorkerInv == TypeOK /\ EngineInHand /\ MainInHand /\ OnePlace /\ FifoOrder /\ NoLostWakeup
-----------------------------------------------------------------------------
\* queue_.push_back: one more place, and the others stay.
LEMMA PushBack ==
    ASSUME NEW q \in Seq(Tasks), NEW t \in Tasks
    PROVE  /\ Append(q, t) \in Seq(Tasks) /\ Append(q, t) # <<>>
           /\ Len(Append(q, t)) = Len(q) + 1 /\ Len(q) \in Nat
           /\ \A i \in 1 .. Len(q) : Append(q, t)[i] = q[i]
           /\ Append(q, t)[Len(q) + 1] = t
  BY AppendProperties

\* queue_.pop_front: every place moves up by one.
LEMMA PopFront ==
    ASSUME NEW q \in Seq(Tasks), q # <<>>
    PROVE  /\ Head(q) \in Tasks /\ Tail(q) \in Seq(Tasks) /\ Head(q) = q[1]
           /\ Len(q) \in Nat \ {0} /\ Len(Tail(q)) = Len(q) - 1
           /\ \A i \in 1 .. Len(q) - 1 : Tail(q)[i] = q[i + 1]
<1>1. /\ Head(q) \in Tasks /\ Tail(q) \in Seq(Tasks) /\ Len(Tail(q)) = Len(q) - 1
      /\ \A i \in 1 .. Len(Tail(q)) : Tail(q)[i] = q[i + 1]
  BY HeadTailProperties
<1>2. Len(q) \in Nat \ {0}
  BY EmptySeq
<1>3. Head(q) = q[1]
  OBVIOUS
<1> QED  BY <1>1, <1>2, <1>3

\* Taking the front off the queue and putting it behind what was taken before
\* leaves the whole as it is.
LEMMA MoveAcross ==
    ASSUME NEW r \in Seq(Tasks), NEW q \in Seq(Tasks), q # <<>>
    PROVE  Append(r, Head(q)) \o Tail(q) = r \o q
<1> DEFINE left == Append(r, Head(q)) \o Tail(q)
<1>1. /\ Head(q) \in Tasks /\ Tail(q) \in Seq(Tasks) /\ Head(q) = q[1]
      /\ Len(q) \in Nat \ {0} /\ Len(Tail(q)) = Len(q) - 1
      /\ \A i \in 1 .. Len(q) - 1 : Tail(q)[i] = q[i + 1]
  BY PopFront
<1>2. /\ Append(r, Head(q)) \in Seq(Tasks) /\ Len(Append(r, Head(q))) = Len(r) + 1
      /\ Len(r) \in Nat
      /\ \A i \in 1 .. Len(r) : Append(r, Head(q))[i] = r[i]
      /\ Append(r, Head(q))[Len(r) + 1] = Head(q)
  BY <1>1, PushBack
<1>3. /\ left \in Seq(Tasks) /\ Len(left) = Len(r) + Len(q)
      /\ \A i \in 1 .. Len(r) + Len(q) :
            left[i] = IF i <= Len(r) + 1 THEN Append(r, Head(q))[i] ELSE Tail(q)[i - (Len(r) + 1)]
  BY <1>1, <1>2, ConcatProperties
<1>4. /\ r \o q \in Seq(Tasks) /\ Len(r \o q) = Len(r) + Len(q)
      /\ \A i \in 1 .. Len(r) + Len(q) :
            (r \o q)[i] = IF i <= Len(r) THEN r[i] ELSE q[i - Len(r)]
  BY ConcatProperties
<1>5. ASSUME NEW i \in 1 .. Len(left) PROVE left[i] = (r \o q)[i]
  <2>1. CASE i <= Len(r)
    BY <1>2, <1>3, <1>4, <1>5, <2>1
  <2>2. CASE i = Len(r) + 1
    BY <1>1, <1>2, <1>3, <1>4, <1>5, <2>2
  <2>3. CASE i > Len(r) + 1
    <3>1. i - (Len(r) + 1) \in 1 .. Len(q) - 1 /\ i - (Len(r) + 1) + 1 = i - Len(r)
      BY <1>1, <1>2, <1>3, <1>5, <2>3
    <3>2. Tail(q)[i - (Len(r) + 1)] = q[i - Len(r)]
      BY <1>1, <3>1
    <3> QED  BY <1>1, <1>2, <1>3, <1>4, <1>5, <2>3, <3>2
  <2> QED  BY <1>1, <1>2, <1>3, <2>1, <2>2, <2>3
<1> HIDE DEF left
<1>6. left = r \o q
  BY <1>3, <1>4, <1>5, SeqEqual
<1> QED  BY <1>6 DEF left
-----------------------------------------------------------------------------
LEMMA WorkerInvInit == Init => WorkerInv
<1> SUFFICES ASSUME Init PROVE WorkerInv
  OBVIOUS
<1>1. <<>> \in Seq(Tasks) /\ Len(<<>>) = 0 /\ <<>> \o <<>> = <<>>
  BY EmptySeq, ConcatEmptySeq
<1>2. TypeOK
  BY <1>1 DEF Init, TypeOK
<1>3. EngineInHand /\ MainInHand /\ NoLostWakeup
  BY DEF Init, EngineInHand, MainInHand, NoLostWakeup
<1>4. OnePlace
  BY <1>1 DEF Init, OnePlace, Queued
<1>5. FifoOrder
  BY <1>1 DEF Init, FifoOrder
<1> QED  BY <1>2, <1>3, <1>4, <1>5 DEF WorkerInv

\* Enqueue: a refused call leaves everything else alone; an accepted one is
\* queued behind the others, and its notification is still to come.
LEMMA EnqueueKeepsInv ==
    ASSUME WorkerInv, NEW t \in Tasks, Enqueue(t)
    PROVE  WorkerInv'
<1> USE NoneAssumption DEF WorkerInv
<1>1. UNCHANGED <<stopping, joinable, engine, task, done, main, executed>> /\ call[t] = "idle"
  BY DEF Enqueue
<1>2. CASE /\ call' \in {[call EXCEPT ![t] = "stopped"], [call EXCEPT ![t] = "full"]}
           /\ UNCHANGED <<queue, accepted>>
  <2>1. TypeOK'
    BY <1>1, <1>2 DEF TypeOK
  <2>2. EngineInHand' /\ MainInHand' /\ FifoOrder'
    BY <1>1, <1>2 DEF EngineInHand, MainInHand, FifoOrder
  <2>3. NoLostWakeup'
    BY <1>1, <1>2 DEF NoLostWakeup, TypeOK
  <2>4. OnePlace'
    <3>1. \A u \in Tasks : Queued(u)' <=> Queued(u)
      BY <1>2 DEF Queued
    <3>2. ~Queued(t) /\ t # task /\ t \notin done
      BY <1>1 DEF OnePlace
    <3>3. call'[t] \in {"stopped", "full"} /\ \A u \in Tasks : u # t => call'[u] = call[u]
      BY <1>2 DEF TypeOK
    <3>4. done \subseteq Tasks /\ task \in Tasks \cup {None}
      BY DEF TypeOK
    <3> QED  BY <1>1, <1>2, <3>1, <3>2, <3>3, <3>4 DEF OnePlace
  <2> QED  BY <2>1, <2>2, <2>3, <2>4
<1>3. CASE /\ ~stopping /\ call' = [call EXCEPT ![t] = "pushed"]
           /\ queue' = Append(queue, t) /\ accepted' = Append(accepted, t)
  <2>1. /\ queue' \in Seq(Tasks) /\ Len(queue') = Len(queue) + 1 /\ Len(queue) \in Nat
        /\ \A i \in 1 .. Len(queue) : queue'[i] = queue[i]
        /\ queue'[Len(queue) + 1] = t
        /\ accepted' \in Seq(Tasks)
    BY <1>3, PushBack DEF TypeOK
  <2>2. TypeOK'
    BY <1>1, <1>3, <2>1 DEF TypeOK
  <2>3. EngineInHand' /\ MainInHand'
    BY <1>1, <1>3 DEF EngineInHand, MainInHand
  <2>4. NoLostWakeup'
    BY <1>1, <1>3 DEF NoLostWakeup, TypeOK
  <2>5. FifoOrder'
    <3>1. executed \o Append(queue, t) = Append(executed \o queue, t)
      <4>1. executed \o queue \in Seq(Tasks) /\ <<t>> \in Seq(Tasks)
        BY ConcatProperties DEF TypeOK
      <4>2. /\ Append(queue, t) = queue \o <<t>>
            /\ Append(executed \o queue, t) = (executed \o queue) \o <<t>>
        BY <4>1, AppendIsConcat DEF TypeOK
      <4> QED  BY <4>1, <4>2, ConcatAssociative DEF TypeOK
    <3> QED  BY <1>1, <1>3, <3>1 DEF FifoOrder
  <2>6. OnePlace'
    <3>1. ASSUME NEW u \in Tasks PROVE Queued(u)' <=> Queued(u) \/ u = t
      BY <2>1 DEF Queued
    <3>2. ~Queued(t) /\ t # task /\ t \notin done
      BY <1>1 DEF OnePlace, TypeOK
    <3>3. \A i, j \in 1 .. Len(queue') : queue'[i] = queue'[j] => i = j
      <4>1. \A i \in 1 .. Len(queue) : queue'[i] = queue[i] /\ queue[i] # t
        BY <2>1, <3>2 DEF Queued
      <4>2. \A i, j \in 1 .. Len(queue) : queue[i] = queue[j] => i = j
        BY DEF OnePlace
      <4>3. \A i \in 1 .. Len(queue') : i \in 1 .. Len(queue) \/ i = Len(queue) + 1
        BY <2>1
      <4> QED  BY <2>1, <4>1, <4>2, <4>3
    <3>4. \A u \in Tasks : u # t => call'[u] = call[u]
      BY <1>3 DEF TypeOK
    <3>5. call'[t] = "pushed"
      BY <1>3 DEF TypeOK
    <3> QED  BY <1>1, <3>1, <3>2, <3>3, <3>4, <3>5 DEF OnePlace, TypeOK
  <2> QED  BY <2>2, <2>3, <2>4, <2>5, <2>6
<1> QED  BY <1>2, <1>3 DEF Enqueue

\* notify_one() leaves nobody asleep.
LEMMA NotifyKeepsInv ==
    ASSUME WorkerInv, NEW t \in Tasks, Notify(t)
    PROVE  WorkerInv'
<1> USE DEF WorkerInv, Notify, NotifyOne
<1>1. TypeOK'
  BY DEF TypeOK
<1>2. EngineInHand' /\ MainInHand' /\ FifoOrder' /\ NoLostWakeup'
  BY DEF EngineInHand, MainInHand, FifoOrder, NoLostWakeup
<1>3. OnePlace'
  BY DEF OnePlace, Queued, TypeOK
<1> QED  BY <1>1, <1>2, <1>3

LEMMA ReturnKeepsInv ==
    ASSUME WorkerInv, NEW t \in Tasks, Return(t)
    PROVE  WorkerInv'
<1> USE DEF WorkerInv, Return
<1>1. TypeOK'
  BY DEF TypeOK
<1>2. EngineInHand' /\ MainInHand' /\ FifoOrder'
  BY DEF EngineInHand, MainInHand, FifoOrder
<1>3. NoLostWakeup'
  BY DEF NoLostWakeup, TypeOK
<1>4. OnePlace'
  BY DEF OnePlace, Queued, TypeOK
<1> QED  BY <1>1, <1>2, <1>3, <1>4

\* The front of the queue passes into the engine thread's hands.
LEMMA TakeKeepsInv ==
    ASSUME WorkerInv, Take
    PROVE  WorkerInv'
<1> USE NoneAssumption DEF WorkerInv
<1>1. /\ engine = "check" /\ engine' = "running" /\ queue # <<>>
      /\ task' = Head(queue) /\ queue' = Tail(queue) /\ executed' = Append(executed, Head(queue))
      /\ UNCHANGED <<stopping, joinable, call, done, main, accepted>>
  BY DEF Take
<1>2. /\ task' \in Tasks /\ queue' \in Seq(Tasks) /\ task' = queue[1]
      /\ Len(queue) \in Nat \ {0} /\ Len(queue') = Len(queue) - 1
      /\ \A i \in 1 .. Len(queue) - 1 : queue'[i] = queue[i + 1]
  BY <1>1, PopFront DEF TypeOK
<1>3. executed' \in Seq(Tasks)
  BY <1>1, <1>2, PushBack DEF TypeOK
<1>4. TypeOK'
  BY <1>1, <1>2, <1>3 DEF TypeOK
<1>5. EngineInHand' /\ MainInHand' /\ NoLostWakeup'
  BY <1>1, <1>2 DEF EngineInHand, MainInHand, NoLostWakeup
<1>6. FifoOrder'
  BY <1>1, MoveAcross DEF FifoOrder, TypeOK
<1>7. OnePlace'
  <2>1. task = None
    BY <1>1 DEF EngineInHand
  <2>2. \A i, j \in 1 .. Len(queue) : queue[i] = queue[j] => i = j
    BY DEF OnePlace
  <2>3. ASSUME NEW i \in 1 .. Len(queue') PROVE i + 1 \in 1 .. Len(queue) /\ queue'[i] = queue[i + 1]
    BY <1>2, <2>3
  <2>4. ASSUME NEW u \in Tasks PROVE Queued(u)' <=> Queued(u) /\ u # task'
    <3>1. ASSUME Queued(u)' PROVE Queued(u) /\ u # task'
      <4>1. PICK i \in 1 .. Len(queue') : queue'[i] = u
        BY <3>1 DEF Queued
      <4>2. i + 1 \in 1 .. Len(queue) /\ queue[i + 1] = u /\ i + 1 # 1 /\ 1 \in 1 .. Len(queue)
        BY <1>2, <2>3, <4>1
      <4> QED  BY <1>2, <2>2, <4>2 DEF Queued
    <3>2. ASSUME Queued(u), u # task' PROVE Queued(u)'
      <4>1. PICK i \in 1 .. Len(queue) : queue[i] = u
        BY <3>2 DEF Queued
      <4>2. i # 1 /\ i - 1 \in 1 .. Len(queue) - 1 /\ (i - 1) + 1 = i
        BY <1>2, <3>2, <4>1
      <4>3. queue'[i - 1] = u
        BY <1>2, <4>1, <4>2
      <4> QED  BY <1>2, <4>2, <4>3 DEF Queued
    <3> QED  BY <3>1, <3>2
  <2>5. Queued(task')
    BY <1>2 DEF Queued
  <2>6. \A i, j \in 1 .. Len(queue') : queue'[i] = queue'[j] => i = j
    <3> SUFFICES ASSUME NEW i \in 1 .. Len(queue'), NEW j \in 1 .. Len(queue'),
                        queue'[i] = queue'[j]
                 PROVE  i = j
      OBVIOUS
    <3>1. i + 1 = j + 1
      BY <2>2, <2>3
    <3> QED  BY <1>2, <3>1
  <2> QED  BY <1>1, <1>2, <2>1, <2>4, <2>5, <2>6 DEF OnePlace
<1> QED  BY <1>4, <1>5, <1>6, <1>7

\* The task in hand is done.
LEMMA RunTaskKeepsInv ==
    ASSUME WorkerInv, RunTask
    PROVE  WorkerInv'
<1> USE NoneAssumption DEF WorkerInv, RunTask
<1>1. task \in Tasks
  BY DEF EngineInHand, TypeOK
<1>2. TypeOK'
  BY <1>1 DEF TypeOK
<1>3. EngineInHand' /\ MainInHand' /\ FifoOrder' /\ NoLostWakeup'
  BY DEF EngineInHand, MainInHand, FifoOrder, NoLostWakeup
<1>4. OnePlace'
  <2>1. \A u \in Tasks : Queued(u)' <=> Queued(u)
    BY DEF Queued
  <2> QED  BY <1>1, <2>1 DEF OnePlace, TypeOK
<1> QED  BY <1>2, <1>3, <1>4

\* The steps of the engine thread and of Drain that move no task.
LEMMA OtherStepsKeepInv ==
    ASSUME WorkerInv, Exit \/ Sleep \/ SpuriousWakeup \/ Drain
    PROVE  WorkerInv'
<1> USE DEF WorkerInv
<1>1. UNCHANGED <<queue, task, call, done, accepted, executed>>
  BY DEF Exit, Sleep, SpuriousWakeup, Drain, DrainBegin, DrainNotify, DrainJoin
<1>2. TypeOK'
  BY <1>1 DEF Exit, Sleep, SpuriousWakeup, Drain, DrainBegin, DrainNotify, DrainJoin, NotifyOne, TypeOK
<1>3. OnePlace' /\ FifoOrder'
  BY <1>1 DEF OnePlace, Queued, FifoOrder
<1>4. EngineInHand' /\ MainInHand' /\ NoLostWakeup'
  <2> USE DEF EngineInHand, MainInHand, NoLostWakeup
  <2>1. CASE Exit
    BY <2>1 DEF Exit
  <2>2. CASE Sleep \/ SpuriousWakeup
    BY <2>2 DEF Sleep, SpuriousWakeup
  <2>3. CASE DrainBegin
    BY <2>3 DEF DrainBegin, TypeOK
  <2>4. CASE DrainNotify
    BY <2>4 DEF DrainNotify, NotifyOne
  <2>5. CASE DrainJoin
    BY <2>5 DEF DrainJoin
  <2> QED  BY <2>1, <2>2, <2>3, <2>4, <2>5 DEF Drain
<1> QED  BY <1>2, <1>3, <1>4

LEMMA WorkerInvStep == WorkerInv /\ [Next]_vars => WorkerInv'
<1> SUFFICES ASSUME WorkerInv, [Next]_vars PROVE WorkerInv'
  OBVIOUS
<1>1. ASSUME NEW t \in Tasks, Enqueue(t) \/ CallStep(t) PROVE WorkerInv'
  BY <1>1, EnqueueKeepsInv, NotifyKeepsInv, ReturnKeepsInv DEF CallStep
<1>2. CASE EngineStep
  BY <1>2, TakeKeepsInv, RunTaskKeepsInv, OtherStepsKeepInv DEF EngineStep
<1>3. CASE SpuriousWakeup \/ Drain
  BY <1>3, OtherStepsKeepInv
<1>4. CASE Over \/ UNCHANGED vars
  <2>1. UNCHANGED <<queue, stopping, joinable, engine, task, call, done, main, accepted, executed>>
    BY <1>4 DEF Over, vars
  <2>2. TypeOK' /\ OnePlace'
    BY <2>1 DEF WorkerInv, TypeOK, OnePlace, Queued
  <2>3. EngineInHand' /\ MainInHand' /\ FifoOrder' /\ NoLostWakeup'
    BY <2>1 DEF WorkerInv, EngineInHand, MainInHand, FifoOrder, NoLostWakeup
  <2> QED  BY <2>2, <2>3 DEF WorkerInv
<1> QED  BY <1>1, <1>2, <1>3, <1>4 DEF Next

LEMMA DrainedFollows == WorkerInv => DrainedMeansDone
<1> SUFFICES ASSUME WorkerInv, main \in {"drained", "over"}
             PROVE  /\ engine = "exited" /\ stopping
                    /\ \A t \in Tasks : call[t] \in {"pushed", "blocked", "returned"} => t \in done
  BY DEF DrainedMeansDone
<1>1. engine = "exited" /\ stopping /\ queue = <<>> /\ task = None
  BY DEF WorkerInv, EngineInHand, MainInHand
<1>2. \A t \in Tasks : ~Queued(t)
  BY <1>1, EmptySeq DEF Queued
<1> QED  BY <1>1, <1>2, NoneAssumption DEF WorkerInv, OnePlace
-----------------------------------------------------------------------------
(***************************************************************************)
(* Every variable of the worker keeps its type.                            *)
(***************************************************************************)
THEOREM WorkerTypes == Spec => []TypeOK
<1>1. WorkerInv => TypeOK
  BY DEF WorkerInv
<1> QED  BY <1>1, WorkerInvInit, WorkerInvStep, PTL DEF Spec

(***************************************************************************)
(* worker.h: tasks execute "strictly in FIFO order", whatever handler      *)
(* threads, spurious wakeups and a shutdown do meanwhile.                  *)
(***************************************************************************)
THEOREM TasksRunInOrder == Spec => []FifoOrder
<1>1. WorkerInv => FifoOrder
  BY DEF WorkerInv
<1> QED  BY <1>1, WorkerInvInit, WorkerInvStep, PTL DEF Spec

(***************************************************************************)
(* worker.cpp, Loop and Enqueue: notify_one outside the lock is enough.    *)
(***************************************************************************)
THEOREM WakeupsArrive == Spec => []NoLostWakeup
<1>1. WorkerInv => NoLostWakeup
  BY DEF WorkerInv
<1> QED  BY <1>1, WorkerInvInit, WorkerInvStep, PTL DEF Spec

(***************************************************************************)
(* worker.h, Drain: "executes everything already queued, joins".           *)
(***************************************************************************)
THEOREM DrainRunsEverything == Spec => []DrainedMeansDone
  BY DrainedFollows, WorkerInvInit, WorkerInvStep, PTL DEF Spec
=============================================================================
