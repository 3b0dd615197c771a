------------------------ MODULE AsyncRuntimeProofs ------------------------
(***************************************************************************)
(* Proofs about the worker pool, for any number of workers and tasks and   *)
(* any depth of nesting.                                                   *)
(***************************************************************************)
EXTENDS AsyncRuntime, FiniteSetTheorems, TLAPS

\* A worker that runs a task holds one.
Held == \A w \in Worker : worker[w] = "running" => holds[w] \in Task

Shape == TypeOK /\ Held

\* What is left of a queue of tasks is a queue of tasks, and it still holds
\* every task but the first.
LEMMA TailKeepsRest ==
  ASSUME NEW q \in Seq(Task), q # <<>>
  PROVE  /\ Head(q) \in Task
         /\ Tail(q) \in Seq(Task)
         /\ Len(Tail(q)) = Len(q) - 1
         /\ \A i \in 1 .. Len(q) :
              q[i] # Head(q) => \E j \in 1 .. Len(Tail(q)) : Tail(q)[j] = q[i]
<1>1. /\ Head(q) = q[1] /\ Len(q) \in Nat \ {0}
      /\ Len(Tail(q)) = Len(q) - 1
      /\ \A j \in 1 .. Len(Tail(q)) : Tail(q)[j] = q[j + 1]
  OBVIOUS
<1>2. Head(q) \in Task /\ Tail(q) \in Seq(Task)
  OBVIOUS
<1>3. ASSUME NEW i \in 1 .. Len(q), q[i] # Head(q)
      PROVE  \E j \in 1 .. Len(Tail(q)) : Tail(q)[j] = q[i]
  <2>1. i # 1
    BY <1>1, <1>3
  <2>2. i - 1 \in 1 .. Len(Tail(q)) /\ Tail(q)[i - 1] = q[i]
    BY <1>1, <2>1
  <2> QED BY <2>2
<1> QED BY <1>1, <1>2, <1>3

\* A task that is pushed joins the tasks already in the queue.
LEMMA AppendKeepsAll ==
  ASSUME NEW q \in Seq(Task), NEW e \in Task
  PROVE  /\ Append(q, e) \in Seq(Task)
         /\ Len(Append(q, e)) = Len(q) + 1
         /\ \E j \in 1 .. Len(Append(q, e)) : Append(q, e)[j] = e
         /\ \A i \in 1 .. Len(q) :
              \E j \in 1 .. Len(Append(q, e)) : Append(q, e)[j] = q[i]
<1>1. /\ Append(q, e) \in Seq(Task)
      /\ Len(Append(q, e)) = Len(q) + 1 /\ Len(q) \in Nat
      /\ \A i \in 1 .. Len(q) : Append(q, e)[i] = q[i]
      /\ Append(q, e)[Len(q) + 1] = e
  OBVIOUS
<1>2. \A i \in 1 .. Len(q) : i \in 1 .. Len(Append(q, e))
  BY <1>1
<1>3. Len(q) + 1 \in 1 .. Len(Append(q, e))
  BY <1>1
<1> QED BY <1>1, <1>2, <1>3

-----------------------------------------------------------------------------
(* Type correctness.                                                       *)

LEMMA ShapeStep == Shape /\ [Next]_vars => Shape'
<1> SUFFICES ASSUME Shape, [Next]_vars PROVE Shape'
  OBVIOUS
<1> USE PoolAssumption DEF Shape, TypeOK, Held
<1>1. CASE PostWorker
  <2>1. nextTask \in Task /\ 1 \in 0 .. Depth
    BY <1>1 DEF PostWorker, Push, Task
  <2>2. workerQueue' \in Seq(Task)
    BY <1>1, <2>1, AppendKeepsAll DEF PostWorker, Push
  <2>3. /\ level' \in [Task -> 0 .. Depth]
        /\ nextTask' \in 1 .. MaxTasks + 1 /\ notifications' \in Nat
    BY <1>1, <2>1 DEF PostWorker, Push, Task
  <2>4. /\ task' \in [Task -> {"unposted", "queued", "running", "waiting", "finished"}]
        /\ late' \subseteq Task
    BY <1>1, <2>1 DEF PostWorker, Push
  <2>5. UNCHANGED <<mainQueue, main, stop, worker, holds, child>>
    BY <1>1 DEF PostWorker
  <2> QED BY <2>2, <2>3, <2>4, <2>5
<1>2. CASE NotifyOne
  <2>1. UNCHANGED <<queues, stop, holds, tasks>> /\ notifications' \in Nat
    BY <1>2 DEF NotifyOne
  <2>2. \/ UNCHANGED worker
        \/ \E w \in Worker : worker' = [worker EXCEPT ![w] = "ready"]
    BY <1>2 DEF NotifyOne, Asleep
  <2>3. worker' \in [Worker -> {"ready", "asleep", "running", "gone"}] /\ Held'
    BY <2>1, <2>2 DEF tasks
  <2> QED BY <2>1, <2>3 DEF queues, tasks
<1>3. CASE PostMain
  <2>1. nextTask \in Task
    BY <1>3 DEF PostMain, Task
  <2>2. mainQueue' \in Seq(Task)
    BY <1>3, <2>1, AppendKeepsAll DEF PostMain
  <2> QED BY <1>3, <2>1, <2>2 DEF PostMain, pool
<1>4. CASE DrainMain
  BY <1>4 DEF DrainMain, pool, tasks
<1>5. CASE RunMain
  <2>1. mainQueue' \in Seq(Task) /\ Head(mainQueue) \in Task
    BY <1>5, TailKeepsRest DEF RunMain
  <2> QED BY <1>5, <2>1 DEF RunMain, pool
<1>6. CASE MainDrained
  BY <1>6 DEF MainDrained, pool, tasks
<1>7. ASSUME NEW w \in Worker, TakeTask(w) PROVE Shape'
  <2>1. workerQueue' \in Seq(Task) /\ Head(workerQueue) \in Task
    BY <1>7, TailKeepsRest DEF TakeTask
  <2> QED BY <1>7, <2>1 DEF TakeTask
<1>8. ASSUME NEW w \in Worker, Sleep(w) PROVE Shape'
  BY <1>8 DEF Sleep, queues, tasks
<1>9. ASSUME NEW w \in Worker, Leave(w) PROVE Shape'
  BY <1>9 DEF Leave, queues, tasks
<1>10. ASSUME NEW w \in Worker, PostAndWait(w) PROVE Shape'
  <2>1. /\ holds[w] \in Task /\ nextTask \in Task
        /\ level[holds[w]] + 1 \in 0 .. Depth
    BY <1>10 DEF PostAndWait, Push, Task
  <2>2. workerQueue' \in Seq(Task)
    BY <1>10, <2>1, AppendKeepsAll DEF PostAndWait, Push
  <2>3. task' \in [Task -> {"unposted", "queued", "running", "waiting", "finished"}]
    BY <1>10, <2>1 DEF PostAndWait
  <2>4. /\ level' \in [Task -> 0 .. Depth]
        /\ nextTask' \in 1 .. MaxTasks + 1 /\ notifications' \in Nat
    BY <1>10, <2>1 DEF PostAndWait, Push, Task
  <2>5. child' \in [Task -> Task \cup {0}]
    BY <1>10, <2>1 DEF PostAndWait
  <2>6. UNCHANGED <<mainQueue, main, stop, worker, holds, late>>
    BY <1>10 DEF PostAndWait
  <2> QED BY <2>2, <2>3, <2>4, <2>5, <2>6
<1>11. ASSUME NEW w \in Worker, Resume(w) PROVE Shape'
  BY <1>11 DEF Resume, queues, pool
<1>12. ASSUME NEW w \in Worker, FinishTask(w) PROVE Shape'
  BY <1>12 DEF FinishTask, queues
<1>13. ASSUME NEW w \in Worker, WakeSpuriously(w) PROVE Shape'
  BY <1>13 DEF WakeSpuriously, queues, tasks
<1>14. CASE Stop
  BY <1>14 DEF Stop, queues, pool, tasks
<1>15. CASE NotifyAll
  BY <1>15 DEF NotifyAll, queues, tasks
<1>16. CASE Join
  BY <1>16 DEF Join, queues, pool, tasks
<1>17. CASE Start
  BY <1>17 DEF Start, queues, tasks
<1>18. CASE UNCHANGED vars
  BY <1>18 DEF vars, queues, pool, tasks
<1> QED
  BY <1>1, <1>2, <1>3, <1>4, <1>5, <1>6, <1>7, <1>8, <1>9, <1>10, <1>11, <1>12,
     <1>13, <1>14, <1>15, <1>16, <1>17, <1>18 DEF Next, Loop, Body

\* Every variable keeps the shape of the C++ member it stands for, and a
\* running worker holds a task.
THEOREM TypeCorrect == Spec => [](TypeOK /\ Held)
<1>1. Init => Shape
  <2>1. <<>> \in Seq(Task)
    OBVIOUS
  <2> QED BY <2>1, PoolAssumption DEF Init, Shape, TypeOK, Held
<1> QED BY <1>1, ShapeStep, PTL DEF Spec, Shape

-----------------------------------------------------------------------------
(* Nobody sleeps through a task.                                           *)

LEMMA ReadyFinite ==
  ASSUME TypeOK
  PROVE  IsFiniteSet(Ready) /\ Cardinality(Ready) \in Nat
<1> QED BY PoolAssumption, FS_Subset, FS_CardinalityType DEF Ready

\* A worker that becomes ready is one more to look at the queue.
LEMMA OneMoreReady ==
  ASSUME TypeOK, NEW w \in Worker, worker[w] # "ready",
         worker' = [worker EXCEPT ![w] = "ready"]
  PROVE  Cardinality(Ready') = Cardinality(Ready) + 1
<1>1. Ready' = Ready \cup {w} /\ w \notin Ready
  BY DEF Ready, TypeOK
<1> QED BY <1>1, ReadyFinite, FS_AddElement

\* One that does something else is one less.
LEMMA OneLessReady ==
  ASSUME TypeOK, NEW w \in Worker, worker[w] = "ready",
         NEW s, s # "ready", worker' = [worker EXCEPT ![w] = s]
  PROVE  Cardinality(Ready') = Cardinality(Ready) - 1
<1>1. Ready' = Ready \ {w} /\ w \in Ready
  BY DEF Ready, TypeOK
<1> QED BY <1>1, ReadyFinite, FS_RemoveElement

LEMMA AwakeStep ==
  ASSUME Shape, Shape', NoSleepThroughTask, [Next]_vars
  PROVE  NoSleepThroughTask'
<1> USE DEF NoSleepThroughTask
<1>0. /\ TypeOK /\ Len(workerQueue) \in Nat /\ notifications \in Nat
      /\ Cardinality(Ready) \in Nat
  BY ReadyFinite, SMTT(30) DEF Shape, TypeOK
<1>1. ASSUME UNCHANGED <<workerQueue, notifications, worker>>
      PROVE  NoSleepThroughTask'
  BY <1>1 DEF Asleep, Ready
<1>2. ASSUME UNCHANGED worker, Len(workerQueue') = Len(workerQueue) + 1,
             notifications' = notifications + 1
      PROVE  NoSleepThroughTask'
  BY <1>0, <1>2 DEF Asleep, Ready
<1>3. CASE PostWorker
  <2>1. nextTask \in Task
    BY <1>0, <1>3 DEF PostWorker, Push, Task, TypeOK
  <2> QED BY <1>0, <1>2, <1>3, <2>1, AppendKeepsAll DEF PostWorker, Push, TypeOK
<1>4. CASE NotifyOne
  <2>1. CASE Asleep = {} /\ UNCHANGED worker
    BY <2>1 DEF Asleep
  <2>2. ASSUME NEW w \in Asleep, worker' = [worker EXCEPT ![w] = "ready"]
        PROVE  NoSleepThroughTask'
    <3>1. w \in Worker /\ worker[w] # "ready"
      BY <2>2 DEF Asleep
    <3>2. Cardinality(Ready') = Cardinality(Ready) + 1
      BY <1>0, <2>2, <3>1, OneMoreReady
    <3>3. UNCHANGED workerQueue /\ notifications' = notifications - 1
      BY <1>4 DEF NotifyOne, queues
    <3>4. Asleep # {}
      BY <2>2
    <3> QED BY <1>0, <3>2, <3>3, <3>4
  <2> QED BY <1>4, <2>1, <2>2 DEF NotifyOne
<1>5. ASSUME NEW w \in Worker, TakeTask(w) PROVE NoSleepThroughTask'
  <2>1. Cardinality(Ready') = Cardinality(Ready) - 1
    BY <1>0, <1>5, OneLessReady DEF TakeTask
  <2>2. Len(workerQueue') = Len(workerQueue) - 1 /\ UNCHANGED notifications
    BY <1>0, <1>5, TailKeepsRest DEF TakeTask, TypeOK
  <2>3. Asleep' \subseteq Asleep
    BY <1>0, <1>5 DEF TakeTask, Asleep, TypeOK
  <2> QED BY <1>0, <2>1, <2>2, <2>3
<1>6. ASSUME UNCHANGED notifications, Len(workerQueue') = 0
      PROVE  NoSleepThroughTask'
  <2>1. Cardinality(Ready') \in Nat
    BY PoolAssumption, FS_Subset, FS_CardinalityType DEF Ready
  <2> QED BY <1>0, <1>6, <2>1
<1>7. ASSUME NEW w \in Worker, Sleep(w) PROVE NoSleepThroughTask'
  <2>1. UNCHANGED notifications /\ workerQueue' = <<>>
    BY <1>7 DEF Sleep, queues
  <2> QED BY <1>6, <2>1
<1>8. ASSUME NEW w \in Worker, Leave(w) PROVE NoSleepThroughTask'
  <2>1. UNCHANGED notifications /\ workerQueue' = <<>>
    BY <1>8 DEF Leave, queues
  <2> QED BY <1>6, <2>1
<1>9. ASSUME NEW w \in Worker, worker[w] # "ready",
             worker' = [worker EXCEPT ![w] = "ready"],
             UNCHANGED <<workerQueue, notifications>>
      PROVE  NoSleepThroughTask'
  <2>1. Cardinality(Ready') = Cardinality(Ready) + 1
    BY <1>0, <1>9, OneMoreReady
  <2>2. Asleep' \subseteq Asleep
    BY <1>0, <1>9 DEF Asleep, TypeOK
  <2> QED BY <1>0, <1>9, <2>1, <2>2
<1>10. ASSUME NEW w \in Worker, WakeSpuriously(w) PROVE NoSleepThroughTask'
  BY <1>9, <1>10 DEF WakeSpuriously, queues
<1>11. ASSUME NEW w \in Worker, FinishTask(w) PROVE NoSleepThroughTask'
  BY <1>9, <1>11 DEF FinishTask, queues
<1>12. ASSUME NEW w \in Worker, PostAndWait(w) PROVE NoSleepThroughTask'
  <2>1. nextTask \in Task
    BY <1>0, <1>12 DEF PostAndWait, Push, Task, TypeOK
  <2> QED BY <1>0, <1>2, <1>12, <2>1, AppendKeepsAll DEF PostAndWait, Push, TypeOK
<1>13. CASE NotifyAll
  <2>1. Asleep' = {}
    BY <1>0, <1>13 DEF NotifyAll, Asleep, TypeOK
  <2> QED BY <2>1
<1>14. CASE Start
  <2>1. Asleep' = {}
    BY <1>0, <1>14 DEF Start, Asleep, TypeOK
  <2> QED BY <2>1
<1>15. CASE PostMain
  BY <1>1, <1>15 DEF PostMain, pool
<1>16. CASE DrainMain \/ RunMain \/ MainDrained
  BY <1>1, <1>16 DEF DrainMain, RunMain, MainDrained, pool
<1>17. CASE Stop \/ Join
  BY <1>1, <1>17 DEF Stop, Join, queues, pool
<1>18. ASSUME NEW w \in Worker, Resume(w) PROVE NoSleepThroughTask'
  BY <1>1, <1>18 DEF Resume, queues, pool
<1>19. CASE UNCHANGED vars
  BY <1>1, <1>19 DEF vars, queues, pool
<1> QED
  BY <1>3, <1>4, <1>5, <1>7, <1>8, <1>10, <1>11, <1>12, <1>13, <1>14, <1>15,
     <1>16, <1>17, <1>18, <1>19 DEF Next, Loop, Body

\* While a worker sleeps, every queued task has a worker about to look at the
\* queue or a notification on its way, although notify_one runs unlocked.
THEOREM NobodySleepsThroughTask == Spec => []NoSleepThroughTask
<1>1. Init => NoSleepThroughTask
  BY DEF Init, NoSleepThroughTask, Asleep
<1>2. Spec => []Shape
  BY TypeCorrect, PTL DEF Shape
<1>3. Shape /\ Shape' /\ NoSleepThroughTask /\ [Next]_vars => NoSleepThroughTask'
  BY AwakeStep
<1> QED BY <1>1, <1>2, <1>3, PTL DEF Spec

-----------------------------------------------------------------------------
(* Stop drains the queue.                                                  *)

Queued(t) == \E i \in 1 .. Len(workerQueue) : workerQueue[i] = t

\* A task that is owed a run is in the queue, and one that was started and has
\* not ended is held by a running worker.
Placed ==
  \A t \in Task :
    /\ task[t] = "queued" /\ t \notin late => Queued(t)
    /\ task[t] \in {"running", "waiting"} =>
         \E w \in Worker : worker[w] = "running" /\ holds[w] = t

\* While a task is owed a run some worker is left: the last one to leave finds
\* the queue empty, and one that posts a task while the pool stops waits for it.
Staffed ==
  /\ stop = "open" => \A w \in Worker : worker[w] # "gone"
  /\ stop = "stopped" => \A w \in Worker : worker[w] = "gone"
  /\ (\E t \in Task : task[t] = "queued" /\ t \notin late) =>
       \E w \in Worker : worker[w] # "gone"

Drains == Shape /\ Placed /\ Staffed

LEMMA PushQueues ==
  ASSUME TypeOK, NEW e \in Task, workerQueue' = Append(workerQueue, e)
  PROVE  Queued(e)' /\ \A t \in Task : Queued(t) => Queued(t)'
<1>1. workerQueue \in Seq(Task)
  BY DEF TypeOK
<1>2. /\ \E j \in 1 .. Len(workerQueue') : workerQueue'[j] = e
      /\ \A i \in 1 .. Len(workerQueue) :
           \E j \in 1 .. Len(workerQueue') : workerQueue'[j] = workerQueue[i]
  BY <1>1, AppendKeepsAll
<1> QED BY <1>2, Zenon DEF Queued

LEMMA PopKeepsQueued ==
  ASSUME TypeOK, workerQueue # <<>>, workerQueue' = Tail(workerQueue)
  PROVE  \A t \in Task \ {Head(workerQueue)} : Queued(t) => Queued(t)'
<1>1. workerQueue \in Seq(Task)
  BY DEF TypeOK
<1>2. \A i \in 1 .. Len(workerQueue) : workerQueue[i] # Head(workerQueue) =>
        \E j \in 1 .. Len(workerQueue') : workerQueue'[j] = workerQueue[i]
  BY <1>1, TailKeepsRest
<1> QED BY <1>2, Zenon DEF Queued

\* Steps that leave the queue, the tasks and what workers hold as they were.
LEMMA PlacedFrame ==
  ASSUME Placed, UNCHANGED <<workerQueue, holds, task, late>>,
         \A w \in Worker : worker[w] = "running" => worker'[w] = "running"
  PROVE  Placed'
<1> QED BY DEF Placed, Queued

LEMMA PlacedStep == Drains /\ [Next]_vars => Placed'
<1> SUFFICES ASSUME Shape, Placed, Staffed, [Next]_vars PROVE Placed'
  BY DEF Drains
<1>0. TypeOK /\ Held
  BY DEF Shape
<1>1. CASE PostWorker
  <2>1. PICK e \in Task : e = nextTask
    BY <1>0, <1>1 DEF PostWorker, Push, Task, TypeOK
  <2>2. Queued(e)' /\ \A t \in Task : Queued(t) => Queued(t)'
    BY <1>0, <1>1, <2>1, PushQueues DEF PostWorker, Push
  <2>3. /\ task' = [task EXCEPT ![nextTask] = "queued"] /\ late \subseteq late'
        /\ UNCHANGED <<worker, holds>>
    BY <1>1 DEF PostWorker
  <2>4. /\ \A t \in Task \ {nextTask} : task'[t] = task[t]
        /\ task'[nextTask] = "queued"
    BY <1>0, <2>1, <2>3 DEF TypeOK
  <2> QED BY <2>1, <2>2, <2>3, <2>4 DEF Placed
<1>2. CASE NotifyOne
  <2>1. UNCHANGED <<workerQueue, holds, task, late>>
    BY <1>2 DEF NotifyOne, queues, tasks
  <2>2. \A w \in Worker : worker[w] = "running" => worker'[w] = "running"
    BY <1>0, <1>2 DEF NotifyOne, Asleep, TypeOK
  <2> QED BY <2>1, <2>2, PlacedFrame
<1>3. CASE PostMain
  <2>1. /\ task' = [task EXCEPT ![nextTask] = "queued"]
        /\ late' = late \cup {nextTask} /\ UNCHANGED <<workerQueue, worker, holds>>
    BY <1>3 DEF PostMain, pool
  <2> QED BY <1>0, <2>1 DEF Placed, Queued, TypeOK
<1>4. CASE DrainMain \/ MainDrained
  BY <1>4, PlacedFrame DEF DrainMain, MainDrained, pool, tasks
<1>5. CASE RunMain
  <2>1. /\ task' = [task EXCEPT ![Head(mainQueue)] = "finished"]
        /\ UNCHANGED <<workerQueue, worker, holds, late>>
    BY <1>5 DEF RunMain, pool
  <2> QED BY <1>0, <2>1 DEF Placed, Queued, TypeOK
<1>6. ASSUME NEW w \in Worker, TakeTask(w) PROVE Placed'
  <2>1. /\ worker[w] = "ready" /\ worker' = [worker EXCEPT ![w] = "running"]
        /\ holds' = [holds EXCEPT ![w] = Head(workerQueue)]
        /\ task' = [task EXCEPT ![Head(workerQueue)] = "running"]
        /\ workerQueue # <<>> /\ workerQueue' = Tail(workerQueue) /\ UNCHANGED late
    BY <1>6 DEF TakeTask
  <2>2. \A t \in Task \ {Head(workerQueue)} : Queued(t) => Queued(t)'
    BY <1>0, <2>1, PopKeepsQueued
  <2>3. worker'[w] = "running" /\ holds'[w] = Head(workerQueue)
    BY <1>0, <2>1 DEF TypeOK
  <2>4. \A v \in Worker \ {w} : worker'[v] = worker[v] /\ holds'[v] = holds[v]
    BY <1>0, <2>1 DEF TypeOK
  <2>5. \A t \in Task \ {Head(workerQueue)} : task'[t] = task[t]
    BY <1>0, <2>1 DEF TypeOK
  <2>6. Head(workerQueue) \in Task => task'[Head(workerQueue)] = "running"
    BY <1>0, <2>1 DEF TypeOK
  <2> QED BY <2>1, <2>2, <2>3, <2>4, <2>5, <2>6 DEF Placed
<1>7. ASSUME NEW w \in Worker, Sleep(w) \/ Leave(w) \/ WakeSpuriously(w) PROVE Placed'
  <2>1. UNCHANGED <<workerQueue, holds, task, late>>
    BY <1>7 DEF Sleep, Leave, WakeSpuriously, queues, tasks
  <2>2. \A v \in Worker : worker[v] = "running" => worker'[v] = "running"
    BY <1>0, <1>7 DEF Sleep, Leave, WakeSpuriously, TypeOK
  <2> QED BY <2>1, <2>2, PlacedFrame
<1>8. ASSUME NEW w \in Worker, PostAndWait(w) PROVE Placed'
  <2>0. holds[w] \in Task /\ nextTask \in Task
    BY <1>0, <1>8 DEF PostAndWait, Push, Task, TypeOK, Held
  <2>1. PICK e \in Task : e = nextTask
    BY <2>0
  <2>2. Queued(e)' /\ \A t \in Task : Queued(t) => Queued(t)'
    BY <1>0, <1>8, <2>1, PushQueues DEF PostAndWait, Push
  <2>3. /\ worker[w] = "running" /\ UNCHANGED <<worker, holds, late>>
        /\ task' = [task EXCEPT ![holds[w]] = "waiting", ![e] = "queued"]
    BY <1>8, <2>1 DEF PostAndWait
  <2>4. /\ \A t \in Task \ {holds[w], e} : task'[t] = task[t]
        /\ task'[e] = "queued"
    BY <1>0, <2>0, <2>3 DEF TypeOK
  <2>5. task'[holds[w]] \in {"waiting", "queued"}
    BY <1>0, <2>0, <2>3 DEF TypeOK
  <2>6. ASSUME NEW t \in Task, task'[t] = "queued", t \notin late'
        PROVE  Queued(t)'
    <3>1. t = e \/ task[t] = "queued"
      BY <1>0, <2>0, <2>3, <2>6 DEF TypeOK
    <3> QED BY <2>2, <2>3, <2>6, <3>1 DEF Placed
  <2>7. ASSUME NEW t \in Task, task'[t] \in {"running", "waiting"}
        PROVE  \E v \in Worker : worker'[v] = "running" /\ holds'[v] = t
    <3>1. t = holds[w] \/ task[t] \in {"running", "waiting"}
      BY <1>0, <2>0, <2>1, <2>3, <2>7 DEF TypeOK
    <3> QED BY <2>3, <3>1 DEF Placed
  <2> QED BY <2>6, <2>7 DEF Placed
<1>9. ASSUME NEW w \in Worker, Resume(w) PROVE Placed'
  <2>1. /\ worker[w] = "running" /\ UNCHANGED <<worker, holds, late, workerQueue>>
        /\ task' = [task EXCEPT ![holds[w]] = "running"]
    BY <1>9 DEF Resume, queues, pool
  <2> QED BY <1>0, <2>1 DEF Placed, Queued, TypeOK
<1>10. ASSUME NEW w \in Worker, FinishTask(w) PROVE Placed'
  <2>1. /\ worker' = [worker EXCEPT ![w] = "ready"] /\ holds' = [holds EXCEPT ![w] = 0]
        /\ task' = [task EXCEPT ![holds[w]] = "finished"]
        /\ UNCHANGED <<late, workerQueue>>
    BY <1>10 DEF FinishTask, queues
  <2>2. \A v \in Worker \ {w} : worker'[v] = worker[v] /\ holds'[v] = holds[v]
    BY <1>0, <2>1 DEF TypeOK
  <2>3. \A t \in Task : IF t = holds[w] THEN task'[t] = "finished" ELSE task'[t] = task[t]
    BY <1>0, <2>1 DEF TypeOK
  <2> QED BY <2>1, <2>2, <2>3 DEF Placed, Queued
<1>11. CASE Stop \/ Join
  BY <1>11, PlacedFrame DEF Stop, Join, queues, pool, tasks
<1>12. CASE NotifyAll
  <2>1. UNCHANGED <<workerQueue, holds, task, late>>
    BY <1>12 DEF NotifyAll, queues, tasks
  <2>2. \A v \in Worker : worker[v] = "running" => worker'[v] = "running"
    BY <1>0, <1>12 DEF NotifyAll, TypeOK
  <2> QED BY <2>1, <2>2, PlacedFrame
<1>13. CASE UNCHANGED vars
  BY <1>13, PlacedFrame DEF vars, queues, pool, tasks
<1>14. CASE Start
  <2>1. \A t \in Task : task[t] \notin {"running", "waiting"}
    BY <1>14 DEF Start, Placed, Staffed
  <2> QED BY <1>14, <2>1 DEF Start, Placed, Queued, queues, tasks
<1> QED
  BY <1>1, <1>2, <1>3, <1>4, <1>5, <1>6, <1>7, <1>8, <1>9, <1>10, <1>11, <1>12,
     <1>13, <1>14 DEF Next, Loop, Body

LEMMA StaffedStep == Drains /\ [Next]_vars => Staffed'
<1> SUFFICES ASSUME Shape, Placed, Staffed, [Next]_vars PROVE Staffed'
  BY DEF Drains
<1>0. TypeOK /\ Held
  BY DEF Shape
\* Steps at which no worker leaves or comes and no task is owed a run anew.
<1>1. ASSUME UNCHANGED stop,
             \A w \in Worker : worker'[w] = "gone" <=> worker[w] = "gone",
             \A t \in Task : task'[t] = "queued" /\ t \notin late'
               => \/ task[t] = "queued" /\ t \notin late
                  \/ \E w \in Worker : worker[w] # "gone"
      PROVE  Staffed'
  BY <1>1 DEF Staffed
<1>2. CASE PostWorker
  <2>1. stop \in {"open", "flagged", "joining", "stopped"} /\ UNCHANGED <<stop, worker>>
    BY <1>0, <1>2 DEF PostWorker, TypeOK
  <2>2. CASE stop = "open"
    BY <1>1, <2>1, <2>2, PoolAssumption DEF Staffed
  <2>3. CASE stop # "open"
    <3>1. /\ late' = late \cup {nextTask}
          /\ task' = [task EXCEPT ![nextTask] = "queued"]
      BY <1>2, <2>3 DEF PostWorker, stopping
    <3> QED BY <1>0, <1>1, <2>1, <3>1 DEF TypeOK
  <2> QED BY <2>2, <2>3
<1>3. CASE PostMain
  BY <1>0, <1>1, <1>3 DEF PostMain, pool, TypeOK
<1>4. CASE NotifyOne
  <2>1. UNCHANGED <<stop, task, late>>
    BY <1>4 DEF NotifyOne, tasks
  <2>2. \A w \in Worker : worker'[w] = "gone" <=> worker[w] = "gone"
    BY <1>0, <1>4 DEF NotifyOne, Asleep, TypeOK
  <2> QED BY <1>1, <2>1, <2>2
<1>5. CASE DrainMain \/ MainDrained
  BY <1>1, <1>5 DEF DrainMain, MainDrained, pool, tasks
<1>6. CASE RunMain
  BY <1>0, <1>1, <1>6 DEF RunMain, pool, TypeOK
<1>7. ASSUME NEW w \in Worker, worker[w] # "gone", NEW s, s # "gone",
             worker' = [worker EXCEPT ![w] = s], UNCHANGED <<stop, late>>,
             \A t \in Task : task'[t] = "queued" => task[t] = "queued"
      PROVE  Staffed'
  BY <1>0, <1>1, <1>7 DEF TypeOK
<1>8. ASSUME NEW w \in Worker, TakeTask(w) PROVE Staffed'
  BY <1>0, <1>7, <1>8 DEF TakeTask, TypeOK
<1>9. ASSUME NEW w \in Worker, Sleep(w) \/ WakeSpuriously(w) PROVE Staffed'
  BY <1>0, <1>7, <1>9 DEF Sleep, WakeSpuriously, tasks, TypeOK
<1>10. ASSUME NEW w \in Worker, FinishTask(w) PROVE Staffed'
  BY <1>0, <1>7, <1>10 DEF FinishTask, TypeOK
<1>11. ASSUME NEW w \in Worker, Leave(w) PROVE Staffed'
  <2>1. /\ worker[w] = "ready" /\ workerQueue = <<>> /\ stop # "open"
        /\ UNCHANGED <<stop, task, late>>
    BY <1>11 DEF Leave, tasks, stopping
  <2>2. \A t \in Task : ~Queued(t)
    BY <2>1 DEF Queued
  <2>3. \A t \in Task : ~(task[t] = "queued" /\ t \notin late)
    BY <2>2 DEF Placed
  <2>4. stop # "stopped"
    BY <2>1 DEF Staffed
  <2> QED BY <2>1, <2>3, <2>4 DEF Staffed
<1>12. ASSUME NEW w \in Worker, PostAndWait(w) PROVE Staffed'
  BY <1>1, <1>12 DEF PostAndWait
<1>13. ASSUME NEW w \in Worker, Resume(w) PROVE Staffed'
  BY <1>0, <1>1, <1>13 DEF Resume, pool, TypeOK
<1>14. CASE Stop
  BY <1>14 DEF Stop, Staffed, pool, tasks
<1>15. CASE NotifyAll
  <2>1. \A w \in Worker : worker'[w] = "gone" <=> worker[w] = "gone"
    BY <1>0, <1>15 DEF NotifyAll, TypeOK
  <2> QED BY <1>15, <2>1 DEF NotifyAll, Staffed, tasks
<1>16. CASE Join
  BY <1>16 DEF Join, Staffed, pool, tasks
<1>17. CASE Start
  BY <1>17, PoolAssumption DEF Start, Staffed
<1>18. CASE UNCHANGED vars
  BY <1>1, <1>18 DEF vars, pool, tasks
<1> QED
  BY <1>2, <1>3, <1>4, <1>5, <1>6, <1>8, <1>9, <1>10, <1>11, <1>12, <1>13, <1>14,
     <1>15, <1>16, <1>17, <1>18 DEF Next, Loop, Body

\* The queue and the workers keep what Stop counts on.
THEOREM DrainsHold == Spec => []Drains
<1>1. Init => Placed /\ Staffed
  BY DEF Init, Placed, Staffed
<1>2. Spec => []Shape
  BY TypeCorrect, PTL DEF Shape
<1>3. Shape /\ Shape' /\ Placed /\ Staffed /\ [Next]_vars => Placed' /\ Staffed'
  BY PlacedStep, StaffedStep DEF Drains
<1> QED BY <1>1, <1>2, <1>3, PTL DEF Spec, Drains

\* Stop returns only when every task posted before it, and every task such a
\* task posted, has run to its end.
THEOREM StopRunsEverything == Spec => []StopDrains
<1>1. Drains => StopDrains
  <2> SUFFICES ASSUME Shape, Placed, Staffed, stop = "stopped",
                      NEW t \in Task \ late
               PROVE  task[t] \in {"unposted", "finished"}
    BY DEF Drains, StopDrains
  <2>1. \A w \in Worker : worker[w] = "gone"
    BY DEF Staffed
  <2>2. task[t] \notin {"running", "waiting"}
    BY <2>1 DEF Placed
  <2>3. task[t] # "queued"
    BY <2>1 DEF Staffed
  <2> QED BY <2>2, <2>3 DEF Shape, TypeOK
<1> QED BY <1>1, DrainsHold, PTL

\* The pool stays sound with any number of workers and tasks (WorkerLoop).
THEOREM StaysConsistent == Spec => []PoolConsistent
  BY TypeCorrect, NobodySleepsThroughTask, StopRunsEverything, PTL DEF PoolConsistent

-----------------------------------------------------------------------------
(* Every task is run once.                                                 *)

\* A queue names queued tasks, each once.
Names(q, becomes) ==
  /\ \A i \in 1 .. Len(q) : becomes[q[i]] = "queued"
  /\ \A i, j \in 1 .. Len(q) : i # j => q[i] # q[j]

\* The task that is posted next is new, and no task is in both queues.
Once ==
  /\ \A t \in Task : t >= nextTask => task[t] = "unposted" /\ level[t] = 0
  /\ Names(workerQueue, task) /\ Names(mainQueue, task)
  /\ \A i \in 1 .. Len(workerQueue), j \in 1 .. Len(mainQueue) : workerQueue[i] # mainQueue[j]

\* Workers run different tasks.
Apart ==
  /\ \A w \in Worker : worker[w] = "running" => task[holds[w]] \in {"running", "waiting"}
  /\ \A v, w \in Worker :
       v # w /\ worker[v] = "running" /\ worker[w] = "running" => holds[v] # holds[w]

-----------------------------------------------------------------------------
(* Chains of tasks that wait for one another.                              *)

Open(t, depth, becomes) == depth[t] >= 1 /\ becomes[t] # "finished"

\* root says for which root each open task runs.  Of two open tasks of one root
\* the outer one waits, and what it waits for has not ended.
ChainsBy(root, depth, becomes, awaits) ==
  LET IsOpen(t) == Open(t, depth, becomes) IN
  /\ \A t \in Task : IsOpen(t) => root[t] \in Task /\ depth[root[t]] = 1 /\ IsOpen(root[t])
  /\ \A t \in Task : IsOpen(t) /\ depth[t] = 1 => root[t] = t
  /\ \A t \in Task : becomes[t] = "waiting" /\ depth[t] >= 1 =>
       /\ awaits[t] \in Task /\ depth[awaits[t]] = depth[t] + 1
       /\ IsOpen(awaits[t]) => root[awaits[t]] = root[t]
  /\ \A t, u \in Task :
       IsOpen(t) /\ IsOpen(u) /\ t # u /\ root[t] = root[u] =>
         /\ depth[t] # depth[u]
         /\ depth[t] < depth[u] => becomes[t] = "waiting" /\ IsOpen(awaits[t])

\* Tasks of the main queue have no level and no worker runs them.
Levels ==
  /\ \A t \in Task : task[t] \in {"running", "waiting"} => level[t] >= 1
  /\ \A i \in 1 .. Len(mainQueue) : level[mainQueue[i]] = 0
  /\ \A i \in 1 .. Len(workerQueue) : level[workerQueue[i]] >= 1

Chained ==
  /\ Levels
  /\ \E root \in [Task -> Task] : ChainsBy(root, level, task, child)

LEMMA NamesPushed ==
  ASSUME NEW q \in Seq(Task), NEW was, NEW is, Names(q, was), NEW e \in Task, was[e] # "queued",
         is[e] = "queued", \A t \in Task : was[t] = "queued" => is[t] = "queued",
         NEW r, r = Append(q, e)
  PROVE  /\ Names(r, is)
         /\ \A i \in 1 .. Len(r) : r[i] = e \/ \E j \in 1 .. Len(q) : q[j] = r[i]
<1>1. /\ Len(r) = Len(q) + 1 /\ Len(q) \in Nat /\ r[Len(q) + 1] = e
      /\ \A i \in 1 .. Len(q) : r[i] = q[i] /\ q[i] \in Task
  OBVIOUS
<1>2. \A i \in 1 .. Len(r) : is[r[i]] = "queued"
  BY <1>1 DEF Names
<1>3. \A i, j \in 1 .. Len(r) : i # j => r[i] # r[j]
  BY <1>1 DEF Names
<1> QED BY <1>1, <1>2, <1>3 DEF Names

LEMMA NamesPopped ==
  ASSUME NEW q \in Seq(Task), NEW was, NEW is, Names(q, was), q # <<>>,
         \A t \in Task : t # Head(q) /\ was[t] = "queued" => is[t] = "queued",
         NEW r, r = Tail(q)
  PROVE  Names(r, is) /\ \A i \in 1 .. Len(r) : \E j \in 1 .. Len(q) : q[j] = r[i]
<1>1. /\ Len(r) = Len(q) - 1 /\ Len(q) \in Nat /\ Len(q) >= 1 /\ Head(q) = q[1]
      /\ \A i \in 1 .. Len(r) : r[i] = q[i + 1]
      /\ \A i \in 1 .. Len(q) : q[i] \in Task
  OBVIOUS
<1>2. \A i \in 1 .. Len(r) : i + 1 \in 1 .. Len(q) /\ i + 1 # 1 /\ 1 \in 1 .. Len(q)
  BY <1>1
<1>3. \A i \in 1 .. Len(r) : is[r[i]] = "queued"
  BY <1>1, <1>2 DEF Names
<1>4. \A i, j \in 1 .. Len(r) : i # j => r[i] # r[j]
  BY <1>1, <1>2 DEF Names
<1> QED BY <1>1, <1>2, <1>3, <1>4 DEF Names

LEMMA NamesKept ==
  ASSUME NEW q \in Seq(Task), NEW was, NEW is, Names(q, was),
         \A t \in Task : was[t] = "queued" => is[t] = "queued"
  PROVE  Names(q, is)
<1>1. \A i \in 1 .. Len(q) : q[i] \in Task
  OBVIOUS
<1> QED BY <1>1 DEF Names

\* Steps that neither post a task nor take one.
Idles ==
  /\ UNCHANGED <<workerQueue, mainQueue, nextTask, level>>
  /\ \A t \in Task : (task[t] = "queued" <=> task'[t] = "queued")
                     /\ (task[t] = "unposted" <=> task'[t] = "unposted")

LEMMA IdleSteps ==
  ASSUME Shape, Apart, [Next]_vars
  PROVE  \/ PostWorker \/ PostMain \/ RunMain
         \/ \E w \in Worker : TakeTask(w) \/ PostAndWait(w)
         \/ Idles
<1>0. TypeOK /\ Held
  BY DEF Shape
<1>1. ASSUME NEW w \in Worker, Resume(w) \/ FinishTask(w) PROVE Idles
  <2>1. PICK s \in {"running", "finished"} : task' = [task EXCEPT ![holds[w]] = s]
    BY <1>1 DEF Resume, FinishTask
  <2>2. holds[w] \in Task /\ task[holds[w]] \in {"running", "waiting"}
    BY <1>0, <1>1 DEF Resume, FinishTask, Held
  <2>3. UNCHANGED <<workerQueue, mainQueue, nextTask, level>>
    BY <1>1 DEF Resume, FinishTask, queues
  <2> QED BY <1>0, <2>1, <2>2, <2>3 DEF Idles, TypeOK
<1>2. ASSUME UNCHANGED <<workerQueue, mainQueue, nextTask, level, task>> PROVE Idles
  BY <1>2 DEF Idles
<1>3. CASE NotifyOne \/ DrainMain \/ MainDrained \/ Stop \/ NotifyAll \/ Join \/ Start \/ UNCHANGED vars
  BY <1>2, <1>3 DEF NotifyOne, DrainMain, MainDrained, Stop, NotifyAll, Join, Start, vars, queues, tasks
<1>4. ASSUME NEW w \in Worker, Sleep(w) \/ Leave(w) \/ WakeSpuriously(w) PROVE Idles
  BY <1>2, <1>4 DEF Sleep, Leave, WakeSpuriously, queues, tasks
<1> QED BY <1>1, <1>3, <1>4 DEF Next, Loop, Body

\* A task that is posted, for the queue of the workers or the main thread's.
LEMMA PostedNew ==
  ASSUME Shape, Once, nextTask <= MaxTasks
  PROVE  /\ nextTask \in Task /\ task[nextTask] = "unposted" /\ level[nextTask] = 0
         /\ \A i \in 1 .. Len(workerQueue) : workerQueue[i] # nextTask /\ workerQueue[i] \in Task
         /\ \A i \in 1 .. Len(mainQueue) : mainQueue[i] # nextTask /\ mainQueue[i] \in Task
<1>1. nextTask \in Task
  BY PoolAssumption DEF Shape, TypeOK, Task
<1>2. task[nextTask] = "unposted" /\ level[nextTask] = 0
  BY <1>1 DEF Once, Task
<1>3. workerQueue \in Seq(Task) /\ mainQueue \in Seq(Task)
  BY DEF Shape, TypeOK
<1> QED BY <1>1, <1>2, <1>3 DEF Once, Names

LEMMA OnceStep ==
  ASSUME Shape, Once, Apart, [Next]_vars
  PROVE  Once'
<1>0. /\ TypeOK /\ Held /\ workerQueue \in Seq(Task) /\ mainQueue \in Seq(Task)
      /\ task \in [Task -> {"unposted", "queued", "running", "waiting", "finished"}]
      /\ level \in [Task -> 0 .. Depth] /\ nextTask \in Nat /\ Task \subseteq Nat
      /\ Names(workerQueue, task) /\ Names(mainQueue, task)
      /\ \A i \in 1 .. Len(workerQueue), j \in 1 .. Len(mainQueue) : workerQueue[i] # mainQueue[j]
  BY DEF Shape, TypeOK, Task, Once
<1>1. CASE PostWorker \/ \E w \in Worker : PostAndWait(w)
  <2>1. /\ nextTask \in Task /\ task[nextTask] = "unposted"
        /\ \A i \in 1 .. Len(mainQueue) : mainQueue[i] # nextTask
    BY <1>1, PostedNew DEF PostWorker, PostAndWait, Push
  <2>2. /\ workerQueue' = Append(workerQueue, nextTask) /\ nextTask' = nextTask + 1
        /\ mainQueue' = mainQueue
    BY <1>1 DEF PostWorker, PostAndWait, Push
  <2>3. /\ task'[nextTask] = "queued"
        /\ \A t \in Task : t # nextTask =>
             task'[t] = task[t] \/ (task[t] = "running" /\ task'[t] = "waiting")
    <3>1. CASE PostWorker
      BY <1>0, <2>1, <3>1 DEF PostWorker
    <3>2. ASSUME NEW w \in Worker, PostAndWait(w) PROVE <2>3!1 /\ <2>3!2
      <4>1. /\ holds[w] \in Task /\ task[holds[w]] = "running"
            /\ task' = [task EXCEPT ![holds[w]] = "waiting", ![nextTask] = "queued"]
        BY <1>0, <3>2 DEF PostAndWait, Held
      <4> QED BY <1>0, <2>1, <4>1
    <3> QED BY <1>1, <3>1, <3>2
  <2>4. \A t \in Task : t # nextTask => level'[t] = level[t]
    BY <1>0, <1>1, <2>1 DEF PostWorker, PostAndWait, Push
  <2>5. \A t \in Task : task[t] = "queued" => task'[t] = "queued"
    BY <2>1, <2>3
  <2>6. /\ Names(workerQueue', task')
        /\ \A i \in 1 .. Len(workerQueue') :
             workerQueue'[i] = nextTask \/ \E j \in 1 .. Len(workerQueue) : workerQueue[j] = workerQueue'[i]
    <3>1. PICK q, was, is, r : q = workerQueue /\ was = task /\ is = task' /\ r = workerQueue'
      OBVIOUS
    <3>2. PICK e \in Task : e = nextTask
      BY <2>1
    <3>3. /\ q \in Seq(Task) /\ Names(q, was) /\ was[e] # "queued" /\ is[e] = "queued"
          /\ (\A t \in Task : was[t] = "queued" => is[t] = "queued") /\ r = Append(q, e)
      BY <1>0, <2>1, <2>2, <2>3, <2>5, <3>1, <3>2
    <3>4. Names(r, is)
      BY <3>3, NamesPushed, ZenonT(40)
    <3>5. \A i \in 1 .. Len(r) : r[i] = e \/ \E j \in 1 .. Len(q) : q[j] = r[i]
      BY <3>3, NamesPushed
    <3> QED BY <3>1, <3>2, <3>4, <3>5
  <2>7. Names(mainQueue', task')
    BY <1>0, <2>2, <2>5, NamesKept
  <2>8. \A t \in Task : t >= nextTask' => task'[t] = "unposted" /\ level'[t] = 0
    BY <1>0, <2>2, <2>3, <2>4 DEF Once
  <2> QED BY <1>0, <2>1, <2>2, <2>6, <2>7, <2>8 DEF Once
<1>2. CASE PostMain
  <2>1. /\ nextTask \in Task /\ task[nextTask] = "unposted"
        /\ \A i \in 1 .. Len(workerQueue) : workerQueue[i] # nextTask
    BY <1>2, PostedNew DEF PostMain
  <2>2. /\ mainQueue' = Append(mainQueue, nextTask) /\ nextTask' = nextTask + 1
        /\ workerQueue' = workerQueue /\ level' = level
        /\ task' = [task EXCEPT ![nextTask] = "queued"]
    BY <1>2 DEF PostMain
  <2>3. /\ task'[nextTask] = "queued"
        /\ \A t \in Task : t # nextTask => task'[t] = task[t]
    BY <1>0, <2>1, <2>2
  <2>5. \A t \in Task : task[t] = "queued" => task'[t] = "queued"
    BY <2>1, <2>3
  <2>6. /\ Names(mainQueue', task')
        /\ \A i \in 1 .. Len(mainQueue') :
             mainQueue'[i] = nextTask \/ \E j \in 1 .. Len(mainQueue) : mainQueue[j] = mainQueue'[i]
    <3>1. PICK q, was, is, r : q = mainQueue /\ was = task /\ is = task' /\ r = mainQueue'
      OBVIOUS
    <3>2. PICK e \in Task : e = nextTask
      BY <2>1
    <3>3. /\ q \in Seq(Task) /\ Names(q, was) /\ was[e] # "queued" /\ is[e] = "queued"
          /\ (\A t \in Task : was[t] = "queued" => is[t] = "queued") /\ r = Append(q, e)
      BY <1>0, <2>1, <2>2, <2>3, <2>5, <3>1, <3>2
    <3>4. Names(r, is)
      BY <3>3, NamesPushed, ZenonT(40)
    <3>5. \A i \in 1 .. Len(r) : r[i] = e \/ \E j \in 1 .. Len(q) : q[j] = r[i]
      BY <3>3, NamesPushed
    <3> QED BY <3>1, <3>2, <3>4, <3>5
  <2>7. Names(workerQueue', task')
    BY <1>0, <2>2, <2>5, NamesKept
  <2>8. \A t \in Task : t >= nextTask' => task'[t] = "unposted" /\ level'[t] = 0
    BY <1>0, <2>2, <2>3 DEF Once
  <2> QED BY <1>0, <2>1, <2>2, <2>6, <2>7, <2>8 DEF Once
<1>3. CASE RunMain
  <2>1. /\ mainQueue # <<>> /\ mainQueue' = Tail(mainQueue)
        /\ UNCHANGED <<workerQueue, nextTask, level>>
        /\ task' = [task EXCEPT ![Head(mainQueue)] = "finished"]
    BY <1>3 DEF RunMain
  <2>2. /\ Head(mainQueue) \in Task /\ task[Head(mainQueue)] = "queued" /\ Len(mainQueue) >= 1
        /\ Head(mainQueue) = mainQueue[1] /\ Len(mainQueue) \in Nat
    BY <1>0, <2>1 DEF Names
  <2>3. /\ \A t \in Task : t # Head(mainQueue) => task'[t] = task[t]
        /\ task'[Head(mainQueue)] = "finished"
    BY <1>0, <2>1, <2>2
  <2>4. /\ Names(mainQueue', task')
        /\ \A i \in 1 .. Len(mainQueue') : \E j \in 1 .. Len(mainQueue) : mainQueue[j] = mainQueue'[i]
    <3>1. PICK q, was, is, r : q = mainQueue /\ was = task /\ is = task' /\ r = mainQueue'
      OBVIOUS
    <3>2. /\ q \in Seq(Task) /\ Names(q, was) /\ q # <<>> /\ r = Tail(q)
          /\ \A t \in Task : t # Head(q) /\ was[t] = "queued" => is[t] = "queued"
      BY <1>0, <2>1, <2>3, <3>1
    <3>3. Names(r, is)
      BY <3>2, NamesPopped
    <3>4. \A i \in 1 .. Len(r) : \E j \in 1 .. Len(q) : q[j] = r[i]
      BY <3>2, NamesPopped
    <3> QED BY <3>1, <3>3, <3>4
  <2>5. Names(workerQueue', task')
    <3>1. \A i \in 1 .. Len(workerQueue) : workerQueue[i] # Head(mainQueue) /\ workerQueue[i] \in Task
      BY <1>0, <2>2
    <3> QED BY <1>0, <2>1, <2>3, <3>1 DEF Names
  <2> QED BY <1>0, <2>1, <2>2, <2>3, <2>4, <2>5 DEF Once
<1>4. CASE \E w \in Worker : TakeTask(w)
  <2>1. /\ workerQueue # <<>> /\ workerQueue' = Tail(workerQueue)
        /\ UNCHANGED <<mainQueue, nextTask, level>>
        /\ task' = [task EXCEPT ![Head(workerQueue)] = "running"]
    BY <1>4 DEF TakeTask
  <2>2. /\ Head(workerQueue) \in Task /\ task[Head(workerQueue)] = "queued" /\ Len(workerQueue) >= 1
        /\ Head(workerQueue) = workerQueue[1] /\ Len(workerQueue) \in Nat
    BY <1>0, <2>1 DEF Names
  <2>3. /\ \A t \in Task : t # Head(workerQueue) => task'[t] = task[t]
        /\ task'[Head(workerQueue)] = "running"
    BY <1>0, <2>1, <2>2
  <2>4. /\ Names(workerQueue', task')
        /\ \A i \in 1 .. Len(workerQueue') : \E j \in 1 .. Len(workerQueue) : workerQueue[j] = workerQueue'[i]
    <3>1. PICK q, was, is, r : q = workerQueue /\ was = task /\ is = task' /\ r = workerQueue'
      OBVIOUS
    <3>2. /\ q \in Seq(Task) /\ Names(q, was) /\ q # <<>> /\ r = Tail(q)
          /\ \A t \in Task : t # Head(q) /\ was[t] = "queued" => is[t] = "queued"
      BY <1>0, <2>1, <2>3, <3>1
    <3>3. Names(r, is)
      BY <3>2, NamesPopped
    <3>4. \A i \in 1 .. Len(r) : \E j \in 1 .. Len(q) : q[j] = r[i]
      BY <3>2, NamesPopped
    <3> QED BY <3>1, <3>3, <3>4
  <2>5. Names(mainQueue', task')
    <3>1. \A i \in 1 .. Len(mainQueue) : mainQueue[i] # Head(workerQueue) /\ mainQueue[i] \in Task
      BY <1>0, <2>2
    <3> QED BY <1>0, <2>1, <2>3, <3>1 DEF Names
  <2> QED BY <1>0, <2>1, <2>2, <2>3, <2>4, <2>5 DEF Once
<1>5. CASE Idles
  <2>1. Names(workerQueue', task') /\ Names(mainQueue', task')
    BY <1>0, <1>5, NamesKept DEF Idles
  <2> QED BY <1>0, <1>5, <2>1 DEF Idles, Once
<1> QED BY <1>1, <1>2, <1>3, <1>4, <1>5, IdleSteps

LEMMA ApartStep ==
  ASSUME Shape, Once, Apart, [Next]_vars
  PROVE  Apart'
<1>0. /\ TypeOK /\ Held
      /\ worker \in [Worker -> {"ready", "asleep", "running", "gone"}]
      /\ holds \in [Worker -> Task \cup {0}]
      /\ task \in [Task -> {"unposted", "queued", "running", "waiting", "finished"}]
  BY DEF Shape, TypeOK
\* Steps after which nobody runs another task.
<1>1. ASSUME \A w \in Worker : worker'[w] = "running" => worker[w] = "running" /\ holds'[w] = holds[w],
             \A w \in Worker : worker'[w] = "running" => task'[holds[w]] \in {"running", "waiting"}
      PROVE  Apart'
  BY <1>1 DEF Apart
<1>2. CASE PostWorker \/ PostMain
  <2>1. nextTask \in Task /\ task[nextTask] = "unposted" /\ UNCHANGED <<worker, holds>>
    BY <1>2, PostedNew DEF PostWorker, PostMain, Push, pool
  <2>2. task' = [task EXCEPT ![nextTask] = "queued"]
    BY <1>2 DEF PostWorker, PostMain
  <2> QED BY <1>0, <1>1, <2>1, <2>2 DEF Apart, Held
<1>3. CASE RunMain
  <2>1. UNCHANGED <<worker, holds>> /\ mainQueue # <<>> /\ mainQueue \in Seq(Task)
        /\ task' = [task EXCEPT ![Head(mainQueue)] = "finished"]
    BY <1>0, <1>3 DEF RunMain, pool, TypeOK
  <2>2. task[Head(mainQueue)] = "queued"
    BY <2>1 DEF Once, Names
  <2> QED BY <1>0, <1>1, <2>1, <2>2 DEF Apart, Held
<1>4. ASSUME NEW w \in Worker, TakeTask(w) PROVE Apart'
  <2>1. /\ workerQueue # <<>> /\ workerQueue \in Seq(Task) /\ worker[w] = "ready"
        /\ worker' = [worker EXCEPT ![w] = "running"]
        /\ holds' = [holds EXCEPT ![w] = Head(workerQueue)]
        /\ task' = [task EXCEPT ![Head(workerQueue)] = "running"]
    BY <1>0, <1>4 DEF TakeTask, TypeOK
  <2>2. task[Head(workerQueue)] = "queued" /\ Head(workerQueue) \in Task
    BY <2>1 DEF Once, Names
  <2>3. /\ worker'[w] = "running" /\ holds'[w] = Head(workerQueue)
        /\ \A v \in Worker : v # w => worker'[v] = worker[v] /\ holds'[v] = holds[v]
        /\ task'[Head(workerQueue)] = "running"
        /\ \A t \in Task : t # Head(workerQueue) => task'[t] = task[t]
    BY <1>0, <2>1, <2>2
  <2>4. \A v \in Worker : worker[v] = "running" => holds[v] # Head(workerQueue) /\ holds[v] \in Task
    BY <1>0, <2>2 DEF Apart, Held
  <2> QED BY <2>1, <2>3, <2>4 DEF Apart
<1>5. ASSUME NEW w \in Worker, PostAndWait(w) PROVE Apart'
  <2>1. nextTask \in Task /\ task[nextTask] = "unposted" /\ UNCHANGED <<worker, holds>>
    BY <1>5, PostedNew DEF PostAndWait, Push
  <2>2. /\ task' = [task EXCEPT ![holds[w]] = "waiting", ![nextTask] = "queued"]
        /\ holds[w] \in Task /\ task[holds[w]] = "running"
    BY <1>0, <1>5 DEF PostAndWait, Held
  <2>3. \A t \in Task : task[t] \in {"running", "waiting"} => task'[t] \in {"running", "waiting"}
    BY <1>0, <2>1, <2>2
  <2> QED BY <1>0, <1>1, <2>1, <2>3 DEF Apart, Held
<1>6. ASSUME NEW w \in Worker, Resume(w) PROVE Apart'
  <2>1. UNCHANGED <<worker, holds>> /\ task' = [task EXCEPT ![holds[w]] = "running"]
    BY <1>6 DEF Resume, pool
  <2> QED BY <1>0, <1>1, <2>1 DEF Apart, Held
<1>7. ASSUME NEW w \in Worker, FinishTask(w) PROVE Apart'
  <2>1. /\ worker[w] = "running" /\ worker' = [worker EXCEPT ![w] = "ready"]
        /\ holds' = [holds EXCEPT ![w] = 0] /\ task' = [task EXCEPT ![holds[w]] = "finished"]
    BY <1>7 DEF FinishTask
  <2>2. \A v \in Worker : worker'[v] = "running" => v # w /\ worker[v] = "running" /\ holds'[v] = holds[v]
    BY <1>0, <2>1
  <2>3. \A v \in Worker : worker'[v] = "running" => holds[v] # holds[w] /\ holds[v] \in Task
    BY <1>0, <2>1, <2>2 DEF Apart, Held
  <2> QED BY <1>0, <1>1, <2>1, <2>2, <2>3 DEF Apart
<1>8. ASSUME UNCHANGED <<holds, task>>,
             \A w \in Worker : worker'[w] = "running" => worker[w] = "running"
      PROVE  Apart'
  BY <1>1, <1>8 DEF Apart
<1>9. CASE DrainMain \/ MainDrained \/ Stop \/ Join \/ UNCHANGED vars
  BY <1>8, <1>9 DEF DrainMain, MainDrained, Stop, Join, vars, pool, tasks
<1>10. CASE NotifyOne \/ NotifyAll \/ Start
  <2>1. UNCHANGED <<holds, task>>
    BY <1>10 DEF NotifyOne, NotifyAll, Start, tasks
  <2>2. \A w \in Worker : worker'[w] = "running" => worker[w] = "running"
    BY <1>0, <1>10 DEF NotifyOne, NotifyAll, Start, Asleep
  <2> QED BY <1>8, <2>1, <2>2
<1>11. ASSUME NEW w \in Worker, Sleep(w) \/ Leave(w) \/ WakeSpuriously(w) PROVE Apart'
  BY <1>0, <1>8, <1>11 DEF Sleep, Leave, WakeSpuriously, tasks
<1> QED BY <1>2, <1>3, <1>4, <1>5, <1>6, <1>7, <1>9, <1>10, <1>11 DEF Next, Loop, Body

THEOREM RunOnceHolds == Spec => [](Once /\ Apart)
<1>1. Init => Once /\ Apart
  BY DEF Init, Once, Apart, Names
<1>2. Spec => []Shape
  BY TypeCorrect, PTL DEF Shape
<1>3. Shape /\ Once /\ Apart /\ [Next]_vars => Once' /\ Apart'
  BY OnceStep, ApartStep
<1> QED BY <1>1, <1>2, <1>3, PTL DEF Spec

-----------------------------------------------------------------------------
(* The pool dispatches each task once.                                     *)

LEMMA ContractStep ==
  ASSUME Shape, Once, Apart, [Next]_vars
  PROVE  Contract!Next \/ UNCHANGED Contract!vars
<1>0. /\ TypeOK /\ Held
      /\ task \in [Task -> {"unposted", "queued", "running", "waiting", "finished"}]
      /\ workerQueue \in Seq(Task) /\ mainQueue \in Seq(Task)
  BY DEF Shape, TypeOK
<1>1. ASSUME NEW e \in Task, task[e] = "unposted", task'[e] = "queued",
             \A t \in Task : t # e =>
               task'[t] = task[t] \/ (task[t] = "running" /\ task'[t] = "waiting")
      PROVE  Contract!Next
  <2>1. /\ {t \in Task : task'[t] # "unposted"} = {t \in Task : task[t] # "unposted"} \cup {e}
        /\ e \notin {t \in Task : task[t] # "unposted"}
    BY <1>1
  <2>2. /\ {t \in Task : task'[t] \in {"running", "waiting", "finished"}}
             = {t \in Task : task[t] \in {"running", "waiting", "finished"}}
        /\ {t \in Task : task'[t] = "finished"} = {t \in Task : task[t] = "finished"}
    BY <1>1
  <2>3. Contract!Post(e)
    BY <2>1, <2>2 DEF Contract!Post
  <2> QED BY <2>3 DEF Contract!Next
<1>2. CASE PostWorker \/ PostMain
  <2>1. nextTask \in Task /\ task[nextTask] = "unposted"
    BY <1>2, PostedNew DEF PostWorker, PostMain, Push
  <2>2. task' = [task EXCEPT ![nextTask] = "queued"]
    BY <1>2 DEF PostWorker, PostMain
  <2> QED BY <1>0, <1>1, <2>1, <2>2
<1>3. ASSUME NEW w \in Worker, PostAndWait(w) PROVE Contract!Next
  <2>1. nextTask \in Task /\ task[nextTask] = "unposted"
    BY <1>3, PostedNew DEF PostAndWait, Push
  <2>2. /\ task' = [task EXCEPT ![holds[w]] = "waiting", ![nextTask] = "queued"]
        /\ holds[w] \in Task /\ task[holds[w]] = "running"
    BY <1>0, <1>3 DEF PostAndWait, Held
  <2>3. /\ task'[nextTask] = "queued" /\ task'[holds[w]] = "waiting"
        /\ \A t \in Task : t \notin {nextTask, holds[w]} => task'[t] = task[t]
    BY <1>0, <2>1, <2>2
  <2> QED BY <1>1, <2>1, <2>2, <2>3
<1>4. ASSUME NEW w \in Worker, TakeTask(w) PROVE Contract!Next
  <2>1. PICK e : e = Head(workerQueue)
    OBVIOUS
  <2>2. e \in Task /\ task[e] = "queued" /\ task' = [task EXCEPT ![e] = "running"]
    BY <1>0, <1>4, <2>1 DEF TakeTask, Once, Names
  <2>3. /\ {t \in Task : task'[t] \in {"running", "waiting", "finished"}}
             = {t \in Task : task[t] \in {"running", "waiting", "finished"}} \cup {e}
        /\ {t \in Task : task'[t] # "unposted"} = {t \in Task : task[t] # "unposted"}
        /\ {t \in Task : task'[t] = "finished"} = {t \in Task : task[t] = "finished"}
    BY <1>0, <2>2
  <2>4. e \in {t \in Task : task[t] # "unposted"}
               \ {t \in Task : task[t] \in {"running", "waiting", "finished"}}
    BY <2>2
  <2>5. Contract!Start(e)
    BY <2>3, <2>4 DEF Contract!Start
  <2> QED BY <2>2, <2>5 DEF Contract!Next
<1>5. CASE RunMain
  <2>1. PICK e : e = Head(mainQueue)
    OBVIOUS
  <2>2. e \in Task /\ task[e] = "queued" /\ task' = [task EXCEPT ![e] = "finished"]
    BY <1>0, <1>5, <2>1 DEF RunMain, Once, Names
  <2>3. /\ {t \in Task : task'[t] \in {"running", "waiting", "finished"}}
             = {t \in Task : task[t] \in {"running", "waiting", "finished"}} \cup {e}
        /\ {t \in Task : task'[t] # "unposted"} = {t \in Task : task[t] # "unposted"}
        /\ {t \in Task : task'[t] = "finished"} = {t \in Task : task[t] = "finished"} \cup {e}
    BY <1>0, <2>2
  <2>4. e \in {t \in Task : task[t] # "unposted"}
               \ {t \in Task : task[t] \in {"running", "waiting", "finished"}}
    BY <2>2
  <2>5. Contract!StartAndFinish(e)
    BY <2>3, <2>4 DEF Contract!StartAndFinish
  <2> QED BY <2>2, <2>5 DEF Contract!Next
<1>6. ASSUME NEW w \in Worker, FinishTask(w) PROVE Contract!Next
  <2>1. PICK e : e = holds[w]
    OBVIOUS
  <2>2. e \in Task /\ task[e] = "running" /\ task' = [task EXCEPT ![e] = "finished"]
    BY <1>0, <1>6, <2>1 DEF FinishTask, Held
  <2>3. /\ {t \in Task : task'[t] \in {"running", "waiting", "finished"}}
             = {t \in Task : task[t] \in {"running", "waiting", "finished"}}
        /\ {t \in Task : task'[t] # "unposted"} = {t \in Task : task[t] # "unposted"}
        /\ {t \in Task : task'[t] = "finished"} = {t \in Task : task[t] = "finished"} \cup {e}
    BY <1>0, <2>2
  <2>4. e \in {t \in Task : task[t] \in {"running", "waiting", "finished"}}
               \ {t \in Task : task[t] = "finished"}
    BY <2>2
  <2>5. Contract!Finish(e)
    BY <2>3, <2>4 DEF Contract!Finish
  <2> QED BY <2>2, <2>5 DEF Contract!Next
<1>7. ASSUME NEW w \in Worker, Resume(w) PROVE UNCHANGED Contract!vars
  <2>1. holds[w] \in Task /\ task[holds[w]] = "waiting" /\ task' = [task EXCEPT ![holds[w]] = "running"]
    BY <1>0, <1>7 DEF Resume, Held
  <2>2. /\ {t \in Task : task'[t] \in {"running", "waiting", "finished"}}
             = {t \in Task : task[t] \in {"running", "waiting", "finished"}}
        /\ {t \in Task : task'[t] # "unposted"} = {t \in Task : task[t] # "unposted"}
        /\ {t \in Task : task'[t] = "finished"} = {t \in Task : task[t] = "finished"}
    BY <1>0, <2>1
  <2> QED BY <2>2 DEF Contract!vars
<1>8. ASSUME UNCHANGED task PROVE UNCHANGED Contract!vars
  BY <1>8 DEF Contract!vars
<1>9. CASE NotifyOne \/ DrainMain \/ MainDrained \/ Stop \/ NotifyAll \/ Join \/ Start \/ UNCHANGED vars
  BY <1>8, <1>9 DEF NotifyOne, DrainMain, MainDrained, Stop, NotifyAll, Join, Start, vars, tasks
<1>10. ASSUME NEW w \in Worker, Sleep(w) \/ Leave(w) \/ WakeSpuriously(w)
       PROVE  UNCHANGED Contract!vars
  BY <1>8, <1>10 DEF Sleep, Leave, WakeSpuriously, tasks
<1> QED BY <1>2, <1>3, <1>4, <1>5, <1>6, <1>7, <1>9, <1>10 DEF Next, Loop, Body

\* For any number of workers and tasks, each task is run by one thread, once and
\* after it was posted, whoever competes for it (WorkerLoop, DrainMain).
THEOREM ContractKept == Spec => KeepsContract
<1>1. Init => Contract!Init
  BY DEF Init, Contract!Init
<1>2. Shape /\ Once /\ Apart /\ [Next]_vars => [Contract!Next]_(Contract!vars)
  BY ContractStep
<1>3. Spec => []Shape
  BY TypeCorrect, PTL DEF Shape
<1>4. Spec => [](Once /\ Apart)
  BY RunOnceHolds
<1> QED BY <1>1, <1>2, <1>3, <1>4, PTL DEF Spec, KeepsContract, Contract!Spec

-----------------------------------------------------------------------------
(* Some worker does not wait.                                              *)

PoolTypes ==
  /\ TypeOK /\ Held
  /\ worker \in [Worker -> {"ready", "asleep", "running", "gone"}]
  /\ holds \in [Worker -> Task \cup {0}]
  /\ task \in [Task -> {"unposted", "queued", "running", "waiting", "finished"}]
  /\ level \in [Task -> 0 .. Depth] /\ child \in [Task -> Task \cup {0}]
  /\ workerQueue \in Seq(Task) /\ mainQueue \in Seq(Task)
  /\ Depth \in Nat \ {0} /\ MaxTasks \in Nat /\ IsFiniteSet(Worker)

LEMMA ShapeTypes == Shape => PoolTypes
BY PoolAssumption DEF Shape, TypeOK, PoolTypes

LEMMA PushedFrom ==
  ASSUME NEW q \in Seq(Task), NEW e \in Task, NEW r, r = Append(q, e)
  PROVE  \A i \in 1 .. Len(r) : r[i] = e \/ \E j \in 1 .. Len(q) : q[j] = r[i]
<1>1. /\ Len(r) = Len(q) + 1 /\ Len(q) \in Nat /\ r[Len(q) + 1] = e
      /\ \A i \in 1 .. Len(q) : r[i] = q[i]
  OBVIOUS
<1> QED BY <1>1

LEMMA PoppedFrom ==
  ASSUME NEW q \in Seq(Task), q # <<>>, NEW r, r = Tail(q)
  PROVE  \A i \in 1 .. Len(r) : \E j \in 1 .. Len(q) : q[j] = r[i]
<1>1. /\ Len(r) = Len(q) - 1 /\ Len(q) \in Nat
      /\ \A i \in 1 .. Len(r) : r[i] = q[i + 1]
  OBVIOUS
<1> QED BY <1>1

\* What a worker posts, seen from the tasks.
LEMMA PushTasks ==
  ASSUME Shape, Once, Levels, NEW w \in Worker, PostAndWait(w)
  PROVE  /\ nextTask \in Task /\ holds[w] \in Task /\ nextTask # holds[w]
         /\ task[holds[w]] = "running" /\ level[holds[w]] >= 1
         /\ task[nextTask] = "unposted" /\ level[nextTask] = 0
         /\ task'[holds[w]] = "waiting" /\ task'[nextTask] = "queued"
         /\ \A t \in Task : t \notin {holds[w], nextTask} => task'[t] = task[t]
         /\ level'[nextTask] = level[holds[w]] + 1 /\ level'[nextTask] \in 0 .. Depth
         /\ \A t \in Task : t # nextTask => level'[t] = level[t]
         /\ child'[holds[w]] = nextTask
         /\ \A t \in Task : t # holds[w] => child'[t] = child[t]
<1>0. PoolTypes
  BY ShapeTypes
<1>1. /\ nextTask \in Task /\ task[nextTask] = "unposted" /\ level[nextTask] = 0
  BY PostedNew DEF PostAndWait, Push
<1>2. /\ holds[w] \in Task /\ task[holds[w]] = "running" /\ level[holds[w]] < Depth
      /\ task' = [task EXCEPT ![holds[w]] = "waiting", ![nextTask] = "queued"]
      /\ level' = [level EXCEPT ![nextTask] = level[holds[w]] + 1]
      /\ child' = [child EXCEPT ![holds[w]] = nextTask]
  BY <1>0 DEF PostAndWait, Push, PoolTypes, Held
<1>3. level[holds[w]] >= 1
  BY <1>2 DEF Levels
<1>4. level[holds[w]] + 1 \in 0 .. Depth
  BY <1>0, <1>2 DEF PoolTypes
<1>5. /\ task'[holds[w]] = "waiting" /\ task'[nextTask] = "queued"
      /\ \A t \in Task : t \notin {holds[w], nextTask} => task'[t] = task[t]
  BY <1>0, <1>1, <1>2 DEF PoolTypes
<1>6. /\ level'[nextTask] = level[holds[w]] + 1
      /\ \A t \in Task : t # nextTask => level'[t] = level[t]
  BY <1>0, <1>1, <1>2 DEF PoolTypes
<1>7. /\ child'[holds[w]] = nextTask
      /\ \A t \in Task : t # holds[w] => child'[t] = child[t]
  BY <1>0, <1>1, <1>2 DEF PoolTypes
<1> QED BY <1>1, <1>2, <1>3, <1>4, <1>5, <1>6, <1>7

LEMMA RootTasks ==
  ASSUME Shape, Once, PostWorker
  PROVE  /\ nextTask \in Task /\ task[nextTask] = "unposted" /\ level[nextTask] = 0
         /\ task'[nextTask] = "queued" /\ level'[nextTask] = 1
         /\ \A t \in Task : t # nextTask => task'[t] = task[t] /\ level'[t] = level[t]
         /\ child' = child
<1>0. PoolTypes
  BY ShapeTypes
<1>1. nextTask \in Task /\ task[nextTask] = "unposted" /\ level[nextTask] = 0
  BY PostedNew DEF PostWorker, Push
<1>2. /\ task' = [task EXCEPT ![nextTask] = "queued"] /\ level' = [level EXCEPT ![nextTask] = 1]
      /\ child' = child
  BY DEF PostWorker, Push
<1> QED BY <1>0, <1>1, <1>2 DEF PoolTypes

LEMMA LevelsStep ==
  ASSUME Shape, Once, Apart, Levels, [Next]_vars
  PROVE  Levels'
<1>0. PoolTypes
  BY ShapeTypes
<1>1. ASSUME NEW e \in Task, level'[e] >= 1, \A t \in Task : t # e => level'[t] = level[t],
             \A i \in 1 .. Len(mainQueue) : mainQueue[i] # e,
             workerQueue' = Append(workerQueue, e), UNCHANGED mainQueue,
             \A t \in Task : t # e /\ task'[t] \in {"running", "waiting"} =>
               task[t] \in {"running", "waiting"}
      PROVE  Levels'
  <2>1. \A i \in 1 .. Len(workerQueue') :
          workerQueue'[i] = e \/ \E j \in 1 .. Len(workerQueue) : workerQueue[j] = workerQueue'[i]
    BY <1>0, <1>1, PushedFrom DEF PoolTypes
  <2>2. \A i \in 1 .. Len(workerQueue) : workerQueue[i] \in Task
    BY <1>0 DEF PoolTypes
  <2>3. \A i \in 1 .. Len(mainQueue) : mainQueue[i] \in Task
    BY <1>0 DEF PoolTypes
  <2>4. \A i \in 1 .. Len(workerQueue') : level'[workerQueue'[i]] >= 1
    BY <1>1, <2>1, <2>2 DEF Levels
  <2>5. \A i \in 1 .. Len(mainQueue') : level'[mainQueue'[i]] = 0
    BY <1>1, <2>3 DEF Levels
  <2>6. \A t \in Task : task'[t] \in {"running", "waiting"} => level'[t] >= 1
    BY <1>1 DEF Levels
  <2> QED BY <2>4, <2>5, <2>6 DEF Levels
<1>2. CASE PostWorker
  <2>1. /\ workerQueue' = Append(workerQueue, nextTask) /\ UNCHANGED mainQueue
        /\ \A i \in 1 .. Len(mainQueue) : mainQueue[i] # nextTask
    BY <1>2, PostedNew DEF PostWorker, Push
  <2> QED BY <1>1, <1>2, <2>1, RootTasks
<1>3. ASSUME NEW w \in Worker, PostAndWait(w) PROVE Levels'
  <2>1. /\ workerQueue' = Append(workerQueue, nextTask) /\ UNCHANGED mainQueue
        /\ \A i \in 1 .. Len(mainQueue) : mainQueue[i] # nextTask
    BY <1>3, PostedNew DEF PostAndWait, Push
  <2>2. /\ level'[nextTask] >= 1
        /\ \A t \in Task : t # nextTask /\ task'[t] \in {"running", "waiting"} =>
             task[t] \in {"running", "waiting"}
    BY <1>0, <1>3, PushTasks DEF PoolTypes
  <2> QED BY <1>1, <1>3, <2>1, <2>2, PushTasks
<1>4. CASE PostMain
  <2>1. /\ nextTask \in Task /\ level[nextTask] = 0 /\ mainQueue' = Append(mainQueue, nextTask)
        /\ task' = [task EXCEPT ![nextTask] = "queued"] /\ UNCHANGED <<workerQueue, level>>
    BY <1>4, PostedNew DEF PostMain
  <2>2. \A i \in 1 .. Len(mainQueue') :
          mainQueue'[i] = nextTask \/ \E j \in 1 .. Len(mainQueue) : mainQueue[j] = mainQueue'[i]
    BY <1>0, <2>1, PushedFrom DEF PoolTypes
  <2>3. \A t \in Task : task'[t] \in {"running", "waiting"} => task[t] \in {"running", "waiting"}
    BY <1>0, <2>1 DEF PoolTypes
  <2> QED BY <2>1, <2>2, <2>3 DEF Levels
<1>5. CASE RunMain
  <2>1. /\ mainQueue # <<>> /\ mainQueue' = Tail(mainQueue) /\ UNCHANGED <<workerQueue, level>>
        /\ task' = [task EXCEPT ![Head(mainQueue)] = "finished"]
    BY <1>5 DEF RunMain
  <2>2. \A i \in 1 .. Len(mainQueue') : \E j \in 1 .. Len(mainQueue) : mainQueue[j] = mainQueue'[i]
    BY <1>0, <2>1, PoppedFrom DEF PoolTypes
  <2>3. \A t \in Task : task'[t] \in {"running", "waiting"} => task[t] \in {"running", "waiting"}
    BY <1>0, <2>1 DEF PoolTypes
  <2> QED BY <2>1, <2>2, <2>3 DEF Levels
<1>6. ASSUME NEW w \in Worker, TakeTask(w) PROVE Levels'
  <2>1. /\ workerQueue # <<>> /\ workerQueue' = Tail(workerQueue) /\ UNCHANGED <<mainQueue, level>>
        /\ task' = [task EXCEPT ![Head(workerQueue)] = "running"]
    BY <1>6 DEF TakeTask
  <2>2. \A i \in 1 .. Len(workerQueue') :
          \E j \in 1 .. Len(workerQueue) : workerQueue[j] = workerQueue'[i]
    BY <1>0, <2>1, PoppedFrom DEF PoolTypes
  <2>3. level[Head(workerQueue)] >= 1
    BY <1>0, <2>1 DEF PoolTypes, Levels
  <2>4. \A t \in Task : task'[t] \in {"running", "waiting"} =>
          task[t] \in {"running", "waiting"} \/ t = Head(workerQueue)
    BY <1>0, <2>1 DEF PoolTypes
  <2> QED BY <2>1, <2>2, <2>3, <2>4 DEF Levels
<1>7. ASSUME UNCHANGED <<workerQueue, mainQueue, level>>,
             \A t \in Task : task'[t] \in {"running", "waiting"} => task[t] \in {"running", "waiting"}
      PROVE  Levels'
  BY <1>7 DEF Levels
<1>8. ASSUME NEW w \in Worker, Resume(w) \/ FinishTask(w) PROVE Levels'
  <2>1. PICK s \in {"running", "finished"} : task' = [task EXCEPT ![holds[w]] = s]
    BY <1>8 DEF Resume, FinishTask
  <2>2. holds[w] \in Task /\ task[holds[w]] \in {"running", "waiting"}
    BY <1>0, <1>8 DEF Resume, FinishTask, Held, PoolTypes
  <2>3. UNCHANGED <<workerQueue, mainQueue, level>>
    BY <1>8 DEF Resume, FinishTask, queues
  <2>4. \A t \in Task : task'[t] \in {"running", "waiting"} => task[t] \in {"running", "waiting"}
    BY <1>0, <2>1, <2>2 DEF PoolTypes
  <2> QED BY <1>7, <2>3, <2>4
<1>9. CASE NotifyOne \/ DrainMain \/ MainDrained \/ Stop \/ NotifyAll \/ Join \/ Start \/ UNCHANGED vars
  BY <1>7, <1>9 DEF NotifyOne, DrainMain, MainDrained, Stop, NotifyAll, Join, Start, vars, queues, tasks
<1>10. ASSUME NEW w \in Worker, Sleep(w) \/ Leave(w) \/ WakeSpuriously(w) PROVE Levels'
  BY <1>7, <1>10 DEF Sleep, Leave, WakeSpuriously, queues, tasks
<1> QED BY <1>2, <1>3, <1>4, <1>5, <1>6, <1>8, <1>9, <1>10 DEF Next, Loop, Body

\* A step that ends no task of a chain and posts none.
LEMMA ChainsFrame ==
  ASSUME NEW root \in [Task -> Task], ChainsBy(root, level, task, child), UNCHANGED <<level, child>>,
         \A t \in Task : Open(t, level', task') <=> Open(t, level, task),
         \A t \in Task : task'[t] = "waiting" <=> task[t] = "waiting",
         \A t \in Task : child[t] \in Task \cup {0}, \A t \in Task : level[t] \in Nat
  PROVE  ChainsBy(root, level', task', child')
<1>1. \A t \in Task : Open(t, level', task') =>
        root[t] \in Task /\ level'[root[t]] = 1 /\ Open(root[t], level', task')
  BY DEF ChainsBy
<1>2. \A t \in Task : Open(t, level', task') /\ level'[t] = 1 => root[t] = t
  BY DEF ChainsBy
<1>3. \A t \in Task : task'[t] = "waiting" /\ level'[t] >= 1 =>
        /\ child'[t] \in Task /\ level'[child'[t]] = level'[t] + 1
        /\ Open(child[t], level', task') => root[child'[t]] = root[t]
  BY DEF ChainsBy
<1>4. \A t, u \in Task :
        Open(t, level', task') /\ Open(u, level', task') /\ t # u /\ root[t] = root[u] =>
        /\ level'[t] # level'[u]
        /\ level'[t] < level'[u] => task'[t] = "waiting" /\ Open(child[t], level', task')
  <2> TAKE t, u \in Task
  <2> HAVE Open(t, level', task') /\ Open(u, level', task') /\ t # u /\ root[t] = root[u]
  <2>1. /\ level[t] # level[u]
        /\ level[t] < level[u] => task[t] = "waiting" /\ Open(child[t], level, task) /\ level[t] >= 1
    BY DEF ChainsBy, Open
  <2>2. level[t] < level[u] => child[t] \in Task
    BY <2>1 DEF ChainsBy
  <2> QED BY <2>1, <2>2
<1>5. \A t \in Task : Open(child[t], level', task') <=> Open(child'[t], level', task')
  OBVIOUS
<1> QED BY <1>1, <1>2, <1>3, <1>4, <1>5 DEF ChainsBy

\* A new root starts a chain of its own.
LEMMA ChainsRoot ==
  ASSUME Shape, Once, NEW root \in [Task -> Task], ChainsBy(root, level, task, child), PostWorker
  PROVE  \E other \in [Task -> Task] : ChainsBy(other, level', task', child')
<1>0. PoolTypes
  BY ShapeTypes
<1>1. PICK e \in Task :
        /\ e = nextTask /\ task[e] = "unposted" /\ level[e] = 0
        /\ task'[e] = "queued" /\ level'[e] = 1
        /\ \A t \in Task : t # e => task'[t] = task[t] /\ level'[t] = level[t]
        /\ child' = child
  BY RootTasks
<1>2. PICK other \in [Task -> Task] : other = [root EXCEPT ![e] = e]
  OBVIOUS
<1>3. other[e] = e /\ \A t \in Task : t # e => other[t] = root[t]
  BY <1>2
<1>4. /\ \A t \in Task : t # e => (Open(t, level', task') <=> Open(t, level, task))
      /\ Open(e, level', task') /\ ~Open(e, level, task)
  BY <1>1 DEF Open
<1>5. \A t \in Task : Open(t, level, task) => root[t] # e /\ root[t] \in Task
  BY <1>4 DEF ChainsBy
<1>6. \A t \in Task : Open(t, level', task') =>
        other[t] \in Task /\ level'[other[t]] = 1 /\ Open(other[t], level', task')
  <2> TAKE t \in Task
  <2>1. CASE t = e
    BY <1>1, <1>3, <1>4, <2>1
  <2>2. CASE t # e
    BY <1>1, <1>3, <1>4, <1>5, <2>2 DEF ChainsBy
  <2> QED BY <2>1, <2>2
<1>7. \A t \in Task : Open(t, level', task') /\ level'[t] = 1 => other[t] = t
  BY <1>1, <1>3, <1>4 DEF ChainsBy
<1>8. \A t \in Task : task'[t] = "waiting" /\ level'[t] >= 1 =>
        /\ child'[t] \in Task /\ level'[child'[t]] = level'[t] + 1
        /\ Open(child'[t], level', task') => other[child'[t]] = other[t]
  <2> TAKE t \in Task
  <2> HAVE task'[t] = "waiting" /\ level'[t] >= 1
  <2>1. t # e /\ task[t] = "waiting" /\ level[t] >= 1 /\ level'[t] = level[t] /\ level[t] \in Nat
    BY <1>0, <1>1 DEF PoolTypes
  <2>2. PICK c : c = child[t]
    OBVIOUS
  <2>3. c \in Task /\ level[c] = level[t] + 1 /\ (Open(c, level, task) => root[c] = root[t])
    BY <2>1, <2>2 DEF ChainsBy
  <2>4. c # e /\ child'[t] = c
    BY <1>1, <2>1, <2>2, <2>3
  <2>5. /\ level'[c] = level[c] /\ (Open(c, level', task') <=> Open(c, level, task)) /\ other[c] = root[c]
        /\ other[t] = root[t]
    BY <1>1, <1>3, <1>4, <2>1, <2>3, <2>4
  <2>6. Open(child'[t], level', task') <=> Open(c, level', task')
    BY <2>4 DEF Open
  <2> QED BY <2>1, <2>3, <2>4, <2>5, <2>6
<1>9. \A t, u \in Task :
        Open(t, level', task') /\ Open(u, level', task') /\ t # u /\ other[t] = other[u] =>
        /\ level'[t] # level'[u]
        /\ level'[t] < level'[u] => task'[t] = "waiting" /\ Open(child'[t], level', task')
  <2> TAKE t, u \in Task
  <2> HAVE Open(t, level', task') /\ Open(u, level', task') /\ t # u /\ other[t] = other[u]
  <2>1. t # e /\ u # e
    BY <1>3, <1>4, <1>5
  <2>2. /\ Open(t, level, task) /\ Open(u, level, task) /\ root[t] = root[u]
        /\ level'[t] = level[t] /\ level'[u] = level[u]
        /\ task'[t] = task[t] /\ child'[t] = child[t]
    BY <1>1, <1>3, <1>4, <2>1
  <2>3. /\ level[t] # level[u]
        /\ level[t] < level[u] => task[t] = "waiting" /\ Open(child[t], level, task) /\ level[t] >= 1
    BY <2>2 DEF ChainsBy, Open
  <2>4. level[t] < level[u] => child[t] \in Task /\ child[t] # e
    BY <1>4, <2>3 DEF ChainsBy
  <2>5. level[t] < level[u] => Open(child[t], level', task')
    BY <1>1, <2>3, <2>4 DEF Open
  <2>6. Open(child'[t], level', task') <=> Open(child[t], level', task')
    BY <2>2 DEF Open
  <2> QED BY <2>2, <2>3, <2>5, <2>6
<1>10. ChainsBy(other, level', task', child')
  BY <1>6, <1>7, <1>8, <1>9 DEF ChainsBy
<1> QED BY <1>10

\* What a task posts goes to the end of its chain.
LEMMA ChainsPosted ==
  ASSUME Shape, Once, Levels, NEW root \in [Task -> Task], ChainsBy(root, level, task, child),
         NEW w \in Worker, PostAndWait(w)
  PROVE  \E other \in [Task -> Task] : ChainsBy(other, level', task', child')
<1>0. PoolTypes
  BY ShapeTypes
<1>1. PICK e \in Task, p \in Task :
        /\ e = nextTask /\ p = holds[w] /\ e # p
        /\ task[p] = "running" /\ level[p] >= 1 /\ level[p] \in Nat
        /\ task[e] = "unposted" /\ level[e] = 0
        /\ task'[p] = "waiting" /\ task'[e] = "queued"
        /\ \A t \in Task : t \notin {p, e} => task'[t] = task[t]
        /\ level'[e] = level[p] + 1
        /\ \A t \in Task : t # e => level'[t] = level[t]
        /\ child'[p] = e
        /\ \A t \in Task : t # p => child'[t] = child[t]
  <2>1. level[holds[w]] \in Nat
    BY <1>0, PushTasks DEF PoolTypes
  <2> QED BY <2>1, PushTasks
<1>2. PICK other \in [Task -> Task] : other = [root EXCEPT ![e] = root[p]]
  OBVIOUS
<1>3. other[e] = root[p] /\ \A t \in Task : t # e => other[t] = root[t]
  BY <1>2
<1>4. /\ \A t \in Task : t # e => (Open(t, level', task') <=> Open(t, level, task))
      /\ Open(e, level', task') /\ ~Open(e, level, task) /\ Open(p, level, task)
  BY <1>1 DEF Open
<1>5. \A t \in Task : Open(t, level, task) =>
        root[t] # e /\ root[t] \in Task /\ level[root[t]] = 1 /\ Open(root[t], level, task)
  BY <1>4 DEF ChainsBy
<1>6. \A t \in Task : Open(t, level, task) /\ t # p /\ root[t] = root[p] => level[t] < level[p]
  <2> TAKE t \in Task
  <2> HAVE Open(t, level, task) /\ t # p /\ root[t] = root[p]
  <2>1. level[t] # level[p] /\ (level[p] < level[t] => task[p] = "waiting")
    BY <1>4 DEF ChainsBy
  <2> QED BY <1>0, <1>1, <2>1 DEF PoolTypes
<1>7. \A t \in Task : Open(t, level', task') =>
        other[t] \in Task /\ level'[other[t]] = 1 /\ Open(other[t], level', task')
  <2> TAKE t \in Task
  <2>1. CASE t = e
    BY <1>1, <1>3, <1>4, <1>5, <2>1
  <2>2. CASE t # e
    BY <1>1, <1>3, <1>4, <1>5, <2>2
  <2> QED BY <2>1, <2>2
<1>8. \A t \in Task : Open(t, level', task') /\ level'[t] = 1 => other[t] = t
  <2> TAKE t \in Task
  <2> HAVE Open(t, level', task') /\ level'[t] = 1
  <2>1. t # e
    BY <1>1
  <2> QED BY <1>1, <1>3, <1>4, <2>1 DEF ChainsBy
<1>9. \A t \in Task : task'[t] = "waiting" /\ level'[t] >= 1 =>
        /\ child'[t] \in Task /\ level'[child'[t]] = level'[t] + 1
        /\ Open(child'[t], level', task') => other[child'[t]] = other[t]
  <2> TAKE t \in Task
  <2> HAVE task'[t] = "waiting" /\ level'[t] >= 1
  <2>1. CASE t = p
    BY <1>1, <1>3, <2>1
  <2>2. CASE t # p
    <3>1. t # e /\ task[t] = "waiting" /\ level[t] >= 1 /\ level'[t] = level[t]
      BY <1>1, <2>2
    <3>2. PICK c : c = child[t]
      OBVIOUS
    <3>3. c \in Task /\ level[c] = level[t] + 1 /\ (Open(c, level, task) => root[c] = root[t])
      BY <3>1, <3>2 DEF ChainsBy
    <3>4. c # e /\ child'[t] = c
      BY <1>0, <1>1, <2>2, <3>1, <3>2, <3>3 DEF PoolTypes
    <3>5. /\ level'[c] = level[c] /\ (Open(c, level', task') <=> Open(c, level, task)) /\ other[c] = root[c]
          /\ other[t] = root[t]
      BY <1>1, <1>3, <1>4, <3>1, <3>3, <3>4
    <3>6. Open(child'[t], level', task') <=> Open(c, level', task')
      BY <3>4 DEF Open
    <3> QED BY <3>1, <3>3, <3>4, <3>5, <3>6
  <2> QED BY <2>1, <2>2
<1>10. \A t, u \in Task :
        Open(t, level', task') /\ Open(u, level', task') /\ t # u /\ other[t] = other[u] =>
        /\ level'[t] # level'[u]
        /\ level'[t] < level'[u] => task'[t] = "waiting" /\ Open(child'[t], level', task')
  <2> TAKE t, u \in Task
  <2> HAVE Open(t, level', task') /\ Open(u, level', task') /\ t # u /\ other[t] = other[u]
  <2>0. \A x \in Task : level[x] \in Nat
    BY <1>0 DEF PoolTypes
  <2>1. CASE t = e
    <3>1. u # e /\ Open(u, level, task) /\ root[u] = root[p] /\ level'[u] = level[u]
      BY <1>1, <1>3, <1>4, <2>1
    <3>2. level[u] <= level[p]
      BY <1>1, <1>6, <2>0, <3>1
    <3> QED BY <1>1, <2>0, <2>1, <3>1, <3>2
  <2>2. CASE u = e
    <3>1. t # e /\ Open(t, level, task) /\ root[t] = root[p] /\ level'[t] = level[t]
      BY <1>1, <1>3, <1>4, <2>2
    <3>2. level[t] <= level[p]
      BY <1>1, <1>6, <2>0, <3>1
    <3>3. level'[t] # level'[u]
      BY <1>1, <2>0, <2>2, <3>1, <3>2
    <3>4. task'[t] = "waiting" /\ Open(child'[t], level', task')
      <4>1. CASE t = p
        BY <1>1, <1>4, <4>1 DEF Open
      <4>2. CASE t # p
        <5>1. /\ level[t] < level[p] /\ task[t] = "waiting" /\ Open(child[t], level, task)
              /\ level[t] >= 1
          BY <1>1, <1>4, <1>6, <3>1, <4>2 DEF ChainsBy, Open
        <5>2. child[t] \in Task /\ child[t] # e
          BY <1>4, <5>1 DEF ChainsBy
        <5>3. task'[t] = "waiting" /\ child'[t] = child[t]
          BY <1>1, <3>1, <4>2, <5>1
        <5> QED BY <1>1, <5>1, <5>2, <5>3 DEF Open
      <4> QED BY <4>1, <4>2
    <3> QED BY <3>3, <3>4
  <2>3. CASE t # e /\ u # e
    <3>1. /\ Open(t, level, task) /\ Open(u, level, task) /\ root[t] = root[u]
          /\ level'[t] = level[t] /\ level'[u] = level[u]
      BY <1>1, <1>3, <1>4, <2>3
    <3>2. /\ level[t] # level[u]
          /\ level[t] < level[u] => task[t] = "waiting" /\ Open(child[t], level, task) /\ level[t] >= 1
      BY <3>1 DEF ChainsBy, Open
    <3>3. level[t] < level[u] => child[t] \in Task /\ child[t] # e /\ t # p
      BY <1>1, <1>4, <3>2 DEF ChainsBy
    <3>4. level[t] < level[u] =>
            task'[t] = "waiting" /\ child'[t] = child[t] /\ Open(child[t], level', task')
      BY <1>1, <2>3, <3>2, <3>3 DEF Open
    <3>5. level[t] < level[u] => Open(child'[t], level', task')
      BY <3>4 DEF Open
    <3> QED BY <3>1, <3>2, <3>4, <3>5
  <2> QED BY <2>1, <2>2, <2>3
<1>11. ChainsBy(other, level', task', child')
  BY <1>7, <1>8, <1>9, <1>10 DEF ChainsBy
<1> QED BY <1>11

\* A task goes on when what it waited for has ended.
LEMMA ChainsResumed ==
  ASSUME Shape, NEW root \in [Task -> Task], ChainsBy(root, level, task, child),
         NEW w \in Worker, Resume(w)
  PROVE  ChainsBy(root, level', task', child')
<1>0. PoolTypes
  BY ShapeTypes
<1>1. PICK p \in Task :
        /\ p = holds[w] /\ task[p] = "waiting" /\ ~Open(child[p], level, task)
        /\ task' = [task EXCEPT ![p] = "running"] /\ child' = [child EXCEPT ![p] = 0] /\ level' = level
  BY <1>0 DEF Resume, Held, PoolTypes, Open
<1>2. /\ task'[p] = "running" /\ \A t \in Task : t # p => task'[t] = task[t] /\ child'[t] = child[t]
      /\ \A t \in Task : level[t] \in Nat
  BY <1>0, <1>1 DEF PoolTypes
<1>3. \A t \in Task : Open(t, level', task') <=> Open(t, level, task)
  BY <1>1, <1>2 DEF Open
<1>4. \A t \in Task : t # p => (Open(child'[t], level', task') <=> Open(child[t], level', task'))
  BY <1>2 DEF Open
<1>5. \A t \in Task : Open(t, level', task') =>
        root[t] \in Task /\ level'[root[t]] = 1 /\ Open(root[t], level', task')
  BY <1>1, <1>3 DEF ChainsBy
<1>6. \A t \in Task : Open(t, level', task') /\ level'[t] = 1 => root[t] = t
  BY <1>1, <1>3 DEF ChainsBy
<1>7. \A t \in Task : task'[t] = "waiting" /\ level'[t] >= 1 =>
        /\ child'[t] \in Task /\ level'[child'[t]] = level'[t] + 1
        /\ Open(child'[t], level', task') => root[child'[t]] = root[t]
  <2> TAKE t \in Task
  <2> HAVE task'[t] = "waiting" /\ level'[t] >= 1
  <2>1. t # p /\ task[t] = "waiting" /\ level[t] >= 1 /\ child'[t] = child[t]
    BY <1>1, <1>2
  <2>2. /\ child[t] \in Task /\ level[child[t]] = level[t] + 1
        /\ Open(child[t], level, task) => root[child[t]] = root[t]
    BY <2>1 DEF ChainsBy
  <2> QED BY <1>1, <1>3, <1>4, <2>1, <2>2
<1>8. \A t, u \in Task :
        Open(t, level', task') /\ Open(u, level', task') /\ t # u /\ root[t] = root[u] =>
        /\ level'[t] # level'[u]
        /\ level'[t] < level'[u] => task'[t] = "waiting" /\ Open(child'[t], level', task')
  <2> TAKE t, u \in Task
  <2> HAVE Open(t, level', task') /\ Open(u, level', task') /\ t # u /\ root[t] = root[u]
  <2>1. /\ level[t] # level[u]
        /\ level[t] < level[u] => task[t] = "waiting" /\ Open(child[t], level, task) /\ level[t] >= 1
    BY <1>3 DEF ChainsBy, Open
  <2>2. level[t] < level[u] => t # p /\ child[t] \in Task
    BY <1>1, <2>1 DEF ChainsBy
  <2>3. level[t] < level[u] => task'[t] = "waiting" /\ Open(child'[t], level', task')
    BY <1>2, <1>3, <1>4, <2>1, <2>2
  <2> QED BY <1>1, <2>1, <2>3
<1> QED BY <1>5, <1>6, <1>7, <1>8 DEF ChainsBy

\* The last task of a chain leaves it.
LEMMA ChainsFinished ==
  ASSUME Shape, NEW root \in [Task -> Task], ChainsBy(root, level, task, child),
         NEW w \in Worker, FinishTask(w)
  PROVE  ChainsBy(root, level', task', child')
<1>0. PoolTypes
  BY ShapeTypes
<1>1. PICK p \in Task :
        /\ p = holds[w] /\ task[p] = "running"
        /\ task' = [task EXCEPT ![p] = "finished"] /\ child' = child /\ level' = level
  BY <1>0 DEF FinishTask, Held, PoolTypes
<1>2. /\ task'[p] = "finished" /\ \A t \in Task : t # p => task'[t] = task[t]
      /\ \A t \in Task : level[t] \in Nat
  BY <1>0, <1>1 DEF PoolTypes
<1>3. /\ ~Open(p, level', task')
      /\ \A t \in Task : t # p => (Open(t, level', task') <=> Open(t, level, task))
  BY <1>1, <1>2 DEF Open
<1>4. \A t \in Task : Open(t, level', task') => t # p /\ Open(t, level, task)
  BY <1>3
<1>5. \A t \in Task : Open(child'[t], level', task') <=> Open(child[t], level', task')
  BY <1>1 DEF Open
<1>6. \A t \in Task : t # p /\ Open(t, level, task) /\ Open(p, level, task) /\ root[t] = root[p] =>
        level[t] < level[p]
  <2> TAKE t \in Task
  <2> HAVE t # p /\ Open(t, level, task) /\ Open(p, level, task) /\ root[t] = root[p]
  <2>1. level[t] # level[p] /\ (level[p] < level[t] => task[p] = "waiting")
    BY DEF ChainsBy
  <2> QED BY <1>1, <1>2, <2>1
<1>7. \A t \in Task : Open(t, level', task') =>
        root[t] \in Task /\ level'[root[t]] = 1 /\ Open(root[t], level', task')
  <2> TAKE t \in Task
  <2> HAVE Open(t, level', task')
  <2>1. /\ t # p /\ Open(t, level, task) /\ root[t] \in Task /\ level[root[t]] = 1
        /\ Open(root[t], level, task) /\ level[t] >= 1
    BY <1>4 DEF ChainsBy, Open
  <2>2. root[t] # p
    <3>1. SUFFICES ASSUME root[t] = p PROVE FALSE
      OBVIOUS
    <3>2. root[p] = p
      BY <2>1, <3>1 DEF ChainsBy
    <3> QED BY <1>2, <1>6, <2>1, <3>1, <3>2
  <2> QED BY <1>1, <1>3, <2>1, <2>2
<1>8. \A t \in Task : Open(t, level', task') /\ level'[t] = 1 => root[t] = t
  BY <1>1, <1>4 DEF ChainsBy
<1>9. \A t \in Task : task'[t] = "waiting" /\ level'[t] >= 1 =>
        /\ child'[t] \in Task /\ level'[child'[t]] = level'[t] + 1
        /\ Open(child'[t], level', task') => root[child'[t]] = root[t]
  <2> TAKE t \in Task
  <2> HAVE task'[t] = "waiting" /\ level'[t] >= 1
  <2>1. t # p /\ task[t] = "waiting" /\ level[t] >= 1
    BY <1>1, <1>2
  <2>2. /\ child[t] \in Task /\ level[child[t]] = level[t] + 1
        /\ Open(child[t], level, task) => root[child[t]] = root[t]
    BY <2>1 DEF ChainsBy
  <2>3. Open(child[t], level', task') => Open(child[t], level, task)
    BY <1>4, <2>2
  <2> QED BY <1>1, <1>5, <2>2, <2>3
<1>10. \A t, u \in Task :
        Open(t, level', task') /\ Open(u, level', task') /\ t # u /\ root[t] = root[u] =>
        /\ level'[t] # level'[u]
        /\ level'[t] < level'[u] => task'[t] = "waiting" /\ Open(child'[t], level', task')
  <2> TAKE t, u \in Task
  <2> HAVE Open(t, level', task') /\ Open(u, level', task') /\ t # u /\ root[t] = root[u]
  <2>1. t # p /\ u # p /\ Open(t, level, task) /\ Open(u, level, task)
    BY <1>4
  <2>2. /\ level[t] # level[u]
        /\ level[t] < level[u] => task[t] = "waiting" /\ Open(child[t], level, task) /\ level[t] >= 1
    BY <2>1 DEF ChainsBy, Open
  <2>3. ASSUME level[t] < level[u] PROVE child[t] # p
    <3>1. SUFFICES ASSUME child[t] = p PROVE FALSE
      OBVIOUS
    <3>2. level[p] = level[t] + 1 /\ root[p] = root[t] /\ Open(p, level, task)
      BY <2>2, <2>3, <3>1 DEF ChainsBy
    <3>3. level[u] < level[p]
      BY <1>6, <2>1, <3>2
    <3> QED BY <1>2, <2>3, <3>2, <3>3
  <2>4. level[t] < level[u] => child[t] \in Task
    BY <2>2 DEF ChainsBy
  <2>5. level[t] < level[u] => task'[t] = "waiting" /\ Open(child'[t], level', task')
    BY <1>2, <1>3, <1>5, <2>1, <2>2, <2>3, <2>4
  <2> QED BY <1>1, <2>2, <2>5
<1> QED BY <1>7, <1>8, <1>9, <1>10 DEF ChainsBy

LEMMA ChainsStep ==
  ASSUME Shape, Once, Apart, Levels, [Next]_vars,
         NEW root \in [Task -> Task], ChainsBy(root, level, task, child)
  PROVE  \E other \in [Task -> Task] : ChainsBy(other, level', task', child')
<1>0. PoolTypes
  BY ShapeTypes
<1>1. ASSUME UNCHANGED <<level, child>>,
             \A t \in Task : Open(t, level', task') <=> Open(t, level, task),
             \A t \in Task : task'[t] = "waiting" <=> task[t] = "waiting"
      PROVE  ChainsBy(root, level', task', child')
  <2>1. /\ \A t \in Task : child[t] \in Task \cup {0}
        /\ \A t \in Task : level[t] \in Nat
    BY <1>0 DEF PoolTypes
  <2> QED BY <1>1, <2>1, ChainsFrame
<1>2. CASE PostMain
  <2>1. /\ nextTask \in Task /\ task[nextTask] = "unposted" /\ level[nextTask] = 0
        /\ task' = [task EXCEPT ![nextTask] = "queued"] /\ UNCHANGED <<level, child>>
    BY <1>2, PostedNew DEF PostMain
  <2>2. /\ task'[nextTask] = "queued" /\ \A t \in Task : t # nextTask => task'[t] = task[t]
    BY <1>0, <2>1 DEF PoolTypes
  <2> QED BY <1>1, <2>1, <2>2 DEF Open
<1>3. CASE RunMain
  <2>1. PICK e : e = Head(mainQueue)
    OBVIOUS
  <2>2. /\ mainQueue # <<>> /\ task' = [task EXCEPT ![e] = "finished"] /\ UNCHANGED <<level, child>>
    BY <1>3, <2>1 DEF RunMain
  <2>3. e \in Task /\ level[e] = 0 /\ task[e] = "queued"
    BY <1>0, <2>1, <2>2 DEF PoolTypes, Levels, Once, Names
  <2>4. /\ task'[e] = "finished" /\ \A t \in Task : t # e => task'[t] = task[t]
    BY <1>0, <2>2, <2>3 DEF PoolTypes
  <2> QED BY <1>1, <2>2, <2>3, <2>4 DEF Open
<1>4. ASSUME NEW w \in Worker, TakeTask(w)
      PROVE  ChainsBy(root, level', task', child')
  <2>1. PICK e : e = Head(workerQueue)
    OBVIOUS
  <2>2. /\ workerQueue # <<>> /\ task' = [task EXCEPT ![e] = "running"] /\ UNCHANGED <<level, child>>
    BY <1>4, <2>1 DEF TakeTask
  <2>3. e \in Task /\ task[e] = "queued"
    BY <1>0, <2>1, <2>2 DEF PoolTypes, Once, Names
  <2>4. /\ task'[e] = "running" /\ \A t \in Task : t # e => task'[t] = task[t]
    BY <1>0, <2>2, <2>3 DEF PoolTypes
  <2> QED BY <1>1, <2>2, <2>3, <2>4 DEF Open
<1>5. ASSUME UNCHANGED <<level, child, task>> PROVE ChainsBy(root, level', task', child')
  BY <1>1, <1>5
<1>6. CASE NotifyOne \/ DrainMain \/ MainDrained \/ Stop \/ NotifyAll \/ Join \/ Start \/ UNCHANGED vars
  BY <1>5, <1>6 DEF NotifyOne, DrainMain, MainDrained, Stop, NotifyAll, Join, Start, vars, tasks
<1>7. ASSUME NEW w \in Worker, Sleep(w) \/ Leave(w) \/ WakeSpuriously(w)
      PROVE  ChainsBy(root, level', task', child')
  BY <1>5, <1>7 DEF Sleep, Leave, WakeSpuriously, tasks
<1>8. ASSUME NEW w \in Worker, Resume(w) \/ FinishTask(w)
      PROVE  ChainsBy(root, level', task', child')
  BY <1>8, ChainsResumed, ChainsFinished
<1>9. CASE PostWorker
  BY <1>9, ChainsRoot
<1>10. ASSUME NEW w \in Worker, PostAndWait(w)
       PROVE  \E other \in [Task -> Task] : ChainsBy(other, level', task', child')
  BY <1>10, ChainsPosted
<1> QED
  BY <1>2, <1>3, <1>4, <1>6, <1>7, <1>8, <1>9, <1>10 DEF Next, Loop, Body

THEOREM ChainsHold == Spec => []Chained
<1>1. Init => Chained
  <2> SUFFICES ASSUME Init PROVE Chained
    OBVIOUS
  <2>1. Levels
    BY DEF Init, Levels
  <2>4. PICK root \in [Task -> Task] : root = [t \in Task |-> t]
    OBVIOUS
  <2>5. \A t \in Task : ~Open(t, level, task) /\ task[t] # "waiting"
    BY DEF Init, Open
  <2>6. ChainsBy(root, level, task, child)
    BY <2>5 DEF ChainsBy
  <2> QED BY <2>1, <2>6 DEF Chained
<1>2. Shape /\ Once /\ Apart /\ Chained /\ [Next]_vars => Chained'
  <2> SUFFICES ASSUME Shape, Once, Apart, Chained, [Next]_vars PROVE Chained'
    OBVIOUS
  <2>1. Levels
    BY DEF Chained
  <2>2. PICK root \in [Task -> Task] : ChainsBy(root, level, task, child)
    BY DEF Chained
  <2>3. \E other \in [Task -> Task] : ChainsBy(other, level', task', child')
    BY <2>1, <2>2, ChainsStep
  <2>4. (\E other \in [Task -> Task] : ChainsBy(other, level, task, child))'
    BY <2>3
  <2>5. Levels'
    BY <2>1, LevelsStep
  <2> QED BY <2>4, <2>5 DEF Chained
<1>3. Spec => []Shape
  BY TypeCorrect, PTL DEF Shape
<1>4. Spec => [](Once /\ Apart)
  BY RunOnceHolds
<1> QED BY <1>1, <1>2, <1>3, <1>4, PTL DEF Spec

\* While the pool runs all its workers are there.  When it is stuck each holds
\* another place in the chain of an outermost task, and that one waits too.
LEMMA StuckFillsChains ==
  ASSUME Shape, Apart, Staffed, Chained, Stuck, ~stopping
  PROVE  Cardinality(Worker) <= Cardinality(WaitingRoots) * (Depth - 1)
<1>0. PoolTypes
  BY ShapeTypes
<1>1. \A w \in Worker : Blocked(w)
  BY DEF Staffed, stopping, Stuck
<1>2. PICK root \in [Task -> Task] : ChainsBy(root, level, task, child)
  BY DEF Chained
<1> DEFINE place == [w \in Worker |-> <<root[holds[w]], level[holds[w]]>>]
           Places == WaitingRoots \X (1 .. Depth - 1)
<1>3. \A w \in Worker :
        /\ holds[w] \in Task /\ task[holds[w]] = "waiting" /\ Open(holds[w], level, task)
        /\ root[holds[w]] \in WaitingRoots /\ level[holds[w]] \in 1 .. Depth - 1
  <2> TAKE w \in Worker
  <2>1. holds[w] \in Task /\ task[holds[w]] = "waiting" /\ worker[w] = "running"
    BY <1>0, <1>1 DEF Blocked, PoolTypes, Held
  <2>2. level[holds[w]] >= 1 /\ level[holds[w]] \in Nat
    BY <1>0, <2>1 DEF Chained, Levels, PoolTypes
  <2>3. Open(holds[w], level, task)
    BY <2>1, <2>2 DEF Open
  <2>4. root[holds[w]] \in WaitingRoots
    <3>1. PICK r \in Task : r = root[holds[w]]
      BY <2>1
    <3>2. level[r] = 1 /\ Open(r, level, task)
      BY <1>2, <2>1, <2>3, <3>1 DEF ChainsBy
    <3>3. root[r] = r
      BY <1>2, <3>2 DEF ChainsBy
    <3>4. CASE r = holds[w]
      BY <2>1, <3>1, <3>2, <3>4 DEF WaitingRoots
    <3>5. CASE r # holds[w]
      <4>1. level[r] # level[holds[w]] /\ (level[r] < level[holds[w]] => task[r] = "waiting")
        BY <1>2, <2>1, <2>3, <3>1, <3>2, <3>3, <3>5 DEF ChainsBy
      <4>2. task[r] = "waiting"
        BY <2>2, <3>2, <4>1
      <4> QED BY <3>1, <3>2, <4>2 DEF WaitingRoots
    <3> QED BY <3>4, <3>5
  <2>5. child[holds[w]] \in Task /\ level[child[holds[w]]] = level[holds[w]] + 1
    BY <1>2, <2>1, <2>2 DEF ChainsBy
  <2>6. level[child[holds[w]]] \in 0 .. Depth
    BY <1>0, <2>5 DEF PoolTypes
  <2>7. level[holds[w]] \in 1 .. Depth - 1
    BY <1>0, <2>2, <2>5, <2>6 DEF PoolTypes
  <2> QED BY <2>1, <2>3, <2>4, <2>7
<1>4. place \in [Worker -> Places]
  BY <1>3
<1>5. \A v, w \in Worker : place[v] = place[w] => v = w
  <2> SUFFICES ASSUME NEW v \in Worker, NEW w \in Worker, place[v] = place[w], v # w PROVE FALSE
    OBVIOUS
  <2>1. root[holds[v]] = root[holds[w]] /\ level[holds[v]] = level[holds[w]]
    OBVIOUS
  <2>2. holds[v] # holds[w]
    BY <1>1 DEF Apart, Blocked
  <2> QED BY <1>2, <1>3, <2>1, <2>2 DEF ChainsBy
<1>6. place \in Injection(Worker, Places)
  <2> HIDE DEF place, Places
  <2> QED BY <1>4, <1>5 DEF Injection, IsInjective
<1>7. /\ IsFiniteSet(WaitingRoots) /\ Cardinality(WaitingRoots) \in Nat
      /\ IsFiniteSet(1 .. Depth - 1) /\ Cardinality(1 .. Depth - 1) = Depth - 1
  <2>1. IsFiniteSet(Task)
    BY <1>0, FS_Interval DEF Task, PoolTypes
  <2>2. WaitingRoots \in SUBSET Task
    BY DEF WaitingRoots
  <2>3. IsFiniteSet(1 .. Depth - 1) /\ Cardinality(1 .. Depth - 1) = Depth - 1
    BY <1>0, FS_Interval DEF PoolTypes
  <2> QED BY <2>1, <2>2, <2>3, FS_Subset, FS_CardinalityType
<1>8. IsFiniteSet(Places) /\ Cardinality(Places) = Cardinality(WaitingRoots) * (Depth - 1)
  BY <1>7, FS_Product
<1>9. Cardinality(Worker) <= Cardinality(Places)
  <2> HIDE DEF place, Places
  <2> QED BY <1>6, <1>8, FS_Injection
<1> HIDE DEF Places
<1> QED BY <1>8, <1>9

(***************************************************************************)
(* For any number of workers, tasks and levels: when every worker of a     *)
(* running pool waits for a task that nobody is left to take, at least     *)
(* |Worker| / (Depth - 1) different outermost tasks wait                   *)
(* (agent_operation.cpp:460, WorkerLoop).                                  *)
(***************************************************************************)
THEOREM OnlyManyRootsStick == Spec => []StuckNeedsManyRoots
<1>1. Drains /\ Apart /\ Chained => StuckNeedsManyRoots
  BY StuckFillsChains DEF StuckNeedsManyRoots, Drains
<1> QED BY <1>1, DrainsHold, RunOnceHolds, ChainsHold, PTL
=============================================================================
