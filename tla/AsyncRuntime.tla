---------------------------- MODULE AsyncRuntime ----------------------------
(***************************************************************************)
(* The worker pool and the main queue (src/core/platform/async.cpp) behind *)
(* AsyncJobDispatcher.                                                     *)
(*                                                                         *)
(* Workers share one FIFO queue under one mutex and sleep on a condition   *)
(* variable.  PostWorker enqueues under the lock and calls notify_one      *)
(* after it; Stop sets the flag under the lock, then calls notify_all,     *)
(* then joins the workers, which drain the queue before they return.       *)
(*                                                                         *)
(* Tasks may post a task and block on its future before they go on, as an  *)
(* agent session does with an operation (AgentOperationService::Execute)   *)
(* and an operation with a build (BuildService::Run): the worker is taken  *)
(* while it waits.                                                         *)
(***************************************************************************)
EXTENDS Naturals, Sequences, FiniteSets

CONSTANTS
  Worker,   \* the threads of the pool
  MaxTasks, \* bound: how many tasks are posted
  Depth     \* how deep tasks nest: 1 when none waits for another

ASSUME PoolAssumption ==
  /\ IsFiniteSet(Worker) /\ Worker # {}
  /\ MaxTasks \in Nat /\ Depth \in Nat \ {0}

Task == 1 .. MaxTasks

VARIABLES
  workerQueue,   \* worker_queue_
  mainQueue,     \* main_queue_
  main,          \* the main thread: "away", or "draining" inside DrainMain
  stop,          \* the thread that calls Stop and Start: its position in them
  notifications, \* calls of notify_one that follow a push but have not run
  worker,        \* position of each worker in WorkerLoop
  holds,         \* the task a worker runs, 0 when it runs none
  nextTask,      \* identifier of the next task
  task,          \* what became of each task
  level,         \* nesting depth of each task
  child,         \* the task it waits for
  late           \* history: root tasks posted once Stop was called, and tasks
                 \* of the main queue

queues == <<workerQueue, mainQueue, main>>
pool == <<notifications, worker, holds>>
tasks == <<nextTask, task, level, child, late>>
vars == <<queues, stop, pool, tasks>>

\* stopping_ is set by Stop and cleared by Start.
stopping == stop # "open"

Ready == {w \in Worker : worker[w] = "ready"}
Asleep == {w \in Worker : worker[w] = "asleep"}
WaitingRoots == {t \in Task : level[t] = 1 /\ task[t] = "waiting"}

Init ==
  /\ workerQueue = <<>> /\ mainQueue = <<>> /\ main = "away"
  /\ stop = "open"
  /\ notifications = 0
  /\ worker = [w \in Worker |-> "ready"]
  /\ holds = [w \in Worker |-> 0]
  /\ nextTask = 1
  /\ task = [t \in Task |-> "unposted"]
  /\ level = [t \in Task |-> 0]
  /\ child = [t \in Task |-> 0]
  /\ late = {}

-----------------------------------------------------------------------------
(* Posting.                                                                *)

\* The push of PostWorker, under the lock; notify_one is still to come.
Push(lvl) ==
  /\ nextTask <= MaxTasks
  /\ workerQueue' = Append(workerQueue, nextTask)
  /\ notifications' = notifications + 1
  /\ level' = [level EXCEPT ![nextTask] = lvl]
  /\ nextTask' = nextTask + 1

\* A thread outside the pool posts a task, whether the pool still runs or not.
PostWorker ==
  /\ Push(1)
  /\ task' = [task EXCEPT ![nextTask] = "queued"]
  /\ late' = IF stopping THEN late \cup {nextTask} ELSE late
  /\ UNCHANGED <<mainQueue, main, stop, worker, holds, child>>

\* Mutant: the notification is sent before the push and meets no sleeper.
NotifyEarly ==
  /\ notifications > 0
  /\ notifications' = notifications - 1
  /\ UNCHANGED <<queues, stop, worker, holds, tasks>>
\* notify_one: some sleeping worker, if there is one, looks at the queue again.
NotifyOne ==
  /\ notifications > 0
  /\ notifications' = notifications - 1
  /\ \/ Asleep = {} /\ UNCHANGED worker
     \/ \E w \in Asleep : worker' = [worker EXCEPT ![w] = "ready"]
  /\ UNCHANGED <<queues, stop, holds, tasks>>

PostMain ==
  /\ nextTask <= MaxTasks
  /\ mainQueue' = Append(mainQueue, nextTask)
  /\ task' = [task EXCEPT ![nextTask] = "queued"]
  /\ nextTask' = nextTask + 1
  /\ late' = late \cup {nextTask}
  /\ UNCHANGED <<workerQueue, main, stop, pool, level, child>>

\* DrainMain takes and runs one task after the other until the queue is empty.
DrainMain ==
  /\ main = "away"
  /\ main' = "draining"
  /\ UNCHANGED <<workerQueue, mainQueue, stop, pool, tasks>>

RunMain ==
  /\ main = "draining" /\ mainQueue # <<>>
  /\ task' = [task EXCEPT ![Head(mainQueue)] = "finished"]
  /\ mainQueue' = Tail(mainQueue)
  /\ UNCHANGED <<workerQueue, main, stop, pool, nextTask, level, child, late>>

MainDrained ==
  /\ main = "draining" /\ mainQueue = <<>>
  /\ main' = "away"
  /\ UNCHANGED <<workerQueue, mainQueue, stop, pool, tasks>>

-----------------------------------------------------------------------------
(* WorkerLoop.                                                             *)

\* Mutant: the task is copied from the front of the queue and not popped.
TakeWithoutPop(w) ==
  /\ worker[w] = "ready" /\ workerQueue # <<>>
  /\ worker' = [worker EXCEPT ![w] = "running"]
  /\ holds' = [holds EXCEPT ![w] = Head(workerQueue)]
  /\ task' = [task EXCEPT ![Head(workerQueue)] = "running"]
  /\ UNCHANGED <<queues, stop, notifications, nextTask, level, child, late>>
TakeTask(w) ==
  /\ worker[w] = "ready" /\ workerQueue # <<>>
  /\ worker' = [worker EXCEPT ![w] = "running"]
  /\ holds' = [holds EXCEPT ![w] = Head(workerQueue)]
  /\ task' = [task EXCEPT ![Head(workerQueue)] = "running"]
  /\ workerQueue' = Tail(workerQueue)
  /\ UNCHANGED <<mainQueue, main, stop, notifications, nextTask, level, child, late>>

Sleep(w) ==
  /\ worker[w] = "ready" /\ workerQueue = <<>> /\ ~stopping
  /\ worker' = [worker EXCEPT ![w] = "asleep"]
  /\ UNCHANGED <<queues, stop, notifications, holds, tasks>>

\* A condition variable may wake without a notification.
WakeSpuriously(w) ==
  /\ worker[w] = "asleep"
  /\ worker' = [worker EXCEPT ![w] = "ready"]
  /\ UNCHANGED <<queues, stop, notifications, holds, tasks>>

\* Mutant: a worker leaves as soon as it sees the flag.
LeaveAtOnce(w) ==
  /\ worker[w] = "ready" /\ stopping
  /\ worker' = [worker EXCEPT ![w] = "gone"]
  /\ UNCHANGED <<queues, stop, notifications, holds, tasks>>
\* Mutant: a worker leaves whenever the queue is empty.
LeaveWhenEmpty(w) ==
  /\ worker[w] = "ready" /\ workerQueue = <<>>
  /\ worker' = [worker EXCEPT ![w] = "gone"]
  /\ UNCHANGED <<queues, stop, notifications, holds, tasks>>
Leave(w) ==
  /\ worker[w] = "ready" /\ workerQueue = <<>> /\ stopping
  /\ worker' = [worker EXCEPT ![w] = "gone"]
  /\ UNCHANGED <<queues, stop, notifications, holds, tasks>>

\* A task posts a task of its own and blocks on its future.
PostAndWait(w) ==
  /\ worker[w] = "running" /\ task[holds[w]] = "running"
  /\ level[holds[w]] < Depth
  /\ Push(level[holds[w]] + 1)
  /\ task' = [task EXCEPT ![holds[w]] = "waiting", ![nextTask] = "queued"]
  /\ child' = [child EXCEPT ![holds[w]] = nextTask]
  /\ UNCHANGED <<mainQueue, main, stop, worker, holds, late>>

Resume(w) ==
  /\ worker[w] = "running" /\ task[holds[w]] = "waiting"
  /\ task[child[holds[w]]] = "finished"
  /\ task' = [task EXCEPT ![holds[w]] = "running"]
  /\ child' = [child EXCEPT ![holds[w]] = 0]
  /\ UNCHANGED <<queues, stop, pool, nextTask, level, late>>

\* The task returns and the worker goes round its loop.
FinishTask(w) ==
  /\ worker[w] = "running" /\ task[holds[w]] = "running"
  /\ task' = [task EXCEPT ![holds[w]] = "finished"]
  /\ worker' = [worker EXCEPT ![w] = "ready"]
  /\ holds' = [holds EXCEPT ![w] = 0]
  /\ UNCHANGED <<queues, stop, notifications, nextTask, level, child, late>>

-----------------------------------------------------------------------------
(* Stop and Start, called by the thread that owns the runtime.             *)

Stop ==
  /\ stop = "open"
  /\ stop' = "flagged"
  /\ UNCHANGED <<queues, pool, tasks>>

\* Mutant: notify_one for notify_all.
NotifyStopOne ==
  /\ stop = "flagged"
  /\ stop' = "joining"
  /\ \/ Asleep = {} /\ UNCHANGED worker
     \/ \E w \in Asleep : worker' = [worker EXCEPT ![w] = "ready"]
  /\ UNCHANGED <<queues, notifications, holds, tasks>>
NotifyAll ==
  /\ stop = "flagged"
  /\ stop' = "joining"
  /\ worker' = [w \in Worker |-> IF worker[w] = "asleep" THEN "ready" ELSE worker[w]]
  /\ UNCHANGED <<queues, notifications, holds, tasks>>

Join ==
  /\ stop = "joining"
  /\ \A w \in Worker : worker[w] = "gone"
  /\ stop' = "stopped"
  /\ UNCHANGED <<queues, pool, tasks>>

\* Start is refused while there are workers.
Start ==
  /\ stop = "stopped"
  /\ stop' = "open"
  /\ worker' = [w \in Worker |-> "ready"]
  /\ UNCHANGED <<queues, notifications, holds, tasks>>

-----------------------------------------------------------------------------
Loop(w) ==
  \/ TakeTask(w)
  \/ Sleep(w)
  \/ Leave(w)

Body(w) ==
  \/ PostAndWait(w)
  \/ Resume(w)
  \/ FinishTask(w)

Next ==
  \/ PostWorker
  \/ NotifyOne
  \/ PostMain
  \/ DrainMain
  \/ RunMain
  \/ MainDrained
  \/ \E w \in Worker : Loop(w) \/ Body(w) \/ WakeSpuriously(w)
  \/ Stop
  \/ NotifyAll
  \/ Join
  \/ Start

Spec == Init /\ [][Next]_vars

\* Threads run on: a worker that can take a task, sleep or leave does, a task
\* that is not blocked ends, the notifications and the join that follow happen.
Fairness ==
  /\ \A w \in Worker : WF_vars(Loop(w)) /\ WF_vars(Resume(w) \/ FinishTask(w))
  /\ WF_vars(NotifyOne) /\ WF_vars(NotifyAll) /\ WF_vars(Join)

FairSpec == Spec /\ Fairness

-----------------------------------------------------------------------------
(* What the pool promises.                                                 *)

\* Every variable keeps the shape of the C++ member it stands for.
TypeOK ==
  /\ workerQueue \in Seq(Task) /\ mainQueue \in Seq(Task)
  /\ main \in {"away", "draining"}
  /\ stop \in {"open", "flagged", "joining", "stopped"}
  /\ notifications \in Nat
  /\ worker \in [Worker -> {"ready", "asleep", "running", "gone"}]
  /\ holds \in [Worker -> Task \cup {0}]
  /\ nextTask \in 1 .. MaxTasks + 1
  /\ task \in [Task -> {"unposted", "queued", "running", "waiting", "finished"}]
  /\ level \in [Task -> 0 .. Depth]
  /\ child \in [Task -> Task \cup {0}]
  /\ late \subseteq Task

\* No worker sleeps through a task: while one sleeps, every queued task has a
\* worker about to look at the queue or a notification about to wake one,
\* although notify_one runs after the lock was released.
NoSleepThroughTask ==
  Asleep # {} => Len(workerQueue) <= notifications + Cardinality(Ready)

\* Stop returns only when every task posted before it was called, and every
\* task such a task posted, has run.
StopDrains ==
  stop = "stopped" =>
    \A t \in Task \ late : task[t] \in {"unposted", "finished"}

\* What the pool keeps in every state: a task that waits has somebody to take
\* it, and none is left when Stop returns (WorkerLoop, PostWorker, Stop).
PoolConsistent == TypeOK /\ NoSleepThroughTask /\ StopDrains

\* A worker that waits for a task which has not ended.
Blocked(w) ==
  /\ worker[w] = "running" /\ task[holds[w]] = "waiting"
  /\ task[child[holds[w]]] # "finished"

\* Only such workers are left: nobody takes what they wait for.
Stuck ==
  /\ \E w \in Worker : Blocked(w)
  /\ \A w \in Worker : worker[w] = "gone" \/ Blocked(w)

(***************************************************************************)
(* A pool that is not being stopped gets stuck only when enough tasks wait *)
(* at the outermost level (agent sessions, each with an operation inside,  *)
(* and perhaps a build in that) for those above the innermost of each to   *)
(* occupy every worker; with fewer there is always a worker to go on       *)
(* (agent_operation.cpp:460, WorkerLoop).                                  *)
(***************************************************************************)
StuckNeedsManyRoots ==
  ~stopping /\ Stuck => Cardinality(Worker) <= Cardinality(WaitingRoots) * (Depth - 1)

\* Stop returns, or the pool was stuck, or gets stuck because workers leave as
\* soon as the flag is set and the queue is empty, although a task that still
\* runs may post another and wait for it (WorkerLoop).
StopReturns == stop = "flagged" ~> stop = "stopped" \/ Stuck

\* A task posted before Stop, or by such a task, ends unless the pool is stuck.
PromisedTasksEnd ==
  \A t \in Task : task[t] # "unposted" /\ t \notin late ~> task[t] = "finished" \/ Stuck

\* The pool is a task dispatcher: each task is run once, by one thread, after it
\* was posted, and never twice although workers and the main thread compete.
Contract == INSTANCE TaskContract WITH
  posted <- {t \in Task : task[t] # "unposted"},
  started <- {t \in Task : task[t] \in {"running", "waiting", "finished"}},
  finished <- {t \in Task : task[t] = "finished"}

KeepsContract == Contract!Spec

-----------------------------------------------------------------------------
(* What does not hold.                                                     *)

\* Whatever is posted and however tasks wait, a pool that is not being stopped
\* goes on, and Stop returns.
NeverStuck == ~stopping => ~Stuck
StopAlwaysReturns == stop = "flagged" ~> stop = "stopped"
=============================================================================
