----------------------------- MODULE JobService -----------------------------
(***************************************************************************)
(* The job table of the kernel (src/core/execution/job_service.cpp).       *)
(*                                                                         *)
(* Every public method of JobService takes the table's mutex for itself,   *)
(* so each critical section is one action here and the threads that use    *)
(* the service interleave between them: the thread that created a job, the *)
(* worker that runs its function, the threads that cancel or terminate     *)
(* jobs, and the threads that wait for one.  A dispatched task is not one  *)
(* step: the readiness reads, MarkRunning, the function, the test for a    *)
(* terminal status, the test for a cancellation request, the status update,*)
(* notify_all and the removal of the cancel handler each release the mutex *)
(* before the next begins.                                                 *)
(*                                                                         *)
(* Titles, messages, progress, output and payloads carry no control and    *)
(* are left out, as is Publish (the event relay); notifications by updates *)
(* that leave the status non-terminal are left out too: they only make a   *)
(* waiter test its predicate once more.                                    *)
(***************************************************************************)
EXTENDS Naturals, FiniteSets

CONSTANTS
  MaxJobs,      \* bound: how many jobs are created
  Callers,      \* threads that call RequestCancel(All) and Terminate(All)
  Waiters,      \* threads that call Wait
  TimedWaiters  \* those of them that pass a timeout

ASSUME JobAssumption ==
  /\ MaxJobs \in Nat
  /\ TimedWaiters \subseteq Waiters

JobId == 1 .. MaxJobs

Terminal == {"Succeeded", "Failed", "Cancelled"}

\* "Missing" stands for an identifier jobs_ holds no record of.
JobStatus == {"Missing", "Pending", "Running"} \cup Terminal

\* Where the thread that owns a job stands: its creator until the job is
\* dispatched or driven directly, then whoever runs the task.
Step == {"none", "created", "queued", "checking", "body", "direct", "returned",
         "open", "thrown", "settle", "notify", "erase", "done"}

VARIABLES
  status,          \* JobRecord::status, "Missing" when there is no record
  cancellable,     \* JobRecord::cancellable
  cancelRequested, \* JobRecord::cancellation_requested
  dependencies,    \* JobRecord::dependencies
  cancelHandlers,  \* the keys of cancel_handlers_
  nextJobId,       \* next_job_id_
  step,            \* the owner's position in the code
  unread,          \* dependencies Ready has not read yet
  outcome,         \* the status the owner is about to write
  inner,           \* TRUE while the function itself finishes its own job
  setting,         \* SetCancelHandler is between its two critical sections
  op, todo, at,    \* the callers: method, jobs left to visit, position
  wait, waitFor,   \* the waiters: position in Wait, and the job
  cancelAtReturn   \* history: a cancellation was requested when the function
                   \* returned

record == <<status, cancellable, cancelRequested, dependencies>>
owner == <<step, unread, outcome, inner, setting, cancelAtReturn>>
calls == <<op, todo, at>>
waits == <<wait, waitFor>>
vars == <<record, cancelHandlers, nextJobId, owner, calls, waits>>

-----------------------------------------------------------------------------
IsTerminalStatus(s) == s \in Terminal

Exists(id) == status[id] # "Missing"

\* Update with a function that assigns the status; a missing record is left
\* alone.
UpdatedStatus(id, s) ==
  IF Exists(id) THEN [status EXCEPT ![id] = s] ELSE status

\* The public IsTerminal: a missing job counts as terminal.
IsTerminal(id) == ~Exists(id) \/ IsTerminalStatus(status[id])

CancellationRequested(id) == Exists(id) /\ cancelRequested[id]

\* How a cancellation request decides between Cancel and Complete.
\* Mutant: the request is ignored.
DecidedByResult(id, result) == result
Decided(id, result) == IF CancellationRequested(id) THEN "Cancelled" ELSE result

\* What Ready asks of a dependency.  Mutant: that it ended, no matter how.
DependencyEnded(id) == IsTerminal(id)
DependencyMet(id) == status[id] = "Succeeded"

\* SetCancelHandler's early return.  Mutant: it only looks for the record.
AcceptsHandlerAlways(id) == Exists(id)
AcceptsHandler(id) == ~IsTerminal(id)

\* Where the task goes once its function has returned or thrown.  Mutant: the
\* job is completed without looking at its status.
AfterFunctionUnchecked(id) == IF step[id] = "returned" THEN "open" ELSE "settle"
AfterFunction(id) ==
  IF IsTerminal(id) THEN "done" ELSE AfterFunctionUnchecked(id)

\* changed_.notify_all(): every sleeping waiter must evaluate its predicate
\* again.  Mutant: notify_one.
WokenOne ==
  IF \E w \in Waiters : wait[w] = "asleep"
    THEN [wait EXCEPT ![CHOOSE w \in Waiters : wait[w] = "asleep"] = "woken"]
    ELSE wait
Woken == [w \in Waiters |-> IF wait[w] = "asleep" THEN "woken" ELSE wait[w]]

\* Callers visit the jobs of their snapshot in the order of the std::map.
Visits(c, id) == id \in todo[c] /\ \A other \in todo[c] : id <= other

-----------------------------------------------------------------------------
Init ==
  /\ status = [id \in JobId |-> "Missing"]
  /\ cancellable = [id \in JobId |-> FALSE]
  /\ cancelRequested = [id \in JobId |-> FALSE]
  /\ dependencies = [id \in JobId |-> {}]
  /\ cancelHandlers = {}
  /\ nextJobId = 1
  /\ step = [id \in JobId |-> "none"]
  /\ unread = [id \in JobId |-> {}]
  /\ outcome = [id \in JobId |-> "Failed"]
  /\ inner = [id \in JobId |-> FALSE]
  /\ setting = [id \in JobId |-> "none"]
  /\ cancelAtReturn = [id \in JobId |-> FALSE]
  /\ op = [c \in Callers |-> "cancel"]
  /\ todo = [c \in Callers |-> {}]
  /\ at = [c \in Callers |-> "next"]
  /\ wait = [w \in Waiters |-> "idle"]
  /\ waitFor = [w \in Waiters |-> 0]

-----------------------------------------------------------------------------
(* The creator.                                                            *)

\* Create: dependencies are job identifiers the creator learnt earlier.
Create ==
  /\ nextJobId <= MaxJobs
  /\ \E deps \in SUBSET (1 .. nextJobId - 1) :
       dependencies' = [dependencies EXCEPT ![nextJobId] = deps]
  /\ status' = [status EXCEPT ![nextJobId] = "Pending"]
  /\ step' = [step EXCEPT ![nextJobId] = "created"]
  /\ nextJobId' = nextJobId + 1
  /\ UNCHANGED <<cancellable, cancelRequested, cancelHandlers, unread, outcome,
                 inner, setting, cancelAtReturn, calls, waits>>

\* MarkRunning, called by Start right after Create, and by a build function
\* whenever one of its steps starts.  It overwrites any status.
MarkRunning(id) ==
  /\ step[id] \in {"created", "body"}
  /\ status' = UpdatedStatus(id, "Running")
  /\ UNCHANGED <<cancellable, cancelRequested, dependencies, cancelHandlers,
                 nextJobId, owner, calls, waits>>

\* SetCancellable, by Submit before the dispatch or by a build's creator at
\* any time after it.
SetCancellable(id, allowed) ==
  /\ step[id] # "none" /\ Exists(id)
  /\ cancellable' = [cancellable EXCEPT ![id] = allowed]
  /\ UNCHANGED <<status, cancelRequested, dependencies, cancelHandlers,
                 nextJobId, owner, calls, waits>>

\* SetCancelHandler, first critical section: refused for a missing or
\* terminal job, otherwise the handler is stored or removed.
SetCancelHandler(id, given) ==
  /\ step[id] \in {"created", "body"} /\ setting[id] = "none"
  /\ AcceptsHandler(id)
  /\ cancelHandlers' =
       IF given THEN cancelHandlers \cup {id} ELSE cancelHandlers \ {id}
  /\ setting' = [setting EXCEPT ![id] = IF given THEN "on" ELSE "off"]
  /\ UNCHANGED <<record, nextJobId, step, unread, outcome, inner, cancelAtReturn,
                 calls, waits>>

\* SetCancelHandler, second critical section: SetCancellable(id, has_handler).
FinishSetCancelHandler(id) ==
  /\ setting[id] # "none"
  /\ cancellable' = [cancellable EXCEPT
                       ![id] = IF Exists(id) THEN setting[id] = "on" ELSE @]
  /\ setting' = [setting EXCEPT ![id] = "none"]
  /\ UNCHANGED <<status, cancelRequested, dependencies, cancelHandlers,
                 nextJobId, step, unread, outcome, inner, cancelAtReturn, calls,
                 waits>>

\* Submit: nothing is dispatched for a record that is gone.
Submit(id) ==
  /\ step[id] = "created" /\ setting[id] = "none"
  /\ step' = [step EXCEPT ![id] = IF Exists(id) THEN "queued" ELSE "done"]
  /\ UNCHANGED <<record, cancelHandlers, nextJobId, unread, outcome, inner,
                 setting, cancelAtReturn, calls, waits>>

\* A creator that does the work on its own thread and then calls Complete,
\* the way WorkspaceRuntime drives its open, initialize and refresh jobs.
WorkDirectly(id) ==
  /\ step[id] = "created" /\ setting[id] = "none"
  /\ step' = [step EXCEPT ![id] = "direct"]
  /\ UNCHANGED <<record, cancelHandlers, nextJobId, unread, outcome, inner,
                 setting, cancelAtReturn, calls, waits>>

FinishDirectly(id, result) ==
  /\ step[id] = "direct"
  /\ outcome' = [outcome EXCEPT ![id] = result]
  /\ step' = [step EXCEPT ![id] = "settle"]
  /\ UNCHANGED <<record, cancelHandlers, nextJobId, unread, inner, setting,
                 cancelAtReturn, calls, waits>>

-----------------------------------------------------------------------------
(* The dispatched task.                                                    *)

\* Ready reads the job's own record first: without one the task completes a
\* missing job, which changes nothing.
StartTask(id) ==
  /\ step[id] = "queued"
  /\ IF Exists(id)
       THEN /\ step' = [step EXCEPT ![id] = "checking"]
            /\ unread' = [unread EXCEPT ![id] = dependencies[id]]
            /\ UNCHANGED outcome
       ELSE /\ step' = [step EXCEPT ![id] = "settle"]
            /\ outcome' = [outcome EXCEPT ![id] = "Failed"]
            /\ UNCHANGED unread
  /\ UNCHANGED <<record, cancelHandlers, nextJobId, inner, setting, cancelAtReturn,
                 calls, waits>>

\* Ready reads the dependencies one by one, each under its own lock.
CheckDependency(id) ==
  /\ step[id] = "checking"
  /\ \E dependency \in unread[id] :
       IF DependencyMet(dependency)
         THEN /\ unread' = [unread EXCEPT ![id] = @ \ {dependency}]
              /\ UNCHANGED <<step, outcome>>
         ELSE /\ outcome' = [outcome EXCEPT ![id] = "Failed"]
              /\ step' = [step EXCEPT ![id] = "settle"]
              /\ UNCHANGED unread
  /\ UNCHANGED <<record, cancelHandlers, nextJobId, inner, setting, cancelAtReturn,
                 calls, waits>>

\* Ready returned true: MarkRunning, whatever the status has become, and the
\* function is entered.
RunFunction(id) ==
  /\ step[id] = "checking" /\ unread[id] = {}
  /\ status' = UpdatedStatus(id, "Running")
  /\ step' = [step EXCEPT ![id] = "body"]
  /\ UNCHANGED <<cancellable, cancelRequested, dependencies, cancelHandlers,
                 nextJobId, unread, outcome, inner, setting, cancelAtReturn, calls,
                 waits>>

\* The function finishes its own job, as a build does when it emits a Finished
\* event (ApplyExecutionEventToJob): a cancellation request decides between
\* Cancel and Complete.
FinishedEvent(id, result) ==
  /\ step[id] = "body" /\ setting[id] = "none"
  /\ outcome' = [outcome EXCEPT ![id] = Decided(id, result)]
  /\ inner' = [inner EXCEPT ![id] = TRUE]
  /\ step' = [step EXCEPT ![id] = "settle"]
  /\ UNCHANGED <<record, cancelHandlers, nextJobId, unread, setting, cancelAtReturn,
                 calls, waits>>

\* The function returns a JobResult (SetPayload follows; it leaves the status
\* alone).
Return(id, result) ==
  /\ step[id] = "body" /\ setting[id] = "none"
  /\ outcome' = [outcome EXCEPT ![id] = result]
  /\ step' = [step EXCEPT ![id] = "returned"]
  /\ cancelAtReturn' = [cancelAtReturn EXCEPT ![id] = CancellationRequested(id)]
  /\ UNCHANGED <<record, cancelHandlers, nextJobId, unread, inner, setting,
                 calls, waits>>

\* The function leaves with an exception.
Throw(id) ==
  /\ step[id] = "body" /\ setting[id] = "none"
  /\ outcome' = [outcome EXCEPT ![id] = "Failed"]
  /\ step' = [step EXCEPT ![id] = "thrown"]
  /\ UNCHANGED <<record, cancelHandlers, nextJobId, unread, inner, setting,
                 cancelAtReturn, calls, waits>>

\* if (!IsTerminal(id)) after a return, and in both catch clauses.
CheckTerminal(id) ==
  /\ step[id] \in {"returned", "thrown"}
  /\ step' = [step EXCEPT ![id] = AfterFunction(id)]
  /\ UNCHANGED <<record, cancelHandlers, nextJobId, unread, outcome, inner,
                 setting, cancelAtReturn, calls, waits>>

\* if (CancellationRequested(id)) Cancel(id) else Complete(id, success).
CheckCancellation(id) ==
  /\ step[id] = "open"
  /\ outcome' = [outcome EXCEPT ![id] = Decided(id, outcome[id])]
  /\ step' = [step EXCEPT ![id] = "settle"]
  /\ UNCHANGED <<record, cancelHandlers, nextJobId, unread, inner, setting,
                 cancelAtReturn, calls, waits>>

\* Complete and Cancel: the update of the status, with no test of what it was.
Settle(id) ==
  /\ step[id] = "settle"
  /\ status' = UpdatedStatus(id, outcome[id])
  /\ step' = [step EXCEPT ![id] = IF Exists(id) THEN "notify" ELSE "erase"]
  /\ UNCHANGED <<cancellable, cancelRequested, dependencies, cancelHandlers,
                 nextJobId, unread, outcome, inner, setting, cancelAtReturn, calls,
                 waits>>

\* notify_all of Update, outside the lock.
Notify(id) ==
  /\ step[id] = "notify"
  /\ wait' = Woken
  /\ step' = [step EXCEPT ![id] = "erase"]
  /\ UNCHANGED <<record, cancelHandlers, nextJobId, unread, outcome, inner,
                 setting, cancelAtReturn, calls, waitFor>>

\* The second critical section of Complete and Cancel.
EraseHandler(id) ==
  /\ step[id] = "erase"
  /\ cancelHandlers' = cancelHandlers \ {id}
  /\ step' = [step EXCEPT ![id] = IF inner[id] THEN "returned" ELSE "done"]
  /\ inner' = [inner EXCEPT ![id] = FALSE]
  /\ outcome' = [outcome EXCEPT ![id] = "Failed"]
  /\ UNCHANGED <<record, nextJobId, unread, setting, cancelAtReturn, calls, waits>>

-----------------------------------------------------------------------------
(* The threads that cancel, terminate, clear and wait.                     *)

\* A call on one job, or on every job that Jobs() shows as not terminal.
Call(c, method) ==
  /\ todo[c] = {}
  /\ \E ids \in {{id} : id \in JobId} \cup {{id \in JobId : ~IsTerminal(id)}} :
       todo' = [todo EXCEPT ![c] = ids]
  /\ op' = [op EXCEPT ![c] = method]
  /\ UNCHANGED <<record, cancelHandlers, nextJobId, owner, at, waits>>

\* The early returns of RequestCancel and Terminate: a missing or terminal job,
\* for RequestCancel also one that is not cancellable.
Refused(c) ==
  /\ at[c] = "next"
  /\ \E id \in JobId :
       /\ Visits(c, id)
       /\ IsTerminal(id) \/ (op[c] = "cancel" /\ ~cancellable[id])
       /\ todo' = [todo EXCEPT ![c] = @ \ {id}]
  /\ UNCHANGED <<record, cancelHandlers, nextJobId, owner, op, at, waits>>

\* RequestCancel: the request is recorded and the handler copied, to run once
\* the mutex is released.
RequestCancel(c) ==
  /\ op[c] = "cancel" /\ at[c] = "next"
  /\ \E id \in JobId :
       /\ Visits(c, id) /\ ~IsTerminal(id) /\ cancellable[id]
       /\ cancelRequested' = [cancelRequested EXCEPT ![id] = TRUE]
       /\ IF id \in cancelHandlers
            THEN at' = [at EXCEPT ![c] = "handler"] /\ UNCHANGED todo
            ELSE todo' = [todo EXCEPT ![c] = @ \ {id}] /\ UNCHANGED at
  /\ UNCHANGED <<status, cancellable, dependencies, cancelHandlers, nextJobId,
                 owner, op, waits>>

\* Terminate: the job is Cancelled at once and its handler is taken
\* out of the table in the same critical section, to run outside it before
\* notify_all.
Terminate(c) ==
  /\ op[c] = "terminate" /\ at[c] = "next"
  /\ \E id \in JobId :
       /\ Visits(c, id) /\ ~IsTerminal(id)
       /\ cancelRequested' = [cancelRequested EXCEPT ![id] = TRUE]
       /\ status' = [status EXCEPT ![id] = "Cancelled"]
       /\ cancelHandlers' = cancelHandlers \ {id}
       /\ at' = [at EXCEPT
                   ![c] = IF id \in cancelHandlers THEN "handler" ELSE "notify"]
  /\ UNCHANGED <<cancellable, dependencies, nextJobId, owner, op, todo, waits>>

\* The cancel handler runs on the caller's thread, outside the mutex.
RunHandler(c) ==
  /\ at[c] = "handler"
  /\ \E id \in JobId :
       /\ Visits(c, id)
       /\ IF op[c] = "terminate"
            THEN at' = [at EXCEPT ![c] = "notify"] /\ UNCHANGED todo
            ELSE /\ at' = [at EXCEPT ![c] = "next"]
                 /\ todo' = [todo EXCEPT ![c] = @ \ {id}]
  /\ UNCHANGED <<record, cancelHandlers, nextJobId, owner, op, waits>>

\* notify_all at the end of Terminate.
NotifyTerminated(c) ==
  /\ at[c] = "notify"
  /\ \E id \in JobId :
       /\ Visits(c, id)
       /\ todo' = [todo EXCEPT ![c] = @ \ {id}]
  /\ at' = [at EXCEPT ![c] = "next"]
  /\ wait' = Woken
  /\ UNCHANGED <<record, cancelHandlers, nextJobId, owner, op, waitFor>>

\* Clear drops every record and handler; notify_all is called under the lock.
Clear ==
  /\ \E id \in JobId : Exists(id)
  /\ status' = [id \in JobId |-> "Missing"]
  /\ cancellable' = [id \in JobId |-> FALSE]
  /\ cancelRequested' = [id \in JobId |-> FALSE]
  /\ dependencies' = [id \in JobId |-> {}]
  /\ cancelHandlers' = {}
  /\ wait' = Woken
  /\ UNCHANGED <<nextJobId, owner, calls, waitFor>>

\* Wait evaluates its predicate under the lock and sleeps when it is false.
Wait(w, id) ==
  /\ wait[w] = "idle" /\ ~IsTerminal(id)
  /\ wait' = [wait EXCEPT ![w] = "asleep"]
  /\ waitFor' = [waitFor EXCEPT ![w] = id]
  /\ UNCHANGED <<record, cancelHandlers, nextJobId, owner, calls>>

\* A woken waiter returns or sleeps again.
Wake(w) ==
  /\ wait[w] = "woken"
  /\ wait' = [wait EXCEPT ![w] = IF IsTerminal(waitFor[w]) THEN "idle" ELSE "asleep"]
  /\ UNCHANGED <<record, cancelHandlers, nextJobId, owner, calls, waitFor>>

\* Wait(id, timeout) gives up.
WaitTimeout(w) ==
  /\ w \in TimedWaiters /\ wait[w] # "idle"
  /\ wait' = [wait EXCEPT ![w] = "idle"]
  /\ UNCHANGED <<record, cancelHandlers, nextJobId, owner, calls, waitFor>>

-----------------------------------------------------------------------------
Creator(id) ==
  \/ MarkRunning(id)
  \/ \E allowed \in BOOLEAN : SetCancellable(id, allowed)
  \/ \E given \in BOOLEAN : SetCancelHandler(id, given)
  \/ FinishSetCancelHandler(id)
  \/ Submit(id)
  \/ WorkDirectly(id)
  \/ \E result \in {"Succeeded", "Failed"} : FinishDirectly(id, result)

Task(id) ==
  \/ StartTask(id)
  \/ CheckDependency(id)
  \/ RunFunction(id)
  \/ \E result \in {"Succeeded", "Failed"} : FinishedEvent(id, result)
  \/ \E result \in {"Succeeded", "Failed"} : Return(id, result)
  \/ Throw(id)
  \/ CheckTerminal(id)
  \/ CheckCancellation(id)
  \/ Settle(id)
  \/ Notify(id)
  \/ EraseHandler(id)

Caller(c) ==
  \/ Call(c, "cancel")
  \/ Call(c, "terminate")
  \/ Refused(c)
  \/ RequestCancel(c)
  \/ Terminate(c)
  \/ RunHandler(c)
  \/ NotifyTerminated(c)

Waiter(w) ==
  \/ \E id \in JobId : Wait(w, id)
  \/ Wake(w)
  \/ WaitTimeout(w)

Next ==
  \/ Create
  \/ \E id \in JobId : Creator(id) \/ Task(id)
  \/ \E c \in Callers : Caller(c)
  \/ Clear
  \/ \E w \in Waiters : Waiter(w)

Spec == Init /\ [][Next]_vars

\* What the scheduler and the code owe: a worker picks every queued task up
\* and runs each step of it, a function returns after finitely many calls of
\* the service, a woken waiter and a caller inside a method run on.
Fairness ==
  /\ \A id \in JobId :
       /\ WF_vars(StartTask(id) \/ CheckDependency(id) \/ RunFunction(id))
       /\ WF_vars(CheckTerminal(id) \/ CheckCancellation(id))
       /\ WF_vars(Settle(id) \/ Notify(id) \/ EraseHandler(id))
       /\ WF_vars(FinishSetCancelHandler(id))
       /\ WF_vars(\E result \in {"Succeeded", "Failed"} : FinishDirectly(id, result))
       /\ SF_vars(Throw(id) \/ \E result \in {"Succeeded", "Failed"} :
                                  Return(id, result) \/ FinishedEvent(id, result))
  /\ \A c \in Callers :
       WF_vars(\/ Refused(c) \/ RequestCancel(c) \/ Terminate(c)
               \/ RunHandler(c) \/ NotifyTerminated(c))
  /\ \A w \in Waiters : WF_vars(Wake(w))

FairSpec == Spec /\ Fairness

-----------------------------------------------------------------------------
(* What the job table promises.                                            *)

\* Every variable keeps the shape of the C++ member it stands for.
TypeOK ==
  /\ status \in [JobId -> JobStatus]
  /\ cancellable \in [JobId -> BOOLEAN]
  /\ cancelRequested \in [JobId -> BOOLEAN]
  /\ dependencies \in [JobId -> SUBSET JobId]
  /\ cancelHandlers \subseteq JobId
  /\ nextJobId \in 1 .. MaxJobs + 1
  /\ step \in [JobId -> Step]
  /\ unread \in [JobId -> SUBSET JobId]
  /\ outcome \in [JobId -> Terminal]
  /\ inner \in [JobId -> BOOLEAN]
  /\ setting \in [JobId -> {"none", "on", "off"}]
  /\ cancelAtReturn \in [JobId -> BOOLEAN]
  /\ op \in [Callers -> {"cancel", "terminate"}]
  /\ todo \in [Callers -> SUBSET JobId]
  /\ at \in [Callers -> {"next", "handler", "notify"}]
  /\ wait \in [Waiters -> {"idle", "asleep", "woken"}]
  /\ waitFor \in [Waiters -> JobId \cup {0}]

\* A stored cancel handler belongs to a job that can still be cancelled: one
\* whose record exists and is not terminal, except while the thread that
\* finished the job is on its way to the erase of Complete or Cancel.  A
\* handler that outlived its job would call into an execution that is gone.
HandlersBelongToOpenJobs ==
  \A id \in cancelHandlers :
    /\ Exists(id)
    /\ IsTerminalStatus(status[id]) => step[id] \in {"notify", "erase"}

\* A function is entered only after every dependency was read as Succeeded,
\* and, since that status is final, no dependency of a job whose function is
\* running has any other status (Clear may have dropped the record since).
DependenciesSucceeded ==
  \A id \in JobId : step[id] = "body" =>
    \A dependency \in dependencies[id] :
      status[dependency] \in {"Succeeded", "Missing"}

\* However calls of Terminate, MarkRunning and Clear interleave with a task,
\* the job it leaves behind is terminal: no record stays Pending or Running
\* with nobody left to finish it, on which Wait would block for ever.
FinishedJobsAreTerminal ==
  \A id \in JobId : step[id] = "done" => IsTerminal(id)

\* What the table and its owners keep of every job: its shape, a handler only
\* while it can be cancelled, and an end once nobody works on it (Complete,
\* SetCancelHandler and Terminate in any order).
JobsConsistent == TypeOK /\ HandlersBelongToOpenJobs /\ FinishedJobsAreTerminal

\* A cancellation accepted before the function returned decides the outcome:
\* unless the function throws, the job does not end Succeeded or Failed.
AcceptedCancelHonoured ==
  \A id \in JobId :
    step[id] = "done" /\ cancelAtReturn[id]
      => status[id] \in {"Cancelled", "Missing"}

\* No wake-up is lost: a waiter asleep on a job that is terminal or gone is
\* about to be notified by the thread that made it so.
NoLostWakeup ==
  \A w \in Waiters : wait[w] = "asleep" /\ IsTerminal(waitFor[w]) =>
    \/ step[waitFor[w]] = "notify"
    \/ \E c \in Callers : /\ op[c] = "terminate" /\ at[c] # "next"
                          /\ Visits(c, waitFor[w])

\* Succeeded and Failed are final, and so is whatever a job shows once its
\* owner is done: only Clear takes it away.  (Cancelled is not final before
\* that: a task that was still queued when its job was terminated marks it
\* Running again.)
OutcomesAreFinal ==
  [][\A id \in JobId :
       status[id] \in {"Succeeded", "Failed"} \/ step[id] = "done"
         => status'[id] \in {status[id], "Missing"}]_vars

\* Wait returns, with or without a timeout, once the job has been handed to
\* an owner, whatever cancels, restarts or clears it meanwhile.
WaitersReturn ==
  \A w \in Waiters, id \in JobId :
    wait[w] # "idle" /\ waitFor[w] = id /\ step[id] # "created"
      ~> wait[w] = "idle"
=============================================================================
