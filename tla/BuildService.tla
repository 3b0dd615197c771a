----------------------------- MODULE BuildService -----------------------------
(***************************************************************************)
(* One build or test job (src/core/execution/build_service.cpp): the       *)
(* client that starts it and waits for its BuildHandle, the worker that    *)
(* runs the operation StartBuildOperation submitted, the executions of the *)
(* plan's steps (ExecutionService), the callers that cancel or terminate   *)
(* the job while it runs, and the workspace that forgets all jobs when it  *)
(* closes or opens (JobService::Clear).                                    *)
(*                                                                         *)
(* Of the job table only this job's record is kept, and each critical      *)
(* section on it is an action, as in JobService.  The operation's events,  *)
(* output and diagnostics are data and left out; what its callback does to *)
(* the job (MarkRunning) is part of the provider's step.                   *)
(***************************************************************************)
EXTENDS Naturals

CONSTANTS
  MaxExecutions,  \* bound: how many steps a plan has
  MaxWrites,
  Callers,        \* threads that call RequestCancel and Terminate
  MaxCalls        \* bound: how many such calls are made in all

VARIABLES
  \* ExecutionService
  status, cancelRequested, result, process, exitCode, writes, unread, thread,
  heard,
  \* the record of the job, and the execution its cancel handler terminates
  job, cancellable, jobCancelRequested, cancelHandler,
  \* the worker: its position, the size of the plan, the step at hand, the
  \* exit code to return, and the status about to be written
  pc, planned, current, code, verdict,
  built,          \* the exit code in BuildState::result, None before
  client,         \* the position of the thread that called Start and Wait
  calling,        \* the handlers the callers are about to call
  calls           \* how many calls were made

E == INSTANCE ExecutionService

Execution == 1 .. MaxExecutions
None == 2
NoHandler == 0

executions ==
  <<status, cancelRequested, result, process, exitCode, writes, unread, thread,
    heard>>
record == <<job, cancellable, jobCancelRequested, cancelHandler>>
operation == <<pc, planned, current, code, verdict, built>>
users == <<client, calling, calls>>
buildVars == <<record, operation, users>>
vars == <<executions, buildVars>>

Terminal == {"Succeeded", "Failed", "Cancelled"}

Exists == job # "Missing"
IsTerminal == ~Exists \/ job \in Terminal
CancellationRequested == Exists /\ jobCancelRequested

\* JobService::Update of the status.
Updated(s) == IF Exists THEN s ELSE "Missing"

\* Where the operation no longer uses what its callbacks refer to.
Returned == {"returned", "settling", "deciding", "closing", "done"}

\* Init: the client created the job with Jobs().Start and submitted the
\* operation.
Init ==
  /\ E!Init
  /\ job = "Running" /\ cancellable = FALSE /\ jobCancelRequested = FALSE
  /\ cancelHandler = NoHandler
  /\ pc = "queued" /\ planned = 0 /\ current = 0 /\ code = 1
  /\ verdict = "Failed" /\ built = None
  /\ client = "submitted" /\ calling = [c \in Callers |-> NoHandler]
  /\ calls = 0

-----------------------------------------------------------------------------
(* The client.                                                             *)

\* SetCancellable after Submit: the worker may be anywhere by then.
AllowCancel ==
  /\ client = "submitted"
  /\ cancellable' = (cancellable \/ Exists)
  /\ client' = "waiting"
  /\ UNCHANGED <<executions, job, jobCancelRequested, cancelHandler,
                 operation, calling, calls>>

\* BuildHandle::Wait: the result, then the end of the job.
AwaitResult ==
  /\ client = "waiting" /\ built # None
  /\ client' = "joining"
  /\ UNCHANGED <<executions, record, operation, calling, calls>>

AwaitJob ==
  /\ client = "joining" /\ IsTerminal
  /\ client' = "done"
  /\ UNCHANGED <<executions, record, operation, calling, calls>>

Client == AllowCancel \/ AwaitResult \/ AwaitJob

-----------------------------------------------------------------------------
(* The worker: the submitted task up to the plan.                          *)

\* Ready; without a record the function is dropped.
BeginTask ==
  /\ pc = "queued"
  /\ pc' = IF Exists THEN "marking" ELSE "dropped"
  /\ UNCHANGED <<executions, record, planned, current, code, verdict,
                 built, users>>

\* MarkRunning, whatever happened to the job meanwhile.
MarkRunning ==
  /\ pc = "marking"
  /\ job' = Updated("Running")
  /\ pc' = "planning"
  /\ UNCHANGED <<executions, cancellable, jobCancelRequested,
                 cancelHandler, planned, current, code, verdict, built, users>>

Plan ==
  /\ pc = "planning"
  /\ planned' \in Execution
  /\ pc' = "checking"
  /\ UNCHANGED <<executions, record, current, code, verdict, built, users>>

\* No provider, or one that has no steps.
NoPlan ==
  /\ pc = "planning"
  /\ pc' = "failing"
  /\ UNCHANGED <<executions, record, planned, current, code, verdict,
                 built, users>>

\* Code the operation calls throws: StartBuildOperation catches it.
\* Mutant: it leaves the operation without a result.
OperationThrowsThrough ==
  /\ pc \in {"planning", "starting", "stepped"}
  /\ verdict' = "Failed"
  /\ pc' = "closing"
  /\ UNCHANGED <<executions, record, planned, current, code, built, users>>
OperationThrows ==
  /\ pc \in {"planning", "starting", "stepped"}
  /\ code' = 1
  /\ pc' = "returned"
  /\ UNCHANGED <<executions, record, planned, current, verdict, built,
                 users>>

-----------------------------------------------------------------------------
(* The worker: one step of the plan.                                       *)

CheckCancelled ==
  /\ pc = "checking"
  /\ pc' = IF CancellationRequested THEN "failing" ELSE "starting"
  /\ UNCHANGED <<executions, record, planned, current, code, verdict,
                 built, users>>

NoTarget ==
  /\ pc = "starting"
  /\ pc' = "failing"
  /\ UNCHANGED <<executions, record, planned, current, code, verdict,
                 built, users>>

StartStep ==
  /\ pc = "starting"
  /\ current' = current + 1
  /\ E!Start(current + 1) \/ E!StartWithoutProvider(current + 1)
  /\ pc' = "registering"
  /\ UNCHANGED <<record, planned, code, verdict, built, users>>

\* SetCancelHandler(handle.Terminate): it takes the mutex twice, and leaves
\* at once when the job is terminal.
RegisterHandler ==
  /\ pc = "registering"
  /\ cancelHandler' = IF IsTerminal THEN cancelHandler ELSE current
  /\ pc' = IF IsTerminal THEN "polling" ELSE "registered"
  /\ UNCHANGED <<executions, job, cancellable, jobCancelRequested,
                 planned, current, code, verdict, built, users>>

HandlerSet ==
  /\ pc = "registered"
  /\ cancellable' = (cancellable \/ Exists)
  /\ pc' = "polling"
  /\ UNCHANGED <<executions, job, jobCancelRequested, cancelHandler,
                 planned, current, code, verdict, built, users>>

\* while (handle.Running()) { if (cancelled()) handle.Terminate(); }
\* Mutant: it leaves the cancellation to the handler.
PollExecutionOnly ==
  /\ pc = "polling"
  /\ pc' = IF E!Running(current) THEN "polling" ELSE "joining"
  /\ UNCHANGED <<executions, record, planned, current, code, verdict,
                 built, users>>
PollExecution ==
  /\ pc = "polling"
  /\ pc' = IF E!Running(current) THEN "asking" ELSE "joining"
  /\ UNCHANGED <<executions, record, planned, current, code, verdict,
                 built, users>>

AskCancelled ==
  /\ pc = "asking"
  /\ pc' = IF CancellationRequested THEN "stopping" ELSE "polling"
  /\ UNCHANGED <<executions, record, planned, current, code, verdict,
                 built, users>>

StopExecution ==
  /\ pc = "stopping"
  /\ E!Cancel(current)
  /\ pc' = "polling"
  /\ UNCHANGED <<record, planned, current, code, verdict, built, users>>

\* handle.Wait().
JoinExecution ==
  /\ pc = "joining"
  /\ E!WaitReturns(current)
  /\ pc' = "clearing"
  /\ UNCHANGED <<executions, record, planned, current, code, verdict,
                 built, users>>

\* SetCancelHandler({}).  Mutant: the handler stays.
ClearHandlerNot ==
  /\ pc = "clearing"
  /\ pc' = "cleared"
  /\ UNCHANGED <<executions, record, planned, current, code, verdict,
                 built, users>>
ClearHandler ==
  /\ pc = "clearing"
  /\ cancelHandler' = IF IsTerminal THEN cancelHandler ELSE NoHandler
  /\ pc' = IF IsTerminal THEN "stepped" ELSE "cleared"
  /\ UNCHANGED <<executions, job, cancellable, jobCancelRequested,
                 planned, current, code, verdict, built, users>>

HandlerCleared ==
  /\ pc = "cleared"
  /\ cancellable' = (cancellable /\ ~Exists)
  /\ pc' = "stepped"
  /\ UNCHANGED <<executions, job, jobCancelRequested, cancelHandler,
                 planned, current, code, verdict, built, users>>

\* Mutant: a failed step does not stop the plan.
FinishStepRegardless ==
  /\ pc = "stepped"
  /\ pc' = IF current = planned THEN "returned" ELSE "checking"
  /\ code' = result[current]
  /\ UNCHANGED <<executions, record, planned, current, verdict, built,
                 users>>
FinishStep ==
  /\ pc = "stepped"
  /\ pc' = IF result[current] # 0 \/ current = planned
             THEN "returned" ELSE "checking"
  /\ code' = result[current]
  /\ UNCHANGED <<executions, record, planned, current, verdict, built,
                 users>>

-----------------------------------------------------------------------------
(* The worker: ways out.                                                   *)

\* emit_direct of a Finished event: ApplyExecutionEventToJob decides ...
DecideFailure ==
  /\ pc = "failing"
  /\ verdict' = IF CancellationRequested THEN "Cancelled" ELSE "Failed"
  /\ pc' = "failed"
  /\ UNCHANGED <<executions, record, planned, current, code, built, users>>

\* ... and ends the job, before the operation has returned.
EndJobEarly ==
  /\ pc = "failed"
  /\ job' = Updated(verdict)
  /\ cancelHandler' = NoHandler
  /\ code' = 1
  /\ pc' = "returned"
  /\ UNCHANGED <<executions, cancellable, jobCancelRequested, planned,
                 current, verdict, built, users>>

\* The result is stored; success is what this moment says.
StoreResult ==
  /\ pc = "returned"
  /\ built' = code
  /\ verdict' = IF code = 0 /\ ~CancellationRequested
                  THEN "Succeeded" ELSE "Failed"
  /\ pc' = "settling"
  /\ UNCHANGED <<executions, record, planned, current, code, users>>

\* JobService: a job that has ended keeps its status.
CheckTerminal ==
  /\ pc = "settling"
  /\ pc' = IF IsTerminal THEN "done" ELSE "deciding"
  /\ UNCHANGED <<executions, record, planned, current, code, verdict,
                 built, users>>

DecideEnd ==
  /\ pc = "deciding"
  /\ verdict' = IF CancellationRequested THEN "Cancelled" ELSE verdict
  /\ pc' = "closing"
  /\ UNCHANGED <<executions, record, planned, current, code, built, users>>

EndJob ==
  /\ pc = "closing"
  /\ job' = Updated(verdict)
  /\ cancelHandler' = NoHandler
  /\ pc' = "done"
  /\ UNCHANGED <<executions, cancellable, jobCancelRequested, planned,
                 current, code, verdict, built, users>>

Worker ==
  \/ BeginTask \/ MarkRunning \/ Plan \/ NoPlan \/ OperationThrows
  \/ CheckCancelled \/ NoTarget \/ StartStep \/ RegisterHandler \/ HandlerSet
  \/ PollExecution \/ AskCancelled \/ StopExecution \/ JoinExecution
  \/ ClearHandler \/ HandlerCleared \/ FinishStep
  \/ DecideFailure \/ EndJobEarly
  \/ StoreResult \/ CheckTerminal \/ DecideEnd \/ EndJob

-----------------------------------------------------------------------------
(* The executions.  The callback of Started marks the job running, also one*)
(* that was terminated meanwhile.                                          *)

StepStarted(e) ==
  /\ E!TellStarted(e)
  /\ job' = Updated("Running")
  /\ UNCHANGED <<cancellable, jobCancelRequested, cancelHandler, operation,
                 users>>

StepFinished(e) == E!TellFinished(e) /\ UNCHANGED buildVars

Step(e) ==
  \/ E!Worker(e) /\ UNCHANGED buildVars
  \/ StepStarted(e)
  \/ StepFinished(e)

ToolRuns(e) == E!Process(e) /\ UNCHANGED buildVars

-----------------------------------------------------------------------------
(* Callers.                                                                *)

\* RequestCancel and Terminate copy the handler inside the mutex ...
RequestCancel(c) ==
  /\ calling[c] = NoHandler /\ calls < MaxCalls
  /\ calls' = calls + 1
  /\ ~IsTerminal /\ cancellable
  /\ jobCancelRequested' = TRUE
  /\ calling' = [calling EXCEPT ![c] = cancelHandler]
  /\ UNCHANGED <<executions, job, cancellable, cancelHandler, operation,
                 client>>

Terminate(c) ==
  /\ calling[c] = NoHandler /\ calls < MaxCalls
  /\ calls' = calls + 1
  /\ ~IsTerminal
  /\ jobCancelRequested' = TRUE
  /\ job' = "Cancelled"
  /\ calling' = [calling EXCEPT ![c] = cancelHandler]
  /\ cancelHandler' = NoHandler
  /\ UNCHANGED <<executions, cancellable, operation, client>>

\* ... and call it outside.
CallHandler(c) ==
  /\ calling[c] # NoHandler
  /\ E!Cancel(calling[c])
  /\ calling' = [calling EXCEPT ![c] = NoHandler]
  /\ UNCHANGED <<record, operation, client, calls>>

\* WorkspaceRuntime::Open and Close.
ClearJobs ==
  /\ Exists
  /\ job' = "Missing" /\ cancelHandler' = NoHandler
  /\ UNCHANGED <<executions, cancellable, jobCancelRequested, operation,
                 users>>

Caller(c) == RequestCancel(c) \/ Terminate(c) \/ CallHandler(c)

Next ==
  \/ Client \/ Worker \/ ClearJobs
  \/ \E c \in Callers : Caller(c)
  \/ \E e \in Execution : Step(e) \/ ToolRuns(e)

\* Threads run; nobody has to cancel, no tool has to exit, and no workspace
\* has to close.  A cancellation contends for the execution's mutex with the
\* provider's thread, which sleeps without it between two polls.
Fairness ==
  /\ WF_vars(Client)
  /\ WF_vars(Worker) /\ SF_vars(StopExecution)
  /\ \A e \in Execution : WF_vars(Step(e))
  /\ \A c \in Callers : SF_vars(CallHandler(c))

Spec == Init /\ [][Next]_vars /\ Fairness
-----------------------------------------------------------------------------
\* Types.
WorkerStep ==
  Returned \cup
  {"queued", "dropped", "marking", "planning", "checking", "starting",
   "registering", "registered", "polling", "asking", "stopping", "joining",
   "clearing", "cleared", "stepped", "failing", "failed"}
TypeOK ==
  /\ E!TypeOK
  /\ job \in {"Missing", "Running"} \cup Terminal
  /\ cancellable \in BOOLEAN /\ jobCancelRequested \in BOOLEAN
  /\ cancelHandler \in Execution \cup {NoHandler}
  /\ pc \in WorkerStep
  /\ planned \in Execution \cup {0} /\ current \in Execution \cup {0}
  /\ code \in {0, 1}
  /\ verdict \in Terminal
  /\ built \in {0, 1, None}
  /\ client \in {"submitted", "waiting", "joining", "done"}
  /\ calling \in [Callers -> Execution \cup {NoHandler}]
  /\ calls \in 0 .. MaxCalls

\* The callback given to an execution refers to the operation's variables, and
\* the next step reuses them: no provider thread is alive once the operation
\* has returned, and only the current step's before (Start's loop and Wait).
CallbacksInside ==
  \A e \in Execution : thread[e] \notin {"none", "ended"} =>
    e = current /\ pc \notin Returned

\* The job's cancel handler refers to the current step's execution, and none is
\* left behind by an operation that returned: not when the job was terminated
\* and marked running again between registering and clearing.
NoHandlerLeft ==
  cancelHandler # NoHandler => cancelHandler = current /\ pc \notin Returned

\* What a build and its executions keep in every state.
BuildConsistent == TypeOK /\ CallbacksInside /\ NoHandlerLeft

\* A job that says Succeeded stands for a build all of whose steps ran to the
\* end, left with 0 and were not cancelled, and whose handle says 0 too.
SucceededRanEveryStep ==
  job = "Succeeded" =>
    /\ planned # 0 /\ current = planned /\ built = 0
    /\ \A e \in 1 .. planned : status[e] = "Succeeded" /\ result[e] = 0

\* A cancelled build ends although its tools would go on, whichever moment the
\* request came at: before a handler is there, between two steps, before the
\* process runs.  Only JobService::Clear makes the operation miss it.
CancelEndsBuild ==
  Exists /\ jobCancelRequested ~> pc = "done" \/ ~Exists

\* BuildHandle::Wait returns once the task is over, however it ended: with a
\* result, with an exception, with a job that was terminated or forgotten.
WaitReturns == pc = "done" ~> client = "done"
=============================================================================
