---------------------------- MODULE AgentSession ----------------------------
(***************************************************************************)
(* Agent sessions (src/core/agent/agent_runtime.cpp) with the job each one *)
(* runs as and the operations it executes                                  *)
(* (src/core/agent/agent_operation.cpp).                                   *)
(*                                                                         *)
(* Three tables, each with a lock of its own or none, describe one session *)
(* at once: its status in AgentRuntime, the status of its job in           *)
(* JobService, and the records of its operations in AgentOperationService. *)
(* The task of the job, the tasks of the operations, those who cancel the  *)
(* session or the job, and the main thread that starts sessions and closes *)
(* the workspace change them in steps that interleave.                     *)
(*                                                                         *)
(* JobService is used at the grain its callers see: what a dispatched task *)
(* does under each lock is the subject of module JobService.               *)
(***************************************************************************)
EXTENDS Naturals

CONSTANTS
  Session,  \* identifiers of sessions, never used twice
  MaxCalls  \* bound: how many tools one response of the model calls

Open == {"Pending", "CollectingContext", "Planning", "Running"}
Ended == {"Completed", "Failed", "Cancelled"}
TerminalJob == {"Succeeded", "Failed", "Cancelled"}

VARIABLES
  session,       \* AgentSession::status, "Missing" when there is none
  job,           \* JobRecord::status of its job, "Missing" when there is none
  cancelRequested, \* sessions whose job has cancellation_requested
  cancellable,   \* sessions whose job is cancellable
  handlers,      \* sessions whose job has its cancel handler
  handling,      \* sessions whose cancel handler was taken and will be called
  at,            \* position of the thread that starts the session, then of its task
  result,        \* the status its job will get
  calls, index,  \* tool calls of the response, and how many were begun
  operation,     \* the operation its task waits for
  record,        \* AgentOperationRecord::status of each of its operations
  closing,       \* the workspace: "open", or "jobsCleared" inside Close
  lateCalls,     \* history: calls begun although the session was cancelled
  threw,         \* history: sessions whose collector or model provider threw
  missed         \* history: sessions cancelled behind the last look at them

jobs == <<job, cancelRequested, cancellable, handlers>>
task == <<at, result, calls, index>>
operations == <<operation, record>>
history == <<lateCalls, threw, missed>>
vars == <<session, jobs, handling, task, operations, closing, history>>

Init ==
  /\ session = [s \in Session |-> "Missing"]
  /\ job = [s \in Session |-> "Missing"]
  /\ cancelRequested = {} /\ cancellable = {} /\ handlers = {} /\ handling = {}
  /\ at = [s \in Session |-> "none"]
  /\ result = [s \in Session |-> "Failed"]
  /\ calls = [s \in Session |-> 0] /\ index = [s \in Session |-> 0]
  /\ operation = [s \in Session |-> "none"]
  /\ record = [s \in Session |-> [k \in 1 .. MaxCalls |-> "None"]]
  /\ closing = "open"
  /\ lateCalls = [s \in Session |-> 0]
  /\ threw = {} /\ missed = {}

-----------------------------------------------------------------------------
(* The session table.                                                      *)

\* Update: a cancelled session takes no other status.
Updated(s, status) ==
  IF session[s] \in {"Missing", "Cancelled"}
    THEN session ELSE [session EXCEPT ![s] = status]

\* CancelSession: refused for a session that has ended.
AcceptsCancel(s) == session[s] \in Open

TakeCancel(s) ==
  /\ session' = [session EXCEPT ![s] = "Cancelled"]
  /\ missed' = IF at[s] = "judged" THEN missed \cup {s} ELSE missed

CancelSession(s) ==
  /\ AcceptsCancel(s)
  /\ TakeCancel(s)
  /\ UNCHANGED <<jobs, handling, task, operations, closing, lateCalls, threw>>

-----------------------------------------------------------------------------
(* Those who cancel or terminate the job.                                  *)

RequestCancel(s) ==
  /\ job[s] \notin TerminalJob \cup {"Missing"} /\ s \in cancellable
  /\ cancelRequested' = cancelRequested \cup {s}
  /\ handling' = IF s \in handlers THEN handling \cup {s} ELSE handling
  /\ UNCHANGED <<session, job, cancellable, handlers, task, operations, closing, history>>

Terminate(s) ==
  /\ job[s] \notin TerminalJob \cup {"Missing"}
  /\ job' = [job EXCEPT ![s] = "Cancelled"]
  /\ cancelRequested' = cancelRequested \cup {s}
  /\ handling' = IF s \in handlers THEN handling \cup {s} ELSE handling
  /\ handlers' = handlers \ {s}
  /\ UNCHANGED <<session, cancellable, task, operations, closing, history>>

\* The handler runs after the job table was unlocked.
HandleCancel(s) ==
  /\ s \in handling
  /\ handling' = handling \ {s}
  /\ IF AcceptsCancel(s) THEN TakeCancel(s) ELSE UNCHANGED <<session, missed>>
  /\ UNCHANGED <<jobs, task, operations, closing, lateCalls, threw>>

-----------------------------------------------------------------------------
(* The main thread: StartSession and the end of WorkspaceRuntime::Close.   *)

Goto(s, position) == at' = [at EXCEPT ![s] = position]

Starting == \E s \in Session : at[s] \in {"created", "job", "cancellable", "handler"}

CreateSession(s) ==
  /\ at[s] = "none" /\ closing = "open" /\ ~Starting
  /\ session' = [session EXCEPT ![s] = "Pending"]
  /\ Goto(s, "created")
  /\ UNCHANGED <<jobs, handling, result, calls, index, operations, closing, history>>

CreateJob(s) ==
  /\ at[s] = "created"
  /\ job' = [job EXCEPT ![s] = "Pending"]
  /\ Goto(s, "job")
  /\ UNCHANGED <<session, cancelRequested, cancellable, handlers, handling, result,
                 calls, index, operations, closing, history>>

SetCancellable(s) ==
  /\ at[s] = "job"
  /\ cancellable' = cancellable \cup {s}
  /\ Goto(s, "cancellable")
  /\ UNCHANGED <<session, job, cancelRequested, handlers, handling, result, calls,
                 index, operations, closing, history>>

\* Refused when the job has been terminated already.
SetCancelHandler(s) ==
  /\ at[s] = "cancellable"
  /\ handlers' = IF job[s] \in TerminalJob THEN handlers ELSE handlers \cup {s}
  /\ Goto(s, "handler")
  /\ UNCHANGED <<session, job, cancelRequested, cancellable, handling, result, calls,
                 index, operations, closing, history>>

Submit(s) ==
  /\ at[s] = "handler"
  /\ Goto(s, "queued")
  /\ UNCHANGED <<session, jobs, handling, result, calls, index, operations, closing, history>>

\* jobs_.Clear(): an operation that no worker has started loses its record, so
\* its function is dropped unrun and its promise broken.
ClearJobs ==
  /\ closing = "open" /\ ~Starting
  /\ closing' = "jobsCleared"
  /\ job' = [s \in Session |-> "Missing"]
  /\ cancelRequested' = {} /\ cancellable' = {} /\ handlers' = {}
  /\ operation' = [s \in Session |-> IF operation[s] = "queued" THEN "broken" ELSE operation[s]]
  /\ UNCHANGED <<session, handling, task, record, history>>

\* agent_runtime_.Clear()
ClearSessions ==
  /\ closing = "jobsCleared"
  /\ closing' = "open"
  /\ session' = [s \in Session |-> "Missing"]
  /\ UNCHANGED <<jobs, handling, task, operations, history>>

-----------------------------------------------------------------------------
(* The task of the session's job: RunSession between the two halves of the *)
(* task JobService wraps around it.                                        *)

RunTask(s) ==
  /\ at[s] = "queued"
  /\ Goto(s, IF job[s] = "Missing" THEN "done" ELSE "start")
  /\ job' = [job EXCEPT ![s] = IF @ = "Missing" THEN @ ELSE "Running"]
  /\ UNCHANGED <<session, cancelRequested, cancellable, handlers, handling, result,
                 calls, index, operations, closing, history>>

Cancelling(s) == s \in cancelRequested \/ session[s] = "Cancelled"

\* RunSession returns unsuccessfully.
GiveUp(s) ==
  /\ Goto(s, "returned")
  /\ result' = [result EXCEPT ![s] = "Failed"]
  /\ UNCHANGED <<calls, index>>

\* The two tests for a cancellation, before the context is collected and before
\* the tools are called.
NoticeCancel(s) ==
  /\ at[s] \in {"start", "respond"} /\ Cancelling(s)
  /\ session' = Updated(s, "Cancelled")
  /\ GiveUp(s)
  /\ UNCHANGED <<jobs, handling, operations, closing, history>>

SessionGone(s) ==
  /\ at[s] = "start" /\ ~Cancelling(s) /\ session[s] = "Missing"
  /\ GiveUp(s)
  /\ UNCHANGED <<session, jobs, handling, operations, closing, history>>

\* One step of RunSession that writes the session's status and goes on.
Advance(s, from, status, to) ==
  /\ at[s] = from
  /\ session' = Updated(s, status)
  /\ Goto(s, to)
  /\ UNCHANGED <<jobs, handling, result, calls, index, operations, closing, history>>

Begin(s) ==
  /\ at[s] = "start" /\ ~Cancelling(s) /\ session[s] # "Missing"
  /\ Goto(s, "begun")
  /\ UNCHANGED <<session, jobs, handling, result, calls, index, operations, closing, history>>

CollectContext(s) == Advance(s, "begun", "CollectingContext", "collected")
AskModel(s) == Advance(s, "collected", "Planning", "asking")
Delta(s) == Advance(s, "asking", "Running", "asking")

\* Mutants: the failure is reported to the job as a success; the session is not
\* told of it.
ModelFailsWell(s) ==
  /\ at[s] = "asking"
  /\ session' = Updated(s, "Failed")
  /\ result' = [result EXCEPT ![s] = "Succeeded"]
  /\ Goto(s, "returned")
  /\ UNCHANGED <<jobs, handling, calls, index, operations, closing, history>>
ModelFailsSilently(s) ==
  /\ at[s] = "asking"
  /\ GiveUp(s)
  /\ UNCHANGED <<session, jobs, handling, operations, closing, history>>
ModelFails(s) ==
  /\ at[s] = "asking"
  /\ session' = Updated(s, "Failed")
  /\ GiveUp(s)
  /\ UNCHANGED <<jobs, handling, operations, closing, history>>

ModelResponds(s) ==
  /\ at[s] = "asking"
  /\ \E n \in 0 .. MaxCalls : calls' = [calls EXCEPT ![s] = n]
  /\ Goto(s, "respond")
  /\ UNCHANGED <<session, jobs, handling, result, index, operations, closing, history>>

\* The context collector or the model provider throws.
Throw(s) ==
  /\ at[s] \in {"collected", "asking"}
  /\ Goto(s, "thrown")
  /\ threw' = threw \cup {s}
  /\ UNCHANGED <<session, jobs, handling, result, calls, index, operations, closing, lateCalls,
                 missed>>

CallTools(s) ==
  /\ at[s] = "respond" /\ ~Cancelling(s)
  /\ Goto(s, "call")
  /\ UNCHANGED <<session, jobs, handling, result, calls, index, operations, closing, history>>

\* The head of the loop in ExecuteToolCalls.  Mutant: a cancellation during the
\* calls goes unnoticed.
NextCallUnchecked(s) ==
  /\ at[s] = "call"
  /\ Goto(s, IF index[s] = calls[s] THEN "judge" ELSE "calling")
  /\ UNCHANGED <<session, jobs, handling, result, calls, index, operations, closing, history>>
NextCall(s) ==
  /\ at[s] = "call"
  /\ Goto(s, IF index[s] = calls[s] \/ session[s] = "Cancelled" THEN "judge" ELSE "calling")
  /\ UNCHANGED <<session, jobs, handling, result, calls, index, operations, closing, history>>

\* RecordStart and Submit of AgentOperationService::Execute, which then blocks.
BeginCall(s) ==
  /\ at[s] = "calling"
  /\ session' = Updated(s, "Running")
  /\ index' = [index EXCEPT ![s] = @ + 1]
  /\ record' = [record EXCEPT ![s][index[s] + 1] = "Started"]
  /\ operation' = [operation EXCEPT ![s] = "queued"]
  /\ lateCalls' = IF session[s] = "Cancelled" THEN [lateCalls EXCEPT ![s] = @ + 1] ELSE lateCalls
  /\ Goto(s, "waiting")
  /\ UNCHANGED <<jobs, handling, result, calls, closing, threw, missed>>

\* AddOperationId, and the next call.
CallSucceeded(s) ==
  /\ at[s] = "waiting" /\ operation[s] = "ok"
  /\ operation' = [operation EXCEPT ![s] = "none"]
  /\ Goto(s, "call")
  /\ UNCHANGED <<session, jobs, handling, result, calls, index, record, closing, history>>

\* Mutant: the loop goes on after a call that failed.
CallFailedOn(s) ==
  /\ at[s] = "waiting" /\ operation[s] = "failed"
  /\ session' = Updated(s, "Failed")
  /\ operation' = [operation EXCEPT ![s] = "none"]
  /\ Goto(s, "call")
  /\ UNCHANGED <<jobs, handling, result, calls, index, record, closing, history>>
CallFailed(s) ==
  /\ at[s] = "waiting" /\ operation[s] = "failed"
  /\ session' = Updated(s, "Failed")
  /\ operation' = [operation EXCEPT ![s] = "none"]
  /\ Goto(s, "judge")
  /\ UNCHANGED <<jobs, handling, result, calls, index, record, closing, history>>

\* future::get of a broken promise throws.
CallBroken(s) ==
  /\ at[s] = "waiting" /\ operation[s] = "broken"
  /\ operation' = [operation EXCEPT ![s] = "none"]
  /\ Goto(s, "thrown")
  /\ UNCHANGED <<session, jobs, handling, result, calls, index, record, closing, history>>

\* The snapshot after the calls decides what RunSession returns; a session that
\* is cancelled after it was read is not seen.
JudgeEnded(s) ==
  /\ at[s] = "judge" /\ session[s] \in {"Failed", "Cancelled"}
  /\ GiveUp(s)
  /\ UNCHANGED <<session, jobs, handling, operations, closing, history>>

JudgeOpen(s) ==
  /\ at[s] = "judge" /\ session[s] \notin {"Failed", "Cancelled"}
  /\ Goto(s, "judged")
  /\ UNCHANGED <<session, jobs, handling, result, calls, index, operations, closing, history>>

Complete(s) ==
  /\ at[s] = "judged"
  /\ session' = Updated(s, "Completed")
  /\ result' = [result EXCEPT ![s] = "Succeeded"]
  /\ Goto(s, "returned")
  /\ UNCHANGED <<jobs, handling, calls, index, operations, closing, history>>

\* What JobService does when the function has returned or thrown: the test for
\* a terminal job, the test for a cancellation request, and the update.
CheckTerminal(s) ==
  /\ at[s] \in {"returned", "thrown"}
  /\ Goto(s, IF job[s] \in TerminalJob \cup {"Missing"} THEN "done"
             ELSE IF at[s] = "returned" THEN "open" ELSE "settle")
  /\ UNCHANGED <<session, jobs, handling, result, calls, index, operations, closing, history>>

CheckCancellation(s) ==
  /\ at[s] = "open"
  /\ result' = [result EXCEPT ![s] = IF s \in cancelRequested THEN "Cancelled" ELSE @]
  /\ Goto(s, "settle")
  /\ UNCHANGED <<session, jobs, handling, calls, index, operations, closing, history>>

Settle(s) ==
  /\ at[s] = "settle"
  /\ job' = [job EXCEPT ![s] = IF @ = "Missing" THEN @ ELSE result[s]]
  /\ handlers' = handlers \ {s}
  /\ Goto(s, "done")
  /\ UNCHANGED <<session, cancelRequested, cancellable, handling, result, calls, index,
                 operations, closing, history>>

-----------------------------------------------------------------------------
(* The task of the operation the session waits for.  Its callbacks tell    *)
(* the session that it is running.                                         *)

RunOperation(s) ==
  /\ operation[s] = "queued"
  /\ operation' = [operation EXCEPT ![s] = "running"]
  /\ session' = Updated(s, "Running")
  /\ UNCHANGED <<jobs, handling, task, record, closing, history>>

\* Done, failed or denied by ApprovalService: an event, the result, the promise.
EndOperation(s, ok) ==
  /\ operation[s] = "running"
  /\ operation' = [operation EXCEPT ![s] = IF ok THEN "ok" ELSE "failed"]
  /\ record' = [record EXCEPT ![s][index[s]] = IF ok THEN "Completed" ELSE "Failed"]
  /\ session' = Updated(s, "Running")
  /\ UNCHANGED <<jobs, handling, task, closing, history>>

-----------------------------------------------------------------------------
Task(s) ==
  \/ RunTask(s) \/ NoticeCancel(s) \/ SessionGone(s) \/ Begin(s)
  \/ CollectContext(s) \/ AskModel(s)
  \/ CallTools(s) \/ NextCall(s) \/ BeginCall(s)
  \/ CallSucceeded(s) \/ CallFailed(s) \/ CallBroken(s)
  \/ JudgeEnded(s) \/ JudgeOpen(s) \/ Complete(s)
  \/ CheckTerminal(s) \/ CheckCancellation(s) \/ Settle(s)

\* What the collector and the model provider do.
Model(s) == Delta(s) \/ ModelFails(s) \/ ModelResponds(s) \/ Throw(s)

Operation(s) == RunOperation(s) \/ \E ok \in BOOLEAN : EndOperation(s, ok)

Starter(s) ==
  CreateSession(s) \/ CreateJob(s) \/ SetCancellable(s) \/ SetCancelHandler(s) \/ Submit(s)

Next ==
  \/ \E s \in Session : \/ CancelSession(s) \/ RequestCancel(s) \/ Terminate(s)
                        \/ HandleCancel(s) \/ Starter(s) \/ Task(s) \/ Model(s) \/ Operation(s)
  \/ ClearJobs
  \/ ClearSessions

Spec == Init /\ [][Next]_vars

\* The pool runs the tasks (AsyncRuntime!PromisedTasksEnd) and a Close that has
\* begun to clear goes on.  Nothing makes a model provider answer or an
\* operation come back: a cancellation reaches neither.
Fairness ==
  /\ \A s \in Session : WF_vars(Task(s)) /\ WF_vars(RunOperation(s))
  /\ WF_vars(ClearSessions)

FairSpec == Spec /\ Fairness

-----------------------------------------------------------------------------
(* What the session table promises.                                        *)

Position == {"none", "created", "job", "cancellable", "handler", "queued", "start", "begun",
             "collected", "asking", "respond", "call", "calling", "waiting", "judge", "judged",
             "returned", "thrown", "open", "settle", "done"}

\* Every variable keeps the shape of the C++ member it stands for.
TypeOK ==
  /\ session \in [Session -> Open \cup Ended \cup {"Missing"}]
  /\ job \in [Session -> TerminalJob \cup {"Missing", "Pending", "Running"}]
  /\ cancelRequested \subseteq Session /\ cancellable \subseteq Session
  /\ handlers \subseteq Session /\ handling \subseteq Session
  /\ at \in [Session -> Position]
  /\ result \in [Session -> TerminalJob]
  /\ calls \in [Session -> 0 .. MaxCalls]
  /\ index \in [Session -> 0 .. MaxCalls]
  /\ operation \in [Session -> {"none", "queued", "running", "ok", "failed", "broken"}]
  /\ record \in [Session -> [1 .. MaxCalls -> {"None", "Started", "Completed", "Failed"}]]
  /\ closing \in {"open", "jobsCleared"}
  /\ lateCalls \in [Session -> Nat]
  /\ threw \subseteq Session /\ missed \subseteq Session

\* A session that was cancelled starts at most one more operation: the one its
\* task was about to begin when it last looked.
CancelStopsCalls == \A s \in Session : lateCalls[s] <= 1

\* Once the task has ended, its job and its session agree.  A job that succeeded
\* has a completed session, or one that was cancelled between the last look at
\* it and its completion.  A job that failed has a session that failed or was
\* cancelled, and a session is left open only if the collector or the model
\* provider threw.  A completed session's job was cancelled only on request.
\* (RunSession, CancelSession, JobService::Submit, WorkspaceRuntime::Close.)
OutcomesAgree ==
  \A s \in Session : at[s] = "done" =>
    /\ job[s] = "Succeeded" =>
         session[s] = "Completed" \/ (session[s] = "Cancelled" /\ s \in missed)
    /\ job[s] = "Failed" =>
         session[s] \in {"Failed", "Cancelled"} \/ (session[s] \in Open /\ s \in threw)
    /\ job[s] = "Cancelled" => s \in cancelRequested
    /\ session[s] = "Completed" => job[s] \in {"Succeeded", "Cancelled", "Missing"}
    /\ session[s] \in Open => s \in threw \/ closing = "jobsCleared"

\* What a session and its job keep in every state (RunSession, Cancel, Clear).
SessionConsistent == TypeOK /\ OutcomesAgree

\* A completed session has begun every tool call of the response, and the
\* record of each says that it succeeded.
CompletedRanEveryCall ==
  \A s \in Session : session[s] = "Completed" =>
    /\ index[s] = calls[s]
    /\ \A k \in 1 .. calls[s] : record[s][k] = "Completed"

\* If the model provider answers and every operation comes back, a session whose
\* task is queued ends or is cleared (RunSession, Close).  One whose collector or
\* provider throws does not: it stays open when the task has ended.
OthersComeBack(s) == []<>(at[s] # "asking") /\ []<>(operation[s] # "running")

SessionsEnd ==
  \A s \in Session :
    OthersComeBack(s) =>
      (at[s] = "queued" ~> session[s] \in Ended \cup {"Missing"} \/ s \in threw)

\* What the code does not give (MCAgentTables.cfg refutes both): a job that
\* succeeded has a completed session (agent_runtime.cpp:146-153), and no session
\* outlives its task (agent_runtime.cpp:76,112).
SuccessCompletes ==
  \A s \in Session : at[s] = "done" /\ job[s] = "Succeeded" => session[s] = "Completed"
NoneLeftOpen ==
  \A s \in Session : at[s] = "done" /\ job[s] # "Missing" => session[s] \in Ended
=============================================================================
