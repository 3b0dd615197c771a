-------------------------- MODULE JobServiceProofs --------------------------
(* Proofs about JobService, for every number of jobs, callers and waiters. *)
EXTENDS JobService, TLAPS

\* What each owner position says of the record: before the final update the
\* status is not yet an outcome, after it the job is terminal or cleared.
Phases ==
  \A id \in JobId :
    /\ step[id] = "none" <=> id >= nextJobId
    /\ step[id] = "none" => status[id] = "Missing"
    /\ step[id] \in {"created", "queued", "checking", "body", "direct", "open", "settle"}
         => status[id] \notin {"Succeeded", "Failed"}
    /\ step[id] \in {"notify", "erase", "done"} => IsTerminal(id)
    /\ inner[id] => step[id] \in {"settle", "notify", "erase"}

\* Dependencies are older jobs; those Ready has read are Succeeded or cleared.
DependenciesRead ==
  \A id \in JobId :
    /\ \A dependency \in dependencies[id] : dependency < nextJobId
    /\ step[id] \in {"checking", "body"} =>
         \A dependency \in dependencies[id] :
           \/ step[id] = "checking" /\ dependency \in unread[id]
           \/ status[dependency] \in {"Succeeded", "Missing"}

\* The trace of a request that was there when the function returned.
ReturnTrace ==
  \A id \in JobId : cancelAtReturn[id] =>
    /\ step[id] \in {"returned", "open", "settle", "notify", "erase", "done"}
    /\ ~inner[id]
    /\ Exists(id) => cancelRequested[id]
    /\ step[id] = "returned" => status[id] \notin {"Succeeded", "Failed"}
    /\ step[id] = "settle" => ~Exists(id) \/ outcome[id] = "Cancelled"
    /\ step[id] \in {"notify", "erase", "done"} => status[id] \in {"Cancelled", "Missing"}

\* Whoever writes Cancelled next has seen a request, unless Clear intervened.
CancelTrace ==
  \A id \in JobId : outcome[id] = "Cancelled" =>
    /\ step[id] \in {"settle", "notify", "erase"}
    /\ step[id] = "settle" /\ Exists(id) => cancelRequested[id]

\* A caller that runs a handler or is about to notify still visits its job.
CallTrace ==
  \A c \in Callers : at[c] # "next" => todo[c] # {}

\* A waiter sleeps on a job.
WaitTrace ==
  \A w \in Waiters : wait[w] # "idle" => waitFor[w] \in JobId

\* Type correctness, for every value of the constants.
THEOREM TypeCorrect == Spec => []TypeOK
<1>1. Init => TypeOK
  BY JobAssumption DEF Init, TypeOK, JobId, JobStatus, Step, Terminal
<1>2. TypeOK /\ [Next]_vars => TypeOK'
  <2> SUFFICES ASSUME TypeOK, [Next]_vars PROVE TypeOK'
    OBVIOUS
  <2> USE JobAssumption DEF TypeOK, JobStatus, Step, Terminal, record, owner, calls, waits
  <2>1. CASE Create
    BY <2>1 DEF Create, JobId
  <2>2. ASSUME NEW id \in JobId, Creator(id) PROVE TypeOK'
    <3>1. CASE MarkRunning(id)
      BY <3>1 DEF MarkRunning, UpdatedStatus
    <3>2. CASE \E allowed \in BOOLEAN : SetCancellable(id, allowed)
      BY <3>2 DEF SetCancellable
    <3>3. CASE \E given \in BOOLEAN : SetCancelHandler(id, given)
      BY <3>3 DEF SetCancelHandler
    <3>4. CASE FinishSetCancelHandler(id)
      BY <3>4 DEF FinishSetCancelHandler
    <3>5. CASE Submit(id)
      BY <3>5 DEF Submit
    <3>6. CASE WorkDirectly(id)
      BY <3>6 DEF WorkDirectly
    <3>7. CASE \E result \in {"Succeeded", "Failed"} : FinishDirectly(id, result)
      BY <3>7 DEF FinishDirectly
    <3>8. QED
      BY <2>2, <3>1, <3>2, <3>3, <3>4, <3>5, <3>6, <3>7 DEF Creator
  <2>3. ASSUME NEW id \in JobId, Task(id) PROVE TypeOK'
    <3>1. CASE StartTask(id)
      BY <3>1, SMTT(30) DEF StartTask
    <3>2. CASE CheckDependency(id)
      BY <3>2, SMTT(30) DEF CheckDependency
    <3>3. CASE RunFunction(id)
      BY <3>3 DEF RunFunction, UpdatedStatus
    <3>4. CASE \E result \in {"Succeeded", "Failed"} : FinishedEvent(id, result)
      BY <3>4 DEF FinishedEvent, Decided
    <3>5. CASE \E result \in {"Succeeded", "Failed"} : Return(id, result)
      <4>1. CancellationRequested(id) \in BOOLEAN
        BY DEF CancellationRequested, Exists
      <4>2. QED
        BY <3>5, <4>1 DEF Return
    <3>6. CASE Throw(id)
      BY <3>6 DEF Throw
    <3>7. CASE CheckTerminal(id)
      <4>1. AfterFunction(id) \in Step
        BY <3>7 DEF CheckTerminal, AfterFunction, AfterFunctionUnchecked
      <4>2. QED
        BY <3>7, <4>1 DEF CheckTerminal
    <3>8. CASE CheckCancellation(id)
      BY <3>8 DEF CheckCancellation, Decided
    <3>9. CASE Settle(id)
      BY <3>9 DEF Settle, UpdatedStatus
    <3>10. CASE Notify(id)
      BY <3>10 DEF Notify, Woken
    <3>11. CASE EraseHandler(id)
      BY <3>11 DEF EraseHandler
    <3>12. QED
      BY <2>3, <3>1, <3>2, <3>3, <3>4, <3>5, <3>6, <3>7, <3>8, <3>9, <3>10, <3>11 DEF Task
  <2>4. ASSUME NEW c \in Callers, Caller(c) PROVE TypeOK'
    <3>1. CASE Call(c, "cancel") \/ Call(c, "terminate")
      BY <3>1, SMTT(30) DEF Call
    <3>2. CASE Refused(c)
      BY <3>2 DEF Refused
    <3>3. CASE RequestCancel(c)
      BY <3>3, SMTT(30) DEF RequestCancel
    <3>4. CASE Terminate(c)
      <4>1. PICK id \in JobId :
              /\ cancelRequested' = [cancelRequested EXCEPT ![id] = TRUE]
              /\ status' = [status EXCEPT ![id] = "Cancelled"]
              /\ cancelHandlers' = cancelHandlers \ {id}
              /\ at' = [at EXCEPT ![c] = IF id \in cancelHandlers THEN "handler" ELSE "notify"]
        BY <3>4 DEF Terminate
      <4>2. at' \in [Callers -> {"next", "handler", "notify"}]
        BY <4>1
      <4>3. QED
        BY <3>4, <4>1, <4>2 DEF Terminate
    <3>5. CASE RunHandler(c)
      BY <3>5, SMTT(30) DEF RunHandler
    <3>6. CASE NotifyTerminated(c)
      BY <3>6 DEF NotifyTerminated, Woken
    <3>7. QED
      BY <2>4, <3>1, <3>2, <3>3, <3>4, <3>5, <3>6 DEF Caller
  <2>5. CASE Clear
    BY <2>5 DEF Clear, Woken
  <2>6. ASSUME NEW w \in Waiters, Waiter(w) PROVE TypeOK'
    BY <2>6 DEF Waiter, Wait, Wake, WaitTimeout
  <2>7. CASE UNCHANGED vars
    BY <2>7 DEF vars
  <2>8. QED
    BY <2>1, <2>2, <2>3, <2>4, <2>5, <2>6, <2>7 DEF Next
<1>3. QED
  BY <1>1, <1>2, PTL DEF Spec

\* The owner's position and the record agree, for every value of the constants.
THEOREM PhasesHold == Spec => []Phases
<1>1. Init => Phases
  BY DEF Init, Phases, JobId
<1>2. TypeOK /\ Phases /\ [Next]_vars => Phases'
  <2> SUFFICES ASSUME TypeOK, Phases, [Next]_vars PROVE Phases'
    OBVIOUS
  <2> USE JobAssumption DEF TypeOK, Phases, Exists, IsTerminal, IsTerminalStatus,
        JobStatus, Step, Terminal, record, owner, calls, waits
  <2>1. CASE Create
    BY <2>1 DEF Create, JobId
  <2>2. ASSUME NEW id \in JobId, Creator(id) PROVE Phases'
    <3>1. CASE MarkRunning(id)
      BY <3>1 DEF MarkRunning, UpdatedStatus
    <3>2. CASE \E allowed \in BOOLEAN : SetCancellable(id, allowed)
      BY <3>2 DEF SetCancellable
    <3>3. CASE \E given \in BOOLEAN : SetCancelHandler(id, given)
      BY <3>3 DEF SetCancelHandler
    <3>4. CASE FinishSetCancelHandler(id)
      BY <3>4 DEF FinishSetCancelHandler
    <3>5. CASE Submit(id)
      BY <3>5 DEF Submit
    <3>6. CASE WorkDirectly(id)
      BY <3>6 DEF WorkDirectly
    <3>7. CASE \E result \in {"Succeeded", "Failed"} : FinishDirectly(id, result)
      BY <3>7 DEF FinishDirectly
    <3>8. QED
      BY <2>2, <3>1, <3>2, <3>3, <3>4, <3>5, <3>6, <3>7 DEF Creator
  <2>3. ASSUME NEW id \in JobId, Task(id) PROVE Phases'
    <3>1. CASE StartTask(id)
      BY <3>1 DEF StartTask
    <3>2. CASE CheckDependency(id)
      BY <3>2 DEF CheckDependency
    <3>3. CASE RunFunction(id)
      BY <3>3 DEF RunFunction, UpdatedStatus
    <3>4. CASE \E result \in {"Succeeded", "Failed"} : FinishedEvent(id, result)
      BY <3>4 DEF FinishedEvent
    <3>5. CASE \E result \in {"Succeeded", "Failed"} : Return(id, result)
      BY <3>5 DEF Return
    <3>6. CASE Throw(id)
      BY <3>6 DEF Throw
    <3>7. CASE CheckTerminal(id)
      BY <3>7 DEF CheckTerminal, AfterFunction, AfterFunctionUnchecked
    <3>8. CASE CheckCancellation(id)
      BY <3>8 DEF CheckCancellation
    <3>9. CASE Settle(id)
      BY <3>9 DEF Settle, UpdatedStatus
    <3>10. CASE Notify(id)
      BY <3>10 DEF Notify
    <3>11. CASE EraseHandler(id)
      BY <3>11 DEF EraseHandler
    <3>12. QED
      BY <2>3, <3>1, <3>2, <3>3, <3>4, <3>5, <3>6, <3>7, <3>8, <3>9, <3>10, <3>11 DEF Task
  <2>4. ASSUME NEW c \in Callers, Caller(c) PROVE Phases'
    <3>1. CASE Terminate(c)
      BY <3>1 DEF Terminate
    <3>2. CASE UNCHANGED <<status, step, inner, nextJobId>>
      BY <3>2
    <3>3. QED
      BY <2>4, <3>1, <3>2 DEF Caller, Call, Refused, RequestCancel, RunHandler, NotifyTerminated
  <2>5. CASE Clear
    BY <2>5 DEF Clear
  <2>6. ASSUME NEW w \in Waiters, Waiter(w) PROVE Phases'
    BY <2>6 DEF Waiter, Wait, Wake, WaitTimeout
  <2>7. CASE UNCHANGED vars
    BY <2>7 DEF vars
  <2>8. QED
    BY <2>1, <2>2, <2>3, <2>4, <2>5, <2>6, <2>7 DEF Next
<1>3. QED
  BY <1>1, <1>2, TypeCorrect, PTL DEF Spec

\* One step changes the status of a job only while its owner has work left,
\* and never changes Succeeded or Failed: only Clear takes them away.
Final(id) ==
  status[id] \in {"Succeeded", "Failed"} \/ step[id] = "done"
    => status'[id] \in {status[id], "Missing"}

LEMMA FinalStep ==
  ASSUME TypeOK, Phases, [Next]_vars, NEW id \in JobId
  PROVE  Final(id)
<1> USE DEF TypeOK, Phases, Final, UpdatedStatus, Exists, IsTerminal, IsTerminalStatus,
      Terminal, record
<1>1. CASE Create
  BY <1>1 DEF Create, JobId
<1>2. ASSUME NEW j \in JobId, Creator(j) \/ Task(j) PROVE Final(id)
  <2>1. CASE MarkRunning(j) \/ RunFunction(j) \/ Settle(j)
    BY <2>1 DEF MarkRunning, RunFunction, Settle
  <2>2. CASE status' = status
    BY <2>2
  <2>3. QED
    BY <1>2, <2>1, <2>2 DEF Creator, Task, SetCancellable, SetCancelHandler,
      FinishSetCancelHandler, Submit, WorkDirectly, FinishDirectly, StartTask,
      CheckDependency, FinishedEvent, Return, Throw, CheckTerminal,
      CheckCancellation, Notify, EraseHandler
<1>3. ASSUME NEW c \in Callers, Caller(c) PROVE Final(id)
  <2>1. CASE Terminate(c)
    BY <2>1 DEF Terminate
  <2>2. CASE status' = status
    BY <2>2
  <2>3. QED
    BY <1>3, <2>1, <2>2 DEF Caller, Call, Refused, RequestCancel, RunHandler, NotifyTerminated
<1>4. CASE Clear
  BY <1>4 DEF Clear
<1>5. ASSUME NEW w \in Waiters, Waiter(w) PROVE Final(id)
  BY <1>5 DEF Waiter, Wait, Wake, WaitTimeout
<1>6. CASE UNCHANGED vars
  BY <1>6 DEF vars
<1>7. QED
  BY <1>1, <1>2, <1>3, <1>4, <1>5, <1>6 DEF Next

\* Succeeded and Failed are final, and so is every job whose owner is done.
THEOREM OutcomesFinal == Spec => OutcomesAreFinal
<1>1. TypeOK /\ Phases /\ [Next]_vars =>
        [\A id \in JobId :
           status[id] \in {"Succeeded", "Failed"} \/ step[id] = "done"
             => status'[id] \in {status[id], "Missing"}]_vars
  BY FinalStep DEF Final
<1>2. QED
  BY <1>1, TypeCorrect, PhasesHold, PTL DEF Spec, OutcomesAreFinal

\* No task leaves its job Pending or Running behind.
THEOREM FinishedTerminal == Spec => []FinishedJobsAreTerminal
<1>1. Phases => FinishedJobsAreTerminal
  BY DEF Phases, FinishedJobsAreTerminal
<1>2. QED
  BY <1>1, PhasesHold, PTL

\* A dependency that was read as Succeeded stays so, or is cleared.
THEOREM DependenciesHold == Spec => [](DependenciesRead /\ DependenciesSucceeded)
<1>1. Init => DependenciesRead
  BY DEF Init, DependenciesRead
<1>2. TypeOK /\ Phases /\ DependenciesRead /\ [Next]_vars => DependenciesRead'
  <2> SUFFICES ASSUME TypeOK, Phases, DependenciesRead, [Next]_vars
               PROVE  DependenciesRead'
    OBVIOUS
  <2> USE DEF TypeOK, DependenciesRead, record, owner, calls, waits
  <2>1. CASE Create
    BY <2>1 DEF Create, JobId, Phases
  <2>2. ASSUME NEW id \in JobId, Creator(id) \/ Task(id) PROVE DependenciesRead'
    <3>1. CASE MarkRunning(id)
      BY <3>1 DEF MarkRunning, UpdatedStatus, Exists, Phases
    <3>2. CASE Settle(id)
      BY <3>2 DEF Settle, UpdatedStatus, Exists, Phases
    <3>3. CASE RunFunction(id)
      BY <3>3 DEF RunFunction, UpdatedStatus, Exists, Phases
    <3>4. CASE StartTask(id)
      BY <3>4, SMTT(30) DEF StartTask
    <3>5. CASE CheckDependency(id)
      BY <3>5 DEF CheckDependency, DependencyMet
    <3>6. CASE UNCHANGED <<status, dependencies, nextJobId, unread>> /\ step'[id] \notin {"checking", "body"}
      <4>1. \A j \in JobId : step'[j] = step[j] \/ step'[j] \notin {"checking", "body"}
        BY <2>2, <3>6 DEF Creator, Task, MarkRunning, SetCancellable, SetCancelHandler,
          FinishSetCancelHandler, Submit, WorkDirectly, FinishDirectly, StartTask,
          CheckDependency, RunFunction, FinishedEvent, Return, Throw, CheckTerminal,
          CheckCancellation, Settle, Notify, EraseHandler
      <4>2. QED
        BY <3>6, <4>1
    <3>7. CASE UNCHANGED <<status, dependencies, nextJobId, unread, step>>
      BY <3>7
    <3>8. QED
      BY <2>2, <3>1, <3>2, <3>3, <3>4, <3>5, <3>6, <3>7 DEF Creator, Task, SetCancellable,
        SetCancelHandler, FinishSetCancelHandler, Submit, WorkDirectly, FinishDirectly,
        FinishedEvent, Return, Throw, CheckTerminal, AfterFunction, AfterFunctionUnchecked,
        CheckCancellation, Notify, EraseHandler
  <2>3. ASSUME NEW c \in Callers, Caller(c) PROVE DependenciesRead'
    <3>1. CASE Terminate(c)
      BY <3>1 DEF Terminate, IsTerminal, IsTerminalStatus, Terminal, Exists
    <3>2. CASE UNCHANGED <<status, dependencies, nextJobId, unread, step>>
      BY <3>2
    <3>3. QED
      BY <2>3, <3>1, <3>2 DEF Caller, Call, Refused, RequestCancel, RunHandler, NotifyTerminated
  <2>4. CASE Clear
    BY <2>4 DEF Clear
  <2>5. ASSUME NEW w \in Waiters, Waiter(w) PROVE DependenciesRead'
    BY <2>5 DEF Waiter, Wait, Wake, WaitTimeout
  <2>6. CASE UNCHANGED vars
    BY <2>6 DEF vars
  <2>7. QED
    BY <2>1, <2>2, <2>3, <2>4, <2>5, <2>6 DEF Next
<1>3. DependenciesRead => DependenciesSucceeded
  BY DEF DependenciesRead, DependenciesSucceeded
<1>4. QED
  BY <1>1, <1>2, <1>3, TypeCorrect, PhasesHold, PTL DEF Spec

\* No job shows as cancelled unless RequestCancel or Terminate asked for it.
CancelledOnRequest ==
  \A id \in JobId : status[id] = "Cancelled" => cancelRequested[id]

CancelInv == ReturnTrace /\ CancelTrace /\ CancelledOnRequest

\* Cancelled is only ever shown on request, and a request that was there when
\* the function returned decides the outcome (Decided, Terminate).
THEOREM CancellationHonoured == Spec => [](CancelledOnRequest /\ AcceptedCancelHonoured)
<1>1. Init => CancelInv
  BY DEF Init, CancelInv, ReturnTrace, CancelTrace, CancelledOnRequest
<1>2. TypeOK /\ Phases /\ CancelInv /\ [Next]_vars => CancelInv'
  <2> SUFFICES ASSUME TypeOK, Phases, CancelInv, [Next]_vars PROVE CancelInv'
    OBVIOUS
  <2> USE DEF TypeOK, CancelInv, ReturnTrace, CancelTrace, CancelledOnRequest, Exists,
        record, owner, calls, waits
  <2>1. CASE Create
    BY <2>1 DEF Create, Phases, JobId
  <2>2. ASSUME NEW id \in JobId, Creator(id) PROVE CancelInv'
    <3>1. CASE MarkRunning(id)
      BY <3>1 DEF MarkRunning, UpdatedStatus
    <3>2. CASE FinishDirectly(id, "Succeeded") \/ FinishDirectly(id, "Failed")
      BY <3>2, SMTT(30) DEF FinishDirectly
    <3>3. CASE /\ UNCHANGED <<status, cancelRequested, outcome, inner, cancelAtReturn>>
               /\ \/ UNCHANGED step
                  \/ step[id] = "created" /\ \E s \in {"queued", "done", "direct"} :
                                               step' = [step EXCEPT ![id] = s]
      BY <3>3
    <3>4. QED
      BY <2>2, <3>1, <3>2, <3>3 DEF Creator, SetCancellable, SetCancelHandler,
        FinishSetCancelHandler, Submit, WorkDirectly
  <2>3. ASSUME NEW id \in JobId, Task(id) PROVE CancelInv'
    <3>1. CASE StartTask(id)
      BY <3>1, SMTT(30) DEF StartTask
    <3>2. CASE CheckDependency(id)
      BY <3>2 DEF CheckDependency
    <3>3. CASE RunFunction(id)
      BY <3>3 DEF RunFunction, UpdatedStatus
    <3>4. CASE \E result \in {"Succeeded", "Failed"} : FinishedEvent(id, result)
      BY <3>4 DEF FinishedEvent, Decided, CancellationRequested
    <3>5. CASE \E result \in {"Succeeded", "Failed"} : Return(id, result)
      BY <3>5 DEF Return, CancellationRequested, Phases
    <3>6. CASE Throw(id)
      BY <3>6 DEF Throw
    <3>7. CASE CheckTerminal(id)
      BY <3>7 DEF CheckTerminal, AfterFunction, AfterFunctionUnchecked, IsTerminal,
        IsTerminalStatus, Terminal
    <3>8. CASE CheckCancellation(id)
      BY <3>8 DEF CheckCancellation, Decided, CancellationRequested
    <3>9. CASE Settle(id)
      BY <3>9 DEF Settle, UpdatedStatus
    <3>10. CASE Notify(id)
      BY <3>10 DEF Notify
    <3>11. CASE EraseHandler(id)
      BY <3>11 DEF EraseHandler
    <3>12. QED
      BY <2>3, <3>1, <3>2, <3>3, <3>4, <3>5, <3>6, <3>7, <3>8, <3>9, <3>10, <3>11 DEF Task
  <2>4. ASSUME NEW c \in Callers, Caller(c) PROVE CancelInv'
    <3>1. CASE Terminate(c)
      BY <3>1 DEF Terminate, Phases, IsTerminal, IsTerminalStatus, Terminal
    <3>2. CASE RequestCancel(c)
      BY <3>2 DEF RequestCancel
    <3>3. CASE UNCHANGED <<record, owner>>
      BY <3>3
    <3>4. QED
      BY <2>4, <3>1, <3>2, <3>3 DEF Caller, Call, Refused, RunHandler, NotifyTerminated
  <2>5. CASE Clear
    BY <2>5 DEF Clear
  <2>6. ASSUME NEW w \in Waiters, Waiter(w) PROVE CancelInv'
    BY <2>6 DEF Waiter, Wait, Wake, WaitTimeout
  <2>7. CASE UNCHANGED vars
    BY <2>7 DEF vars
  <2>8. QED
    BY <2>1, <2>2, <2>3, <2>4, <2>5, <2>6, <2>7 DEF Next
<1>3. CancelInv => CancelledOnRequest /\ AcceptedCancelHonoured
  BY DEF CancelInv, ReturnTrace, AcceptedCancelHonoured, CancelledOnRequest
<1>4. QED
  BY <1>1, <1>2, <1>3, TypeCorrect, PhasesHold, PTL DEF Spec

\* Cancel handlers do not outlive the jobs they cancel.
THEOREM HandlersOpen == Spec => []HandlersBelongToOpenJobs
<1>1. Init => HandlersBelongToOpenJobs
  BY DEF Init, HandlersBelongToOpenJobs
<1>2. TypeOK /\ Phases /\ HandlersBelongToOpenJobs /\ [Next]_vars => HandlersBelongToOpenJobs'
  <2> SUFFICES ASSUME TypeOK, Phases, HandlersBelongToOpenJobs, [Next]_vars
               PROVE  HandlersBelongToOpenJobs'
    OBVIOUS
  <2> USE DEF TypeOK, HandlersBelongToOpenJobs, Exists, IsTerminalStatus, Terminal,
        record, owner, calls, waits
  <2>1. CASE Create
    BY <2>1 DEF Create, JobId
  <2>2. ASSUME NEW id \in JobId, Creator(id) PROVE HandlersBelongToOpenJobs'
    <3>1. CASE MarkRunning(id)
      BY <3>1 DEF MarkRunning, UpdatedStatus
    <3>2. CASE \E given \in BOOLEAN : SetCancelHandler(id, given)
      BY <3>2 DEF SetCancelHandler, AcceptsHandler, IsTerminal
    <3>3. CASE /\ UNCHANGED <<status, cancelHandlers>>
               /\ \/ UNCHANGED step
                  \/ step[id] \notin {"notify", "erase"} /\ \E s \in Step : step' = [step EXCEPT ![id] = s]
      BY <3>3
    <3>4. QED
      BY <2>2, <3>1, <3>2, <3>3 DEF Creator, SetCancellable, FinishSetCancelHandler,
        Submit, WorkDirectly, FinishDirectly, Step
  <2>3. ASSUME NEW id \in JobId, Task(id) PROVE HandlersBelongToOpenJobs'
    <3>1. CASE RunFunction(id)
      BY <3>1 DEF RunFunction, UpdatedStatus
    <3>2. CASE Settle(id)
      BY <3>2 DEF Settle, UpdatedStatus
    <3>3. CASE Notify(id)
      BY <3>3 DEF Notify
    <3>4. CASE EraseHandler(id)
      BY <3>4 DEF EraseHandler
    <3>5. CASE /\ UNCHANGED <<status, cancelHandlers>>
               /\ \/ UNCHANGED step
                  \/ step[id] \notin {"notify", "erase"} /\ \E s \in Step : step' = [step EXCEPT ![id] = s]
      BY <3>5
    <3>6. QED
      BY <2>3, <3>1, <3>2, <3>3, <3>4, <3>5 DEF Task, StartTask, CheckDependency,
        FinishedEvent, Return, Throw, CheckTerminal, CheckCancellation, Step,
        AfterFunction, AfterFunctionUnchecked
  <2>4. ASSUME NEW c \in Callers, Caller(c) PROVE HandlersBelongToOpenJobs'
    <3>1. CASE Terminate(c)
      BY <3>1 DEF Terminate
    <3>2. CASE UNCHANGED <<status, step, cancelHandlers>>
      BY <3>2
    <3>3. QED
      BY <2>4, <3>1, <3>2 DEF Caller, Call, Refused, RequestCancel, RunHandler, NotifyTerminated
  <2>5. CASE Clear
    BY <2>5 DEF Clear
  <2>6. ASSUME NEW w \in Waiters, Waiter(w) PROVE HandlersBelongToOpenJobs'
    BY <2>6 DEF Waiter, Wait, Wake, WaitTimeout
  <2>7. CASE UNCHANGED vars
    BY <2>7 DEF vars
  <2>8. QED
    BY <2>1, <2>2, <2>3, <2>4, <2>5, <2>6, <2>7 DEF Next
<1>3. QED
  BY <1>1, <1>2, TypeCorrect, PhasesHold, PTL DEF Spec

\* No waiter sleeps on a finished job without a notification on its way.
WakeInv == CallTrace /\ WaitTrace /\ NoLostWakeup

THEOREM WakeupsArrive == Spec => []NoLostWakeup
<1>1. Init => WakeInv
  BY DEF Init, WakeInv, CallTrace, WaitTrace, NoLostWakeup
<1>2. TypeOK /\ Phases /\ WakeInv /\ [Next]_vars => WakeInv'
  <2> SUFFICES ASSUME TypeOK, Phases, WakeInv, [Next]_vars PROVE WakeInv'
    OBVIOUS
  <2> USE DEF TypeOK, WakeInv, CallTrace, WaitTrace, NoLostWakeup, Visits, Exists,
        IsTerminal, IsTerminalStatus, Terminal, record, owner, calls, waits
  <2>1. CASE Create
    BY <2>1 DEF Create, JobId, Phases
  <2>2. ASSUME NEW id \in JobId, Creator(id) PROVE WakeInv'
    <3>1. CASE MarkRunning(id)
      BY <3>1 DEF MarkRunning, UpdatedStatus
    <3>2. CASE /\ UNCHANGED <<status, calls, waits>>
               /\ step[id] # "notify"
               /\ \E s \in Step : step' = [step EXCEPT ![id] = s]
      BY <3>2
    <3>3. CASE UNCHANGED <<status, step, calls, waits>>
      BY <3>3
    <3>4. QED
      BY <2>2, <3>1, <3>2, <3>3 DEF Creator, SetCancellable, SetCancelHandler,
        FinishSetCancelHandler, Submit, WorkDirectly, FinishDirectly, Step
  <2>3. ASSUME NEW id \in JobId, Task(id) PROVE WakeInv'
    <3>1. CASE RunFunction(id)
      BY <3>1 DEF RunFunction, UpdatedStatus
    <3>2. CASE Settle(id)
      BY <3>2 DEF Settle, UpdatedStatus
    <3>3. CASE Notify(id)
      BY <3>3 DEF Notify, Woken
    <3>4. CASE /\ UNCHANGED <<status, calls, waits>>
               /\ step[id] # "notify"
               /\ \E s \in Step : step' = [step EXCEPT ![id] = s]
      BY <3>4
    <3>5. CASE UNCHANGED <<status, step, calls, waits>>
      BY <3>5
    <3>6. QED
      BY <2>3, <3>1, <3>2, <3>3, <3>4, <3>5 DEF Task, StartTask, CheckDependency,
        FinishedEvent, Return, Throw, CheckTerminal, CheckCancellation, EraseHandler,
        Step, AfterFunction, AfterFunctionUnchecked
  <2>4. ASSUME NEW c \in Callers, Caller(c) PROVE WakeInv'
    <3>1. CASE Call(c, "cancel") \/ Call(c, "terminate")
      BY <3>1, SMTT(30) DEF Call
    <3>2. CASE Refused(c)
      BY <3>2 DEF Refused
    <3>3. CASE RequestCancel(c)
      BY <3>3, SMTT(30) DEF RequestCancel
    <3>4. CASE Terminate(c)
      BY <3>4 DEF Terminate
    <3>5. CASE RunHandler(c)
      BY <3>5, SMTT(30) DEF RunHandler
    <3>6. CASE NotifyTerminated(c)
      BY <3>6 DEF NotifyTerminated, Woken
    <3>7. QED
      BY <2>4, <3>1, <3>2, <3>3, <3>4, <3>5, <3>6 DEF Caller
  <2>5. CASE Clear
    BY <2>5 DEF Clear, Woken
  <2>6. ASSUME NEW w \in Waiters, Waiter(w) PROVE WakeInv'
    BY <2>6, SMTT(30) DEF Waiter, Wait, Wake, WaitTimeout
  <2>7. CASE UNCHANGED vars
    BY <2>7 DEF vars
  <2>8. QED
    BY <2>1, <2>2, <2>3, <2>4, <2>5, <2>6, <2>7 DEF Next
<1>3. QED
  BY <1>1, <1>2, TypeCorrect, PhasesHold, PTL DEF Spec, WakeInv

-----------------------------------------------------------------------------
\* The table stays sound for any number of jobs, callers and waiters (Create,
\* SetCancelHandler, Complete, Terminate and Clear in any order).
THEOREM StaysConsistent == Spec => []JobsConsistent
  BY TypeCorrect, HandlersOpen, FinishedTerminal, PTL DEF JobsConsistent
=============================================================================
