---------------------------- MODULE ExecutionProofs ----------------------------
(***************************************************************************)
(* Proofs about ExecutionService, for any number of executions and writes. *)
(* The inductive invariant says where the provider's thread can be, given  *)
(* what the handle, the process and the callback show; the properties and  *)
(* the steps of ExecutionContract follow from it action by action.         *)
(***************************************************************************)
EXTENDS MCExecution, TLAPS

-----------------------------------------------------------------------------
(* The inductive invariant.                                                *)

\* The thread's positions in the order it passes them.
BeforeStart == {"none", "create", "start", "tellStarted"}
Running_ == {"spawn", "read", "look", "reset", "finish"}
AfterResult == {"tellFinished", "ended"}

\* A result is there from the moment the end was emitted.
ResultPlaced ==
  \A e \in Execution : result[e] = None <=> thread[e] \notin AfterResult

\* A status of success or failure is not written before.
StatusPlaced ==
  \A e \in Execution :
    /\ result[e] = None => status[e] \notin {"Succeeded", "Failed"}
    /\ status[e] = "None" <=> thread[e] = "none"

\* A process that has to be waited for only exists while the thread polls.
ProcessPlaced ==
  \A e \in Execution :
    process[e] \in {"alive", "exited"} => thread[e] \in {"read", "look"}

\* What the callback has heard.
HeardPlaced ==
  \A e \in Execution :
    /\ thread[e] \in BeforeStart => heard[e] = "nothing"
    /\ thread[e] \in Running_ \cup {"tellFinished"} => heard[e] = "started"

Places == ResultPlaced /\ StatusPlaced /\ ProcessPlaced /\ HeardPlaced

-----------------------------------------------------------------------------
(* Types.                                                                  *)

LEMMA TerminateTypes ==
  ASSUME TypeOK, NEW e \in Execution, NEW c \in Code, Terminated(e, c)
  PROVE  /\ process' \in [Execution ->
                            {"none", "made", "alive", "exited", "reaped"}]
         /\ exitCode' \in [Execution -> Code]
  BY DEF TypeOK, Terminated

LEMMA UserTypes ==
  ASSUME TypeOK, NEW e \in Execution, User(e)
  PROVE  TypeOK'
<1>1. CASE Start(e)
  BY <1>1 DEF TypeOK, Start, child, ExecutionStatus, ThreadStep
<1>2. CASE StartWithoutProvider(e)
  BY <1>2 DEF TypeOK, StartWithoutProvider, child, ExecutionStatus, ThreadStep,
              Code
<1>3. CASE Cancel(e)
  <2>1. PICK c \in Code : Terminated(e, c)
    BY <1>3 DEF Cancel
  <2>2. status' \in [Execution -> ExecutionStatus]
    BY <1>3 DEF TypeOK, Cancel, CancelledStatus, ExecutionStatus
  <2> QED
    BY <1>3, <2>1, <2>2, TerminateTypes DEF TypeOK, Cancel
<1> QED
  BY <1>1, <1>2, <1>3 DEF User

LEMMA LookTypes ==
  ASSUME TypeOK, NEW e \in Execution, LookForExit(e)
  PROVE  TypeOK'
<1>1. CASE StopCancelled(e)
  <2>1. PICK c \in Code : Terminated(e, c)
    BY <1>1 DEF StopCancelled
  <2> QED
    BY <1>1, <2>1, TerminateTypes
       DEF TypeOK, LookForExit, StopCancelled, handle, ThreadStep
<1>2. CASE SeeExit(e)
  BY <1>2 DEF TypeOK, LookForExit, SeeExit, handle, ThreadStep
<1>3. CASE SeeAlive(e)
  BY <1>3 DEF TypeOK, LookForExit, SeeAlive, handle, ThreadStep
<1> QED
  BY <1>1, <1>2, <1>3 DEF LookForExit

LEMMA WorkerTypes ==
  ASSUME ExecutionAssumption, TypeOK, NEW e \in Execution, Worker(e)
  PROVE  TypeOK'
<1>1. CASE CreateProcess(e)
  BY <1>1 DEF TypeOK, CreateProcess, handle, ThreadStep
<1>2. CASE EmitStarted(e)
  BY <1>2 DEF TypeOK, EmitStarted, child, ThreadStep, ExecutionStatus
<1>3. CASE SpawnProcess(e)
  BY <1>3 DEF TypeOK, SpawnProcess, handle, ThreadStep
<1>4. CASE SpawnFails(e)
  BY <1>4 DEF TypeOK, SpawnFails, handle, ThreadStep, Code
<1>5. CASE ReadPipes(e)
  BY <1>5 DEF TypeOK, ReadPipes, handle, ThreadStep, ExecutionAssumption
<1>6. CASE LookForExit(e)
  BY <1>6, LookTypes
<1>7. CASE ResetProcess(e)
  BY <1>7 DEF TypeOK, ResetProcess, handle, ThreadStep
<1>8. CASE EmitFinished(e)
  BY <1>8 DEF TypeOK, EmitFinished, child, ThreadStep, ExecutionStatus,
              FinalStatus, FinalStatusByCode
<1> QED
  BY <1>1, <1>2, <1>3, <1>4, <1>5, <1>6, <1>7, <1>8 DEF Worker

-----------------------------------------------------------------------------
(* The unread chunks never exceed the writes, which types ProcessWrites.   *)

Pipes == \A e \in Execution : unread[e] <= writes[e]

LEMMA PipesStep ==
  ASSUME ExecutionAssumption, TypeOK, Pipes, Next
  PROVE  Pipes'
<1> PICK e \in Execution : User(e) \/ Worker(e) \/ Callback(e) \/ Process(e)
  BY DEF Next
<1>1. CASE ReadPipes(e)
  BY <1>1 DEF Pipes, TypeOK, ReadPipes
<1>2. CASE ProcessWrites(e)
  BY <1>2 DEF Pipes, TypeOK, ProcessWrites
<1>3. CASE ~ReadPipes(e) /\ ~ProcessWrites(e)
  <2>1. UNCHANGED <<writes, unread>>
    BY <1>3 DEF User, Start, StartWithoutProvider, Cancel, Worker,
                CreateProcess, EmitStarted, SpawnProcess, SpawnFails,
                LookForExit, ResetProcess, EmitFinished, Callback, TellStarted,
                TellFinished, Process, ProcessExits, child
  <2> QED
    BY <2>1 DEF Pipes
<1> QED
  BY <1>1, <1>2, <1>3

LEMMA TypesStep ==
  ASSUME ExecutionAssumption, TypeOK, Pipes, [Next]_executionVars
  PROVE  TypeOK'
<1>1. CASE UNCHANGED executionVars
  BY <1>1 DEF TypeOK, executionVars, handle, child
<1>2. CASE Next
  <2> PICK e \in Execution : User(e) \/ Worker(e) \/ Callback(e) \/ Process(e)
    BY <1>2 DEF Next
  <2>1. CASE TellStarted(e) \/ TellFinished(e)
    BY <2>1 DEF TypeOK, TellStarted, TellFinished, handle, child, ThreadStep
  <2>2. CASE ProcessWrites(e)
    <3>1. writes' \in [Execution -> 0 .. MaxWrites]
      BY <2>2 DEF TypeOK, ProcessWrites, ExecutionAssumption
    <3>2. unread' \in [Execution -> 0 .. MaxWrites]
      BY <2>2 DEF TypeOK, ProcessWrites, ExecutionAssumption, Pipes
    <3> QED
      BY <2>2, <3>1, <3>2 DEF TypeOK, ProcessWrites, handle
  <2>3. CASE ProcessExits(e)
    BY <2>3 DEF TypeOK, ProcessExits, handle
  <2> QED
    BY <2>1, <2>2, <2>3, UserTypes, WorkerTypes DEF Callback, Process
<1> QED
  BY <1>1, <1>2

\* A handle that has a result says the truth about it: Succeeded and Failed
\* follow the exit code, and Cancelled is only said when somebody asked for
\* it (EmitEvent, against Cancel at any moment).
StatusMatchesResult ==
  \A e \in Execution : result[e] # None =>
    \/ status[e] = "Succeeded" /\ result[e] = 0
    \/ status[e] = "Failed" /\ result[e] = 1
    \/ status[e] = "Cancelled" /\ cancelRequested[e]

LEMMA InitTypes ==
  ASSUME ExecutionAssumption, Init
  PROVE  TypeOK /\ Pipes /\ Places /\ StatusMatchesResult
<1>1. TypeOK
  BY DEF Init, TypeOK, ExecutionAssumption, ExecutionStatus, ThreadStep, Code
<1> QED
  BY <1>1 DEF Init, Pipes, Places, ResultPlaced, StatusPlaced, ProcessPlaced,
              HeardPlaced, StatusMatchesResult, AfterResult, BeforeStart,
              Running_

\* Every reachable state has the types the handles, the processes and the
\* threads of execution_service.cpp are declared with.
THEOREM TypeCorrect == ASSUME ExecutionAssumption PROVE Spec => []TypeOK
<1>1. Init => TypeOK /\ Pipes
  BY InitTypes
<1>2. TypeOK /\ Pipes /\ [Next]_executionVars => (TypeOK /\ Pipes)'
  <2> SUFFICES ASSUME TypeOK, Pipes, [Next]_executionVars
               PROVE  TypeOK' /\ Pipes'
    OBVIOUS
  <2>1. CASE UNCHANGED executionVars
    BY <2>1, TypesStep DEF Pipes, executionVars, child
  <2>2. CASE Next
    BY <2>2, TypesStep, PipesStep
  <2> QED
    BY <2>1, <2>2
<1> QED
  BY <1>1, <1>2, PTL DEF Spec
-----------------------------------------------------------------------------
(* Places.                                                                 *)

LEMMA UserPlaces ==
  ASSUME TypeOK, Places, NEW e \in Execution, User(e)
  PROVE  Places'
<1>1. CASE Start(e)
  BY <1>1 DEF TypeOK, Start, child, Places, ResultPlaced, StatusPlaced,
              ProcessPlaced, HeardPlaced, AfterResult, BeforeStart, Running_
<1>2. CASE StartWithoutProvider(e)
  BY <1>2 DEF TypeOK, StartWithoutProvider, child, Places, ResultPlaced,
              StatusPlaced, ProcessPlaced, HeardPlaced, AfterResult,
              BeforeStart, Running_, None
<1>3. CASE Cancel(e)
  <2>1. UNCHANGED <<result, thread, heard>>
    BY <1>3 DEF Cancel
  <2>2. ResultPlaced' /\ HeardPlaced'
    BY <2>1 DEF Places, ResultPlaced, HeardPlaced, AfterResult, BeforeStart,
                Running_
  <2>3. StatusPlaced'
    BY <1>3 DEF TypeOK, Cancel, CancelledStatus, Unfinished, Places,
                StatusPlaced
  <2>4. ProcessPlaced'
    BY <1>3 DEF TypeOK, Cancel, Terminated, Places, ProcessPlaced
  <2> QED
    BY <2>2, <2>3, <2>4 DEF Places
<1> QED
  BY <1>1, <1>2, <1>3 DEF User

LEMMA LookPlaces ==
  ASSUME TypeOK, Places, NEW e \in Execution, LookForExit(e)
  PROVE  Places'
<1>1. /\ UNCHANGED <<status, result, heard>>
      /\ \/ /\ thread' = [thread EXCEPT ![e] = "reset"]
            /\ process'[e] \notin {"alive", "exited"}
         \/ thread' = [thread EXCEPT ![e] = "read"]
      /\ \A f \in Execution \ {e} : process'[f] = process[f]
  <2>1. CASE StopCancelled(e)
    BY <2>1 DEF TypeOK, LookForExit, StopCancelled, Terminated, handle
  <2>2. CASE SeeExit(e)
    BY <2>2 DEF TypeOK, LookForExit, SeeExit, handle
  <2>3. CASE SeeAlive(e)
    BY <2>3 DEF TypeOK, LookForExit, SeeAlive, handle
  <2> QED
    BY <2>1, <2>2, <2>3 DEF LookForExit
<1>2. thread[e] = "look"
  BY DEF LookForExit
<1>3. ResultPlaced' /\ StatusPlaced' /\ HeardPlaced'
  BY <1>1, <1>2 DEF TypeOK, Places, ResultPlaced, StatusPlaced, HeardPlaced,
                    AfterResult, BeforeStart, Running_
<1>4. ProcessPlaced'
  <2> SUFFICES ASSUME NEW f \in Execution, process'[f] \in {"alive", "exited"}
               PROVE  thread'[f] \in {"read", "look"}
    BY DEF ProcessPlaced
  <2>1. CASE f = e
    BY <1>1, <2>1 DEF TypeOK
  <2>2. CASE f # e
    <3>1. process[f] \in {"alive", "exited"} /\ thread'[f] = thread[f]
      BY <1>1, <2>2 DEF TypeOK
    <3> QED
      BY <3>1 DEF Places, ProcessPlaced
  <2> QED
    BY <2>1, <2>2
<1> QED
  BY <1>3, <1>4 DEF Places

LEMMA WorkerPlaces ==
  ASSUME TypeOK, Places, NEW e \in Execution, Worker(e)
  PROVE  Places'
<1> USE DEF TypeOK, Places, ResultPlaced, StatusPlaced, ProcessPlaced,
            HeardPlaced, AfterResult, BeforeStart, Running_
<1>1. CASE CreateProcess(e)
  BY <1>1 DEF CreateProcess, handle
<1>2. CASE EmitStarted(e)
  BY <1>2 DEF EmitStarted, child
<1>3. CASE SpawnProcess(e)
  BY <1>3 DEF SpawnProcess, handle
<1>4. CASE SpawnFails(e)
  BY <1>4 DEF SpawnFails, handle
<1>5. CASE ReadPipes(e)
  BY <1>5 DEF ReadPipes, handle
<1>6. CASE LookForExit(e)
  BY <1>6, LookPlaces
<1>7. CASE ResetProcess(e)
  BY <1>7 DEF ResetProcess, handle
<1>8. CASE EmitFinished(e)
  BY <1>8 DEF EmitFinished, child, FinalStatus, FinalStatusByCode, Code, None
<1> QED
  BY <1>1, <1>2, <1>3, <1>4, <1>5, <1>6, <1>7, <1>8 DEF Worker

LEMMA OtherPlaces ==
  ASSUME TypeOK, Places, NEW e \in Execution, Callback(e) \/ Process(e)
  PROVE  Places'
<1> USE DEF TypeOK, Places, ResultPlaced, StatusPlaced, ProcessPlaced,
            HeardPlaced, AfterResult, BeforeStart, Running_
<1>1. CASE TellStarted(e)
  BY <1>1 DEF TellStarted, handle, child
<1>2. CASE TellFinished(e)
  BY <1>2 DEF TellFinished, handle, child
<1>3. CASE ProcessWrites(e)
  BY <1>3 DEF ProcessWrites, handle
<1>4. CASE ProcessExits(e)
  BY <1>4 DEF ProcessExits, handle
<1> QED
  BY <1>1, <1>2, <1>3, <1>4 DEF Callback, Process

LEMMA PlacesStep ==
  ASSUME TypeOK, Places, [Next]_executionVars
  PROVE  Places'
<1>1. CASE UNCHANGED executionVars
  BY <1>1 DEF executionVars, handle, child, Places, ResultPlaced, StatusPlaced,
              ProcessPlaced, HeardPlaced
<1>2. CASE Next
  BY <1>2, UserPlaces, WorkerPlaces, OtherPlaces DEF Next
<1> QED
  BY <1>1, <1>2

THEOREM PlacesHold == ASSUME ExecutionAssumption PROVE Spec => []Places
<1>1. Init => Places
  BY InitTypes
<1>2. TypeOK /\ Places /\ [Next]_executionVars => Places'
  BY PlacesStep
<1>3. Spec => []TypeOK
  BY TypeCorrect
<1> QED
  BY <1>1, <1>2, <1>3, PTL DEF Spec

-----------------------------------------------------------------------------
(* What the end of an execution says.                                      *)

\* Steps that change neither the status nor the result nor the request.
LEMMA QuietStep ==
  ASSUME NEW e \in Execution,
         \/ CreateProcess(e) \/ SpawnProcess(e) \/ SpawnFails(e)
         \/ ReadPipes(e) \/ LookForExit(e) \/ ResetProcess(e)
         \/ Callback(e) \/ Process(e)
  PROVE  UNCHANGED <<status, result, cancelRequested>>
BY DEF CreateProcess, SpawnProcess, SpawnFails, ReadPipes, LookForExit,
       ResetProcess, Callback, TellStarted, TellFinished, Process,
       ProcessWrites, ProcessExits, handle

\* Written by EmitEvent, read by everybody: the others leave it true.
LEMMA MatchesStep ==
  ASSUME TypeOK, Places, StatusMatchesResult, [Next]_executionVars
  PROVE  StatusMatchesResult'
<1>1. CASE UNCHANGED executionVars
  BY <1>1 DEF executionVars, handle, StatusMatchesResult
<1>2. CASE Next
  <2> PICK e \in Execution : User(e) \/ Worker(e) \/ Callback(e) \/ Process(e)
    BY <1>2 DEF Next
  <2>1. CASE Start(e)
    BY <2>1 DEF TypeOK, Start, StatusMatchesResult, Places, StatusPlaced,
                ResultPlaced, AfterResult
  <2>2. CASE StartWithoutProvider(e)
    BY <2>2 DEF TypeOK, StartWithoutProvider, StatusMatchesResult
  <2>3. CASE Cancel(e)
    BY <2>3 DEF TypeOK, Cancel, CancelledStatus, StatusMatchesResult
  <2>4. CASE EmitStarted(e)
    BY <2>4 DEF TypeOK, EmitStarted, StatusMatchesResult, Places, ResultPlaced,
                AfterResult
  <2>5. CASE EmitFinished(e)
    BY <2>5 DEF TypeOK, EmitFinished, FinalStatus, FinalStatusByCode, Code,
                StatusMatchesResult
  <2>6. CASE UNCHANGED <<status, result, cancelRequested>>
    BY <2>6 DEF StatusMatchesResult
  <2> QED
    BY <2>1, <2>2, <2>3, <2>4, <2>5, <2>6, QuietStep DEF User, Worker
<1> QED
  BY <1>1, <1>2

\* The handle tells the truth about a result (EmitEvent, CompletedHandle,
\* ExecutionHandle::Cancel).
THEOREM StatusTrue == ASSUME ExecutionAssumption PROVE Spec => []StatusMatchesResult
<1>1. Init => StatusMatchesResult
  BY InitTypes
<1>2. TypeOK /\ Places /\ StatusMatchesResult /\ [Next]_executionVars
        => StatusMatchesResult'
  BY MatchesStep
<1>3. Spec => []TypeOK
  BY TypeCorrect
<1>4. Spec => []Places
  BY PlacesHold
<1> QED
  BY <1>1, <1>2, <1>3, <1>4, PTL DEF Spec

\* An execution that has a result left no process behind (the end of
\* LocalExecutionProvider's thread).
THEOREM NoProcessLeft == ASSUME ExecutionAssumption PROVE Spec => []NoOrphan
<1>1. Places => NoOrphan
  BY DEF Places, ResultPlaced, ProcessPlaced, AfterResult, NoOrphan
<1>2. Spec => []Places
  BY PlacesHold
<1> QED
  BY <1>1, <1>2, PTL

\* For any number of executions, none that has a result left its process
\* running (Start's loop and Terminate).
THEOREM StaysConsistent == ASSUME ExecutionAssumption PROVE Spec => []ExecutionConsistent
  BY TypeCorrect, NoProcessLeft, PTL DEF ExecutionConsistent

-----------------------------------------------------------------------------
(* What a step may not do to an execution that has ended or is cancelled.  *)

LEMMA EndedStep ==
  ASSUME TypeOK, Places, StatusMatchesResult, Next, NEW f \in Execution,
         result[f] # None
  PROVE  result'[f] = result[f] /\ status'[f] = status[f]
<1> PICK e \in Execution : User(e) \/ Worker(e) \/ Callback(e) \/ Process(e)
  BY DEF Next
<1>0. /\ thread[f] \in AfterResult
      /\ status[f] \in {"Succeeded", "Failed", "Cancelled"}
  BY DEF Places, ResultPlaced, StatusMatchesResult
<1>1. CASE Start(e) \/ StartWithoutProvider(e)
  BY <1>0, <1>1 DEF TypeOK, Start, StartWithoutProvider
<1>2. CASE Cancel(e)
  BY <1>0, <1>2 DEF TypeOK, Cancel, CancelledStatus, Unfinished
<1>3. CASE EmitStarted(e) \/ EmitFinished(e)
  BY <1>0, <1>3 DEF TypeOK, EmitStarted, EmitFinished, AfterResult
<1>4. CASE UNCHANGED <<status, result, cancelRequested>>
  BY <1>4
<1> QED
  BY <1>1, <1>2, <1>3, <1>4, QuietStep DEF User, Worker

LEMMA CancelledStep ==
  ASSUME TypeOK, Places, Next, NEW f \in Execution,
         cancelRequested[f], result[f] = None
  PROVE  status'[f] # "Succeeded"
<1> PICK e \in Execution : User(e) \/ Worker(e) \/ Callback(e) \/ Process(e)
  BY DEF Next
<1>0. status[f] # "Succeeded"
  BY DEF Places, StatusPlaced
<1>1. CASE Start(e) \/ StartWithoutProvider(e)
  BY <1>0, <1>1 DEF TypeOK, Start, StartWithoutProvider
<1>2. CASE Cancel(e)
  BY <1>0, <1>2 DEF TypeOK, Cancel, CancelledStatus
<1>3. CASE EmitStarted(e) \/ EmitFinished(e)
  BY <1>0, <1>3 DEF TypeOK, EmitStarted, EmitFinished, FinalStatus
<1>4. CASE UNCHANGED <<status, result, cancelRequested>>
  BY <1>0, <1>4
<1> QED
  BY <1>1, <1>2, <1>3, <1>4, QuietStep DEF User, Worker

\* A result is final, and so is the status that came with it
\* (ExecutionHandle::Cancel after the end).
THEOREM ResultsFinal == ASSUME ExecutionAssumption PROVE Spec => ResultIsFinal
<1>1. TypeOK /\ Places /\ StatusMatchesResult /\ [Next]_executionVars
        => [\A e \in Execution : result[e] # None =>
              result'[e] = result[e] /\ status'[e] = status[e]]_executionVars
  BY EndedStep
<1>2. Spec => []TypeOK
  BY TypeCorrect
<1>3. Spec => []Places
  BY PlacesHold
<1>4. Spec => []StatusMatchesResult
  BY StatusTrue
<1> QED
  BY <1>1, <1>2, <1>3, <1>4, PTL DEF Spec, ResultIsFinal

\* An execution cancelled before its end never reports success, whatever its
\* process left with.
THEOREM CancellationsKept ==
  ASSUME ExecutionAssumption PROVE Spec => CancelledNeverSucceeds
<1>1. TypeOK /\ Places /\ [Next]_executionVars
        => [\A e \in Execution : cancelRequested[e] /\ result[e] = None =>
              status'[e] # "Succeeded"]_executionVars
  BY CancelledStep
<1>2. Spec => []TypeOK
  BY TypeCorrect
<1>3. Spec => []Places
  BY PlacesHold
<1> QED
  BY <1>1, <1>2, <1>3, PTL DEF Spec, CancelledNeverSucceeds

-----------------------------------------------------------------------------
(* Every step is one of ExecutionContract's, or leaves its variables alone.*)

LEMMA ContractStep ==
  ASSUME TypeOK, Places, Next
  PROVE  Contract!Next \/ UNCHANGED Contract!vars
<1> PICK e \in Execution : User(e) \/ Worker(e) \/ Callback(e) \/ Process(e)
  BY DEF Next
<1>1. CASE StartWithoutProvider(e)
  <2>1. heard[e] = "nothing" /\ result[e] = None
    BY <1>1 DEF StartWithoutProvider, Places, StatusPlaced, ResultPlaced,
                HeardPlaced, AfterResult, BeforeStart
  <2>2. Contract!Refuse(e, 1)
    BY <1>1, <2>1 DEF StartWithoutProvider, Contract!Refuse
  <2> QED
    BY <2>2 DEF Contract!Next, Code
<1>2. CASE TellStarted(e)
  <2>1. heard[e] = "nothing" /\ result[e] = None
    BY <1>2 DEF TellStarted, Places, ResultPlaced, HeardPlaced, AfterResult,
                BeforeStart
  <2>2. Contract!ReportStarted(e)
    BY <1>2, <2>1 DEF TellStarted, handle, Contract!ReportStarted
  <2> QED
    BY <2>2 DEF Contract!Next
<1>3. CASE EmitFinished(e)
  <2>1. heard[e] = "started" /\ result[e] = None /\ exitCode[e] \in Code
    BY <1>3 DEF TypeOK, EmitFinished, Places, ResultPlaced, HeardPlaced,
                AfterResult, Running_
  <2>2. Contract!Decide(e, exitCode[e])
    BY <1>3, <2>1 DEF EmitFinished, Contract!Decide
  <2> QED
    BY <2>1, <2>2 DEF Contract!Next
<1>4. CASE TellFinished(e)
  <2>1. heard[e] = "started" /\ result[e] # None
    BY <1>4 DEF TellFinished, Places, ResultPlaced, HeardPlaced, AfterResult,
                Running_
  <2>2. Contract!ReportFinished(e)
    BY <1>4, <2>1 DEF TellFinished, handle, Contract!ReportFinished
  <2> QED
    BY <2>2 DEF Contract!Next
<1>5. CASE \/ Start(e) \/ Cancel(e) \/ EmitStarted(e) \/ CreateProcess(e)
           \/ SpawnProcess(e) \/ SpawnFails(e) \/ ReadPipes(e)
           \/ LookForExit(e) \/ ResetProcess(e) \/ Process(e)
  <2>1. UNCHANGED <<heard, result>>
    BY <1>5 DEF Start, Cancel, EmitStarted, CreateProcess, SpawnProcess,
                SpawnFails, ReadPipes, LookForExit, ResetProcess, Process,
                ProcessWrites, ProcessExits, handle
  <2> QED
    BY <2>1 DEF Contract!vars
<1> QED
  BY <1>1, <1>2, <1>3, <1>4, <1>5 DEF User, Worker, Callback

\* The safety part of ExecutionContract: started before finished, one exit
\* code, one end (EmitEvent and CompletedHandle).
THEOREM ContractKept ==
  ASSUME ExecutionAssumption
  PROVE  Spec => Contract!Init /\ [][Contract!Next]_(Contract!vars)
<1>1. Init => Contract!Init
  BY DEF Init, Contract!Init
<1>2. TypeOK /\ Places /\ [Next]_executionVars
        => [Contract!Next]_(Contract!vars)
  BY ContractStep DEF executionVars, handle, Contract!vars
<1>3. Spec => []TypeOK
  BY TypeCorrect
<1>4. Spec => []Places
  BY PlacesHold
<1> QED
  BY <1>1, <1>2, <1>3, <1>4, PTL DEF Spec
-----------------------------------------------------------------------------
(* Builds.                                                                 *)

\* What BuildService calls of ExecutionService is ExecutionService.
LEMMA SameUser ==
  \A e \in Execution :
    /\ Build!E!Start(e) <=> Start(e)
    /\ Build!E!StartWithoutProvider(e) <=> StartWithoutProvider(e)
    /\ Build!E!Cancel(e) <=> Cancel(e)
BY DEF Build!E!Start, Start, Build!E!StartWithoutProvider, StartWithoutProvider,
       Build!E!Cancel, Cancel, Build!E!child, child, Build!E!CancelledStatus,
       CancelledStatus, Build!E!Unfinished, Unfinished, Build!E!Terminated,
       Terminated, Build!E!Code, Code

LEMMA SameTypes ==
  /\ Build!Execution = Execution /\ Build!E!Execution = Execution
  /\ Build!E!TypeOK <=> TypeOK
  /\ Build!E!Init <=> Init
BY DEF Build!Execution, Build!E!Execution, Execution, Build!E!TypeOK, TypeOK,
       Build!E!Init, Init, Build!E!Code, Code, Build!E!None, None,
       Build!E!ExecutionStatus, ExecutionStatus, Build!E!ThreadStep, ThreadStep

LEMMA SameWorker ==
  \A e \in Execution :
    /\ Build!E!Worker(e) <=> Worker(e)
    /\ Build!E!TellStarted(e) <=> TellStarted(e)
    /\ Build!E!TellFinished(e) <=> TellFinished(e)
    /\ Build!E!Process(e) <=> Process(e)
<1>1. \A e \in Execution :
        /\ Build!E!CreateProcess(e) <=> CreateProcess(e)
        /\ Build!E!EmitStarted(e) <=> EmitStarted(e)
        /\ Build!E!SpawnProcess(e) <=> SpawnProcess(e)
        /\ Build!E!SpawnFails(e) <=> SpawnFails(e)
        /\ Build!E!ReadPipes(e) <=> ReadPipes(e)
        /\ Build!E!ResetProcess(e) <=> ResetProcess(e)
  BY DEF Build!E!CreateProcess, CreateProcess, Build!E!EmitStarted, EmitStarted,
         Build!E!SpawnProcess, SpawnProcess, Build!E!SpawnFails, SpawnFails,
         Build!E!ReadPipes, ReadPipes, Build!E!ResetProcess, ResetProcess,
         Build!E!handle, handle, Build!E!child, child
<1>2. \A e \in Execution : Build!E!LookForExit(e) <=> LookForExit(e)
  BY DEF Build!E!LookForExit, LookForExit, Build!E!StopCancelled, StopCancelled,
         Build!E!SeeExit, SeeExit, Build!E!SeeAlive, SeeAlive, Build!E!Terminated,
         Terminated, Build!E!Code, Code, Build!E!handle, handle
<1>3. \A e \in Execution : Build!E!EmitFinished(e) <=> EmitFinished(e)
  BY DEF Build!E!EmitFinished, EmitFinished, Build!E!FinalStatus, FinalStatus,
         Build!E!FinalStatusByCode, FinalStatusByCode, Build!E!child, child
<1>4. \A e \in Execution :
        /\ Build!E!TellStarted(e) <=> TellStarted(e)
        /\ Build!E!TellFinished(e) <=> TellFinished(e)
        /\ Build!E!Process(e) <=> Process(e)
  BY DEF Build!E!TellStarted, TellStarted, Build!E!TellFinished, TellFinished,
         Build!E!Process, Process, Build!E!ProcessWrites, ProcessWrites,
         Build!E!ProcessExits, ProcessExits, Build!E!Code, Code,
         Build!E!handle, handle, Build!E!child, child
<1> QED BY <1>1, <1>2, <1>3, <1>4 DEF Build!E!Worker, Worker

-----------------------------------------------------------------------------
(* The inductive invariant of a build.                                     *)

\* Between the start of a step's execution and its join.
InStep == {"registering", "registered", "polling", "asking", "stopping", "joining"}

\* Where the job's cancel handler is the one of the current step.
WithHandler == (InStep \ {"registering"}) \cup {"clearing"}

\* The plan is gone through from its first step to its last.
PlanInOrder ==
  /\ pc \in {"queued", "dropped", "marking", "planning"} => current = 0
  /\ pc \in {"checking", "starting"} => current < planned
  /\ pc \in InStep \cup {"clearing", "cleared", "stepped"} => current \in 1 .. planned

\* Executions after the current one have not begun, those before have ended,
\* and so has the current one when no step is under way.
StepsInOrder ==
  \A e \in Execution :
    /\ current < e => status[e] = "None"
    /\ e < current \/ (e = current /\ pc \notin InStep) => thread[e] = "ended"

\* A job that is over or forgotten has no handler: Terminate, the final update
\* and Clear take it away, and SetCancelHandler does nothing then.
HandlerOfStep ==
  /\ cancelHandler # Build!NoHandler => cancelHandler = current /\ pc \in WithHandler
  /\ Build!IsTerminal => cancelHandler = Build!NoHandler

\* Nobody cancels an execution unless somebody asked the job for it.
RequestsOfJob ==
  /\ \A c \in Callers : calling[c] # Build!NoHandler => jobCancelRequested
  /\ pc = "stopping" => jobCancelRequested
  /\ \A e \in Execution : cancelRequested[e] => jobCancelRequested

\* The steps that are over left with 0, or the plan ends.
StepsSucceeded ==
  /\ pc \in {"checking", "starting"} => \A e \in 1 .. current : result[e] = 0
  /\ pc \in InStep \cup {"clearing", "cleared", "stepped"} =>
       \A e \in Execution : e < current => result[e] = 0
  /\ pc = "returned" /\ code = 0 =>
       /\ planned # 0 /\ current = planned
       /\ \A e \in 1 .. planned : result[e] = 0

\* What a job that succeeds stands for.
RanAll ==
  /\ planned # 0 /\ current = planned /\ built = 0
  /\ \A e \in 1 .. planned : status[e] = "Succeeded" /\ result[e] = 0

\* A success that is about to be written is true, unless the job is forgotten.
VerdictTrue ==
  /\ pc = "failed" => verdict # "Succeeded"
  /\ pc \in {"settling", "deciding", "closing", "done"} /\ verdict = "Succeeded"
       /\ Build!Exists => RanAll
  /\ job = "Succeeded" => pc = "done" /\ verdict = "Succeeded"

BuildInv ==
  /\ Build!TypeOK /\ Pipes /\ Places /\ StatusMatchesResult
  /\ PlanInOrder /\ StepsInOrder /\ HandlerOfStep /\ RequestsOfJob
  /\ StepsSucceeded /\ VerdictTrue

-----------------------------------------------------------------------------
(* What steps of executions look like to a build.                          *)

\* A new execution.
LEMMA NewExecution ==
  ASSUME TypeOK, Places, NEW e \in Execution, Start(e) \/ StartWithoutProvider(e)
  PROVE  /\ status[e] = "None" /\ status'[e] # "None"
         /\ UNCHANGED cancelRequested
         /\ \A f \in Execution \ {e} :
              status'[f] = status[f] /\ thread'[f] = thread[f] /\ result'[f] = result[f]
BY DEF Start, StartWithoutProvider, TypeOK, child

\* A cancellation.
LEMMA CancelledExecution ==
  ASSUME TypeOK, NEW e \in Execution, Cancel(e)
  PROVE  /\ UNCHANGED <<thread, result>>
         /\ \A f \in Execution :
              /\ status[f] = "None" <=> status'[f] = "None"
              /\ status[f] = "Succeeded" => status'[f] = "Succeeded"
              /\ cancelRequested'[f] => cancelRequested[f] \/ f = e
BY DEF Cancel, TypeOK, CancelledStatus, Unfinished

\* A step of its own: an execution that has not begun or has ended has none
\* that is seen outside.
LEMMA OwnExecution ==
  ASSUME TypeOK, Places, NEW e \in Execution, Worker(e) \/ Callback(e) \/ Process(e)
  PROVE  /\ UNCHANGED cancelRequested
         /\ \A f \in Execution :
              /\ status[f] = "None" <=> status'[f] = "None"
              /\ thread[f] = "ended" =>
                   thread'[f] = "ended" /\ status'[f] = status[f] /\ result'[f] = result[f]
<1>0. TypeOK /\ \A f \in Execution : status[f] = "None" <=> thread[f] = "none"
  BY DEF Places, StatusPlaced
<1>1. CASE \/ CreateProcess(e) \/ SpawnProcess(e) \/ SpawnFails(e)
           \/ ReadPipes(e) \/ ResetProcess(e)
  BY <1>0, <1>1 DEF TypeOK, CreateProcess, SpawnProcess, SpawnFails, ReadPipes,
                    ResetProcess, handle
<1>2. CASE LookForExit(e)
  BY <1>0, <1>2 DEF TypeOK, LookForExit, StopCancelled, SeeExit, SeeAlive, handle
<1>3. CASE EmitStarted(e) \/ EmitFinished(e)
  BY <1>0, <1>3 DEF TypeOK, EmitStarted, EmitFinished, FinalStatus, FinalStatusByCode
<1>4. CASE Callback(e) \/ Process(e)
  BY <1>0, <1>4 DEF TypeOK, Callback, TellStarted, TellFinished, Process,
                    ProcessWrites, ProcessExits, handle
<1> QED BY <1>1, <1>2, <1>3, <1>4 DEF Worker

\* The executions' own invariant, whatever a step of the build does to them.
LEMMA ExecutionsKeep ==
  ASSUME BuildInv, [Next]_executionVars
  PROVE  TypeOK' /\ Pipes' /\ Places' /\ StatusMatchesResult'
<1>1. TypeOK /\ Pipes /\ Places /\ StatusMatchesResult
  BY SameTypes DEF BuildInv, Build!TypeOK
<1>2. CASE UNCHANGED executionVars
  BY <1>1, <1>2, ExecutionAssumption, TypesStep, PlacesStep, MatchesStep
  DEF Pipes, executionVars, child
<1>3. CASE Next
  BY <1>1, <1>3, ExecutionAssumption, TypesStep, PlacesStep, MatchesStep, PipesStep
<1> QED BY <1>2, <1>3

\* The invariant by its parts, in the names of this module.
LEMMA BuildInvParts ==
  ASSUME BuildInv
  PROVE  /\ TypeOK /\ Places /\ StatusMatchesResult
         /\ MaxExecutions \in Nat /\ Build!Execution = 1 .. MaxExecutions
         /\ job \in {"Missing", "Running"} \cup Build!Terminal
         /\ cancellable \in BOOLEAN /\ jobCancelRequested \in BOOLEAN
         /\ cancelHandler \in 0 .. MaxExecutions
         /\ pc \in Build!WorkerStep
         /\ planned \in 0 .. MaxExecutions /\ current \in 0 .. MaxExecutions
         /\ code \in {0, 1} /\ verdict \in Build!Terminal /\ built \in {0, 1, 2}
         /\ client \in {"submitted", "waiting", "joining", "done"}
         /\ calling \in [Callers -> 0 .. MaxExecutions]
         /\ calls \in 0 .. MaxCalls
<1>1. 1 .. MaxExecutions \cup {0} = 0 .. MaxExecutions
  BY ExecutionAssumption
<1> QED BY <1>1, SameTypes, ExecutionAssumption
  DEF BuildInv, Build!TypeOK, Build!Execution, Build!NoHandler, Build!None

LEMMA BuildTypes ==
  ASSUME TypeOK', MaxExecutions \in Nat,
         job' \in {"Missing", "Running"} \cup Build!Terminal,
         cancellable' \in BOOLEAN, jobCancelRequested' \in BOOLEAN,
         cancelHandler' \in 0 .. MaxExecutions,
         pc' \in Build!WorkerStep,
         planned' \in 0 .. MaxExecutions, current' \in 0 .. MaxExecutions,
         code' \in {0, 1}, verdict' \in Build!Terminal, built' \in {0, 1, 2},
         client' \in {"submitted", "waiting", "joining", "done"},
         calling' \in [Callers -> 0 .. MaxExecutions],
         calls' \in 0 .. MaxCalls
  PROVE  Build!TypeOK'
<1>1. 1 .. MaxExecutions \cup {0} = 0 .. MaxExecutions
  OBVIOUS
<1>2. Build!E!TypeOK'
  BY DEF Build!E!TypeOK, TypeOK, Build!E!Execution, Execution, Build!E!Code, Code,
         Build!E!None, None, Build!E!ExecutionStatus, ExecutionStatus,
         Build!E!ThreadStep, ThreadStep
<1> QED BY <1>1, <1>2 DEF Build!TypeOK, Build!Execution, Build!NoHandler, Build!None

-----------------------------------------------------------------------------
(* The steps of a build.                                                   *)

\* Steps of the operation that touch neither the job nor an execution.
Thinking ==
  \/ Build!BeginTask \/ Build!Plan \/ Build!NoPlan \/ Build!OperationThrows
  \/ Build!CheckCancelled \/ Build!NoTarget \/ Build!PollExecution
  \/ Build!AskCancelled \/ Build!JoinExecution \/ Build!FinishStep
  \/ Build!DecideFailure \/ Build!StoreResult \/ Build!CheckTerminal
  \/ Build!DecideEnd

LEMMA ThinkingKeeps ==
  ASSUME BuildInv, Thinking
  PROVE  BuildInv'
<1> USE DEF Build!BeginTask, Build!Plan, Build!NoPlan, Build!OperationThrows,
            Build!CheckCancelled, Build!NoTarget, Build!PollExecution,
            Build!AskCancelled, Build!JoinExecution, Build!FinishStep,
            Build!DecideFailure, Build!StoreResult, Build!CheckTerminal,
            Build!DecideEnd
<1>1. /\ UNCHANGED executionVars
      /\ UNCHANGED <<job, cancellable, jobCancelRequested, cancelHandler, client,
                     calling, calls, current>>
      /\ UNCHANGED <<status, cancelRequested, result, thread>>
  BY DEF Thinking, Build!executions, Build!record, Build!users, executionVars,
         handle, child
<1>2. TypeOK' /\ Pipes' /\ Places' /\ StatusMatchesResult'
  BY <1>1, ExecutionsKeep
<1>3. /\ TypeOK /\ Places /\ StatusMatchesResult
      /\ MaxExecutions \in Nat /\ Build!Execution = 1 .. MaxExecutions
      /\ planned \in 0 .. MaxExecutions /\ current \in 0 .. MaxExecutions
      /\ code \in {0, 1} /\ jobCancelRequested \in BOOLEAN
      /\ pc \in Build!WorkerStep /\ verdict \in Build!Terminal
  BY BuildInvParts
<1>4. current # 0 => result[current] \in {0, 1, 2} /\ current \in Execution
  BY <1>3 DEF TypeOK, Execution, Code, None
<1>5. PlanInOrder
  BY DEF BuildInv
<1>6. Build!TypeOK'
  <2>1. pc' \in Build!WorkerStep
    BY DEF Thinking, Build!WorkerStep, Build!Returned
  <2>2. verdict' \in Build!Terminal /\ planned' \in 0 .. MaxExecutions
    BY <1>3 DEF Thinking, Build!Terminal
  <2>3. pc = "stepped" => result[current] \in {0, 1}
    <3>1. SUFFICES ASSUME pc = "stepped" PROVE result[current] \in {0, 1}
      OBVIOUS
    <3>2. current \in Execution /\ thread[current] = "ended"
      BY <1>3, <1>5, <3>1 DEF PlanInOrder, BuildInv, StepsInOrder, InStep, Execution
    <3> QED BY <1>3, <3>2 DEF TypeOK, Places, ResultPlaced, AfterResult, Code, None
  <2>4. code' \in {0, 1} /\ built' \in {0, 1, 2}
    BY <1>3, <2>3, BuildInvParts DEF Thinking
  <2> QED BY <1>1, <1>2, <2>1, <2>2, <2>4, BuildInvParts, BuildTypes
<1>7. PlanInOrder'
  BY <1>1, <1>3, <1>5 DEF Thinking, PlanInOrder, InStep
<1>8. StepsInOrder'
  <2>1. pc \in InStep /\ pc' \notin InStep => thread[current] = "ended"
    BY DEF Thinking, InStep, Build!E!WaitReturns
  <2> QED BY <1>1, <2>1 DEF BuildInv, StepsInOrder
<1>9. HandlerOfStep'
  <2>1. pc \in WithHandler => pc' \in WithHandler
    BY DEF Thinking, WithHandler, InStep
  <2> QED BY <1>1, <2>1 DEF BuildInv, HandlerOfStep, Build!IsTerminal, Build!Exists
<1>10. RequestsOfJob'
  BY <1>1 DEF Thinking, BuildInv, RequestsOfJob, Build!CancellationRequested
<1>11. StepsSucceeded'
  <2>1. /\ StepsSucceeded /\ PlanInOrder /\ StepsInOrder
    BY DEF BuildInv
  <2>2. \A e \in 1 .. current : e \in Execution
    BY <1>3 DEF Execution
  <2>3. CASE Build!FinishStep
    BY <1>1, <1>3, <1>4, <2>1, <2>2, <2>3 DEF StepsSucceeded, PlanInOrder, InStep
  <2>4. CASE ~Build!FinishStep
    BY <1>1, <1>3, <2>1, <2>2, <2>4 DEF Thinking, StepsSucceeded, PlanInOrder, InStep
  <2> QED BY <2>3, <2>4
<1>12. VerdictTrue'
  <2>1. CASE Build!StoreResult
    <3>1. SUFFICES ASSUME verdict' = "Succeeded", Build!Exists
                   PROVE  RanAll'
      BY <1>1, <2>1 DEF VerdictTrue, BuildInv, Build!Exists
    <3>2. code = 0 /\ ~jobCancelRequested
      BY <2>1, <3>1 DEF Build!CancellationRequested
    <3>3. /\ planned # 0 /\ current = planned
          /\ \A e \in 1 .. planned : result[e] = 0
      BY <2>1, <3>2 DEF BuildInv, StepsSucceeded
    <3>4. \A e \in 1 .. planned : e \in Execution /\ ~cancelRequested[e]
      BY <1>3, <3>2 DEF BuildInv, RequestsOfJob, Execution
    <3>5. \A e \in 1 .. planned : status[e] = "Succeeded"
      BY <1>3, <3>3, <3>4 DEF StatusMatchesResult, None
    <3> QED BY <1>1, <2>1, <3>2, <3>3, <3>5 DEF RanAll
  <2>2. CASE ~Build!StoreResult
    <3>1. VerdictTrue
      BY DEF BuildInv
    <3>2. CASE Build!CheckTerminal \/ Build!DecideEnd
      <4>1. UNCHANGED <<planned, built>>
        BY <3>2
      <4> QED BY <1>1, <3>1, <3>2, <4>1 DEF VerdictTrue, RanAll, Build!Exists
    <3>3. CASE ~Build!CheckTerminal /\ ~Build!DecideEnd
      BY <1>1, <2>2, <3>1, <3>3 DEF Thinking, VerdictTrue, Build!CancellationRequested
    <3> QED BY <3>2, <3>3
  <2> QED BY <2>1, <2>2
<1> QED
  BY <1>2, <1>6, <1>7, <1>8, <1>9, <1>10, <1>11, <1>12 DEF BuildInv

\* Steps on the job's record: the operation's, the client's, the callers' and
\* the workspace's.
OnJob ==
  \/ Build!MarkRunning \/ Build!RegisterHandler \/ Build!HandlerSet
  \/ Build!ClearHandler \/ Build!HandlerCleared \/ Build!EndJobEarly \/ Build!EndJob
  \/ Build!Client \/ Build!ClearJobs
  \/ \E c \in Callers : Build!RequestCancel(c) \/ Build!Terminate(c)

LEMMA OnJobKeeps ==
  ASSUME BuildInv, OnJob
  PROVE  BuildInv'
<1> USE DEF Build!MarkRunning, Build!RegisterHandler, Build!HandlerSet,
            Build!ClearHandler, Build!HandlerCleared, Build!EndJobEarly, Build!EndJob,
            Build!Client, Build!AllowCancel, Build!AwaitResult, Build!AwaitJob,
            Build!ClearJobs, Build!RequestCancel, Build!Terminate
<1>1. /\ UNCHANGED executionVars
      /\ UNCHANGED <<status, cancelRequested, result, thread, planned, current, verdict,
                     built>>
  BY DEF OnJob, Build!executions, Build!record, Build!users, Build!operation,
         executionVars, handle, child
<1>2. TypeOK' /\ Pipes' /\ Places' /\ StatusMatchesResult'
  BY <1>1, ExecutionsKeep
<1>3. /\ MaxExecutions \in Nat /\ Build!Execution = 1 .. MaxExecutions
      /\ current \in 0 .. MaxExecutions
      /\ job \in {"Missing", "Running"} \cup Build!Terminal
      /\ jobCancelRequested \in BOOLEAN /\ cancellable \in BOOLEAN
      /\ cancelHandler \in 0 .. MaxExecutions
      /\ pc \in Build!WorkerStep /\ verdict \in Build!Terminal /\ code \in {0, 1}
      /\ client \in {"submitted", "waiting", "joining", "done"}
      /\ calling \in [Callers -> 0 .. MaxExecutions] /\ calls \in 0 .. MaxCalls
  BY BuildInvParts
<1>4. PlanInOrder /\ StepsInOrder /\ HandlerOfStep /\ RequestsOfJob /\ StepsSucceeded
      /\ VerdictTrue
  BY DEF BuildInv
<1>5. Build!TypeOK'
  <2>1. pc' \in Build!WorkerStep /\ job' \in {"Missing", "Running"} \cup Build!Terminal
    BY <1>3 DEF OnJob, Build!WorkerStep, Build!Returned, Build!Updated, Build!Terminal,
                Build!operation, Build!record
  <2>2. cancellable' \in BOOLEAN /\ jobCancelRequested' \in BOOLEAN
    BY <1>3 DEF OnJob, Build!record
  <2>3. cancelHandler' \in 0 .. MaxExecutions /\ code' \in {0, 1}
    BY <1>3 DEF OnJob, Build!NoHandler, Build!record, Build!operation
  <2>4. client' \in {"submitted", "waiting", "joining", "done"}
    BY <1>3 DEF OnJob, Build!users
  <2>5. calling' \in [Callers -> 0 .. MaxExecutions] /\ calls' \in 0 .. MaxCalls
    BY <1>3, BuildAssumption DEF OnJob, Build!users
  <2> QED BY <1>1, <1>2, <2>1, <2>2, <2>3, <2>4, <2>5, BuildInvParts, BuildTypes
<1>6. PlanInOrder'
  BY <1>1, <1>4 DEF OnJob, PlanInOrder, InStep, Build!operation
<1>7. StepsInOrder'
  <2>1. pc \in InStep <=> pc' \in InStep
    BY DEF OnJob, InStep, Build!operation
  <2> QED BY <1>1, <1>4, <2>1 DEF StepsInOrder
<1>8. HandlerOfStep'
  <2>1. CASE Build!RegisterHandler
    BY <1>1, <1>4, <2>1 DEF HandlerOfStep, WithHandler, InStep, Build!IsTerminal, Build!Exists
  <2>2. CASE ~Build!RegisterHandler
    <3>1. cancelHandler' \in {cancelHandler, Build!NoHandler}
      BY <2>2 DEF OnJob, Build!record
    <3>2. pc \in WithHandler => pc' \in WithHandler \/ cancelHandler' = Build!NoHandler
      BY <1>4 DEF OnJob, WithHandler, InStep, Build!operation, HandlerOfStep
    <3>3. Build!IsTerminal' => Build!IsTerminal \/ cancelHandler' = Build!NoHandler
      BY <2>2 DEF OnJob, Build!IsTerminal, Build!Exists, Build!Updated, Build!record, Build!Terminal
    <3> QED BY <1>1, <1>4, <3>1, <3>2, <3>3 DEF HandlerOfStep, Build!NoHandler
  <2> QED BY <2>1, <2>2
<1>9. RequestsOfJob'
  <2>1. jobCancelRequested => jobCancelRequested'
    BY DEF OnJob, Build!record
  <2>2. \A c \in Callers : calling'[c] # calling[c] => jobCancelRequested'
    BY <1>3 DEF OnJob, Build!users
  <2>3. pc' = "stopping" => pc = "stopping"
    BY DEF OnJob, Build!operation
  <2> QED BY <1>1, <1>4, <2>1, <2>2, <2>3 DEF RequestsOfJob, Build!NoHandler
<1>10. StepsSucceeded'
  <2>1. /\ pc' \in {"checking", "starting"} <=> pc \in {"checking", "starting"}
        /\ pc' \in InStep \cup {"clearing", "cleared", "stepped"}
             <=> pc \in InStep \cup {"clearing", "cleared", "stepped"}
        /\ pc' = "returned" => (code' = 1 \/ (pc = "returned" /\ code' = code))
    BY DEF OnJob, InStep, Build!operation
  <2> QED BY <1>1, <1>4, <2>1 DEF StepsSucceeded
<1>11. VerdictTrue'
  <2>1. CASE Build!EndJob
    BY <1>1, <1>4, <2>1 DEF VerdictTrue, RanAll, Build!Updated, Build!Exists
  <2>2. CASE ~Build!EndJob
    <3>1. job' = "Succeeded" => job = "Succeeded" /\ pc' = pc
      BY <1>4, <2>2 DEF OnJob, VerdictTrue, Build!Updated, Build!record, Build!operation
    <3>2. /\ pc' = "failed" => pc = "failed"
          /\ pc' \in {"settling", "deciding", "closing", "done"} => pc' = pc
      BY <2>2 DEF OnJob, Build!operation
    <3>3. Build!Exists' => Build!Exists
      BY DEF OnJob, Build!Exists, Build!IsTerminal, Build!Updated, Build!record
    <3>4. RanAll' <=> RanAll
      BY <1>1 DEF RanAll
    <3>5. verdict' = verdict
      BY <1>1
    <3>6. pc' = "failed" => verdict' # "Succeeded"
      BY <1>4, <3>2, <3>5 DEF VerdictTrue
    <3>7. pc' \in {"settling", "deciding", "closing", "done"} /\ verdict' = "Succeeded"
            /\ Build!Exists' => RanAll'
      BY <1>4, <3>2, <3>3, <3>4, <3>5 DEF VerdictTrue
    <3>8. job' = "Succeeded" => pc' = "done" /\ verdict' = "Succeeded"
      BY <1>4, <3>1, <3>5 DEF VerdictTrue
    <3> QED BY <3>6, <3>7, <3>8 DEF VerdictTrue
  <2> QED BY <2>1, <2>2
<1> QED
  BY <1>2, <1>5, <1>6, <1>7, <1>8, <1>9, <1>10, <1>11 DEF BuildInv

\* The next step of the plan gets its execution (ExecutionService::Start).
LEMMA StartStepKeeps ==
  ASSUME BuildInv, Build!StartStep
  PROVE  BuildInv' /\ Next
<1>1. /\ pc = "starting" /\ pc' = "registering" /\ current' = current + 1
      /\ UNCHANGED <<job, cancellable, jobCancelRequested, cancelHandler, planned, code,
                     verdict, built, client, calling, calls>>
  BY DEF Build!StartStep, Build!record, Build!users
<1>2. /\ TypeOK /\ Places
      /\ MaxExecutions \in Nat
      /\ planned \in 0 .. MaxExecutions /\ current \in 0 .. MaxExecutions
  BY BuildInvParts
<1>3. current < planned /\ StepsInOrder /\ HandlerOfStep /\ RequestsOfJob
      /\ StepsSucceeded /\ VerdictTrue
  BY <1>1 DEF BuildInv, PlanInOrder
<1> DEFINE e == current + 1
<1>4. e \in Execution /\ e \in 1 .. planned /\ e \in 0 .. MaxExecutions
  BY <1>2, <1>3 DEF Execution
<1>5. Start(e) \/ StartWithoutProvider(e)
  BY <1>4, SameUser DEF Build!StartStep
<1> HIDE DEF e
<1>6. Next
  BY <1>4, <1>5 DEF Next, User
<1>7. TypeOK' /\ Pipes' /\ Places' /\ StatusMatchesResult'
  BY <1>6, ExecutionsKeep
<1>8. /\ UNCHANGED cancelRequested
      /\ \A f \in Execution \ {e} :
           status'[f] = status[f] /\ thread'[f] = thread[f] /\ result'[f] = result[f]
  BY <1>2, <1>4, <1>5, NewExecution
<1>9. Build!TypeOK'
  <2>1. pc' \in Build!WorkerStep /\ current' \in 0 .. MaxExecutions
    BY <1>1, <1>4 DEF Build!WorkerStep, e
  <2> QED BY <1>1, <1>7, <2>1, BuildInvParts, BuildTypes
<1>10. PlanInOrder'
  BY <1>1, <1>4 DEF PlanInOrder, InStep, e
<1>11. StepsInOrder'
  BY <1>1, <1>2, <1>3, <1>8 DEF StepsInOrder, InStep, e, Execution
<1>12. HandlerOfStep'
  BY <1>1, <1>3 DEF HandlerOfStep, WithHandler, InStep, Build!IsTerminal, Build!Exists
<1>13. RequestsOfJob'
  BY <1>1, <1>3, <1>8 DEF RequestsOfJob
<1>14. StepsSucceeded'
  BY <1>1, <1>2, <1>3, <1>8 DEF StepsSucceeded, InStep, e, Execution
<1>15. VerdictTrue'
  BY <1>1, <1>3 DEF VerdictTrue
<1> QED
  BY <1>6, <1>7, <1>9, <1>10, <1>11, <1>12, <1>13, <1>14, <1>15 DEF BuildInv

\* The operation or a caller cancels an execution, having been asked to.
LEMMA CancelKeeps ==
  ASSUME BuildInv, Build!StopExecution \/ \E c \in Callers : Build!CallHandler(c)
  PROVE  BuildInv' /\ Next
<1>1. /\ UNCHANGED <<job, cancellable, jobCancelRequested, cancelHandler, planned,
                     current, code, verdict, built, client, calls>>
      /\ pc' = pc \/ (pc = "stopping" /\ pc' = "polling")
  BY DEF Build!StopExecution, Build!CallHandler, Build!record, Build!operation, Build!users
<1>2. /\ TypeOK /\ Places
      /\ MaxExecutions \in Nat
      /\ planned \in 0 .. MaxExecutions /\ current \in 0 .. MaxExecutions
      /\ calling \in [Callers -> 0 .. MaxExecutions]
  BY BuildInvParts
<1>3. PlanInOrder /\ StepsInOrder /\ HandlerOfStep /\ RequestsOfJob
      /\ StepsSucceeded /\ VerdictTrue
  BY DEF BuildInv
<1>4. \A c \in Callers : calling'[c] \in {calling[c], Build!NoHandler}
  BY <1>2 DEF Build!StopExecution, Build!CallHandler, Build!users
<1>5. calling' \in [Callers -> 0 .. MaxExecutions]
  BY <1>2 DEF Build!StopExecution, Build!CallHandler, Build!users, Build!NoHandler
<1>6. PICK e \in Execution : Cancel(e) /\ jobCancelRequested
  <2>1. CASE Build!StopExecution
    <3>1. current \in Execution
      BY <1>2, <1>3, <2>1 DEF Build!StopExecution, PlanInOrder, InStep, Execution
    <3> QED BY <1>3, <2>1, <3>1, SameUser DEF Build!StopExecution, RequestsOfJob
  <2>2. ASSUME NEW c \in Callers, Build!CallHandler(c) PROVE \E e \in Execution : Cancel(e) /\ jobCancelRequested
    <3>1. calling[c] \in Execution
      BY <1>2, <2>2 DEF Build!CallHandler, Build!NoHandler, Execution
    <3> QED BY <1>3, <2>2, <3>1, SameUser DEF Build!CallHandler, RequestsOfJob
  <2> QED BY <2>1, <2>2
<1>7. Next
  BY <1>6 DEF Next, User
<1>8. TypeOK' /\ Pipes' /\ Places' /\ StatusMatchesResult'
  BY <1>7, ExecutionsKeep
<1>9. /\ UNCHANGED <<thread, result>>
      /\ \A f \in Execution :
           /\ status[f] = "None" <=> status'[f] = "None"
           /\ status[f] = "Succeeded" => status'[f] = "Succeeded"
  BY <1>2, <1>6, CancelledExecution
<1>10. Build!TypeOK'
  <2>1. pc' \in Build!WorkerStep
    BY <1>1, BuildInvParts DEF Build!WorkerStep
  <2> QED BY <1>1, <1>5, <1>8, <2>1, BuildInvParts, BuildTypes
<1>11. PlanInOrder'
  BY <1>1, <1>3 DEF PlanInOrder, InStep
<1>12. StepsInOrder'
  BY <1>1, <1>3, <1>9 DEF StepsInOrder, InStep
<1>13. HandlerOfStep'
  BY <1>1, <1>3 DEF HandlerOfStep, WithHandler, InStep, Build!IsTerminal, Build!Exists
<1>14. RequestsOfJob'
  BY <1>1, <1>3, <1>4, <1>6 DEF RequestsOfJob, Build!NoHandler
<1>15. StepsSucceeded'
  BY <1>1, <1>3, <1>9 DEF StepsSucceeded, InStep
<1>16. VerdictTrue'
  <2>1. \A f \in 1 .. planned : f \in Execution
    BY <1>2 DEF Execution
  <2> QED BY <1>1, <1>3, <1>9, <2>1 DEF VerdictTrue, RanAll, Build!Exists
<1> QED
  BY <1>7, <1>8, <1>10, <1>11, <1>12, <1>13, <1>14, <1>15, <1>16 DEF BuildInv

\* The executions' own steps; the callback of a start marks the job running
\* (EmitEvent, ApplyExecutionEventToJob), which cannot be a job that has
\* succeeded.
LEMMA ExecutionKeeps ==
  ASSUME BuildInv, NEW e \in Execution, Build!Step(e) \/ Build!ToolRuns(e)
  PROVE  BuildInv' /\ Next
<1>1. /\ UNCHANGED <<cancellable, jobCancelRequested, cancelHandler, pc, planned,
                     current, code, verdict, built, client, calling, calls>>
      /\ job' = job \/ job' = Build!Updated("Running")
  BY DEF Build!Step, Build!StepStarted, Build!StepFinished, Build!ToolRuns,
         Build!buildVars, Build!record, Build!operation, Build!users
<1>2. Worker(e) \/ Callback(e) \/ Process(e)
  BY SameWorker
  DEF Build!Step, Build!StepStarted, Build!StepFinished, Build!ToolRuns, Callback
<1>3. Next
  BY <1>2 DEF Next
<1>4. TypeOK' /\ Pipes' /\ Places' /\ StatusMatchesResult'
  BY <1>3, ExecutionsKeep
<1>5. /\ TypeOK /\ Places /\ MaxExecutions \in Nat
      /\ planned \in 0 .. MaxExecutions /\ current \in 0 .. MaxExecutions
      /\ job \in {"Missing", "Running"} \cup Build!Terminal
  BY BuildInvParts
<1>6. /\ UNCHANGED cancelRequested
      /\ \A f \in Execution :
           /\ status[f] = "None" <=> status'[f] = "None"
           /\ thread[f] = "ended" =>
                thread'[f] = "ended" /\ status'[f] = status[f] /\ result'[f] = result[f]
  BY <1>2, <1>5, OwnExecution
<1>7. PlanInOrder /\ StepsInOrder /\ HandlerOfStep /\ RequestsOfJob
      /\ StepsSucceeded /\ VerdictTrue
  BY DEF BuildInv
<1>8. Build!TypeOK'
  <2>1. job' \in {"Missing", "Running"} \cup Build!Terminal
    BY <1>1, <1>5 DEF Build!Updated
  <2> QED BY <1>1, <1>4, <2>1, BuildInvParts, BuildTypes
<1>9. PlanInOrder'
  BY <1>1, <1>7 DEF PlanInOrder
<1>10. StepsInOrder'
  BY <1>1, <1>6, <1>7 DEF StepsInOrder
<1>11. HandlerOfStep'
  BY <1>1, <1>7 DEF HandlerOfStep, Build!IsTerminal, Build!Exists, Build!Updated,
                    Build!Terminal
<1>12. RequestsOfJob'
  BY <1>1, <1>6, <1>7 DEF RequestsOfJob
<1>13. StepsSucceeded'
  <2>1. /\ \A f \in 1 .. planned : f \in Execution
        /\ \A f \in 1 .. current : f \in Execution
    BY <1>5 DEF Execution
  <2>2. \A f \in Execution : f < current \/ (f = current /\ pc \notin InStep)
          => result'[f] = result[f]
    BY <1>6, <1>7 DEF StepsInOrder
  <2> QED BY <1>1, <1>5, <1>7, <2>1, <2>2 DEF StepsSucceeded, InStep
<1>14. VerdictTrue'
  <2>1. CASE job = "Missing"
    <3>1. job' = "Missing"
      BY <1>1, <2>1 DEF Build!Updated, Build!Exists
    <3> QED BY <1>1, <1>7, <3>1 DEF VerdictTrue, Build!Exists
  <2>2. CASE job # "Missing"
    <3>1. \A f \in 1 .. planned : f \in Execution
      BY <1>5 DEF Execution
    <3>2. pc \in {"settling", "deciding", "closing", "done"} /\ current = planned =>
            \A f \in 1 .. planned : status'[f] = status[f] /\ result'[f] = result[f]
      BY <1>5, <1>6, <1>7, <3>1 DEF StepsInOrder, InStep
    <3>3. pc \in {"settling", "deciding", "closing", "done"} /\ verdict = "Succeeded"
            => RanAll /\ RanAll'
      BY <1>1, <1>7, <2>2, <3>2 DEF VerdictTrue, RanAll, Build!Exists
    <3>4. job' = "Succeeded" => job = "Succeeded"
      BY <1>1 DEF Build!Updated
    <3> QED BY <1>1, <1>7, <3>3, <3>4 DEF VerdictTrue
  <2> QED BY <2>1, <2>2
<1> QED
  BY <1>3, <1>4, <1>8, <1>9, <1>10, <1>11, <1>12, <1>13, <1>14 DEF BuildInv

LEMMA BuildInitially == Build!Init => BuildInv
<1> SUFFICES ASSUME Build!Init PROVE BuildInv
  OBVIOUS
<1>1. Init
  BY SameTypes DEF Build!Init
<1>2. TypeOK /\ Pipes /\ Places /\ StatusMatchesResult
  BY <1>1, ExecutionAssumption, InitTypes
<1>3. \A e \in Execution :
        status[e] = "None" /\ ~cancelRequested[e]
  BY <1>1 DEF Init
<1>4. Build!TypeOK
  <2>1. Build!E!TypeOK
    BY <1>2, SameTypes
  <2>2. calling \in [Callers -> Build!Execution \cup {Build!NoHandler}]
    BY DEF Build!Init, Build!NoHandler
  <2>3. calls \in 0 .. MaxCalls
    BY BuildAssumption DEF Build!Init
  <2>4. pc \in Build!WorkerStep /\ verdict \in Build!Terminal
    BY DEF Build!Init, Build!WorkerStep, Build!Terminal
  <2>5. /\ job \in {"Missing", "Running"} \cup Build!Terminal
        /\ cancellable \in BOOLEAN /\ jobCancelRequested \in BOOLEAN
        /\ cancelHandler \in Build!Execution \cup {Build!NoHandler}
        /\ planned \in Build!Execution \cup {0} /\ current \in Build!Execution \cup {0}
        /\ code \in {0, 1} /\ built \in {0, 1, Build!None}
        /\ client \in {"submitted", "waiting", "joining", "done"}
    BY DEF Build!Init
  <2> QED BY <2>1, <2>2, <2>3, <2>4, <2>5 DEF Build!TypeOK
<1>5. PlanInOrder /\ StepsInOrder /\ HandlerOfStep
  BY <1>3 DEF Build!Init, PlanInOrder, StepsInOrder, HandlerOfStep, InStep, Execution
<1>6. RequestsOfJob /\ StepsSucceeded /\ VerdictTrue
  BY <1>3 DEF Build!Init, RequestsOfJob, StepsSucceeded, VerdictTrue, InStep
<1> QED BY <1>2, <1>4, <1>5, <1>6 DEF BuildInv

LEMMA BuildStepKeeps ==
  BuildInv /\ [Build!Next]_(Build!vars) => BuildInv' /\ [Next]_executionVars
<1> SUFFICES ASSUME BuildInv, [Build!Next]_(Build!vars)
             PROVE  BuildInv' /\ [Next]_executionVars
  OBVIOUS
<1>0. Build!Execution = Execution
  BY SameTypes
<1>1. CASE Thinking
  <2>1. UNCHANGED executionVars
    BY <1>1
    DEF Thinking, Build!BeginTask, Build!Plan, Build!NoPlan, Build!OperationThrows,
        Build!CheckCancelled, Build!NoTarget, Build!PollExecution, Build!AskCancelled,
        Build!JoinExecution, Build!FinishStep, Build!DecideFailure, Build!StoreResult,
        Build!CheckTerminal, Build!DecideEnd, Build!executions, executionVars, handle, child
  <2> QED BY <1>1, <2>1, ThinkingKeeps
<1>2. CASE OnJob
  <2>1. UNCHANGED executionVars
    BY <1>2
    DEF OnJob, Build!MarkRunning, Build!RegisterHandler, Build!HandlerSet,
        Build!ClearHandler, Build!HandlerCleared, Build!EndJobEarly, Build!EndJob,
        Build!Client, Build!AllowCancel, Build!AwaitResult, Build!AwaitJob,
        Build!ClearJobs, Build!RequestCancel, Build!Terminate,
        Build!executions, executionVars, handle, child
  <2> QED BY <1>2, <2>1, OnJobKeeps
<1>3. CASE Build!StartStep
  BY <1>3, StartStepKeeps
<1>4. CASE Build!StopExecution \/ \E c \in Callers : Build!CallHandler(c)
  BY <1>4, CancelKeeps
<1>5. CASE \E e \in Execution : Build!Step(e) \/ Build!ToolRuns(e)
  BY <1>5, ExecutionKeeps
<1>6. CASE UNCHANGED Build!vars
  <2>1. UNCHANGED executionVars
    BY <1>6 DEF Build!vars, Build!executions, executionVars, handle, child
  <2>2. TypeOK' /\ Pipes' /\ Places' /\ StatusMatchesResult'
    BY <2>1, ExecutionsKeep
  <2>3. UNCHANGED <<status, cancelRequested, result, thread, job, cancellable,
                    jobCancelRequested, cancelHandler, pc, planned, current, code,
                    verdict, built, client, calling, calls>>
    BY <1>6 DEF Build!vars, Build!executions, Build!buildVars, Build!record,
                Build!operation, Build!users
  <2>4. Build!TypeOK'
    BY <2>2, <2>3, BuildInvParts, BuildTypes
  <2>5. PlanInOrder' /\ StepsInOrder' /\ HandlerOfStep' /\ RequestsOfJob'
        /\ StepsSucceeded' /\ VerdictTrue'
    BY <2>3 DEF BuildInv, PlanInOrder, StepsInOrder, HandlerOfStep, RequestsOfJob,
                StepsSucceeded, VerdictTrue, RanAll, Build!IsTerminal, Build!Exists
  <2> QED BY <2>1, <2>2, <2>4, <2>5 DEF BuildInv
<1> QED
  BY <1>0, <1>1, <1>2, <1>3, <1>4, <1>5, <1>6
  DEF Build!Next, Build!Worker, Build!Caller, Thinking, OnJob

\* A build uses executions as ExecutionService lets them be used: each of its
\* steps is one of the service or leaves all executions alone, so that what is
\* proved of executions holds inside builds.
THEOREM BuildUsesExecutions == Build!Spec => Init /\ [][Next]_executionVars
<1>1. Build!Init => Init
  BY SameTypes DEF Build!Init
<1> QED BY <1>1, BuildInitially, BuildStepKeeps, PTL DEF Build!Spec

\* Whatever moment a cancellation, a termination or Clear comes at: callbacks
\* of executions find the operation that owns what they refer to, and no
\* handler of a step outlives it (StartBuildOperation).
THEOREM BuildStaysConsistent == Build!Spec => []BuildConsistent
<1>1. ASSUME BuildInv PROVE BuildConsistent
  <2>1. Build!CallbacksInside
    <3> SUFFICES ASSUME NEW e \in Execution, thread[e] \notin {"none", "ended"}
                 PROVE  e = current /\ pc \notin Build!Returned
      BY SameTypes DEF Build!CallbacksInside
    <3>1. status[e] # "None" /\ current \in Nat /\ e \in Nat
      BY <1>1, BuildInvParts DEF Places, StatusPlaced, Execution
    <3> QED BY <1>1, <3>1 DEF BuildInv, StepsInOrder, InStep, Build!Returned
  <2>2. Build!NoHandlerLeft
    BY <1>1 DEF BuildInv, HandlerOfStep, WithHandler, InStep, Build!NoHandlerLeft,
                Build!Returned
  <2> QED BY <1>1, <2>1, <2>2 DEF BuildInv, BuildConsistent, Build!BuildConsistent
<1> QED BY <1>1, BuildInitially, BuildStepKeeps, PTL DEF Build!Spec

\* A job that says Succeeded stands for a build all of whose steps ran, left
\* with 0 and were not cancelled.
THEOREM SuccessIsWhole == Build!Spec => []SucceededRanEveryStep
<1>1. ASSUME BuildInv PROVE SucceededRanEveryStep
  BY <1>1 DEF BuildInv, VerdictTrue, RanAll, SucceededRanEveryStep,
              Build!SucceededRanEveryStep, Build!Exists
<1> QED BY <1>1, BuildInitially, BuildStepKeeps, PTL DEF Build!Spec
=============================================================================
