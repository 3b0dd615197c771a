--------------------------- MODULE ExecutionService ---------------------------
(***************************************************************************)
(* Executions (src/core/execution/execution_service.cpp): a handle shared  *)
(* by its users, the thread the local provider starts for it, and the      *)
(* child process that thread runs (src/core/platform/process_posix.cpp).   *)
(*                                                                         *)
(* The state's mutex makes the critical sections the actions; the callback *)
(* of an event runs after its section, and is a step of its own.  The      *)
(* thread's polling section holds the mutex from the read of the pipes to  *)
(* the test for the exit, while the process goes on, so it is two actions  *)
(* between which no user of the handle gets in.                            *)
(*                                                                         *)
(* Exit code 1 stands for every code that is not zero.  SIGTERM ends the   *)
(* process with any code (it may catch it and leave with 0); a process     *)
(* that ignores it would keep Terminate waiting, and is left out.          *)
(***************************************************************************)
EXTENDS Naturals

CONSTANTS
  MaxExecutions,  \* bound: how many executions are started
  MaxWrites       \* bound: how often one process writes to its pipes

ASSUME ExecutionAssumption == MaxExecutions \in Nat /\ MaxWrites \in Nat

Execution == 1 .. MaxExecutions
Code == {0, 1}
None == 2         \* no result yet

ExecutionStatus ==
  {"None", "Pending", "Running", "Succeeded", "Failed", "Cancelled"}
ThreadStep ==
  {"none", "create", "start", "tellStarted", "spawn", "read", "look", "reset",
   "finish", "tellFinished", "ended"}

VARIABLES
  status,           \* ExecutionState::status, "None" before Start
  cancelRequested,  \* ExecutionState::cancel_requested
  result,           \* the exit code of ExecutionState::result
  process,          \* the child process: "none" is a null process, "made" one
                    \* that was not started, "exited" one not waited for
  exitCode,         \* what the process ended, or will be found to end, with
  writes, unread,   \* chunks the process wrote, and those still in its pipes
  thread,           \* the provider thread's position
  heard             \* the last lifecycle event the callback was given

handle == <<status, cancelRequested, result>>
child == <<process, exitCode, writes, unread>>
executionVars == <<handle, child, thread, heard>>

-----------------------------------------------------------------------------
Unfinished == {"Pending", "Running"}

Running(e) == status[e] \in Unfinished

\* The status of a finished execution.  Mutant: the request is
\* forgotten.
FinalStatusByCode(e, code) == IF code = 0 THEN "Succeeded" ELSE "Failed"
FinalStatus(e, code) ==
  IF cancelRequested[e] THEN "Cancelled" ELSE FinalStatusByCode(e, code)

\* What Cancel makes of a status.
CancelledStatus(s) == IF s \in Unfinished THEN "Cancelled" ELSE s

\* ChildProcess::Terminate: SIGTERM, then wait for the process.
Terminated(e, code) ==
  /\ process' = [process EXCEPT ![e] =
                   IF @ \in {"alive", "exited"} THEN "reaped" ELSE @]
  /\ exitCode' = [exitCode EXCEPT ![e] =
                    IF process[e] = "alive" THEN code ELSE @]

Init ==
  /\ status = [e \in Execution |-> "None"]
  /\ cancelRequested = [e \in Execution |-> FALSE]
  /\ result = [e \in Execution |-> None]
  /\ process = [e \in Execution |-> "none"]
  /\ exitCode = [e \in Execution |-> 1]
  /\ writes = [e \in Execution |-> 0]
  /\ unread = [e \in Execution |-> 0]
  /\ thread = [e \in Execution |-> "none"]
  /\ heard = [e \in Execution |-> "nothing"]

-----------------------------------------------------------------------------
(* Users of the service and of a handle.                                   *)

\* ExecutionService::Start with a provider: a handle and its thread.
Start(e) ==
  /\ status[e] = "None"
  /\ status' = [status EXCEPT ![e] = "Pending"]
  /\ thread' = [thread EXCEPT ![e] = "create"]
  /\ UNCHANGED <<cancelRequested, result, child, heard>>

\* Start for a target whose provider is gone: a handle that has ended.
StartWithoutProvider(e) ==
  /\ status[e] = "None"
  /\ status' = [status EXCEPT ![e] = "Failed"]
  /\ result' = [result EXCEPT ![e] = 1]
  /\ thread' = [thread EXCEPT ![e] = "ended"]
  /\ heard' = [heard EXCEPT ![e] = "finished"]
  /\ UNCHANGED <<cancelRequested, child>>

\* Cancel and Terminate.
Cancel(e) ==
  /\ status[e] # "None" /\ thread[e] # "look"
  /\ cancelRequested' = [cancelRequested EXCEPT ![e] = TRUE]
  /\ status' = [status EXCEPT ![e] = CancelledStatus(@)]
  /\ \E code \in Code : Terminated(e, code)
  /\ UNCHANGED <<result, writes, unread, thread, heard>>

\* Wait returns: the worker was joined, then the result is there.
WaitReturns(e) == thread[e] = "ended" /\ result[e] # None

-----------------------------------------------------------------------------
(* The provider's thread.                                                  *)

CreateProcess(e) ==
  /\ thread[e] = "create"
  /\ process' = [process EXCEPT ![e] = "made"]
  /\ thread' = [thread EXCEPT ![e] = "start"]
  /\ UNCHANGED <<handle, exitCode, writes, unread, heard>>

\* EmitEvent writes Running whatever the status is.  Mutant: the callback is
\* not told.
EmitStartedSilent(e) ==
  /\ thread[e] = "start"
  /\ status' = [status EXCEPT ![e] = "Running"]
  /\ thread' = [thread EXCEPT ![e] = "spawn"]
  /\ UNCHANGED <<cancelRequested, result, child, heard>>
EmitStarted(e) ==
  /\ thread[e] = "start"
  /\ status' = [status EXCEPT ![e] = "Running"]
  /\ thread' = [thread EXCEPT ![e] = "tellStarted"]
  /\ UNCHANGED <<cancelRequested, result, child, heard>>

\* on_event, outside the mutex.
TellStarted(e) ==
  /\ thread[e] = "tellStarted"
  /\ heard' = [heard EXCEPT ![e] = "started"]
  /\ thread' = [thread EXCEPT ![e] = "spawn"]
  /\ UNCHANGED <<handle, child>>

SpawnProcess(e) ==
  /\ thread[e] = "spawn"
  /\ process' = [process EXCEPT ![e] = "alive"]
  /\ thread' = [thread EXCEPT ![e] = "read"]
  /\ UNCHANGED <<handle, exitCode, writes, unread, heard>>

SpawnFails(e) ==
  /\ thread[e] = "spawn"
  /\ exitCode' = [exitCode EXCEPT ![e] = 1]
  /\ thread' = [thread EXCEPT ![e] = "finish"]
  /\ UNCHANGED <<handle, process, writes, unread, heard>>

\* The polling section, up to TryWait.
ReadPipes(e) ==
  /\ thread[e] = "read"
  /\ unread' = [unread EXCEPT ![e] = IF process[e] = "reaped" THEN @ ELSE 0]
  /\ thread' = [thread EXCEPT ![e] = "look"]
  /\ UNCHANGED <<handle, process, exitCode, writes, heard>>

\* Mutant: the cancelled loop just leaves.
LeaveCancelled(e) ==
  /\ cancelRequested[e]
  /\ thread' = [thread EXCEPT ![e] = "finish"]
  /\ UNCHANGED <<process, exitCode>>
StopCancelled(e) ==
  /\ cancelRequested[e]
  /\ \E code \in Code : Terminated(e, code)
  /\ thread' = [thread EXCEPT ![e] = "reset"]

SeeExit(e) ==
  /\ ~cancelRequested[e] /\ process[e] = "exited"
  /\ process' = [process EXCEPT ![e] = "reaped"]
  /\ thread' = [thread EXCEPT ![e] = "reset"]
  /\ UNCHANGED exitCode

SeeAlive(e) ==
  /\ ~cancelRequested[e] /\ process[e] = "alive"
  /\ thread' = [thread EXCEPT ![e] = "read"]
  /\ UNCHANGED <<process, exitCode>>

\* The rest of the polling section: Terminate and ExitCode, or TryWait.
\* Mutant: only TryWait.
LookForExitOnly(e) ==
  /\ thread[e] = "look"
  /\ IF process[e] = "alive"
       THEN thread' = [thread EXCEPT ![e] = "read"] /\ UNCHANGED process
       ELSE /\ process' = [process EXCEPT ![e] = "reaped"]
            /\ thread' = [thread EXCEPT ![e] = "reset"]
  /\ UNCHANGED <<handle, exitCode, writes, unread, heard>>
LookForExit(e) ==
  /\ thread[e] = "look"
  /\ StopCancelled(e) \/ SeeExit(e) \/ SeeAlive(e)
  /\ UNCHANGED <<handle, writes, unread, heard>>

\* The destructor would terminate a process that still runs.
ResetProcess(e) ==
  /\ thread[e] = "reset"
  /\ process' = [process EXCEPT ![e] = "none"]
  /\ thread' = [thread EXCEPT ![e] = "finish"]
  /\ UNCHANGED <<handle, exitCode, writes, unread, heard>>

EmitFinished(e) ==
  /\ thread[e] = "finish"
  /\ status' = [status EXCEPT ![e] = FinalStatus(e, exitCode[e])]
  /\ result' = [result EXCEPT ![e] = exitCode[e]]
  /\ thread' = [thread EXCEPT ![e] = "tellFinished"]
  /\ UNCHANGED <<cancelRequested, child, heard>>

TellFinished(e) ==
  /\ thread[e] = "tellFinished"
  /\ heard' = [heard EXCEPT ![e] = "finished"]
  /\ thread' = [thread EXCEPT ![e] = "ended"]
  /\ UNCHANGED <<handle, child>>

Worker(e) ==
  \/ CreateProcess(e) \/ EmitStarted(e) \/ SpawnProcess(e) \/ SpawnFails(e)
  \/ ReadPipes(e) \/ LookForExit(e) \/ ResetProcess(e) \/ EmitFinished(e)

Callback(e) == TellStarted(e) \/ TellFinished(e)

-----------------------------------------------------------------------------
(* The process.                                                            *)

ProcessWrites(e) ==
  /\ process[e] = "alive" /\ writes[e] < MaxWrites
  /\ writes' = [writes EXCEPT ![e] = @ + 1]
  /\ unread' = [unread EXCEPT ![e] = @ + 1]
  /\ UNCHANGED <<handle, process, exitCode, thread, heard>>

ProcessExits(e) ==
  /\ process[e] = "alive"
  /\ process' = [process EXCEPT ![e] = "exited"]
  /\ \E code \in Code : exitCode' = [exitCode EXCEPT ![e] = code]
  /\ UNCHANGED <<handle, writes, unread, thread, heard>>

Process(e) == ProcessWrites(e) \/ ProcessExits(e)

-----------------------------------------------------------------------------
User(e) == Start(e) \/ StartWithoutProvider(e) \/ Cancel(e)

Next == \E e \in Execution : User(e) \/ Worker(e) \/ Callback(e) \/ Process(e)

\* The system runs the threads it was given; nothing makes a process exit.
ThreadsRun ==
  \A e \in Execution : WF_executionVars(Worker(e) \/ Callback(e))

Spec == Init /\ [][Next]_executionVars /\ ThreadsRun

-----------------------------------------------------------------------------
\* Types.
TypeOK ==
  /\ status \in [Execution -> ExecutionStatus]
  /\ cancelRequested \in [Execution -> BOOLEAN]
  /\ result \in [Execution -> Code \cup {None}]
  /\ process \in [Execution -> {"none", "made", "alive", "exited", "reaped"}]
  /\ exitCode \in [Execution -> Code]
  /\ writes \in [Execution -> 0 .. MaxWrites]
  /\ unread \in [Execution -> 0 .. MaxWrites]
  /\ thread \in [Execution -> ThreadStep]
  /\ heard \in [Execution -> {"nothing", "started", "finished"}]

\* An execution that has a result left no process behind: the thread waited
\* for it, or ended it, before it reported the end.
NoOrphan ==
  \A e \in Execution : result[e] # None => process[e] \notin {"alive", "exited"}

\* What an execution keeps in every state (Start's loop, Terminate).
ExecutionConsistent == TypeOK /\ NoOrphan

\* A result is final, and so is the status that came with it: a cancellation
\* that arrives after the end changes neither (ExecutionHandle::Cancel).
ResultIsFinal ==
  [][\A e \in Execution : result[e] # None =>
        result'[e] = result[e] /\ status'[e] = status[e]]_executionVars

\* An execution cancelled before its end never reports success, not even when
\* its process left with 0, and not when the cancellation came before the
\* thread wrote Running over it.
CancelledNeverSucceeds ==
  [][\A e \in Execution : cancelRequested[e] /\ result[e] = None =>
        status'[e] # "Succeeded"]_executionVars

\* A cancelled execution ends, whether its process would or not
\* (should_cancel in the polling loop).
CancelledEnds ==
  \A e \in Execution : cancelRequested[e] ~> thread[e] = "ended"

\* The callback and the result keep the order ExecutionContract promises.
Contract == INSTANCE ExecutionContract
  WITH Codes <- Code, outcome <- result
KeepsContract == Contract!Spec

\* tests/execution_tests.cpp requires result.output == "ok" of a command that
\* printed it and exited with 0: an execution that succeeded has handed over
\* everything its process wrote.
SuccessHasAllOutput ==
  \A e \in Execution : status[e] = "Succeeded" => unread[e] = 0
=============================================================================
