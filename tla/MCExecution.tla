----------------------------- MODULE MCExecution -----------------------------
(***************************************************************************)
(* Executions for TLC, under two kinds of user: in a behaviour either      *)
(* anyone starts and cancels them in any order (ExecutionService), or one  *)
(* build does, with two threads that cancel it and a workspace that closes *)
(* (BuildService).  What executions promise is checked of both.            *)
(***************************************************************************)
EXTENDS ExecutionService

CONSTANTS Callers, MaxCalls

VARIABLES
  user, \* "anyone" or "build"
  job, cancellable, jobCancelRequested, cancelHandler,
  pc, planned, current, code, verdict, built, client, calling, calls

Build == INSTANCE BuildService

ASSUME BuildAssumption == MaxCalls \in Nat

buildVars ==
  <<job, cancellable, jobCancelRequested, cancelHandler, pc, planned, current,
    code, verdict, built, client, calling, calls>>

MCInit == user \in {"anyone", "build"} /\ Init /\ Build!Init

Anyone == user = "anyone" /\ Next /\ UNCHANGED <<user, buildVars>>

\* Bound: the tools of a build write nothing.
ABuild == user = "build" /\ UNCHANGED <<user, writes>> /\ Build!Next

\* The threads of executions run whoever the user is; the rest of the fairness
\* is BuildService's.
MCSpec ==
  /\ MCInit
  /\ [][Anyone \/ ABuild]_<<user, executionVars, buildVars>>
  /\ ThreadsRun
  /\ WF_buildVars(user = "build" /\ Build!Client)
  /\ WF_<<executionVars, buildVars>>(user = "build" /\ Build!Worker)
  /\ SF_buildVars(user = "build" /\ Build!StopExecution)
  /\ \A c \in Callers : SF_buildVars(user = "build" /\ Build!CallHandler(c))

\* The properties of BuildService.
BuildConsistent == user = "build" => Build!BuildConsistent
SucceededRanEveryStep == Build!SucceededRanEveryStep
CancelEndsBuild == Build!CancelEndsBuild
BuildWaitReturns == Build!WaitReturns
=============================================================================
