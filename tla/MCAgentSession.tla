--------------------------- MODULE MCAgentSession ---------------------------
(***************************************************************************)
(* Sessions share no state but the moment the workspace closes, so one     *)
(* session that calls up to three tools shows every case.  The variables   *)
(* are those of AgentSession; at and calls are called stage and toolCalls  *)
(* here, where threads have a position of their own (AgentProofs).         *)
(***************************************************************************)
EXTENDS Naturals

CONSTANTS Session, MaxCalls

VARIABLES
  session, job, cancelRequested, cancellable, handlers, handling, stage, result,
  toolCalls, index, operation, record, closing, lateCalls, threw, missed

Agent == INSTANCE AgentSession WITH at <- stage, calls <- toolCalls

ASSUME SessionAssumption == MaxCalls \in Nat

SessionSpec == Agent!FairSpec

\* The properties of AgentSession.
SessionConsistent == Agent!SessionConsistent
CancelStopsCalls == Agent!CancelStopsCalls
CompletedRanEveryCall == Agent!CompletedRanEveryCall
SessionsEnd == Agent!SessionsEnd
SuccessCompletes == Agent!SuccessCompletes
NoneLeftOpen == Agent!NoneLeftOpen
=============================================================================
