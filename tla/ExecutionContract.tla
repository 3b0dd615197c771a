-------------------------- MODULE ExecutionContract --------------------------
(***************************************************************************)
(* What ExecutionService promises the caller of Start, as its callback and *)
(* ResultValue see it: an execution is reported started at most once and   *)
(* before anything else, its exit code is decided once, and the end is     *)
(* reported once, after the code is decided and after the start; an        *)
(* execution no provider takes ends without having started.                *)
(***************************************************************************)
EXTENDS Naturals

CONSTANTS Execution, Codes, None

VARIABLES
  heard,   \* the last lifecycle event the callback was given
  outcome  \* the exit code, None while undecided

vars == <<heard, outcome>>

Init ==
  /\ heard = [e \in Execution |-> "nothing"]
  /\ outcome = [e \in Execution |-> None]

ReportStarted(e) ==
  /\ heard[e] = "nothing" /\ outcome[e] = None
  /\ heard' = [heard EXCEPT ![e] = "started"]
  /\ UNCHANGED outcome

Decide(e, code) ==
  /\ heard[e] = "started" /\ outcome[e] = None
  /\ outcome' = [outcome EXCEPT ![e] = code]
  /\ UNCHANGED heard

ReportFinished(e) ==
  /\ heard[e] = "started" /\ outcome[e] # None
  /\ heard' = [heard EXCEPT ![e] = "finished"]
  /\ UNCHANGED outcome

Refuse(e, code) ==
  /\ heard[e] = "nothing" /\ outcome[e] = None
  /\ heard' = [heard EXCEPT ![e] = "finished"]
  /\ outcome' = [outcome EXCEPT ![e] = code]

Next ==
  \E e \in Execution :
    \/ ReportStarted(e) \/ ReportFinished(e)
    \/ \E code \in Codes : Decide(e, code) \/ Refuse(e, code)

Spec == Init /\ [][Next]_vars /\ \A e \in Execution : WF_vars(ReportFinished(e))
=============================================================================
