---------------------------- MODULE TaskContract ----------------------------
(***************************************************************************)
(* What a JobDispatcher (include/mornox/execution/job_service.h) promises  *)
(* those who post tasks to it: a task runs at most once, and only after it *)
(* was posted.  JobService counts on it: a task that ran twice would run a *)
(* job twice.                                                              *)
(***************************************************************************)
CONSTANT Task

VARIABLES posted, started, finished

vars == <<posted, started, finished>>

Init == posted = {} /\ started = {} /\ finished = {}

Post(t) ==
  /\ t \notin posted
  /\ posted' = posted \cup {t}
  /\ UNCHANGED <<started, finished>>

Start(t) ==
  /\ t \in posted \ started
  /\ started' = started \cup {t}
  /\ UNCHANGED <<posted, finished>>

Finish(t) ==
  /\ t \in started \ finished
  /\ finished' = finished \cup {t}
  /\ UNCHANGED <<posted, started>>

\* A task of the main queue is taken and run by one thread in one go.
StartAndFinish(t) ==
  /\ t \in posted \ started
  /\ started' = started \cup {t}
  /\ finished' = finished \cup {t}
  /\ UNCHANGED posted

Next == \E t \in Task : Post(t) \/ Start(t) \/ Finish(t) \/ StartAndFinish(t)

Spec == Init /\ [][Next]_vars
=============================================================================
