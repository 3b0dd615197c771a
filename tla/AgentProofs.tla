----------------------------- MODULE AgentProofs -----------------------------
(***************************************************************************)
(* Proofs about agent sessions, for any number of sessions and tool calls: *)
(* how a session, its job and the records of its operations agree, whoever *)
(* cancels, terminates or closes the workspace meanwhile.                  *)
(* And about language requests, for any number of calls, openings and      *)
(* texts: whoever is answered gets its own answer, and the server follows  *)
(* the document.                                                           *)
(***************************************************************************)
EXTENDS LanguageRequests, MCAgentSession, TLAPS

\* Before the model has answered.
StarterSteps == {"created", "job", "cancellable", "handler"}
Early ==
  {"none"} \cup StarterSteps \cup {"queued", "start", "begun", "collected", "asking", "respond"}

\* After RunSession has returned.
After == {"returned", "open", "settle", "done"}

RanAll(s) ==
  /\ index[s] = toolCalls[s]
  /\ \A k \in 1 .. toolCalls[s] : record[s][k] = "Completed"

\* A task that has not come to the tools has called none, and has no result.
Fresh(s) ==
  stage[s] \in Early =>
    index[s] = 0 /\ lateCalls[s] = 0 /\ result[s] = "Failed"

\* One call after the other, and an operation for the one that is waited for.
CallsInOrder(s) ==
  /\ index[s] <= toolCalls[s]
  /\ stage[s] = "calling" => index[s] < toolCalls[s]
  /\ stage[s] = "waiting" <=> operation[s] # "none"
  /\ stage[s] = "waiting" => index[s] >= 1

\* Nothing is called after a call that failed.
RecordsSoFar(s) ==
  /\ stage[s] \in {"call", "calling"} => \A k \in 1 .. index[s] : record[s][k] = "Completed"
  /\ stage[s] = "waiting" =>
       /\ \A k \in 1 .. index[s] : k # index[s] => record[s][k] = "Completed"
       /\ operation[s] = "ok" => record[s][index[s]] = "Completed"

\* A session that is about to complete, or has, ran every call: one that did
\* not says so until it is judged, or is gone.
JudgedRight(s) ==
  /\ stage[s] = "judge" => session[s] \in {"Missing", "Failed", "Cancelled"} \/ RanAll(s)
  /\ stage[s] = "judged" => session[s] \in {"Missing", "Cancelled"} \/ RanAll(s)
  /\ session[s] = "Completed" => stage[s] \in After /\ RanAll(s)

\* Who begins a call has looked at the session before, and a cancelled session
\* stays cancelled until it is gone.
LateOnce(s) ==
  /\ lateCalls[s] <= 1
  /\ lateCalls[s] = 1 =>
       /\ session[s] \in {"Cancelled", "Missing"}
       /\ stage[s] = "calling" => session[s] = "Missing"

\* The workspace clears jobs before sessions, and never while one is started.
ClearedInOrder(s) ==
  /\ closing = "jobsCleared" => job[s] = "Missing" /\ stage[s] \notin StarterSteps
  /\ stage[s] # "none" /\ session[s] = "Missing" =>
       job[s] = "Missing" /\ stage[s] \notin StarterSteps
  /\ stage[s] \notin {"none", "created"} /\ job[s] = "Missing" =>
       closing = "jobsCleared" \/ session[s] = "Missing"

\* Where the status of a job comes from.
JobFromTask(s) ==
  /\ stage[s] # "done" => job[s] \notin {"Succeeded", "Failed"}
  /\ stage[s] = "done" => job[s] \in {"Missing", "Cancelled", result[s]}
  /\ job[s] = "Cancelled" => s \in cancelRequested
  /\ result[s] = "Cancelled" => s \in cancelRequested \/ job[s] = "Missing"
  /\ result[s] = "Succeeded" =>
       /\ stage[s] \in After
       /\ \/ session[s] = "Completed" \/ job[s] = "Missing"
          \/ session[s] = "Cancelled" /\ s \in missed
  /\ session[s] = "Completed" => result[s] # "Failed"

\* A session is left open by a task that threw, or by a workspace that closes;
\* one that is cancelled behind the last look at it is remembered.
LeftOpen(s) ==
  /\ stage[s] \in After /\ session[s] \in Agent!Open => s \in threw \/ job[s] = "Missing"
  /\ stage[s] = "thrown" => s \in threw \/ job[s] = "Missing"
  /\ operation[s] = "broken" => job[s] = "Missing"
  /\ s \in threw =>
       stage[s] \in {"thrown", "settle", "done"} /\ session[s] \notin {"Completed", "Failed"}
  /\ stage[s] \in Early \cup {"judged"} => session[s] # "Failed"
  /\ stage[s] = "judged" /\ session[s] = "Cancelled" => s \in missed

\* What one session, its job and its operations keep.
Good(s) ==
  /\ Fresh(s) /\ CallsInOrder(s) /\ RecordsSoFar(s) /\ JudgedRight(s)
  /\ LateOnce(s) /\ ClearedInOrder(s) /\ JobFromTask(s) /\ LeftOpen(s)

SessionInv == Agent!TypeOK /\ \A s \in Session : Good(s)

\* What a step does to one session leaves the others alone.
Alone(s) ==
  /\ closing' = closing
  /\ \A t \in Session \ {s} :
       /\ session'[t] = session[t] /\ job'[t] = job[t] /\ stage'[t] = stage[t]
       /\ result'[t] = result[t] /\ toolCalls'[t] = toolCalls[t] /\ index'[t] = index[t]
       /\ operation'[t] = operation[t] /\ record'[t] = record[t]
       /\ lateCalls'[t] = lateCalls[t]
       /\ t \in cancelRequested' <=> t \in cancelRequested
       /\ t \in threw' <=> t \in threw
       /\ t \in missed' <=> t \in missed

-----------------------------------------------------------------------------
LEMMA SameGood ==
  ASSUME NEW t \in Session, Good(t), closing' = closing,
         session'[t] = session[t], job'[t] = job[t], stage'[t] = stage[t],
         result'[t] = result[t], toolCalls'[t] = toolCalls[t], index'[t] = index[t],
         operation'[t] = operation[t], record'[t] = record[t],
         lateCalls'[t] = lateCalls[t], t \in cancelRequested' <=> t \in cancelRequested,
         t \in threw' <=> t \in threw, t \in missed' <=> t \in missed
  PROVE  Good(t)'
BY DEF Good, Fresh, CallsInOrder, RecordsSoFar, JudgedRight, LateOnce, ClearedInOrder,
       JobFromTask, LeftOpen, RanAll

LEMMA OneSession ==
  ASSUME SessionInv, NEW s \in Session, Agent!TypeOK', Alone(s), Good(s)'
  PROVE  SessionInv'
<1>1. ASSUME NEW t \in Session PROVE Good(t)'
  <2>1. CASE t = s
    BY <2>1
  <2>2. CASE t # s
    BY <2>2, SameGood DEF Alone, SessionInv
  <2> QED BY <2>1, <2>2
<1> QED BY <1>1 DEF SessionInv

\* Update, of the session it is for and of the table.
LEMMA UpdatedIs ==
  ASSUME Agent!TypeOK, NEW s \in Session, NEW status \in Agent!Open \cup Agent!Ended
  PROVE  /\ Agent!Updated(s, status) \in [Session -> Agent!Open \cup Agent!Ended \cup {"Missing"}]
         /\ \A t \in Session \ {s} : Agent!Updated(s, status)[t] = session[t]
         /\ Agent!Updated(s, status)[s] = IF session[s] \in {"Missing", "Cancelled"}
                                      THEN session[s] ELSE status
BY DEF Agent!TypeOK, Agent!Updated

-----------------------------------------------------------------------------
\* Those who cancel the session or terminate its job.
LEMMA UserKeeps ==
  ASSUME SessionInv, NEW s \in Session,
         Agent!CancelSession(s) \/ Agent!RequestCancel(s) \/ Agent!Terminate(s) \/ Agent!HandleCancel(s)
  PROVE  SessionInv'
<1> USE DEF Agent!CancelSession, Agent!RequestCancel, Agent!Terminate, Agent!HandleCancel,
            Agent!TakeCancel
<1>1. UNCHANGED <<stage, result, toolCalls, index, operation, record, closing, lateCalls, threw>>
  BY DEF Agent!task, Agent!operations, Agent!jobs, Agent!history
<1>2. /\ session' \in [Session -> Agent!Open \cup Agent!Ended \cup {"Missing"}]
      /\ job' \in [Session -> Agent!TerminalJob \cup {"Missing", "Pending", "Running"}]
      /\ cancelRequested' \subseteq Session /\ cancellable' \subseteq Session
      /\ handlers' \subseteq Session /\ handling' \subseteq Session /\ missed' \subseteq Session
  <2>1. session' \in [Session -> Agent!Open \cup Agent!Ended \cup {"Missing"}]
    BY DEF SessionInv, Agent!TypeOK, Agent!jobs, Agent!Ended
  <2>2. job' \in [Session -> Agent!TerminalJob \cup {"Missing", "Pending", "Running"}]
    BY DEF SessionInv, Agent!TypeOK, Agent!jobs, Agent!TerminalJob
  <2>3. /\ cancelRequested' \subseteq Session /\ cancellable' \subseteq Session
        /\ handlers' \subseteq Session /\ handling' \subseteq Session
    BY DEF SessionInv, Agent!TypeOK, Agent!jobs
  <2>4. missed' \subseteq Session
    BY DEF SessionInv, Agent!TypeOK, Agent!history
  <2> QED BY <2>1, <2>2, <2>3, <2>4
<1>3. Agent!TypeOK'
  BY <1>1, <1>2 DEF SessionInv, Agent!TypeOK
<1>4. Alone(s)
  BY <1>1 DEF SessionInv, Agent!TypeOK, Alone, Agent!jobs, Agent!history
<1>5. /\ \/ session'[s] = session[s]
         \/ /\ session[s] \in Agent!Open /\ session'[s] = "Cancelled"
            /\ stage[s] = "judged" => s \in missed'
      /\ s \in missed => s \in missed'
      /\ \/ job'[s] = job[s]
         \/ /\ job[s] \notin Agent!TerminalJob \cup {"Missing"}
            /\ job'[s] = "Cancelled" /\ s \in cancelRequested'
      /\ s \in cancelRequested => s \in cancelRequested'
  BY DEF SessionInv, Agent!TypeOK, Agent!jobs, Agent!history, Agent!AcceptsCancel
<1>6. Good(s)
  BY DEF SessionInv
<1>7. Fresh(s)' /\ CallsInOrder(s)' /\ RecordsSoFar(s)'
  BY <1>1, <1>6 DEF Good, Fresh, CallsInOrder, RecordsSoFar
<1>8. JudgedRight(s)' /\ LateOnce(s)' /\ ClearedInOrder(s)'
  BY <1>1, <1>5, <1>6 DEF Good, JudgedRight, RanAll, LateOnce, ClearedInOrder, Agent!Open, Agent!TerminalJob
<1>9. JobFromTask(s)' /\ LeftOpen(s)'
  BY <1>1, <1>5, <1>6 DEF Good, JobFromTask, LeftOpen, Agent!Open, Agent!TerminalJob
<1> QED BY <1>3, <1>4, <1>7, <1>8, <1>9, OneSession DEF Good

\* StartSession.
LEMMA StarterKeeps ==
  ASSUME SessionInv, NEW s \in Session, Agent!Starter(s)
  PROVE  SessionInv'
<1> USE DEF Agent!Starter, Agent!CreateSession, Agent!CreateJob, Agent!SetCancellable, Agent!SetCancelHandler, Agent!Submit
<1>1. UNCHANGED <<cancelRequested, handling, result, toolCalls, index, operation, record, closing,
                  lateCalls, threw, missed>>
  BY DEF Agent!operations, Agent!jobs, Agent!history
<1>2. /\ session' \in [Session -> Agent!Open \cup Agent!Ended \cup {"Missing"}]
      /\ job' \in [Session -> Agent!TerminalJob \cup {"Missing", "Pending", "Running"}]
      /\ cancellable' \subseteq Session /\ handlers' \subseteq Session
      /\ stage' \in [Session -> Agent!Position]
  BY DEF SessionInv, Agent!TypeOK, Agent!jobs, Agent!Open, Agent!Position, Agent!Goto
<1>3. Agent!TypeOK'
  BY <1>1, <1>2 DEF SessionInv, Agent!TypeOK
<1>4. Alone(s)
  BY <1>1 DEF SessionInv, Agent!TypeOK, Alone, Agent!jobs, Agent!Goto
<1>5. \/ /\ stage[s] = "none" /\ stage'[s] = "created" /\ closing = "open"
         /\ session'[s] = "Pending" /\ job'[s] = job[s]
      \/ /\ stage[s] = "created" /\ stage'[s] = "job"
         /\ session'[s] = session[s] /\ job'[s] = "Pending"
      \/ /\ stage[s] \in StarterSteps \ {"created"} /\ stage'[s] \in StarterSteps \cup {"queued"}
         /\ stage'[s] # "created" /\ session'[s] = session[s] /\ job'[s] = job[s]
  BY DEF SessionInv, Agent!TypeOK, Agent!jobs, Agent!Goto, StarterSteps
<1>6. Good(s)
  BY DEF SessionInv
<1>7. Fresh(s)' /\ CallsInOrder(s)' /\ RecordsSoFar(s)'
  BY <1>1, <1>5, <1>6 DEF Good, Fresh, CallsInOrder, RecordsSoFar, Early, StarterSteps
<1>8. JudgedRight(s)' /\ LateOnce(s)' /\ ClearedInOrder(s)'
  BY <1>1, <1>5, <1>6
  DEF Good, JudgedRight, RanAll, LateOnce, ClearedInOrder, StarterSteps, Fresh, Early, After
<1>9. JobFromTask(s)' /\ LeftOpen(s)'
  BY <1>1, <1>5, <1>6 DEF Good, JobFromTask, LeftOpen, CallsInOrder, StarterSteps, Fresh, Early, After
<1> QED BY <1>3, <1>4, <1>7, <1>8, <1>9, OneSession DEF Good

\* RunSession up to the call of the first tool.
Answering(s) ==
  \/ Agent!RunTask(s) \/ Agent!NoticeCancel(s) \/ Agent!SessionGone(s) \/ Agent!Begin(s)
  \/ Agent!CollectContext(s) \/ Agent!AskModel(s) \/ Agent!Delta(s)
  \/ Agent!ModelFails(s) \/ Agent!ModelResponds(s) \/ Agent!Throw(s) \/ Agent!CallTools(s)

LEMMA AnsweringKeeps ==
  ASSUME SessionInv, NEW s \in Session, Answering(s)
  PROVE  SessionInv'
<1> USE DEF Answering, Agent!RunTask, Agent!NoticeCancel, Agent!SessionGone, Agent!Begin, Agent!CollectContext, Agent!AskModel,
            Agent!Delta, Agent!Advance, Agent!ModelFails, Agent!ModelResponds, Agent!Throw, Agent!CallTools, Agent!GiveUp, Agent!Goto
<1>0. /\ Agent!TypeOK /\ Good(s)
      /\ {"Cancelled", "CollectingContext", "Planning", "Running", "Failed"}
           \subseteq Agent!Open \cup Agent!Ended
  BY DEF SessionInv, Agent!Open, Agent!Ended
<1>1. /\ UNCHANGED <<cancelRequested, cancellable, handlers, handling, index, operation, record,
                     closing, lateCalls, missed>>
      /\ threw' = threw \/ (threw' = threw \cup {s} /\ stage'[s] = "thrown")
  BY DEF SessionInv, Agent!TypeOK, Agent!operations, Agent!jobs, Agent!history
<1>2. session' = session \/ \E status \in Agent!Open \cup Agent!Ended :
        /\ status # "Completed"
        /\ session' = Agent!Updated(s, status)
  BY <1>0
<1>3. /\ session' \in [Session -> Agent!Open \cup Agent!Ended \cup {"Missing"}]
      /\ \A t \in Session \ {s} : session'[t] = session[t]
      /\ session'[s] = session[s]
           \/ (session[s] \notin {"Missing", "Cancelled"} /\ session'[s] # "Missing"
               /\ session'[s] # "Completed")
  <2>1. ASSUME NEW status \in Agent!Open \cup Agent!Ended, status # "Completed", session' = Agent!Updated(s, status)
        PROVE  /\ session' \in [Session -> Agent!Open \cup Agent!Ended \cup {"Missing"}]
               /\ \A t \in Session \ {s} : session'[t] = session[t]
               /\ session'[s] = session[s]
                    \/ (session[s] \notin {"Missing", "Cancelled"} /\ session'[s] = status)
    BY <2>1, <1>0, UpdatedIs
  <2>2. "Missing" \notin Agent!Open \cup Agent!Ended
    BY DEF Agent!Open, Agent!Ended
  <2> QED BY <2>1, <2>2, <1>0, <1>2 DEF Agent!TypeOK
<1>4. /\ job' \in [Session -> Agent!TerminalJob \cup {"Missing", "Pending", "Running"}]
      /\ stage' \in [Session -> Agent!Position] /\ result' \in [Session -> Agent!TerminalJob]
  BY <1>0, ZenonT(40) DEF Agent!TypeOK, Agent!jobs, Agent!Position, Agent!TerminalJob
<1>5. toolCalls' \in [Session -> 0 .. MaxCalls]
  BY <1>0, SMTT(30) DEF Agent!TypeOK
<1>6. Agent!TypeOK'
  BY <1>0, <1>1, <1>3, <1>4, <1>5 DEF Agent!TypeOK
<1>7. Alone(s)
  BY <1>0, <1>1, <1>3 DEF Agent!TypeOK, Alone, Agent!jobs, Agent!history
<1>8. /\ stage[s] \in Early \ ({"none"} \cup StarterSteps)
      /\ stage'[s] \in {"done", "start", "begun", "collected", "asking", "respond", "returned",
                     "thrown", "call"}
      /\ stage'[s] = "done" => job[s] = "Missing"
  BY <1>0 DEF Agent!TypeOK, Early, StarterSteps
<1>9. /\ result'[s] = result[s] \/ result'[s] = "Failed"
      /\ job'[s] = job[s] \/ (job[s] # "Missing" /\ job'[s] = "Running")
      /\ toolCalls'[s] \in Nat
  BY <1>0, <1>5 DEF Agent!TypeOK, Agent!jobs
<1>10. Fresh(s)' /\ CallsInOrder(s)' /\ RecordsSoFar(s)'
  BY <1>0, <1>1, <1>8, <1>9
  DEF Good, Fresh, CallsInOrder, RecordsSoFar, Early, StarterSteps
<1>11. JudgedRight(s)' /\ LateOnce(s)' /\ ClearedInOrder(s)'
  BY <1>0, <1>1, <1>3, <1>8, <1>9
  DEF Good, JudgedRight, LateOnce, ClearedInOrder, StarterSteps, Fresh, Early, After
<1>12. JobFromTask(s)'
  BY <1>0, <1>1, <1>3, <1>8, <1>9 DEF Good, JobFromTask, StarterSteps, Fresh, Early, JudgedRight, After
<1>13. LeftOpen(s)'
  <2>1. stage'[s] = "thrown" => session'[s] = session[s] /\ threw' = threw \cup {s}
    BY <1>0 DEF Agent!TypeOK
  <2>2. stage'[s] = "returned" => session'[s] \notin Agent!Open
    BY <1>0, UpdatedIs DEF Agent!TypeOK, Agent!Open
  <2>3. stage'[s] \in Early => session'[s] = session[s] \/ session'[s] # "Failed"
    BY <1>0 DEF Agent!TypeOK, Agent!Updated, Early, StarterSteps
  <2>4. s \notin threw /\ session[s] \notin {"Completed", "Failed"} /\ operation[s] # "broken"
    BY <1>0, <1>8 DEF Good, LeftOpen, JudgedRight, CallsInOrder, Early, StarterSteps, After
  <2> QED BY <2>1, <2>2, <2>3, <2>4, <1>1, <1>8, <1>9 DEF LeftOpen, Early, StarterSteps, After
<1> QED BY <1>6, <1>7, <1>10, <1>11, <1>12, <1>13, OneSession DEF Good

LEMMA RecordIs ==
  ASSUME Agent!TypeOK, NEW s \in Session, NEW k \in Nat,
         NEW v \in {"Started", "Completed", "Failed"}, record' = [record EXCEPT ![s][k] = v]
  PROVE  /\ record' \in [Session -> [1 .. MaxCalls -> {"None", "Started", "Completed", "Failed"}]]
         /\ \A t \in Session \ {s} : record'[t] = record[t]
         /\ \A j \in 1 .. MaxCalls : record'[s][j] = IF j = k THEN v ELSE record[s][j]
<1>1. record[s] \in [1 .. MaxCalls -> {"None", "Started", "Completed", "Failed"}]
  BY DEF Agent!TypeOK
<1>2. [record[s] EXCEPT ![k] = v] \in
        [1 .. MaxCalls -> {"None", "Started", "Completed", "Failed"}]
  BY <1>1
<1>3. record' = [record EXCEPT ![s] = [record[s] EXCEPT ![k] = v]]
  OBVIOUS
<1> QED BY <1>1, <1>2, <1>3 DEF Agent!TypeOK

\* ExecuteToolCalls and the operations it waits for.
Calling(s) ==
  \/ Agent!NextCall(s) \/ Agent!BeginCall(s) \/ Agent!CallSucceeded(s) \/ Agent!CallFailed(s) \/ Agent!CallBroken(s)
  \/ Agent!RunOperation(s) \/ \E ok \in BOOLEAN : Agent!EndOperation(s, ok)

LEMMA CallingKeeps ==
  ASSUME SessionInv, NEW s \in Session, Calling(s)
  PROVE  SessionInv'
<1> USE DEF Calling, Agent!NextCall, Agent!BeginCall, Agent!CallSucceeded, Agent!CallFailed, Agent!CallBroken,
            Agent!RunOperation, Agent!EndOperation, Agent!Goto
<1>0. /\ Agent!TypeOK /\ Good(s)
      /\ {"Running", "Failed"} \subseteq Agent!Open \cup Agent!Ended
  BY DEF SessionInv, Agent!Open, Agent!Ended
<1>1. UNCHANGED <<Agent!jobs, handling, result, toolCalls, closing, threw, missed>>
  BY DEF Agent!task, Agent!history
<1>2. session' = session \/ \E status \in {"Running", "Failed"} : session' = Agent!Updated(s, status)
  OBVIOUS
<1>3. /\ session' \in [Session -> Agent!Open \cup Agent!Ended \cup {"Missing"}]
      /\ \A t \in Session \ {s} : session'[t] = session[t]
      /\ session'[s] = session[s]
           \/ (session[s] \notin {"Missing", "Cancelled"} /\ session'[s] \in {"Running", "Failed"})
  BY <1>0, <1>2, UpdatedIs, SMTT(30) DEF Agent!TypeOK
<1>4. /\ stage[s] \in {"call", "calling", "waiting"}
      /\ index[s] \in 0 .. MaxCalls /\ toolCalls[s] \in 0 .. MaxCalls /\ index[s] <= toolCalls[s]
  BY <1>0 DEF Agent!TypeOK, Good, CallsInOrder, Agent!task
<1>5. /\ stage' \in [Session -> Agent!Position]
      /\ operation' \in [Session -> {"none", "queued", "running", "ok", "failed", "broken"}]
      /\ lateCalls' \in [Session -> Nat]
  <2>1. stage' \in [Session -> Agent!Position]
    BY <1>0 DEF Agent!TypeOK, Agent!Position, Agent!task
  <2>2. operation' \in [Session -> {"none", "queued", "running", "ok", "failed", "broken"}]
    <3>1. PICK o \in {"none", "queued", "running", "ok", "failed"} :
            operation' = operation \/ operation' = [operation EXCEPT ![s] = o]
      BY DEF Agent!operations
    <3>2. operation \in [Session -> {"none", "queued", "running", "ok", "failed", "broken"}]
      BY <1>0 DEF Agent!TypeOK
    <3>3. [operation EXCEPT ![s] = o]
            \in [Session -> {"none", "queued", "running", "ok", "failed", "broken"}]
      BY <3>2
    <3> QED BY <3>1, <3>2, <3>3
  <2>3. lateCalls' \in [Session -> Nat]
    <3>1. lateCalls' = lateCalls \/ lateCalls' = [lateCalls EXCEPT ![s] = lateCalls[s] + 1]
      BY DEF Agent!history
    <3>2. lateCalls \in [Session -> Nat] /\ lateCalls[s] + 1 \in Nat
      BY <1>0 DEF Agent!TypeOK
    <3> QED BY <3>1, <3>2
  <2> QED BY <2>1, <2>2, <2>3
<1>6. index' \in [Session -> 0 .. MaxCalls]
  <2>1. index' = index \/ (stage[s] = "calling" /\ index' = [index EXCEPT ![s] = index[s] + 1])
    BY DEF Agent!task
  <2>2. stage[s] = "calling" => index[s] + 1 \in 0 .. MaxCalls
    BY <1>0, <1>4, SessionAssumption DEF Good, CallsInOrder
  <2>3. index \in [Session -> 0 .. MaxCalls]
    BY <1>0 DEF Agent!TypeOK
  <2> QED BY <2>1, <2>2, <2>3
<1>7. /\ record' \in [Session -> [1 .. MaxCalls -> {"None", "Started", "Completed", "Failed"}]]
      /\ \A t \in Session \ {s} : record'[t] = record[t]
  <2>1. record' = record \/ \E k \in Nat, v \in {"Started", "Completed", "Failed"} :
          record' = [record EXCEPT ![s][k] = v]
    <3>1. index[s] \in Nat /\ index[s] + 1 \in Nat
      BY <1>4, SessionAssumption
    <3> QED BY <3>1 DEF Agent!operations
  <2>2. ASSUME NEW k \in Nat, NEW v \in {"Started", "Completed", "Failed"},
               record' = [record EXCEPT ![s][k] = v]
        PROVE  /\ record' \in [Session -> [1 .. MaxCalls -> {"None", "Started", "Completed", "Failed"}]]
               /\ \A t \in Session \ {s} : record'[t] = record[t]
    BY <2>2, <1>0, RecordIs
  <2>3. CASE record' = record
    BY <2>3, <1>0 DEF Agent!TypeOK
  <2> QED BY <2>1, <2>2, <2>3
<1>8. Agent!TypeOK'
  BY <1>0, <1>1, <1>3, <1>5, <1>6, <1>7 DEF Agent!TypeOK, Agent!jobs
<1>9. Alone(s)
  BY <1>0, <1>1, <1>3, <1>7
  DEF Agent!TypeOK, Alone, Agent!jobs, Agent!task, Agent!operations, Agent!history
<1>10. stage'[s] \in {"call", "calling", "waiting", "judge", "thrown"}
  BY <1>0, <1>4 DEF Agent!TypeOK, Agent!task
<1>11. Fresh(s)'
  BY <1>10 DEF Fresh, Early, StarterSteps
<1>12. CallsInOrder(s)' /\ RecordsSoFar(s)'
  <2>1. CASE Agent!NextCall(s)
    BY <2>1, <1>0, <1>4 DEF Agent!TypeOK, Good, CallsInOrder, RecordsSoFar, Agent!operations
  <2>2. CASE Agent!BeginCall(s)
    <3>1. /\ stage[s] = "calling" /\ stage'[s] = "waiting" /\ index'[s] = index[s] + 1
          /\ operation'[s] = "queued"
      BY <2>2, <1>0 DEF Agent!TypeOK
    <3>2. \A k \in 1 .. MaxCalls : k # index[s] + 1 => record'[s][k] = record[s][k]
      <4>1. index[s] + 1 \in Nat /\ record' = [record EXCEPT ![s][index[s] + 1] = "Started"]
        BY <2>2, <1>4, SessionAssumption
      <4> QED BY <4>1, <1>0, RecordIs, SMTT(30)
    <3>3. index[s] < toolCalls[s] /\ \A k \in 1 .. index[s] : record[s][k] = "Completed"
      BY <3>1, <1>0 DEF Good, CallsInOrder, RecordsSoFar
    <3>4. CallsInOrder(s)'
      BY <3>1, <3>3, <1>1, <1>4, SessionAssumption DEF CallsInOrder
    <3>5. RecordsSoFar(s)'
      BY <3>1, <3>2, <3>3, <1>4, SessionAssumption DEF RecordsSoFar
    <3> QED BY <3>4, <3>5
  <2>3. CASE Agent!CallSucceeded(s) \/ Agent!CallFailed(s) \/ Agent!CallBroken(s)
    BY <2>3, <1>0, <1>4 DEF Agent!TypeOK, Good, CallsInOrder, RecordsSoFar
  <2>4. CASE Agent!RunOperation(s)
    BY <2>4, <1>0, <1>4 DEF Agent!TypeOK, Good, CallsInOrder, RecordsSoFar, Agent!task
  <2>5. ASSUME NEW ok \in BOOLEAN, Agent!EndOperation(s, ok)
        PROVE  CallsInOrder(s)' /\ RecordsSoFar(s)'
    <3>1. /\ operation[s] = "running" /\ operation'[s] = (IF ok THEN "ok" ELSE "failed")
          /\ index[s] \in 1 .. MaxCalls /\ stage'[s] = stage[s]
      BY <2>5, <1>0, <1>4 DEF Agent!TypeOK, Good, CallsInOrder, Agent!task
    <3>2. /\ \A k \in 1 .. MaxCalls : k # index[s] => record'[s][k] = record[s][k]
          /\ record'[s][index[s]] = (IF ok THEN "Completed" ELSE "Failed")
      <4> DEFINE v == IF ok THEN "Completed" ELSE "Failed"
      <4>1. index[s] \in Nat /\ v \in {"Started", "Completed", "Failed"}
            /\ record' = [record EXCEPT ![s][index[s]] = v]
        BY <2>5, <3>1
      <4>2. v = IF ok THEN "Completed" ELSE "Failed"
        OBVIOUS
      <4> HIDE DEF v
      <4>3. \A j \in 1 .. MaxCalls : record'[s][j] = IF j = index[s] THEN v ELSE record[s][j]
        BY <4>1, <1>0, RecordIs
      <4> QED BY <4>2, <4>3, <3>1
    <3> QED BY <2>5, <3>1, <3>2, <1>0, <1>4 DEF Good, CallsInOrder, RecordsSoFar, Agent!task
  <2> QED BY <2>1, <2>2, <2>3, <2>4, <2>5
<1>13. JudgedRight(s)'
  <2>1. CASE stage'[s] = "judge"
    <3>1. CASE Agent!NextCall(s)
      BY <3>1, <2>1, <1>0, <1>4 DEF Agent!TypeOK, Good, RecordsSoFar, JudgedRight, RanAll, After, Agent!operations
    <3>2. CASE Agent!CallFailed(s)
      BY <3>2, <2>1, <1>0, UpdatedIs DEF JudgedRight
    <3> QED BY <3>1, <3>2, <2>1, <1>0, <1>4 DEF Agent!TypeOK, Agent!task
  <2>2. CASE stage'[s] # "judge"
    BY <2>2, <1>0, <1>3, <1>4, <1>10 DEF Good, JudgedRight, After
  <2> QED BY <2>1, <2>2
<1>14. LateOnce(s)'
  BY <1>0, <1>3, <1>4 DEF Agent!TypeOK, Good, LateOnce, Agent!task, Agent!history
<1>15. ClearedInOrder(s)' /\ JobFromTask(s)'
  BY <1>0, <1>1, <1>3, <1>4, <1>10
  DEF Good, ClearedInOrder, JobFromTask, JudgedRight, After, StarterSteps, Agent!jobs
<1>16. LeftOpen(s)'
  <2>1. stage'[s] = "thrown" => operation[s] = "broken"
    BY <1>0, <1>4 DEF Agent!TypeOK, Agent!task
  <2>2. operation'[s] # "broken" \/ operation'[s] = operation[s]
    BY <1>0 DEF Agent!TypeOK, Agent!operations
  <2> QED BY <2>1, <2>2, <1>0, <1>1, <1>4, <1>10
          DEF Good, LeftOpen, Early, StarterSteps, After, Agent!jobs
<1> QED BY <1>8, <1>9, <1>11, <1>12, <1>13, <1>14, <1>15, <1>16, OneSession DEF Good

\* The snapshot after the calls, and what JobService makes of the result.
Ending(s) ==
  \/ Agent!JudgeEnded(s) \/ Agent!JudgeOpen(s) \/ Agent!Complete(s)
  \/ Agent!CheckTerminal(s) \/ Agent!CheckCancellation(s) \/ Agent!Settle(s)

LEMMA EndingKeeps ==
  ASSUME SessionInv, NEW s \in Session, Ending(s)
  PROVE  SessionInv'
<1> USE DEF Ending, Agent!JudgeEnded, Agent!JudgeOpen, Agent!Complete, Agent!CheckTerminal, Agent!CheckCancellation, Agent!Settle,
            Agent!GiveUp, Agent!Goto
<1>0. Agent!TypeOK /\ Good(s)
  BY DEF SessionInv
<1>1. UNCHANGED <<cancelRequested, cancellable, handling, toolCalls, index, operation, record,
                  closing, lateCalls, threw, missed>>
  BY DEF Agent!operations, Agent!jobs, Agent!history
<1>2. /\ session' \in [Session -> Agent!Open \cup Agent!Ended \cup {"Missing"}]
      /\ \A t \in Session \ {s} : session'[t] = session[t]
      /\ session'[s] = session[s]
           \/ (stage[s] = "judged" /\ session[s] \notin {"Missing", "Cancelled"}
               /\ session'[s] = "Completed")
  <2>1. CASE Agent!Complete(s)
    <3>1. "Completed" \in Agent!Open \cup Agent!Ended
      BY DEF Agent!Ended
    <3> QED BY <2>1, <3>1, <1>0, UpdatedIs
  <2>2. CASE session' = session
    BY <2>2, <1>0 DEF Agent!TypeOK
  <2> QED BY <2>1, <2>2
<1>3. /\ job' \in [Session -> Agent!TerminalJob \cup {"Missing", "Pending", "Running"}]
      /\ stage' \in [Session -> Agent!Position] /\ result' \in [Session -> Agent!TerminalJob]
      /\ handlers' \subseteq Session
  <2>1. job' \in [Session -> Agent!TerminalJob \cup {"Missing", "Pending", "Running"}]
    BY <1>0, ZenonT(40) DEF Agent!TypeOK, Agent!jobs
  <2>2. stage' \in [Session -> Agent!Position]
    <3>1. PICK p \in Agent!Position : stage' = [stage EXCEPT ![s] = p]
      BY DEF Agent!Position
    <3> QED BY <3>1, <1>0 DEF Agent!TypeOK
  <2>3. result' \in [Session -> Agent!TerminalJob]
    BY <1>0 DEF Agent!TypeOK, Agent!TerminalJob
  <2>4. handlers' \subseteq Session
    BY <1>0 DEF Agent!TypeOK, Agent!jobs
  <2> QED BY <2>1, <2>2, <2>3, <2>4
<1>4. Agent!TypeOK'
  BY <1>0, <1>1, <1>2, <1>3 DEF Agent!TypeOK
<1>5. Alone(s)
  BY <1>0, <1>1, <1>2 DEF Agent!TypeOK, Alone, Agent!jobs
<1>6. /\ stage[s] \in {"judge", "judged", "returned", "thrown", "open", "settle"}
      /\ stage'[s] \in {"judged", "returned", "open", "settle", "done"}
      /\ stage'[s] = "judged" =>
           stage[s] = "judge" /\ session[s] \notin {"Failed", "Cancelled"}
  BY <1>0 DEF Agent!TypeOK
<1>7. Fresh(s)' /\ CallsInOrder(s)' /\ RecordsSoFar(s)' /\ LateOnce(s)'
  BY <1>0, <1>1, <1>2, <1>6
  DEF Good, Fresh, CallsInOrder, RecordsSoFar, LateOnce, Early, StarterSteps
<1>8. JudgedRight(s)'
  BY <1>0, <1>1, <1>2, <1>6 DEF Good, JudgedRight, RanAll, After
<1>9. job'[s] = job[s] \/ (stage[s] = "settle" /\ job[s] # "Missing" /\ job'[s] = result[s])
  BY <1>0 DEF Agent!TypeOK, Agent!jobs
<1>10. ClearedInOrder(s)'
  <2>1. job'[s] = "Missing" => job[s] = "Missing"
    BY <1>0, <1>9 DEF Agent!TypeOK, Agent!TerminalJob
  <2> QED BY <2>1, <1>0, <1>1, <1>2, <1>6, <1>9 DEF Good, ClearedInOrder, StarterSteps
<1>11. JobFromTask(s)'
  <2>1. CASE Agent!JudgeEnded(s) \/ Agent!JudgeOpen(s)
    BY <2>1, <1>0, <1>2, <1>6 DEF Agent!TypeOK, Good, JobFromTask, JudgedRight, After, Agent!jobs
  <2>2. CASE Agent!Complete(s)
    <3>1. session'[s] = IF session[s] \in {"Missing", "Cancelled"} THEN session[s] ELSE "Completed"
      <4>1. "Completed" \in Agent!Open \cup Agent!Ended
        BY DEF Agent!Ended
      <4> QED BY <2>2, <4>1, <1>0, UpdatedIs
    <3>2. /\ stage[s] = "judged" /\ stage'[s] = "returned"
          /\ result'[s] = "Succeeded" /\ job'[s] = job[s]
      BY <2>2, <1>0 DEF Agent!TypeOK, Agent!jobs
    <3> QED BY <3>1, <3>2, <1>0, <1>1 DEF Good, JobFromTask, LeftOpen, ClearedInOrder, After
  <2>3. CASE Agent!CheckTerminal(s)
    BY <2>3, <1>0, <1>1 DEF Agent!TypeOK, Good, JobFromTask, JudgedRight, After, Agent!TerminalJob, Agent!jobs
  <2>4. CASE Agent!CheckCancellation(s)
    BY <2>4, <1>0, <1>1 DEF Agent!TypeOK, Good, JobFromTask, JudgedRight, After, Agent!TerminalJob, Agent!jobs
  <2>5. CASE Agent!Settle(s)
    BY <2>5, <1>0, <1>1 DEF Agent!TypeOK, Good, JobFromTask, JudgedRight, After, Agent!TerminalJob, Agent!jobs
  <2> QED BY <2>1, <2>2, <2>3, <2>4, <2>5
<1>12. LeftOpen(s)'
  <2>1. stage'[s] \in After /\ stage[s] \notin After =>
          session'[s] \notin Agent!Open \/ stage[s] = "thrown"
    <3>1. "Completed" \in Agent!Open \cup Agent!Ended
      BY DEF Agent!Ended
    <3> QED BY <1>0, <1>6, <3>1, UpdatedIs DEF Agent!TypeOK, Agent!Open, After
  <2>2. /\ stage[s] = "judge" \/ stage[s] = "judged" => s \notin threw
        /\ stage[s] = "thrown" => stage'[s] \in {"settle", "done"}
        /\ stage[s] = "settle" => stage'[s] = "done"
        /\ stage[s] = "returned" \/ stage[s] = "open" => s \notin threw
    BY <1>0 DEF Good, LeftOpen, Agent!TypeOK
  <2> QED BY <2>1, <2>2, <1>0, <1>1, <1>2, <1>6, <1>9
          DEF Good, LeftOpen, Early, StarterSteps, After, Agent!Open
<1> QED BY <1>4, <1>5, <1>7, <1>8, <1>10, <1>11, <1>12, OneSession DEF Good

\* The workspace closes.
LEMMA ClearKeeps ==
  ASSUME SessionInv, Agent!ClearJobs \/ Agent!ClearSessions
  PROVE  SessionInv'
<1>0. Agent!TypeOK /\ \A s \in Session : Good(s)
  BY DEF SessionInv
<1>1. CASE Agent!ClearJobs
  <2>1. UNCHANGED <<session, handling, stage, result, toolCalls, index, record, lateCalls, threw,
                    missed>>
    BY <1>1 DEF Agent!ClearJobs, Agent!task, Agent!history
  <2>2. /\ \A s \in Session :
             /\ job'[s] = "Missing" /\ stage[s] \notin StarterSteps
             /\ operation'[s] = IF operation[s] = "queued" THEN "broken" ELSE operation[s]
        /\ closing' = "jobsCleared"
    BY <1>1 DEF Agent!ClearJobs, Agent!Starting, StarterSteps
  <2>3. operation' \in [Session -> {"none", "queued", "running", "ok", "failed", "broken"}]
    BY <1>0, <1>1 DEF Agent!ClearJobs, Agent!TypeOK
  <2>4. Agent!TypeOK'
    BY <1>0, <1>1, <2>1, <2>3 DEF Agent!ClearJobs, Agent!TypeOK
  <2>5. ASSUME NEW s \in Session PROVE Good(s)'
    <3>1. Good(s) /\ job'[s] = "Missing" /\ stage[s] \notin StarterSteps
          /\ operation'[s] = IF operation[s] = "queued" THEN "broken" ELSE operation[s]
      BY <1>0, <2>2
    <3>2. Fresh(s)' /\ CallsInOrder(s)' /\ RecordsSoFar(s)' /\ LateOnce(s)'
      BY <2>1, <3>1 DEF Good, Fresh, CallsInOrder, RecordsSoFar, LateOnce
    <3>3. JudgedRight(s)' /\ ClearedInOrder(s)' /\ JobFromTask(s)' /\ LeftOpen(s)'
      BY <2>1, <2>2, <3>1 DEF Good, JudgedRight, RanAll, ClearedInOrder, JobFromTask, LeftOpen
    <3> QED BY <3>2, <3>3 DEF Good
  <2> QED BY <2>4, <2>5 DEF SessionInv
<1>2. CASE Agent!ClearSessions
  <2>1. UNCHANGED <<job, cancelRequested, cancellable, handlers, handling, stage, result, toolCalls,
                    index, operation, record, lateCalls, threw, missed>>
    BY <1>2 DEF Agent!ClearSessions, Agent!jobs, Agent!task, Agent!operations, Agent!history
  <2>2. /\ closing = "jobsCleared" /\ closing' = "open"
        /\ \A s \in Session : session'[s] = "Missing"
    BY <1>2 DEF Agent!ClearSessions
  <2>3. Agent!TypeOK'
    BY <1>0, <1>2, <2>1 DEF Agent!ClearSessions, Agent!TypeOK
  <2>4. ASSUME NEW s \in Session PROVE Good(s)'
    <3>1. Good(s) /\ session'[s] = "Missing"
      BY <1>0, <2>2
    <3>2. Fresh(s)' /\ CallsInOrder(s)' /\ RecordsSoFar(s)' /\ LateOnce(s)'
      BY <2>1, <3>1 DEF Good, Fresh, CallsInOrder, RecordsSoFar, LateOnce
    <3>3. JudgedRight(s)' /\ ClearedInOrder(s)' /\ JobFromTask(s)'
      BY <2>1, <2>2, <3>1 DEF Good, JudgedRight, RanAll, ClearedInOrder, JobFromTask
    <3>4. LeftOpen(s)'
      BY <2>1, <2>2, <3>1 DEF Good, LeftOpen, JudgedRight, JobFromTask, ClearedInOrder, Agent!Open
    <3> QED BY <3>2, <3>3, <3>4 DEF Good
  <2> QED BY <2>3, <2>4 DEF SessionInv
<1> QED BY <1>1, <1>2

LEMMA SessionInitially == Agent!Init => SessionInv
<1> SUFFICES ASSUME Agent!Init PROVE SessionInv
  OBVIOUS
<1>1. MaxCalls \in Nat
  BY SessionAssumption
<1>2. Agent!TypeOK
  BY <1>1 DEF Agent!Init, Agent!TypeOK, Agent!Position, Agent!TerminalJob
<1>3. ASSUME NEW s \in Session PROVE Good(s)
  BY DEF Agent!Init, Good, Fresh, CallsInOrder, RecordsSoFar, JudgedRight, LateOnce, ClearedInOrder,
         JobFromTask, LeftOpen, StarterSteps, After
<1> QED BY <1>2, <1>3 DEF SessionInv

LEMMA SessionStepKeeps == SessionInv /\ [Agent!Next]_(Agent!vars) => SessionInv'
<1>1. ASSUME SessionInv, UNCHANGED Agent!vars PROVE SessionInv'
  <2>1. UNCHANGED <<session, job, cancelRequested, cancellable, handlers, handling, stage, result,
                    toolCalls, index, operation, record, closing, lateCalls, threw, missed>>
    BY <1>1 DEF Agent!vars, Agent!jobs, Agent!task, Agent!operations, Agent!history
  <2>2. Agent!TypeOK'
    BY <1>1, <2>1 DEF SessionInv, Agent!TypeOK
  <2>3. \A s \in Session : Good(s)'
    BY <1>1, <2>1, SameGood DEF SessionInv
  <2> QED BY <2>2, <2>3 DEF SessionInv
<1>2. ASSUME Agent!Next
      PROVE  \/ Agent!ClearJobs \/ Agent!ClearSessions
             \/ \E s \in Session :
                  \/ Agent!CancelSession(s) \/ Agent!RequestCancel(s) \/ Agent!Terminate(s) \/ Agent!HandleCancel(s)
                  \/ Agent!Starter(s) \/ Answering(s) \/ Calling(s) \/ Ending(s)
  BY <1>2 DEF Agent!Next, Agent!Task, Agent!Model, Agent!Operation, Answering, Calling, Ending
<1> QED
  BY <1>1, <1>2, UserKeeps, StarterKeeps, AnsweringKeeps, CallingKeeps, EndingKeeps, ClearKeeps

\* Once the task has ended, the job and the session agree but for a cancellation
\* behind the last look at the session; only a collector or provider that threw
\* leaves a session open (RunSession, JobService::Submit, WorkspaceRuntime::Close).
THEOREM SessionStaysConsistent == Agent!Spec => []SessionConsistent
<1>1. ASSUME SessionInv PROVE SessionConsistent
  <2>1. ASSUME NEW s \in Session, stage[s] = "done"
        PROVE  /\ job[s] = "Succeeded" =>
                    session[s] = "Completed" \/ (session[s] = "Cancelled" /\ s \in missed)
               /\ job[s] = "Failed" =>
                    \/ session[s] \in {"Failed", "Cancelled"}
                    \/ session[s] \in Agent!Open /\ s \in threw
               /\ job[s] = "Cancelled" => s \in cancelRequested
               /\ session[s] = "Completed" => job[s] \in {"Succeeded", "Cancelled", "Missing"}
               /\ session[s] \in Agent!Open => s \in threw \/ closing = "jobsCleared"
    <3>1. /\ Agent!TypeOK /\ JobFromTask(s) /\ LeftOpen(s) /\ ClearedInOrder(s)
          /\ session[s] \in Agent!Open \cup {"Completed", "Failed", "Cancelled", "Missing"}
      BY <1>1 DEF SessionInv, Good, Agent!TypeOK, Agent!Ended
    <3>2. /\ job[s] \in {"Missing", "Cancelled", "Succeeded", "Failed"}
          /\ session[s] = "Missing" => job[s] = "Missing"
          /\ "Missing" \notin Agent!Open
      BY <2>1, <3>1 DEF JobFromTask, ClearedInOrder, Agent!TypeOK, Agent!TerminalJob, Agent!Open
    <3>3. /\ job[s] = "Succeeded" =>
                session[s] = "Completed" \/ (session[s] = "Cancelled" /\ s \in missed)
          /\ job[s] = "Cancelled" => s \in cancelRequested
          /\ session[s] = "Completed" => job[s] \in {"Succeeded", "Cancelled", "Missing"}
      BY <2>1, <3>1, <3>2 DEF JobFromTask
    <3>4. session[s] \in Agent!Open => s \in threw \/ job[s] = "Missing"
      BY <2>1, <3>1 DEF LeftOpen, After
    <3>5. job[s] = "Missing" /\ session[s] \in Agent!Open => closing = "jobsCleared"
      BY <2>1, <3>1, <3>2 DEF ClearedInOrder
    <3>6. job[s] = "Failed" =>
            \/ session[s] \in {"Failed", "Cancelled"}
            \/ session[s] \in Agent!Open /\ s \in threw
      BY <3>1, <3>2, <3>3, <3>4
    <3> QED BY <3>3, <3>4, <3>5, <3>6
  <2> QED BY <1>1, <2>1 DEF SessionInv, SessionConsistent, Agent!SessionConsistent, Agent!OutcomesAgree
<1> QED BY <1>1, SessionInitially, SessionStepKeeps, PTL DEF Agent!Spec

\* A cancelled session starts at most one more operation (ExecuteToolCalls).
THEOREM CancelStops == Agent!Spec => []CancelStopsCalls
<1>1. ASSUME SessionInv PROVE CancelStopsCalls
  BY <1>1 DEF SessionInv, Good, LateOnce, CancelStopsCalls, Agent!CancelStopsCalls
<1> QED BY <1>1, SessionInitially, SessionStepKeeps, PTL DEF Agent!Spec

\* A completed session has run every tool call of the response, and the record
\* of each says so (ExecuteToolCalls, AgentOperationService::Execute).
THEOREM CompletionIsWhole == Agent!Spec => []CompletedRanEveryCall
<1>1. ASSUME SessionInv PROVE CompletedRanEveryCall
  BY <1>1 DEF SessionInv, Good, JudgedRight, RanAll, CompletedRanEveryCall,
              Agent!CompletedRanEveryCall
<1> QED BY <1>1, SessionInitially, SessionStepKeeps, PTL DEF Agent!Spec
-----------------------------------------------------------------------------
(* Language requests: the inductive invariant.                             *)

\* What the main thread has to announce, and when.
MainBusy ==
  /\ at["main"] \in {"idle", "send", "wait", "answered"} => event.kind = "none"
  /\ at["main"] = "changed" => event.kind \in {"open", "change", "save"}
  /\ at["main"] = "announce" => event.kind \in Kinds
  /\ at["main"] = "announce" /\ event.kind # "close" => event.text = text
  /\ at["main"] \in {"changed", "announce"} => IsOpen

\* An open document has a text, and each of its versions was another text.
DocumentOpen == (text = 0 <=> version = 0) /\ version <= texts

\* A request's number is used once.
NumbersUsedOnce ==
  /\ nextId >= 1
  /\ \A t \in Threads : id[t] < nextId /\ (at[t] = "wait" => id[t] >= 1)
  /\ \A i \in 1 .. Len(toServer) : toServer[i].kind = "ask" => toServer[i].value \in 1 .. nextId - 1
  /\ \A i \in 1 .. Len(toClient) : toClient[i].kind = "answer" => toClient[i].id < nextId

\* The texts on their way to the server are texts of the document.
TextsSent ==
  \A i \in 1 .. Len(toServer) : toServer[i].kind \in Kinds => toServer[i].value \in 0 .. MaxTexts

\* An answer is kept until its caller returns.
AnswersReturned == \A t \in Threads : at[t] # "answered" => answer[t] = NoAnswer

\* What a caller of Query saw was the document at its version.
Seen ==
  remembered # Unseen =>
    /\ remembered.opens <= opens
    /\ remembered.opens = opens /\ IsOpen =>
         /\ remembered.version <= version
         /\ remembered.version = version => remembered.text = text

\* Messages that say what the server's text is.
Textual(m) == m.kind \in {"open", "change", "close"}
IsLast(i) == Textual(toServer[i]) /\ \A j \in i + 1 .. Len(toServer) : ~Textual(toServer[j])
NoText == \A i \in 1 .. Len(toServer) : ~Textual(toServer[i])

\* From position p of the pipe on the server has the document open; 0 is what
\* it has read.
OpenFrom(p) ==
  /\ IF p = 0 THEN known # 0 ELSE toServer[p].kind = "open" /\ toServer[p].value # 0
  /\ \A i \in p + 1 .. Len(toServer) :
       toServer[i].kind # "close" /\ (toServer[i].kind \in {"open", "change"} => toServer[i].value # 0)

OpenThere == \E p \in 0 .. Len(toServer) : OpenFrom(p)

\* What the server's text will be is the document's.
EndsWithText ==
  /\ \A i \in 1 .. Len(toServer) : IsLast(i) => toServer[i].value = text
  /\ NoText => known = text

\* The server will have the document's text, but for a change or an opening
\* that is still to be announced.
ServerWillFollow ==
  told =>
    /\ running /\ IsOpen
    /\ event.kind # "open" => OpenThere
    /\ event.kind \notin {"open", "change"} => EndsWithText

\* What the main thread asks, it asks about the text it has.
MainAsksLast ==
  told /\ at["main"] = "wait" =>
    /\ \A i \in 1 .. Len(toServer) :
         toServer[i].kind = "ask" /\ toServer[i].value = id["main"] =>
           \A j \in i + 1 .. Len(toServer) : ~Textual(toServer[j])
    /\ \A i \in 1 .. Len(toClient) :
         toClient[i].kind = "answer" /\ toClient[i].id = id["main"] => toClient[i].text = text
MainHasAnswer == told /\ answer["main"].kind = "answer" => answer["main"].text = text

LanguageInv ==
  /\ TypeOK /\ MainBusy /\ DocumentOpen /\ NumbersUsedOnce /\ TextsSent
  /\ AnswersFitRequests /\ AnswersReturned /\ Seen
  /\ ServerWillFollow /\ MainAsksLast /\ MainHasAnswer
  /\ ~outdated

-----------------------------------------------------------------------------
(* The pipes.                                                              *)

LEMMA AppendIs ==
  ASSUME NEW S, NEW q \in Seq(S), NEW e \in S, NEW r, r = Append(q, e)
  PROVE  /\ r \in Seq(S) /\ Len(q) \in Nat /\ Len(r) = Len(q) + 1
         /\ r[Len(q) + 1] = e
         /\ \A i \in 1 .. Len(q) : r[i] = q[i]
OBVIOUS

LEMMA TailIs ==
  ASSUME NEW S, NEW q \in Seq(S), q # <<>>, NEW r, r = Tail(q)
  PROVE  /\ r \in Seq(S) /\ Len(q) \in Nat /\ Len(q) >= 1 /\ Len(r) = Len(q) - 1
         /\ Head(q) = q[1] /\ q[1] \in S
         /\ \A i \in 1 .. Len(r) : r[i] = q[i + 1]
OBVIOUS

LEMMA ExceptIs ==
  ASSUME NEW S, NEW q \in Seq(S), NEW k \in 1 .. Len(q), NEW e \in S, NEW r, r = [q EXCEPT ![k] = e]
  PROVE  r \in Seq(S) /\ Len(r) = Len(q)
<1>1. Len(q) \in Nat /\ q \in [1 .. Len(q) -> S]
  OBVIOUS
<1>2. r \in [1 .. Len(q) -> S]
  BY <1>1
<1> QED BY <1>1, <1>2

\* A message that is not about the text changes nothing in what the server will
\* know.
LEMMA AppendOther ==
  ASSUME TypeOK, NEW m \in ToServer, m.kind \in {"ask", "save"},
         toServer' = Append(toServer, m), known' = known
  PROVE  /\ OpenThere => OpenThere'
         /\ text' = text => (EndsWithText => EndsWithText')
<1>1. toServer \in Seq(ToServer)
  BY DEF TypeOK, ToServer
<1>2. /\ Len(toServer) \in Nat /\ Len(toServer') = Len(toServer) + 1
      /\ toServer'[Len(toServer) + 1] = m
      /\ \A i \in 1 .. Len(toServer) : toServer'[i] = toServer[i]
  BY <1>1, AppendIs
<1>3. ASSUME OpenThere PROVE OpenThere'
  <2>1. PICK p \in 0 .. Len(toServer) : OpenFrom(p)
    BY <1>3 DEF OpenThere
  <2>2. p \in 0 .. Len(toServer') /\ OpenFrom(p)'
    BY <1>2, <2>1 DEF OpenFrom
  <2> QED BY <2>2 DEF OpenThere
<1>4. ASSUME text' = text, EndsWithText PROVE EndsWithText'
  <2>1. ASSUME NEW i \in 1 .. Len(toServer'), IsLast(i)' PROVE toServer'[i].value = text'
    <3>1. i \in 1 .. Len(toServer) /\ IsLast(i)
      BY <1>2, <2>1 DEF IsLast, Textual
    <3> QED BY <1>2, <1>4, <3>1 DEF EndsWithText
  <2>2. NoText' => NoText
    BY <1>2 DEF NoText
  <2> QED BY <1>4, <2>1, <2>2 DEF EndsWithText
<1> QED BY <1>3, <1>4

\* A text that is announced is what the server will know.
LEMMA AppendText ==
  ASSUME TypeOK, NEW m \in ToServer, m.kind \in {"open", "change"}, m.value # 0,
         m.kind = "change" => OpenThere,
         toServer' = Append(toServer, m), known' = known
  PROVE  /\ OpenThere'
         /\ m.value = text' => EndsWithText'
<1>1. toServer \in Seq(ToServer)
  BY DEF TypeOK, ToServer
<1>2. /\ Len(toServer) \in Nat /\ Len(toServer') = Len(toServer) + 1
      /\ toServer'[Len(toServer) + 1] = m
      /\ \A i \in 1 .. Len(toServer) : toServer'[i] = toServer[i]
  BY <1>1, AppendIs
<1>3. ASSUME m.kind = "open" PROVE OpenThere'
  <2>1. PICK p \in Nat : p = Len(toServer) + 1
    BY <1>2
  <2>2. p \in 0 .. Len(toServer') /\ p # 0 /\ toServer'[p] = m
    BY <1>2, <2>1
  <2>3. \A i \in p + 1 .. Len(toServer') : FALSE
    BY <1>2, <2>1
  <2>4. OpenFrom(p)'
    BY <1>3, <2>2, <2>3 DEF OpenFrom
  <2> QED BY <2>2, <2>4 DEF OpenThere
<1>4. ASSUME m.kind = "change" PROVE OpenThere'
  <2>1. PICK p \in 0 .. Len(toServer) : OpenFrom(p)
    BY <1>4 DEF OpenThere
  <2>2. p \in 0 .. Len(toServer')
    BY <1>2
  <2>3. ASSUME NEW i \in p + 1 .. Len(toServer')
        PROVE  /\ toServer'[i].kind # "close"
               /\ toServer'[i].kind \in {"open", "change"} => toServer'[i].value # 0
    <3>1. CASE i = Len(toServer) + 1
      BY <1>2, <1>4, <3>1
    <3>2. CASE i # Len(toServer) + 1
      BY <1>2, <2>1, <3>2 DEF OpenFrom
    <3> QED BY <3>1, <3>2
  <2>4. IF p = 0 THEN known' # 0 ELSE toServer'[p].kind = "open" /\ toServer'[p].value # 0
    BY <1>2, <2>1 DEF OpenFrom
  <2>5. OpenFrom(p)'
    BY <2>3, <2>4 DEF OpenFrom
  <2> QED BY <2>2, <2>5 DEF OpenThere
<1>5. ASSUME m.value = text' PROVE EndsWithText'
  <2>1. ASSUME NEW i \in 1 .. Len(toServer'), IsLast(i)' PROVE i = Len(toServer')
    BY <1>2, <2>1 DEF IsLast, Textual
  <2>2. ~NoText'
    BY <1>2 DEF NoText, Textual
  <2> QED BY <1>2, <1>5, <2>1, <2>2 DEF EndsWithText
<1> QED BY <1>3, <1>4, <1>5

\* The server reads what it was sent.
LEMMA ServeFollows ==
  ASSUME TypeOK, Serve
  PROVE  /\ OpenThere => OpenThere'
         /\ OpenThere /\ EndsWithText => EndsWithText'
<1>1. toServer \in Seq(ToServer) /\ toServer # <<>> /\ toServer' = Tail(toServer)
      /\ text' = text
  BY DEF TypeOK, ToServer, Serve, document
<1>2. /\ Len(toServer) \in Nat /\ Len(toServer) >= 1 /\ Len(toServer') = Len(toServer) - 1
      /\ Head(toServer) = toServer[1] /\ toServer[1] \in ToServer
      /\ \A i \in 1 .. Len(toServer') : toServer'[i] = toServer[i + 1]
  BY <1>1, TailIs
<1>3. /\ toServer[1].kind = "open" => known' = toServer[1].value
      /\ toServer[1].kind = "change" => known' = IF known # 0 THEN toServer[1].value ELSE known
      /\ toServer[1].kind \in {"save", "ask"} => known' = known
  BY <1>2 DEF Serve
<1>4. ASSUME OpenThere PROVE OpenThere'
  <2>1. PICK p \in 0 .. Len(toServer) : OpenFrom(p)
    BY <1>4 DEF OpenThere
  <2>2. CASE p \in {0, 1}
    <3>1. known' # 0
      BY <1>2, <1>3, <2>1, <2>2 DEF OpenFrom, ToServer, Kinds
    <3>2. OpenFrom(0)'
      BY <1>2, <2>1, <2>2, <3>1 DEF OpenFrom
    <3> QED BY <1>2, <3>2 DEF OpenThere
  <2>3. CASE p \notin {0, 1}
    <3>1. p - 1 \in 1 .. Len(toServer') /\ OpenFrom(p - 1)'
      BY <1>2, <2>1, <2>3, SMTT(30) DEF OpenFrom
    <3> QED BY <1>2, <3>1 DEF OpenThere
  <2> QED BY <2>2, <2>3
<1>5. ASSUME OpenThere, EndsWithText PROVE EndsWithText'
  <2>1. ASSUME NEW i \in 1 .. Len(toServer'), IsLast(i)' PROVE toServer'[i].value = text'
    <3>1. i + 1 \in 1 .. Len(toServer) /\ toServer'[i] = toServer[i + 1]
      BY <1>2
    <3>2. IsLast(i + 1)
      <4>1. Textual(toServer[i + 1])
        BY <2>1, <3>1 DEF IsLast
      <4>2. ASSUME NEW j \in i + 2 .. Len(toServer) PROVE ~Textual(toServer[j])
        <5>1. j - 1 \in i + 1 .. Len(toServer') /\ toServer'[j - 1] = toServer[j]
          BY <1>2
        <5> QED BY <2>1, <5>1 DEF IsLast
      <4> QED BY <4>1, <4>2 DEF IsLast
    <3> QED BY <1>1, <1>5, <3>1, <3>2 DEF EndsWithText
  <2>2. ASSUME NoText' PROVE known' = text'
    <3>1. \A i \in 2 .. Len(toServer) : ~Textual(toServer[i])
      <4> TAKE i \in 2 .. Len(toServer)
      <4>1. i - 1 \in 1 .. Len(toServer') /\ toServer'[i - 1] = toServer[i]
        BY <1>2
      <4> QED BY <2>2, <4>1 DEF NoText
    <3>2. CASE Textual(toServer[1])
      <4>1. IsLast(1)
        BY <3>1, <3>2 DEF IsLast
      <4>2. toServer[1].value = text
        BY <1>2, <1>5, <4>1 DEF EndsWithText
      <4>3. toServer[1].kind # "close" /\ (toServer[1].kind = "change" => known # 0)
        <5>1. PICK p \in 0 .. Len(toServer) : OpenFrom(p)
          BY <1>5 DEF OpenThere
        <5>2. p \in {0, 1}
          BY <1>2, <3>1, <5>1 DEF OpenFrom, Textual
        <5> QED BY <1>2, <5>1, <5>2 DEF OpenFrom
      <4> QED BY <1>1, <1>3, <3>2, <4>2, <4>3 DEF Textual
    <3>3. CASE ~Textual(toServer[1])
      <4>1. NoText
        BY <3>1, <3>3 DEF NoText
      <4> QED BY <1>1, <1>2, <1>3, <1>5, <3>3, <4>1 DEF EndsWithText, Textual, ToServer, Kinds
    <3> QED BY <3>2, <3>3
  <2> QED BY <2>1, <2>2 DEF EndsWithText
<1> QED BY <1>4, <1>5

-----------------------------------------------------------------------------
(* The document and the calls.                                             *)

LEMMA LanguageParts ==
  ASSUME LanguageInv
  PROVE  /\ "main" \in Threads /\ MaxTexts \in Nat /\ MaxOpens \in Nat /\ MaxStarts \in Nat
         /\ MaxNotices \in Nat /\ NoThread \notin Threads
         /\ TypeOK /\ MainBusy /\ DocumentOpen /\ NumbersUsedOnce /\ TextsSent
         /\ AnswersFitRequests /\ AnswersReturned /\ Seen
         /\ ServerWillFollow /\ MainAsksLast /\ MainHasAnswer /\ ~outdated
         /\ toServer \in Seq(ToServer) /\ toClient \in Seq(ToClient)
         /\ NoAnswer.kind # "answer"
BY LanguageAssumption DEF LanguageInv, Threads, TypeOK, NoAnswer, Body

\* The pipes, when nobody uses them.
LEMMA PipesKept ==
  ASSUME UNCHANGED <<toServer, known>>
  PROVE  /\ OpenThere' <=> OpenThere
         /\ text' = text => (EndsWithText' <=> EndsWithText)
<1>1. \A p \in 0 .. Len(toServer) : OpenFrom(p)' <=> OpenFrom(p)
  BY DEF OpenFrom
<1>2. \A i \in 1 .. Len(toServer) : IsLast(i)' <=> IsLast(i)
  BY DEF IsLast
<1>3. NoText' <=> NoText
  BY DEF NoText
<1> QED BY <1>1, <1>2, <1>3 DEF OpenThere, EndsWithText

\* What the client has yet to read, when no answer is new in it.
NoNewAnswer ==
  \A i \in 1 .. Len(toClient') :
    toClient'[i].kind = "answer" => \E j \in 1 .. Len(toClient) : toClient[j] = toClient'[i]

LEMMA OldAnswers ==
  ASSUME LanguageInv, NoNewAnswer, UNCHANGED <<id, nextId, toServer, text, told>>,
         \A t \in Threads : at'[t] = "wait" => at[t] = "wait"
  PROVE  NumbersUsedOnce' /\ MainAsksLast'
<1>1. NumbersUsedOnce'
  BY LanguageParts DEF NoNewAnswer, NumbersUsedOnce
<1>2. ASSUME told, at'["main"] = "wait", NEW i \in 1 .. Len(toClient'),
             toClient'[i].kind = "answer", toClient'[i].id = id["main"]
      PROVE  toClient'[i].text = text
  <2>1. PICK j \in 1 .. Len(toClient) : toClient[j] = toClient'[i]
    BY <1>2 DEF NoNewAnswer
  <2> QED BY <1>2, <2>1, LanguageParts DEF MainAsksLast
<1>3. MainAsksLast'
  BY <1>2, LanguageParts DEF MainAsksLast
<1> QED BY <1>1, <1>3

Documents == OpenDocument \/ SetText \/ SaveDocument \/ CloseDocument \/ TakeSnapshot

LEMMA DocumentKeeps ==
  ASSUME LanguageInv, Documents
  PROVE  LanguageInv'
<1> USE DEF Documents, OpenDocument, SetText, SaveDocument, CloseDocument, TakeSnapshot
<1>1. /\ UNCHANGED <<remembered, id, answer, holder, nextId, running, starts, toServer,
                     toClient, read, torn, notices, known, outdated, confused>>
  BY DEF document, client, pipes, incoming, server, history
<1>2. /\ at["main"] \in {"idle", "changed"} /\ at'["main"] \in {"changed", "announce"}
      /\ at' \in [Threads -> {"idle", "changed", "announce", "send", "wait", "answered"}]
      /\ \A t \in Threads : t # "main" => at'[t] = at[t]
  BY LanguageParts, ZenonT(60) DEF TypeOK, Goes
<1>3. /\ event' \in [kind : Kinds \cup {"none"}, text : 0 .. MaxTexts]
      /\ at["main"] = "idle" => event.kind = "none"
      /\ at'["main"] = "changed" => event'.kind \in {"open", "change", "save"}
      /\ at'["main"] = "announce" => event'.kind \in Kinds
      /\ at'["main"] = "announce" /\ event'.kind # "close" => event'.text = text'
  <2>1. /\ event \in [kind : Kinds \cup {"none"}, text : 0 .. MaxTexts] /\ text \in 0 .. MaxTexts
        /\ {"open", "change", "save", "close"} \subseteq Kinds /\ 0 \in 0 .. MaxTexts
        /\ at["main"] = "idle" => event.kind = "none"
        /\ at["main"] = "changed" => event.kind \in {"open", "change", "save"}
    BY <1>2, LanguageParts DEF TypeOK, MainBusy, Kinds
  <2>2. CASE TakeSnapshot
    <3>1. /\ at["main"] = "changed" /\ at'["main"] = "announce" /\ text' = text
          /\ event' = [event EXCEPT !.text = text]
      BY <1>2, <2>2, LanguageParts DEF TypeOK, Goes, document
    <3> QED BY <2>1, <3>1
  <2>3. CASE ~TakeSnapshot
    <3>1. /\ at["main"] = "idle"
          /\ \/ at'["main"] = "changed" /\ \E k \in {"open", "change", "save"} : event' = [NoEvent EXCEPT !.kind = k]
             \/ at'["main"] = "announce" /\ event' = [NoEvent EXCEPT !.kind = "close"]
      BY <1>2, <2>3, LanguageParts DEF TypeOK, Goes
    <3> QED BY <2>1, <3>1 DEF NoEvent
  <2> QED BY <2>2, <2>3
<1>4. /\ text' \in 0 .. MaxTexts /\ version' \in 0 .. MaxTexts
      /\ disk' \in 1 .. MaxTexts /\ texts' \in 1 .. MaxTexts /\ opens' \in 0 .. MaxOpens
      /\ text' # 0 /\ version' # 0 /\ version' <= texts'
  <2>1. /\ text \in 0 .. MaxTexts /\ version \in 0 .. MaxTexts
        /\ disk \in 1 .. MaxTexts /\ texts \in 1 .. MaxTexts /\ opens \in 0 .. MaxOpens
        /\ text = 0 <=> version = 0
        /\ version <= texts
        /\ at["main"] = "changed" => version # 0
    BY LanguageParts DEF TypeOK, DocumentOpen, MainBusy, IsOpen
  <2>2. CASE OpenDocument
    BY <2>1, <2>2, LanguageParts
  <2>3. CASE SetText
    BY <2>1, <2>3, LanguageParts, SMTT(30) DEF IsOpen
  <2>4. CASE SaveDocument
    BY <2>1, <2>4, LanguageParts DEF IsOpen
  <2>5. CASE CloseDocument \/ TakeSnapshot
    BY <2>1, <2>5, LanguageParts DEF IsOpen, document, Goes
  <2> QED BY <2>2, <2>3, <2>4, <2>5
<1>5. told' \in BOOLEAN
  BY LanguageParts DEF TypeOK, history
<1>6. TypeOK'
  BY <1>1, <1>2, <1>3, <1>4, <1>5, LanguageParts DEF TypeOK
<1>7. MainBusy'
  BY <1>2, <1>3, <1>4 DEF MainBusy, IsOpen
<1>8. DocumentOpen' /\ NumbersUsedOnce' /\ TextsSent' /\ AnswersFitRequests' /\ AnswersReturned'
  BY <1>1, <1>2, <1>4, LanguageParts
  DEF DocumentOpen, NumbersUsedOnce, TextsSent, AnswersFitRequests, AnswersReturned
<1>9. Seen'
  <2>1. /\ version \in Nat /\ opens \in Nat
        /\ remembered.version \in Nat /\ remembered.opens \in Nat
    BY LanguageParts DEF TypeOK
  <2>2. CASE OpenDocument
    BY <1>1, <2>1, <2>2, LanguageParts DEF Seen
  <2>3. CASE SetText
    BY <1>1, <2>1, <2>3, LanguageParts DEF Seen, IsOpen
  <2>4. CASE SaveDocument \/ CloseDocument \/ TakeSnapshot
    BY <1>1, <2>4, LanguageParts DEF Seen, IsOpen, document
  <2> QED BY <2>2, <2>3, <2>4
<1>10. ServerWillFollow'
  BY <1>1, <1>3, <1>4, LanguageParts, PipesKept
  DEF ServerWillFollow, MainBusy, IsOpen, document, history, Goes, NoEvent
<1>11. MainAsksLast' /\ MainHasAnswer' /\ ~outdated'
  BY <1>1, <1>2, LanguageParts DEF MainAsksLast, MainHasAnswer, AnswersReturned
<1> QED BY <1>6, <1>7, <1>8, <1>9, <1>10, <1>11 DEF LanguageInv

LEMMA NotifyKeeps ==
  ASSUME LanguageInv, Notify
  PROVE  LanguageInv'
<1> USE DEF Notify
<1>1. /\ UNCHANGED <<remembered, id, answer, holder, nextId, running, starts, toClient,
                     read, torn, disk, texts, opens, notices, known, outdated, confused>>
      /\ event' = NoEvent
      /\ \/ event.kind = "close" /\ text' = 0 /\ version' = 0 /\ told' = FALSE
         \/ event.kind # "close" /\ text' = text /\ version' = version /\ told' = told
  BY DEF document, client, incoming, server
<1>2. /\ at["main"] = "announce" /\ at'["main"] = "idle"
      /\ at' \in [Threads -> {"idle", "changed", "announce", "send", "wait", "answered"}]
      /\ \A t \in Threads : t # "main" => at'[t] = at[t]
  BY LanguageParts DEF TypeOK, Goes
<1> DEFINE m == Message(event.kind, event.text)
<1>3. /\ m \in ToServer /\ m.kind = event.kind /\ m.value = event.text
      /\ event.kind \in Kinds /\ event.text \in 0 .. MaxTexts
      /\ event.kind # "close" => event.text = text
      /\ version # 0 /\ text # 0
  <2>1. /\ event \in [kind : Kinds \cup {"none"}, text : 0 .. MaxTexts]
        /\ event.kind \in Kinds /\ version # 0 /\ text # 0
        /\ event.kind # "close" => event.text = text
    BY <1>2, LanguageParts DEF TypeOK, MainBusy, DocumentOpen, IsOpen
  <2>2. event.text \in 0 .. MaxTexts /\ event.text \in Nat
    BY <2>1, LanguageParts
  <2> QED BY <2>1, <2>2 DEF Message, ToServer
<1>4. toServer' = IF running THEN Append(toServer, m) ELSE toServer
  OBVIOUS
<1> HIDE DEF m
<1>5. /\ toServer' \in Seq(ToServer)
      /\ \A i \in 1 .. Len(toServer') : toServer'[i].kind = "ask" => toServer'[i].value \in 1 .. nextId - 1
      /\ TextsSent'
  <2>1. CASE running
    <3>1. /\ toServer' \in Seq(ToServer) /\ Len(toServer) \in Nat
          /\ Len(toServer') = Len(toServer) + 1 /\ toServer'[Len(toServer) + 1] = m
          /\ \A i \in 1 .. Len(toServer) : toServer'[i] = toServer[i]
      BY <1>3, <1>4, <2>1, LanguageParts, AppendIs
    <3>2. m.kind # "ask"
      BY <1>3 DEF Kinds
    <3> QED BY <1>3, <3>1, <3>2, LanguageParts, SMTT(30) DEF NumbersUsedOnce, TextsSent
  <2>2. CASE ~running
    BY <1>4, <2>2, LanguageParts DEF NumbersUsedOnce, TextsSent
  <2> QED BY <2>1, <2>2
<1>6. TypeOK'
  <2>1. event' \in [kind : Kinds \cup {"none"}, text : 0 .. MaxTexts]
    BY <1>1, LanguageParts DEF NoEvent
  <2>2. toServer' \in Seq(ToServer)
    BY <1>5
  <2>3. text' \in 0 .. MaxTexts /\ version' \in 0 .. MaxTexts
    <3>1. text \in 0 .. MaxTexts /\ version \in 0 .. MaxTexts /\ MaxTexts \in Nat
      BY LanguageParts DEF TypeOK
    <3> QED BY <1>1, <3>1
  <2>4. told' \in BOOLEAN
    <3>1. told \in BOOLEAN
      BY LanguageParts DEF TypeOK
    <3> QED BY <1>1, <3>1
  <2> QED BY <1>1, <1>2, <2>1, <2>2, <2>3, <2>4, LanguageParts DEF TypeOK
<1>7. MainBusy' /\ DocumentOpen' /\ NumbersUsedOnce'
  <2>1. MainBusy'
    BY <1>1, <1>2 DEF MainBusy, NoEvent
  <2>2. DocumentOpen'
    <3>1. texts \in 1 .. MaxTexts /\ MaxTexts \in Nat
      BY LanguageParts DEF TypeOK
    <3>2. texts >= 0
      BY <3>1
    <3> QED BY <1>1, <3>2, LanguageParts DEF DocumentOpen
  <2>3. \A t \in Threads : at'[t] = "wait" => at[t] = "wait"
    BY <1>2
  <2>4. NumbersUsedOnce'
    BY <1>1, <1>5, <2>3, LanguageParts DEF NumbersUsedOnce
  <2> QED BY <2>1, <2>2, <2>4
<1>8. AnswersFitRequests' /\ AnswersReturned' /\ MainAsksLast' /\ MainHasAnswer' /\ ~outdated'
  BY <1>1, <1>2, LanguageParts, SMTT(30)
  DEF AnswersFitRequests, AnswersReturned, MainAsksLast, MainHasAnswer
<1>9. Seen'
  BY <1>1, LanguageParts DEF Seen, IsOpen
<1>10. ServerWillFollow'
  <2>1. ASSUME told' PROVE OpenThere' /\ EndsWithText' /\ running' /\ IsOpen'
    <3>1. /\ told /\ running /\ event.kind # "close" /\ text' = text /\ version' = version
          /\ running' = running
      BY <1>1, <2>1, LanguageParts DEF ServerWillFollow
    <3>2. toServer' = Append(toServer, m)
      BY <1>4, <3>1
    <3>3. CASE event.kind = "save"
      BY <1>1, <1>3, <3>1, <3>2, <3>3, LanguageParts, AppendOther DEF ServerWillFollow, IsOpen
    <3>4. CASE event.kind \in {"open", "change"}
      <4>1. event.kind = "change" => OpenThere
        BY <3>1, LanguageParts DEF ServerWillFollow
      <4>2. OpenThere' /\ EndsWithText'
        BY <1>1, <1>3, <3>1, <3>2, <3>4, <4>1, LanguageParts, AppendText
      <4> QED BY <1>3, <3>1, <4>2 DEF IsOpen
    <3> QED BY <1>3, <3>1, <3>3, <3>4 DEF Kinds
  <2> QED BY <2>1 DEF ServerWillFollow
<1> QED BY <1>5, <1>6, <1>7, <1>8, <1>9, <1>10 DEF LanguageInv

\* Those who are about to ask.
Asks == Remember \/ Execute \/ \E t \in Workers : CallTool(t)

LEMMA AskKeeps ==
  ASSUME LanguageInv, Asks
  PROVE  LanguageInv'
<1> USE DEF Asks, Remember, Execute, CallTool
<1>1. /\ UNCHANGED <<text, version, disk, texts, opens, event, id, answer, holder, nextId, running,
                     starts, toServer, toClient, read, torn, notices, known, told, outdated, confused>>
  BY DEF document, client, pipes, incoming, server, history
<1>2. /\ at' \in [Threads -> {"idle", "changed", "announce", "send", "wait", "answered"}]
      /\ \A t \in Threads : at'[t] # at[t] => at[t] = "idle" /\ at'[t] = "send"
  BY LanguageParts, ZenonT(40) DEF TypeOK, Goes, Threads
<1>3. \/ remembered' = remembered \/ remembered' = Unseen
      \/ remembered' = [version |-> version, text |-> text, opens |-> opens]
  OBVIOUS
<1>4. remembered' \in [version : 0 .. MaxTexts, text : 0 .. MaxTexts, opens : 0 .. MaxOpens]
  <2>1. /\ text \in 0 .. MaxTexts /\ version \in 0 .. MaxTexts /\ opens \in 0 .. MaxOpens
        /\ 0 \in 0 .. MaxTexts /\ 0 \in 0 .. MaxOpens
        /\ remembered \in [version : 0 .. MaxTexts, text : 0 .. MaxTexts, opens : 0 .. MaxOpens]
    BY LanguageParts DEF TypeOK
  <2> QED BY <1>3, <2>1 DEF Unseen
<1>5. TypeOK'
  BY <1>1, <1>2, <1>4, LanguageParts DEF TypeOK
<1>6. MainBusy'
  BY <1>1, <1>2, LanguageParts DEF MainBusy, IsOpen
<1>7. DocumentOpen' /\ NumbersUsedOnce' /\ TextsSent' /\ AnswersFitRequests' /\ AnswersReturned'
  BY <1>1, <1>2, LanguageParts
  DEF DocumentOpen, NumbersUsedOnce, TextsSent, AnswersFitRequests, AnswersReturned
<1>8. Seen'
  <2>1. version \in Nat /\ opens \in Nat
    BY LanguageParts DEF TypeOK
  <2> QED BY <1>1, <1>3, <2>1, LanguageParts DEF Seen, IsOpen, Unseen
<1>9. ServerWillFollow'
  BY <1>1, LanguageParts, PipesKept DEF ServerWillFollow, IsOpen
<1>10. MainAsksLast' /\ MainHasAnswer' /\ ~outdated'
  BY <1>1, <1>2, LanguageParts DEF MainAsksLast, MainHasAnswer
<1> QED BY <1>5, <1>6, <1>7, <1>8, <1>9, <1>10 DEF LanguageInv

\* A request is written.
LEMMA SendKeeps ==
  ASSUME LanguageInv, NEW t \in Threads, Send(t)
  PROVE  LanguageInv'
<1>1. /\ UNCHANGED <<text, version, disk, texts, opens, event, remembered, running, starts, toClient,
                     read, torn, notices, known, told, outdated, confused>>
      /\ nextId' = nextId + 1 /\ holder = NoThread
  BY DEF Send, document, incoming, server, history
<1>2. /\ at[t] = "send"
      /\ at' \in [Threads -> {"idle", "changed", "announce", "send", "wait", "answered"}]
      /\ \A u \in Threads : u # t => at'[u] = at[u] /\ id'[u] = id[u] /\ answer'[u] = answer[u]
      /\ id' \in [Threads -> Nat] /\ id'[t] = nextId
      /\ answer' \in [Threads -> ToClient] /\ answer'[t] = NoAnswer
      /\ nextId \in Nat /\ nextId >= 1
  <2>1. /\ at \in [Threads -> {"idle", "changed", "announce", "send", "wait", "answered"}]
        /\ id \in [Threads -> Nat] /\ nextId \in Nat /\ nextId >= 1
        /\ answer \in [Threads -> ToClient]
        /\ NoAnswer \in ToClient
    <3>1. NoAnswer \in ToClient
      BY LanguageParts DEF NoAnswer, Body, ToClient
    <3> QED BY <3>1, LanguageParts DEF TypeOK, NumbersUsedOnce
  <2>2. /\ at[t] = "send"
        /\ at' = [at EXCEPT ![t] = "wait"] \/ at' = [at EXCEPT ![t] = "answered"]
        /\ id' = [id EXCEPT ![t] = nextId]
        /\ answer' = [answer EXCEPT ![t] = NoAnswer]
    BY DEF Send, Goes
  <2> QED BY <2>1, <2>2
<1>3. \/ running /\ at'[t] = "wait" /\ holder' = t /\ toServer' = Append(toServer, Message("ask", nextId))
      \/ ~running /\ at'[t] = "answered" /\ holder' = holder /\ toServer' = toServer
  BY LanguageParts DEF Send, TypeOK, Goes
<1> DEFINE m == Message("ask", nextId)
<1>4. m \in ToServer /\ m.kind = "ask" /\ m.value = nextId
  BY <1>2 DEF Message, ToServer
<1>5. running => toServer' = Append(toServer, m)
  BY <1>3
<1> HIDE DEF m
<1>6. running => /\ toServer' \in Seq(ToServer) /\ Len(toServer) \in Nat
                 /\ Len(toServer') = Len(toServer) + 1 /\ toServer'[Len(toServer) + 1] = m
                 /\ \A i \in 1 .. Len(toServer) : toServer'[i] = toServer[i]
  <2> SUFFICES ASSUME running
               PROVE  /\ toServer' \in Seq(ToServer) /\ Len(toServer) \in Nat
                      /\ Len(toServer') = Len(toServer) + 1 /\ toServer'[Len(toServer) + 1] = m
                      /\ \A i \in 1 .. Len(toServer) : toServer'[i] = toServer[i]
    OBVIOUS
  <2>1. toServer \in Seq(ToServer)
    BY LanguageParts
  <2> QED BY <1>4, <1>5, <2>1, AppendIs
<1>7. TypeOK'
  <2>1. toServer' \in Seq(ToServer)
    BY <1>3, <1>6, LanguageParts
  <2>2. nextId' \in Nat /\ holder' \in Threads \cup {NoThread}
    BY <1>1, <1>2, <1>3
  <2> QED BY <1>1, <1>2, <2>1, <2>2, LanguageParts DEF TypeOK
<1>8. MainBusy' /\ DocumentOpen' /\ Seen'
  BY <1>1, <1>2, <1>3, LanguageParts DEF MainBusy, DocumentOpen, Seen, IsOpen
<1>9. NumbersUsedOnce' /\ TextsSent'
  <2>1. \A i \in 1 .. Len(toServer') : toServer'[i].kind = "ask" => toServer'[i].value \in 1 .. nextId
    <3>1. \A i \in 1 .. Len(toServer) :
            toServer[i].kind = "ask" => toServer[i].value \in 1 .. nextId
      BY <1>2, LanguageParts, SMTT(30) DEF NumbersUsedOnce
    <3>2. CASE ~running
      BY <1>3, <3>1, <3>2
    <3>3. CASE running
      <4>1. nextId \in 1 .. nextId
        BY <1>2
      <4>2. \A i \in 1 .. Len(toServer') : i \in 1 .. Len(toServer) \/ toServer'[i] = m
        BY <1>6, <3>3
      <4> QED BY <1>4, <1>6, <3>1, <3>3, <4>1, <4>2
    <3> QED BY <3>2, <3>3
  <2>2. \A i \in 1 .. Len(toClient) :
          toClient[i].id \in Nat /\ (toClient[i].kind = "answer" => toClient[i].id < nextId)
    <3>1. \A i \in 1 .. Len(toClient) : toClient[i] \in ToClient
      BY LanguageParts
    <3> QED BY <3>1, LanguageParts DEF NumbersUsedOnce, ToClient
  <2>3. \A u \in Threads : id[u] \in Nat /\ id[u] < nextId /\ (at[u] = "wait" => id[u] >= 1)
    BY LanguageParts DEF TypeOK, NumbersUsedOnce
  <2>4. TextsSent'
    <3>1. m.kind \notin Kinds
      BY <1>4 DEF Kinds
    <3>2. CASE ~running
      BY <1>3, <3>2, LanguageParts DEF TextsSent
    <3>3. CASE running
      BY <1>6, <3>1, <3>3, LanguageParts DEF TextsSent
    <3> QED BY <3>2, <3>3
  <2> QED BY <1>1, <1>2, <2>1, <2>2, <2>3, <2>4, SMTT(30) DEF NumbersUsedOnce
<1>10. AnswersFitRequests' /\ AnswersReturned'
  BY <1>1, <1>2, <1>3, LanguageParts DEF AnswersFitRequests, AnswersReturned
<1>11. ServerWillFollow'
  <2>1. ASSUME told PROVE (OpenThere => OpenThere') /\ (EndsWithText => EndsWithText')
    <3>1. running
      BY <2>1, LanguageParts DEF ServerWillFollow
    <3> QED BY <1>1, <1>4, <1>5, <3>1, LanguageParts, AppendOther
  <2> QED BY <1>1, <2>1, LanguageParts DEF ServerWillFollow, IsOpen
<1>12. MainAsksLast'
  <2>1. CASE t # "main" \/ ~running
    <3> SUFFICES ASSUME told, at["main"] = "wait" PROVE MainAsksLast'
      BY <1>1, <1>2, <1>3, <2>1, LanguageParts DEF MainAsksLast, ServerWillFollow
    <3>1. t # "main" /\ running /\ id'["main"] = id["main"] /\ id["main"] \in Nat /\ id["main"] < nextId
      BY <1>2, <2>1, LanguageParts DEF ServerWillFollow, TypeOK, NumbersUsedOnce
    <3>2. ASSUME NEW i \in 1 .. Len(toServer'), toServer'[i].kind = "ask",
                 toServer'[i].value = id["main"], NEW j \in i + 1 .. Len(toServer')
          PROVE  ~Textual(toServer'[j])
      <4>1. i \in 1 .. Len(toServer) /\ toServer'[i] = toServer[i]
        BY <1>2, <1>4, <1>6, <3>1, <3>2
      <4>2. CASE j = Len(toServer) + 1
        BY <1>4, <1>6, <3>1, <4>2 DEF Textual
      <4>3. CASE j # Len(toServer) + 1
        <5>1. j \in i + 1 .. Len(toServer) /\ toServer'[j] = toServer[j]
          BY <1>6, <3>1, <4>1, <4>3
        <5> QED BY <3>2, <4>1, <5>1, LanguageParts DEF MainAsksLast
      <4> QED BY <4>2, <4>3
    <3> QED BY <1>1, <3>1, <3>2, LanguageParts DEF MainAsksLast
  <2>2. CASE t = "main" /\ running
    <3>1. \A i \in 1 .. Len(toServer') : toServer'[i].kind = "ask" /\ toServer'[i].value = nextId =>
             i = Len(toServer')
      <4>1. \A i \in 1 .. Len(toServer) : toServer[i].kind = "ask" => toServer[i].value # nextId
        BY <1>2, LanguageParts DEF NumbersUsedOnce
      <4> QED BY <1>6, <2>2, <4>1
    <3>2. \A i \in 1 .. Len(toClient) : toClient[i].kind = "answer" => toClient[i].id # nextId
      BY <1>2, LanguageParts DEF NumbersUsedOnce
    <3>3. Len(toServer') \in Nat
      BY <1>6, <2>2
    <3> QED BY <1>1, <1>2, <2>2, <3>1, <3>2, <3>3 DEF MainAsksLast
  <2> QED BY <2>1, <2>2
<1>13. MainHasAnswer' /\ ~outdated'
  BY <1>1, <1>2, LanguageParts DEF MainHasAnswer, NoAnswer, Body
<1> QED BY <1>7, <1>8, <1>9, <1>10, <1>11, <1>12, <1>13 DEF LanguageInv

\* A thread that waits reads more of what the server sent.
LEMMA BufferKeeps ==
  ASSUME LanguageInv, NEW t \in Threads, ReadStdout(t)
  PROVE  LanguageInv'
<1>1. /\ UNCHANGED <<text, version, disk, texts, opens, at, event, remembered, id, answer, holder,
                     nextId, running, starts, toServer, notices, known, told, outdated, confused>>
      /\ read < Len(toClient) /\ read' \in {read, read + 1}
      /\ torn' \in {torn, "none", "begun"}
      /\ \/ toClient' = toClient
         \/ \E m \in {Garbage, NoAnswer} : toClient' = [toClient EXCEPT ![read + 1] = m]
  BY DEF ReadStdout, document, calls, client, server, history
<1>2. toClient \in Seq(ToClient) /\ Len(toClient) \in Nat /\ read \in 0 .. Len(toClient)
      /\ torn \in {"none", "begun", "orphan"}
  <2>1. toClient \in Seq(ToClient) /\ read \in 0 .. Len(toClient)
        /\ torn \in {"none", "begun", "orphan"}
    BY LanguageParts DEF TypeOK
  <2> QED BY <2>1
<1>3. \A m \in {Garbage, NoAnswer} : m \in ToClient /\ m.kind # "answer"
  BY LanguageParts DEF Garbage, NoAnswer, Body, ToClient
<1>4. /\ toClient' \in Seq(ToClient) /\ Len(toClient') = Len(toClient)
      /\ \A i \in 1 .. Len(toClient) : toClient'[i] = toClient[i] \/ toClient'[i].kind # "answer"
  <2>1. CASE toClient' = toClient
    BY <1>2, <2>1
  <2>2. ASSUME NEW m \in {Garbage, NoAnswer}, toClient' = [toClient EXCEPT ![read + 1] = m]
        PROVE  /\ toClient' \in Seq(ToClient) /\ Len(toClient') = Len(toClient)
               /\ \A i \in 1 .. Len(toClient) :
                    toClient'[i] = toClient[i] \/ toClient'[i].kind # "answer"
    <3>1. toClient' \in Seq(ToClient) /\ Len(toClient') = Len(toClient)
      <4>1. read + 1 \in 1 .. Len(toClient)
        BY <1>1, <1>2
      <4> QED BY <1>2, <1>3, <2>2, <4>1, ExceptIs
    <3>2. \A i \in 1 .. Len(toClient) : toClient'[i] = IF i = read + 1 THEN m ELSE toClient[i]
      BY <1>2, <2>2
    <3> QED BY <1>3, <3>1, <3>2
  <2> QED BY <1>1, <2>1, <2>2
<1>5. TypeOK'
  <2>1. read' \in 0 .. Len(toClient') /\ torn' \in {"none", "begun", "orphan"}
    BY <1>1, <1>2, <1>4
  <2> QED BY <1>1, <1>4, <2>1, LanguageParts DEF TypeOK
<1>6. NumbersUsedOnce' /\ MainAsksLast'
  <2>1. NoNewAnswer
    BY <1>4 DEF NoNewAnswer
  <2> QED BY <1>1, <2>1, OldAnswers
<1>7. MainBusy' /\ DocumentOpen' /\ AnswersFitRequests' /\ AnswersReturned' /\ Seen'
      /\ TextsSent' /\ MainHasAnswer' /\ ~outdated'
  BY <1>1, LanguageParts
  DEF MainBusy, DocumentOpen, AnswersFitRequests, AnswersReturned, Seen, TextsSent,
      MainHasAnswer, IsOpen
<1>8. ServerWillFollow'
  BY <1>1, LanguageParts, PipesKept DEF ServerWillFollow, IsOpen
<1> QED BY <1>5, <1>6, <1>7, <1>8 DEF LanguageInv

\* It takes a message from the buffer: what counts as its answer, or another.
LEMMA ReadKeeps ==
  ASSUME LanguageInv, NEW t \in Threads, ReadMessage(t)
  PROVE  LanguageInv'
<1>1. /\ UNCHANGED <<text, version, disk, texts, opens, event, remembered, id, nextId, running, starts,
                     toServer, torn, notices, known, told, outdated, confused>>
      /\ at[t] = "wait" /\ read > 0 /\ read' = read - 1 /\ toClient' = Tail(toClient)
  BY DEF ReadMessage, document, server, history
<1>2. /\ toClient' \in Seq(ToClient) /\ Len(toClient) \in Nat /\ Len(toClient) >= 1
      /\ Len(toClient') = Len(toClient) - 1 /\ read' \in 0 .. Len(toClient')
      /\ Head(toClient) = toClient[1] /\ toClient[1] \in ToClient
      /\ \A i \in 1 .. Len(toClient') : i + 1 \in 1 .. Len(toClient) /\ toClient'[i] = toClient[i + 1]
  <2>1. toClient \in Seq(ToClient) /\ read \in 0 .. Len(toClient)
    BY LanguageParts DEF TypeOK
  <2>2. toClient # <<>>
    BY <1>1, <2>1
  <2>3. /\ toClient' \in Seq(ToClient) /\ Len(toClient) \in Nat /\ Len(toClient) >= 1
        /\ Len(toClient') = Len(toClient) - 1
        /\ Head(toClient) = toClient[1] /\ toClient[1] \in ToClient
        /\ \A i \in 1 .. Len(toClient') : toClient'[i] = toClient[i + 1]
    BY <1>1, <2>1, <2>2, TailIs
  <2> QED BY <1>1, <2>1, <2>3
<1> DEFINE body == toClient[1]
<1>3. \/ /\ body.kind = "garbage" \/ body.id = id[t]
         /\ at' = [at EXCEPT ![t] = "answered"]
         /\ answer' = [answer EXCEPT ![t] = body] /\ holder' = NoThread
      \/ UNCHANGED <<at, answer, holder>>
  BY <1>2 DEF ReadMessage, Goes, IsAnswer
<1>4. body \in ToClient
  BY <1>2
<1> HIDE DEF body
<1>5. /\ at \in [Threads -> {"idle", "changed", "announce", "send", "wait", "answered"}]
      /\ answer \in [Threads -> ToClient] /\ holder \in Threads \cup {NoThread}
  BY LanguageParts DEF TypeOK
<1>6. /\ at' \in [Threads -> {"idle", "changed", "announce", "send", "wait", "answered"}]
      /\ answer' \in [Threads -> ToClient] /\ holder' \in Threads \cup {NoThread}
      /\ \A u \in Threads : u # t => at'[u] = at[u] /\ answer'[u] = answer[u]
      /\ \/ /\ at'[t] = "answered" /\ answer'[t] = body /\ holder' = NoThread
            /\ body.kind = "answer" => body.id = id[t]
         \/ at'[t] = at[t] /\ answer'[t] = answer[t] /\ holder' = holder
  BY <1>3, <1>4, <1>5
<1>7. TypeOK'
  BY <1>1, <1>2, <1>6, LanguageParts DEF TypeOK
<1>8. MainBusy' /\ DocumentOpen' /\ TextsSent' /\ Seen'
  BY <1>1, <1>6, LanguageParts DEF MainBusy, DocumentOpen, TextsSent, Seen, IsOpen
<1>9. NumbersUsedOnce' /\ MainAsksLast'
  <2>1. NoNewAnswer
    BY <1>2 DEF NoNewAnswer
  <2>2. \A u \in Threads : at'[u] = "wait" => at[u] = "wait"
    BY <1>6
  <2> QED BY <1>1, <2>1, <2>2, OldAnswers
<1>10. AnswersFitRequests' /\ AnswersReturned'
  BY <1>1, <1>6, LanguageParts, SMTT(30) DEF AnswersFitRequests, AnswersReturned
<1>11. ServerWillFollow'
  BY <1>1, LanguageParts, PipesKept DEF ServerWillFollow, IsOpen
<1>12. MainHasAnswer'
  <2>1. told /\ at["main"] = "wait" /\ body.kind = "answer" /\ body.id = id["main"] => body.text = text
    BY <1>2, LanguageParts DEF MainAsksLast, body
  <2> QED BY <1>1, <1>6, <2>1, LanguageParts DEF MainHasAnswer
<1>13. ~outdated'
  BY <1>1, LanguageParts
<1> QED BY <1>7, <1>8, <1>9, <1>10, <1>11, <1>12, <1>13 DEF LanguageInv

\* The end of a request.
Ends == Judge \/ \E t \in Threads : GiveUp(t) \/ Return(t)

LEMMA EndKeeps ==
  ASSUME LanguageInv, Ends
  PROVE  LanguageInv'
<1>1. /\ UNCHANGED <<text, version, disk, texts, opens, event, nextId, running, starts,
                     toServer, toClient, read, torn, notices, known, told>>
      /\ remembered' = remembered \/ remembered' = Unseen
  BY DEF Ends, Judge, GiveUp, Return, document, client, pipes, incoming, server, history
<1>2. PICK t \in Threads :
        \/ /\ at[t] = "wait" /\ at' = [at EXCEPT ![t] = "answered"]
           /\ holder' = NoThread /\ UNCHANGED <<id, answer>>
        \/ /\ at[t] = "answered" /\ at' = [at EXCEPT ![t] = "idle"]
           /\ holder' = holder
           /\ answer' = [answer EXCEPT ![t] = NoAnswer] /\ id' = [id EXCEPT ![t] = 0]
  BY LanguageParts DEF Ends, Judge, GiveUp, Return, Goes, client
<1>3. /\ at \in [Threads -> {"idle", "changed", "announce", "send", "wait", "answered"}]
      /\ answer \in [Threads -> ToClient] /\ holder \in Threads \cup {NoThread}
      /\ id \in [Threads -> Nat] /\ NoAnswer \in ToClient /\ 0 \in Nat
  <2>1. NoAnswer \in ToClient
    BY LanguageParts DEF NoAnswer, Body, ToClient
  <2> QED BY <2>1, LanguageParts DEF TypeOK
<1>4. /\ at' \in [Threads -> {"idle", "changed", "announce", "send", "wait", "answered"}]
      /\ answer' \in [Threads -> ToClient] /\ id' \in [Threads -> Nat]
      /\ holder' \in Threads \cup {NoThread}
      /\ \A u \in Threads : u # t => at'[u] = at[u] /\ answer'[u] = answer[u] /\ id'[u] = id[u]
      /\ \/ at[t] = "wait" /\ at'[t] = "answered" /\ answer'[t] = answer[t] /\ id'[t] = id[t]
            /\ holder' = NoThread
         \/ at[t] = "answered" /\ at'[t] = "idle" /\ answer'[t] = NoAnswer /\ id'[t] = 0
            /\ holder' = holder
  BY <1>2, <1>3
<1>5. ~outdated'
  <2>1. CASE Judge
    <3>1. /\ answer["main"].kind = "answer" /\ told => answer["main"].text = text
          /\ ~outdated
          /\ remembered # Unseen
      BY <2>1, LanguageParts DEF Judge, MainHasAnswer
    <3>2. IsOpen /\ ~Stale /\ remembered.opens = opens => remembered.text = text
      BY <3>1, LanguageParts DEF Stale, Seen, IsOpen
    <3> QED BY <2>1, <3>1, <3>2 DEF Judge
  <2>2. CASE ~Judge
    BY <2>2, LanguageParts DEF Ends, GiveUp, Return, history
  <2> QED BY <2>1, <2>2
<1>6. TypeOK'
  <2>1. remembered' \in [version : 0 .. MaxTexts, text : 0 .. MaxTexts, opens : 0 .. MaxOpens]
    <3>1. /\ remembered \in [version : 0 .. MaxTexts, text : 0 .. MaxTexts, opens : 0 .. MaxOpens]
          /\ 0 \in 0 .. MaxTexts /\ 0 \in 0 .. MaxOpens
      BY LanguageParts DEF TypeOK
    <3> QED BY <1>1, <3>1 DEF Unseen
  <2>2. confused' \in BOOLEAN /\ outdated' \in BOOLEAN
    <3>1. confused \in BOOLEAN /\ outdated \in BOOLEAN
      BY LanguageParts DEF TypeOK
    <3>2. CASE Judge
      <4>1. /\ \E b \in BOOLEAN : confused' = (confused \/ b)
            /\ \E b \in BOOLEAN : outdated' = (outdated \/ b)
        BY <3>2 DEF Judge
      <4> QED BY <3>1, <4>1
    <3>3. CASE ~Judge
      BY <3>1, <3>3 DEF Ends, GiveUp, Return, history
    <3> QED BY <3>2, <3>3
  <2>3. answer' \in [Threads -> ToClient]
    BY <1>4
  <2> QED BY <1>1, <1>4, <2>1, <2>2, <2>3, LanguageParts DEF TypeOK
<1>7. MainBusy' /\ DocumentOpen' /\ TextsSent'
  BY <1>1, <1>4, LanguageParts DEF MainBusy, DocumentOpen, TextsSent, IsOpen
<1>8. Seen'
  BY <1>1, LanguageParts DEF Seen, IsOpen
<1>9. NumbersUsedOnce'
  <2>1. /\ \A u \in Threads : id[u] < nextId /\ (at[u] = "wait" => id[u] >= 1)
        /\ nextId \in Nat /\ nextId >= 1
    BY LanguageParts DEF NumbersUsedOnce, TypeOK
  <2>2. ASSUME NEW u \in Threads PROVE id'[u] < nextId /\ (at'[u] = "wait" => id'[u] >= 1)
    <3>1. CASE u = t
      BY <1>4, <2>1, <3>1
    <3>2. CASE u # t
      BY <1>4, <2>1, <3>2
    <3> QED BY <3>1, <3>2
  <2> QED BY <1>1, <2>2, LanguageParts DEF NumbersUsedOnce
<1>10. AnswersFitRequests' /\ AnswersReturned'
  BY <1>4, LanguageParts, ZenonT(40) DEF AnswersFitRequests, AnswersReturned
<1>11. ServerWillFollow'
  BY <1>1, LanguageParts, PipesKept DEF ServerWillFollow, IsOpen
<1>12. MainAsksLast' /\ MainHasAnswer'
  <2>1. NoAnswer.kind # "answer"
    BY DEF NoAnswer, Body
  <2> QED BY <1>1, <1>4, <2>1, LanguageParts DEF MainAsksLast, MainHasAnswer
<1> QED BY <1>5, <1>6, <1>7, <1>8, <1>9, <1>10, <1>11, <1>12 DEF LanguageInv

\* The server is started or stopped.
LEMMA LifeKeeps ==
  ASSUME LanguageInv, Start \/ Stop
  PROVE  LanguageInv'
<1>1. /\ UNCHANGED <<text, version, disk, texts, opens, event, id, answer, holder, nextId,
                     notices, outdated, confused>>
      /\ toServer' = <<>> /\ toClient' = SubSeq(toClient, 1, read) /\ read' = read
      /\ torn' \in {"none", "orphan"} /\ known' = 0 /\ told' = FALSE
      /\ remembered' = remembered \/ remembered' = Unseen
  BY DEF Start, Stop, EndPipes, document, calls
<1>2. /\ running' \in BOOLEAN /\ starts' \in 0 .. MaxStarts
      /\ at' \in [Threads -> {"idle", "changed", "announce", "send", "wait", "answered"}]
      /\ \A t \in Threads : at'[t] # at[t] => at[t] = "idle" /\ at'[t] = "send"
  <2>1. /\ starts \in 0 .. MaxStarts
        /\ at \in [Threads -> {"idle", "changed", "announce", "send", "wait", "answered"}]
    BY LanguageParts DEF TypeOK
  <2>2. CASE Start
    <3>1. /\ running' = TRUE /\ starts < MaxStarts /\ starts' = starts + 1
          /\ at["main"] = "idle" /\ at' = [at EXCEPT !["main"] = "send"]
      BY <2>2 DEF Start, Goes
    <3>2. starts' \in 0 .. MaxStarts
      BY <2>1, <3>1, LanguageParts
    <3> QED BY <2>1, <3>1, <3>2, LanguageParts
  <2>3. CASE Stop
    BY <2>1, <2>3 DEF Stop, calls
  <2> QED BY <2>2, <2>3
<1>10. /\ toClient' \in Seq(ToClient) /\ Len(toClient') = read /\ read \in 0 .. Len(toClient)
       /\ \A i \in 1 .. Len(toClient') : i \in 1 .. Len(toClient) /\ toClient'[i] = toClient[i]
  <2>1. toClient \in Seq(ToClient) /\ read \in 0 .. Len(toClient)
    BY LanguageParts DEF TypeOK
  <2> QED BY <1>1, <2>1
<1>3. TypeOK'
  <2>1. remembered' \in [version : 0 .. MaxTexts, text : 0 .. MaxTexts, opens : 0 .. MaxOpens]
    <3>1. /\ remembered \in [version : 0 .. MaxTexts, text : 0 .. MaxTexts, opens : 0 .. MaxOpens]
          /\ 0 \in 0 .. MaxTexts /\ 0 \in 0 .. MaxOpens
      BY LanguageParts DEF TypeOK
    <3> QED BY <1>1, <3>1 DEF Unseen
  <2>2. toServer' \in Seq(ToServer) /\ known' \in 0 .. MaxTexts
    BY <1>1, LanguageParts
  <2>3. /\ toClient' \in Seq(ToClient) /\ read' \in 0 .. Len(toClient')
        /\ torn' \in {"none", "begun", "orphan"}
    BY <1>1, <1>10
  <2> QED BY <1>1, <1>2, <2>1, <2>2, <2>3, LanguageParts DEF TypeOK
<1>4. MainBusy' /\ DocumentOpen'
  BY <1>1, <1>2, LanguageParts DEF MainBusy, DocumentOpen, IsOpen
<1>5. Seen'
  BY <1>1, LanguageParts DEF Seen, IsOpen
<1>6. NumbersUsedOnce' /\ TextsSent'
  BY <1>1, <1>2, <1>10, LanguageParts DEF NumbersUsedOnce, TextsSent
<1>7. AnswersFitRequests' /\ AnswersReturned'
  BY <1>1, <1>2, LanguageParts DEF AnswersFitRequests, AnswersReturned
<1>8. ServerWillFollow' /\ MainAsksLast' /\ MainHasAnswer' /\ ~outdated'
  BY <1>1, LanguageParts DEF ServerWillFollow, MainAsksLast, MainHasAnswer
<1> QED BY <1>3, <1>4, <1>5, <1>6, <1>7, <1>8 DEF LanguageInv


\* The server reads what it was sent, and answers what it is asked.
LEMMA ServeKeeps ==
  ASSUME LanguageInv, Serve
  PROVE  LanguageInv'
<1>1. /\ UNCHANGED <<text, version, disk, texts, opens, at, event, remembered, id, answer, holder,
                     nextId, running, starts, read, torn, notices, told, outdated, confused>>
      /\ toServer # <<>> /\ toServer' = Tail(toServer)
  BY DEF Serve, document, calls, client, history
<1>2. /\ toServer' \in Seq(ToServer) /\ Len(toServer) \in Nat /\ Len(toServer) >= 1
      /\ Len(toServer') = Len(toServer) - 1
      /\ Head(toServer) = toServer[1] /\ toServer[1] \in ToServer
      /\ \A i \in 1 .. Len(toServer') : i + 1 \in 1 .. Len(toServer) /\ toServer'[i] = toServer[i + 1]
  <2>1. toServer \in Seq(ToServer)
    BY LanguageParts
  <2>2. /\ toServer' \in Seq(ToServer) /\ Len(toServer) \in Nat /\ Len(toServer) >= 1
        /\ Len(toServer') = Len(toServer) - 1
        /\ Head(toServer) = toServer[1] /\ toServer[1] \in ToServer
        /\ \A i \in 1 .. Len(toServer') : toServer'[i] = toServer[i + 1]
    BY <1>1, <2>1, TailIs
  <2> QED BY <2>2
<1> DEFINE body == Body("answer", toServer[1].value, known)
<1>3. /\ body \in ToClient /\ body.id = toServer[1].value /\ body.text = known
  BY <1>2, LanguageParts DEF TypeOK, ToServer, ToClient, Body
<1>4. \/ toServer[1].kind = "ask" /\ toClient' = Append(toClient, body)
      \/ toClient' = toClient
  BY <1>2 DEF Serve
<1> HIDE DEF body
<1>5. /\ toClient' \in Seq(ToClient) /\ read' \in 0 .. Len(toClient')
      /\ \A i \in 1 .. Len(toClient') :
           \/ i \in 1 .. Len(toClient) /\ toClient'[i] = toClient[i]
           \/ toServer[1].kind = "ask" /\ toClient'[i] = body
  <2>1. toClient \in Seq(ToClient) /\ read \in 0 .. Len(toClient)
    BY LanguageParts DEF TypeOK
  <2>2. CASE toServer[1].kind = "ask" /\ toClient' = Append(toClient, body)
    <3>1. /\ toClient' \in Seq(ToClient) /\ Len(toClient) \in Nat
          /\ Len(toClient') = Len(toClient) + 1 /\ toClient'[Len(toClient) + 1] = body
          /\ \A i \in 1 .. Len(toClient) : toClient'[i] = toClient[i]
      BY <1>3, <2>1, <2>2, AppendIs
    <3> QED BY <1>1, <2>1, <2>2, <3>1
  <2>3. CASE toClient' = toClient
    BY <1>1, <2>1, <2>3
  <2> QED BY <1>4, <2>2, <2>3
<1>6. known' \in 0 .. MaxTexts
  <2>1. known \in 0 .. MaxTexts /\ 0 \in 0 .. MaxTexts
        /\ (toServer[1].kind \in Kinds => toServer[1].value \in 0 .. MaxTexts)
    <3>1. 1 \in 1 .. Len(toServer)
      BY <1>2
    <3>2. known \in 0 .. MaxTexts /\ 0 \in 0 .. MaxTexts
      BY LanguageParts DEF TypeOK
    <3> QED BY <3>1, <3>2, LanguageParts DEF TextsSent
  <2>2. known' = known \/ known' = 0 \/ (toServer[1].kind \in Kinds /\ known' = toServer[1].value)
    BY <1>2 DEF Serve, Kinds, ToServer
  <2> QED BY <2>1, <2>2
<1>7. TypeOK'
  BY <1>1, <1>2, <1>5, <1>6, LanguageParts DEF TypeOK
<1>8. MainBusy' /\ DocumentOpen' /\ AnswersFitRequests' /\ AnswersReturned' /\ Seen'
      /\ MainHasAnswer' /\ ~outdated'
  BY <1>1, LanguageParts
  DEF MainBusy, DocumentOpen, AnswersFitRequests, AnswersReturned, Seen, MainHasAnswer, IsOpen
<1>9. NumbersUsedOnce' /\ TextsSent'
  <2>1. /\ \A i \in 1 .. Len(toServer') :
             toServer'[i].kind = "ask" => toServer'[i].value \in 1 .. nextId - 1
        /\ TextsSent'
    BY <1>2, LanguageParts DEF NumbersUsedOnce, TextsSent
  <2>2. toServer[1].kind = "ask" => body.id < nextId
    <3>1. toServer[1].kind = "ask" => toServer[1].value \in 1 .. nextId - 1
      BY <1>2, LanguageParts DEF NumbersUsedOnce
    <3>2. nextId \in Nat
      BY LanguageParts DEF TypeOK
    <3> QED BY <1>3, <3>1, <3>2
  <2>3. \A i \in 1 .. Len(toClient') : toClient'[i].kind = "answer" => toClient'[i].id < nextId
    BY <1>5, <2>2, LanguageParts DEF NumbersUsedOnce
  <2> QED BY <1>1, <2>1, <2>3, LanguageParts DEF NumbersUsedOnce
<1>10. ServerWillFollow'
  BY <1>1, LanguageParts, ServeFollows DEF ServerWillFollow, IsOpen
<1>11. MainAsksLast'
  <2> SUFFICES ASSUME told, at["main"] = "wait" PROVE MainAsksLast'
    BY <1>1 DEF MainAsksLast
  <2>1. ASSUME NEW i \in 1 .. Len(toServer'), toServer'[i].kind = "ask",
               toServer'[i].value = id["main"], NEW j \in i + 1 .. Len(toServer')
        PROVE  ~Textual(toServer'[j])
    <3>1. /\ i + 1 \in 1 .. Len(toServer) /\ toServer'[i] = toServer[i + 1]
          /\ j + 1 \in (i + 1) + 1 .. Len(toServer) /\ toServer'[j] = toServer[j + 1]
      BY <1>2
    <3> QED BY <2>1, <3>1, LanguageParts DEF MainAsksLast
  <2>2. toServer[1].kind = "ask" /\ body.id = id["main"] => body.text = text
    <3> SUFFICES ASSUME toServer[1].kind = "ask", body.id = id["main"] PROVE body.text = text
      OBVIOUS
    <3>1. \A j \in 2 .. Len(toServer) : ~Textual(toServer[j])
      BY <1>2, <1>3, LanguageParts DEF MainAsksLast
    <3>2. NoText
      BY <1>2, <3>1 DEF NoText, Textual
    <3>3. EndsWithText
      BY LanguageParts DEF MainBusy, ServerWillFollow
    <3> QED BY <1>3, <3>2, <3>3 DEF EndsWithText
  <2>3. \A i \in 1 .. Len(toClient') :
          toClient'[i].kind = "answer" /\ toClient'[i].id = id["main"] => toClient'[i].text = text
    BY <1>5, <2>2, LanguageParts DEF MainAsksLast
  <2> QED BY <1>1, <2>1, <2>3 DEF MainAsksLast
<1> QED BY <1>7, <1>8, <1>9, <1>10, <1>11 DEF LanguageInv

LEMMA PublishKeeps ==
  ASSUME LanguageInv, Publish
  PROVE  LanguageInv'
<1>1. /\ UNCHANGED <<text, version, disk, texts, opens, at, event, remembered, id, answer, holder,
                     nextId, running, starts, toServer, read, torn, known, told, outdated, confused>>
      /\ notices < MaxNotices /\ notices' = notices + 1
  BY DEF Publish, document, calls, client, history
<1>2. PICK m \in Unasked : toClient' = Append(toClient, m)
  BY DEF Publish
<1>3. m \in ToClient /\ m.kind # "answer"
  BY <1>2, LanguageAssumption, LanguageParts
  DEF Unasked, NoAnswer, Garbage, Body, ToClient
<1>4. /\ toClient' \in Seq(ToClient) /\ read' \in 0 .. Len(toClient')
      /\ \A i \in 1 .. Len(toClient') :
           \/ i \in 1 .. Len(toClient) /\ toClient'[i] = toClient[i]
           \/ toClient'[i] = m
  <2>1. toClient \in Seq(ToClient) /\ read \in 0 .. Len(toClient)
    BY LanguageParts DEF TypeOK
  <2>2. /\ toClient' \in Seq(ToClient) /\ Len(toClient) \in Nat
        /\ Len(toClient') = Len(toClient) + 1 /\ toClient'[Len(toClient) + 1] = m
        /\ \A i \in 1 .. Len(toClient) : toClient'[i] = toClient[i]
    BY <1>2, <1>3, <2>1, AppendIs
  <2> QED BY <1>1, <2>1, <2>2
<1>5. TypeOK'
  <2>1. notices' \in 0 .. MaxNotices
    <3>1. notices \in 0 .. MaxNotices
      BY LanguageParts DEF TypeOK
    <3> QED BY <1>1, <3>1, LanguageParts
  <2> QED BY <1>1, <1>4, <2>1, LanguageParts DEF TypeOK
<1>6. MainBusy' /\ DocumentOpen' /\ AnswersFitRequests' /\ AnswersReturned' /\ Seen'
      /\ TextsSent' /\ MainHasAnswer' /\ ~outdated'
  BY <1>1, LanguageParts
  DEF MainBusy, DocumentOpen, AnswersFitRequests, AnswersReturned, Seen, TextsSent,
      MainHasAnswer, IsOpen
<1>7. ServerWillFollow'
  BY <1>1, LanguageParts, PipesKept DEF ServerWillFollow, IsOpen
<1>8. NumbersUsedOnce' /\ MainAsksLast'
  <2>1. NoNewAnswer
    BY <1>3, <1>4 DEF NoNewAnswer
  <2> QED BY <1>1, <2>1, OldAnswers
<1> QED BY <1>5, <1>6, <1>7, <1>8 DEF LanguageInv

LEMMA LanguageInitially == Init => LanguageInv
<1> SUFFICES ASSUME Init PROVE LanguageInv
  OBVIOUS
<1>1. /\ MaxTexts \in Nat /\ MaxTexts >= 1 /\ MaxOpens \in Nat /\ MaxStarts \in Nat /\ MaxNotices \in Nat
      /\ 0 \in 0 .. MaxTexts /\ 1 \in 1 .. MaxTexts /\ 0 \in 0 .. MaxOpens
      /\ 0 \in 0 .. MaxStarts /\ 0 \in 0 .. MaxNotices
      /\ "main" \in Threads /\ NoThread \notin Threads
  BY LanguageAssumption DEF Threads
<1>2. /\ NoEvent \in [kind : Kinds \cup {"none"}, text : 0 .. MaxTexts]
      /\ Unseen \in [version : 0 .. MaxTexts, text : 0 .. MaxTexts, opens : 0 .. MaxOpens]
      /\ NoAnswer \in ToClient
  BY <1>1 DEF NoEvent, Unseen, NoAnswer, Body, ToClient
<1>3. TypeOK
  <2>1. toServer \in Seq(ToServer) /\ toClient \in Seq(ToClient) /\ read \in 0 .. Len(toClient)
    BY DEF Init
  <2> QED BY <1>1, <1>2, <2>1 DEF Init, TypeOK
<1>4. Len(toServer) = 0 /\ Len(toClient) = 0
  BY DEF Init
<1>5. MainBusy /\ DocumentOpen /\ NumbersUsedOnce /\ TextsSent
  BY <1>1, <1>4 DEF Init, MainBusy, DocumentOpen, NumbersUsedOnce, TextsSent, NoEvent
<1>6. AnswersFitRequests /\ AnswersReturned /\ Seen
  BY <1>1 DEF Init, AnswersFitRequests, AnswersReturned, Seen, NoAnswer, Body
<1>7. ServerWillFollow /\ MainAsksLast /\ MainHasAnswer /\ ~outdated
  BY DEF Init, ServerWillFollow, MainAsksLast, MainHasAnswer
<1> QED BY <1>3, <1>5, <1>6, <1>7 DEF LanguageInv

LEMMA LanguageStepKeeps == LanguageInv /\ [Next]_vars => LanguageInv'
<1> SUFFICES ASSUME LanguageInv, [Next]_vars PROVE LanguageInv'
  OBVIOUS
<1>1. CASE UNCHANGED vars
  <2>1. UNCHANGED <<text, version, disk, texts, opens, at, event, remembered, id, answer, holder,
                    nextId, running, starts, toServer, toClient, read, torn, notices, known,
                    told, outdated, confused>>
    BY <1>1 DEF vars, document, calls, client, pipes, incoming, server, history
  <2>2. TypeOK' /\ MainBusy' /\ DocumentOpen' /\ NumbersUsedOnce' /\ TextsSent'
    BY <2>1, LanguageParts DEF TypeOK, MainBusy, DocumentOpen, NumbersUsedOnce, TextsSent, IsOpen
  <2>3. AnswersFitRequests' /\ AnswersReturned' /\ Seen' /\ MainAsksLast' /\ MainHasAnswer' /\ ~outdated'
    BY <2>1, LanguageParts
    DEF AnswersFitRequests, AnswersReturned, Seen, MainAsksLast, MainHasAnswer, IsOpen
  <2>4. ServerWillFollow'
    BY <2>1, LanguageParts, PipesKept DEF ServerWillFollow, IsOpen
  <2> QED BY <2>2, <2>3, <2>4 DEF LanguageInv
<1>2. CASE Documents
  BY <1>2, DocumentKeeps
<1>3. CASE Notify
  BY <1>3, NotifyKeeps
<1>4. CASE Asks
  BY <1>4, AskKeeps
<1>5. CASE \E t \in Threads : Send(t)
  BY <1>5, SendKeeps
<1>6. CASE \E t \in Threads : ReadStdout(t) \/ ReadMessage(t)
  BY <1>6, BufferKeeps, ReadKeeps
<1>7. CASE Ends
  BY <1>7, EndKeeps
<1>8. CASE Start \/ Stop
  BY <1>8, LifeKeeps
<1>9. CASE Serve
  BY <1>9, ServeKeeps
<1>10. CASE Publish
  BY <1>10, PublishKeeps
<1> QED BY <1>1, <1>2, <1>3, <1>4, <1>5, <1>6, <1>7, <1>8, <1>9, <1>10 DEF Next, Documents, Asks, Ends

(***************************************************************************)
(* For any number of workers, texts, requests and starts of the server: an *)
(* answer of the server only goes to the request it answers, a server that *)
(* ran when the document was opened has its text once it has read what it  *)
(* was sent, and an answer of the server that the pipeline calls good is   *)
(* for the text of the document (lsp_client.cpp:139,                       *)
(* document_language_sync.cpp:29, language_request_pipeline.cpp:103).      *)
(* Garbage and requests of the server are no answers: nothing is said of   *)
(* callers that get those.                                                 *)
(***************************************************************************)
THEOREM LanguageStaysConsistent == Spec => []LanguageConsistent
<1>1. LanguageInv => LanguageConsistent
  <2> SUFFICES ASSUME LanguageInv PROVE LanguageConsistent
    OBVIOUS
  <2>1. ASSUME told, running, ~Announcing PROVE known = text
    <3>1. at["main"] \in {"idle", "send", "wait", "answered"} /\ toServer = <<>>
      BY <2>1, LanguageParts DEF Announcing, TypeOK
    <3>2. EndsWithText
      BY <2>1, <3>1, LanguageParts DEF MainBusy, ServerWillFollow
    <3>3. NoText
      BY <3>1 DEF NoText
    <3> QED BY <3>2, <3>3 DEF EndsWithText
  <2> QED BY <2>1, LanguageParts DEF LanguageConsistent, ServerFollows
<1> QED BY <1>1, LanguageInitially, LanguageStepKeeps, PTL DEF Spec
=============================================================================
