-------------------------- MODULE PluginProcessHost --------------------------
(***************************************************************************)
(* The process of one external plugin, from its activation to the end of   *)
(* its host object: PluginProcessHost (plugin_process_host.cpp) with the   *)
(* parts of PluginManager that own the host and the handlers and providers *)
(* it registers, which keep the host's address (plugin_manager.cpp), over  *)
(* the pipes of ChildProcess (process_posix.cpp).                          *)
(*                                                                         *)
(* Requests are sent by the main thread (activation, commands,             *)
(* deactivation) and by workers (models, tools, build plans), one at a     *)
(* time under the host's mutex.  A request is its number.  It is written   *)
(* to a pipe that holds so many: when the plugin does not read, the write  *)
(* blocks.  The text read so far is a local of SendRequest: whatever came  *)
(* with the first complete answer is gone with it.  A plugin answers a     *)
(* request at most once.  Counters of the health are left out.             *)
(***************************************************************************)
EXTENDS Integers, Sequences

CONSTANTS
  Workers,          \* threads of the pool that call what the plugin registered
  MaxRequests,      \* bound: how many requests are sent
  Capacity,         \* requests the pipe to the plugin holds
  BrokenPipeKills   \* SIGPIPE has its default action, which ends the program

ASSUME HostAssumption ==
  /\ "main" \notin Workers
  /\ MaxRequests \in Nat \ {0}
  /\ Capacity \in Nat \ {0}
  /\ BrokenPipeKills \in BOOLEAN

Thread == Workers \cup {"main"}
NoThread == "none"
ASSUME ThreadAssumption == NoThread \notin Thread

VARIABLES
  stage,       \* how far the manager is with the host
  registered,  \* whether services hold the plugin's handlers and providers
  process,     \* the plugin's process
  program,     \* the program the host is part of
  at,          \* where each thread is in SendRequest
  mutex,       \* who holds rpc_mutex_
  next,        \* next_request_id_
  request,     \* the request each thread waits for an answer to
  stdin,       \* requests the plugin has not read
  stdout,      \* answers nobody has read
  gaveUp,      \* whether a request ran into its time limit (history)
  mixedUp      \* whether an answer went to another request (history)

manager == <<stage, registered>>
child == <<process, stdin, stdout>>
rpc == <<at, mutex, next, request>>
history == <<gaveUp, mixedUp>>
vars == <<manager, program, child, rpc, history>>

Init ==
  /\ stage = "none" /\ registered = FALSE
  /\ process = "none" /\ program = "runs"
  /\ at = [t \in Thread |-> "idle"]
  /\ mutex = NoThread
  /\ next = 1
  /\ request = [t \in Thread |-> 0]
  /\ stdin = <<>> /\ stdout = <<>>
  /\ gaveUp = FALSE /\ mixedUp = FALSE

Works == program = "runs" /\ stage # "destroyed"

-----------------------------------------------------------------------------
(* SendRequest.                                                             *)

\* The lock is taken and the request gets its number.
Number(t) ==
  /\ mutex' = t
  /\ next' = next + 1
  /\ request' = [request EXCEPT ![t] = next]
  /\ at' = [at EXCEPT ![t] = "writing"]
  /\ UNCHANGED <<manager, program, child, history>>

\* Mutant: no lock_guard.
SendUnlocked(t) == Works /\ at[t] = "waiting" /\ Number(t)
Send(t) == Works /\ at[t] = "waiting" /\ mutex = NoThread /\ Number(t)

\* The frame is written, under the mutex and without a time limit: while the
\* pipe of a running plugin is full the thread blocks.
WriteRequest(t) ==
  /\ Works /\ at[t] = "writing" /\ process = "running"
  /\ Len(stdin) < Capacity
  /\ stdin' = Append(stdin, request[t])
  /\ at' = [at EXCEPT ![t] = "reading"]
  /\ UNCHANGED <<manager, program, process, stdout, mutex, next, request, history>>

\* After Stop the pipe is closed on this side and the write fails; when the
\* plugin has ended, the write raises SIGPIPE, and fails if the program outlives
\* that.
WriteFails(t) ==
  /\ Works /\ at[t] = "writing" /\ process # "running"
  /\ program' = IF process = "exited" /\ BrokenPipeKills THEN "killed" ELSE program
  /\ mutex' = NoThread
  /\ at' = [at EXCEPT ![t] = "failed"]
  /\ request' = [request EXCEPT ![t] = 0]
  /\ UNCHANGED <<manager, child, next, history>>

Write(t) == WriteRequest(t) \/ WriteFails(t)

\* A read takes all there is; the first complete answer is the request's, and
\* its identifier is not looked at.
ReadAnswer(t) ==
  /\ Works /\ at[t] = "reading" /\ stdout # <<>>
  /\ mixedUp' = (mixedUp \/ Head(stdout) # request[t])
  /\ stdout' = <<>>
  /\ mutex' = NoThread
  /\ at' = [at EXCEPT ![t] = "answered"]
  /\ request' = [request EXCEPT ![t] = 0]
  /\ UNCHANGED <<manager, program, process, stdin, next, gaveUp>>

\* The three hundred attempts are used up.
GiveUp(t) ==
  /\ Works /\ at[t] = "reading" /\ stdout = <<>>
  /\ gaveUp' = TRUE
  /\ mutex' = NoThread
  /\ at' = [at EXCEPT ![t] = "failed"]
  /\ request' = [request EXCEPT ![t] = 0]
  /\ UNCHANGED <<manager, program, child, next, mixedUp>>

\* Mutant: the thread waits for an answer as long as it takes.
PollForEver(t) == ReadAnswer(t)
Poll(t) == ReadAnswer(t) \/ GiveUp(t)

-----------------------------------------------------------------------------
(* Callers.                                                                 *)

\* A handler or provider of the plugin is called, by a worker or by the main
\* thread: from here on the caller uses the host.
Call(t) ==
  /\ Works /\ registered /\ next <= MaxRequests
  /\ at[t] = "idle"
  /\ at' = [at EXCEPT ![t] = "waiting"]
  /\ UNCHANGED <<manager, program, child, mutex, next, request, history>>

\* The caller has its value or its error and lets go of the host.
Return(t) ==
  /\ Works /\ at[t] \in {"answered", "failed"}
  /\ t = "main" => stage = "active"
  /\ at' = [at EXCEPT ![t] = "idle"]
  /\ UNCHANGED <<manager, program, child, mutex, next, request, history>>

-----------------------------------------------------------------------------
(* The manager, on the main thread.                                         *)

\* ActivateExternalPlugin: Start, then Activate.
Activate ==
  /\ Works /\ stage = "none"
  /\ stage' = "activating"
  /\ process' = "running"
  /\ at' = [at EXCEPT !["main"] = "waiting"]
  /\ UNCHANGED <<registered, program, stdin, stdout, mutex, next,
                 request, history>>

\* The process cannot be started, and the host goes with its unique_ptr.
StartFails ==
  /\ Works /\ stage = "none"
  /\ stage' = "destroyed"
  /\ UNCHANGED <<registered, program, child, rpc, history>>

\* The answer is ok: everything it names is registered.
Register ==
  /\ Works /\ stage = "activating" /\ at["main"] = "answered"
  /\ stage' = "active"
  /\ registered' = TRUE
  /\ at' = [at EXCEPT !["main"] = "idle"]
  /\ UNCHANGED <<program, child, mutex, next, request, history>>

\* The answer is an error, or there is none.
ActivationFails ==
  /\ Works /\ stage = "activating" /\ at["main"] \in {"answered", "failed"}
  /\ stage' = "stopping"
  /\ at' = [at EXCEPT !["main"] = "idle"]
  /\ UNCHANGED <<registered, program, child, mutex, next, request,
                 history>>

\* UnloadPlugin and DeactivateAll: Clear, then the request to deactivate.
Unload ==
  /\ Works /\ stage = "active" /\ at["main"] = "idle" /\ next <= MaxRequests + 1
  /\ stage' = "deactivating"
  /\ registered' = FALSE
  /\ at' = [at EXCEPT !["main"] = "waiting"]
  /\ UNCHANGED <<program, child, mutex, next, request, history>>

Deactivated ==
  /\ Works /\ stage = "deactivating" /\ at["main"] \in {"answered", "failed"}
  /\ stage' = "stopping"
  /\ at' = [at EXCEPT !["main"] = "idle"]
  /\ UNCHANGED <<registered, program, child, mutex, next, request,
                 history>>

\* ReconcileProcessHealth finds that the process has ended.
Reconcile ==
  /\ Works /\ stage = "active" /\ at["main"] = "idle" /\ process = "exited"
  /\ stage' = "stopping"
  /\ registered' = FALSE
  /\ UNCHANGED <<program, child, rpc, history>>

\* PluginProcessHost::Stop: the process is ended and the pipes are closed.
Stop ==
  /\ Works /\ stage = "stopping"
  /\ stage' = "stopped"
  /\ process' = "closed"
  /\ stdin' = <<>> /\ stdout' = <<>>
  /\ UNCHANGED <<registered, program, rpc, history>>

\* The session is erased, or the host goes with its unique_ptr.
DestroyHost ==
  /\ Works /\ stage = "stopped"
  /\ stage' = "destroyed"
  /\ UNCHANGED <<registered, program, child, rpc, history>>

-----------------------------------------------------------------------------
(* The plugin.                                                              *)

Answer ==
  /\ program = "runs" /\ process = "running" /\ stdin # <<>>
  /\ stdout' = Append(stdout, Head(stdin))
  /\ stdin' = Tail(stdin)
  /\ UNCHANGED <<manager, program, process, rpc, history>>

\* It answers nothing, or half an answer, which the reader that gives up has
\* already taken from the pipe.
Ignore ==
  /\ program = "runs" /\ process = "running" /\ stdin # <<>>
  /\ stdin' = Tail(stdin)
  /\ UNCHANGED <<manager, program, process, stdout, rpc, history>>

\* What it has written can still be read.
Crash ==
  /\ program = "runs" /\ process = "running"
  /\ process' = "exited"
  /\ stdin' = <<>>
  /\ UNCHANGED <<manager, program, stdout, rpc, history>>

-----------------------------------------------------------------------------
Manage ==
  \/ Activate \/ Register \/ ActivationFails \/ Deactivated
  \/ Reconcile \/ Stop \/ DestroyHost

Next ==
  \/ Manage \/ StartFails \/ Unload
  \/ \E t \in Thread : Send(t) \/ Write(t) \/ Poll(t) \/ Call(t) \/ Return(t)
  \/ Answer \/ Ignore \/ Crash

\* Threads run and the mutex is granted to a waiting thread at last; the time
\* limit of a request comes.  Nothing makes a plugin read or answer.
Fairness ==
  /\ WF_vars(Manage)
  /\ \A t \in Thread :
       SF_vars(Send(t)) /\ WF_vars(Write(t)) /\ WF_vars(Poll(t)) /\ WF_vars(Return(t))

Spec == Init /\ [][Next]_vars /\ Fairness

-----------------------------------------------------------------------------
TypeOK ==
  /\ stage \in {"none", "activating", "active", "deactivating", "stopping",
               "stopped", "destroyed"}
  /\ registered \in BOOLEAN
  /\ process \in {"none", "running", "exited", "closed"}
  /\ program \in {"runs", "killed"}
  /\ at \in [Thread -> {"idle", "waiting", "writing", "reading", "answered", "failed"}]
  /\ mutex \in Thread \cup {NoThread}
  /\ next \in Nat
  /\ request \in [Thread -> Nat]
  /\ stdin \in Seq(Nat) /\ stdout \in Seq(Nat)
  /\ gaveUp \in BOOLEAN /\ mixedUp \in BOOLEAN

\* Answers carry no sender and identifiers are not compared: that each caller
\* gets the answer to what it asked rests on the mutex and on nobody having
\* given up on this host before (SendRequest).
AnswersBelong == ~gaveUp => ~mixedUp

\* What services hold of the plugin is gone before the host stops
\* (UnloadPlugin, DeactivateAll, ReconcileProcessHealth).
RegisteredWhileActive == registered => stage = "active"

\* What the runs check of every state.
HostConsistent == TypeOK /\ AnswersBelong /\ RegisteredWhileActive

\* If a plugin that runs goes on reading its requests, answered or not, a thread
\* that calls it comes back, unless the host is destroyed under it: a request
\* ends at its time limit and the mutex passes on (SendRequest, its lock_guard
\* and its three hundred attempts).
PluginReads == []<>(process # "running" \/ Len(stdin) < Capacity)

CallReturns(t) ==
  at[t] # "idle" ~> at[t] = "idle" \/ stage = "destroyed" \/ program = "killed"

CallsReturn == PluginReads => \A t \in Thread : CallReturns(t)

\* What the code does not give: that a call returns although the plugin has
\* stopped reading (MCPluginBlocked.cfg refutes it: the write at
\* process_posix.cpp:221 blocks under rpc_mutex_), and that an answer is its
\* request's although another was given up before (MCPluginCrash.cfg refutes it:
\* plugin_process_host.cpp:111 reads what is there).
CallsAlwaysReturn == \A t \in Thread : CallReturns(t)
AnswersAlwaysBelong == ~mixedUp

\* docs/architecture/abi.md:45: "Treat process crashes as plugin failures, not
\* IDE failures."  WriteStdin writes to a pipe that nobody reads any more.
CrashIsNotOurs == program = "runs"

\* docs/architecture/abi.md:77 requires of stored raw pointers an owner that
\* outlives the borrower: the handlers and providers of the plugin store the
\* host, which UnloadPlugin destroys while one of them may be running.
CallsHaveTheirHost == stage = "destroyed" => \A t \in Thread : at[t] = "idle"
=============================================================================
