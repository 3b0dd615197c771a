---------------------------- MODULE PluginProofs ----------------------------
(* Proofs about plugins, for any number of callers, requests and plugins:   *)
(* first of PluginProcessHost, that answers go to the requests they belong  *)
(* to as long as no request ran into its time limit, then of PluginManager, *)
(* that handlers lead to plugins with sessions.                             *)
EXTENDS MCPlugins, TLAPS

\* Only the thread that holds the mutex is between its number and its answer.
Exclusive == \A t \in Thread : at[t] \in {"writing", "reading"} <=> mutex = t

\* Whoever holds the mutex has written its request.
HolderReads == mutex # NoThread /\ at[mutex] = "reading"

\* While nobody has given up, the pipes hold nothing, or the request of the
\* thread that holds the mutex and has written it, or its answer.
OneUnderWay ==
  ~gaveUp =>
    \/ stdin = <<>> /\ stdout = <<>>
    \/ HolderReads /\ stdin = <<request[mutex]>> /\ stdout = <<>>
    \/ HolderReads /\ stdin = <<>> /\ stdout = <<request[mutex]>>

\* Before the activation nobody is in SendRequest.
Untouched == stage = "none" => \A t \in Thread : at[t] = "idle"

IInv == HostConsistent /\ Exclusive /\ OneUnderWay /\ Untouched

-----------------------------------------------------------------------------
\* The operators on sequences that the pipes are built from.
LEMMA Pipes ==
  ASSUME NEW s \in Seq(Nat), NEW n \in Nat
  PROVE  /\ <<>> \in Seq(Nat) /\ Append(s, n) \in Seq(Nat)
         /\ s # <<>> => Head(s) \in Nat /\ Tail(s) \in Seq(Nat)
         /\ s # <<>> => \A q \in Seq(Nat) : Append(q, Head(s)) \in Seq(Nat)
OBVIOUS

\* With the mutex free the pipes hold nothing, and stay so while a request is
\* numbered (SendRequest).
LEMMA SendKeeps ==
  ASSUME IInv, NEW t \in Thread, Send(t)
  PROVE  IInv'
<1> USE HostAssumption, ThreadAssumption
<1>1. TypeOK'
  <2>1. next + 1 \in Nat
    BY DEF IInv, HostConsistent, TypeOK
  <2> QED BY <2>1, SMTT(30) DEF IInv, HostConsistent, TypeOK, Send, Number, child, manager, history
<1>2. RegisteredWhileActive' /\ AnswersBelong'
  BY DEF IInv, HostConsistent, RegisteredWhileActive, AnswersBelong, Send, Number,
         manager, history
<1>3. Exclusive'
  BY DEF IInv, Exclusive, HostConsistent, TypeOK, Send, Number
<1>4. OneUnderWay'
  <2>1. ~gaveUp => stdin = <<>> /\ stdout = <<>>
    BY DEF IInv, OneUnderWay, HolderReads, Send
  <2> QED BY <2>1 DEF OneUnderWay, Send, Number, child, history
<1>5. Untouched'
  BY DEF IInv, Untouched, Send, Number, manager
<1> QED BY <1>1, <1>2, <1>3, <1>4, <1>5 DEF IInv, HostConsistent

\* Writing: the pipes were empty unless somebody had given up, so that the
\* request is alone in them (SendRequest).
LEMMA WriteKeeps ==
  ASSUME IInv, NEW t \in Thread, Write(t)
  PROVE  IInv'
<1> USE HostAssumption, ThreadAssumption
<1>1. mutex = t /\ at[t] = "writing" /\ at \in [Thread -> {"idle", "waiting", "writing", "reading", "answered", "failed"}]
  BY DEF IInv, Exclusive, HostConsistent, TypeOK, Write, WriteRequest, WriteFails
<1>2. ~gaveUp => stdin = <<>> /\ stdout = <<>>
  BY <1>1 DEF IInv, OneUnderWay, HolderReads
<1>3. Untouched'
  BY <1>1 DEF IInv, Untouched, Write, WriteRequest, WriteFails, manager
<1>4. RegisteredWhileActive' /\ AnswersBelong'
  BY DEF IInv, HostConsistent, RegisteredWhileActive, AnswersBelong, Write,
         WriteRequest, WriteFails, manager, history
<1>5. CASE WriteRequest(t)
  <2>1. stdin' \in Seq(Nat)
    <3>1. stdin \in Seq(Nat) /\ request[t] \in Nat
      BY DEF IInv, HostConsistent, TypeOK
    <3> QED BY <1>5, <3>1, Pipes DEF WriteRequest
  <2>2. TypeOK'
    BY <1>5, <2>1, SMTT(30) DEF IInv, HostConsistent, TypeOK, WriteRequest, manager, history
  <2>3. Exclusive'
    BY <1>1, <1>5 DEF IInv, Exclusive, WriteRequest
  <2>4. OneUnderWay'
    <3>1. HolderReads' /\ gaveUp' = gaveUp /\ request'[mutex'] = request[t]
      BY <1>1, <1>5 DEF HolderReads, WriteRequest, history
    <3>2. stdin' = Append(stdin, request[t]) /\ stdout' = stdout
      BY <1>5 DEF WriteRequest
    <3>3. Append(<<>>, request[t]) = <<request[t]>>
      OBVIOUS
    <3> QED BY <1>2, <3>1, <3>2, <3>3 DEF OneUnderWay
  <2> QED BY <1>3, <1>4, <2>2, <2>3, <2>4 DEF IInv, HostConsistent
<1>6. CASE WriteFails(t)
  <2>1. TypeOK'
    BY <1>6, SMTT(30) DEF IInv, HostConsistent, TypeOK, WriteFails, manager, child, history
  <2>2. Exclusive'
    BY <1>1, <1>6 DEF IInv, Exclusive, WriteFails
  <2>3. OneUnderWay'
    BY <1>2, <1>6 DEF OneUnderWay, WriteFails, child, history
  <2> QED BY <1>3, <1>4, <2>1, <2>2, <2>3 DEF IInv, HostConsistent
<1> QED BY <1>5, <1>6 DEF Write

\* Reading: the answer taken belongs to the thread that reads it, or somebody
\* had given up (SendRequest).
LEMMA PollKeeps ==
  ASSUME IInv, NEW t \in Thread, Poll(t)
  PROVE  IInv'
<1> USE HostAssumption, ThreadAssumption
<1>1. mutex = t /\ at[t] = "reading"
  BY DEF IInv, Exclusive, Poll, ReadAnswer, GiveUp
<1>4. Untouched'
  BY <1>1 DEF IInv, Untouched, Poll, ReadAnswer, GiveUp, manager
<1>2. CASE ReadAnswer(t)
  <2>1. TypeOK'
    BY <1>2 DEF IInv, HostConsistent, TypeOK, ReadAnswer, manager, Thread
  <2>2. RegisteredWhileActive'
    BY <1>2 DEF IInv, HostConsistent, RegisteredWhileActive, ReadAnswer, manager
  <2>3. ~gaveUp => Head(stdout) = request[t] /\ stdin = <<>>
    BY <1>1, <1>2 DEF IInv, OneUnderWay, HolderReads, ReadAnswer
  <2>4. AnswersBelong'
    BY <1>2, <2>3 DEF IInv, HostConsistent, AnswersBelong, ReadAnswer
  <2>5. Exclusive'
    BY <1>1, <1>2 DEF IInv, Exclusive, HostConsistent, TypeOK, ReadAnswer
  <2>6. OneUnderWay'
    BY <1>2, <2>3 DEF OneUnderWay, ReadAnswer
  <2> QED BY <1>4, <2>1, <2>2, <2>4, <2>5, <2>6 DEF IInv, HostConsistent
<1>3. CASE GiveUp(t)
  <2>1. TypeOK'
    BY <1>3 DEF IInv, HostConsistent, TypeOK, GiveUp, manager, child, Thread
  <2>2. RegisteredWhileActive'
    BY <1>3 DEF IInv, HostConsistent, RegisteredWhileActive, GiveUp, manager
  <2>3. AnswersBelong' /\ OneUnderWay'
    BY <1>3 DEF AnswersBelong, OneUnderWay, GiveUp
  <2>4. Exclusive'
    BY <1>1, <1>3 DEF IInv, Exclusive, HostConsistent, TypeOK, GiveUp
  <2> QED BY <1>4, <2>1, <2>2, <2>3, <2>4 DEF IInv, HostConsistent
<1> QED BY <1>2, <1>3 DEF Poll

\* The callers' own steps touch neither the pipes nor the mutex.
LEMMA CallersKeep ==
  ASSUME IInv, NEW t \in Thread, Call(t) \/ Return(t)
  PROVE  IInv'
<1> USE HostAssumption, ThreadAssumption
<1>1. TypeOK'
  BY SMTT(30) DEF IInv, HostConsistent, TypeOK, Call, Return, manager, child, history, Thread
<1>2. RegisteredWhileActive' /\ AnswersBelong'
  BY DEF IInv, HostConsistent, RegisteredWhileActive, AnswersBelong, Call,
         Return, manager, child, history
<1>5. OneUnderWay'
  <2>1. HolderReads => HolderReads'
    BY DEF IInv, HostConsistent, TypeOK, HolderReads, Call, Return
  <2> QED BY <2>1 DEF IInv, OneUnderWay, Call, Return, child, history
<1>3. Exclusive'
  BY DEF IInv, Exclusive, HostConsistent, TypeOK, Call, Return
<1>4. Untouched'
  BY DEF IInv, HostConsistent, TypeOK, RegisteredWhileActive, Untouched, Call, Return,
         manager
<1> QED BY <1>1, <1>2, <1>3, <1>4, <1>5 DEF IInv, HostConsistent

\* The manager's steps: Stop empties the pipes, the others leave them alone
\* (ActivateExternalPlugin, UnloadPlugin, ReconcileProcessHealth).
LEMMA ManageKeeps ==
  ASSUME IInv, Manage \/ StartFails \/ Unload
  PROVE  IInv'
<1> USE HostAssumption, ThreadAssumption
<1>0. "main" \in Thread
  BY DEF Thread
<1>9. <<>> \in Seq(Nat)
  OBVIOUS
<1>1. TypeOK'
  BY <1>0, <1>9 DEF IInv, HostConsistent, TypeOK, Manage, Activate, Register, ActivationFails,
         Deactivated, Reconcile, Stop, DestroyHost, StartFails, Unload, child,
         rpc, history
<1>2. RegisteredWhileActive'
  BY DEF IInv, HostConsistent, RegisteredWhileActive, Manage, Activate, Register,
         ActivationFails, Deactivated, Reconcile, Stop, DestroyHost, StartFails,
         Unload
<1>3. AnswersBelong'
  BY DEF IInv, HostConsistent, AnswersBelong, Manage, Activate, Register,
         ActivationFails, Deactivated, Reconcile, Stop, DestroyHost, StartFails,
         Unload, history
<1>4. /\ mutex' = mutex /\ request' = request /\ gaveUp' = gaveUp
      /\ \/ UNCHANGED <<stdin, stdout>>
         \/ stdin' = <<>> /\ stdout' = <<>>
  BY DEF Manage, Activate, Register, ActivationFails, Deactivated, Reconcile,
         Stop, DestroyHost, StartFails, Unload, child, rpc, history
<1>6. \/ at' = at
      \/ /\ at' = [at EXCEPT !["main"] = "waiting"]
         /\ at["main"] = "idle"
      \/ /\ at' = [at EXCEPT !["main"] = "idle"]
         /\ at["main"] \in {"answered", "failed"}
  BY <1>0 DEF IInv, Untouched, Manage, Activate, Register, ActivationFails,
         Deactivated, Reconcile, Stop, DestroyHost, StartFails, Unload, rpc
<1>7. Exclusive'
  BY <1>0, <1>4, <1>6 DEF IInv, Exclusive, HostConsistent, TypeOK
<1>5. OneUnderWay'
  <2>1. HolderReads => HolderReads'
    BY <1>0, <1>4, <1>6 DEF IInv, HostConsistent, TypeOK, HolderReads
  <2> QED BY <1>4, <2>1 DEF IInv, OneUnderWay
<1>8. Untouched'
  BY DEF Untouched, Manage, Activate, Register, ActivationFails, Deactivated,
         Reconcile, Stop, DestroyHost, StartFails, Unload
<1> QED BY <1>1, <1>2, <1>3, <1>5, <1>7, <1>8 DEF IInv, HostConsistent

\* The plugin moves its request from one pipe to the other, drops it, or ends.
LEMMA PluginKeeps ==
  ASSUME IInv, Answer \/ Ignore \/ Crash
  PROVE  IInv'
<1>2. UNCHANGED <<manager, program, rpc, history>>
  BY DEF Answer, Ignore, Crash
<1>5. process' \in {"none", "running", "exited", "closed"}
  BY DEF IInv, HostConsistent, TypeOK, Answer, Ignore, Crash
<1>6. stdin' \in Seq(Nat) /\ stdout' \in Seq(Nat)
  <2>1. stdin \in Seq(Nat) /\ stdout \in Seq(Nat)
    BY DEF IInv, HostConsistent, TypeOK
  <2>2. <<>> \in Seq(Nat)
    BY <2>1, Pipes
  <2>3. stdin # <<>> => /\ Tail(stdin) \in Seq(Nat)
                        /\ Append(stdout, Head(stdin)) \in Seq(Nat)
    BY <2>1, Pipes
  <2>4. CASE Answer
    BY <2>3, <2>4 DEF Answer
  <2>5. CASE Ignore
    BY <2>1, <2>3, <2>5 DEF Ignore
  <2>6. CASE Crash
    BY <2>1, <2>2, <2>6 DEF Crash
  <2> QED BY <2>4, <2>5, <2>6
<1>1. TypeOK'
  BY <1>2, <1>5, <1>6 DEF IInv, HostConsistent, TypeOK, manager, rpc, history
<1>3. RegisteredWhileActive' /\ AnswersBelong' /\ Exclusive' /\ Untouched'
  BY <1>2 DEF IInv, HostConsistent, RegisteredWhileActive, AnswersBelong, Exclusive,
         Untouched, manager, rpc, history
<1>4. OneUnderWay'
  <2>1. SUFFICES ASSUME ~gaveUp
        PROVE  \/ stdin' = <<>> /\ stdout' = <<>>
               \/ HolderReads /\ stdin' = <<request[mutex]>> /\ stdout' = <<>>
               \/ HolderReads /\ stdin' = <<>> /\ stdout' = <<request[mutex]>>
    BY <1>2 DEF OneUnderWay, HolderReads, rpc, history
  <2> DEFINE r == request[mutex]
  <2>2. Tail(<<r>>) = <<>> /\ Append(<<>>, Head(<<r>>)) = <<r>>
    OBVIOUS
  <2>3. CASE Answer
    <3>1. HolderReads /\ stdin = <<r>> /\ stdout = <<>>
      BY <2>1, <2>3 DEF IInv, OneUnderWay, Answer
    <3> QED BY <2>2, <2>3, <3>1 DEF Answer
  <2>4. CASE Ignore
    <3>1. stdin = <<r>> /\ stdout = <<>>
      BY <2>1, <2>4 DEF IInv, OneUnderWay, Ignore
    <3> QED BY <2>2, <2>4, <3>1 DEF Ignore
  <2>5. CASE Crash
    BY <2>1, <2>5 DEF IInv, OneUnderWay, Crash
  <2> QED BY <2>3, <2>4, <2>5
<1> QED BY <1>1, <1>3, <1>4 DEF IInv, HostConsistent

LEMMA Initially == Init => IInv
<1>1. SUFFICES ASSUME Init PROVE IInv
  OBVIOUS
<1>2. <<>> \in Seq(Nat)
  OBVIOUS
<1>3. at = [t \in Thread |-> "idle"] /\ \A t \in Thread : at[t] = "idle"
  BY <1>1 DEF Init
<1>4. TypeOK
  BY <1>1, <1>2, <1>3 DEF Init, TypeOK
<1>5. AnswersBelong /\ RegisteredWhileActive /\ OneUnderWay
  BY <1>1 DEF Init, AnswersBelong, RegisteredWhileActive, OneUnderWay
<1>6. Exclusive /\ Untouched
  BY <1>1, <1>3, ThreadAssumption DEF Init, Exclusive, Untouched
<1> QED BY <1>4, <1>5, <1>6 DEF IInv, HostConsistent

LEMMA StepKeeps == IInv /\ [Next]_vars => IInv'
<1>1. SUFFICES ASSUME IInv, [Next]_vars PROVE IInv'
  OBVIOUS
<1>2. CASE Manage \/ StartFails \/ Unload
  BY <1>1, <1>2, ManageKeeps
<1>3. CASE \E t \in Thread : Send(t) \/ Write(t) \/ Poll(t) \/ Call(t) \/ Return(t)
  <2>1. PICK t \in Thread : Send(t) \/ Write(t) \/ Poll(t) \/ Call(t) \/ Return(t)
    BY <1>3
  <2> QED BY <1>1, <2>1, SendKeeps, WriteKeeps, PollKeeps, CallersKeep
<1>4. CASE Answer \/ Ignore \/ Crash
  BY <1>1, <1>4, PluginKeeps
<1>5. CASE UNCHANGED vars
  BY <1>1, <1>5 DEF vars, manager, child, rpc, history, IInv, HostConsistent, TypeOK,
         AnswersBelong, RegisteredWhileActive, Exclusive, OneUnderWay, HolderReads,
         Untouched
<1> QED BY <1>1, <1>2, <1>3, <1>4, <1>5 DEF Next

\* However calls of workers, the manager's steps, crashes and late answers
\* interleave: types, no registration outlives the active host, and answers
\* belong to their requests until a request is given up.
THEOREM StaysConsistent == Spec => []HostConsistent
<1>1. IInv => HostConsistent
  BY DEF IInv
<1> QED BY Initially, StepKeeps, <1>1, PTL DEF Spec
-----------------------------------------------------------------------------
(* The manager of all plugins.                                             *)

\* What a name leads to, and what led to it last, registers that name, so that
\* clearing a plugin finds its handlers.
OwnersProvide ==
  \A n \in Names :
    /\ owner[n] # Manager!Nobody => n \in Provides[owner[n]]
    /\ newest[n] # Manager!Nobody => n \in Provides[newest[n]]

\* The manifests a round of the core pass has come past since it last
\* activated a plugin leave nobody out.
PassedOver ==
  pass = "core" /\ ~activated =>
    \A i \in 1 .. Len(Order) :
      i < index /\ Order[i] \in Core /\ Manager!ShouldActivate(Order[i])
        => Order[i] \in sessions \cup attempted

ManagerInv ==
  /\ Manager!ManagerConsistent
  /\ Manager!NewestToolStays
  /\ OwnersProvide
  /\ PassedOver

\* What the table holds after the plugins P were cleared: none of them, and
\* every tool that another plugin has (PluginActivationState::Clear).
LEMMA ClearedTable ==
  ASSUME Manager!TypeOK, OwnersProvide, NEW P \in SUBSET Plugins
  PROVE  /\ Manager!Cleared(P) \in [Names -> Plugins \cup {Manager!Nobody}]
         /\ \A n \in Names :
              /\ Manager!Cleared(P)[n] \in {owner[n], Manager!Nobody}
              /\ Manager!Cleared(P)[n] \notin P
              /\ n \in Tools /\ owner[n] \notin P => Manager!Cleared(P)[n] = owner[n]
<1>1. /\ owner \in [Names -> Plugins \cup {Manager!Nobody}]
      /\ Manager!Nobody \notin P
  BY ManagerAssumption DEF Manager!TypeOK
<1>2. \A n \in Names : owner[n] \in P => /\ \E p \in P : n \in Provides[p]
                                         /\ Manager!Erases(n, P)
  BY <1>1 DEF OwnersProvide, Manager!Erases
<1>3. \A n \in Names : n \in Tools /\ owner[n] \notin P => ~Manager!Erases(n, P)
  BY DEF Manager!Erases
<1> QED BY <1>1, <1>2, <1>3 DEF Manager!Cleared

\* The manifest a pass has come to.
LEMMA CurrentPlugin ==
  ASSUME Manager!TypeOK, Manager!InRound
  PROVE  /\ Manager!Current \in Plugins
         /\ index \in 1 .. Len(Order) /\ index + 1 \in 1 .. Len(Order) + 1
         /\ Manager!Current = Order[index]
         /\ Provides[Manager!Current] \in SUBSET Names
<1>1. Len(Order) \in Nat /\ index \in 1 .. Len(Order)
  BY ManagerAssumption DEF Manager!TypeOK, Manager!InRound
<1>2. Order[index] \in Plugins
  BY <1>1, ManagerAssumption
<1> QED BY <1>1, <1>2, ManagerAssumption DEF Manager!Current

\* A pass begins with the first manifest, also when there is none.
LEMMA FirstManifest == 1 \in 1 .. Len(Order) + 1
<1>1. Len(Order) \in Nat
  BY ManagerAssumption
<1> QED BY <1>1

\* Clearing the sessions of P keeps what is said of the tables, whatever else
\* the operation does to states and processes.
LEMMA ClearingKeepsTables ==
  ASSUME ManagerInv, NEW P \in SUBSET Plugins,
         owner' = Manager!Cleared(P), sessions' = sessions \ P, newest' = newest
  PROVE  /\ owner' \in [Names -> Plugins \cup {Manager!Nobody}]
         /\ Manager!HandlersHaveTheirPlugin' /\ Manager!NewestToolStays' /\ OwnersProvide'
<1>1. Manager!TypeOK /\ OwnersProvide
  BY DEF ManagerInv, Manager!ManagerConsistent
<1>2. Tools \subseteq Names /\ Manager!Nobody \notin sessions
  BY <1>1, ManagerAssumption DEF Manager!TypeOK
<1>3. \A n \in Names : /\ owner'[n] \in {owner[n], Manager!Nobody} /\ owner'[n] \notin P
                       /\ n \in Tools /\ owner[n] \notin P => owner'[n] = owner[n]
  BY <1>1, ClearedTable
<1>4. Manager!HandlersHaveTheirPlugin'
  BY <1>3 DEF ManagerInv, Manager!ManagerConsistent, Manager!HandlersHaveTheirPlugin,
              Manager!Nobody
<1>5. Manager!NewestToolStays'
  BY <1>2, <1>3 DEF ManagerInv, Manager!NewestToolStays
<1>6. OwnersProvide'
  BY <1>3 DEF ManagerInv, OwnersProvide, Manager!Nobody
<1> QED BY <1>1, <1>4, <1>5, <1>6, ClearedTable

\* So does registering what a plugin provides (PluginActivationState).
LEMMA RegisteringKeepsTables ==
  ASSUME ManagerInv, NEW p \in Plugins, Manager!Activated(p)
  PROVE  /\ owner' \in [Names -> Plugins \cup {Manager!Nobody}]
         /\ newest' \in [Names -> Plugins \cup {Manager!Nobody}]
         /\ lifecycle' \in [Plugins -> {"Discovered", "Active", "Inactive", "Failed"}]
         /\ sessions' = sessions \cup {p}
         /\ Manager!HandlersHaveTheirPlugin' /\ Manager!NewestToolStays' /\ OwnersProvide'
         /\ Manager!ActiveHasSession'
<1>1. /\ owner \in [Names -> Plugins \cup {Manager!Nobody}]
      /\ newest \in [Names -> Plugins \cup {Manager!Nobody}]
      /\ lifecycle \in [Plugins -> {"Discovered", "Active", "Inactive", "Failed"}]
  BY DEF ManagerInv, Manager!ManagerConsistent, Manager!TypeOK
<1>2. Tools \subseteq Names /\ Manager!Nobody \notin Plugins
  BY ManagerAssumption
<1>3. /\ owner' = [n \in Names |-> IF n \in Provides[p] THEN p ELSE owner[n]]
      /\ newest' = [n \in Names |-> IF n \in Provides[p] THEN p ELSE newest[n]]
      /\ lifecycle' = [lifecycle EXCEPT ![p] = "Active"]
      /\ sessions' = sessions \cup {p}
  BY DEF Manager!Activated, Manager!Registered
<1>4. Manager!HandlersHaveTheirPlugin'
  BY <1>3 DEF ManagerInv, Manager!ManagerConsistent, Manager!HandlersHaveTheirPlugin,
              Manager!Nobody
<1>5. Manager!NewestToolStays'
  BY <1>2, <1>3 DEF ManagerInv, Manager!NewestToolStays, OwnersProvide
<1>6. OwnersProvide'
  BY <1>2, <1>3 DEF ManagerInv, OwnersProvide, Manager!Nobody
<1>7. Manager!ActiveHasSession'
  BY <1>1, <1>3 DEF ManagerInv, Manager!ManagerConsistent, Manager!ActiveHasSession
<1> QED BY <1>1, <1>3, <1>4, <1>5, <1>6, <1>7

\* Fewer handlers make fewer plugins wanted: the round stays complete when it
\* only gained attempts and handlers only went.
LEMMA StillPassedOver ==
  ASSUME ManagerInv, UNCHANGED <<pass, index, activated>>,
         sessions' = sessions, attempted \subseteq attempted',
         \A n \in Names : owner'[n] \in {owner[n], Manager!Nobody}
  PROVE  PassedOver'
<1>1. \A p \in Plugins : Manager!ShouldActivate(p)' => Manager!ShouldActivate(p)
  BY DEF Manager!ShouldActivate, Manager!Available, Manager!Nobody
<1>2. \A i \in 1 .. Len(Order) : Order[i] \in Plugins
  BY ManagerAssumption
<1> QED BY <1>1, <1>2 DEF ManagerInv, PassedOver

\* The core pass (ActivateCorePlugins): a manifest that is passed over is in no
\* need of activation, one that is activated starts another round, and one that
\* fails was tried and leaves no handler.
LEMMA CorePassKeeps ==
  ASSUME ManagerInv, Manager!SkipCore \/ Manager!ActivateCore \/ Manager!FailCore
                     \/ Manager!NextRound
  PROVE  ManagerInv'
<1>1. /\ Manager!TypeOK
      /\ Manager!HandlersHaveTheirPlugin /\ Manager!ActiveHasSession
      /\ Manager!NewestToolStays /\ OwnersProvide /\ PassedOver
  BY DEF ManagerInv, Manager!ManagerConsistent
<1>0. pass = "core" /\ UNCHANGED <<pass, alive, operations>>
  BY DEF Manager!SkipCore, Manager!ActivateCore, Manager!FailCore, Manager!NextRound
<1>2. CASE Manager!SkipCore
  <2>0. Manager!InRound /\ Manager!Passed(Manager!Current) /\ index' = index + 1
        /\ UNCHANGED <<lifecycle, sessions, owner, newest, attempted, activated>>
    BY <1>2 DEF Manager!SkipCore, Manager!tables
  <2>1. Manager!TypeOK'
    BY <1>0, <1>1, <2>0, CurrentPlugin DEF Manager!TypeOK
  <2>2. Manager!HandlersHaveTheirPlugin' /\ Manager!ActiveHasSession'
        /\ Manager!NewestToolStays' /\ OwnersProvide'
    BY <1>1, <2>0 DEF Manager!HandlersHaveTheirPlugin, Manager!ActiveHasSession,
                      Manager!NewestToolStays, OwnersProvide, Manager!Nobody
  <2>3. PassedOver'
    <3>1. \A p \in Plugins : Manager!ShouldActivate(p)' <=> Manager!ShouldActivate(p)
      BY <2>0 DEF Manager!ShouldActivate, Manager!Available
    <3>2. \A i \in 1 .. Len(Order) :
            i < index + 1 => i < index \/ Order[i] = Manager!Current
      BY <1>1, <2>0, CurrentPlugin
    <3>3. \A i \in 1 .. Len(Order) : Order[i] \in Plugins
      BY ManagerAssumption
    <3> QED BY <1>0, <1>1, <2>0, <3>1, <3>2, <3>3 DEF PassedOver, Manager!Passed
  <2> QED BY <2>1, <2>2, <2>3 DEF ManagerInv, Manager!ManagerConsistent
<1>3. CASE Manager!ActivateCore
  <2>0. /\ Manager!InRound /\ Manager!Activated(Manager!Current) /\ index' = index + 1
        /\ activated' = TRUE /\ attempted' = attempted \cup {Manager!Current}
    BY <1>3 DEF Manager!ActivateCore
  <2>1. Manager!Current \in Plugins /\ index + 1 \in 1 .. Len(Order) + 1
    BY <1>1, <2>0, CurrentPlugin
  <2>2. Manager!TypeOK' /\ Manager!HandlersHaveTheirPlugin' /\ Manager!ActiveHasSession'
        /\ Manager!NewestToolStays' /\ OwnersProvide'
    BY <1>0, <1>1, <2>0, <2>1, RegisteringKeepsTables DEF Manager!TypeOK
  <2>3. PassedOver'
    BY <2>0 DEF PassedOver
  <2> QED BY <2>2, <2>3 DEF ManagerInv, Manager!ManagerConsistent
<1>4. CASE Manager!FailCore
  <2>0. /\ Manager!InRound /\ ~Manager!Passed(Manager!Current) /\ index' = index + 1
        /\ lifecycle' = [lifecycle EXCEPT ![Manager!Current] = "Failed"]
        /\ attempted' = attempted \cup {Manager!Current}
        /\ UNCHANGED <<sessions, activated>>
    BY <1>4 DEF Manager!FailCore
  <2>1. /\ Manager!Current \in Plugins /\ Manager!Current \notin sessions
        /\ index \in 1 .. Len(Order) /\ index + 1 \in 1 .. Len(Order) + 1
        /\ Manager!Current = Order[index] /\ Provides[Manager!Current] \in SUBSET Names
    BY <1>1, <2>0, CurrentPlugin DEF Manager!Passed
  <2>2. PICK S \in SUBSET Provides[Manager!Current] :
          /\ owner' = [n \in Names |-> IF n \in S THEN Manager!Nobody ELSE owner[n]]
          /\ newest' = [n \in Names |-> IF n \in S THEN Manager!Current ELSE newest[n]]
    BY <1>4 DEF Manager!FailCore
  <2>3. Manager!TypeOK'
    <3>1. owner' \in [Names -> Plugins \cup {Manager!Nobody}]
          /\ newest' \in [Names -> Plugins \cup {Manager!Nobody}]
      BY <1>1, <2>1, <2>2 DEF Manager!TypeOK
    <3> QED BY <1>0, <1>1, <2>0, <2>1, <3>1 DEF Manager!TypeOK
  <2>4. Manager!HandlersHaveTheirPlugin' /\ OwnersProvide'
    BY <1>1, <2>0, <2>2 DEF Manager!HandlersHaveTheirPlugin, OwnersProvide, Manager!Nobody
  <2>5. Manager!ActiveHasSession'
    BY <1>1, <2>0, <2>1 DEF Manager!ActiveHasSession, Manager!TypeOK
  <2>6. Manager!NewestToolStays'
    BY <1>1, <2>0, <2>1, <2>2, ManagerAssumption DEF Manager!NewestToolStays
  <2>7. PassedOver'
    <3>1. \A p \in Plugins : Manager!ShouldActivate(p)' => Manager!ShouldActivate(p)
      BY <2>2 DEF Manager!ShouldActivate, Manager!Available, Manager!Nobody
    <3>2. \A i \in 1 .. Len(Order) :
            i < index + 1 => i < index \/ Order[i] = Manager!Current
      BY <2>1
    <3>3. \A i \in 1 .. Len(Order) : Order[i] \in Plugins
      BY ManagerAssumption
    <3> QED BY <1>0, <1>1, <2>0, <3>1, <3>2, <3>3 DEF PassedOver
  <2> QED BY <1>1, <2>3, <2>4, <2>5, <2>6, <2>7 DEF ManagerInv, Manager!ManagerConsistent
<1>5. CASE Manager!NextRound
  <2>0. /\ index' = 1 /\ activated' = FALSE
        /\ UNCHANGED <<lifecycle, sessions, owner, newest, attempted>>
    BY <1>5 DEF Manager!NextRound, Manager!tables
  <2>1. Manager!TypeOK'
    BY <1>0, <1>1, <2>0, FirstManifest DEF Manager!TypeOK
  <2>2. Manager!HandlersHaveTheirPlugin' /\ Manager!ActiveHasSession'
        /\ Manager!NewestToolStays' /\ OwnersProvide'
    BY <1>1, <2>0 DEF Manager!HandlersHaveTheirPlugin, Manager!ActiveHasSession,
                      Manager!NewestToolStays, OwnersProvide, Manager!Nobody
  <2>3. PassedOver'
    BY <2>0 DEF PassedOver
  <2> QED BY <2>1, <2>2, <2>3 DEF ManagerInv, Manager!ManagerConsistent
<1> QED BY <1>2, <1>3, <1>4, <1>5

\* The external pass, where a manifest is come past once (ActivateExternalPlugins).
LEMMA ExternalPassKeeps ==
  ASSUME ManagerInv, Manager!SkipExternal \/ Manager!ActivateExternal
                     \/ Manager!FinishExternal
  PROVE  ManagerInv'
<1>1. /\ Manager!TypeOK
      /\ Manager!HandlersHaveTheirPlugin /\ Manager!ActiveHasSession
      /\ Manager!NewestToolStays /\ OwnersProvide
  BY DEF ManagerInv, Manager!ManagerConsistent
<1>0. pass' # "core" /\ PassedOver'
  BY DEF Manager!SkipExternal, Manager!ActivateExternal, Manager!FinishExternal, PassedOver
<1>2. CASE Manager!ActivateExternal /\ Manager!Activated(Manager!Current)
  <2>1. Manager!Current \in Plugins /\ index + 1 \in 1 .. Len(Order) + 1
    BY <1>1, <1>2, CurrentPlugin DEF Manager!ActivateExternal
  <2>2. /\ alive' \subseteq alive \cup {Manager!Current}
        /\ attempted' = attempted \cup {Manager!Current} /\ index' = index + 1
        /\ UNCHANGED <<pass, activated, operations>>
    BY <1>2 DEF Manager!ActivateExternal, Manager!StartPlugin
  <2> QED
    BY <1>0, <1>1, <1>2, <2>1, <2>2, RegisteringKeepsTables
    DEF ManagerInv, Manager!ManagerConsistent, Manager!TypeOK
<1>3. CASE \/ Manager!SkipExternal \/ Manager!FinishExternal
           \/ Manager!ActivateExternal /\ ~Manager!Activated(Manager!Current)
  <2>1. /\ UNCHANGED <<sessions, owner, newest, alive, activated, operations>>
        /\ pass' \in {"external", "idle"}
        /\ \/ lifecycle' = lifecycle
           \/ /\ lifecycle' = [lifecycle EXCEPT ![Manager!Current] = "Failed"]
              /\ Manager!InRound
        /\ \/ index' = 1
           \/ Manager!InRound /\ index' = index + 1
        /\ \/ attempted' \subseteq attempted
           \/ Manager!InRound /\ attempted' = attempted \cup {Manager!Current}
    BY <1>3 DEF Manager!SkipExternal, Manager!FinishExternal, Manager!ActivateExternal,
                Manager!StartPlugin, Manager!tables
  <2>2. lifecycle' \in [Plugins -> {"Discovered", "Active", "Inactive", "Failed"}]
    BY <1>1, <2>1 DEF Manager!TypeOK
  <2>3. index' \in 1 .. Len(Order) + 1 /\ attempted' \subseteq Plugins
    BY <1>1, <2>1, CurrentPlugin, FirstManifest DEF Manager!TypeOK
  <2>4. Manager!TypeOK'
    BY <1>1, <2>1, <2>2, <2>3 DEF Manager!TypeOK
  <2>5. Manager!HandlersHaveTheirPlugin' /\ Manager!NewestToolStays' /\ OwnersProvide'
    BY <1>1, <2>1 DEF Manager!HandlersHaveTheirPlugin, Manager!NewestToolStays,
                      OwnersProvide, Manager!Nobody
  <2>6. Manager!ActiveHasSession'
    BY <1>1, <2>1 DEF Manager!ActiveHasSession, Manager!TypeOK
  <2> QED BY <1>0, <2>4, <2>5, <2>6 DEF ManagerInv, Manager!ManagerConsistent
<1> QED BY <1>2, <1>3

\* Operations that clear sessions: the health check, a reload of everything,
\* an unload and a new scan (ReconcileProcessHealth, DeactivateAll,
\* UnloadPlugin).
LEMMA ClearingKeeps ==
  ASSUME ManagerInv,
         \/ Manager!BeginExternal \/ Manager!ReloadCorePlugins \/ Manager!ReloadUnknown
         \/ Manager!QueryLifecycle \/ \E p \in Plugins : Manager!UnloadPlugin(p)
  PROVE  ManagerInv'
<1>1. /\ Manager!TypeOK /\ Manager!ActiveHasSession
  BY DEF ManagerInv, Manager!ManagerConsistent
<1>2. PICK P \in SUBSET Plugins :
        /\ owner' = Manager!Cleared(P) /\ sessions' = sessions \ P /\ newest' = newest
        /\ lifecycle' \in [Plugins -> {"Discovered", "Active", "Inactive", "Failed"}]
        /\ \A p \in Plugins : lifecycle'[p] = "Active" => lifecycle[p] = "Active" /\ p \notin P
        /\ alive' \subseteq Plugins
        /\ pass' = "core" => index' = 1
        /\ \/ index' = 1 /\ attempted' = {} /\ pass' \in {"core", "external"}
              /\ activated' = FALSE
           \/ UNCHANGED <<index, attempted, pass, activated>>
        /\ operations' \in 0 .. MaxOperations
  <2>0. /\ Manager!Ended \in SUBSET Plugins /\ sessions \in SUBSET Plugins
        /\ lifecycle \in [Plugins -> {"Discovered", "Active", "Inactive", "Failed"}]
        /\ alive \subseteq Plugins /\ operations \in 0 .. MaxOperations
        /\ (Manager!Operation => operations' \in 0 .. MaxOperations /\ pass = "idle")
    BY <1>1, ManagerAssumption, SMTT(30) DEF Manager!TypeOK, Manager!Ended, Manager!Operation
  <2>1. CASE Manager!BeginExternal
    <3> Manager!Ended \in SUBSET Plugins
      BY <2>0
    <3> WITNESS Manager!Ended \in SUBSET Plugins
    <3> QED BY <2>0, <2>1 DEF Manager!BeginExternal, Manager!ReconcileProcessHealth
  <2>2. CASE Manager!ReloadCorePlugins
    <3> sessions \in SUBSET Plugins
      BY <2>0
    <3> WITNESS sessions \in SUBSET Plugins
    <3> QED BY <2>0, <2>2 DEF Manager!ReloadCorePlugins
  <2>3. CASE Manager!ReloadUnknown
    <3> Manager!Ended \in SUBSET Plugins
      BY <2>0
    <3> WITNESS Manager!Ended \in SUBSET Plugins
    <3> QED BY <2>0, <2>3 DEF Manager!ReloadUnknown, Manager!position
  <2>4. CASE Manager!QueryLifecycle
    <3> Manager!Ended \in SUBSET Plugins
      BY <2>0
    <3> WITNESS Manager!Ended \in SUBSET Plugins
    <3> QED BY <2>0, <2>4 DEF Manager!QueryLifecycle, Manager!ReconcileProcessHealth,
                              Manager!position
  <2>5. ASSUME NEW p \in Plugins, Manager!UnloadPlugin(p)
        PROVE  \E P \in SUBSET Plugins :
        /\ owner' = Manager!Cleared(P) /\ sessions' = sessions \ P /\ newest' = newest
        /\ lifecycle' \in [Plugins -> {"Discovered", "Active", "Inactive", "Failed"}]
        /\ \A q \in Plugins : lifecycle'[q] = "Active" => lifecycle[q] = "Active" /\ q \notin P
        /\ alive' \subseteq Plugins
        /\ pass' = "core" => index' = 1
        /\ \/ index' = 1 /\ attempted' = {} /\ pass' \in {"core", "external"}
              /\ activated' = FALSE
           \/ UNCHANGED <<index, attempted, pass, activated>>
        /\ operations' \in 0 .. MaxOperations
    <3> {p} \in SUBSET Plugins
      OBVIOUS
    <3> WITNESS {p} \in SUBSET Plugins
    <3> QED BY <2>0, <2>5 DEF Manager!UnloadPlugin, Manager!position
  <2> QED BY <2>1, <2>2, <2>3, <2>4, <2>5
<1>3. /\ owner' \in [Names -> Plugins \cup {Manager!Nobody}]
      /\ Manager!HandlersHaveTheirPlugin' /\ Manager!NewestToolStays' /\ OwnersProvide'
  BY <1>2, ClearingKeepsTables
<1>4. Manager!TypeOK'
  BY <1>1, <1>2, <1>3, FirstManifest DEF Manager!TypeOK
<1>5. Manager!ActiveHasSession'
  BY <1>1, <1>2 DEF Manager!ActiveHasSession
<1>6. PassedOver'
  BY <1>2 DEF PassedOver
<1> QED BY <1>3, <1>4, <1>5, <1>6 DEF ManagerInv, Manager!ManagerConsistent

\* A process plugin is unloaded and activated again, whether that succeeds or
\* not (ReloadPlugin).
LEMMA ReloadKeeps ==
  ASSUME ManagerInv, NEW p \in Plugins, Manager!ReloadPlugin(p)
  PROVE  ManagerInv'
<1> DEFINE gone == Manager!Ended \cup ({p} \cap sessions)
           left == Manager!Cleared(gone)
<1>1. /\ Manager!TypeOK /\ OwnersProvide /\ Manager!ActiveHasSession
      /\ Manager!HandlersHaveTheirPlugin /\ Manager!NewestToolStays
  BY DEF ManagerInv, Manager!ManagerConsistent
<1>2. PICK ok \in BOOLEAN :
        /\ sessions' = (sessions \ gone) \cup (IF ok THEN {p} ELSE {})
        /\ alive' = (alive \ {p}) \cup (IF ok THEN {p} ELSE {})
        /\ owner' = [n \in Names |-> IF ok /\ n \in Provides[p] THEN p ELSE left[n]]
        /\ newest' = [n \in Names |-> IF ok /\ n \in Provides[p] THEN p ELSE newest[n]]
        /\ lifecycle' = [q \in Plugins |->
               CASE q = p -> IF ok THEN "Active" ELSE "Failed"
                 [] q \in Manager!Ended \ {p} -> "Failed"
                 [] OTHER -> lifecycle[q]]
  BY DEF Manager!ReloadPlugin
<1>3. gone \in SUBSET Plugins /\ p \notin (sessions \ gone)
      /\ gone \subseteq Manager!Ended \cup {p}
  BY <1>1 DEF Manager!TypeOK, Manager!Ended
<1> HIDE DEF gone
<1>4. /\ left \in [Names -> Plugins \cup {Manager!Nobody}]
      /\ \A n \in Names :
           /\ left[n] \in {owner[n], Manager!Nobody} /\ left[n] \notin gone
           /\ n \in Tools /\ owner[n] \notin gone => left[n] = owner[n]
  BY <1>1, <1>3, ClearedTable
<1> HIDE DEF left
<1>5. pass = "idle" /\ operations' \in 0 .. MaxOperations
      /\ UNCHANGED <<pass, index, attempted, activated>>
  BY <1>1, ManagerAssumption, SMTT(30)
  DEF Manager!ReloadPlugin, Manager!Operation, Manager!position, Manager!TypeOK
<1>6. Manager!TypeOK'
  <2>1. owner' \in [Names -> Plugins \cup {Manager!Nobody}]
    BY <1>2, <1>4
  <2>2. newest' \in [Names -> Plugins \cup {Manager!Nobody}]
    BY <1>1, <1>2 DEF Manager!TypeOK
  <2>3. lifecycle' \in [Plugins -> {"Discovered", "Active", "Inactive", "Failed"}]
    BY <1>1, <1>2 DEF Manager!TypeOK
  <2>4. sessions' \subseteq Plugins /\ alive' \subseteq Plugins
    BY <1>1, <1>2 DEF Manager!TypeOK
  <2> QED BY <1>1, <1>5, <2>1, <2>2, <2>3, <2>4 DEF Manager!TypeOK
<1>7. Manager!HandlersHaveTheirPlugin'
  BY <1>1, <1>2, <1>4 DEF Manager!HandlersHaveTheirPlugin, Manager!Nobody
<1>8. Manager!ActiveHasSession'
  BY <1>1, <1>2, <1>3 DEF Manager!ActiveHasSession, Manager!TypeOK
<1>9. OwnersProvide'
  BY <1>1, <1>2, <1>4, ManagerAssumption DEF OwnersProvide, Manager!Nobody
<1>10. Manager!NewestToolStays'
  <2>1. Tools \subseteq Names /\ Manager!Nobody \notin Plugins
    BY ManagerAssumption
  <2>2. \A n \in Names : newest[n] \in sessions \ gone => newest[n] # p
    BY <1>3
  <2>3. \A n \in Names : newest[n] = p => n \in Provides[p]
    BY <1>1, <2>1 DEF OwnersProvide
  <2> QED BY <1>1, <1>2, <1>4, <2>1, <2>2, <2>3 DEF Manager!NewestToolStays
<1>11. PassedOver'
  BY <1>5 DEF PassedOver
<1> QED BY <1>6, <1>7, <1>8, <1>9, <1>10, <1>11 DEF ManagerInv, Manager!ManagerConsistent

\* The end of a process changes no table: the health check comes later.
LEMMA ProcessEndKeeps ==
  ASSUME ManagerInv,
         UNCHANGED <<lifecycle, sessions, owner, newest, pass, index, attempted,
                     activated, operations>>,
         alive' \subseteq alive
  PROVE  ManagerInv'
<1>1. Manager!TypeOK'
  BY DEF ManagerInv, Manager!ManagerConsistent, Manager!TypeOK
<1>2. Manager!HandlersHaveTheirPlugin' /\ Manager!ActiveHasSession'
      /\ Manager!NewestToolStays' /\ OwnersProvide'
  BY DEF ManagerInv, Manager!ManagerConsistent, Manager!HandlersHaveTheirPlugin,
         Manager!ActiveHasSession, Manager!NewestToolStays, OwnersProvide, Manager!Nobody
<1>3. PassedOver'
  BY StillPassedOver
<1> QED BY <1>1, <1>2, <1>3 DEF ManagerInv, Manager!ManagerConsistent

LEMMA ManagerInitially == Manager!Init => ManagerInv
<1> SUFFICES ASSUME Manager!Init PROVE ManagerInv
  OBVIOUS
<1>1. \A n \in Names : owner[n] = Manager!Nobody /\ newest[n] = Manager!Nobody
  BY DEF Manager!Init
<1>2. Manager!TypeOK
  <2>1. lifecycle \in [Plugins -> {"Discovered", "Active", "Inactive", "Failed"}]
    BY DEF Manager!Init
  <2>2. owner \in [Names -> Plugins \cup {Manager!Nobody}]
    BY DEF Manager!Init
  <2>3. newest \in [Names -> Plugins \cup {Manager!Nobody}]
    BY DEF Manager!Init
  <2>4. index \in 1 .. Len(Order) + 1
    BY FirstManifest DEF Manager!Init
  <2>5. operations \in 0 .. MaxOperations
    BY ManagerAssumption DEF Manager!Init
  <2> QED BY <2>1, <2>2, <2>3, <2>4, <2>5 DEF Manager!Init, Manager!TypeOK
<1>3. Manager!HandlersHaveTheirPlugin /\ Manager!ActiveHasSession
  BY <1>1 DEF Manager!Init, Manager!HandlersHaveTheirPlugin, Manager!ActiveHasSession
<1>4. Manager!NewestToolStays /\ OwnersProvide /\ PassedOver
  BY <1>1, ManagerAssumption DEF Manager!Init, Manager!NewestToolStays, OwnersProvide,
                                 PassedOver
<1> QED BY <1>2, <1>3, <1>4 DEF ManagerInv, Manager!ManagerConsistent

LEMMA ManagerStepKeeps == ManagerInv /\ [Manager!Next]_(Manager!vars) => ManagerInv'
<1> SUFFICES ASSUME ManagerInv, [Manager!Next]_(Manager!vars) PROVE ManagerInv'
  OBVIOUS
<1>1. CASE Manager!SkipCore \/ Manager!ActivateCore \/ Manager!FailCore \/ Manager!NextRound
  BY <1>1, CorePassKeeps
<1>2. CASE Manager!SkipExternal \/ Manager!ActivateExternal \/ Manager!FinishExternal
  BY <1>2, ExternalPassKeeps
<1>3. CASE \/ Manager!BeginExternal \/ Manager!ReloadCorePlugins \/ Manager!ReloadUnknown
           \/ Manager!QueryLifecycle \/ \E p \in Plugins : Manager!UnloadPlugin(p)
  BY <1>3, ClearingKeeps
<1>4. CASE \E p \in Plugins : Manager!ReloadPlugin(p)
  BY <1>4, ReloadKeeps
<1>5. CASE (\E p \in Plugins : Manager!ProcessEnds(p)) \/ UNCHANGED Manager!vars
  BY <1>5, ProcessEndKeeps
  DEF Manager!ProcessEnds, Manager!vars, Manager!tables, Manager!position
<1> QED BY <1>1, <1>2, <1>3, <1>4, <1>5 DEF Manager!Next, Manager!Pass

\* However activations, reloads, unloads and ends of processes follow each
\* other: a command or tool leads to a plugin with a session, or nowhere.
THEOREM ManagerStaysConsistent == Manager!Spec => []ManagerConsistent
<1>1. ManagerInv => ManagerConsistent
  BY DEF ManagerInv, ManagerConsistent
<1> QED BY ManagerInitially, ManagerStepKeeps, <1>1, PTL DEF Manager!Spec

\* Whoever registered a tool last keeps it as long as it has a session
\* (AgentToolRegistry compares registrations, UnregisterCommand does not).
THEOREM NewestToolHolds == Manager!Spec => []NewestToolStays
<1>1. ManagerInv => NewestToolStays
  BY DEF ManagerInv, NewestToolStays
<1> QED BY ManagerInitially, ManagerStepKeeps, <1>1, PTL DEF Manager!Spec

\* The rounds of the core pass end only when nobody whose command is there was
\* left out, in whatever order Scan found the manifests.
THEOREM NoneLeftBehindHolds == Manager!Spec => []NoneLeftBehind
<1>1. ASSUME ManagerInv PROVE NoneLeftBehind
  <2> SUFFICES ASSUME pass = "core", ~Manager!InRound, ~activated,
                      NEW p \in Core, Manager!ShouldActivate(p)
               PROVE  p \in sessions \cup attempted
    BY DEF NoneLeftBehind, Manager!NoneLeftBehind, Manager!Again
  <2>1. PICK i \in 1 .. Len(Order) : Order[i] = p
    BY ManagerAssumption
  <2>2. i < index
    BY <1>1, ManagerAssumption
    DEF ManagerInv, Manager!ManagerConsistent, Manager!TypeOK, Manager!InRound
  <2> QED BY <1>1, <2>1, <2>2 DEF ManagerInv, PassedOver
<1> QED BY ManagerInitially, ManagerStepKeeps, <1>1, PTL DEF Manager!Spec
=============================================================================
