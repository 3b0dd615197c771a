-------------------------- MODULE LanguageRequests --------------------------
(***************************************************************************)
(* One document, its language server and those who ask it: DocumentService,*)
(* DocumentLanguageSynchronizer, LanguageRequestPipeline, LspLanguageService*)
(* and LspClient.                                                          *)
(*                                                                         *)
(* The main thread opens, edits, saves and closes the document, starts and *)
(* stops the server, and queries it through the pipeline; workers ask it   *)
(* through the agent tool clice.findSymbol.  All share one pair of pipes   *)
(* under LspClient::mutex_, which a request holds until its answer or its  *)
(* deadline.  Texts are numbers.  The pipes are unbounded; the server is   *)
(* external: it takes messages in order, may answer late or never, and may *)
(* send what is no answer, but does not end by itself.                     *)
(*                                                                         *)
(* What the server sent is one queue: the first messages of it are in      *)
(* LspClient::read_buffer_ already, and of the next perhaps a part.  The   *)
(* buffer outlives the server, the rest of the queue does not.             *)
(***************************************************************************)
EXTENDS Integers, Sequences

CONSTANTS
  Workers,     \* threads that run the agent tool
  NoThread,    \* nobody
  MaxTexts,    \* bound: how many texts the document has had
  MaxOpens,    \* bound: how often it is opened
  MaxRequests, \* bound: how many requests are sent
  Numbers,     \* the numbers the server gives requests of its own
  MaxNotices,  \* bound: messages of the server that answer nothing
  MaxStarts    \* bound: how often the server is started

ASSUME LanguageAssumption ==
  /\ "main" \notin Workers /\ NoThread \notin Workers \cup {"main"}
  /\ MaxTexts \in Nat \ {0} /\ Numbers \subseteq Nat
  /\ {MaxOpens, MaxRequests, MaxNotices, MaxStarts} \subseteq Nat

Threads == Workers \cup {"main"}

VARIABLES
  text, version,  \* the document's text and version; 0 when it is not open
  disk,           \* the file's text
  texts,          \* how many texts there were
  opens,          \* how often the document was opened
  at,             \* where each thread is
  event,          \* the change the main thread announces, with its snapshot
  remembered,     \* what the caller of Query saw of the document
  id,             \* the request each thread waits for
  answer,         \* the body it got, or NoAnswer
  holder,         \* who holds LspClient::mutex_
  nextId,         \* next_request_id_
  running,        \* ChildProcess::Running
  starts,         \* how often the server was started
  toServer, toClient, \* what was sent and not taken yet
  read,           \* how many messages of toClient are in read_buffer_
  torn,           \* the part of the next one there: "none", "begun", or that of
                  \* an "orphan", whose rest went with its server
  notices,        \* messages sent that answer nothing
  known,          \* the server's text, 0 when the document is not open there
  told,           \* the document was opened while this server ran (history)
  outdated,       \* a good answer was for an earlier text than the document's
                  \* since it was last opened (history)
  confused        \* a good answer was for a text the caller had not seen (history)

document == <<text, version, disk, texts, opens>>
calls == <<at, event, remembered, id, answer>>
client == <<holder, nextId, running, starts>>
incoming == <<toClient, read, torn>>
pipes == <<toServer, incoming>>
server == <<notices, known>>
history == <<told, outdated, confused>>
vars == <<document, calls, client, pipes, server, history>>

Body(kind, n, t) == [kind |-> kind, id |-> n, text |-> t]
NoAnswer == Body("notice", 0, 0)
Garbage == Body("garbage", 0, 0)
NoEvent == [kind |-> "none", text |-> 0]
Unseen == [version |-> 0, text |-> 0, opens |-> 0]
Message(kind, n) == [kind |-> kind, value |-> n]

Init ==
  /\ text = 0 /\ version = 0 /\ disk = 1 /\ texts = 1 /\ opens = 0
  /\ at = [t \in Threads |-> "idle"]
  /\ event = NoEvent /\ remembered = Unseen
  /\ id = [t \in Threads |-> 0] /\ answer = [t \in Threads |-> NoAnswer]
  /\ holder = NoThread /\ nextId = 1 /\ running = FALSE /\ starts = 0
  /\ toServer = <<>> /\ toClient = <<>> /\ read = 0 /\ torn = "none"
  /\ notices = 0 /\ known = 0
  /\ told = FALSE /\ outdated = FALSE /\ confused = FALSE

Goes(t, from, to) == at[t] = from /\ at' = [at EXCEPT ![t] = to]
IsOpen == version # 0

-----------------------------------------------------------------------------
(* The document.  Every change is announced by the same thread before the   *)
(* operation returns.                                                       *)

OpenDocument ==
  /\ ~IsOpen /\ opens < MaxOpens
  /\ Goes("main", "idle", "changed")
  /\ text' = disk /\ version' = 1 /\ opens' = opens + 1
  /\ event' = [NoEvent EXCEPT !.kind = "open"]
  /\ told' = running
  /\ UNCHANGED <<disk, texts, remembered, id, answer, client, pipes, server,
                 outdated, confused>>

SetText ==
  /\ IsOpen /\ texts < MaxTexts
  /\ Goes("main", "idle", "changed")
  /\ text' = texts + 1 /\ texts' = texts + 1 /\ version' = version + 1
  /\ event' = [NoEvent EXCEPT !.kind = "change"]
  /\ UNCHANGED <<disk, opens, remembered, id, answer, client, pipes, server,
                 history>>

\* Bound: the file is not written again with the text it has.
WorthSaving == disk # text
SaveDocument ==
  /\ IsOpen /\ WorthSaving
  /\ Goes("main", "idle", "changed")
  /\ disk' = text
  /\ event' = [NoEvent EXCEPT !.kind = "save"]
  /\ UNCHANGED <<text, version, texts, opens, remembered, id, answer, client,
                 pipes, server, history>>

\* The document goes after its closing was announced.
CloseDocument ==
  /\ IsOpen
  /\ Goes("main", "idle", "announce")
  /\ event' = [NoEvent EXCEPT !.kind = "close"]
  /\ UNCHANGED <<document, remembered, id, answer, client, pipes, server, history>>

\* HandleChange of all but a closing: the snapshot is what is announced.
TakeSnapshot ==
  /\ Goes("main", "changed", "announce")
  /\ event' = [event EXCEPT !.text = text]
  /\ UNCHANGED <<document, remembered, id, answer, client, pipes, server, history>>

\* Notify: once nobody waits for an answer the message is written; with no
\* server it is lost.
Notify ==
  /\ holder = NoThread
  /\ Goes("main", "announce", "idle")
  /\ toServer' = IF running
                   THEN Append(toServer, Message(event.kind, event.text))
                   ELSE toServer
  /\ event' = NoEvent
  /\ IF event.kind = "close"
       THEN /\ text' = 0 /\ version' = 0 /\ told' = FALSE
            /\ UNCHANGED <<disk, texts, opens>>
       ELSE UNCHANGED <<document, told>>
  /\ UNCHANGED <<remembered, id, answer, client, incoming, server, outdated, confused>>

-----------------------------------------------------------------------------
(* Requests.                                                                *)

\* The caller of Query notes the document's version.
Remember ==
  /\ at["main"] = "idle" /\ IsOpen
  /\ remembered' = [version |-> version, text |-> text, opens |-> opens]
  /\ remembered' # remembered
  /\ UNCHANGED <<document, at, event, id, answer, client, pipes, server, history>>

\* Execute: a document with another version is not asked about.
Execute ==
  /\ at["main"] = "idle" /\ remembered # Unseen /\ nextId <= MaxRequests
  /\ IF IsOpen /\ version # remembered.version
       THEN remembered' = Unseen /\ UNCHANGED at
       ELSE at' = [at EXCEPT !["main"] = "send"] /\ UNCHANGED remembered
  /\ UNCHANGED <<document, event, id, answer, client, pipes, server, history>>

\* The tool's handler calls the language service itself.
CallTool(t) ==
  /\ nextId <= MaxRequests
  /\ Goes(t, "idle", "send")
  /\ UNCHANGED <<document, event, remembered, id, answer, client, pipes, server,
                 history>>

\* SendRequest until the request is written; without a server it has failed.
Send(t) ==
  /\ holder = NoThread
  /\ id' = [id EXCEPT ![t] = nextId] /\ nextId' = nextId + 1
  /\ answer' = [answer EXCEPT ![t] = NoAnswer]
  /\ IF running
       THEN /\ Goes(t, "send", "wait")
            /\ holder' = t
            /\ toServer' = Append(toServer, Message("ask", nextId))
       ELSE Goes(t, "send", "answered") /\ UNCHANGED <<holder, toServer>>
  /\ UNCHANGED <<document, event, remembered, running, starts, incoming, server,
                 history>>

\* ReadStdoutAvailable: the next message comes into the buffer, whole or in
\* part.  Behind the part of a lost one the length it announced counts: its body
\* ends within the new message or swallows it, unless only the beginning of a
\* header was there.  Bound: in part only from a server another may follow.
ReadStdout(t) ==
  /\ at[t] = "wait" /\ read < Len(toClient)
  /\ \/ /\ torn = "none" /\ torn' = "begun" /\ starts < MaxStarts
        /\ UNCHANGED <<toClient, read>>
     \/ torn' = "none" /\ read' = read + 1 /\ UNCHANGED toClient
     \/ /\ torn = "orphan" /\ read' = read + 1
        /\ \/ torn' = "none" /\ toClient' = [toClient EXCEPT ![read + 1] = Garbage]
           \/ torn' = torn /\ toClient' = [toClient EXCEPT ![read + 1] = NoAnswer]
  /\ UNCHANGED <<document, calls, client, toServer, server, history>>

\* WaitForResponseBody: any message with the number of the request will do, a
\* request of the server too, and what cannot be parsed is taken for the answer;
\* the others are filed as notifications.  Mutant: every answer will do.
IsAnybodysAnswer(t, body) == body.kind = "garbage" \/ body.id # 0
IsAnswer(t, body) == body.kind = "garbage" \/ body.id = id[t]
ReadMessage(t) ==
  /\ at[t] = "wait" /\ read > 0
  /\ toClient' = Tail(toClient) /\ read' = read - 1
  /\ IF IsAnswer(t, Head(toClient))
       THEN /\ answer' = [answer EXCEPT ![t] = Head(toClient)]
            /\ Goes(t, "wait", "answered")
            /\ holder' = NoThread
       ELSE UNCHANGED <<at, answer, holder>>
  /\ UNCHANGED <<document, event, remembered, id, nextId, running, starts, toServer,
                 torn, server, history>>

\* The deadline, once all messages that were read are parsed; or the length in
\* the header of an orphan is not a number, and std::stoul throws.  Mutant: a
\* request whose server runs waits on.
Patient(t) == ~running
Deadline(t) == read = 0 \/ torn = "orphan"
GiveUp(t) ==
  /\ Deadline(t)
  /\ Goes(t, "wait", "answered")
  /\ holder' = NoThread
  /\ UNCHANGED <<document, event, remembered, id, answer, nextId, running, starts,
                 pipes, server, history>>

\* What the tool and Start get is returned as it is.
Return(t) ==
  /\ t = "main" => remembered = Unseen
  /\ Goes(t, "answered", "idle")
  /\ answer' = [answer EXCEPT ![t] = NoAnswer] /\ id' = [id EXCEPT ![t] = 0]
  /\ UNCHANGED <<document, event, remembered, client, pipes, server, history>>

\* The end of Execute: the answer is good if the version is what it was.
Stale == IsOpen /\ version # remembered.version
Judge ==
  /\ remembered # Unseen
  /\ Goes("main", "answered", "idle")
  /\ LET good == answer["main"] # NoAnswer /\ IsOpen /\ ~Stale
         other == remembered.text # text
     IN /\ outdated' = \/ outdated
                       \/ /\ good /\ told
                          /\ answer["main"].kind = "answer" /\ answer["main"].text # text
                       \/ good /\ other /\ remembered.opens = opens
        /\ confused' = (confused \/ (good /\ other))
  /\ remembered' = Unseen
  /\ answer' = [answer EXCEPT !["main"] = NoAnswer] /\ id' = [id EXCEPT !["main"] = 0]
  /\ UNCHANGED <<document, event, client, pipes, server, told>>

-----------------------------------------------------------------------------
(* The server.                                                              *)

\* With the process go the pipes.  What was read of them stays.
EndPipes ==
  /\ toServer' = <<>> /\ toClient' = SubSeq(toClient, 1, read) /\ read' = read
  /\ torn' = IF torn = "none" THEN "none" ELSE "orphan"

\* Start ends a server that runs, and Initialize sends the first request.
Start ==
  /\ starts < MaxStarts /\ nextId <= MaxRequests
  /\ Goes("main", "idle", "send")
  /\ running' = TRUE /\ starts' = starts + 1
  /\ EndPipes /\ known' = 0 /\ told' = FALSE
  /\ remembered' = Unseen
  /\ UNCHANGED <<document, event, id, answer, holder, nextId, notices, outdated,
                 confused>>

Stop ==
  /\ at["main"] = "idle" /\ running
  /\ running' = FALSE
  /\ EndPipes /\ known' = 0 /\ told' = FALSE
  /\ UNCHANGED <<document, calls, holder, nextId, starts, notices, outdated, confused>>

\* Outside: the server takes a message, and answers if it is asked, or does not.
Serve ==
  /\ running /\ toServer # <<>>
  /\ toServer' = Tail(toServer)
  /\ LET m == Head(toServer) IN
       /\ known' = CASE m.kind = "open" -> m.value
                     [] m.kind = "change" /\ known # 0 -> m.value
                     [] m.kind = "close" -> 0
                     [] OTHER -> known
       /\ \/ m.kind = "ask" /\ toClient' = Append(toClient, Body("answer", m.value, known))
          \/ UNCHANGED toClient
  /\ UNCHANGED <<document, calls, client, read, torn, notices, history>>

\* Outside: it sends a notification, a request with a number of its own, or what
\* is no message.
Unasked == {NoAnswer, Garbage} \cup {Body("request", n, 0) : n \in Numbers}
Publish ==
  /\ running /\ notices < MaxNotices
  /\ notices' = notices + 1
  /\ \E body \in Unasked : toClient' = Append(toClient, body)
  /\ UNCHANGED <<document, calls, client, toServer, read, torn, known, history>>

Next ==
  \/ OpenDocument \/ SetText \/ SaveDocument \/ CloseDocument
  \/ TakeSnapshot \/ Notify
  \/ Remember \/ Execute \/ Judge \/ Start \/ Stop
  \/ \E t \in Workers : CallTool(t)
  \/ \E t \in Threads : Send(t) \/ ReadStdout(t) \/ ReadMessage(t) \/ GiveUp(t) \/ Return(t)
  \/ Serve \/ Publish

Spec == Init /\ [][Next]_vars

\* Threads go on, and time passes for one that waits.  Nothing is asked of the
\* server.
Fairness ==
  /\ WF_vars(TakeSnapshot \/ Notify \/ Judge)
  /\ \A t \in Threads : /\ WF_vars(Send(t) \/ Return(t))
                       /\ WF_vars(ReadMessage(t) \/ GiveUp(t))

FairSpec == Spec /\ Fairness

-----------------------------------------------------------------------------
Kinds == {"open", "change", "save", "close"}
ToServer == [kind : Kinds \cup {"ask"}, value : Nat]
ToClient == [kind : {"answer", "notice", "request", "garbage"}, id : Nat,
             text : 0 .. MaxTexts]

TypeOK ==
  /\ text \in 0 .. MaxTexts /\ version \in 0 .. MaxTexts
  /\ disk \in 1 .. MaxTexts /\ texts \in 1 .. MaxTexts
  /\ opens \in 0 .. MaxOpens
  /\ at \in [Threads -> {"idle", "changed", "announce", "send", "wait", "answered"}]
  /\ event \in [kind : Kinds \cup {"none"}, text : 0 .. MaxTexts]
  /\ remembered \in [version : 0 .. MaxTexts, text : 0 .. MaxTexts,
                     opens : 0 .. MaxOpens]
  /\ id \in [Threads -> Nat]
  /\ answer \in [Threads -> ToClient]
  /\ holder \in Threads \cup {NoThread}
  /\ nextId \in Nat /\ starts \in 0 .. MaxStarts /\ notices \in 0 .. MaxNotices
  /\ toServer \in Seq(ToServer) /\ toClient \in Seq(ToClient)
  /\ read \in 0 .. Len(toClient) /\ torn \in {"none", "begun", "orphan"}
  /\ known \in 0 .. MaxTexts
  /\ {running, told, outdated, confused} \subseteq BOOLEAN

(***************************************************************************)
(* An answer of the server only goes to the request it answers, though     *)
(* requests before it were given up and are answered later, and though     *)
(* what was read of an ended server is still parsed (lsp_client.cpp:139);  *)
(* a request waits for it with the mutex, alone.  Of bodies that answer    *)
(* nothing this says nothing: the code takes those that cannot be parsed,  *)
(* and requests of the server that have the number (lsp_client.cpp:146).   *)
(***************************************************************************)
AnswersFitRequests ==
  \A t \in Threads :
    /\ answer[t].kind = "answer" => answer[t].id = id[t]
    /\ at[t] = "wait" <=> holder = t

\* Something is on its way to the server.
Announcing == at["main"] \in {"changed", "announce"} \/ toServer # <<>>

(***************************************************************************)
(* A server that ran when the document was opened has the document's text  *)
(* once it has read what it was sent (document_language_sync.cpp:29), so   *)
(* that an answer of the server which the pipeline calls good is one for   *)
(* the text the document has, unless it was closed and opened again since  *)
(* the version was read.                                                   *)
(***************************************************************************)
ServerFollows ==
  /\ told /\ running /\ ~Announcing => known = text
  /\ ~outdated

\* What the runs check of every state.
LanguageConsistent == TypeOK /\ AnswersFitRequests /\ ServerFollows

(***************************************************************************)
(* A server that reads what it is sent, answers nothing and does not send  *)
(* for ever holds nobody up: every change is announced and every request   *)
(* returns (lsp_client.cpp:140).                                           *)
(***************************************************************************)
CallsReturn == \A t \in Threads : at[t] # "idle" ~> at[t] = "idle"

(***************************************************************************)
(* A test asks for a document's earlier version and demands:               *)
(* "REQUIRE(stale.stale);" (language_tests.cpp:37).  An answer that is not *)
(* stale is for the text of which the caller gave the version.             *)
(***************************************************************************)
StaleIsNoticed == ~confused

(***************************************************************************)
(* LanguageService is the contract for "document lifecycle events"         *)
(* (services.md:75): a running server knows the open document.             *)
(***************************************************************************)
OpenDocumentsAreKnown == running /\ IsOpen /\ ~Announcing => known = text

(***************************************************************************)
(* LspClient returns the response to its request (lsp_client.cpp:93): what *)
(* a caller gets is never garbage nor a request of the server.             *)
(***************************************************************************)
OnlyAnswersReturn == \A t \in Threads : answer[t] # NoAnswer => answer[t].kind = "answer"
=============================================================================
