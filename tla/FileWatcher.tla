----------------------------- MODULE FileWatcher -----------------------------
(***************************************************************************)
(* WindowsFileWatcher (src/core/vfs/file_watcher.cpp) under the two        *)
(* operations of WorkspaceRuntime that use it, StartFileWatcher and        *)
(* StopFileWatcher.                                                        *)
(*                                                                         *)
(* The main thread starts and stops watchers.  Each has a thread that asks *)
(* the system for changes, waits without a deadline, and posts a task for  *)
(* each change; it ends when running_ is false, when the wait was cancelled*)
(* or when the directory cannot be read any more.                          *)
(*                                                                         *)
(* The system is external.  It notes changes for a handle from the first   *)
(* ReadDirectoryChangesW on, also between two reads, in a buffer; when the *)
(* buffer is full it drops what is in it and completes a read with no      *)
(* bytes.  Changes of the files are numbered; what they are is data.       *)
(***************************************************************************)
EXTENDS Integers, FiniteSets

CONSTANTS
  MaxChanges, \* bound: how often the files change
  MaxStarts,  \* bound: how often the watcher is started
  Capacity    \* changes the system's buffer holds

VARIABLES
  main,     \* where the main thread is
  exists,   \* file_watcher_
  starts,   \* how often one was started
  running,  \* running_
  worker,   \* where the watcher's thread is
  tree,     \* the number of changes made to the files
  noting,   \* the system notes changes for the handle
  buffer,   \* the changes it noted
  overflow, \* it dropped some
  batch,    \* the changes the thread has still to post
  posted,   \* the changes posted to the main thread
  last,     \* the one posted last
  base,     \* changes made before the system noted any for this handle
  dropped   \* those it dropped (history)

host == <<main, exists, starts>>
system == <<tree, noting, buffer, overflow, base, dropped>>
thread == <<worker, batch, posted, last>>
vars == <<host, running, system, thread>>

Init ==
  /\ main = "idle" /\ exists = FALSE /\ starts = 0 /\ running = FALSE
  /\ worker = "none" /\ tree = 0
  /\ noting = FALSE /\ buffer = {} /\ overflow = FALSE
  /\ batch = {} /\ posted = {} /\ last = 0
  /\ base = 0 /\ dropped = {}

-----------------------------------------------------------------------------
(* The main thread.                                                         *)

\* A new watcher replaces one that does not run any more, which is joined
\* when it is destroyed.  Its handle is open when Start returns.
StartFileWatcher ==
  /\ main = "idle" /\ ~running /\ starts < MaxStarts
  /\ worker \in {"none", "ended"}
  /\ exists' = TRUE /\ running' = TRUE /\ starts' = starts + 1
  /\ worker' = "loop"
  /\ noting' = FALSE /\ buffer' = {} /\ overflow' = FALSE
  /\ UNCHANGED <<main, tree, batch, posted, last, base, dropped>>

\* The directory cannot be opened: the new watcher has no thread.
StartFails ==
  /\ main = "idle" /\ ~running /\ starts < MaxStarts
  /\ worker \in {"none", "ended"}
  /\ exists' = TRUE /\ starts' = starts + 1
  /\ worker' = "none"
  /\ noting' = FALSE /\ buffer' = {} /\ overflow' = FALSE
  /\ UNCHANGED <<main, running, tree, batch, posted, last, base, dropped>>

\* running_.exchange(false); a watcher without a thread is only destroyed.
StopFileWatcher ==
  /\ main = "idle" /\ exists
  /\ running' = FALSE
  /\ IF ~running /\ worker = "none"
       THEN exists' = FALSE /\ UNCHANGED main
       ELSE main' = "cancel" /\ UNCHANGED exists
  /\ UNCHANGED <<starts, system, thread>>

\* CancelIoEx ends the read that is pending, if one is.
Cancel ==
  /\ main = "cancel"
  /\ main' = "join"
  /\ worker' = IF worker = "waiting" THEN "aborted" ELSE worker
  /\ UNCHANGED <<exists, starts, running, system, batch, posted, last>>

\* join, CloseDirectory and the destruction.  Mutant: the thread is detached.
Detached == TRUE
Joined == worker = "ended"
Join ==
  /\ main = "join" /\ Joined
  /\ main' = "idle" /\ exists' = FALSE
  /\ worker' = IF worker = "ended" THEN "none" ELSE worker
  /\ noting' = FALSE /\ buffer' = {} /\ overflow' = FALSE
  /\ UNCHANGED <<starts, running, tree, batch, posted, last, base, dropped>>

-----------------------------------------------------------------------------
(* The watcher's thread, WatchLoop.                                         *)

\* The loop's condition and what it does up to the call.
Check ==
  /\ worker = "loop" /\ running
  /\ worker' = "issue"
  /\ UNCHANGED <<host, running, system, batch, posted, last>>

\* ReadDirectoryChangesW begins.
Issue ==
  /\ worker = "issue"
  /\ worker' = "waiting"
  /\ noting' = TRUE
  /\ base' = IF noting THEN base ELSE tree
  /\ UNCHANGED <<host, running, tree, buffer, overflow, batch, posted, last, dropped>>

\* The end of the loop, when it is not running, when the call fails because the
\* directory is gone, and when the read was cancelled.
Leave ==
  /\ \/ worker = "loop" /\ ~running
     \/ worker \in {"issue", "aborted"}
  /\ worker' = "ended" /\ running' = FALSE
  /\ UNCHANGED <<host, system, batch, posted, last>>

\* The read is complete: GetOverlappedResult and the buffer of the thread.
Complete ==
  /\ worker = "waiting" /\ (buffer # {} \/ overflow)
  /\ worker' = "post"
  /\ batch' = IF overflow THEN {} ELSE buffer
  /\ dropped' = IF overflow THEN dropped \cup buffer ELSE dropped
  /\ buffer' = {} /\ overflow' = FALSE
  /\ UNCHANGED <<host, running, tree, noting, posted, last, base>>

\* PublishBuffer and its callback: a change is posted to the main thread.
Remaining(c) == batch \ {c}
Publish(c) ==
  /\ worker = "post" /\ c \in batch
  /\ \A d \in batch : c <= d
  /\ posted' = posted \cup {c} /\ last' = c
  /\ batch' = Remaining(c)
  /\ UNCHANGED <<host, running, system, worker>>

\* Mutant: the thread ends after the first buffer.
OnceOnly == "ended"
AfterBuffer == "loop"
PublishEnds ==
  /\ worker = "post" /\ batch = {}
  /\ worker' = AfterBuffer
  /\ UNCHANGED <<host, running, system, batch, posted, last>>

-----------------------------------------------------------------------------
(* Outside: the files change, and the system notes it while it can.         *)
Change ==
  /\ tree < MaxChanges
  /\ tree' = tree + 1
  /\ LET fits == Cardinality(buffer) < Capacity /\ ~overflow IN
       /\ buffer' = IF ~noting THEN buffer
                    ELSE IF fits THEN buffer \cup {tree + 1} ELSE {}
       /\ overflow' = (overflow \/ (noting /\ ~fits))
       /\ dropped' = IF noting /\ ~fits
                       THEN dropped \cup buffer \cup {tree + 1} ELSE dropped
  /\ UNCHANGED <<host, running, noting, base, thread>>

\* Outside: a read with nothing to report fails, as when the directory goes;
\* the thread looks at running_ again.
ReadFails ==
  /\ worker = "waiting" /\ buffer = {} /\ ~overflow
  /\ worker' = "loop"
  /\ UNCHANGED <<host, running, system, batch, posted, last>>

MainNext == StartFileWatcher \/ StartFails \/ StopFileWatcher \/ Cancel \/ Join
WorkerNext ==
  Check \/ Issue \/ Leave \/ Complete \/ (\E c \in batch : Publish(c)) \/ PublishEnds
Next == MainNext \/ WorkerNext \/ Change \/ ReadFails

Spec == Init /\ [][Next]_vars

\* Threads go on, and a read with something to report completes.  Nothing makes
\* the files change.
Fairness ==
  /\ WF_vars(Cancel) /\ WF_vars(Join)
  /\ WF_vars(WorkerNext)

FairSpec == Spec /\ Fairness

-----------------------------------------------------------------------------
TypeOK ==
  /\ main \in {"idle", "cancel", "join"}
  /\ worker \in {"none", "loop", "issue", "waiting", "aborted", "post", "ended"}
  /\ exists \in BOOLEAN /\ running \in BOOLEAN
  /\ noting \in BOOLEAN /\ overflow \in BOOLEAN
  /\ starts \in Nat /\ tree \in Nat /\ last \in Nat /\ base \in Nat
  /\ buffer \subseteq 1 .. tree /\ batch \subseteq 1 .. tree
  /\ posted \subseteq 1 .. tree /\ dropped \subseteq 1 .. tree
  /\ last <= tree /\ base <= tree

\* Who has a running watcher has its thread, and nobody else has one.
ThreadsHaveTheirWatcher ==
  /\ running => exists /\ main = "idle" /\ worker \notin {"none", "ended", "aborted"}
  /\ ~exists => worker = "none"

\* Changes are posted in the order in which they happened, each once.
InOrder ==
  /\ \A c \in batch \cup buffer : c > last
  /\ \A c \in batch, d \in buffer : c < d
  /\ \A c \in posted : c <= last

\* Since the first read every change is posted or will be, unless the system
\* dropped it.
NothingLost ==
  noting => \A c \in 1 .. tree :
    c > base => c \in posted \cup batch \cup buffer \cup dropped

(***************************************************************************)
(* The main thread hears of every change that the system noted, in order,  *)
(* and of none once StopFileWatcher has returned, whatever the thread was  *)
(* doing when it was called (file_watcher.cpp:423).                        *)
(***************************************************************************)
WatcherConsistent == TypeOK /\ ThreadsHaveTheirWatcher /\ InOrder /\ NothingLost

(***************************************************************************)
(* What the system noted is posted while the watcher runs; the thread never*)
(* sleeps on it or ends before it (file_watcher.cpp:465).                  *)
(***************************************************************************)
ChangesArrive ==
  \A c \in 1 .. MaxChanges :
    c \in buffer ~> c \in posted \cup dropped \/ ~running

(***************************************************************************)
(* The test of the watcher calls "watcher->Stop();" (vfs_tests.cpp:50) and *)
(* goes on: Stop returns.                                                  *)
(***************************************************************************)
StopReturns == main # "idle" ~> main = "idle"
=============================================================================
