--------------------------- MODULE WorkspaceProofs ---------------------------
(***************************************************************************)
(* Proofs about the runtime of a workspace and about its file watcher, for *)
(* any number of providers, jobs and changes, and any size of the system's *)
(* buffer.                                                                 *)
(***************************************************************************)
EXTENDS WorkspaceRuntime, MCFileWatcher, TLAPS

-----------------------------------------------------------------------------
(* The watcher.                                                             *)

\* Only a thread that is posting has something to post, so that what a read
\* brings follows all that was posted.
WatcherInv == Watcher!WatcherConsistent /\ (worker # "post" => batch = {})

LEMMA WatcherInitial == Watcher!Init => WatcherInv
<1> SUFFICES ASSUME Watcher!Init PROVE WatcherInv
  OBVIOUS
<1>1. Watcher!TypeOK
  <2>1. /\ {} \subseteq 1 .. written /\ written = 0
        /\ buffer = {} /\ batch = {} /\ posted = {} /\ dropped = {}
    BY DEF Watcher!Init
  <2>2. main \in {"idle", "cancel", "join"} /\ worker = "none"
    BY DEF Watcher!Init
  <2>3. /\ exists \in BOOLEAN /\ running \in BOOLEAN
        /\ noting \in BOOLEAN /\ overflow \in BOOLEAN
        /\ starts = 0 /\ last = 0 /\ base = 0
    BY DEF Watcher!Init
  <2> QED
    BY <2>1, <2>2, <2>3 DEF Watcher!TypeOK
<1>2. Watcher!ThreadsHaveTheirWatcher /\ Watcher!InOrder /\ Watcher!NothingLost
  BY DEF Watcher!Init, Watcher!ThreadsHaveTheirWatcher, Watcher!InOrder,
       Watcher!NothingLost
<1> QED
  BY <1>1, <1>2 DEF Watcher!Init, WatcherInv, Watcher!WatcherConsistent

\* The main thread posts nothing and brings nothing to post.
LEMMA MainKeeps == WatcherInv /\ Watcher!MainNext => WatcherInv'
<1> USE DEF WatcherInv, Watcher!WatcherConsistent, Watcher!TypeOK,
     Watcher!ThreadsHaveTheirWatcher, Watcher!InOrder, Watcher!NothingLost
<1> SUFFICES ASSUME WatcherInv, Watcher!MainNext PROVE WatcherInv'
  OBVIOUS
<1>1. CASE Watcher!StartFileWatcher
  <2>1. buffer' = {} /\ batch' = {} /\ noting' = FALSE
    BY <1>1 DEF Watcher!StartFileWatcher
  <2>2. Watcher!TypeOK'
    <3>1. /\ {} \subseteq 1 .. written
          /\ UNCHANGED <<main, written, posted, dropped, last, base>>
          /\ overflow' = FALSE /\ exists' = TRUE /\ starts' \in Nat
      BY <1>1 DEF Watcher!StartFileWatcher
    <3>2. worker' \in {"loop", "none"} /\ running' \in BOOLEAN
      BY <1>1 DEF Watcher!StartFileWatcher
    <3> QED
      BY <2>1, <3>1, <3>2
  <2>3. Watcher!ThreadsHaveTheirWatcher'
    BY <1>1 DEF Watcher!StartFileWatcher
  <2>4. Watcher!InOrder'
    BY <1>1, <2>1 DEF Watcher!StartFileWatcher
  <2>5. Watcher!NothingLost'
    BY <2>1
  <2> QED
    BY <2>1, <2>2, <2>3, <2>4, <2>5
<1>2. CASE Watcher!StartFails
  <2>1. buffer' = {} /\ batch' = {} /\ noting' = FALSE
    BY <1>2 DEF Watcher!StartFails
  <2>2. Watcher!TypeOK'
    <3>1. /\ {} \subseteq 1 .. written
          /\ UNCHANGED <<main, written, posted, dropped, last, base>>
          /\ overflow' = FALSE /\ exists' = TRUE /\ starts' \in Nat
      BY <1>2 DEF Watcher!StartFails
    <3>2. worker' \in {"loop", "none"} /\ running' \in BOOLEAN
      BY <1>2 DEF Watcher!StartFails
    <3> QED
      BY <2>1, <3>1, <3>2
  <2>3. Watcher!ThreadsHaveTheirWatcher'
    BY <1>2 DEF Watcher!StartFails
  <2>4. Watcher!InOrder'
    BY <1>2, <2>1 DEF Watcher!StartFails
  <2>5. Watcher!NothingLost'
    BY <2>1
  <2> QED
    BY <2>1, <2>2, <2>3, <2>4, <2>5
<1>3. CASE Watcher!StopFileWatcher
  BY <1>3 DEF Watcher!StopFileWatcher, Watcher!system, Watcher!thread
<1>4. CASE Watcher!Cancel
  BY <1>4 DEF Watcher!Cancel, Watcher!system
<1>5. CASE Watcher!Join
  BY <1>5 DEF Watcher!Join, Watcher!Joined
<1> QED
  BY <1>1, <1>2, <1>3, <1>4, <1>5 DEF Watcher!MainNext

\* A change is posted after those before it.
LEMMA PublishKeeps ==
  ASSUME WatcherInv, NEW c \in batch, Watcher!Publish(c) PROVE WatcherInv'
<1> USE DEF WatcherInv, Watcher!WatcherConsistent, Watcher!Publish, Watcher!Remaining,
     Watcher!host, Watcher!system
<1>1. c \in Nat /\ c > last /\ c <= written /\ written \in Nat /\ last \in Nat
  BY DEF Watcher!TypeOK, Watcher!InOrder
<1>2. Watcher!TypeOK'
  BY <1>1 DEF Watcher!TypeOK
<1>3. Watcher!ThreadsHaveTheirWatcher'
  BY DEF Watcher!ThreadsHaveTheirWatcher
<1>4. Watcher!InOrder'
  <2>1. \A d \in batch' : d > last'
    BY <1>1 DEF Watcher!TypeOK
  <2>2. \A d \in buffer' : d > last'
    BY <1>1 DEF Watcher!TypeOK, Watcher!InOrder
  <2>3. \A d \in posted' : d <= last'
    BY <1>1 DEF Watcher!TypeOK, Watcher!InOrder
  <2>4. \A b \in batch', d \in buffer' : b < d
    BY DEF Watcher!InOrder
  <2> QED
    BY <2>1, <2>2, <2>3, <2>4 DEF Watcher!InOrder
<1>5. Watcher!NothingLost'
  BY DEF Watcher!NothingLost
<1> QED
  BY <1>2, <1>3, <1>4, <1>5

\* What a read brings is kept for posting, or the system has dropped it.
LEMMA WorkerKeeps == WatcherInv /\ Watcher!WorkerNext => WatcherInv'
<1> USE DEF WatcherInv, Watcher!WatcherConsistent, Watcher!TypeOK,
     Watcher!ThreadsHaveTheirWatcher, Watcher!InOrder, Watcher!NothingLost
<1> SUFFICES ASSUME WatcherInv, Watcher!WorkerNext PROVE WatcherInv'
  OBVIOUS
<1>1. CASE Watcher!Check
  BY <1>1 DEF Watcher!Check, Watcher!host, Watcher!system
<1>2. CASE Watcher!Issue
  BY <1>2 DEF Watcher!Issue, Watcher!host
<1>3. CASE Watcher!Leave
  BY <1>3 DEF Watcher!Leave, Watcher!host, Watcher!system
<1>4. CASE Watcher!Complete
  BY <1>4 DEF Watcher!Complete, Watcher!host
<1>5. CASE \E c \in batch : Watcher!Publish(c)
  BY <1>5, PublishKeeps
<1>6. CASE Watcher!PublishEnds
  BY <1>6 DEF Watcher!PublishEnds, Watcher!AfterBuffer, Watcher!host, Watcher!system
<1> QED
  BY <1>1, <1>2, <1>3, <1>4, <1>5, <1>6 DEF Watcher!WorkerNext

\* A new change comes after all others, and is noted or dropped.
LEMMA ChangeKeeps == WatcherInv /\ Watcher!Change => WatcherInv'
<1> SUFFICES ASSUME WatcherInv, Watcher!Change PROVE WatcherInv'
  OBVIOUS
<1> DEFINE fits == Watcher!Cardinality(buffer) < Capacity /\ ~overflow
<1> USE DEF WatcherInv, Watcher!WatcherConsistent, Watcher!host, Watcher!thread
<1>1. /\ written' = written + 1
      /\ buffer' = IF ~noting THEN buffer
                   ELSE IF fits THEN buffer \cup {written + 1} ELSE {}
      /\ overflow' = (overflow \/ (noting /\ ~fits))
      /\ dropped' = IF noting /\ ~fits
                      THEN dropped \cup buffer \cup {written + 1} ELSE dropped
      /\ UNCHANGED <<main, exists, starts, running, noting, base, worker, batch,
                     posted, last>>
  BY DEF Watcher!Change
<1>2. fits \in BOOLEAN
  OBVIOUS
<1> HIDE DEF fits
<1>3. Watcher!TypeOK'
  <2>1. written' \in Nat /\ written' = written + 1 /\ 1 .. written \subseteq 1 .. written'
    BY <1>1 DEF Watcher!TypeOK
  <2>2. written + 1 \in 1 .. written'
    BY <2>1 DEF Watcher!TypeOK
  <2>3. buffer' \subseteq 1 .. written' /\ dropped' \subseteq 1 .. written'
    BY <1>1, <2>1, <2>2 DEF Watcher!TypeOK
  <2>4. overflow' \in BOOLEAN
    BY <1>1, <1>2 DEF Watcher!TypeOK
  <2>5. batch' \subseteq 1 .. written' /\ posted' \subseteq 1 .. written'
    BY <1>1, <2>1 DEF Watcher!TypeOK
  <2>6. last' <= written' /\ base' <= written'
    BY <1>1, <2>1 DEF Watcher!TypeOK
  <2> QED
    BY <1>1, <2>1, <2>3, <2>4, <2>5, <2>6 DEF Watcher!TypeOK
<1>4. Watcher!ThreadsHaveTheirWatcher'
  BY <1>1 DEF Watcher!ThreadsHaveTheirWatcher
<1>5. Watcher!InOrder'
  BY <1>1 DEF Watcher!InOrder, Watcher!TypeOK
<1>6. Watcher!NothingLost'
  BY <1>1 DEF Watcher!NothingLost, Watcher!TypeOK
<1> QED
  BY <1>1, <1>3, <1>4, <1>5, <1>6

LEMMA WatcherKeeps == WatcherInv /\ [Watcher!Next]_(Watcher!vars) => WatcherInv'
<1> SUFFICES ASSUME WatcherInv, [Watcher!Next]_(Watcher!vars) PROVE WatcherInv'
  OBVIOUS
<1>1. CASE Watcher!ReadFails
  BY <1>1 DEF Watcher!ReadFails, WatcherInv, Watcher!WatcherConsistent, Watcher!TypeOK,
       Watcher!ThreadsHaveTheirWatcher, Watcher!InOrder,
     Watcher!NothingLost, Watcher!host, Watcher!system
<1>2. CASE UNCHANGED Watcher!vars
  BY <1>2 DEF Watcher!vars, Watcher!host, Watcher!system, Watcher!thread, WatcherInv,
       Watcher!WatcherConsistent, Watcher!TypeOK,
     Watcher!ThreadsHaveTheirWatcher, Watcher!InOrder, Watcher!NothingLost
<1> QED
  BY <1>1, <1>2, MainKeeps, WorkerKeeps, ChangeKeeps DEF Watcher!Next

(***************************************************************************)
(* However often the watcher is started and whatever its thread is doing   *)
(* when it is stopped, changes are posted in order, none that the system   *)
(* kept is lost, and none comes after StopFileWatcher (file_watcher.cpp).  *)
(***************************************************************************)
THEOREM WatcherStaysConsistent == Watcher!Spec => []WatcherConsistent
<1>1. WatcherInv => WatcherConsistent
  BY DEF WatcherInv, WatcherConsistent
<1> QED
  BY WatcherInitial, WatcherKeeps, <1>1, PTL DEF Watcher!Spec

-----------------------------------------------------------------------------
(* The runtime.                                                             *)

Current == capability = IF HasSnapshot THEN "Available" ELSE "Unavailable"

\* Somebody will make the main thread look at the snapshots again: a task in
\* its queue, a job that has stored and not announced yet, or the main thread
\* itself, which is on its way to UpdateCoreCapabilities.
ToBeUpdated ==
  \/ queue # <<>>
  \/ \E j \in Job : job[j] \in {"stored", "calling"}
  \/ step \in {"unloading", "loading", "update"}

\* What the capability says is true, is being written, or will be looked at
\* again.  The last needs the relays, which are connected as long as the
\* workspace is open.
RuntimeInv ==
  /\ life \in {"initializing", "initialized", "running"} => relayed
  /\ life \in {"initializing", "initialized", "running"} =>
       \/ ToBeUpdated
       \/ step = "idle" /\ Current
       \/ step = "setAvailable" /\ HasSnapshot
       \/ step = "setUnavailable" /\ ~HasSnapshot

LEMMA SubmitTyped ==
  ASSUME TypeOK, Submit
  PROVE  /\ job' \in [Job -> {"none", "queued", "done", "failed"} \cup Busy]
         /\ \A j \in Job : job[j] \in {"stored", "calling"} => job'[j] = job[j]
BY DEF TypeOK, Submit

LEMMA RuntimeTyped == TypeOK /\ [Next]_vars => TypeOK'
<1> SUFFICES ASSUME TypeOK, [Next]_vars PROVE TypeOK'
  OBVIOUS
<1> USE WorkspaceAssumption DEF TypeOK, host, files, index, jobs
<1>1. CASE UNCHANGED vars
  BY <1>1 DEF vars
<1>2. CASE Main
  <2>1. CASE Open
    BY <2>1 DEF Open
  <2>2. CASE InitializeWorkspace
    BY <2>2, SubmitTyped DEF InitializeWorkspace, RefreshProject, ConnectEventRelays
  <2>3. CASE ReadSnapshots
    BY <2>3 DEF ReadSnapshots
  <2>4. CASE SetCapability
    BY <2>4 DEF SetCapability
  <2>5. CASE FinishReload
    BY <2>5, SubmitTyped DEF FinishReload, RefreshProject
  <2>6. CASE HandleFileChange
    BY <2>6, SubmitTyped DEF HandleFileChange, RefreshProject
  <2>7. CASE HandleIndexChange
    BY <2>7 DEF HandleIndexChange
  <2>8. CASE FinishClose
    BY <2>8 DEF FinishClose, DisconnectEventRelays
  <2>9. CASE Destroy
    BY <2>9 DEF Destroy
  <2>10. CASE StartFileWatcher
    BY <2>10 DEF StartFileWatcher
  <2> QED
    BY <1>2, <2>1, <2>2, <2>3, <2>4, <2>5, <2>6, <2>7, <2>8, <2>9, <2>10 DEF Main
<1>3. CASE BeginClose
  BY <1>3 DEF BeginClose
<1>4. ASSUME NEW p \in Providers, RegisterProvider(p) PROVE TypeOK'
  BY <1>4 DEF RegisterProvider
<1>5. ASSUME NEW p \in Providers, RemoveProvider(p) PROVE TypeOK'
  BY <1>5 DEF RemoveProvider, Announced
<1>6. CASE ChangeFile
  <2>1. /\ tree' = tree + 1 /\ tree \in Nat /\ tree' \in Tree
        /\ 1 .. tree \subseteq 1 .. tree' /\ tree + 1 \in 1 .. tree'
    BY <1>6 DEF ChangeFile, Tree
  <2>2. pending' \subseteq 1 .. tree' /\ noticed' \in 0 .. tree'
    BY <1>6, <2>1 DEF ChangeFile
  <2> QED
    BY <1>6, <2>1, <2>2 DEF ChangeFile
<1>7. CASE NoticeChange
  <2>1. PICK c \in pending : noticed' = c /\ pending' = pending \ {c}
    BY <1>7 DEF NoticeChange
  <2>2. c \in 0 .. tree
    BY <2>1 DEF Tree
  <2> QED
    BY <1>7, <2>1, <2>2 DEF NoticeChange
<1>13. CASE LoseChanges
  BY <1>13 DEF LoseChanges
<1>8. ASSUME NEW j \in Job, TakeJob(j) PROVE TypeOK'
  BY <1>8 DEF TakeJob, Busy
<1>9. ASSUME NEW j \in Job, ProviderThrows(j) PROVE TypeOK'
  BY <1>9 DEF ProviderThrows, Released, Tree
<1>10. ASSUME NEW j \in Job, StoreSnapshots(j) PROVE TypeOK'
  BY <1>10 DEF StoreSnapshots, Released, Busy, Tree
<1>11. ASSUME NEW j \in Job, CopyListeners(j) PROVE TypeOK'
  BY <1>11 DEF CopyListeners, Busy
<1>12. ASSUME NEW j \in Job, CallRelay(j) PROVE TypeOK'
  BY <1>12 DEF CallRelay, Posted
<1> QED
  BY <1>1, <1>2, <1>3, <1>4, <1>5, <1>6, <1>7, <1>8, <1>9, <1>10, <1>11, <1>12, <1>13
  DEF Next, Refresh

LEMMA RuntimeKeeps == TypeOK /\ RuntimeInv /\ [Next]_vars => RuntimeInv'
<1> SUFFICES ASSUME TypeOK, RuntimeInv, [Next]_vars PROVE RuntimeInv'
  OBVIOUS
<1> USE DEF RuntimeInv, ToBeUpdated, Current, HasSnapshot, host, files, index, jobs
<1>1. CASE UNCHANGED vars
  BY <1>1 DEF vars
<1>2. CASE Main
  <2>1. CASE Open
    BY <2>1 DEF Open
  <2>2. CASE InitializeWorkspace
    BY <2>2 DEF InitializeWorkspace, RefreshProject, ConnectEventRelays
  <2>3. CASE ReadSnapshots
    BY <2>3 DEF ReadSnapshots
  <2>4. CASE SetCapability
    BY <2>4 DEF SetCapability
  <2>5. CASE FinishReload
    BY <2>5 DEF FinishReload, RefreshProject
  <2>6. CASE HandleFileChange
    BY <2>6 DEF HandleFileChange, RefreshProject
  <2>7. CASE HandleIndexChange
    BY <2>7 DEF HandleIndexChange
  <2>8. CASE FinishClose
    BY <2>8 DEF FinishClose
  <2>9. CASE Destroy
    BY <2>9 DEF Destroy
  <2>10. CASE StartFileWatcher
    BY <2>10 DEF StartFileWatcher
  <2> QED
    BY <1>2, <2>1, <2>2, <2>3, <2>4, <2>5, <2>6, <2>7, <2>8, <2>9, <2>10 DEF Main
<1>3. CASE BeginClose
  BY <1>3 DEF BeginClose
<1>4. ASSUME NEW p \in Providers, RegisterProvider(p) PROVE RuntimeInv'
  BY <1>4 DEF RegisterProvider
<1>5. ASSUME NEW p \in Providers, RemoveProvider(p) PROVE RuntimeInv'
  BY <1>5 DEF RemoveProvider
<1>6. CASE ChangeFile
  BY <1>6 DEF ChangeFile
<1>7. CASE NoticeChange
  <2>1. queue' # <<>> /\ UNCHANGED <<life, relayed>>
    BY <1>7 DEF NoticeChange, TypeOK
  <2> QED
    BY <2>1
<1>13. CASE LoseChanges
  BY <1>13 DEF LoseChanges
<1>8. ASSUME NEW j \in Job, TakeJob(j) PROVE RuntimeInv'
  BY <1>8 DEF TakeJob, TypeOK
<1>9. ASSUME NEW j \in Job, ProviderThrows(j) PROVE RuntimeInv'
  BY <1>9 DEF ProviderThrows, TypeOK
<1>10. ASSUME NEW j \in Job, StoreSnapshots(j) PROVE RuntimeInv'
  <2>1. job'[j] = "stored" /\ UNCHANGED <<life, relayed>>
    BY <1>10 DEF StoreSnapshots, TypeOK
  <2> QED
    BY <2>1
<1>11. ASSUME NEW j \in Job, CopyListeners(j) PROVE RuntimeInv'
  <2>1. job'[j] = IF relayed THEN "calling" ELSE "done"
    BY <1>11 DEF CopyListeners, TypeOK
  <2> QED
    BY <1>11, <2>1 DEF CopyListeners
<1>12. ASSUME NEW j \in Job, CallRelay(j) PROVE RuntimeInv'
  <2>1. queue' # <<>>
    BY <1>12 DEF CallRelay, Posted, TypeOK
  <2> QED
    BY <1>12, <2>1 DEF CallRelay
<1> QED
  BY <1>1, <1>2, <1>3, <1>4, <1>5, <1>6, <1>7, <1>8, <1>9, <1>10, <1>11, <1>12, <1>13
  DEF Next, Refresh

(***************************************************************************)
(* Whatever providers, refreshes, reloads and changes there are and however*)
(* they overlap: when the main thread is idle and nothing is on its way to *)
(* it, the capability "index.workspace" says what the index has            *)
(* (UpdateCoreCapabilities against Refresh and RemoveProvider).            *)
(***************************************************************************)
THEOREM RuntimeStaysConsistent == Spec => []RuntimeConsistent
<1>1. Init => TypeOK
  <2> SUFFICES ASSUME Init PROVE TypeOK
    OBVIOUS
  <2>1. /\ 0 \in Tree /\ 0 \in 0 .. tree /\ 0 \in 0 .. MaxReloads
        /\ tree = 0 /\ noticed = 0 /\ pending = {}
    BY WorkspaceAssumption DEF Init, Tree
  <2>2. /\ job \in [Job -> {"none", "queued", "done", "failed"} \cup Busy]
        /\ held \in [Job -> SUBSET Providers]
        /\ since \in [Job -> Tree]
    BY <2>1 DEF Init
  <2>3. queue \in Seq({"index", "file"})
    BY DEF Init
  <2>4. providers \subseteq Providers /\ snapshots \subseteq Providers
    BY WorkspaceAssumption DEF Init
  <2> QED
    BY <2>1, <2>2, <2>3, <2>4 DEF Init, TypeOK
<1>2. Init => RuntimeInv
  BY DEF Init, RuntimeInv
<1>3. TypeOK /\ RuntimeInv => RuntimeConsistent
  BY DEF RuntimeInv, ToBeUpdated, Current, RuntimeConsistent, CapabilityAgrees
<1> QED
  BY <1>1, <1>2, <1>3, RuntimeTyped, RuntimeKeeps, PTL DEF Spec
=============================================================================
