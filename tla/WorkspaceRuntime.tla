--------------------------- MODULE WorkspaceRuntime ---------------------------
(***************************************************************************)
(* One WorkspaceRuntime from its construction to its destruction, with the *)
(* IndexService inside it (src/core/workspace/workspace_runtime.cpp and    *)
(* index_service.cpp) and the host that drains the main queue and shuts it *)
(* down (src/ide/ide_application.cpp, src/cli/main.cpp).                   *)
(*                                                                         *)
(* Three kinds of threads meet here.  The main thread opens, refreshes and *)
(* closes the workspace, loads and unloads providers, and runs what was    *)
(* posted to it.  Workers run refresh jobs, which copy the providers, read *)
(* the files with no lock held, store what they found, and announce it.    *)
(* The file watcher, where the platform has one, posts a task from its     *)
(* thread for each change it sees (module FileWatcher).                    *)
(*                                                                         *)
(* The state of the files is the number of changes made to them; a refresh *)
(* has seen at least those made before it copied the providers.  The       *)
(* statuses of jobs are in JobService: a refresh does not ask for them.    *)
(* Where the runtime is destroyed the model ends: a task that runs         *)
(* afterwards uses freed memory.                                           *)
(***************************************************************************)
EXTENDS Integers, Sequences, FiniteSets

CONSTANTS
  Providers,   \* identifiers of index providers
  BuiltIn,     \* those the runtime registers itself
  Workers,     \* bound: how many refreshes the pool runs at once
  MaxChanges,  \* bound: how often a file changes
  MaxReloads   \* bound: how often plugins are reloaded

ASSUME WorkspaceAssumption ==
  /\ BuiltIn \subseteq Providers
  /\ Workers \in Nat \ {0}
  /\ MaxChanges \in Nat
  /\ MaxReloads \in Nat

VARIABLES
  life,        \* how far the runtime has come
  step,        \* what the main thread is in the middle of
  relayed,     \* whether the event relays are connected
  watching,    \* whether the file watcher runs
  tree,        \* the state of the files
  pending,     \* changes the system noted for the watcher, not reported yet
  noticed,     \* the change the watcher reported last
  reloads,     \* how often plugins were reloaded
  providers,   \* IndexService::providers_
  snapshots,   \* the keys of IndexService::snapshots_
  capability,  \* the status of index.workspace
  queue,       \* the tasks posted to the main thread
  job,         \* where each refresh job is
  held,        \* the providers the job copied
  since,       \* the state of the files when it did
  newest       \* the newest state of the files stored as a snapshot (history)

host == <<life, step, relayed, reloads, capability>>
files == <<watching, tree, pending, noticed>>
index == <<providers, snapshots, newest>>
jobs == <<job, held, since>>
vars == <<host, files, index, jobs, queue>>

\* A refresh follows the opening, a change and a reload, and nothing else.
Job == 1 .. 1 + MaxChanges + MaxReloads
Tree == 0 .. MaxChanges
None == -1
Busy == {"reading", "stored", "calling"}

Init ==
  /\ life = "constructed" /\ step = "idle"
  /\ relayed = FALSE /\ watching = FALSE
  /\ tree = 0 /\ pending = {} /\ noticed = 0 /\ reloads = 0
  /\ providers = BuiltIn
  /\ snapshots = {}
  /\ capability = "None"
  /\ queue = <<>>
  /\ job = [j \in Job |-> "none"]
  /\ held = [j \in Job |-> {}]
  /\ since = [j \in Job |-> 0]
  /\ newest = None

-----------------------------------------------------------------------------
(* The main thread.                                                         *)

HasSnapshot == snapshots # {}

ConnectEventRelays == relayed' = TRUE
DisconnectEventRelays == relayed' = FALSE

\* Submit, as RefreshIndexes calls it.  The pool takes jobs in this order.
Submit ==
  \E j \in Job :
    /\ job[j] = "none" /\ \A i \in Job : i < j => job[i] # "none"
    /\ job' = [job EXCEPT ![j] = "queued"]

\* RefreshProject, up to and with its call of RefreshIndexes; what is left of
\* it, UpdateCoreCapabilities and the event, follows in the next two steps.
RefreshProject == Submit /\ step' = "update"

\* UpdateCoreCapabilities reads the snapshots under their lock and sets the
\* capability after it was released.
ReadSnapshots ==
  /\ step = "update"
  /\ step' = IF HasSnapshot THEN "setAvailable" ELSE "setUnavailable"
  /\ UNCHANGED <<life, relayed, reloads, capability, files, index, jobs, queue>>

SetCapability ==
  /\ step \in {"setAvailable", "setUnavailable"}
  /\ capability' = IF step = "setAvailable" THEN "Available" ELSE "Unavailable"
  /\ step' = "idle"
  /\ life' = IF life = "initializing" THEN "initialized" ELSE life
  /\ UNCHANGED <<relayed, reloads, files, index, jobs, queue>>

\* WorkspaceRuntime::Open, with initialize false as both hosts call it.
Open ==
  /\ life = "constructed"
  /\ life' = "open"
  /\ capability' = "None"
  /\ snapshots' = {}
  /\ UNCHANGED <<step, relayed, reloads, files, providers, newest, jobs, queue>>

\* IndexService::RegisterProvider, which announces nothing: a plugin that is
\* activated, before the workspace is initialized or after a reload took the
\* old ones away.
RegisterProvider(p) ==
  /\ life = "open" \/ step \in {"unloading", "loading"}
  /\ p \notin providers
  /\ providers' = providers \cup {p}
  /\ step' = IF life = "open" THEN step ELSE "loading"
  /\ UNCHANGED <<life, relayed, reloads, capability, files, snapshots, newest,
                 jobs, queue>>

\* InitializeWorkspace, which ends with the update of the capability.
InitializeWorkspace ==
  /\ life = "open"
  /\ life' = "initializing"
  /\ ConnectEventRelays
  /\ RefreshProject
  /\ UNCHANGED <<reloads, capability, files, index, held, since, queue>>

\* StartFileWatcher, the last step of opening.  It fails where the platform has
\* no watcher or the directory cannot be watched, which the host only logs.
\* Changes made until then are noted by nobody.
StartFileWatcher ==
  /\ life = "initialized" /\ step = "idle"
  /\ life' = "running"
  /\ watching' \in BOOLEAN
  /\ UNCHANGED <<step, relayed, reloads, capability, tree, pending, noticed, index,
                 jobs, queue>>

\* IndexService::Publish on the main thread: the relay posts its task.
Announced == IF relayed THEN Append(queue, "index") ELSE queue

\* IndexService::RemoveProvider, when a reload unregisters the providers of
\* the plugins.
RemoveProvider(p) ==
  /\ life = "running"
  /\ \/ step = "idle" /\ reloads < MaxReloads /\ reloads' = reloads + 1
     \/ step = "unloading" /\ UNCHANGED reloads
  /\ p \in providers \ BuiltIn
  /\ providers' = providers \ {p}
  /\ snapshots' = snapshots \ {p}
  /\ queue' = Announced
  /\ step' = "unloading"
  /\ UNCHANGED <<life, relayed, capability, files, newest, jobs>>

\* ReloadPlugins ends with RefreshProject.
FinishReload ==
  /\ step \in {"unloading", "loading"}
  /\ RefreshProject
  /\ UNCHANGED <<life, relayed, reloads, capability, files, index, held, since,
                 queue>>

\* HandleFileChange.  Mutant: the change is published and nothing refreshed.
HandleFileChangeOnly ==
  /\ life = "running" /\ step = "idle" /\ queue # <<>> /\ Head(queue) = "file"
  /\ queue' = Tail(queue)
  /\ UNCHANGED <<host, files, index, jobs>>
HandleFileChange ==
  /\ life = "running" /\ step = "idle" /\ queue # <<>> /\ Head(queue) = "file"
  /\ queue' = Tail(queue)
  /\ RefreshProject
  /\ UNCHANGED <<life, relayed, reloads, capability, files, index, held, since>>

\* The task of the index relay.
HandleIndexChange ==
  /\ life = "running" /\ step = "idle" /\ queue # <<>> /\ Head(queue) = "index"
  /\ queue' = Tail(queue)
  /\ step' = "update"
  /\ UNCHANGED <<life, relayed, reloads, capability, files, index, jobs>>

\* Close, up to the two waits for active jobs.  Each wait may run into its
\* time limit, so that nothing is known of the jobs when it returns.
BeginClose ==
  /\ life = "running" /\ step = "idle"
  /\ life' = "closing"
  /\ watching' = FALSE /\ pending' = {}
  /\ UNCHANGED <<step, relayed, reloads, capability, tree, noticed, index, jobs,
                 queue>>

\* The relays go before the snapshots are cleared: nobody hears of that.
FinishClose ==
  /\ life = "closing"
  /\ life' = "closed"
  /\ DisconnectEventRelays
  /\ snapshots' = {}
  /\ capability' = "None"
  /\ UNCHANGED <<step, reloads, files, providers, newest, jobs, queue>>

\* Shutdown of the host: DeactivateAll, runtime_.reset().
Destroy ==
  /\ life = "closed"
  /\ life' = "destroyed"
  /\ providers' = {}
  /\ UNCHANGED <<step, relayed, reloads, capability, files, snapshots, newest,
                 jobs, queue>>

Main ==
  \/ Open \/ InitializeWorkspace \/ ReadSnapshots \/ SetCapability \/ StartFileWatcher
  \/ FinishReload \/ HandleFileChange \/ HandleIndexChange
  \/ FinishClose \/ Destroy

-----------------------------------------------------------------------------
(* The files and their watcher.                                             *)

\* A change is noted if a watcher runs.
ChangeFile ==
  /\ life \notin {"closing", "closed", "destroyed"} /\ tree < MaxChanges
  /\ tree' = tree + 1
  /\ pending' = IF watching THEN pending \cup {tree + 1} ELSE pending
  /\ UNCHANGED <<host, watching, noticed, index, jobs, queue>>

\* The watcher's callback posts to the main thread, one change after the other.
NoticeChange ==
  /\ watching
  /\ \E c \in pending :
       /\ \A d \in pending : c <= d
       /\ noticed' = c /\ pending' = pending \ {c}
  /\ queue' = Append(queue, "file")
  /\ UNCHANGED <<host, watching, tree, index, jobs>>

\* The watcher's thread has not come to its first read, the system's buffer
\* overflows, or the directory cannot be read any more and the thread ends, after
\* which nobody starts another.
LoseChanges ==
  /\ watching
  /\ watching' \in BOOLEAN
  /\ pending' = {}
  /\ UNCHANGED <<host, tree, noticed, index, jobs, queue>>

-----------------------------------------------------------------------------
(* A refresh job on a worker (IndexService::Refresh).                       *)

Alive == life # "destroyed"

\* A worker takes the job; its function begins by copying the providers.
TakeJob(j) ==
  /\ Alive /\ job[j] = "queued" /\ \A i \in Job : i < j => job[i] # "queued"
  /\ Cardinality({i \in Job : job[i] \in Busy}) < Workers
  /\ job' = [job EXCEPT ![j] = "reading"]
  /\ held' = [held EXCEPT ![j] = providers]
  /\ since' = [since EXCEPT ![j] = tree]
  /\ UNCHANGED <<host, files, index, queue>>

\* What a job leaves behind when its locals are gone.
Released(j) ==
  /\ held' = [held EXCEPT ![j] = {}]
  /\ since' = [since EXCEPT ![j] = 0]

\* provider->Refresh throws, which ends the job: nothing of it is stored.
ProviderThrows(j) ==
  /\ Alive /\ job[j] = "reading" /\ held[j] \ BuiltIn # {}
  /\ job' = [job EXCEPT ![j] = "failed"]
  /\ Released(j)
  /\ UNCHANGED <<host, files, index, queue>>

\* Every provider has read the files, with no lock held; the results are
\* stored, also of those that were removed meanwhile.
StoreSnapshots(j) ==
  /\ Alive /\ job[j] = "reading"
  /\ snapshots' = snapshots \cup held[j]
  /\ newest' = IF since[j] > newest THEN since[j] ELSE newest
  /\ job' = [job EXCEPT ![j] = "stored"]
  /\ Released(j)
  /\ UNCHANGED <<host, files, providers, queue>>

\* Publish copies the listeners and calls them after the unlock: the relay
\* may be disconnected, and its runtime destroyed, in between.
CopyListeners(j) ==
  /\ Alive /\ job[j] = "stored"
  /\ job' = [job EXCEPT ![j] = IF relayed THEN "calling" ELSE "done"]
  /\ UNCHANGED <<host, files, index, held, since, queue>>

\* The relay's listener.  Mutant: it ignores what happens before the
\* workspace is initialized.
PostedWhenRunning == IF life = "running" THEN Append(queue, "index") ELSE queue
Posted == Append(queue, "index")
CallRelay(j) ==
  /\ Alive /\ job[j] = "calling"
  /\ queue' = Posted
  /\ job' = [job EXCEPT ![j] = "done"]
  /\ UNCHANGED <<host, files, index, held, since>>

Refresh(j) ==
  \/ TakeJob(j) \/ StoreSnapshots(j) \/ CopyListeners(j) \/ CallRelay(j)

Next ==
  \/ Main \/ BeginClose
  \/ \E p \in Providers : RegisterProvider(p) \/ RemoveProvider(p)
  \/ ChangeFile \/ NoticeChange \/ LoseChanges
  \/ \E j \in Job : Refresh(j) \/ ProviderThrows(j)

\* The host drains the main queue for ever, the pool runs its jobs and a
\* watcher that runs reports.  Nothing forces a change, a reload or the end.
Fairness ==
  /\ WF_vars(Main) /\ WF_vars(NoticeChange)
  /\ \A j \in Job : WF_vars(Refresh(j))

Spec == Init /\ [][Next]_vars /\ Fairness

-----------------------------------------------------------------------------
TypeOK ==
  /\ life \in {"constructed", "open", "initializing", "initialized", "running",
              "closing", "closed", "destroyed"}
  /\ step \in {"idle", "unloading", "loading", "update", "setAvailable",
              "setUnavailable"}
  /\ relayed \in BOOLEAN /\ watching \in BOOLEAN
  /\ tree \in Tree /\ noticed \in 0 .. tree /\ pending \subseteq 1 .. tree
  /\ reloads \in 0 .. MaxReloads
  /\ providers \subseteq Providers
  /\ snapshots \subseteq Providers
  /\ capability \in {"None", "Available", "Unavailable"}
  /\ queue \in Seq({"index", "file"})
  /\ job \in [Job -> {"none", "queued", "done", "failed"} \cup Busy]
  /\ held \in [Job -> SUBSET Providers]
  /\ since \in [Job -> Tree]
  /\ newest \in Tree \cup {None}

\* Whenever the main thread of an initialized workspace has nothing to do and
\* nobody is about to announce a change, the capability "index.workspace" says
\* what the index has: however refreshes, reloads and reads overlap, the last
\* update of the capability saw the last change of the snapshots
\* (UpdateCoreCapabilities against Refresh and RemoveProvider).
CapabilityAgrees ==
  life = "running" /\ step = "idle" /\ queue = <<>>
    /\ (\A j \in Job : job[j] \notin {"stored", "calling"})
  => capability = IF HasSnapshot THEN "Available" ELSE "Unavailable"

\* What the runs check of every state: types and the capability.
RuntimeConsistent == TypeOK /\ CapabilityAgrees

\* A change noted for a running watcher is read by a refresh that starts after
\* it and is stored, unless it is lost before the watcher reports it, the
\* workspace closes or a provider throws
\* (StartFileWatcher, HandleFileChange, RefreshProject, IndexService::Refresh).
Lost(t) == t \notin pending /\ noticed < t

ChangesReachTheIndex ==
  \A t \in Tree :
    t \in pending
      ~> \/ newest >= t
         \/ Lost(t)
         \/ life # "running"
         \/ \E j \in Job : job[j] = "failed"

\* What the code does not give (MCWorkspaceUnseen.cfg refutes it): that the
\* index of a workspace that stays open has every change of a file in the end.
\* A watcher that is missing (ide_application.cpp:42, file_watcher.cpp:565-576),
\* started late, ended or too slow (file_watcher.cpp:508) is made up for by nothing.
EveryChangeReachesTheIndex ==
  \A t \in Tree :
    tree = t /\ life = "running"
      ~> newest >= t \/ life # "running" \/ \E j \in Job : job[j] = "failed"

\* docs/architecture/abi.md:77 requires of stored raw pointers an owner that
\* outlives the borrower.  The relays' tasks hold the runtime's address
\* (ConnectEventRelays, StartFileWatcher); Shutdown destroys the runtime and
\* leaves the main queue as it is.
MainTasksHaveTheirRuntime == life = "destroyed" => queue = <<>>

\* The same of the refresh jobs, whose function holds the service's address:
\* Close gives up waiting for them, and Shutdown destroys the runtime before
\* it stops the pool that runs them.
JobsHaveTheirRuntime ==
  life = "destroyed" => \A j \in Job : job[j] \in {"none", "done", "failed"}
=============================================================================
