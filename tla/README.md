# Mornox kernel: TLA+ models, checks and proofs

Mornox is an IDE kernel in C++ (`src/src/core`, headers in `src/include/mornox`)
with a Qt client, a command line client and built-in plugins around it. It runs
jobs on a worker pool, tools as child processes, agent sessions on top of jobs,
and edits files through change sets. This directory holds the TLA+ modules that
describe the parts whose behaviour depends on the order of things, the TLC
configurations that check them on small instances, and TLAPS proofs that hold
for every value of the constants. `PROJECT.json` maps every definition to the
lines it translates and lists runs, mutants, hazards, findings and theorems.

Run a check with `tlc -workers 2 -config <name>.cfg <module>.tla` and a proof
with `tlapm <name>Proofs.tla`.

## 1. Inventory

### Scheduling and jobs

| Part | State | Operations | What is hard | What makes it correct |
|---|---|---|---|---|
| `AsyncRuntime` (`async.cpp`) | worker queue, main queue, `stopping_`, threads | `PostWorker`, `PostMain`, `DrainMain`, `Start`, `Stop`, `WorkerLoop` | `notify_one`/`notify_all` after the unlock, tasks that wait for tasks on the same pool, posting after `Stop` | every task runs once; nobody sleeps through one; `Stop` drains; the pool does not stand still while somebody can go on |
| `JobService` (`execution/job_service.cpp`) | `jobs_`, `cancel_handlers_`, `next_job_id_` | `Create`, `Start`, `Submit`, `MarkRunning`, `SetCancelHandler`, `RequestCancel(All)`, `Terminate(All)`, `Complete`, `Cancel`, `Wait`, `Clear` | every method locks for itself, so a dispatched task interleaves with cancellers between each of its sections | one final outcome; an accepted cancellation shows; dependencies succeeded before the function ran; handlers belong to open jobs; no lost wake-up |
| `ExecutionService` (`execution/execution_service.cpp`, `platform/process_posix.cpp`) | per handle: status, `cancel_requested`, result, process, thread | `Start`, `Cancel`/`Terminate`, `Wait`, the provider's thread, `EmitEvent` | a thread, a process and any number of users of one handle; cancellation before, during and after | status agrees with result, results final, no orphan, a cancelled execution ends |
| `BuildService` (`execution/build_service.cpp`) | job, `BuildState::result`, plan and step at hand | `Start`, `BuildHandle::Wait/Cancel/Terminate`, the operation | three cancellation paths (handler, polling, check between steps), callbacks that refer to locals, exceptions | callbacks end before the operation, no handler left, success means every step |
| `RunConfigurationService` (`execution/run_configuration.cpp`) | providers, persisted configurations | `Run`, `RunSaved`, `RestoreState`, `SaveState` | providers that come and go between save and restore | what the user added is saved as edited last, temporary ones are not |
| `DebugService` (`debug/debug_service.cpp`) | sessions, breakpoints, events | `Start`, `Stop`, `Continue`, `Pause`, adapter events | nothing: the only provider answers inside the call | an ended session stays ended |

### Workspace

| Part | State | Operations | What is hard | What makes it correct |
|---|---|---|---|---|
| `ChangeSetService`, `DocumentService` (`workspace/change_set_service.cpp`, `document_service.cpp`) | change sets, open documents with versions, files | `Create`, `Approve`, `Reject`, `Preflight`, `ApplyApproved`, `UndoApplied`; `Open`, `SetText`, `Save`, `Close` | several operations of which one fails, other processes that write meanwhile, buffers against disk, a preflight that looks at each operation alone | only named content is overwritten, undo restores, preflight predicts where it can |
| `ApprovalService`, `WorkspaceTrustService`, `access_control.cpp` | trust level, remembered approvals | `RequestApproval`, `SetTrust`, `Blocks` | - | nothing blocked is approved |
| `IndexService` (`workspace/index_service.cpp`) | providers, snapshots, `next_version_` | `RegisterProvider`, `RemoveProvider`, `Refresh`, `Query`, `ClearSnapshots` | refresh works on a copy without the lock and announces after it | every change is read by a later refresh; the capability follows the snapshots |
| `SettingsService` (`workspace/settings_service.cpp`) | definitions, nodes, scoped values | `SetValue`, `ResetValue`, `Resolve`, `Load`, `Save` | order of scopes | the most specific value wins |
| `WorkspaceRuntime` (`workspace/workspace_runtime.cpp`) | everything above; `open_`, `initialized_`, relays | `Open`, `InitializeWorkspace`, `Close`, `RefreshProject`, relays to the main thread | timed waits for jobs, relays that post to the main queue, a watcher that may not start, may end and may lose changes | a change the watcher reports passes queue and job and none of them drops it |
| `FileWatcher` (`vfs/file_watcher.cpp`) | thread, `running_`, a pending read | `Start`, `Stop`, `WatchLoop` | stopping a thread that may not have begun to wait; a system buffer that overflows | noted changes are posted once and in order, and never after `Stop` |
| `IdeEventBus`, `EventBus` (`event.h`) | listeners | `Subscribe`, `Unsubscribe`, `Publish` | listeners copied before the calls | - |

### Projects, language, plugins, agent

| Part | State | Operations | What is hard | What makes it correct |
|---|---|---|---|---|
| `ProjectManager`, `RegistrationHandle` | model and view providers | register, remove, `Refresh` | a handle that outlives what it registered | a handle removes what it registered and nothing else |
| `Project` components (`project/project.cpp`) | component table, restored state | bind, unbind, attach, restore, open, close, detach, reconcile | a component that throws in one phase; providers that return sessions later; a state file that cannot be written | the lifecycle is in order; a state file that was written has everybody's last state |
| Language pipeline, `LspClient`, `DocumentLanguageSynchronizer` | document versions, pending request, notifications | `Execute`, `SendRequest`, `HandleChange` | answers that come late or for an old version; one pair of pipes for all threads; a buffer that outlives the server | an answer goes to who asked; the server has the document's text; calls return |
| `PluginManager`, `PluginProcessHost` | manifests, activation state, registrations, process | scan, activate, unload, reload, health | partial activation, a process that ends or stops reading, calls that race with unloading | handlers lead to active plugins; answers go to who asked until one was given up; calls return while the plugin reads |
| `AgentRuntime`, `AgentOperationService` (`agent/*.cpp`) | sessions, operation records | `StartSession`, `CancelSession`, `RunSession`, `Execute`, `Clear` | three tables describe one session, each with a lock of its own or none; a running operation is out of a cancellation's reach | the tables agree at the end, a cancelled session stops calling tools, sessions end |
| Clients (`src/src/ide`, `src/src/cli`), built-in plugins | widgets, prompt, command lines | - | they drain the main queue and close the runtime before they stop the pool | - |

### Interaction

Clients own an `AsyncRuntime` and hand `JobService` a dispatcher that posts to
it; `JobService::Submit` is the only way services put work on the pool.
`AgentRuntime` runs each session as a job and waits, inside that job, for the
jobs `AgentOperationService` submits: tasks wait for tasks of the same pool.
`BuildService` runs a build as a job whose function waits for executions, and an
execution runs on a thread of its own. Cancellation flows down the same way:
`RequestCancel`/`Terminate` set the job's flag and call its handler outside the
lock, which cancels a session or an execution. Services report changes through
`EventBus`; `WorkspaceRuntime` relays them to the main queue. `Open` and `Close`
clear the job and session tables under whatever still runs.

## 2. Modules

Each component has one module with its state, `Init`, one action per critical
section or call, and its properties; `MC` modules instantiate them for TLC where
a run needs definitions of its own or two components (`JobService`,
`AsyncRuntime`, `WorkspaceRuntime`, `LanguageRequests` and single components of the
others are run as they are); a `Proofs` module holds the theorems. Of every module
the conjunction of its type invariant with the invariants that describe its tables
is named `...Consistent` (`JobsConsistent`, `PoolConsistent`, ...), and that is what
the runs check and the theorems `StaysConsistent` prove. A definition that serves as a mutant (an
operator no action uses, marked "Mutant") shows what a property would catch.

Where two components are proved about in one module, the `MC` module of one of them
(`MCAgentSession`, `MCFileWatcher`) declares its variables and instantiates it,
with other names for those that both have (`at` and `calls` of `AgentSession` are
`stage` and `toolCalls`, `tree` and `MaxChanges` of `FileWatcher` are `written` and
`MaxWrites`); its runs check the instance.

Two kinds of composition occur. `BuildService` instantiates `ExecutionService`
and shares its variables: a build's steps are steps of executions.
`WorkspaceRuntime` has `IndexService` inside. The MC modules `MCExecution`,
`MCPlugins` and `MCProject`, on the other hand, check related components in one
run: a behaviour picks at the start, with a variable of its own (`user`, `part`),
whether it is one of the first component or of the second, and leaves the other
alone. `MCExecution` is more than that, since both kinds of behaviour are about
the same executions, and what executions promise is checked under both.

### AsyncRuntime, TaskContract

`AsyncRuntime` has the two queues as sequences, `worker[w]` as the position of a
thread in `WorkerLoop` (`ready` to take the lock, `asleep` on the condition
variable, `running`, `gone`), and `notifications` for the calls of `notify_one`
that were decided but not yet made. `stop` walks through `Stop`: flag set,
`notify_all` due, joining, stopped. A task may post another and wait for it
(`level`, `child`), as an agent session does, up to `Depth` levels deep; any number
may be open at once. `late` keeps the tasks posted when nobody had to run them any
more. A worker is `Blocked` if the task it waits for has not ended, and the pool is
`Stuck` if every worker that has not left is blocked: some of those tasks are then
in the queue, and nobody is left to take them. `TaskContract` is the promise: a
task is run at most once, after it was posted and by one thread; `KeepsContract` is
the refinement.

### JobService

One action per critical section. `status`, `cancellable`, `cancelRequested`,
`dependencies` are the record's fields; `cancelHandlers` the map's keys; `step`
is where the owner of a job is between two sections (for a dispatched task:
`queued`, `checking` the dependencies one read at a time, `body`, `returned`,
`open`, `settle`, `notify`, `erase`, `done`). `outcome` is the status the owner
decided on and has not written yet: the gap every interleaving property is
about. Callers visit the jobs of a snapshot (`RequestCancelAll`); waiters sleep
and wake as on the condition variable.

### ChangeSets

Change sets, open documents with version and saved text, and files on disk.
`ApplyApproved` and `UndoApplied` take one step per operation, so that another
process (`WriteOutside`) can act in between; the users' own calls cannot,
because they are on the same thread. A text is a model value and text edits are
one function on texts. `undisturbed` and `before` are history: the set applied last,
until anybody else touches a file, and what was read when its application began.
`foreseen` says of the application under way that its preflight decided it: the
edit was `Foreseeable` when it began and nobody has written a file since.
`ApplyPreflight` compares each operation with what is there now, not with what the
operations before it leave, does not look whether a file to be deleted is on disk
(a buffer will do), and does not compare a text edit's expected version with that
of a document that is not open and that the application will open as version 1.
`Foreseeable` excludes just these three; the configuration
`MCChangeSetsVersions` shows the third (section 4).
`NewNamesAreFresh` says of the edits that a file, once renamed, is not worked on
under its new name in the same edit; without it an undo may leave another text
(section 4).

### ExecutionService, ExecutionContract

One execution is a handle (`status`, `cancelRequested`, `result`), the
provider's `thread` position, and its child process (`none`, `made`, `alive`,
`exited`, `reaped`). The polling section is two actions, `ReadPipes` and
`LookForExit`, between which the process moves but no user of the handle does.
`heard` is what the callback has been given. `ExecutionContract` is what the
caller of `Start` may rely on: started, one exit code, finished, in that order.

### BuildService

Composes `ExecutionService` (`E == INSTANCE ExecutionService`) with one job
record, the operation (`pc`), the client that waits for the `BuildHandle`, the
callers of `RequestCancel`/`Terminate` and `JobService::Clear`. The callback of a
step is joined with the provider's step that calls it: `StepStarted` is
`E!TellStarted` and `MarkRunning` of the job.

### AgentSession

A session with the job it runs as and the operations it executes: `session`,
`job` and `record` are the three tables' statuses, `at` is the task's position in
`RunSession`/`ExecuteToolCalls`, `operation` the job it waits for. The model
provider may answer with or without tool calls, fail, throw or never answer, and an
operation may never come back: `CancelSession` does not reach either.
`ClearJobs` and `ClearSessions` are the end of `WorkspaceRuntime::Close`. `threw`
(sessions whose collector or provider threw) and `missed` (sessions cancelled
between `RunSession`'s last look and the job's completion) are history; they
name the two ways in which job and session end differently.

### WorkspaceRuntime

One runtime from construction to destruction. `life` is how far it has come,
`step` what the main thread is in the middle of, `queue` the tasks posted to it.
Refresh jobs copy the providers (`TakeJob`), read the files, store
(`StoreSnapshots`) and announce in two steps (`CopyListeners`, `CallRelay`), as
`IndexService::Refresh` and `EventBus::Publish` do; the capability
`index.workspace` is read and set in two steps on the main thread. The content of
the files is the number of their changes, so that a refresh "has seen" a number.
`watching` says whether the watcher runs, which is not known to anybody:
`StartFileWatcher`'s answer is ignored, and a platform without a watcher gives
false. The watcher begins after the workspace is open; what changes before is
not noted. `pending` are the changes the system noted and `NoticeChange` has not
reported; an overflow (`LoseChanges`) and the watcher's end drop them.

### FileWatcher

The Windows watcher: the main thread's `Start` and `Stop` (flag, `CancelIoEx`,
join) against `WatchLoop`, with the system's buffer of noted changes outside.
`base` is how many changes came before the system noted any.

### PluginProcessHost, PluginManager

`PluginProcessHost` is one plugin's process from activation to the end of its
host: `at[t]` is where each thread is in `SendRequest`, the pipes are sequences of
request numbers, `stage` how far the manager is. The pipe to the plugin holds
`Capacity` requests; a thread that finds it full stays in the write, with the mutex
(`writing`), until the plugin reads or ends. The plugin answers a request once
or not at all, and reads when it likes. `gaveUp` and `mixedUp` remember
whether a request ran into its time limit and whether an answer went astray.
`PluginManager` is the level above: activation passes over the manifests, one
manifest a step, the table of handlers (`owner`) and sessions, reload, unload and
the health check that finds ended processes.

### ProjectComponents, RunConfigurations

`ProjectComponents` follows the components' states through several sessions:
`memory`, what is `kept` for components that are gone, and the file (`disk`),
against `latest`, the last edit. Every callback may throw (`NoSave`, `NoAttach`,
`NoRestore`, `NoOpen`); a component that threw from a state callback is `spoiled`
and nothing is said of its state. The file may stay as it was or be left empty
when `Close` writes it (`NotWritten`): `ProjectStateStore::Save` truncates it
first and nobody looks at its result. `latest` is then what the file has.
`RunConfigurations` is the component that holds run configurations, whose data only
their provider can read and write.

### LanguageRequests

A document, the synchronizer that announces its changes, the pipeline that
compares versions before and after a request, the client that holds its mutex
from the request to the answer, a tool's worker that uses the same client, and a
server that answers in order, late or never, sends notices and requests of its own
with numbers of its choice (`Numbers`), and garbage. The client takes the first
body with its number, or one that is not JSON, for its answer (`IsAnswer`). `read` is
how much of a message `read_buffer_` holds; `Stop` and `Start` leave it, so that a
message torn by the old server's end spoils the first of the new one (`torn`).
Texts are numbers.

## 3. Runs

| Run | Instance | Shows |
|---|---|---|
| `job_service` | two jobs, the second may depend on the first, one caller | every interleaving of the sections of two tasks with cancel, terminate (one or all) and `Clear` keeps outcomes final, accepted cancellations visible, dependencies met, handlers on open jobs |
| `job_waiting` | one job, a waiter and a waiter with timeout, one caller, fair | no wake-up is lost although `notify_all` runs outside the lock; every wait on an owned job returns |
| `change_sets` | eleven edits of one or two operations over two files and three texts, any failure, external writes | an undo restores; preflight predicts the application of a `Foreseeable` edit that nobody interferes with |
| `worker_pool` | two workers, four tasks in chains of two, fair | waiting for each other, sleeping and stopping in any order, up to all workers waiting; implements `TaskContract`; a running pool is stuck only when enough outermost tasks wait; `Stop` returns and promised tasks end, except when the pool is `Stuck` |
| `agent_session` | one session, up to three tool calls, fair | job and session agree at the end but for two named cases, at most one tool call after a cancellation, a completed session ran every call, sessions end if model and operations come back |
| `executions` | two executions, one write each, or a build of two steps with two callers; fair threads | no process outlives its result, a cancellation shows and ends the execution, `ExecutionContract` is implemented; a build's callbacks end inside it, success means every step, accepted cancellations end it, `Wait` returns |
| `workspace` | two providers, two workers, two changes of files, one reload, a watcher that may not start, end or lose changes, fair | the capability agrees with the snapshots, every change the watcher reports is read by a later refresh |
| `file_watcher` | five changes, three starts, a buffer of two, fair | what the system noted is posted once, in order, not after `Stop`, and arrives while the watcher runs |
| `plugins` | two workers and the main thread with three requests and a pipe of one; four plugins and five operations | answers belong to their requests until one was given up, calls return if the plugin, while it runs, goes on reading; handlers lead to plugins with sessions, no core plugin is left behind, the newest owner of a tool keeps it |
| `project` | two components, three sessions, three changes, two failures; three configurations, two sessions | lifecycle order whatever throws, no state is lost but that of components that threw from a state callback and of sessions whose file could not be written; configurations are kept while their providers are there |
| `language` | two texts, one opening, two requests, one message that answers nothing, two starts, a worker, fair | an answer of the server only goes to its own request, the server follows the document, calls return |
| `execution_output` | one execution, one write | *finding*: output written between the last read and the test for the exit is lost |

**Bounds.** Each bound is a constant. Two jobs are the fewest with a dependency;
a third would only repeat the pair. Two operations are the fewest with a first
half. Two workers and four tasks in chains of two are the fewest with which all
workers can wait at once; with a task less one worker is always free. Two steps
are the fewest with a gap between steps, and two calls let a cancellation meet a
termination. Versions of documents in change sets are bounded at 2 because only
equality with an expected version matters. Two refreshes at once are the fewest
that overlap, and two changes the fewest of which one can be noticed while the
other is being read; the built-in provider and the plugin's are the two kinds
there are. A buffer of two overflows at the third change. Three requests let a
late answer meet a request of the other worker and still leave one for
deactivation; a pipe of one request is full with the second. The four plugins are two of each kind, found in the unsuitable
order. Three sessions let a component be absent for a whole one. Two texts and two
requests are the fewest with which an answer, a version or an announcement can be
the wrong one, two starts the fewest with which something of an earlier server
is read, and the number 2 of the server's own request meets the second of ours. A
document that is opened twice is in `MCLanguageStale`.

**Symmetry** is used for the components of `project`, whose properties are safety
properties that treat them alike, and nowhere with liveness.

**Deadlock checking** is off where the system may rest: jobs and tasks run out
at a bound, executions, sessions, hosts and runtimes end.

**Fairness.** Threads the operating system runs are weakly fair: workers that can
take a task, the provider's thread, an owner between two sections, a
notification that is due. A job's function is strongly fair in `JobService`
because cancellers can switch the ways it may end on and off under it. In `BuildService`
a cancellation contends for the execution's mutex with a thread that sleeps
10 ms without it between polls, so `StopExecution` and `CallHandler` are strongly
fair; so are the threads that want a plugin host's mutex (`Send`), since others
may take it in between; the thread that has it writes and polls weakly fairly.
`LspClient`'s mutex is contended too, but each holder gives it up at its deadline
and requests are bounded, so that weak fairness is enough there, of the steps a
thread has to choose from at each of its places. Deadlines come; the host drains
its main queue (`Main`), the pool runs its jobs, and a watcher reports what it
has read (`NoticeChange`). Nothing makes a model provider, an agent's operation, a
plugin or a language server answer or read, a file change, a process exit, a user
cancel, a workspace close or a spurious wake-up happen; where a property needs one
of them, it says so as a hypothesis (`OthersComeBack`, `PluginReads`).

**Exceptions inside properties.** Each of them is a case in which the code does
not give what one would wish; section 4 has most of them as properties that fail.

- `PreflightPredictsApply` speaks of `Foreseeable` edits (section 2), that nobody
  writes a file meanwhile and that the file system does as told. Of two operations
  on one file it promises nothing.
- `StopReturns` and `PromisedTasksEnd` end when the pool is `Stuck`: every worker
  that has not left waits for a task nobody takes. In a running pool that needs as
  many waiting tasks as workers (`StuckNeedsManyRoots`), which nothing in the code
  prevents, since sessions are not counted against workers
  (`agent_operation.cpp:460`); in one being stopped one such task is enough, because
  workers leave as soon as the flag is set and the queue is empty
  (`async.cpp:81`). Clients close the workspace first, which cancels sessions but
  waits for at most a second.
- `OutcomesAgree` (in `SessionConsistent`): a job may have succeeded although its
  session is cancelled, if that happened behind the last look at it (`missed`), and
  a session stays open if its task threw (`threw`).
- `SessionsEnd` has `OthersComeBack` as its hypothesis and excepts tasks that threw.
- `BuildWaitReturns` speaks of tasks that ended; a function dropped because its job
  was cleared first leaves its waiter hanging (a hazard, listed).
- `HostConsistent` lets answers be mixed up once a request was given up: identifiers
  are not compared (`plugin_process_host.cpp:110`). `CallsReturn` of plugins has
  `PluginReads` as its hypothesis and ends with the program (`killed`).
- `ChangesReachTheIndex` speaks of changes that were noted for a running watcher and
  not lost before it reported them (`Lost`), and ends when a provider throws, since
  that ends the whole refresh.
- `StateSurvives` excepts components that threw from `SaveState` or `RestoreState`, and
  counts what a session that could not write its file did as not done.
- `AnswersFitRequests` speaks of what the server sent as an answer. Garbage and the
  server's own requests are taken for answers too.

## 4. Disagreements with what the repository says

The run `execution_output` is one: the polling section reads the pipes and then
tests for the exit (`execution_service.cpp:182`), so that output written in
between is lost though the execution succeeds, while
`tests/execution_tests.cpp:149` requires the output of such a command.

Each of the further configurations below checks properties that state a sentence
of the documents, a line of a test or, where the last column says so, what a caller
would expect of the code and does not get; TLC answers with a counterexample. They
are run like the others, with the module named here, and with `-continue` where more
than one property is named.

| Configuration (module) | Property | What TLC shows | What is said |
|---|---|---|---|
| `MCChangeSetsAtomic` (`MCChangeSets`) | `FailedApplyChangesNothing` | a failed apply leaves the operations before the failure in effect and cannot be undone (`change_set_service.cpp:250`) | `README.md:31-32`: edits can be rolled back |
| `MCChangeSetsBuffers` (`MCChangeSets`) | `UnsavedBuffersSurvive` | a rename closes a document and drops its unsaved text (`change_set_service.cpp:470`) | `agent-native-platform.md:181`: detect conflicts with unsaved buffers |
| `MCChangeSetsRenamed` (`MCChangeSets`) | `UndoRestores` | an edit that renames a file and then changes it under the new name: the undo of the change is made from what the new name held before the rename (`change_set_service.cpp:333`), or stays in a buffer that the rename back throws away (`change_set_service.cpp:470`), and the file has another text afterwards | `README.md:31-32` |
| `MCChangeSetsVersions` (`MCChangeSets`) | `PreflightDecides` | an edit that expects version 2 of a document that is not open passes preflight, which compares versions of open documents only (`change_set_service.cpp:403`), and fails when it is applied, though nobody interfered | expected of a preflight |
| `MCAsyncRuntimeFull` (`AsyncRuntime`) | `NeverStuck` | two tasks that occupy both workers wait for tasks in the queue, and no worker is left to take one | expected of a pool |
| `MCAsyncRuntimeStop` (`AsyncRuntime`) | `StopAlwaysReturns` | a worker leaves after the flag is set, the other posts a task and waits for it (`async.cpp:81`), and join never returns | expected of `Stop` |
| `MCAgentTables` (`MCAgentSession`) | `SuccessCompletes`, `NoneLeftOpen` | a cancellation behind the last look gives a cancelled session with a job that succeeded (`agent_runtime.cpp:146`); a provider that throws leaves the session open with a failed job (`agent_runtime.cpp:112`) | expected of the two tables |
| `MCWorkspaceUnseen` (`WorkspaceRuntime`) | `EveryChangeReachesTheIndex` | the watcher does not start and nobody looks (`ide_application.cpp:42`), starts after the change, ends, or loses it (`file_watcher.cpp:508`) | expected of an index that follows the files |
| `MCWorkspaceDestroyed` (`WorkspaceRuntime`) | `MainTasksHaveTheirRuntime`, `JobsHaveTheirRuntime` | a relay's task is in the main queue when its runtime is destroyed (`ide_application.cpp:56`); `Close` gives up waiting and a refresh job outlives the runtime (`workspace_runtime.cpp:169`) | `abi.md:77`: stored raw pointers have an owner that outlives the borrower |
| `MCPluginBlocked` (`PluginProcessHost`) | `CallsAlwaysReturn` | the plugin stops reading, the pipe fills, and the write at `process_posix.cpp:221` keeps the mutex for ever; the time limit is only for the answer | expected of calls with a time limit |
| `MCPluginCrash` (`PluginProcessHost`) | `CrashIsNotOurs`, `CallsHaveTheirHost`, `AnswersAlwaysBelong` | a write to the pipe of an ended plugin raises SIGPIPE, which nobody ignores (`process_posix.cpp:221`); the host is destroyed while a worker waits in it (`plugin_manager.cpp:1164`); the answer to a request that was given up is read as that to the next one (`plugin_process_host.cpp:110`) | `abi.md:45`: crashes are plugin failures, not IDE failures; `abi.md:77`; expected of calls |
| `MCPluginEvents` (`MCPlugins`) | `AvailableCommandsActivate` | an external plugin found before the one whose command it waits for stays inactive (`plugin_manager.cpp:1119`) | `services.md:142`: activation is driven by command availability |
| `MCRunPersistence` (`MCProject`) | `ConfigurationsSurvive`, `ClosingSaves` | a configuration whose provider is absent at restore or save loses its data (`run_configuration.cpp:516`); a state file that cannot be written is not noticed and the session is lost (`workspace_runtime.cpp:176`) | `data-boundaries.md:113-114`: state survives missing plugins; expected of closing |
| `MCLanguageStale` (`LanguageRequests`) | `StaleIsNoticed` | a document closed and opened again has version 1 again, and an answer for another text is not stale (`language_request_pipeline.cpp:107`) | `language_tests.cpp:37`: `REQUIRE(stale.stale);` |
| `MCLanguageForeign` (`LanguageRequests`) | `OnlyAnswersReturn` | what cannot be parsed (`lsp_client.cpp:150`) or a request of the server with the same number (`lsp_client.cpp:146`) is returned as the answer | expected of `SendRequest` |
| `MCLanguageLateStart` (`LanguageRequests`) | `OpenDocumentsAreKnown` | a server started later hears of edits of a document it was never told is open (`lsp_language_service.cpp:200`) | `services.md:74-75`: document lifecycle events |
| `MCFileWatcherStop` (`MCFileWatcher`) | `StopReturns` | `CancelIoEx` before the read is pending cancels nothing, and join waits for a change (`file_watcher.cpp:430`) | `vfs_tests.cpp:50` calls `Stop` and goes on |

## 5. Proofs

All for every value of the constants, under the assumptions the modules name.

- **JobServiceProofs**: `TypeCorrect`; `PhasesHold`, the invariant that ties an
  owner's position to the status (before the final update no outcome is written,
  after it the job is terminal or cleared); `FinalStep`, the summary of what a
  step may do to a terminal job, from which `OutcomesFinal` and
  `FinishedTerminal` follow; `DependenciesHold`, which needs that dependencies
  are older jobs and that a dependency once read stays succeeded or is cleared;
  `CancellationHonoured`, which carries the request from the function's return
  (`ReturnTrace`) and the decision to write Cancelled (`CancelTrace`) to the
  update; `HandlersOpen`; `WakeupsArrive`, where a sleeping waiter of an ended job
  implies somebody who is about to notify.
- **AsyncRuntimeProofs**: `TypeCorrect`; `NobodySleepsThroughTask`, an invariant
  by itself once queue lengths and the finite set of ready workers are counted;
  `StopRunsEverything`, from `Placed` (every promised unfinished task is in a
  queue or held by a worker) and `Staffed` (workers that left, left an empty
  queue behind). `RunOnceHolds`: `Once` and `Apart`, a task is in one place of one
  queue or with one worker, never both; from it `ContractKept`, that every step of
  the pool is one of `TaskContract`. `OnlyManyRootsStick` is `StuckNeedsManyRoots`,
  which is not inductive: a worker waits because a task was posted earlier, from
  another worker. `Chained` (`ChainsHold`) says that there is a map from tasks to the open
  root each descends from, one child at a time, one level deeper; then no two waiting
  workers have the same root and level, so that the workers of a stuck pool, none of
  which has left, are at most `Depth - 1` for each root that waits. How many roots there
  are is not assumed.
- **ChangeSetsProofs**: `TypeCorrect` (inverses of operations are operations);
  `NothingElseOverwritten`; `PreflightSuffices` through `PredictionHolds`: as
  long as an application is `foreseen`, no two operations share a
  file (`Apart`) and those left would all be accepted now (`Predicted`); what `ApplyPreflight`
  compares and what `Foreseeable` asks beside it are together what each operation
  tests. `UndoneIsRestored`, under the hypothesis `NewNamesAreFresh`: nothing is
  recorded of the states an application goes through, so the inductive invariant
  `UndoInv` rests on the first operation that touches a file. When it was
  performed it had tested what the file held before (`Known`), its inverse is the
  last of the undo that touches the file, and writes just that. A file that was
  renamed is under its new name as it was or, after an undo that failed half
  way, no longer there, so that a second attempt stops at it (`Carried`); files
  that are created, deleted or renamed are never open without being on disk
  (`Backed`), so that removing one also hides no buffer. The files' finiteness is
  not needed.
- **ExecutionProofs**: `TypeCorrect`; `PlacesHold`, which places result,
  status, process and what was heard by the thread's position; from it
  `NoProcessLeft`, `CancellationsKept`, and with `StatusTrue` also `ResultsFinal`;
  `ContractKept`, the safety half of the refinement of `ExecutionContract`. For
  builds: `BuildUsesExecutions`, that a step of `BuildService` is one of
  `ExecutionService` or leaves the executions alone, so that all that is proved of
  executions holds in a build; `BuildStaysConsistent` and `SuccessIsWhole`, whose
  invariant `BuildInv` places the job, its handler and the build's answer by the
  operation's position and says that the steps before the current one have
  succeeded.
- **PluginProofs**: `StaysConsistent` of a plugin's host, whose inductive invariant
  says that while no request was given up at most one number is in both pipes and a
  reader's hands together, and that it is the one the holder of the mutex waits
  for; without it "answers belong" would not survive the next read. A thread that
  is in the middle of its write holds the mutex like one that waits. Of the manager:
  `ManagerStaysConsistent`, which needs that whoever owns a tool or command
  is a plugin that provides it (`OwnersProvide`); `NewestToolHolds`; and
  `NoneLeftBehindHolds`, from `PassedOver`: since the pass over the core plugins last
  activated one, each it came past was active, or tried before, or not to be
  activated, so that a round that activates nothing leaves none.
- **ProjectProofs**: `StaysConsistent` and `StateSurvivesHolds`. The
  inductive invariant says where the last edit of an unspoiled component is:
  in its memory while it is bound, in what was kept while it is not, and in the
  file between sessions, whether that was written or not. `ConfigurationsKept` with
  `RunInv`, for the configurations whose provider was always there: while the workspace is open one
  is wanted exactly if the table has it and it is not temporary, with the data last
  given to it; between sessions a wanted one is in the file as it was last, and one
  that is not wanted is not in it.
- **AgentProofs**: `SessionStaysConsistent`, `CancelStops` and `CompletionIsWhole`.
  `SessionInv` says of each session (`Good`), for each position of its task, which
  calls have a record and how they ended, what the session's and the job's status can
  be and where the job's comes from, that at most one call begins after a
  cancellation, and that a session cancelled while its task is past the last look is
  in `missed`.
  `LanguageStaysConsistent` of the language requests: what the server will know
  once it has read its pipe (`OpenThere`, `EndsWithText`) is what the document
  holds; numbers of requests are used once (`NumbersUsedOnce`), over all starts, so
  that an answer that is late or was left in the read buffer is nobody else's; the
  main thread asks last.
- **WorkspaceProofs**: `RuntimeStaysConsistent`. Its invariant: while the workspace is
  open the relays are connected, and the capability is right, or about to be
  written rightly, or somebody will make the main thread look again (`ToBeUpdated`:
  a task in its queue, a job that has stored and not announced, a reload under way).
  `WatcherStaysConsistent`: only a thread that is posting has something to post,
  so that what a read brings follows all that was posted.

`StaysConsistent` of JobServiceProofs, AsyncRuntimeProofs and ExecutionProofs puts
the invariants listed above together in the form the runs check. Assumptions are
those the modules name: finite sets where something is counted, `main` and the
like not being names of workers, bounds that are natural numbers
(`ManagerAssumption`, `BuildAssumption`, `RunAssumption`, `SessionAssumption`,
`WatcherAssumption` in the `MC` modules, which the proof modules extend), and for
ExecutionService `ExecutionAssumption`. `NewNamesAreFresh` is a hypothesis of one
theorem; `EditsAssumption` has TLC evaluate it for the edits of the run.

So every invariant and every action property that a run checks is proved. Only
model-checked: all liveness (TLAPS has no rule for it here) and, for the same
reason, `KeepsContract` of `ExecutionService` as a whole, since `ExecutionContract`
states fairness; `ContractKept` is its safety half. `UndoRestores` for edits that
work on a renamed file under its new name fails (section 4). `TypeOK` and
`OverwritesOnlyWhatItNames` of ChangeSets are only proved, and no run repeats them.

## 6. Not modelled

Formatting, parsing, wording, progress numbers, output text and diagnostics
carry no control and are left out throughout. Data races on tables without a
mutex (`records_` of `AgentOperationService`, `change_sets_`, `providers_` of
`ExecutionService`) have no defined outcome to enumerate. A process that ignores
SIGTERM keeps `ChildProcess::Terminate` waiting with the mutex held, and a plugin
that ignores it `PluginProcessHost::Stop`; the model's processes obey it.

Components with status `not_modelled` in `PROJECT.json`, and why:

- `DebugService`: its only provider answers inside the calls, so that events and
  calls of one session never meet.
- `ApprovalService`, `WorkspaceTrust`, `SettingsService`, `CapabilityRegistry`,
  `CommandRegistry`, `DiagnosticService`, `ModelService`, code model: keyed tables
  and decisions that one thread reads and writes, one access an operation. What
  depends on them is in the modules that use them (approval in `ChangeSets`, the
  tables of commands and tools in `PluginManager`).
- `ProblemMatcher`, stores and codecs, templates, `GitService`, built-in plugins,
  `AgentContextCollector`: text processing and files, no protocol.
- Windows processes and the macOS watchers: the first repeat what `ExecutionService`
  has of POSIX, the second hand over to system libraries.
- Clients: widgets and a prompt; what they do to the runtime and its main queue
  is in `WorkspaceRuntime` and `AsyncRuntime`.
- `src/3dparty`: vendored.

Within the modelled components: full pipes and a language server that ends by
itself are left out of `LanguageRequests`; writing the state file is taken to
succeed in `RunConfigurations` (`ProjectComponents` has its failure); the health counters of plugins, the
payloads of requests and the reading of manifests out of the plugin modules;
several builds at once out of `BuildService`, since they share nothing but the
pool.

## 7. What could follow

The modules above cover the parts of the kernel whose behaviour depends on the
order of things. Next, in this order:

1. A condition on edits weaker than `NewNamesAreFresh` under which an undo still
   restores, as far as one exists.
2. The safety halves of what liveness rests on: that a waiting build, session or
   call always has somebody who will end its wait.
3. Language servers that end by themselves, and bounded pipes in
   `LanguageRequests`.
