-------------------------- MODULE ProjectComponents --------------------------
(***************************************************************************)
(* The components of a project through several sessions of a workspace:    *)
(* Project::Components (project.cpp), the part of ProjectManager that owns *)
(* the component providers (project_manager.cpp), and what WorkspaceRuntime*)
(* does with them when it opens, refreshes and closes.                     *)
(*                                                                         *)
(* Everything runs on the main thread, but every callback of a component   *)
(* may throw, and providers come and go with their plugins at any time.    *)
(* The state of a component is the number of its last edit; a component    *)
(* without state is 0.  Components do not affect each other, so that what  *)
(* the code does to one after the other is done to all at once here.  The  *)
(* one component that is bound before the project is attached              *)
(* (ProjectRunConfigurations) cannot throw and is like the others then.    *)
(***************************************************************************)
EXTENDS Integers, FiniteSets

CONSTANTS
  Ids,           \* identifiers of components
  MaxSessions,   \* bound: how often the workspace is opened
  MaxEdits,      \* bound: how often a component's state changes
  MaxChanges,    \* bound: registrations and removals in one session
  MaxFailures    \* bound: how often a callback throws or the state file cannot
                 \* be written

ASSUME ComponentAssumption ==
  /\ IsFiniteSet(Ids)
  /\ {MaxSessions, MaxEdits, MaxChanges, MaxFailures} \subseteq Nat

VARIABLES
  phase,       \* how far the session has come
  sessions,    \* how many sessions there were
  changes,     \* registrations and removals in this session
  failures,    \* how often a callback has thrown or the file was not written
  providers,   \* ProjectManager::component_providers_
  matched,     \* the providers whose match accepts the project
  provided,    \* active_provider_components_
  bound,       \* components_
  attached,    \* Entry::attached
  restored,    \* Entry::restored
  opened,      \* Entry::project_opened
  subscribed,  \* components with event subscriptions in the context
  memory,      \* the state each component has
  kept,        \* restored_state_
  disk,        \* the state file
  latest,      \* the last edit of each component; what a session could not
               \* write at its end is forgotten (history)
  spoiled      \* components that threw from a state callback (history)

entries == <<bound, attached, restored, opened, subscribed>>
states == <<memory, kept, disk, latest, spoiled>>
manager == <<providers, matched, provided>>
bounds == <<sessions, changes, failures>>
vars == <<phase, bounds, manager, entries, states>>

Nothing == [c \in Ids |-> 0]

Init ==
  /\ phase = "closed"
  /\ sessions = 0 /\ changes = 0 /\ failures = 0
  /\ providers = {} /\ matched = Ids /\ provided = {}
  /\ bound = {} /\ attached = {} /\ restored = {} /\ opened = {}
  /\ subscribed = {}
  /\ memory = Nothing /\ kept = Nothing /\ disk = Nothing /\ latest = Nothing
  /\ spoiled = {}

\* The components of S whose callback throws this time.
Throwing(S) ==
  {T \in SUBSET S : failures + Cardinality(T) <= MaxFailures}

Change == changes < MaxChanges /\ changes' = changes + 1

-----------------------------------------------------------------------------
(* Bind and Unbind, of sets of components.                                  *)

\* Unbind: the state is kept, the project closed and the component detached.
\* A component in NoSave throws from SaveState, and what was kept stays.
\* Mutant: it is not saved.
KeptAsRestored(S, NoSave) == kept
KeptAfter(S, NoSave) ==
  [c \in Ids |-> IF c \in S \ NoSave THEN memory[c] ELSE kept[c]]

\* Who still gets events: a component that threw from OnAttach may have
\* subscribed before, and loses that too.  Mutant: it does not.
SubscribedAnyway(Out, In, ok) == (subscribed \ Out) \cup In
SubscribedAfter(Out, In, ok) == (subscribed \ Out) \cup ok

\* What is bound when those of Out are gone and those of In have been bound:
\* attached, restored from what was kept and opened with the project.  One that
\* throws from OnAttach (NoAttach) loses its subscriptions and its entry.
Rebound(Out, In, NoSave, NoAttach, NoRestore, NoOpen) ==
  LET ok == In \ NoAttach
      keep == KeptAfter(Out \cap bound, NoSave)
  IN /\ bound' = (bound \ Out) \cup ok
     /\ attached' = (attached \ Out) \cup ok
     /\ restored' = (restored \ Out) \cup ok
     /\ opened' = (opened \ Out) \cup (ok \ NoOpen)
     /\ subscribed' = SubscribedAfter(Out, In, ok)
     /\ kept' = keep
     /\ memory' = [c \in Ids |->
                     IF c \in ok \ NoRestore THEN keep[c]
                     ELSE IF c \in Out \cup In THEN 0 ELSE memory[c]]
     /\ spoiled' = spoiled \cup (NoSave \cap Out) \cup (NoRestore \cap ok)
     /\ failures' = failures + Cardinality(NoSave) + Cardinality(NoAttach)
                      + Cardinality(NoRestore) + Cardinality(NoOpen)

\* The same with every choice of callbacks that throw.
Rebind(Out, In) ==
  \E NoSave \in Throwing(Out \cap bound), NoAttach \in Throwing(In) :
    \E NoRestore \in Throwing(In \ NoAttach), NoOpen \in Throwing(In \ NoAttach) :
      /\ failures + Cardinality(NoSave) + Cardinality(NoAttach)
           + Cardinality(NoRestore) + Cardinality(NoOpen) <= MaxFailures
      /\ Rebound(Out, In, NoSave, NoAttach, NoRestore, NoOpen)

\* ReconcileProviders: components whose provider is gone or matches no more
\* are unbound; those of new matching providers are bound.  A provider counts
\* as provided also when its component threw from OnAttach.
Reconcile(offered, match) ==
  LET wanted == offered \cap match
      gone == provided \ wanted
      added == wanted \ (provided \cup (bound \ gone))
  IN /\ Rebind(gone, added)
     /\ provided' = (provided \ gone) \cup added

-----------------------------------------------------------------------------
(* The session.                                                             *)

\* A new runtime opens the workspace: the state file is loaded, nothing is
\* attached, and plugins may register their providers.
Open ==
  /\ phase = "closed" /\ sessions < MaxSessions
  /\ phase' = "loaded"
  /\ sessions' = sessions + 1 /\ changes' = 0
  /\ kept' = disk
  /\ providers' = {} /\ provided' = {}
  /\ bound' = {} /\ attached' = {} /\ restored' = {} /\ opened' = {}
  /\ subscribed' = {} /\ memory' = Nothing
  /\ UNCHANGED <<failures, matched, disk, latest, spoiled>>

\* InitializeWorkspace: attach and restore, with nothing bound yet, and the
\* first Refresh, which binds what the providers offer and opens it.
InitializeWorkspace ==
  /\ phase = "loaded"
  /\ phase' = "open"
  /\ Reconcile(providers, matched)
  /\ UNCHANGED <<sessions, changes, providers, matched, disk, latest>>

\* RegisterComponentProvider and the handle that removes it again, both of
\* which reconcile when a project is attached.
RegisterComponentProvider(c) ==
  /\ Change /\ phase \in {"loaded", "open"} /\ c \notin providers
  /\ providers' = providers \cup {c}
  /\ IF phase = "open"
       THEN Reconcile(providers', matched) /\ UNCHANGED <<disk, latest>>
       ELSE UNCHANGED <<failures, provided, entries, states>>
  /\ UNCHANGED <<phase, sessions, matched>>

RemoveComponentProvider(c) ==
  /\ Change /\ phase \in {"loaded", "open"} /\ c \in providers
  /\ providers' = providers \ {c}
  /\ IF phase = "open"
       THEN Reconcile(providers', matched) /\ UNCHANGED <<disk, latest>>
       ELSE UNCHANGED <<failures, provided, entries, states>>
  /\ UNCHANGED <<phase, sessions, matched>>

\* Refresh: the model is rebuilt, another set of providers matches it, and
\* components that could not open the project before are not asked again.
Refresh ==
  /\ Change /\ phase = "open"
  /\ \E M \in SUBSET Ids :
       /\ M # matched
       /\ matched' = M
       /\ Reconcile(providers, M)
  /\ UNCHANGED <<phase, sessions, providers, disk, latest>>

\* BindComponent and UnbindComponent, as the desktop client calls them for
\* components of its own.
BindComponent(c) ==
  /\ Change /\ phase = "open"
  /\ Rebind({c}, {c})
  /\ UNCHANGED <<phase, sessions, manager, disk, latest>>

UnbindComponent(c) ==
  /\ Change /\ phase = "open" /\ c \in bound
  /\ Rebind({c}, {})
  /\ UNCHANGED <<phase, sessions, manager, disk, latest>>

\* The component's state changes while it lives.  (What becomes of a component
\* that has thrown from a state callback is not followed.)
Edit(c) ==
  /\ phase = "open" /\ c \in attached \ spoiled /\ latest[c] < MaxEdits
  /\ memory' = [memory EXCEPT ![c] = latest[c] + 1]
  /\ latest' = [latest EXCEPT ![c] = latest[c] + 1]
  /\ UNCHANGED <<phase, bounds, manager, entries, kept, disk, spoiled>>

\* What the state file gets: components that are gone keep what was kept.
SaveAll(NoSave) ==
  [c \in Ids |-> IF c \in bound \ NoSave THEN memory[c] ELSE kept[c]]

\* The file stays as it was when its directory or the file cannot be opened,
\* and is read as no state at all when the disk fills up after it has been
\* truncated.  Nobody looks at the result.
NotWritten == disk' \in {disk, Nothing} /\ latest' = disk'

\* Close: CloseProject, SaveProject, the state file, DetachProject.
Close ==
  /\ phase \in {"loaded", "open"}
  /\ phase' = "closed"
  /\ \E NoSave \in Throwing(bound), refused \in {0, 1} :
       /\ IF refused = 0 THEN disk' = SaveAll(NoSave) /\ latest' = latest
                         ELSE NotWritten
       /\ spoiled' = spoiled \cup NoSave
       /\ failures' = failures + Cardinality(NoSave) + refused
       /\ failures' <= MaxFailures
  /\ opened' = {} /\ attached' = {} /\ subscribed' = {}
  /\ UNCHANGED <<sessions, changes, manager, bound, restored, memory, kept>>

Next ==
  \/ Open \/ InitializeWorkspace \/ Refresh \/ Close
  \/ \E c \in Ids :
       \/ RegisterComponentProvider(c) \/ RemoveComponentProvider(c)
       \/ BindComponent(c) \/ UnbindComponent(c) \/ Edit(c)

Spec == Init /\ [][Next]_vars

-----------------------------------------------------------------------------
TypeOK ==
  /\ phase \in {"closed", "loaded", "open"}
  /\ sessions \in 0 .. MaxSessions
  /\ changes \in 0 .. MaxChanges
  /\ failures \in 0 .. MaxFailures
  /\ providers \subseteq Ids /\ matched \subseteq Ids /\ provided \subseteq Ids
  /\ bound \subseteq Ids /\ attached \subseteq Ids /\ restored \subseteq Ids
  /\ opened \subseteq Ids /\ subscribed \subseteq Ids
  /\ memory \in [Ids -> 0 .. MaxEdits]
  /\ kept \in [Ids -> 0 .. MaxEdits]
  /\ disk \in [Ids -> 0 .. MaxEdits]
  /\ latest \in [Ids -> 0 .. MaxEdits]
  /\ spoiled \subseteq Ids

(***************************************************************************)
(* What is told about the project is told in order: only an attached       *)
(* component has the project open or gets events, and only a bound one is  *)
(* attached, whichever callbacks threw on the way (project.cpp:389-480).   *)
(***************************************************************************)
LifecycleOrder ==
  /\ opened \subseteq attached
  /\ subscribed \subseteq attached
  /\ attached \subseteq bound
  /\ phase = "open" => bound \subseteq attached
  /\ phase # "open" => attached = {}

ComponentsConsistent == TypeOK /\ LifecycleOrder

(***************************************************************************)
(* "Component state is owned by individual components and must survive     *)
(* unknown or missing plugins" (data-boundaries.md:113): after every       *)
(* session the state file has the last edit of every component, also of    *)
(* those whose provider left in between, was never registered in the last  *)
(* session, matched no more or whose component could not be attached.  Two *)
(* things are not promised: the state of a component that ever threw from  *)
(* SaveState or RestoreState (spoiled), and what a session had edited whose*)
(* state file could not be written (ClosingSaves).                         *)
(***************************************************************************)
StateSurvives ==
  phase = "closed" => \A c \in Ids \ spoiled : disk[c] = latest[c]

\* What the code does not give: that a session that ends has written what was
\* edited in it.  MCRunPersistence.cfg refutes it (project_state_store.cpp:90:
\* the result of Save is ignored at workspace_runtime.cpp:176).
ClosingSaves ==
  [][phase # "closed" /\ phase' = "closed"
       => \A c \in Ids \ spoiled' : disk'[c] = latest[c]]_vars

=============================================================================
