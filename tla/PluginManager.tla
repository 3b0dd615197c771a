---------------------------- MODULE PluginManager ----------------------------
(***************************************************************************)
(* The plugins of a workspace and what they register (plugin_manager.cpp,  *)
(* with the tables of command_registry.cpp and agent_tool_registry.cpp).   *)
(*                                                                         *)
(* Every operation runs on the main thread; what interleaves with them are *)
(* the ends of plugin processes.  A host activates the core plugins, then  *)
(* the external ones, and later reloads, unloads and asks for the state of *)
(* plugins.  An activation pass goes through the manifests one by one,     *)
(* since what one plugin registers decides whether the next is activated.  *)
(* The states Activating and Deactivating are not seen between operations  *)
(* and left out; the request protocol is in PluginProcessHost.             *)
(***************************************************************************)
EXTENDS Integers, Sequences

CONSTANTS
  Plugins,        \* identifiers of manifests, not Nobody
  Order,          \* the sequence in which Scan found them
  Core,           \* those of runtime kind "core"; the others are processes
  Names,          \* identifiers of commands and tools
  Tools,          \* those of tools
  Provides,       \* what each plugin registers
  WaitsFor,       \* the commands of each plugin's onCommand events
  MaxOperations   \* bound: how many operations follow the first activation

Nobody == "nobody"

VARIABLES
  lifecycle,   \* PluginManager::lifecycle_, its states
  sessions,    \* the plugins of active_sessions_
  owner,       \* whose handler each name has in its service's table
  alive,       \* the plugins whose process runs
  pass,        \* the activation pass the manager is in
  index,       \* the manifest it comes to next
  attempted,   \* the plugins the pass has tried to activate
  activated,   \* whether this round of the pass has activated one
  operations,  \* how many operations were begun after the first activation
  newest       \* who registered each name last (history)

tables == <<owner, newest>>
position == <<pass, index, attempted, activated>>
vars == <<lifecycle, sessions, tables, alive, position, operations>>

Init ==
  /\ lifecycle = [p \in Plugins |-> "Discovered"]
  /\ sessions = {} /\ alive = {}
  /\ owner = [n \in Names |-> Nobody]
  /\ newest = [n \in Names |-> Nobody]
  /\ pass = "core" /\ index = 1
  /\ attempted = {} /\ activated = FALSE
  /\ operations = 0

-----------------------------------------------------------------------------
(* The tables.                                                              *)

\* Registering replaces what the name had.
Registered(S, p) == [n \in Names |-> IF n \in S THEN p ELSE owner[n]]

\* PluginActivationState::Clear: every handle is unregistered.  A tool's handle
\* removes its own registration; a command's removes whatever has the name.
\* Mutant: the registration of a tool is not compared either.
ErasesAnyway(n, P) == TRUE
Erases(n, P) == n \in Tools => owner[n] \in P
Cleared(P) ==
  [n \in Names |-> IF (\E p \in P : n \in Provides[p]) /\ Erases(n, P)
                     THEN Nobody ELSE owner[n]]

Available == {n \in Names : owner[n] # Nobody}

\* ShouldActivate, for plugins without events and those that wait for commands.
ShouldActivate(p) == WaitsFor[p] = {} \/ WaitsFor[p] \cap Available # {}

-----------------------------------------------------------------------------
(* Activation.                                                              *)

Current == Order[index]
InRound == index <= Len(Order)

Activated(p) ==
  /\ sessions' = sessions \cup {p}
  /\ owner' = Registered(Provides[p], p)
  /\ newest' = [n \in Names |-> IF n \in Provides[p] THEN p ELSE newest[n]]
  /\ lifecycle' = [lifecycle EXCEPT ![p] = "Active"]

\* ActivateCorePlugins passes over a plugin of another kind, one that is
\* active, one it has tried and one whose events have not come.
Passed(p) == p \notin Core \/ p \in sessions \/ p \in attempted \/ ~ShouldActivate(p)

SkipCore ==
  /\ pass = "core" /\ InRound /\ Passed(Current)
  /\ index' = index + 1
  /\ UNCHANGED <<lifecycle, sessions, tables, alive, pass, attempted, activated,
                 operations>>

ActivateCore ==
  /\ pass = "core" /\ InRound /\ ~Passed(Current)
  /\ Activated(Current)
  /\ attempted' = attempted \cup {Current}
  /\ activated' = TRUE
  /\ index' = index + 1
  /\ UNCHANGED <<alive, pass, operations>>

\* The plugin is not compatible or unknown, or its Activate throws after it
\* has registered some of what it provides, which is cleared.
FailCore ==
  /\ pass = "core" /\ InRound /\ ~Passed(Current)
  /\ \E S \in SUBSET Provides[Current] :
       /\ owner' = [n \in Names |-> IF n \in S THEN Nobody ELSE owner[n]]
       /\ newest' = [n \in Names |-> IF n \in S THEN Current ELSE newest[n]]
  /\ lifecycle' = [lifecycle EXCEPT ![Current] = "Failed"]
  /\ attempted' = attempted \cup {Current}
  /\ index' = index + 1
  /\ UNCHANGED <<sessions, alive, pass, activated, operations>>

\* The manifests are gone through again while that has activated a plugin.
\* Mutant: once.
OneRound == FALSE
Again == activated
NextRound ==
  /\ pass = "core" /\ ~InRound /\ Again
  /\ index' = 1 /\ activated' = FALSE
  /\ UNCHANGED <<lifecycle, sessions, tables, alive, pass, attempted, operations>>

\* ReconcileProcessHealth: sessions whose process has ended are cleared.
Ended == {p \in sessions \ Core : p \notin alive}
ReconcileProcessHealth ==
  /\ owner' = Cleared(Ended)
  /\ sessions' = sessions \ Ended
  /\ lifecycle' = [p \in Plugins |-> IF p \in Ended THEN "Failed" ELSE lifecycle[p]]
  /\ UNCHANGED <<newest, alive>>

\* The host goes on with ActivateExternalPlugins.
BeginExternal ==
  /\ pass = "core" /\ ~InRound /\ ~Again
  /\ pass' = "external" /\ index' = 1 /\ attempted' = {}
  /\ activated' = FALSE
  /\ ReconcileProcessHealth
  /\ UNCHANGED operations

SkipExternal ==
  /\ pass = "external" /\ InRound
  /\ Current \in Core \cup sessions \/ ~ShouldActivate(Current)
  /\ index' = index + 1
  /\ UNCHANGED <<lifecycle, sessions, tables, alive, pass, attempted, activated,
                 operations>>

\* ActivateExternalPlugin, with its two outcomes.
StartPlugin(p) ==
  \/ Activated(p) /\ alive' = alive \cup {p}
  \/ /\ lifecycle' = [lifecycle EXCEPT ![p] = "Failed"]
     /\ UNCHANGED <<sessions, tables, alive>>

ActivateExternal ==
  /\ pass = "external" /\ InRound
  /\ Current \notin Core \cup sessions /\ ShouldActivate(Current)
  /\ StartPlugin(Current)
  /\ attempted' = attempted \cup {Current}
  /\ index' = index + 1
  /\ UNCHANGED <<pass, activated, operations>>

FinishExternal ==
  /\ pass = "external" /\ ~InRound
  /\ pass' = "idle" /\ index' = 1 /\ attempted' = {}
  /\ UNCHANGED <<lifecycle, sessions, tables, alive, activated, operations>>

-----------------------------------------------------------------------------
(* Operations of the hosts between activations.                             *)

Operation == pass = "idle" /\ operations < MaxOperations /\ operations' = operations + 1

\* ReloadCorePlugins: DeactivateAll and Scan, then the passes.
ReloadCorePlugins ==
  /\ Operation
  /\ owner' = Cleared(sessions)
  /\ sessions' = {} /\ alive' = {}
  /\ lifecycle' = [p \in Plugins |-> "Discovered"]
  /\ pass' = "core" /\ index' = 1 /\ attempted' = {} /\ activated' = FALSE
  /\ UNCHANGED newest

\* A built-in plugin is not unloaded.  Mutant: what it registered stays.
UnloadLeavesHandlers(p) ==
  /\ Operation /\ p \in sessions \ Core
  /\ sessions' = sessions \ {p} /\ alive' = alive \ {p}
  /\ lifecycle' = [lifecycle EXCEPT ![p] = "Inactive"]
  /\ UNCHANGED <<position, tables>>
UnloadPlugin(p) ==
  /\ Operation /\ p \in sessions \ Core
  /\ owner' = Cleared({p})
  /\ sessions' = sessions \ {p} /\ alive' = alive \ {p}
  /\ lifecycle' = [lifecycle EXCEPT ![p] = "Inactive"]
  /\ UNCHANGED <<position, newest>>

\* ReloadPlugin of a process plugin: health, unload if it is active, activate.
\* The events of its manifest are not asked.
ReloadPlugin(p) ==
  /\ Operation /\ p \notin Core
  /\ LET gone == Ended \cup ({p} \cap sessions)
         left == Cleared(gone)
     IN \E ok \in BOOLEAN :
          /\ sessions' = (sessions \ gone) \cup (IF ok THEN {p} ELSE {})
          /\ alive' = (alive \ {p}) \cup (IF ok THEN {p} ELSE {})
          /\ owner' = [n \in Names |->
                         IF ok /\ n \in Provides[p] THEN p ELSE left[n]]
          /\ newest' = [n \in Names |->
                          IF ok /\ n \in Provides[p] THEN p ELSE newest[n]]
          /\ lifecycle' = [q \in Plugins |->
               CASE q = p -> IF ok THEN "Active" ELSE "Failed"
                 [] q \in Ended \ {p} -> "Failed"
                 [] OTHER -> lifecycle[q]]
  /\ UNCHANGED position

\* ReloadPlugin of a name without a manifest: the directory is scanned again,
\* which forgets the states of the plugins that are active.
ReloadUnknown ==
  /\ Operation
  /\ owner' = Cleared(Ended)
  /\ sessions' = sessions \ Ended
  /\ lifecycle' = [p \in Plugins |-> "Discovered"]
  /\ UNCHANGED <<newest, alive, position>>

\* PluginLifecycle.
QueryLifecycle ==
  /\ Operation
  /\ ReconcileProcessHealth
  /\ UNCHANGED position

\* The process of a plugin ends.
ProcessEnds(p) ==
  /\ p \in alive
  /\ alive' = alive \ {p}
  /\ UNCHANGED <<lifecycle, sessions, tables, position, operations>>

-----------------------------------------------------------------------------
Pass ==
  \/ SkipCore \/ ActivateCore \/ FailCore \/ NextRound
  \/ BeginExternal \/ SkipExternal \/ ActivateExternal \/ FinishExternal

Next ==
  \/ Pass \/ ReloadCorePlugins \/ ReloadUnknown \/ QueryLifecycle
  \/ \E p \in Plugins : UnloadPlugin(p) \/ ReloadPlugin(p) \/ ProcessEnds(p)

Spec == Init /\ [][Next]_vars

-----------------------------------------------------------------------------
TypeOK ==
  /\ lifecycle \in [Plugins -> {"Discovered", "Active", "Inactive", "Failed"}]
  /\ sessions \subseteq Plugins /\ alive \subseteq Plugins
  /\ owner \in [Names -> Plugins \cup {Nobody}]
  /\ newest \in [Names -> Plugins \cup {Nobody}]
  /\ pass \in {"core", "external", "idle"}
  /\ index \in 1 .. Len(Order) + 1
  /\ attempted \subseteq Plugins
  /\ activated \in BOOLEAN
  /\ operations \in 0 .. MaxOperations

\* A command or tool never leads to a plugin without a session, whose host is
\* gone (Clear in UnloadPlugin, DeactivateAll and ReconcileProcessHealth).
HandlersHaveTheirPlugin == \A n \in Names : owner[n] \in sessions \cup {Nobody}

\* The manager calls no plugin active that has no session.
ActiveHasSession == \A p \in Plugins : lifecycle[p] = "Active" => p \in sessions

\* What the runs check of every state.
ManagerConsistent == TypeOK /\ HandlersHaveTheirPlugin /\ ActiveHasSession

\* When the core pass is over, no core plugin whose event has come was left
\* out, in whatever order the manifests were found (ActivateCorePlugins).
NoneLeftBehind ==
  pass = "core" /\ ~InRound /\ ~Again =>
    \A p \in Core : ShouldActivate(p) => p \in sessions \cup attempted

\* Whoever registered a tool last keeps it while its session lasts, also when
\* an earlier owner of the name goes (AgentToolRegistry).
NewestToolStays ==
  \A n \in Tools : newest[n] \in sessions => owner[n] = newest[n]

\* docs/architecture/services.md:142: "Plugin activation is driven by
\* activation events such as startup, workspace file presence, language
\* availability, and command availability."  External plugins are gone through
\* once, so that one found before the plugin whose command it waits for is
\* not activated.
AvailableCommandsActivate ==
  pass = "external" /\ ~InRound =>
    \A p \in Plugins \ Core : ShouldActivate(p) => p \in sessions \cup attempted
=============================================================================
