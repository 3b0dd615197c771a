-------------------------- MODULE RunConfigurations --------------------------
(***************************************************************************)
(* The run configurations of a project through several sessions: the table *)
(* of RunConfigurationService and the component ProjectRunConfigurations   *)
(* (run_configuration.cpp).  Only a configuration's provider can read and  *)
(* write its data, and providers come and go with their plugins.           *)
(*                                                                         *)
(* The data of a configuration is the number of its last edit, 0 for what  *)
(* a provider makes of an empty object.  ProjectComponents has what happens*)
(* to the component's state around RestoreState and SaveState, also when   *)
(* the state file cannot be written, which is taken to succeed here.       *)
(***************************************************************************)
EXTENDS Integers, FiniteSets

CONSTANTS
  Configurations,  \* identifiers of configurations
  Providers,       \* identifiers of providers
  ProviderOf,      \* the provider each configuration names
  MaxSessions,     \* bound: how often the project is opened
  MaxEdits,        \* bound: how often one configuration is edited
  MaxChanges       \* bound: how often providers come and go in a session

VARIABLES
  phase,       \* how far the session has come
  sessions,    \* how many sessions there were
  changes,     \* registrations and removals in this session
  providers,   \* RunConfigurationServiceImpl::providers_
  present,     \* the keys of ProjectRunConfigurations::configurations_
  temporary,   \* those of them that are temporary
  data,        \* their data
  saved,       \* the identifiers in the component's saved state
  disk,        \* and the data there
  wanted,      \* what the user has, that is not temporary (history)
  latest,      \* its last edit (history)
  orphaned     \* configurations whose provider was absent when they were
               \* restored or saved (history)

vars == <<phase, sessions, changes, providers, present, temporary, data, saved,
          disk, wanted, latest, orphaned>>

Nothing == [c \in Configurations |-> 0]

Provider(c) == ProviderOf[c] \in providers

Init ==
  /\ phase = "closed" /\ sessions = 0 /\ changes = 0
  /\ providers = {} /\ present = {} /\ temporary = {} /\ data = Nothing
  /\ saved = {} /\ disk = Nothing
  /\ wanted = {} /\ latest = Nothing /\ orphaned = {}

\* A new session, before the plugins are activated.
Open ==
  /\ phase = "closed" /\ sessions < MaxSessions
  /\ phase' = "loaded" /\ sessions' = sessions + 1 /\ changes' = 0
  /\ providers' = {} /\ present' = {} /\ temporary' = {} /\ data' = Nothing
  /\ UNCHANGED <<saved, disk, wanted, latest, orphaned>>

RegisterProvider(p) ==
  /\ phase # "closed" /\ changes < MaxChanges /\ p \notin providers
  /\ providers' = providers \cup {p}
  /\ changes' = changes + 1
  /\ UNCHANGED <<phase, sessions, present, temporary, data, saved, disk, wanted,
                 latest, orphaned>>

RemoveProvider(p) ==
  /\ phase # "closed" /\ changes < MaxChanges /\ p \in providers
  /\ providers' = providers \ {p}
  /\ changes' = changes + 1
  /\ UNCHANGED <<phase, sessions, present, temporary, data, saved, disk, wanted,
                 latest, orphaned>>

\* RestoreState: a configuration gets its data from its provider, and one
\* without data is dropped.
RestoreState ==
  /\ phase = "loaded"
  /\ phase' = "open"
  /\ present' = {c \in saved : Provider(c)}
  /\ data' = [c \in Configurations |-> IF c \in present' THEN disk[c] ELSE 0]
  /\ orphaned' = orphaned \cup (saved \ present')
  /\ UNCHANGED <<sessions, changes, providers, temporary, saved, disk, wanted,
                 latest>>

\* AddConfiguration with data that the provider made or edited.
AddConfiguration(c, isTemporary) ==
  /\ phase = "open" /\ Provider(c) /\ latest[c] < MaxEdits
  /\ present' = present \cup {c}
  /\ data' = [data EXCEPT ![c] = latest[c] + 1]
  /\ latest' = [latest EXCEPT ![c] = latest[c] + 1]
  /\ temporary' = IF isTemporary THEN temporary \cup {c} ELSE temporary \ {c}
  /\ wanted' = IF isTemporary THEN wanted \ {c} ELSE wanted \cup {c}
  /\ orphaned' = orphaned \ {c}
  /\ UNCHANGED <<phase, sessions, changes, providers, saved, disk>>

RemoveConfiguration(c) ==
  /\ phase = "open" /\ c \in present
  /\ present' = present \ {c} /\ temporary' = temporary \ {c}
  /\ data' = [data EXCEPT ![c] = 0]
  /\ wanted' = wanted \ {c} /\ orphaned' = orphaned \ {c}
  /\ UNCHANGED <<phase, sessions, changes, providers, saved, disk, latest>>

\* SaveState, when the workspace closes: temporary configurations are left
\* out, and one without its provider is written without data.
\* Mutant: temporary ones are what is written.
SavedAll == present
SavedOnes == present \ temporary
SaveState ==
  /\ phase = "open"
  /\ phase' = "closed"
  /\ saved' = SavedOnes
  /\ disk' = [c \in Configurations |->
                IF c \in SavedOnes /\ Provider(c) THEN data[c] ELSE 0]
  /\ orphaned' = orphaned \cup {c \in SavedOnes : ~Provider(c)}
  /\ UNCHANGED <<sessions, changes, providers, present, temporary, data, wanted,
                 latest>>

Next ==
  \/ Open \/ RestoreState \/ SaveState
  \/ \E p \in Providers : RegisterProvider(p) \/ RemoveProvider(p)
  \/ \E c \in Configurations :
       \/ AddConfiguration(c, TRUE) \/ AddConfiguration(c, FALSE)
       \/ RemoveConfiguration(c)

Spec == Init /\ [][Next]_vars

-----------------------------------------------------------------------------
TypeOK ==
  /\ phase \in {"closed", "loaded", "open"}
  /\ sessions \in 0 .. MaxSessions /\ changes \in 0 .. MaxChanges
  /\ providers \subseteq Providers
  /\ present \subseteq Configurations /\ temporary \subseteq present
  /\ saved \subseteq Configurations /\ wanted \subseteq Configurations
  /\ {data, disk, latest} \subseteq [Configurations -> 0 .. MaxEdits]
  /\ orphaned \subseteq Configurations

\* c is in the saved state as the user left it.
IsSaved(c) == c \in saved /\ disk[c] = latest[c]

(***************************************************************************)
(* "ProjectRunConfigurations owns persisted run configurations as project  *)
(* state" (services.md:95): while providers are there for restoring and    *)
(* for saving, the file has what the user added and did not remove, as it  *)
(* was edited last, and nothing temporary (RestoreState, SaveState).       *)
(***************************************************************************)
KeptWithTheirProviders ==
  phase = "closed" =>
    \A c \in Configurations \ orphaned :
      IF c \in wanted THEN IsSaved(c) ELSE c \notin saved

ConfigurationsConsistent == TypeOK /\ KeptWithTheirProviders

(***************************************************************************)
(* "Component state is owned by individual components and must survive     *)
(* unknown or missing plugins" (data-boundaries.md:113): the same without  *)
(* the condition.                                                          *)
(***************************************************************************)
ConfigurationsSurvive ==
  phase = "closed" => \A c \in wanted : IsSaved(c)
=============================================================================
