------------------------------ MODULE MCProject ------------------------------
(***************************************************************************)
(* The state of a project for TLC, in two parts checked side by side: a    *)
(* behaviour is one of the components of the project (ProjectComponents)   *)
(* or one of the configurations that one of them holds (RunConfigurations),*)
(* two of one provider and one of another.  Components have no order among *)
(* them.                                                                   *)
(***************************************************************************)
EXTENDS ProjectComponents, TLC

CONSTANTS
  Configurations, Providers, ProviderOf, RunSessions, RunEdits, RunChanges

VARIABLES
  part, \* "components" or "configurations"
  runPhase, runSessions, runChanges, runProviders, present, temporary, data,
  saved, runDisk, wanted, runLatest, orphaned

Runs ==
  INSTANCE RunConfigurations
    WITH MaxSessions <- RunSessions, MaxEdits <- RunEdits, MaxChanges <- RunChanges,
         phase <- runPhase, sessions <- runSessions, changes <- runChanges,
         providers <- runProviders, disk <- runDisk, latest <- runLatest

ASSUME RunAssumption ==
  RunSessions \in Nat /\ RunEdits \in Nat /\ RunChanges \in Nat

runVars ==
  <<runPhase, runSessions, runChanges, runProviders, present, temporary, data,
    saved, runDisk, wanted, runLatest, orphaned>>

MCInit == part \in {"components", "configurations"} /\ Init /\ Runs!Init

TheComponents == part = "components" /\ Next /\ UNCHANGED <<part, runVars>>
TheConfigurations ==
  part = "configurations" /\ Runs!Next /\ UNCHANGED <<part, vars>>

MCSpec ==
  MCInit /\ [][TheComponents \/ TheConfigurations]_<<part, vars, runVars>>

-----------------------------------------------------------------------------
Interchangeable == Permutations(Ids)

MCProviderOf ==
  [c \in Configurations |-> IF c = "other" THEN "second" ELSE "first"]

\* The properties of RunConfigurations.
ConfigurationsConsistent == Runs!ConfigurationsConsistent
ConfigurationsSurvive == Runs!ConfigurationsSurvive
=============================================================================
