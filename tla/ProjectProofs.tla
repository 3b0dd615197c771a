---------------------------- MODULE ProjectProofs ----------------------------
(***************************************************************************)
(* No state of a project is lost.  First of its components, for any number *)
(* of components, sessions, providers and failures: the file is right      *)
(* after a session because the last edit is always in one known place,     *)
(* with the component while it is bound, and in what the project keeps     *)
(* while it is not.  Then of its run configurations, for any number of     *)
(* them and of their providers: a configuration whose provider was there   *)
(* when it mattered is where the user left it.                             *)
(***************************************************************************)
EXTENDS MCProject, FiniteSetTheorems, TLAPS

WhereStateIs ==
  \A c \in Ids \ spoiled :
    latest[c] = IF phase = "closed" THEN disk[c]
                ELSE IF c \in bound THEN memory[c] ELSE kept[c]

IInv ==
  /\ TypeOK
  /\ LifecycleOrder
  /\ WhereStateIs
  /\ phase = "loaded" => bound = {}

\* Nothing is in a state before it is first edited.
LEMMA InitIInv == Init => IInv
BY ComponentAssumption DEF Init, IInv, TypeOK, LifecycleOrder, WhereStateIs, Nothing

\* Counting those who throw.
LEMMA Counting == \A S \in SUBSET Ids : Cardinality(S) \in Nat
BY ComponentAssumption, FS_Subset, FS_CardinalityType

\* What is kept is a state of each component.
LEMMA KeptType ==
  ASSUME TypeOK, NEW S, NEW N
  PROVE  KeptAfter(S, N) \in [Ids -> 0 .. MaxEdits]
BY DEF TypeOK, KeptAfter

\* Binding and unbinding keep the invariant, if a component that is bound
\* already is unbound first.
LEMMA RebindStep ==
  ASSUME IInv, phase \in {"loaded", "open"}, phase' = "open",
         NEW Out \in SUBSET Ids, NEW In \in SUBSET Ids, In \cap bound \subseteq Out,
         Rebind(Out, In), latest' = latest
  PROVE  /\ failures' \in 0 .. MaxFailures
         /\ bound' \subseteq Ids /\ attached' \subseteq Ids /\ restored' \subseteq Ids
         /\ opened' \subseteq Ids /\ subscribed' \subseteq Ids /\ spoiled' \subseteq Ids
         /\ memory' \in [Ids -> 0 .. MaxEdits] /\ kept' \in [Ids -> 0 .. MaxEdits]
         /\ LifecycleOrder'
         /\ WhereStateIs'
<1>1. PICK NoSave \in Throwing(Out \cap bound), NoAttach \in Throwing(In) :
        \E NoRestore \in Throwing(In \ NoAttach), NoOpen \in Throwing(In \ NoAttach) :
          /\ failures + Cardinality(NoSave) + Cardinality(NoAttach)
               + Cardinality(NoRestore) + Cardinality(NoOpen) <= MaxFailures
          /\ Rebound(Out, In, NoSave, NoAttach, NoRestore, NoOpen)
  BY DEF Rebind
<1>2. PICK NoRestore \in Throwing(In \ NoAttach), NoOpen \in Throwing(In \ NoAttach) :
        /\ failures + Cardinality(NoSave) + Cardinality(NoAttach)
             + Cardinality(NoRestore) + Cardinality(NoOpen) <= MaxFailures
        /\ Rebound(Out, In, NoSave, NoAttach, NoRestore, NoOpen)
  BY <1>1
<1>3. /\ NoSave \subseteq Out \cap bound /\ NoAttach \subseteq In
      /\ NoRestore \subseteq In \ NoAttach /\ NoOpen \subseteq In \ NoAttach
  BY DEF Throwing
<1>4. TypeOK
  BY DEF IInv
<1> DEFINE ok == In \ NoAttach
           keep == KeptAfter(Out \cap bound, NoSave)
<1>5. /\ bound' = (bound \ Out) \cup ok
      /\ attached' = (attached \ Out) \cup ok
      /\ restored' = (restored \ Out) \cup ok
      /\ opened' = (opened \ Out) \cup (ok \ NoOpen)
      /\ subscribed' = (subscribed \ Out) \cup ok
      /\ kept' = keep
      /\ memory' = [c \in Ids |-> IF c \in ok \ NoRestore THEN keep[c]
                                  ELSE IF c \in Out \cup In THEN 0 ELSE memory[c]]
      /\ spoiled' = spoiled \cup (NoSave \cap Out) \cup (NoRestore \cap ok)
  BY <1>2 DEF Rebound, SubscribedAfter
<1>6. failures' \in 0 .. MaxFailures
  <2>1. /\ Cardinality(NoSave) \in Nat /\ Cardinality(NoAttach) \in Nat
        /\ Cardinality(NoRestore) \in Nat /\ Cardinality(NoOpen) \in Nat
    BY <1>3, Counting
  <2>2. failures' = failures + Cardinality(NoSave) + Cardinality(NoAttach)
                      + Cardinality(NoRestore) + Cardinality(NoOpen)
    BY <1>2 DEF Rebound
  <2> QED
    BY <1>2, <1>4, <2>1, <2>2, ComponentAssumption DEF TypeOK
<1>7. keep \in [Ids -> 0 .. MaxEdits]
  BY <1>4, KeptType
<1>8. \A c \in Ids : keep[c] = IF c \in (Out \cap bound) \ NoSave
                               THEN memory[c] ELSE kept[c]
  BY DEF KeptAfter
<1>9. memory' \in [Ids -> 0 .. MaxEdits] /\ kept' \in [Ids -> 0 .. MaxEdits]
  <2> HIDE DEF keep
  <2>1. 0 \in 0 .. MaxEdits
    BY ComponentAssumption
  <2> QED
    BY <1>4, <1>5, <1>7, <2>1 DEF TypeOK
<1>10. /\ bound' \subseteq Ids /\ attached' \subseteq Ids /\ restored' \subseteq Ids
       /\ opened' \subseteq Ids /\ subscribed' \subseteq Ids /\ spoiled' \subseteq Ids
  BY <1>3, <1>4, <1>5 DEF TypeOK
<1>11. LifecycleOrder'
  BY <1>3, <1>5 DEF IInv, LifecycleOrder
<1>12. WhereStateIs'
  <2> HIDE DEF keep
  <2> SUFFICES ASSUME NEW c \in Ids, c \notin spoiled'
               PROVE  latest[c] = IF c \in bound' THEN memory'[c] ELSE kept'[c]
    BY DEF WhereStateIs
  <2>1. c \notin spoiled /\ c \notin NoSave \cap Out /\ c \notin NoRestore \cap ok
    BY <1>5
  <2>2. latest[c] = IF c \in bound THEN memory[c] ELSE kept[c]
    BY <2>1 DEF IInv, WhereStateIs
  <2>3. CASE c \in bound \ Out
    <3>1. c \notin In
      BY <2>3
    <3> QED
      BY <1>5, <2>2, <2>3, <3>1
  <2>4. CASE c \notin bound \ Out
    <3>1. keep[c] = latest[c]
      BY <1>8, <1>3, <2>1, <2>2, <2>4
    <3> QED
      BY <1>5, <2>1, <2>4, <3>1
  <2> QED
    BY <2>3, <2>4
<1> QED
  BY <1>6, <1>9, <1>10, <1>11, <1>12

\* A reconciliation is such a step.
LEMMA ReconcileStep ==
  ASSUME IInv, phase \in {"loaded", "open"}, phase' = "open",
         NEW offered \in SUBSET Ids, NEW match \in SUBSET Ids,
         Reconcile(offered, match), latest' = latest
  PROVE  /\ failures' \in 0 .. MaxFailures
         /\ bound' \subseteq Ids /\ attached' \subseteq Ids /\ restored' \subseteq Ids
         /\ opened' \subseteq Ids /\ subscribed' \subseteq Ids /\ spoiled' \subseteq Ids
         /\ memory' \in [Ids -> 0 .. MaxEdits] /\ kept' \in [Ids -> 0 .. MaxEdits]
         /\ LifecycleOrder'
         /\ WhereStateIs'
         /\ provided' \subseteq Ids
<1> DEFINE gone == provided \ (offered \cap match)
           added == (offered \cap match) \ (provided \cup (bound \ gone))
<1>1. gone \subseteq Ids /\ added \subseteq Ids /\ added \cap bound \subseteq gone
  BY DEF IInv, TypeOK
<1>2. Rebind(gone, added) /\ provided' = (provided \ gone) \cup added
  BY DEF Reconcile
<1>3. provided' \subseteq Ids
  BY <1>1, <1>2 DEF IInv, TypeOK
<1> HIDE DEF gone, added
<1> QED
  BY <1>1, <1>2, <1>3, RebindStep

\* Every step keeps the invariant.
LEMMA StepIInv == IInv /\ [Next]_vars => IInv'
<1> SUFFICES ASSUME IInv, [Next]_vars PROVE IInv'
  OBVIOUS
<1>t. TypeOK
  BY DEF IInv
<1>1. CASE Open
  <2>1. WhereStateIs'
    BY <1>1 DEF Open, IInv, WhereStateIs
  <2>2. TypeOK'
    BY <1>1, <1>t, ComponentAssumption DEF Open, TypeOK, Nothing
  <2> QED
    BY <1>1, <2>1, <2>2 DEF Open, IInv, LifecycleOrder
<1>2. CASE InitializeWorkspace
  <2>1. /\ phase \in {"loaded", "open"} /\ phase' = "open" /\ latest' = latest
        /\ Reconcile(providers, matched)
    BY <1>2 DEF InitializeWorkspace
  <2>2. providers \in SUBSET Ids /\ matched \in SUBSET Ids
    BY <1>t DEF TypeOK
  <2>3. UNCHANGED <<sessions, changes, providers, matched, disk, latest>>
    BY <1>2 DEF InitializeWorkspace
  <2> QED
    BY <1>t, <2>1, <2>2, <2>3, ReconcileStep DEF IInv, TypeOK
<1>3. CASE Refresh
  <2>1. PICK M \in SUBSET Ids : matched' = M /\ Reconcile(providers, M)
    BY <1>3 DEF Refresh
  <2>2. /\ phase \in {"loaded", "open"} /\ phase' = "open"
        /\ UNCHANGED <<sessions, providers, disk, latest>>
    BY <1>3 DEF Refresh
  <2>3. changes' \in 0 .. MaxChanges
    BY <1>3, <1>t, ComponentAssumption DEF Refresh, Change, TypeOK
  <2>4. providers \in SUBSET Ids
    BY <1>t DEF TypeOK
  <2> QED
    BY <1>t, <2>1, <2>2, <2>3, <2>4, ReconcileStep DEF IInv, TypeOK
<1>4. CASE Close
  <2>1. PICK NoSave \in Throwing(bound), refused \in {0, 1} :
          /\ IF refused = 0 THEN disk' = SaveAll(NoSave) /\ latest' = latest
                            ELSE NotWritten
          /\ spoiled' = spoiled \cup NoSave
          /\ failures' = failures + Cardinality(NoSave) + refused
          /\ failures' <= MaxFailures
    BY <1>4 DEF Close
  <2>2. NoSave \subseteq bound
    BY DEF Throwing
  <2>3. /\ phase' = "closed" /\ opened' = {} /\ attached' = {} /\ subscribed' = {}
        /\ UNCHANGED <<sessions, changes, manager, bound, restored, memory, kept>>
    BY <1>4 DEF Close
  <2>5. failures' \in 0 .. MaxFailures
    <3>1. Cardinality(NoSave) \in Nat
      BY <1>t, <2>2, Counting DEF TypeOK
    <3> QED
      BY <1>t, <2>1, <3>1, ComponentAssumption DEF TypeOK
  <2>4. /\ disk' \in [Ids -> 0 .. MaxEdits] /\ latest' \in [Ids -> 0 .. MaxEdits]
        /\ \A c \in Ids \ spoiled' : latest'[c] = disk'[c]
    <3>1. CASE refused = 0
      <4>1. /\ disk' = [c \in Ids |-> IF c \in bound \ NoSave THEN memory[c] ELSE kept[c]]
            /\ latest' = latest
        BY <2>1, <3>1 DEF SaveAll
      <4>2. \A c \in Ids \ spoiled :
              latest[c] = IF c \in bound THEN memory[c] ELSE kept[c]
        BY <1>4 DEF IInv, WhereStateIs, Close
      <4> QED
        BY <1>t, <2>1, <4>1, <4>2 DEF TypeOK
    <3>2. CASE refused # 0
      <4>1. disk' \in {disk, Nothing} /\ latest' = disk'
        BY <2>1, <3>2 DEF NotWritten
      <4>2. Nothing \in [Ids -> 0 .. MaxEdits]
        BY ComponentAssumption DEF Nothing
      <4> QED
        BY <1>t, <4>1, <4>2 DEF TypeOK
    <3> QED
      BY <3>1, <3>2
  <2>6. WhereStateIs'
    BY <2>3, <2>4 DEF WhereStateIs
  <2>7. bound \subseteq Ids /\ spoiled' \subseteq Ids
    BY <1>t, <2>1, <2>2 DEF TypeOK
  <2>8. TypeOK'
    BY <1>t, <2>3, <2>4, <2>5, <2>7 DEF TypeOK, manager
  <2> QED
    BY <2>3, <2>6, <2>8 DEF IInv, LifecycleOrder
<1>5. ASSUME NEW c \in Ids, RegisterComponentProvider(c) \/ RemoveComponentProvider(c)
      PROVE  IInv'
  <2>1. providers' \in SUBSET Ids /\ matched \in SUBSET Ids
    BY <1>t, <1>5 DEF TypeOK, RegisterComponentProvider, RemoveComponentProvider
  <2>2. changes' \in 0 .. MaxChanges
    BY <1>t, <1>5, ComponentAssumption
       DEF TypeOK, Change, RegisterComponentProvider, RemoveComponentProvider
  <2>3. /\ phase \in {"loaded", "open"}
        /\ UNCHANGED <<phase, sessions, matched>>
    BY <1>5 DEF RegisterComponentProvider, RemoveComponentProvider
  <2>4. CASE phase = "open"
    <3>1. Reconcile(providers', matched) /\ UNCHANGED <<disk, latest>>
      BY <1>5, <2>4 DEF RegisterComponentProvider, RemoveComponentProvider
    <3> QED
      BY <1>t, <2>1, <2>2, <2>3, <2>4, <3>1, ReconcileStep DEF IInv, TypeOK
  <2>5. CASE phase # "open"
    <3>1. UNCHANGED <<failures, provided, entries, states>>
      BY <1>5, <2>5 DEF RegisterComponentProvider, RemoveComponentProvider
    <3>2. UNCHANGED <<bound, attached, restored, opened, subscribed, memory, kept,
                      disk, latest, spoiled>>
      BY <3>1 DEF entries, states
    <3> QED
      BY <1>t, <2>1, <2>2, <2>3, <3>1, <3>2
         DEF IInv, TypeOK, LifecycleOrder, WhereStateIs
  <2> QED
    BY <2>4, <2>5
<1>6. ASSUME NEW c \in Ids, BindComponent(c) \/ UnbindComponent(c)
      PROVE  IInv'
  <2>1. PICK In \in {{c}, {}} : Rebind({c}, In)
    BY <1>6 DEF BindComponent, UnbindComponent
  <2>2. /\ phase \in {"loaded", "open"} /\ phase' = "open"
        /\ UNCHANGED <<phase, sessions, providers, matched, provided, disk, latest>>
    BY <1>6 DEF BindComponent, UnbindComponent, manager
  <2>3. changes' \in 0 .. MaxChanges
    BY <1>t, <1>6, ComponentAssumption DEF TypeOK, Change, BindComponent, UnbindComponent
  <2>4. {c} \in SUBSET Ids /\ In \in SUBSET Ids /\ In \cap bound \subseteq {c}
    OBVIOUS
  <2> QED
    BY <1>t, <2>1, <2>2, <2>3, <2>4, RebindStep DEF IInv, TypeOK
<1>7. ASSUME NEW c \in Ids, Edit(c) PROVE IInv'
  <2>1. /\ c \in attached \ spoiled /\ latest[c] < MaxEdits /\ phase = "open"
        /\ memory' = [memory EXCEPT ![c] = latest[c] + 1]
        /\ latest' = [latest EXCEPT ![c] = latest[c] + 1]
    BY <1>7 DEF Edit
  <2>2. UNCHANGED <<phase, sessions, changes, failures, providers, matched, provided,
                    bound, attached, restored, opened, subscribed, kept, disk, spoiled>>
    BY <1>7 DEF Edit, bounds, manager, entries
  <2>3. latest[c] + 1 \in 0 .. MaxEdits
    BY <1>t, <2>1, ComponentAssumption DEF TypeOK
  <2>4. memory' \in [Ids -> 0 .. MaxEdits] /\ latest' \in [Ids -> 0 .. MaxEdits]
    BY <1>t, <2>1, <2>3 DEF TypeOK
  <2>5. TypeOK'
    BY <1>t, <2>2, <2>4 DEF TypeOK
  <2>6. WhereStateIs'
    BY <1>t, <2>1, <2>2 DEF IInv, WhereStateIs, TypeOK, LifecycleOrder
  <2> QED
    BY <2>1, <2>2, <2>5, <2>6 DEF IInv, LifecycleOrder
<1>8. CASE UNCHANGED vars
  BY <1>8 DEF vars, bounds, manager, entries, states, IInv, TypeOK, LifecycleOrder,
     WhereStateIs
<1> QED
  BY <1>1, <1>2, <1>3, <1>4, <1>5, <1>6, <1>7, <1>8 DEF Next

\* The invariant holds in every state.
LEMMA IInvHolds == Spec => []IInv
BY InitIInv, StepIInv, PTL DEF Spec

\* Components are attached, opened, closed and detached in that order whatever
\* throws (Project::Components).
THEOREM StaysConsistent == Spec => []ComponentsConsistent
<1>1. IInv => ComponentsConsistent
  BY DEF IInv, ComponentsConsistent
<1> QED
  BY <1>1, IInvHolds, PTL

\* After every session the state file has the last state of every component
\* that has not thrown from a callback for it, unless the file could not be
\* written (SaveAll, Unbind, RestoreEntry, Close).
THEOREM StateSurvivesHolds == Spec => []StateSurvives
<1>1. IInv => StateSurvives
  BY DEF IInv, WhereStateIs, StateSurvives
<1> QED
  BY <1>1, IInvHolds, PTL

-----------------------------------------------------------------------------
(* Run configurations.                                                     *)

\* Where a configuration is that its provider was always there for: in the
\* saved state until a session restores it, in the table while it runs.
WhereConfigurationsAre ==
  \A c \in Configurations \ orphaned :
    IF runPhase = "open"
      THEN /\ c \in wanted <=> c \in present \ temporary
           /\ c \in wanted => data[c] = runLatest[c]
      ELSE IF c \in wanted THEN Runs!IsSaved(c) ELSE c \notin saved

RunInv ==
  /\ Runs!TypeOK
  /\ WhereConfigurationsAre
  /\ runPhase = "loaded" => present = {} /\ temporary = {}

\* TypeOK of RunConfigurations, one variable at a time.
LEMMA RunTypes ==
  Runs!TypeOK <=>
    /\ runPhase \in {"closed", "loaded", "open"}
    /\ runSessions \in 0 .. RunSessions /\ runChanges \in 0 .. RunChanges
    /\ runProviders \subseteq Providers
    /\ present \subseteq Configurations /\ temporary \subseteq present
    /\ saved \subseteq Configurations /\ wanted \subseteq Configurations
    /\ data \in [Configurations -> 0 .. RunEdits]
    /\ runDisk \in [Configurations -> 0 .. RunEdits]
    /\ runLatest \in [Configurations -> 0 .. RunEdits]
    /\ orphaned \subseteq Configurations
BY DEF Runs!TypeOK

LEMMA RunInitially == Runs!Init => RunInv
<1> SUFFICES ASSUME Runs!Init PROVE RunInv
  OBVIOUS
<1>1. Runs!Nothing \in [Configurations -> 0 .. RunEdits]
  BY RunAssumption DEF Runs!Nothing
<1>2. Runs!TypeOK
  BY <1>1, RunAssumption, RunTypes DEF Runs!Init
<1> QED BY <1>2 DEF Runs!Init, RunInv, WhereConfigurationsAre

\* Sessions begin and end.
LEMMA SessionKeeps ==
  ASSUME RunInv, Runs!Open \/ Runs!RestoreState \/ Runs!SaveState
  PROVE  RunInv'
<1>1. CASE Runs!Open
  <2>1. Runs!Nothing \in [Configurations -> 0 .. RunEdits]
    BY RunAssumption DEF Runs!Nothing
  <2>2. runSessions + 1 \in 0 .. RunSessions
    BY <1>1, RunAssumption, RunTypes DEF Runs!Open, RunInv, Runs!TypeOK
  <2>3. Runs!TypeOK'
    BY <1>1, <2>1, <2>2, RunAssumption, RunTypes DEF Runs!Open, RunInv, Runs!TypeOK
  <2>4. WhereConfigurationsAre'
    BY <1>1 DEF Runs!Open, RunInv, WhereConfigurationsAre, Runs!IsSaved
  <2> QED BY <1>1, <2>3, <2>4 DEF Runs!Open, RunInv
<1>2. CASE Runs!RestoreState
  <2>1. present' \subseteq Configurations /\ orphaned' \subseteq Configurations
    BY <1>2, RunTypes DEF Runs!RestoreState, RunInv, Runs!TypeOK
  <2>2. data' \in [Configurations -> 0 .. RunEdits]
    BY <1>2, RunAssumption, RunTypes DEF Runs!RestoreState, RunInv, Runs!TypeOK
  <2>3. Runs!TypeOK'
    BY <1>2, <2>1, <2>2, RunTypes DEF Runs!RestoreState, RunInv, Runs!TypeOK
  <2>4. WhereConfigurationsAre'
    BY <1>2 DEF Runs!RestoreState, RunInv, WhereConfigurationsAre, Runs!IsSaved
  <2> QED BY <1>2, <2>3, <2>4 DEF Runs!RestoreState, RunInv
<1>3. CASE Runs!SaveState
  <2>1. saved' \subseteq Configurations /\ orphaned' \subseteq Configurations
    BY <1>3, RunTypes DEF Runs!SaveState, Runs!SavedOnes, RunInv, Runs!TypeOK
  <2>2. runDisk' \in [Configurations -> 0 .. RunEdits]
    BY <1>3, RunAssumption, RunTypes DEF Runs!SaveState, RunInv, Runs!TypeOK
  <2>3. Runs!TypeOK'
    BY <1>3, <2>1, <2>2, RunTypes DEF Runs!SaveState, RunInv, Runs!TypeOK
  <2>4. WhereConfigurationsAre'
    BY <1>3 DEF Runs!SaveState, Runs!SavedOnes, RunInv, WhereConfigurationsAre, Runs!IsSaved
  <2> QED BY <1>3, <2>3, <2>4 DEF Runs!SaveState, RunInv
<1> QED BY <1>1, <1>2, <1>3

\* The user adds and removes configurations, plugins their providers.
LEMMA EditKeeps ==
  ASSUME RunInv,
         \/ \E p \in Providers : Runs!RegisterProvider(p) \/ Runs!RemoveProvider(p)
         \/ \E c \in Configurations :
              \/ Runs!AddConfiguration(c, TRUE) \/ Runs!AddConfiguration(c, FALSE)
              \/ Runs!RemoveConfiguration(c)
  PROVE  RunInv'
<1>1. ASSUME NEW p \in Providers, Runs!RegisterProvider(p) \/ Runs!RemoveProvider(p)
      PROVE  RunInv'
  <2>1. runProviders' \subseteq Providers /\ runChanges' \in 0 .. RunChanges
    BY <1>1, RunAssumption, RunTypes DEF Runs!RegisterProvider, Runs!RemoveProvider, RunInv, Runs!TypeOK
  <2>2. UNCHANGED <<runPhase, runSessions, present, temporary, data, saved, runDisk, wanted,
                    runLatest, orphaned>>
    BY <1>1 DEF Runs!RegisterProvider, Runs!RemoveProvider
  <2> QED BY <2>1, <2>2, RunTypes DEF RunInv, Runs!TypeOK, WhereConfigurationsAre, Runs!IsSaved
<1>2. ASSUME NEW c \in Configurations, NEW b \in BOOLEAN, Runs!AddConfiguration(c, b)
      PROVE  RunInv'
  <2>1. runLatest[c] + 1 \in 0 .. RunEdits
    BY <1>2, RunAssumption, RunTypes DEF Runs!AddConfiguration, RunInv, Runs!TypeOK
  <2>2. /\ data' \in [Configurations -> 0 .. RunEdits]
        /\ runLatest' \in [Configurations -> 0 .. RunEdits]
    BY <1>2, <2>1, RunTypes DEF Runs!AddConfiguration, RunInv, Runs!TypeOK
  <2>3. Runs!TypeOK'
    BY <1>2, <2>2, RunTypes DEF Runs!AddConfiguration, RunInv, Runs!TypeOK
  <2>4. WhereConfigurationsAre'
    BY <1>2, RunTypes DEF Runs!AddConfiguration, RunInv, WhereConfigurationsAre
  <2> QED BY <1>2, <2>3, <2>4 DEF Runs!AddConfiguration, RunInv
<1>3. ASSUME NEW c \in Configurations, Runs!RemoveConfiguration(c)
      PROVE  RunInv'
  <2>1. data' \in [Configurations -> 0 .. RunEdits]
    BY <1>3, RunAssumption, RunTypes DEF Runs!RemoveConfiguration, RunInv, Runs!TypeOK
  <2>2. Runs!TypeOK'
    BY <1>3, <2>1, RunTypes DEF Runs!RemoveConfiguration, RunInv, Runs!TypeOK
  <2>3. WhereConfigurationsAre'
    BY <1>3, RunTypes DEF Runs!RemoveConfiguration, RunInv, WhereConfigurationsAre
  <2> QED BY <1>3, <2>2, <2>3 DEF Runs!RemoveConfiguration, RunInv
<1> QED BY <1>1, <1>2, <1>3

LEMMA RunStepKeeps == RunInv /\ [Runs!Next]_(Runs!vars) => RunInv'
<1>1. ASSUME RunInv, UNCHANGED Runs!vars PROVE RunInv'
  BY <1>1, RunTypes DEF Runs!vars, RunInv, Runs!TypeOK, WhereConfigurationsAre, Runs!IsSaved
<1> QED BY <1>1, SessionKeeps, EditKeeps DEF Runs!Next

\* While their providers are there for restoring and saving, the file has the
\* configurations the user has, as they were edited last, and no temporary
\* one, after every session (RestoreState, SaveState).
THEOREM ConfigurationsKept == Runs!Spec => []ConfigurationsConsistent
<1>1. RunInv => ConfigurationsConsistent
  BY DEF RunInv, WhereConfigurationsAre, ConfigurationsConsistent,
         Runs!ConfigurationsConsistent, Runs!KeptWithTheirProviders
<1> QED BY <1>1, RunInitially, RunStepKeeps, PTL DEF Runs!Spec
=============================================================================
