------------------------------ MODULE MCPlugins ------------------------------
(***************************************************************************)
(* Plugins for TLC, in two parts checked side by side: a behaviour is one  *)
(* of the host of a single plugin process (PluginProcessHost) or one of    *)
(* the manager with all its plugins (PluginManager).  The manager has two  *)
(* core plugins and two external ones, each pair found in the order that   *)
(* does not suit it; the external ones share the name of a tool.           *)
(***************************************************************************)
EXTENDS PluginProcessHost

CONSTANTS Plugins, Order, Core, Names, Tools, Provides, WaitsFor, MaxOperations

VARIABLES
  part, \* "host" or "manager"
  lifecycle, sessions, owner, alive, pass, index, attempted, activated,
  operations, newest

Manager == INSTANCE PluginManager

\* Scan found every plugin, and all that plugins name is named.
ASSUME ManagerAssumption ==
  /\ Core \subseteq Plugins /\ Tools \subseteq Names
  /\ Manager!Nobody \notin Plugins
  /\ Order \in Seq(Plugins)
  /\ \A p \in Plugins : \E i \in 1 .. Len(Order) : Order[i] = p
  /\ Provides \in [Plugins -> SUBSET Names]
  /\ WaitsFor \in [Plugins -> SUBSET Names]
  /\ MaxOperations \in Nat

managerVars ==
  <<lifecycle, sessions, owner, alive, pass, index, attempted, activated,
    operations, newest>>

MCInit == part \in {"host", "manager"} /\ Init /\ Manager!Init

AHost == part = "host" /\ Next /\ UNCHANGED <<part, managerVars>>
AManager == part = "manager" /\ Manager!Next /\ UNCHANGED <<part, vars>>

\* The fairness of PluginProcessHost; the manager has none.
MCSpec ==
  /\ MCInit
  /\ [][AHost \/ AManager]_<<part, vars, managerVars>>
  /\ WF_vars(part = "host" /\ Manage)
  /\ \A t \in Thread :
       /\ SF_vars(part = "host" /\ Send(t))
       /\ WF_vars(part = "host" /\ Write(t))
       /\ WF_vars(part = "host" /\ Poll(t))
       /\ WF_vars(part = "host" /\ Return(t))

-----------------------------------------------------------------------------
MCOrder == <<"waits", "gives", "late", "early">>
MCProvides ==
  [p \in Plugins |-> CASE p = "gives" -> {"x"}
                       [] p = "late"  -> {"t"}
                       [] p = "early" -> {"y", "t"}
                       [] OTHER       -> {}]
MCWaitsFor ==
  [p \in Plugins |-> CASE p = "waits" -> {"x"}
                       [] p = "late"  -> {"y"}
                       [] OTHER       -> {}]

\* The properties of PluginManager.
ManagerConsistent == Manager!ManagerConsistent
NoneLeftBehind == Manager!NoneLeftBehind
NewestToolStays == Manager!NewestToolStays
AvailableCommandsActivate == part = "manager" => Manager!AvailableCommandsActivate
=============================================================================
