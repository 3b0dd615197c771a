---------------------------- MODULE MCFileWatcher ----------------------------
(***************************************************************************)
(* The variables are those of FileWatcher, whose tree is called written    *)
(* and whose bound MaxChanges is called MaxWrites here, where the runtime  *)
(* of a workspace has a tree of its own (WorkspaceProofs).                 *)
(***************************************************************************)
EXTENDS Integers, FiniteSets

CONSTANTS MaxWrites, MaxStarts, Capacity

VARIABLES
  main, exists, starts, running, worker, written, noting, buffer, overflow, batch,
  posted, last, base, dropped

Watcher == INSTANCE FileWatcher WITH MaxChanges <- MaxWrites, tree <- written

ASSUME WatcherAssumption == {MaxWrites, MaxStarts, Capacity} \subseteq Nat

WatcherSpec == Watcher!FairSpec

\* The properties of FileWatcher.
WatcherConsistent == Watcher!WatcherConsistent
ChangesArrive == Watcher!ChangesArrive
StopReturns == Watcher!StopReturns
=============================================================================
