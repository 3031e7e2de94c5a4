------------------------------ MODULE Watcher ------------------------------
(***************************************************************************)
(* Watcher.Watch (watcher/watcher.go) as main runs it: one resource after  *)
(* another gets an informer, and each time Watch waits until the           *)
(* informer's cache has synced.  The informers list on goroutines of their *)
(* own, and try again until a list succeeds.                               *)
(***************************************************************************)
EXTENDS Integers, Sequences

CONSTANTS
    NeverListable,   \* resources whose definition or role is never installed
    MaxCrashes       \* bound on the restarts of the container

ASSUME CrashesAssumption == MaxCrashes \in Nat

WatchOrder == <<"ingresses", "endpoints", "configmaps", "atscachingpolicies", "atssnipolicies">>

Resources == {WatchOrder[i] : i \in DOMAIN WatchOrder}

VARIABLES
    listable,   \* the resources the API server lets the controller list
    at,         \* the watch Watch is at; past the last one it has returned
    running,    \* the resources whose informer runs
    synced,     \* the resources whose cache has synced
    crashes     \* how often the container has restarted

watcherVars == <<listable, at, running, synced, crashes>>

Returned == at = Len(WatchOrder) + 1

WatcherInit ==
    /\ listable \in SUBSET (Resources \ NeverListable)
    /\ at = 1
    /\ running = {}
    /\ synced = {}
    /\ crashes = 0

-----------------------------------------------------------------------------
(* Handlers are added to a new informer and it is set going. *)
StartInformer ==
    /\ ~Returned
    /\ WatchOrder[at] \notin running
    /\ running' = running \cup {WatchOrder[at]}
    /\ UNCHANGED <<listable, at, synced, crashes>>

(* An informer lists its resource. *)
Sync(r) ==
    /\ r \in running \ synced
    /\ r \in listable
    /\ synced' = synced \cup {r}
    /\ UNCHANGED <<listable, at, running, crashes>>

(* Wrong: Watch waits for the informer it is to start next. *)
WaitsForNext ==
    /\ ~Returned
    /\ WatchOrder[at] \in running
    /\ at = Len(WatchOrder) \/ WatchOrder[at + 1] \in synced
    /\ at' = at + 1
    /\ UNCHANGED <<listable, running, synced, crashes>>

(* Wrong: Watch does not wait. *)
DoesNotWait ==
    /\ ~Returned
    /\ WatchOrder[at] \in running
    /\ at' = at + 1
    /\ UNCHANGED <<listable, running, synced, crashes>>

(* Wrong: Watch skips a resource. *)
SkipsOne ==
    /\ ~Returned
    /\ WatchOrder[at] \in synced
    /\ at' = at + 2
    /\ UNCHANGED <<listable, running, synced, crashes>>

(* WaitForCacheSync returns true.  It returns false only when StopChan is  *)
(* closed, and nothing closes it before main has a signal after Watch.     *)
CacheSynced ==
    /\ ~Returned
    /\ WatchOrder[at] \in synced
    /\ at' = at + 1
    /\ UNCHANGED <<listable, running, synced, crashes>>

(* A definition or a role is installed, or removed: what may be listed     *)
(* changes, and caches that have synced stay.                              *)
ListableChanges ==
    /\ \E r \in Resources \ NeverListable :
            listable' = IF r \in listable THEN listable \ {r} ELSE listable \cup {r}
    /\ UNCHANGED <<at, running, synced, crashes>>

(* A signal or a panic in a callback ends the controller at any time, and  *)
(* with it the container, which starts again.                              *)
Crash ==
    /\ crashes < MaxCrashes
    /\ crashes' = crashes + 1
    /\ at' = 1
    /\ running' = {}
    /\ synced' = {}
    /\ UNCHANGED listable

WatcherNext ==
    \/ StartInformer \/ CacheSynced
    \/ \E r \in Resources : Sync(r)
    \/ ListableChanges \/ Crash

WatcherSpec == WatcherInit /\ [][WatcherNext]_watcherVars

(* Watch and the informers keep running. *)
WatcherFairness ==
    /\ WF_watcherVars(StartInformer \/ CacheSynced)
    /\ \A r \in Resources : WF_watcherVars(Sync(r))

WatcherFairSpec == WatcherSpec /\ WatcherFairness

-----------------------------------------------------------------------------
(* Every variable holds a value of its kind. *)
WatcherTypeOK ==
    /\ listable \subseteq Resources
    /\ at \in 1..(Len(WatchOrder) + 1)
    /\ running \subseteq Resources
    /\ synced \subseteq running
    /\ crashes \in 0..MaxCrashes

(* Watch returns, and main begins to wait for signals, only when every     *)
(* resource has been listed, so that each handler is being called.         *)
ReturnsServingAll == Returned => synced = Resources

(* However definitions and roles come and go and whenever the container    *)
(* restarts, once every resource may be listed for good Watch returns.     *)
WatchCompletes == <>[](listable = Resources) => <>[]Returned

(* "Timed out waiting for %s caches to sync" (watcher.go:130, 173): Watch  *)
(* gives up on a resource that can never be listed and returns.            *)
WatchReturns == <>[](listable = Resources \ NeverListable) => <>Returned
=============================================================================
