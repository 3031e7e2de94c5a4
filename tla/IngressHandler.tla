--------------------------- MODULE IngressHandler ---------------------------
(***************************************************************************)
(* The ingress handler (watcher/handlerIngress.go), the informer that      *)
(* calls it and DB One, one Redis command per step.                        *)
(*                                                                         *)
(* The informer runs the callbacks of one handler one after the other, and *)
(* no callback looks at the events behind it, so an event is delivered     *)
(* here when the handler is idle and the queue in between is left out.     *)
(* The objects the handler was last given are the informer's store, which  *)
(* client-go updates before the callback runs.                             *)
(***************************************************************************)
EXTENDS Ingress, FiniteSets, SequencesExt

CONSTANTS
    Specs,       \* the ingress specs users may declare
    NoObject,    \* no ingress of that name
    MaxVersion,  \* bound on the resource versions given between restarts
    MaxFaults,   \* bound on the Redis commands that fail
    MaxMissed,   \* bound on the deletions the watch misses
    Resyncs      \* whether -resyncPeriod is set (it is 0 by default)

(* The rules of a spec and their paths are sequences, and no object is the *)
(* absent one.                                                             *)
ASSUME SpecsAssumption == \A s \in Specs : Len(s.rules) \in Nat
ASSUME PathsAssumption ==
    \A s \in Specs : \A i \in 1..Len(s.rules) :
        LET path == s.rules[i].path IN path \in Seq({path[j] : j \in DOMAIN path})
ASSUME BoundsAssumption ==
    MaxVersion \in Nat /\ MaxFaults \in Nat /\ MaxMissed \in Nat /\ Resyncs \in BOOLEAN
ASSUME NoObjectAssumption == NoObject \notin [spec : Specs, version : 1..MaxVersion]

Id(s)     == <<s.ns, s.name>>
Ids       == {Id(s) : s \in Specs}
Objects   == [spec : Specs, version : 1..MaxVersion]

HostPaths  == UNION {HostPathsOf(s) : s \in Specs}
ScriptKeys == {ScriptKey(o) : o \in {o \in Objects : HasSnippet(o)}}
DBOneKeys  == {RouteKey(hp) : hp \in HostPaths} \cup {TempKey(hp) : hp \in HostPaths}
                \cup ScriptKeys

Services == UNION {{<<"svc", Routes(s)[i].svc>> : i \in DOMAIN Routes(s)} : s \in Specs}
Scripts  == {<<"lua", s.snippet>> : s \in Specs}
RouteMembers == Services \cup ScriptKeys
Commands == Command(DBOneKeys, RouteMembers \cup Scripts)

VARIABLES
    db1,     \* DB One
    store,   \* the informer's store: the object of each name
    event,   \* the callback running or run last
    todo,    \* the commands it still has to issue
    rv,      \* the last resource version the API server gave
    faults,  \* how many commands failed
    missed   \* how many deletions the watch missed

ingressVars == <<db1, store, event, todo, rv, faults, missed>>

Idle == todo = <<>>

(* The callback has come to the broken part of its object: what it has     *)
(* written stays until the controller, which panics, starts again.         *)
Dying == Idle /\ \E n \in Ids : store[n] # NoObject /\ Panics(store[n])

AtRest == Idle /\ ~Dying

Init ==
    /\ db1 = [k \in DBOneKeys |-> {}]
    /\ store = [n \in Ids |-> NoObject]
    /\ event = "none"
    /\ todo = <<>>
    /\ rv = 0
    /\ faults = 0
    /\ missed = 0

-----------------------------------------------------------------------------
(* The informer calls back with an event of the given name. *)
Deliver(name, program) ==
    /\ AtRest
    /\ event' = name
    /\ todo' = program
    /\ UNCHANGED <<db1, faults>>

Version(s) == [spec |-> s, version |-> rv + 1]

Add(s) ==
    /\ store[Id(s)] = NoObject
    /\ rv < MaxVersion
    /\ rv' = rv + 1
    /\ store' = [store EXCEPT ![Id(s)] = Version(s)]
    /\ Deliver("add", AddProgram(Version(s)))
    /\ UNCHANGED missed

(* Any write to the object gives it a new version, one that changes only   *)
(* its labels too, so the new spec may be the old one.                     *)
Update(s) ==
    /\ store[Id(s)] # NoObject
    /\ rv < MaxVersion
    /\ rv' = rv + 1
    /\ store' = [store EXCEPT ![Id(s)] = Version(s)]
    /\ \E order \in SetToSeqs(Touched(store[Id(s)], Version(s))) :
            Deliver("update", UpdateProgram(store[Id(s)], Version(s), order))
    /\ UNCHANGED missed

(* The periodic resync calls Update with the stored object as old and new. *)
Resync(n) ==
    /\ Resyncs
    /\ store[n] # NoObject
    /\ \E order \in SetToSeqs(Touched(store[n], store[n])) :
            Deliver("update", UpdateProgram(store[n], store[n], order))
    /\ UNCHANGED <<store, rv, missed>>

(* A deletion the watch missed reaches Delete as a                         *)
(* DeletedFinalStateUnknown, whose cast to an Ingress fails.               *)
Delete(n) ==
    /\ store[n] # NoObject
    /\ store' = [store EXCEPT ![n] = NoObject]
    /\ \/ Deliver("delete", DeleteProgram(store[n])) /\ UNCHANGED missed
       \/ missed < MaxMissed /\ missed' = missed + 1 /\ Deliver("delete", <<>>)
    /\ UNCHANGED rv

Succeeds == db1' = Apply(db1, Head(todo)) /\ UNCHANGED faults

Fails == faults < MaxFaults /\ faults' = faults + 1 /\ UNCHANGED db1

(* The callback issues its next command; when it fails the client logs the *)
(* error and the callback goes on.                                         *)
Exec ==
    /\ ~Idle
    /\ Succeeds \/ Fails
    /\ todo' = Tail(todo)
    /\ UNCHANGED <<store, event, rv, missed>>

(* The controller starts again: redis.Init flushes and the informer's      *)
(* store is empty until it lists.  Nothing remembers a version any longer, *)
(* so the versions are counted afresh.                                     *)
Restart ==
    /\ db1' = FlushAll(db1)
    /\ store' = [n \in Ids |-> NoObject]
    /\ event' = "none"
    /\ todo' = <<>>
    /\ rv' = 0
    /\ UNCHANGED <<faults, missed>>

(* The panic of a callback ends the controller, whose restart is the same  *)
(* as after any other stop.                                                *)
Panic == Dying /\ Restart

IngressEvent ==
    \/ \E s \in Specs : Add(s) \/ Update(s)
    \/ \E n \in Ids : Resync(n) \/ Delete(n)

(* The controller may stop at any point. *)
Next == IngressEvent \/ Exec \/ Panic \/ Restart

Spec == Init /\ [][Next]_ingressVars

(* The callback's goroutine keeps running; a command either succeeds or    *)
(* fails, and takes it to the next one in both cases.  A panic ends it.    *)
Fairness == WF_ingressVars(Exec) /\ WF_ingressVars(Panic)

FairSpec == Spec /\ Fairness

-----------------------------------------------------------------------------
(* What a request finds at each hostPath, and what the declared ingresses  *)
(* ask for there: the services of their routes, each with the name of the  *)
(* script of its ingress.                                                  *)
Table == [hp \in HostPaths |-> db1[RouteKey(hp)]]

Declared == {o \in {store[n] : n \in Ids} \ {NoObject} : Included(o)}

Asks(o, hp) ==
    LET there == {r \in {Routes(o.spec)[i] : i \in DOMAIN Routes(o.spec)} : r.hp = hp}
    IN  {<<"svc", r.svc>> : r \in there}
            \cup (IF there # {} /\ HasSnippet(o) THEN {ScriptKey(o)} ELSE {})

Wanted == [hp \in HostPaths |-> UNION {Asks(o, hp) : o \in Declared}]

(* Every variable holds a value of its kind; the commands a callback has   *)
(* left are ones the client can send.                                      *)
TypeOK ==
    /\ db1 \in [DBOneKeys -> SUBSET (RouteMembers \cup Scripts)]
    /\ store \in [Ids -> Objects \cup {NoObject}]
    /\ event \in {"none", "add", "update", "delete"}
    /\ todo \in Seq(Commands)
    /\ rv \in 0..MaxVersion
    /\ faults \in 0..MaxFaults
    /\ missed \in 0..MaxMissed

(* "add the script before adding route": a "$" name that stands in a route *)
(* or in a copy of one names a script that is there, at every step of      *)
(* every callback (handlerIngress.go:60-65, 254-257), as long as no        *)
(* command has failed.                                                     *)
ScriptBeforeRoute ==
    faults = 0 =>
        \A k \in DBOneKeys \ ScriptKeys :
            \A m \in db1[k] \cap ScriptKeys : db1[m] # {}

(* When the handler has no callback running, the table is exactly what the *)
(* declared ingresses ask for: nothing lost, nothing left behind by a      *)
(* previous version, by a deleted ingress or by the run before a restart,  *)
(* as long as no command failed and no deletion was missed.                *)
Settled == AtRest /\ faults + missed = 0 => Table = Wanted

(* update leaves no copy behind: a leftover "temp_" key would be merged    *)
(* into the routes of a later update (handlerIngress.go:329-332).          *)
NoLeftoverTemp ==
    AtRest /\ faults = 0 => \A hp \in HostPaths : db1[TempKey(hp)] = {}

(* No step of update shows a request a half-made hostPath: it goes from    *)
(* what it held to what is wanted in one command, the SUNIONSTORE of the   *)
(* last loop (handlerIngress.go:330).                                      *)
UpdateIsAtomic ==
    [][Exec /\ event = "update" /\ faults + missed = 0 =>
            \A hp \in HostPaths : Table'[hp] \in {Table[hp], Wanted[hp]}]_ingressVars

(* What the handler takes for granted when it removes a route by its       *)
(* members and puts a copy in the place of a hostPath: a hostPath once in  *)
(* an ingress, no ingress that moves onto the hostPath of another, and     *)
(* never the same service at a hostPath that two ingresses share.          *)
HostPathsUsed(s) ==
    IF IncludeNamespace(s.ns) /\ IncludeIngressClass(s.class) THEN HostPathsOf(s) ELSE {}

Orderly(specs) ==
    \A s \in {s \in specs : HostPathsUsed(s) # {}} :
        /\ \A i, j \in DOMAIN Routes(s) : Routes(s)[i].hp = Routes(s)[j].hp => i = j
        /\ \A u \in {u \in specs : Id(u) # Id(s) /\ HostPathsUsed(u) # {}} :
            /\ \A t \in {t \in specs : Id(t) = Id(s)} :
                    HostPathsUsed(s) \cap HostPathsUsed(u) \subseteq HostPathsUsed(t)
            /\ \A i \in DOMAIN Routes(s), j \in DOMAIN Routes(u) :
                    Routes(s)[i].hp = Routes(u)[j].hp => Routes(s)[i].svc # Routes(u)[j].svc

(* The handler keeps the promise of LookupTable: each of its commands      *)
(* moves one hostPath towards what is wanted, and it catches up with every *)
(* event.                                                                  *)
Promise == INSTANCE LookupTable
    WITH TableKeys <- HostPaths, Contents <- RouteMembers, Initial <- [hp \in HostPaths |-> {}],
         want <- Wanted, table <- Table, lost <- faults + missed > 0

KeepsPromise == Promise!Spec
=============================================================================
