--------------------------- MODULE EndpointHandler ---------------------------
(***************************************************************************)
(* The endpoints handler (watcher/handlerEndpoint.go), the informer that   *)
(* calls it and the default database, which holds the addresses of each    *)
(* service port.  One step is one Redis command or one turn of the loop    *)
(* over the ports of all subsets.                                          *)
(*                                                                         *)
(* An Endpoints object is [ns, name, ports]: ports is the sequence of the  *)
(* ports of its subsets in the order of the nested loops, each             *)
(* [port, name, addrs] with the sequence of its subset's ready addresses.  *)
(***************************************************************************)
EXTENDS Redis, Filter, Keys, FiniteSets

CONSTANTS
    Endpoints,     \* the Endpoints objects services may have
    NoEndpoints,   \* no Endpoints object of that name
    MaxEpFaults,   \* bound on the Redis commands that fail
    MaxEpMissed    \* bound on the deletions the watch misses

EpKey(e, p)      == <<"svc", SvcPort(e.ns, e.name, p.port)>>
EpTempKey(key)   == <<"temp_", key[2]>>
EpMember(p, a)   == IPPort(a, p.port, p.name)
EpMembers(p)     == {EpMember(p, p.addrs[i]) : i \in DOMAIN p.addrs}

EpId(e)  == <<e.ns, e.name>>
EpIds    == {EpId(e) : e \in Endpoints}
EpPorts(e) == {e.ports[i] : i \in DOMAIN e.ports}
SvcKeys  == UNION {{EpKey(e, p) : p \in EpPorts(e)} : e \in Endpoints}
DB0Keys  == SvcKeys \cup {EpTempKey(k) : k \in SvcKeys}
IPPorts  == UNION {EpMembers(p) : p \in UNION {EpPorts(e) : e \in Endpoints}}

(* The ports of an object and the addresses of a subset are sequences.     *)
ASSUME EndpointsAssumption ==
    \A e \in Endpoints :
        /\ e.ports \in Seq(EpPorts(e))
        /\ \A p \in EpPorts(e) : p.addrs \in Seq({p.addrs[i] : i \in DOMAIN p.addrs})
ASSUME EpBoundsAssumption == MaxEpFaults \in Nat /\ MaxEpMissed \in Nat
ASSUME NoEndpointsAssumption == NoEndpoints \notin Endpoints

VARIABLES
    db0,       \* the default database
    epStore,   \* the informer's store: the Endpoints object of each name
    epEvent,   \* the callback running or run last, and its object
    epPorts,   \* the ports its loop has not reached
    epTodo,    \* the commands it has to issue for the port it is at
    epFaults,  \* how many commands failed
    epMissed   \* how many deletions the watch missed

endpointVars == <<db0, epStore, epEvent, epPorts, epTodo, epFaults, epMissed>>

EpIdle == epPorts = <<>> /\ epTodo = <<>>

EpInit ==
    /\ db0 = [k \in DB0Keys |-> {}]
    /\ epStore = [n \in EpIds |-> NoEndpoints]
    /\ epEvent = [name |-> "none", object |-> NoEndpoints]
    /\ epPorts = <<>>
    /\ epTodo = <<>>
    /\ epFaults = 0
    /\ epMissed = 0

-----------------------------------------------------------------------------
(* What one turn of each callback's loop asks of Redis. *)
EpAdd(e, p) ==
    [i \in DOMAIN p.addrs |-> SADD(EpKey(e, p), EpMember(p, p.addrs[i]))]

(* Wrong: the addresses are added in place. *)
EpUpdateAddsInPlace(e, p) ==
    [i \in DOMAIN p.addrs |-> SADD(EpKey(e, p), EpMember(p, p.addrs[i]))]

(* Wrong: the copy stays. *)
EpUpdateKeepsCopy(e, p) ==
    LET temp == EpTempKey(EpKey(e, p)) IN
    [i \in DOMAIN p.addrs |-> SADD(temp, EpMember(p, p.addrs[i]))]
        \o <<SUNIONSTORE(EpKey(e, p), temp)>>

(* Wrong: the copy is dropped and not put in place. *)
EpUpdateDropsCopy(e, p) ==
    LET temp == EpTempKey(EpKey(e, p)) IN
    [i \in DOMAIN p.addrs |-> SADD(temp, EpMember(p, p.addrs[i]))] \o <<DEL(temp)>>

(* Wrong: the copy is deleted under another prefix. *)
EpUpdateOtherPrefix(e, p) ==
    LET temp == EpTempKey(EpKey(e, p)) IN
    [i \in DOMAIN p.addrs |-> SADD(temp, EpMember(p, p.addrs[i]))]
        \o <<SUNIONSTORE(EpKey(e, p), temp), DEL(<<"tmp_", temp[2]>>)>>

EpUpdate(e, p) ==
    LET temp == EpTempKey(EpKey(e, p)) IN
    [i \in DOMAIN p.addrs |-> SADD(temp, EpMember(p, p.addrs[i]))]
        \o <<SUNIONSTORE(EpKey(e, p), temp), DEL(temp)>>

EpDelete(e, p) == <<DEL(EpKey(e, p))>>

(* The informer calls back with an event about e; the callback returns at  *)
(* once when e's namespace is not included.                                *)
EpDeliver(name, e) ==
    /\ EpIdle
    /\ epEvent' = [name |-> name, object |-> e]
    /\ epPorts' = IF IncludeNamespace(e.ns) THEN e.ports ELSE <<>>
    /\ UNCHANGED <<db0, epTodo, epFaults>>

AddEndpoints(e) ==
    /\ epStore[EpId(e)] = NoEndpoints
    /\ epStore' = [epStore EXCEPT ![EpId(e)] = e]
    /\ EpDeliver("add", e)
    /\ UNCHANGED epMissed

(* A change of the object, or its resync: update looks at the new object   *)
(* only.                                                                   *)
UpdateEndpoints(e) ==
    /\ epStore[EpId(e)] # NoEndpoints
    /\ epStore' = [epStore EXCEPT ![EpId(e)] = e]
    /\ EpDeliver("update", e)
    /\ UNCHANGED epMissed

DeleteEndpoints(n) ==
    /\ epStore[n] # NoEndpoints
    /\ epStore' = [epStore EXCEPT ![n] = NoEndpoints]
    /\ EpDeliver("delete", epStore[n])
    /\ UNCHANGED epMissed

(* A deletion the watch missed arrives as a DeletedFinalStateUnknown,      *)
(* whose cast to Endpoints fails.                                          *)
DeleteEndpointsMissed(n) ==
    /\ epMissed < MaxEpMissed
    /\ epMissed' = epMissed + 1
    /\ EpIdle
    /\ epStore[n] # NoEndpoints
    /\ epStore' = [epStore EXCEPT ![n] = NoEndpoints]
    /\ UNCHANGED <<db0, epEvent, epPorts, epTodo, epFaults>>

(* The loop reaches the next port. *)
NextPort ==
    /\ epTodo = <<>>
    /\ epPorts # <<>>
    /\ epPorts' = Tail(epPorts)
    /\ epTodo' = LET e == epEvent.object
                     p == Head(epPorts)
                 IN  CASE epEvent.name = "add"    -> EpAdd(e, p)
                       [] epEvent.name = "update" -> EpUpdate(e, p)
                       [] epEvent.name = "delete" -> EpDelete(e, p)
    /\ UNCHANGED <<db0, epStore, epEvent, epFaults, epMissed>>

EpExec ==
    /\ epTodo # <<>>
    /\ db0' = Apply(db0, Head(epTodo))
    /\ epTodo' = Tail(epTodo)
    /\ UNCHANGED <<epStore, epEvent, epPorts, epFaults, epMissed>>

EpFail ==
    /\ epTodo # <<>>
    /\ epFaults < MaxEpFaults
    /\ epFaults' = epFaults + 1
    /\ epTodo' = Tail(epTodo)
    /\ UNCHANGED <<db0, epStore, epEvent, epPorts, epMissed>>

EpRestart ==
    /\ db0' = FlushAll(db0)
    /\ epStore' = [n \in EpIds |-> NoEndpoints]
    /\ epEvent' = [name |-> "none", object |-> NoEndpoints]
    /\ epPorts' = <<>>
    /\ epTodo' = <<>>
    /\ UNCHANGED <<epFaults, epMissed>>

EndpointEvent ==
    \/ \E e \in Endpoints : AddEndpoints(e) \/ UpdateEndpoints(e)
    \/ \E n \in EpIds : DeleteEndpoints(n) \/ DeleteEndpointsMissed(n)

EpStep == NextPort \/ EpExec \/ EpFail

EpNext == EndpointEvent \/ EpStep \/ EpRestart

EpSpec == EpInit /\ [][EpNext]_endpointVars

(* The endpoints' goroutine keeps running too. *)
EpFairness == WF_endpointVars(NextPort) /\ WF_endpointVars(EpExec)

EpResync(n) == epStore[n] # NoEndpoints /\ UpdateEndpoints(epStore[n])

(* With -resyncPeriod an object that stays in the store is delivered again *)
(* and again; it counts as a step when the callback has ports to visit.    *)
EpHasWork(n) ==
    epStore[n] # NoEndpoints /\ IncludeNamespace(epStore[n].ns) /\ epStore[n].ports # <<>>

EpResyncs == \A n \in EpIds : <>[]EpHasWork(n) => []<><<EpResync(n)>>_endpointVars

EpResyncSpec == EpSpec /\ EpFairness /\ EpResyncs

-----------------------------------------------------------------------------
(* What a request finds under each service port, and what the declared     *)
(* Endpoints objects list for it.                                          *)
EpTable == [k \in SvcKeys |-> db0[k]]

EpListed(e, k) == UNION {EpMembers(p) : p \in {p \in EpPorts(e) : EpKey(e, p) = k}}

EpWanted ==
    LET listed == {e \in {epStore[n] : n \in EpIds} \ {NoEndpoints} : IncludeNamespace(e.ns)}
    IN  [k \in SvcKeys |-> UNION {EpListed(e, k) : e \in listed}]

(* Every variable holds a value of its kind. *)
EpTypeOK ==
    /\ db0 \in [DB0Keys -> SUBSET IPPorts]
    /\ epStore \in [EpIds -> Endpoints \cup {NoEndpoints}]
    /\ epEvent \in [name : {"none", "add", "update", "delete"},
                    object : Endpoints \cup {NoEndpoints}]
    /\ epPorts \in Seq(UNION {EpPorts(e) : e \in Endpoints})
    /\ epTodo \in Seq(Command(DB0Keys, IPPorts))
    /\ epFaults \in 0..MaxEpFaults
    /\ epMissed \in 0..MaxEpMissed

(* Between callbacks the addresses of every service port are exactly the   *)
(* ready addresses its Endpoints object lists                              *)
(* (handlerEndpoint_test.go:153-172 says so of an update that drops one),  *)
(* as long as no command failed and no deletion was missed.                *)
EpSettled == EpIdle /\ epFaults + epMissed = 0 => EpTable = EpWanted

(* What an update and a resync that never look at the old object ask of    *)
(* the objects: a port once in an object, and in all versions of it.       *)
EpOrderly(endpoints) ==
    \A e \in {e \in endpoints : IncludeNamespace(e.ns)} :
        /\ \A i, j \in DOMAIN e.ports : e.ports[i].port = e.ports[j].port => i = j
        /\ \A f \in {f \in endpoints : EpId(f) = EpId(e)} :
                \A p \in EpPorts(f) : \E q \in EpPorts(e) : q.port = p.port

(* update empties its copy of every port it handles: what it left there    *)
(* would come back as an address at the next update                        *)
(* (handlerEndpoint.go:97-100).  A command that failed may leave one.      *)
EpNoLeftoverTemp == EpIdle /\ epFaults = 0 => \A k \in SvcKeys : db0[EpTempKey(k)] = {}

(* The handler keeps the promise of LookupTable: an address listed before  *)
(* and after an update can be chosen throughout, one listed by neither     *)
(* never, and the handler catches up with every event, as long as nothing  *)
(* is lost.                                                                *)
EpPromise == INSTANCE LookupTable
    WITH TableKeys <- SvcKeys, Contents <- IPPorts, Initial <- [k \in SvcKeys |-> {}],
         want <- EpWanted, table <- EpTable, lost <- epFaults + epMissed > 0

EpKeepsPromise == EpPromise!Spec

(* With resyncs whatever a failed command lost comes back: again and again *)
(* the handler is idle and every listed address can be chosen (what a      *)
(* failed DEL or a missed deletion left behind may stay).                  *)
EpRestored == EpIdle /\ \A k \in SvcKeys : EpWanted[k] \subseteq EpTable[k]

EpHeals == []<>EpRestored
=============================================================================
