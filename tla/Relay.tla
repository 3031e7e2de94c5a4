------------------------------- MODULE Relay -------------------------------
(***************************************************************************)
(* The API server and the ingress handler together: users write ingresses, *)
(* the watch reports them, late and not every version of them, the handler *)
(* writes Redis, and the controller stops and starts and is told           *)
(* everything again.                                                       *)
(***************************************************************************)
EXTENDS IngressHandler

CONSTANTS
    Absent,      \* no ingress of that name at the API server
    MaxWrites,   \* bound on what users write
    MaxStops     \* bound on the stops of the controller that are no panics

ASSUME RelayAssumption ==
    /\ {MaxWrites, MaxStops} \subseteq Nat
    /\ Absent \notin Specs
    /\ MaxVersion >= MaxWrites + Cardinality(Ids)   \* it bounds nothing here

VARIABLES
    api,      \* the ingresses the API server has
    behind,   \* the names the watch has something to report of
    writes,   \* how often users wrote
    stops,    \* how often the controller stopped
    orphans   \* history: what was deleted unheard of since the controller started

relayVars == <<api, behind, writes, stops, orphans>>
allVars   == <<ingressVars, relayVars>>

RInit ==
    /\ Init
    /\ api = [n \in Ids |-> Absent]
    /\ behind = {}
    /\ writes = 0
    /\ stops = 0
    /\ orphans = {}

-----------------------------------------------------------------------------
(* A user creates, changes or deletes an ingress.  What comes and goes     *)
(* before the watch reports it is never heard of.                          *)
Write(n, s) ==
    /\ writes < MaxWrites
    /\ s # api[n]
    /\ writes' = writes + 1
    /\ api' = [api EXCEPT ![n] = s]
    /\ behind' = IF s = Absent /\ store[n] = NoObject THEN behind \ {n} ELSE behind \cup {n}
    /\ UNCHANGED <<ingressVars, stops, orphans>>

UserWrites ==
    \E n \in Ids : \E s \in {s \in Specs : Id(s) = n} \cup {Absent} : Write(n, s)

(* The watch reports how an ingress stands by now: a watch that broke      *)
(* lists again, and leaves out the versions in between.                    *)
Report(n) ==
    /\ n \in behind
    /\ \/ api[n] # Absent /\ (Add(api[n]) \/ Update(api[n]))
       \/ api[n] = Absent /\ Delete(n)
    /\ behind' = behind \ {n}
    /\ orphans' = IF missed' > missed THEN orphans \cup {store[n]} ELSE orphans
    /\ UNCHANGED <<api, writes, stops>>

Resynced(n) == Resync(n) /\ UNCHANGED relayVars

Handles == Exec /\ UNCHANGED relayVars

(* Wrong: a start goes on from what was reported before. *)
ListsNothing == UNCHANGED <<api, behind, writes>>

(* The first listing after a start reports every ingress there is. *)
ListsAgain == behind' = {n \in Ids : api[n] # Absent} /\ UNCHANGED <<api, writes>>

PanicStops == Panic /\ ListsAgain /\ orphans' = {} /\ UNCHANGED stops

Stop ==
    /\ stops < MaxStops
    /\ stops' = stops + 1
    /\ Restart
    /\ ListsAgain
    /\ orphans' = {}

RNext ==
    \/ UserWrites
    \/ \E n \in Ids : Report(n) \/ Resynced(n)
    \/ Handles
    \/ PanicStops
    \/ Stop

(* What the watch has to report waits in a queue that the resyncs join at  *)
(* its end, so its turn comes.  With -resyncPeriod an object that stays is *)
(* delivered again and again; it counts as a step when the callback has    *)
(* routes to visit.                                                        *)
HasWork(n) ==
    store[n] # NoObject /\ Included(store[n]) /\ Routes(store[n].spec) # <<>>

RFairness ==
    /\ WF_allVars(Handles) /\ WF_allVars(PanicStops)
    /\ \A n \in Ids : SF_allVars(Report(n))

RSafeSpec == RInit /\ [][RNext]_allVars

RSpec ==
    /\ RSafeSpec /\ RFairness
    /\ \A n \in Ids : <>[]HasWork(n) => []<><<Resynced(n)>>_allVars

-----------------------------------------------------------------------------
(* What the ingresses the API server has ask for at a hostPath: services,  *)
(* and the texts of scripts.  What a request finds there of scripts.       *)
ApiObjects ==
    {o \in {[spec |-> api[n], version |-> 1] : n \in {n \in Ids : api[n] # Absent}} : Included(o)}

ApiAsks(hp) == Services \cap UNION {Asks(o, hp) : o \in ApiObjects}

ApiScripts(hp) ==
    {<<"lua", o.spec.snippet>> :
        o \in {o \in ApiObjects : HasSnippet(o) /\ hp \in HostPathsOf(o.spec)}}

ScriptsAt(hp) == UNION {db1[m] : m \in Table[hp] \cap ScriptKeys}

(* Every hostPath has the services and the scripts that users ask for, and *)
(* no others.                                                              *)
RedisHasAll ==
    \A hp \in HostPaths :
        Table[hp] \cap Services = ApiAsks(hp) /\ ScriptsAt(hp) = ApiScripts(hp)

(* When the watch has nothing to report and the table is what the handler  *)
(* was given last, it is what users ask for now, and each script there has *)
(* the text they gave it: however late the watch was, whatever it left     *)
(* out, and although versions of another run had the same names, as long   *)
(* as no command failed.                                                   *)
RelayedAtRest == AtRest /\ behind = {} /\ faults = 0 /\ Table = Wanted => RedisHasAll

(* The controller "will watch it and relay the information from K8s API to *)
(* ATS" (docs/ARCHITECTURE.md:25): every ingress the API server has is in  *)
(* the table with its script, and when no command failed nothing else is   *)
(* but what ingresses asked for whose deletion was missed since the        *)
(* controller started.                                                     *)
LeftBy(objects, hp) == UNION {Asks(o, hp) : o \in {o \in objects : Included(o)}}

Relayed ==
    /\ behind = {}
    /\ \A hp \in HostPaths :
        /\ ApiAsks(hp) \cup Wanted[hp] \subseteq Table[hp]
        /\ faults = 0 => Table[hp] \subseteq Wanted[hp] \cup LeftBy(orphans, hp)
    /\ \A o \in Declared : HasSnippet(o) => db1[ScriptKey(o)] # {}

(* Once users stop writing, and whatever failed, was missed, overwritten   *)
(* or stopped before, the information is relayed for good: resyncs bring   *)
(* back what was lost.                                                     *)
Relays == <>[]Relayed

(* The same, as long as users leave no broken ingress behind.  One they    *)
(* mend or delete stops the controller a while and does no harm after.     *)
BrokenStays == \E n \in Ids : api[n] # Absent /\ Panics([spec |-> api[n], version |-> 1])

RelaysUnbroken == <>[](BrokenStays \/ Relayed)
=============================================================================
