-------------------------- MODULE ConfigMapHandler --------------------------
(***************************************************************************)
(* The ConfigMap handler (watcher/handlerConfigmap.go), its informer and   *)
(* the records of the running Traffic Server.                              *)
(*                                                                         *)
(* A ConfigMap is [name, marked, data]: marked when its annotation         *)
(* ats-configmap is "true"; data is a function from records to values.     *)
(***************************************************************************)
EXTENDS Integers, Sequences, SequencesExt

CONSTANTS
    ConfigMaps,     \* the ConfigMaps users may declare in the ATS namespace
    NoConfigMap,    \* no ConfigMap of that name
    ImageRecords,   \* the records Traffic Server starts with
    MaxCmFaults     \* bound on the runs of traffic_ctl that fail

(* A name that is no record is refused by traffic_ctl, as if it were not   *)
(* there.                                                                  *)
ASSUME ConfigMapsAssumption ==
    /\ NoConfigMap \notin ConfigMaps
    /\ \A cm \in ConfigMaps : IsFiniteSet(DOMAIN cm.data) /\
          DOMAIN cm.data \subseteq DOMAIN ImageRecords
ASSUME RecordsAssumption == ImageRecords = [r \in DOMAIN ImageRecords |-> ImageRecords[r]]
ASSUME CmFaultsAssumption == MaxCmFaults \in Nat

CmNames == {cm.name : cm \in ConfigMaps}

VARIABLES
    records,   \* Traffic Server's records
    cmStore,   \* the informer's store: the ConfigMap of each name
    cmTodo,    \* the records the callback has left to set, with their values
    cmFaults   \* how many runs of traffic_ctl failed

cmVars == <<records, cmStore, cmTodo, cmFaults>>

CmIdle == cmTodo = <<>>

CmInit ==
    /\ records = ImageRecords
    /\ cmStore = [n \in CmNames |-> NoConfigMap]
    /\ cmTodo = <<>>
    /\ cmFaults = 0

-----------------------------------------------------------------------------
Setting(record, value) == [record |-> record, value |-> value]

(* Wrong: record and value change places. *)
SettingsSwapped(cm) ==
    {[i \in DOMAIN order |-> Setting(cm.data[order[i]], order[i])] :
        order \in IF cm.marked THEN SetToSeqs(DOMAIN cm.data) ELSE {<<>>}}

(* Wrong: the annotation does not matter. *)
SettingsOfAny(cm) ==
    {[i \in DOMAIN order |-> Setting(order[i], cm.data[order[i]])] :
        order \in SetToSeqs(DOMAIN cm.data)}

(* Wrong: the loop ends after a record. *)
SettingsFirst(cm) ==
    IF cm.marked THEN {<<Setting(r, cm.data[r])>> : r \in DOMAIN cm.data} ELSE {<<>>}

(* What a callback sets, in an order the Go runtime picks: all of a marked *)
(* ConfigMap, nothing of another.                                          *)
Settings(cm) ==
    {[i \in DOMAIN order |-> Setting(order[i], cm.data[order[i]])] :
        order \in IF cm.marked THEN SetToSeqs(DOMAIN cm.data) ELSE {<<>>}}

AddConfigMap(cm) ==
    /\ CmIdle
    /\ cmStore[cm.name] = NoConfigMap
    /\ cmStore' = [cmStore EXCEPT ![cm.name] = cm]
    /\ cmTodo' \in Settings(cm)
    /\ UNCHANGED <<records, cmFaults>>

(* A change, or a resync: update looks at the new object only, so a record *)
(* it no longer names keeps its value.                                     *)
UpdateConfigMap(cm) ==
    /\ CmIdle
    /\ cmStore[cm.name] # NoConfigMap
    /\ cmStore' = [cmStore EXCEPT ![cm.name] = cm]
    /\ cmTodo' \in Settings(cm)
    /\ UNCHANGED <<records, cmFaults>>

(* Delete does nothing. *)
DeleteConfigMap(n) ==
    /\ CmIdle
    /\ cmStore[n] # NoConfigMap
    /\ cmStore' = [cmStore EXCEPT ![n] = NoConfigMap]
    /\ UNCHANGED <<records, cmTodo, cmFaults>>

(* ConfigSet of the next record. *)
CmExec ==
    /\ ~CmIdle
    /\ records' = [records EXCEPT ![Head(cmTodo).record] = Head(cmTodo).value]
    /\ cmTodo' = Tail(cmTodo)
    /\ UNCHANGED <<cmStore, cmFaults>>

(* traffic_ctl fails; the handler logs it and goes on. *)
CmFail ==
    /\ ~CmIdle
    /\ cmFaults < MaxCmFaults
    /\ cmFaults' = cmFaults + 1
    /\ cmTodo' = Tail(cmTodo)
    /\ UNCHANGED <<records, cmStore>>

(* The container starts again from its image. *)
CmRestart ==
    /\ records' = ImageRecords
    /\ cmStore' = [n \in CmNames |-> NoConfigMap]
    /\ cmTodo' = <<>>
    /\ UNCHANGED cmFaults

CmEvent ==
    \/ \E cm \in ConfigMaps : AddConfigMap(cm) \/ UpdateConfigMap(cm)
    \/ \E n \in CmNames : DeleteConfigMap(n)

CmNext == CmEvent \/ CmExec \/ CmFail \/ CmRestart

CmSpec == CmInit /\ [][CmNext]_cmVars

(* The callback's goroutine keeps running. *)
CmFairness == WF_cmVars(CmExec)

(* The marked ConfigMap n is there and names a record. *)
CmDeclared(n) ==
    /\ cmStore[n] # NoConfigMap
    /\ cmStore[n].marked
    /\ DOMAIN cmStore[n].data # {}

(* With -resyncPeriod a ConfigMap that stays is delivered again and again. *)
CmResync(n) == CmDeclared(n) /\ UpdateConfigMap(cmStore[n])

CmResyncs == \A n \in CmNames : <>[]CmDeclared(n) => []<><<CmResync(n)>>_cmVars

CmResyncSpec == CmSpec /\ CmFairness /\ CmResyncs

-----------------------------------------------------------------------------
CmValues ==
    {ImageRecords[r] : r \in DOMAIN ImageRecords}
        \cup UNION {{cm.data[r] : r \in DOMAIN cm.data} : cm \in ConfigMaps}

(* Every variable holds a value of its kind. *)
CmTypeOK ==
    /\ records \in [DOMAIN ImageRecords -> CmValues]
    /\ cmStore \in [CmNames -> ConfigMaps \cup {NoConfigMap}]
    /\ cmTodo \in Seq([record : DOMAIN ImageRecords, value : CmValues])
    /\ cmFaults \in 0..MaxCmFaults

(* The values the marked ConfigMaps give a record, or the one it has when  *)
(* none names it: nothing sets a record back.                              *)
CmGiven(r) ==
    {cmStore[n].data[r] : n \in {n \in CmNames : CmDeclared(n) /\ r \in DOMAIN cmStore[n].data}}

CmWanted ==
    [r \in DOMAIN records |-> IF CmGiven(r) = {} THEN {records[r]} ELSE CmGiven(r)]

CmTable == [r \in DOMAIN records |-> {records[r]}]

(* Marked ConfigMaps that name no record of one another. *)
CmOrderly(configMaps) ==
    \A a, b \in {cm \in configMaps : cm.marked} :
        a.name # b.name => DOMAIN a.data \cap DOMAIN b.data = {}

(* The handler keeps the promise of LookupTable, whatever unmarked and     *)
(* former ConfigMaps say: a record changes only to what the ConfigMap that *)
(* names it gives, and all of them have caught up before the next change,  *)
(* as long as no two marked ones name a record and traffic_ctl has not     *)
(* failed.                                                                 *)
CmPromise == INSTANCE LookupTable
    WITH TableKeys <- DOMAIN ImageRecords, Contents <- CmValues,
         Initial <- [r \in DOMAIN ImageRecords |-> {ImageRecords[r]}],
         want <- CmWanted, table <- CmTable, lost <- cmFaults > 0

CmKeepsPromise == CmPromise!Spec

(* With resyncs a failed traffic_ctl is made up for: while a ConfigMap     *)
(* stays, again and again all its records have the values it gives.        *)
CmHeals ==
    \A n \in CmNames : (<>[]CmDeclared(n)) =>
        []<>(CmIdle /\ CmDeclared(n) /\ \A r \in DOMAIN cmStore[n].data : records[r] = cmStore[n].data[r])
=============================================================================
