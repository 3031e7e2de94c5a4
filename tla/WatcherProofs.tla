--------------------------- MODULE WatcherProofs ---------------------------
(***************************************************************************)
(* What the watches promise: that all of them serve when Watch returns,    *)
(* for every set of resources that can never be listed and any number of   *)
(* restarts, and that what users declare is relayed, for every set of      *)
(* orderly ingresses, through the handler and its theorems.                *)
(***************************************************************************)
EXTENDS Watcher, Relay, IngressTableProofs

-----------------------------------------------------------------------------
(***************************************************************************)
(* Watcher.                                                                *)
(***************************************************************************)

(* Every watch before the one Watch is at has synced; this is what a step  *)
(* of Watch needs to know of the ones before it.                           *)
Passed == \A i \in 1..(at - 1) : WatchOrder[i] \in synced

WatcherInv == WatcherTypeOK /\ Passed

(* The five watches. *)
LEMMA Order ==
    /\ Len(WatchOrder) = 5
    /\ DOMAIN WatchOrder = 1..5
    /\ \A i \in 1..5 : WatchOrder[i] \in Resources
    /\ \A r \in Resources : \E i \in 1..5 : r = WatchOrder[i]
  <1>1. Len(WatchOrder) = 5 /\ DOMAIN WatchOrder = 1..5
    BY DEF WatchOrder
  <1> QED
    BY <1>1 DEF Resources

(* The variables keep their types, and what Watch has passed has synced.   *)
THEOREM WatchPassed == WatcherSpec => []WatcherInv
  <1>1. WatcherInit => WatcherInv
    BY Order, CrashesAssumption DEF WatcherInit, WatcherInv, WatcherTypeOK, Passed
  <1>2. WatcherInv /\ [WatcherNext]_watcherVars => WatcherInv'
    <2> SUFFICES ASSUME WatcherInv, [WatcherNext]_watcherVars
                 PROVE  WatcherInv'
      OBVIOUS
    <2> USE Order, CrashesAssumption DEF WatcherInv, WatcherTypeOK, Passed
    <2>1. CASE StartInformer
      BY <2>1 DEF StartInformer, Returned
    <2>2. CASE CacheSynced
      <3>1. at \in 1..5 /\ at' = at + 1 /\ WatchOrder[at] \in synced /\ synced' = synced
        BY <2>2 DEF CacheSynced, Returned
      <3>2. Passed'
        BY <3>1
      <3>3. WatcherTypeOK'
        BY <2>2, <3>1 DEF CacheSynced
      <3> QED
        BY <3>2, <3>3
    <2>3. ASSUME NEW r \in Resources, Sync(r)
          PROVE  WatcherInv'
      BY <2>3 DEF Sync
    <2>4. CASE ListableChanges
      BY <2>4 DEF ListableChanges
    <2>5. CASE Crash
      BY <2>5 DEF Crash
    <2>6. CASE UNCHANGED watcherVars
      BY <2>6 DEF watcherVars
    <2> QED
      BY <2>1, <2>2, <2>3, <2>4, <2>5, <2>6 DEF WatcherNext
  <1> QED
    BY <1>1, <1>2, PTL DEF WatcherSpec

(* The type invariant: Watch skips no resource, and only a running         *)
(* informer syncs.                                                         *)
THEOREM WatcherTypeCorrect == WatcherSpec => []WatcherTypeOK
  <1>1. WatcherInv => WatcherTypeOK
    BY DEF WatcherInv
  <1> QED
    BY <1>1, WatchPassed, PTL

(* Watch returns, and main begins to wait for signals, only when every     *)
(* resource has been listed (watcher.go:129, 172, 196, 219).               *)
THEOREM ReturnsServing == WatcherSpec => []ReturnsServingAll
  <1>1. WatcherInv => ReturnsServingAll
    BY Order DEF WatcherInv, WatcherTypeOK, Passed, ReturnsServingAll, Returned
  <1> QED
    BY <1>1, WatchPassed, PTL

-----------------------------------------------------------------------------
(***************************************************************************)
(* Relay.                                                                  *)
(***************************************************************************)

(* What the API server has and what the handler was given. *)

(* The API server has ingresses under their names, and of every name the   *)
(* watch has nothing to report of the handler was last given what it has.  *)
Told ==
    /\ api \in [Ids -> Specs \cup {Absent}]
    /\ \A n \in Ids : api[n] # Absent => Id(api[n]) = n
    /\ behind \subseteq Ids
    /\ \A n \in Ids \ behind :
            IF api[n] = Absent THEN store[n] = NoObject
                               ELSE store[n] # NoObject /\ store[n].spec = api[n]

(* Whatever users, the watch and the machine do, the handler takes steps   *)
(* of its own specification or none.                                       *)
LEMMA RelaySteps ==
    ASSUME Told, [RNext]_allVars
    PROVE  [Next]_ingressVars
<1>1. CASE UserWrites
  BY <1>1 DEF UserWrites, Write, ingressVars
<1>2. ASSUME NEW n \in Ids, Report(n)
      PROVE  IngressEvent
  <2>1. api[n] # Absent => api[n] \in Specs
    BY DEF Told
  <2> QED BY <1>2, <2>1 DEF Report, IngressEvent
<1>3. ASSUME NEW n \in Ids, Resynced(n)
      PROVE  IngressEvent
  BY <1>3 DEF Resynced, IngressEvent
<1>4. CASE Handles \/ PanicStops \/ Stop
  BY <1>4 DEF Handles, PanicStops, Stop, Next
<1>5. CASE UNCHANGED allVars
  BY <1>5 DEF allVars
<1> QED BY <1>1, <1>2, <1>3, <1>4, <1>5 DEF RNext, Next

LEMMA ToldStep ==
    ASSUME TypeOK, StoreIds, Told, [RNext]_allVars
    PROVE  Told'
<1> USE DEF Told
<1>1. ASSUME NEW n \in Ids, NEW s \in {s \in Specs : Id(s) = n} \cup {Absent}, Write(n, s)
      PROVE  Told'
  <2>1. store' = store /\ api' = [api EXCEPT ![n] = s]
    BY <1>1 DEF Write, ingressVars
  <2>2. api' \in [Ids -> Specs \cup {Absent}] /\ \A m \in Ids : api'[m] # Absent => Id(api'[m]) = m
    BY <2>1
  <2>3. CASE s = Absent /\ store[n] = NoObject
    BY <1>1, <2>1, <2>2, <2>3 DEF Write
  <2>4. CASE ~(s = Absent /\ store[n] = NoObject)
    BY <1>1, <2>1, <2>2, <2>4 DEF Write
  <2> QED BY <2>3, <2>4
<1>2. ASSUME NEW n \in Ids, Report(n)
      PROVE  Told'
  <2>1. api' = api /\ behind' = behind \ {n}
    BY <1>2 DEF Report
  <2>2. CASE api[n] # Absent
    <3>1. api[n] \in Specs /\ Id(api[n]) = n
      BY <2>2
    <3>2. rv < MaxVersion /\ store' = [store EXCEPT ![n] = Version(api[n])]
      BY <1>2, <2>2, <3>1 DEF Report, Add, Update
    <3>3. Version(api[n]).spec = api[n] /\ Version(api[n]) # NoObject
      BY <3>1, <3>2, NoObjectAssumption, BoundsAssumption DEF Version, TypeOK
    <3> QED BY <2>1, <2>2, <3>2, <3>3 DEF TypeOK
  <2>3. CASE api[n] = Absent
    <3>1. store' = [store EXCEPT ![n] = NoObject]
      BY <1>2, <2>3 DEF Report, Delete
    <3> QED BY <2>1, <2>3, <3>1 DEF TypeOK
  <2> QED BY <2>2, <2>3
<1>3. ASSUME NEW n \in Ids, Resynced(n)
      PROVE  Told'
  BY <1>3 DEF Resynced, Resync, relayVars
<1>4. CASE Handles
  BY <1>4 DEF Handles, Exec, relayVars
<1>5. CASE PanicStops \/ Stop
  BY <1>5 DEF PanicStops, Stop, Panic, Restart, ListsAgain
<1>6. CASE UNCHANGED allVars
  BY <1>6 DEF allVars, ingressVars, relayVars
<1> QED BY <1>1, <1>2, <1>3, <1>4, <1>5, <1>6 DEF RNext, UserWrites

(* The handler of Relay is the one of IngressHandler. *)
LEMMA RelayIsIngressHandler ==
    /\ RSafeSpec => Spec
    /\ RSafeSpec => []Told
<1>1. RInit => TypeOK /\ StoreIds /\ Told
  <2>1. Init => TypeOK
    BY BoundsAssumption DEF Init, TypeOK
  <2> QED BY <2>1, StoreIdsInductive DEF RInit, Told, Init
<1>2. TypeOK /\ StoreIds /\ Told /\ [RNext]_allVars =>
            TypeOK' /\ StoreIds' /\ Told' /\ [Next]_ingressVars
  BY RelaySteps, TypeStep, StoreIdsInductive, ToldStep
<1>3. RInit => Init
  BY DEF RInit
<1> QED BY <1>1, <1>2, <1>3, PTL DEF RSafeSpec, Spec

-----------------------------------------------------------------------------
(* A script is the one of the ingress it was written for. *)

(* The command that writes the script of an object in the store. *)
ScriptOf(n) == SADD(ScriptKey(store[n]), <<"lua", store[n].spec.snippet>>)

WithScript(n) == store[n] # NoObject /\ HasSnippet(store[n])

(* No version beyond the last one has a script, and the script of a        *)
(* version in the store is its own, as are those yet to be written.        *)
OwnScripts ==
    /\ \A n \in Ids : store[n] # NoObject => store[n].version <= rv
    /\ \A o \in Objects : HasSnippet(o) /\ rv < o.version => db1[ScriptKey(o)] = {}
    /\ \A n \in Ids : WithScript(n) =>
            db1[ScriptKey(store[n])] \subseteq {<<"lua", store[n].spec.snippet>>}
    /\ \A c \in Coming(todo) : c.key \in ScriptKeys =>
            \E n \in Ids : WithScript(n) /\ c = ScriptOf(n)

(* The keys of two objects differ when their names or versions do. *)
LEMMA ScriptKeysApart ==
    ASSUME NEW o, NEW p, ScriptKey(o) = ScriptKey(p)
    PROVE  Id(o.spec) = Id(p.spec) /\ o.version = p.version
BY DEF ScriptKey, NameVersion, Id

(* The one script a program writes is its object's. *)
LEMMA ScriptWritten ==
    ASSUME NEW o \in Objects, NEW c \in Coming(Script(o))
    PROVE  HasSnippet(o) /\ c = SADD(ScriptKey(o), <<"lua", o.spec.snippet>>)
BY DEF Script, Coming

LEMMA ProgramScripts ==
    ASSUME NEW o \in Objects, NEW old \in Objects
    PROVE  /\ \A c \in Coming(AddProgram(o)) : c.key \in ScriptKeys => c \in Coming(Script(o))
           /\ \A c \in Coming(DeleteProgram(o)) : c.key \notin ScriptKeys
           /\ \A order \in SetToSeqs(Touched(old, o)) :
                \A c \in Coming(UpdateProgram(old, o, order)) :
                    c.key \in ScriptKeys => c \in Coming(Script(o))
<1>1. /\ \A hp \in HostPaths : RouteKey(hp) \notin ScriptKeys /\ TempKey(hp) \notin ScriptKeys
      /\ HostPathsOf(o.spec) \subseteq HostPaths
  BY HostKeysApart DEF Objects, HostPaths
<1>2. \A k, m : SADD(k, m).key = k /\ SREM(k, m).key = k
  BY DEF SADD, SREM
<1>3. \A c \in Coming(AddProgram(o)) : c.key \in ScriptKeys => c \in Coming(Script(o))
  BY <1>1, <1>2, AddComing
<1>4. \A c \in Coming(DeleteProgram(o)) : c.key \notin ScriptKeys
  BY <1>1, <1>2, DeleteComing
<1>5. ASSUME NEW order \in SetToSeqs(Touched(old, o)),
        NEW c \in Coming(UpdateProgram(old, o, order)),
             c.key \in ScriptKeys
      PROVE  c \in Coming(Script(o))
  <2>1. c \in Coming(Preparation(old, o)) \/ c \in Coming(Swap(order))
    <3>1. /\ Preparation(old, o) \in Seq(Commands) /\ Swap(order) \in Seq(Commands)
          /\ UpdateProgram(old, o, order)
               = IF Panics(o) THEN Preparation(old, o) ELSE Preparation(old, o) \o Swap(order)
      BY UpdateParts
    <3>2. Coming(Preparation(old, o) \o Swap(order)) = Coming(Preparation(old, o)) \cup
            Coming(Swap(order))
      BY <3>1, ComingConcat
    <3> QED BY <1>5, <3>1, <3>2
  <2>2. \A hp \in HostPaths : c \notin {CopyOf(hp), SwapOf(hp), DropOf(hp)}
    BY <1>1, <1>5 DEF CopyOf, SwapOf, DropOf, SUNIONSTORE, DEL
  <2> QED BY <1>1, <1>2, <1>5, <2>1, <2>2, PreparationComing
<1> QED BY <1>3, <1>4, <1>5

(* A callback with an object. *)
LEMMA GivenScripts ==
    ASSUME TypeOK, OwnScripts, db1' = db1,
           NEW n \in Ids, NEW o \in Objects, store' = [store EXCEPT ![n] = o],
           (o = store[n] /\ rv' = rv) \/ (o.version = rv + 1 /\ rv' = rv + 1),
           \A c \in Coming(todo') : c.key \in ScriptKeys => c \in Coming(Script(o))
    PROVE  OwnScripts'
<1>1. /\ o # NoObject /\ rv \in Nat /\ rv' \in Nat /\ rv <= rv'
      /\ \A p \in Objects : p.version \in Nat
  BY NoObjectAssumption, BoundsAssumption DEF TypeOK, Objects
<1>2. store'[n] = o /\ \A m \in Ids \ {n} : store'[m] = store[m]
  BY DEF TypeOK
<1>3. \A m \in Ids : store[m] # NoObject => store[m] \in Objects
  BY DEF TypeOK
<1>4. \A m \in Ids : store'[m] # NoObject => store'[m].version <= rv'
  BY <1>1, <1>2, <1>3 DEF OwnScripts
<1>5. \A p \in Objects : HasSnippet(p) /\ rv' < p.version => db1'[ScriptKey(p)] = {}
  BY <1>1 DEF OwnScripts
<1>6. ASSUME NEW m \in Ids, store'[m] # NoObject, HasSnippet(store'[m])
      PROVE  db1'[ScriptKey(store'[m])] \subseteq {<<"lua", store'[m].spec.snippet>>}
  <2>1. CASE store'[m] = store[m]
    BY <1>6, <2>1 DEF OwnScripts, WithScript
  <2>2. CASE store'[m] = o /\ o.version = rv + 1
    <3>1. rv < o.version
      BY <1>1, <2>2
    <3> QED BY <1>6, <2>2, <3>1 DEF OwnScripts
  <2> QED BY <1>2, <2>1, <2>2
<1>7. ASSUME NEW c \in Coming(todo'), c.key \in ScriptKeys
      PROVE  /\ store'[n] # NoObject /\ HasSnippet(store'[n])
             /\ c = SADD(ScriptKey(store'[n]), <<"lua", store'[n].spec.snippet>>)
  BY <1>1, <1>2, <1>7, ScriptWritten
<1> QED BY <1>4, <1>5, <1>6, <1>7 DEF OwnScripts, WithScript, ScriptOf

(* The next command. *)
LEMMA ExecScripts ==
    ASSUME TypeOK, StoreIds, RoutesPlain, OwnScripts, Exec
    PROVE  OwnScripts'
<1> DEFINE c == Head(todo)
<1>1. /\ todo \in Seq(Commands) /\ todo # <<>> /\ DOMAIN db1 = DBOneKeys
      /\ store' = store /\ rv' = rv /\ todo' = Tail(todo)
      /\ db1' = Apply(db1, c) \/ db1' = db1
  BY DEF Exec, Succeeds, Fails, Idle, TypeOK
<1>2. Coming(todo) = {c} \cup Coming(Tail(todo))
  BY <1>1, ComingFirst
<1>3. \A k \in ScriptKeys : k \in DOMAIN db1
  BY <1>1 DEF DBOneKeys
<1>4. \A o \in Objects : HasSnippet(o) => ScriptKey(o) \in ScriptKeys
  BY DEF ScriptKeys
<1>5. \A n \in Ids : store[n] # NoObject => store[n] \in Objects
  BY DEF TypeOK
<1>6. \A d \in Coming(todo') : d.key \in ScriptKeys =>
        \E n \in Ids : WithScript(n) /\ d = ScriptOf(n)
  BY <1>1, <1>2 DEF OwnScripts
<1>7. CASE \A k \in ScriptKeys : db1'[k] = db1[k]
  <2>1. \A o \in Objects : HasSnippet(o) => db1'[ScriptKey(o)] = db1[ScriptKey(o)]
    BY <1>4, <1>7
  <2> QED BY <1>1, <1>5, <1>6, <2>1 DEF OwnScripts, WithScript, ScriptOf
<1>8. CASE db1' = Apply(db1, c) /\ c.key \in ScriptKeys
  <2>1. PICK n \in Ids : WithScript(n) /\ c = ScriptOf(n)
    BY <1>2, <1>8 DEF OwnScripts
  <2> DEFINE o == store[n]
             text == <<"lua", o.spec.snippet>>
  <2>2. o \in Objects /\ o # NoObject /\ HasSnippet(o) /\ ScriptKey(o) \in DOMAIN db1
    BY <1>3, <1>4, <1>5, <2>1 DEF WithScript
  <2>3. /\ \A k \in DOMAIN db1 : k # ScriptKey(o) => db1'[k] = db1[k]
        /\ db1'[ScriptKey(o)] = db1[ScriptKey(o)] \cup {text}
    BY <1>8, <2>1, <2>2, ApplySADD DEF ScriptOf
  <2>4. ASSUME NEW p \in Objects, HasSnippet(p), rv < p.version
        PROVE  db1'[ScriptKey(p)] = {}
    <3>1. p.version # o.version
      <4>1. o.version <= rv /\ o.version \in Nat /\ p.version \in Nat /\ rv \in Nat
        BY <2>2, BoundsAssumption DEF OwnScripts, TypeOK, Objects
      <4> QED BY <2>4, <4>1
    <3>2. ScriptKey(p) # ScriptKey(o)
      BY <3>1, ScriptKeysApart
    <3> QED BY <1>3, <1>4, <2>3, <2>4, <3>2 DEF OwnScripts
  <2>5. ASSUME NEW m \in Ids, WithScript(m)
        PROVE  db1'[ScriptKey(store[m])] \subseteq {<<"lua", store[m].spec.snippet>>}
    <3>1. CASE ScriptKey(store[m]) = ScriptKey(o)
      <4>1. Id(store[m].spec) = Id(o.spec)
        BY <3>1, ScriptKeysApart
      <4>2. m = n
        BY <2>2, <2>5, <4>1 DEF StoreIds, WithScript
      <4> QED BY <2>1, <2>3, <4>2 DEF OwnScripts
    <3>2. CASE ScriptKey(store[m]) # ScriptKey(o)
      BY <1>3, <1>4, <1>5, <2>3, <2>5, <3>2 DEF OwnScripts, WithScript
    <3> QED BY <3>1, <3>2
  <2> QED BY <1>1, <1>6, <2>4, <2>5 DEF OwnScripts, WithScript, ScriptOf
<1>9. CASE db1' = Apply(db1, c) /\ c.key \notin ScriptKeys
  <2>1. \A k \in ScriptKeys : db1'[k] = db1[k]
    BY <1>3, <1>9 DEF Apply
  <2> QED BY <1>7, <2>1
<1> QED BY <1>1, <1>7, <1>8, <1>9

LEMMA OwnScriptsStep ==
    ASSUME TypeOK, StoreIds, RoutesPlain, OwnScripts, [Next]_ingressVars
    PROVE  OwnScripts'
<1>1. ASSUME NEW s \in Specs, Add(s) \/ Update(s)
      PROVE  OwnScripts'
  <2> DEFINE o == Version(s)
  <2>1. /\ rv < MaxVersion /\ rv' = rv + 1 /\ db1' = db1
        /\ store' = [store EXCEPT ![Id(s)] = o] /\ Id(s) \in Ids
    BY <1>1 DEF Add, Update, Deliver, Ids
  <2>2. o \in Objects /\ o.version = rv + 1
    BY <2>1, BoundsAssumption DEF Version, Objects, TypeOK
  <2>3. CASE Add(s)
    <3>1. todo' = AddProgram(o)
      BY <2>3 DEF Add, Deliver
    <3> QED BY <2>1, <2>2, <3>1, ProgramScripts, GivenScripts
  <2>4. CASE Update(s)
    <3>1. store[Id(s)] \in Objects
      BY <2>1, <2>4 DEF Update, TypeOK
    <3>2. PICK order \in SetToSeqs(Touched(store[Id(s)], o)) :
                todo' = UpdateProgram(store[Id(s)], o, order)
      BY <2>4 DEF Update, Deliver
    <3> QED BY <2>1, <2>2, <3>1, <3>2, ProgramScripts, GivenScripts
  <2> QED BY <1>1, <2>3, <2>4
<1>2. ASSUME NEW n \in Ids, Resync(n)
      PROVE  OwnScripts'
  <2>1. store[n] \in Objects /\ rv' = rv /\ db1' = db1 /\ store' = [store EXCEPT ![n] = store[n]]
    BY <1>2 DEF Resync, Deliver, TypeOK
  <2>2. PICK order \in SetToSeqs(Touched(store[n], store[n])) :
              todo' = UpdateProgram(store[n], store[n], order)
    BY <1>2 DEF Resync, Deliver
  <2> QED BY <2>1, <2>2, ProgramScripts, GivenScripts
<1>3. ASSUME NEW n \in Ids, Delete(n)
      PROVE  OwnScripts'
  <2>1. /\ store[n] \in Objects /\ rv' = rv /\ db1' = db1
        /\ store' = [store EXCEPT ![n] = NoObject]
        /\ todo' = DeleteProgram(store[n]) \/ todo' = <<>>
    BY <1>3 DEF Delete, Deliver, TypeOK
  <2>2. \A c \in Coming(todo') : c.key \notin ScriptKeys
    BY <2>1, ProgramScripts DEF Coming
  <2>3. store'[n] = NoObject /\ \A m \in Ids \ {n} : store'[m] = store[m]
    BY <2>1 DEF TypeOK
  <2> QED BY <2>1, <2>2, <2>3 DEF OwnScripts, WithScript
<1>4. CASE Exec
  BY <1>4, ExecScripts
<1>5. CASE Panic \/ Restart
  <2>1. /\ rv' = 0 /\ todo' = <<>> /\ \A n \in Ids : store'[n] = NoObject
        /\ \A k \in DBOneKeys : db1'[k] = {}
    BY <1>5 DEF Panic, Restart, FlushAll, TypeOK
  <2>2. \A o \in Objects : HasSnippet(o) => ScriptKey(o) \in DBOneKeys
    BY DEF ScriptKeys, DBOneKeys
  <2> QED BY <2>1, <2>2 DEF OwnScripts, WithScript, Coming
<1>6. CASE UNCHANGED ingressVars
  BY <1>6 DEF ingressVars, OwnScripts, WithScript, ScriptOf
<1> QED BY <1>1, <1>2, <1>3, <1>4, <1>5, <1>6 DEF Next, IngressEvent

LEMMA OwnScriptsAlways == Spec => []OwnScripts
<1>1. Init => OwnScripts
  <2> SUFFICES ASSUME Init PROVE OwnScripts
    OBVIOUS
  <2>1. \A o \in Objects : HasSnippet(o) => ScriptKey(o) \in DBOneKeys
    BY DEF ScriptKeys, DBOneKeys
  <2> QED BY <2>1 DEF Init, OwnScripts, WithScript, Coming
<1>2. TypeOK /\ StoreIds /\ RoutesPlain /\ OwnScripts /\ [Next]_ingressVars => OwnScripts'
  BY OwnScriptsStep
<1>3. Spec => [](TypeOK /\ StoreIds /\ RoutesPlain)
  BY TypeCorrect, StoreIdsInductive, RoutesPlainInductive, PTL DEF Spec
<1> QED BY <1>1, <1>2, <1>3, PTL DEF Spec

-----------------------------------------------------------------------------
(* What is relayed. *)

(* What an object asks for, by kind; its version is only in the name of    *)
(* its script.                                                             *)
LEMMA AskedByKind ==
    ASSUME NEW o, NEW hp
    PROVE  /\ \A m \in Services : m \in Asks(o, hp) <=>
                \E i \in DOMAIN Routes(o.spec) :
                    Routes(o.spec)[i].hp = hp /\ m = <<"svc", Routes(o.spec)[i].svc>>
           /\ \A m \in ScriptKeys : m \in Asks(o, hp) <=>
                HasSnippet(o) /\ hp \in HostPathsOf(o.spec) /\ m = ScriptKey(o)
<1> DEFINE there == {r \in {Routes(o.spec)[i] : i \in DOMAIN Routes(o.spec)} : r.hp = hp}
<1>1. Asks(o, hp) = {<<"svc", r.svc>> : r \in there}
                        \cup (IF there # {} /\ HasSnippet(o) THEN {ScriptKey(o)} ELSE {})
  BY DEF Asks
<1>2. /\ \A r : r \in there <=> \E i \in DOMAIN Routes(o.spec) : r = Routes(o.spec)[i] /\ r.hp = hp
      /\ there # {} <=> hp \in HostPathsOf(o.spec)
  BY DEF HostPathsOf
<1>3. \A m \in Services : m # ScriptKey(o)
  BY DEF Services, ScriptKey
<1>4. \A m \in ScriptKeys : \A x : m # <<"svc", x>>
  BY DEF ScriptKeys, ScriptKey
<1> HIDE DEF there
<1> QED BY <1>1, <1>2, <1>3, <1>4

(* With nothing left to report the handler has what the API server has. *)
LEMMA SameObjects ==
    ASSUME Told, behind = {}
    PROVE  /\ \A o \in ApiObjects : \E p \in Declared : p.spec = o.spec
           /\ \A p \in Declared : \E o \in ApiObjects : o.spec = p.spec
<1>1. \A n \in Ids : IF api[n] = Absent THEN store[n] = NoObject
                                       ELSE store[n] # NoObject /\ store[n].spec = api[n]
  BY DEF Told
<1>2. ASSUME NEW o \in ApiObjects
      PROVE  \E p \in Declared : p.spec = o.spec
  <2>1. PICK n \in Ids : api[n] # Absent /\ o.spec = api[n] /\ Included(o)
    BY DEF ApiObjects
  <2>2. store[n] \in Declared /\ store[n].spec = o.spec
    BY <1>1, <2>1 DEF Declared, Included
  <2> QED BY <2>2
<1>3. ASSUME NEW p \in Declared
      PROVE  \E o \in ApiObjects : o.spec = p.spec
  <2>1. PICK n \in Ids : p = store[n] /\ store[n] # NoObject /\ Included(p)
    BY DEF Declared
  <2> DEFINE o == [spec |-> api[n], version |-> 1]
  <2>2. api[n] # Absent /\ o.spec = p.spec
    BY <1>1, <2>1
  <2>3. o \in ApiObjects
    BY <2>1, <2>2 DEF ApiObjects, Included
  <2> QED BY <2>2, <2>3
<1> QED BY <1>2, <1>3

(* So the table has the services the API server's ingresses ask for ...    *)
LEMMA ServicesRelayed ==
    ASSUME Told, behind = {}, Table = Wanted, NEW hp \in HostPaths
    PROVE  Table[hp] \cap Services = ApiAsks(hp)
<1>1. Table[hp] = UNION {Asks(o, hp) : o \in Declared}
  BY DEF Wanted
<1>2. \A o, p : o.spec = p.spec => \A m \in Services : m \in Asks(o, hp) => m \in Asks(p, hp)
  BY AskedByKind
<1>3. ASSUME NEW m \in Services
      PROVE  (\E o \in Declared : m \in Asks(o, hp)) <=> (\E o \in ApiObjects : m \in Asks(o, hp))
  BY <1>2, SameObjects
<1>4. \A m : m \in ApiAsks(hp) <=> m \in Services /\ \E o \in ApiObjects : m \in Asks(o, hp)
  BY DEF ApiAsks
<1>5. \A m : m \in Table[hp] <=> \E o \in Declared : m \in Asks(o, hp)
  BY <1>1
<1> QED BY <1>3, <1>4, <1>5

(* ... and their scripts.                                                  *)
LEMMA ScriptsRelayed ==
    ASSUME TypeOK, Told, OwnScripts, ScriptBeforeRoute, behind = {}, faults = 0, Table = Wanted,
           NEW hp \in HostPaths
    PROVE  ScriptsAt(hp) = ApiScripts(hp)
<1>1. Table[hp] = UNION {Asks(o, hp) : o \in Declared} /\ Table[hp] = db1[RouteKey(hp)]
  BY DEF Wanted, Table
<1>2. \A o \in Declared : /\ \E n \in Ids : store[n] = o /\ o # NoObject
                          /\ o \in Objects
  BY DEF Declared, TypeOK
<1>3. ASSUME NEW o \in Declared, HasSnippet(o), hp \in HostPathsOf(o.spec)
      PROVE  ScriptKey(o) \in Table[hp] \cap ScriptKeys /\
            db1[ScriptKey(o)] = {<<"lua", o.spec.snippet>>}
  <2>1. ScriptKey(o) \in ScriptKeys
    BY <1>2, <1>3 DEF ScriptKeys
  <2>2. ScriptKey(o) \in Table[hp]
    BY <1>1, <1>3, <2>1, AskedByKind
  <2>3. RouteKey(hp) \in DBOneKeys \ ScriptKeys
    BY HostKeysApart
  <2>4. db1[ScriptKey(o)] # {}
    BY <1>1, <2>1, <2>2, <2>3 DEF ScriptBeforeRoute
  <2>5. db1[ScriptKey(o)] \subseteq {<<"lua", o.spec.snippet>>}
    BY <1>2, <1>3 DEF OwnScripts, WithScript
  <2> QED BY <2>1, <2>2, <2>4, <2>5
<1>4. ASSUME NEW m \in Table[hp] \cap ScriptKeys
      PROVE  \E o \in Declared : HasSnippet(o) /\ hp \in HostPathsOf(o.spec) /\ m = ScriptKey(o)
  BY <1>1, AskedByKind
<1>5. ASSUME NEW x \in ScriptsAt(hp)
      PROVE  x \in ApiScripts(hp)
  <2>1. PICK m \in Table[hp] \cap ScriptKeys : x \in db1[m]
    BY <1>5 DEF ScriptsAt
  <2>2. PICK p \in Declared : HasSnippet(p) /\ hp \in HostPathsOf(p.spec) /\ m = ScriptKey(p)
    BY <1>4, <2>1
  <2>3. x = <<"lua", p.spec.snippet>>
    BY <1>3, <2>1, <2>2
  <2>4. PICK o \in ApiObjects : o.spec = p.spec
    BY <2>2, SameObjects
  <2> QED BY <2>2, <2>3, <2>4 DEF ApiScripts, HasSnippet
<1>6. ASSUME NEW x \in ApiScripts(hp)
      PROVE  x \in ScriptsAt(hp)
  <2>1. PICK o \in ApiObjects : HasSnippet(o) /\ hp \in HostPathsOf(o.spec) /\
          x = <<"lua", o.spec.snippet>>
    BY <1>6 DEF ApiScripts
  <2>2. PICK p \in Declared : p.spec = o.spec
    BY <2>1, SameObjects
  <2>3. HasSnippet(p) /\ hp \in HostPathsOf(p.spec) /\ x = <<"lua", p.spec.snippet>>
    BY <2>1, <2>2 DEF HasSnippet
  <2> QED BY <1>3, <2>3 DEF ScriptsAt
<1> QED BY <1>5, <1>6

(* However late the watch is, whatever versions it leaves out, and         *)
(* wherever the controller stops or panics (watcher.go:66-134): a table    *)
(* that is what the handler was given last, when nothing is left to        *)
(* report, has the services and the scripts that users ask for.            *)
THEOREM NewsIsRelayed == RSafeSpec => []RelayedAtRest
<1>1. TypeOK /\ ScriptBeforeRoute /\ OwnScripts /\ Told => RelayedAtRest
  BY ServicesRelayed, ScriptsRelayed DEF RelayedAtRest, RedisHasAll
<1> QED BY <1>1, RelayIsIngressHandler, TypeCorrect, ScriptsFirst, OwnScriptsAlways, PTL

(* With ingresses that keep apart what they write                          *)
(* (handlerIngress.go:44-71, 217-334) that is so whenever the handler is   *)
(* at rest and nothing was lost: what users declare is in Redis, and       *)
(* nothing else.                                                           *)
THEOREM AllIsRelayed ==
    ASSUME Orderly(Specs)
    PROVE  RSafeSpec => [](AtRest /\ behind = {} /\ faults + missed = 0 => RedisHasAll)
<1>1. TypeOK /\ Settled /\ RelayedAtRest =>
        (AtRest /\ behind = {} /\ faults + missed = 0 => RedisHasAll)
  BY BoundsAssumption, Sums DEF TypeOK, Settled, RelayedAtRest
<1> QED BY <1>1, NewsIsRelayed, RelayIsIngressHandler, TypeCorrect, TableSettles, PTL
=============================================================================
