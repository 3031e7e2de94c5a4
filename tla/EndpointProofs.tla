--------------------------- MODULE EndpointProofs ---------------------------
(***************************************************************************)
(* Theorems of EndpointHandler, for every set of Endpoints objects and     *)
(* every bound: type correctness, that no copy outlives the turn of update *)
(* that made it, and, for objects that keep their ports (EpOrderly), that  *)
(* the table settles and that the handler implements LookupTable's safety  *)
(* part.                                                                   *)
(*                                                                         *)
(* The argument follows the callback through its loop: EpOnItsWay says     *)
(* which port it is at and how far it has come in that port's turn, and    *)
(* EpHalfway what the database holds there.                                *)
(***************************************************************************)
EXTENDS EndpointHandler, RedisProofs

-----------------------------------------------------------------------------
(* A service port and the copy update makes of it are different keys, and  *)
(* so are those of different service ports.                                *)
LEMMA EpKeysApart ==
    ASSUME NEW k \in SvcKeys, NEW l \in SvcKeys
    PROVE  /\ k \in DB0Keys /\ EpTempKey(k) \in DB0Keys
           /\ k # EpTempKey(l)
           /\ EpTempKey(k) = EpTempKey(l) => k = l
<1>1. \A m \in SvcKeys : m = <<"svc", m[2]>>
  BY DEF SvcKeys, EpKey
<1>2. k = <<"svc", k[2]>> /\ l = <<"svc", l[2]>>
  BY <1>1
<1>3. k # EpTempKey(l)
  BY <1>2 DEF EpTempKey
<1>4. EpTempKey(k) = EpTempKey(l) => k = l
  BY <1>2 DEF EpTempKey
<1> QED BY <1>3, <1>4 DEF DB0Keys

(* What one turn of a loop may write about.                                *)
LEMMA PortType ==
    ASSUME NEW e \in Endpoints, NEW p \in EpPorts(e)
    PROVE  /\ EpKey(e, p) \in SvcKeys
           /\ Len(p.addrs) \in Nat /\ DOMAIN p.addrs = 1..Len(p.addrs)
           /\ \A i \in 1..Len(p.addrs) : EpMember(p, p.addrs[i]) \in EpMembers(p)
           /\ EpMembers(p) \subseteq IPPorts
<1>1. p.addrs \in Seq({p.addrs[i] : i \in DOMAIN p.addrs})
  BY EndpointsAssumption
<1>2. Len(p.addrs) \in Nat /\ DOMAIN p.addrs = 1..Len(p.addrs)
  BY <1>1
<1>3. EpKey(e, p) \in SvcKeys
  BY DEF SvcKeys
<1>4. EpMembers(p) \subseteq IPPorts
  BY DEF IPPorts
<1>5. \A i \in 1..Len(p.addrs) : EpMember(p, p.addrs[i]) \in EpMembers(p)
  BY <1>2 DEF EpMembers
<1> QED BY <1>2, <1>3, <1>4, <1>5

EpCommands == Command(DB0Keys, IPPorts)

(* The turn of add: the addresses into the service port. *)
LEMMA AddTurn ==
    ASSUME NEW e \in Endpoints, NEW p \in EpPorts(e)
    PROVE  /\ EpAdd(e, p) \in Seq(EpCommands)
           /\ Len(EpAdd(e, p)) = Len(p.addrs)
           /\ \A i \in 1..Len(p.addrs) : EpAdd(e, p)[i] = SADD(EpKey(e, p), EpMember(p, p.addrs[i]))
<1>1. \A i \in 1..Len(p.addrs) : SADD(EpKey(e, p), EpMember(p, p.addrs[i])) \in EpCommands
  <2>1. EpKey(e, p) \in DB0Keys
    BY PortType, EpKeysApart
  <2> QED BY <2>1, PortType DEF SADD, EpCommands, Command
<1>2. EpAdd(e, p) \in [1..Len(p.addrs) -> EpCommands]
  BY <1>1, PortType DEF EpAdd
<1>3. \A i \in 1..Len(p.addrs) : EpAdd(e, p)[i] = SADD(EpKey(e, p), EpMember(p, p.addrs[i]))
  BY PortType DEF EpAdd
<1> QED BY <1>2, <1>3, PortType, IsSequence

(* The turn of update: the addresses into the copy, the copy in place, and *)
(* the copy away.                                                          *)
LEMMA UpdateTurn ==
    ASSUME NEW e \in Endpoints, NEW p \in EpPorts(e)
    PROVE  LET key  == EpKey(e, p)
               temp == EpTempKey(key)
               n    == Len(p.addrs)
           IN  /\ EpUpdate(e, p) \in Seq(EpCommands)
               /\ Len(EpUpdate(e, p)) = n + 2
               /\ \A i \in 1..n : EpUpdate(e, p)[i] = SADD(temp, EpMember(p, p.addrs[i]))
               /\ EpUpdate(e, p)[n + 1] = SUNIONSTORE(key, temp)
               /\ EpUpdate(e, p)[n + 2] = DEL(temp)
<1> DEFINE key  == EpKey(e, p)
           temp == EpTempKey(key)
           n    == Len(p.addrs)
           adds == [i \in DOMAIN p.addrs |-> SADD(temp, EpMember(p, p.addrs[i]))]
           swap == SUNIONSTORE(key, temp)
           del  == DEL(temp)
<1>1. key \in DB0Keys /\ temp \in DB0Keys
  BY PortType, EpKeysApart
<1>2. /\ n \in Nat
      /\ \A i \in 1..n : adds[i] = SADD(temp, EpMember(p, p.addrs[i]))
      /\ adds \in [1..n -> EpCommands]
  <2>1. \A i \in 1..n : SADD(temp, EpMember(p, p.addrs[i])) \in EpCommands
    BY <1>1, PortType DEF SADD, EpCommands, Command
  <2> QED BY <2>1, PortType
<1>3. swap \in EpCommands /\ del \in EpCommands
  BY <1>1 DEF SUNIONSTORE, DEL, EpCommands, Command
<1>4. EpUpdate(e, p) = adds \o <<swap, del>>
  BY DEF EpUpdate
<1> HIDE DEF adds, swap, del, n, temp
<1>5. adds \in Seq(EpCommands) /\ Len(adds) = n
  BY <1>2, IsSequence
<1>6. /\ adds \o <<swap, del>> \in Seq(EpCommands)
      /\ Len(adds \o <<swap, del>>) = n + 2
      /\ \A i \in 1..n : (adds \o <<swap, del>>)[i] = adds[i]
      /\ (adds \o <<swap, del>>)[n + 1] = swap
      /\ (adds \o <<swap, del>>)[n + 2] = del
  BY <1>2, <1>3, <1>5
<1> QED BY <1>2, <1>4, <1>6 DEF swap, del, n, temp

(* The turn of delete: the service port away. *)
LEMMA DeleteTurn ==
    ASSUME NEW e \in Endpoints, NEW p \in EpPorts(e)
    PROVE  /\ EpDelete(e, p) \in Seq(EpCommands)
           /\ Len(EpDelete(e, p)) = 1
           /\ EpDelete(e, p)[1] = DEL(EpKey(e, p))
<1>1. DEL(EpKey(e, p)) \in EpCommands
  BY PortType, EpKeysApart DEF DEL, EpCommands, Command
<1> QED BY <1>1 DEF EpDelete

-----------------------------------------------------------------------------
(* Where the callback is. *)

EpTurn(p) ==
    CASE epEvent.name = "add"    -> EpAdd(epEvent.object, p)
      [] epEvent.name = "update" -> EpUpdate(epEvent.object, p)
      [] epEvent.name = "delete" -> EpDelete(epEvent.object, p)

(* The ports its loop has reached, the port it is at and the commands of   *)
(* its turn that are issued.                                               *)
EpPast == Len(epEvent.object.ports) - Len(epPorts)
EpPort == epEvent.object.ports[EpPast]
EpDone == Len(EpTurn(EpPort)) - Len(epTodo)

(* The service port and the address the next command is about. *)
EpKeyNow    == EpKey(epEvent.object, EpPort)
EpMemberNow == EpMember(EpPort, EpPort.addrs[EpDone + 1])

(* What it has left is the rest of one turn and the turns of the ports     *)
(* behind it.                                                              *)
EpOnItsWay ==
    /\ epEvent.name \in {"add", "update", "delete"}
    /\ epEvent.object \in Endpoints
    /\ IncludeNamespace(epEvent.object.ns)
    /\ EpPast \in 0..Len(epEvent.object.ports)
    /\ \A j \in 1..Len(epPorts) : epPorts[j] = epEvent.object.ports[EpPast + j]
    /\ epTodo # <<>> =>
        /\ EpPast # 0
        /\ EpDone \in Nat
        /\ \A j \in 1..Len(epTodo) : epTodo[j] = EpTurn(EpPort)[EpDone + j]

(* The inductive invariant of the types. *)
EpInv ==
    /\ EpTypeOK
    /\ \A n \in EpIds : epStore[n] # NoEndpoints => EpId(epStore[n]) = n
    /\ EpIdle \/ EpOnItsWay

(* The ports of an object in their order. *)
LEMMA PortsType ==
    ASSUME NEW e \in Endpoints
    PROVE  /\ e.ports \in Seq(EpPorts(e))
           /\ Len(e.ports) \in Nat /\ DOMAIN e.ports = 1..Len(e.ports)
           /\ \A i \in 1..Len(e.ports) : e.ports[i] \in EpPorts(e)
           /\ EpPorts(e) \subseteq UNION {EpPorts(f) : f \in Endpoints}
<1>1. e.ports \in Seq(EpPorts(e))
  BY EndpointsAssumption
<1> QED BY <1>1

(* The turn of a port is made of commands the client can send. *)
LEMMA TurnType ==
    ASSUME epEvent.name \in {"add", "update", "delete"}, epEvent.object \in Endpoints,
           NEW p \in EpPorts(epEvent.object)
    PROVE  EpTurn(p) \in Seq(EpCommands) /\ Len(EpTurn(p)) \in Nat
<1>1. EpTurn(p) \in Seq(EpCommands)
  BY AddTurn, UpdateTurn, DeleteTurn DEF EpTurn
<1> QED BY <1>1

(* The loop reaches a port and has its whole turn before it. *)
LEMMA NextPortStep ==
    ASSUME EpInv, NextPort
    PROVE  /\ EpInv' /\ EpOnItsWay /\ EpOnItsWay'
           /\ EpPast' = EpPast + 1 /\ EpPast' \in 1..Len(epEvent.object.ports)
           /\ EpPort' = epPorts[1] /\ EpPort' \in EpPorts(epEvent.object)
           /\ EpPort' = epEvent.object.ports[EpPast']
           /\ epTodo' = EpTurn(epPorts[1]) /\ EpDone' = 0
<1> DEFINE e == epEvent.object
           p == epPorts[1]
<1>1. EpOnItsWay /\ epTodo = <<>> /\ epPorts # <<>>
  BY DEF EpInv, NextPort, EpIdle
<1>2. e \in Endpoints /\ epEvent' = epEvent
  BY <1>1 DEF EpOnItsWay, NextPort
<1>3. /\ Len(epPorts) \in Nat /\ Len(epPorts) >= 1
      /\ Head(epPorts) = p
      /\ epPorts' = Tail(epPorts)
      /\ epPorts' \in Seq(UNION {EpPorts(f) : f \in Endpoints})
      /\ Len(epPorts') = Len(epPorts) - 1
      /\ \A j \in 1..Len(epPorts') : epPorts'[j] = epPorts[j + 1]
  BY <1>1, TailFacts DEF EpInv, EpTypeOK, NextPort
<1>4. Len(e.ports) \in Nat /\ DOMAIN e.ports = 1..Len(e.ports)
  BY <1>2, PortsType
<1>5. EpPast' = EpPast + 1 /\ EpPast' \in 1..Len(e.ports)
  BY <1>1, <1>2, <1>3, <1>4 DEF EpPast, EpOnItsWay
<1>6. p = e.ports[EpPast'] /\ p \in EpPorts(e) /\ EpPort' = p
  <2>1. p = e.ports[EpPast + 1]
    BY <1>1, <1>3 DEF EpOnItsWay
  <2> QED BY <1>2, <1>5, <2>1, PortsType DEF EpPort
<1>7. epTodo' = EpTurn(p) /\ EpTurn(p) \in Seq(EpCommands)
  <2>1. epTodo' = EpTurn(p)
    BY <1>3 DEF NextPort, EpTurn
  <2> QED BY <1>1, <1>6, <2>1, TurnType DEF EpOnItsWay
<1>8. EpTurn(EpPort)' = EpTurn(p)
  BY <1>2, <1>6 DEF EpTurn
<1>9. EpDone' = 0
  BY <1>7, <1>8 DEF EpDone
<1>10. EpOnItsWay'
  <2>1. \A j \in 1..Len(epPorts') : epPorts'[j] = e.ports[EpPast' + j]
    <3> SUFFICES ASSUME NEW j \in 1..Len(epPorts') PROVE epPorts'[j] = e.ports[EpPast' + j]
      OBVIOUS
    <3>1. j + 1 \in 1..Len(epPorts) /\ EpPast \in Nat /\ EpPast' + j = EpPast + (j + 1)
      BY <1>1, <1>3, <1>4, <1>5 DEF EpOnItsWay
    <3> QED BY <1>1, <1>3, <3>1 DEF EpOnItsWay
  <2>2. \A j \in 1..Len(epTodo') : epTodo'[j] = EpTurn(EpPort)'[EpDone' + j]
    BY <1>7, <1>8, <1>9
  <2>3. EpPast' \in 0..Len(e.ports) /\ EpPast' # 0
    BY <1>4, <1>5
  <2> QED BY <1>1, <1>2, <1>9, <2>1, <2>2, <2>3 DEF EpOnItsWay
<1>11. EpTypeOK'
  BY <1>3, <1>7 DEF NextPort, EpInv, EpTypeOK, EpCommands
<1> QED BY <1>1, <1>2, <1>5, <1>6, <1>7, <1>9, <1>10, <1>11 DEF EpInv, NextPort

(* A command is issued, or lost: the callback is one further in its turn. *)
LEMMA CommandStep ==
    ASSUME EpInv, epTodo # <<>>, epTodo' = Tail(epTodo), UNCHANGED <<epEvent, epPorts>>
    PROVE  /\ EpOnItsWay /\ EpOnItsWay' /\ EpPast' = EpPast /\ EpPort' = EpPort
           /\ EpPast \in 1..Len(epEvent.object.ports)
           /\ EpPort \in EpPorts(epEvent.object)
           /\ EpTurn(EpPort)' = EpTurn(EpPort)
           /\ EpTurn(EpPort) \in Seq(EpCommands)
           /\ EpDone' = EpDone + 1 /\ EpDone \in Nat
           /\ EpDone + 1 \in 1..Len(EpTurn(EpPort))
           /\ Head(epTodo) = EpTurn(EpPort)[EpDone + 1] /\ Head(epTodo) \in EpCommands
           /\ epTodo' \in Seq(EpCommands)
           /\ epTodo' = <<>> <=> EpDone' = Len(EpTurn(EpPort))
<1> DEFINE e == epEvent.object
<1>1. EpOnItsWay
  BY DEF EpInv, EpIdle
<1>2. e \in Endpoints /\ Len(e.ports) \in Nat
  BY <1>1, PortsType DEF EpOnItsWay
<1>3. /\ Len(epTodo) \in Nat /\ Len(epTodo) >= 1
      /\ Head(epTodo) = epTodo[1] /\ epTodo[1] \in EpCommands
      /\ epTodo' \in Seq(EpCommands)
      /\ Len(epTodo') = Len(epTodo) - 1
      /\ \A j \in 1..Len(epTodo') : epTodo'[j] = epTodo[j + 1]
  BY TailFacts DEF EpInv, EpTypeOK, EpCommands
<1>4. EpPast' = EpPast /\ EpPast \in 1..Len(e.ports) /\ EpPort' = EpPort
  BY <1>1, <1>2 DEF EpOnItsWay, EpPast, EpPort
<1>5. EpPort \in EpPorts(e)
  BY <1>2, <1>4, PortsType DEF EpPort
<1>6. EpTurn(EpPort) \in Seq(EpCommands) /\ Len(EpTurn(EpPort)) \in Nat
  BY <1>1, <1>5, TurnType DEF EpOnItsWay
<1>7. EpTurn(EpPort)' = EpTurn(EpPort)
  BY <1>4 DEF EpTurn
<1>8. /\ EpDone \in Nat /\ EpDone' = EpDone + 1
      /\ EpDone + 1 \in 1..Len(EpTurn(EpPort))
      /\ epTodo' = <<>> <=> EpDone' = Len(EpTurn(EpPort))
  <2>1. EpDone \in Nat
    BY <1>1 DEF EpOnItsWay
  <2>2. EpDone = Len(EpTurn(EpPort)) - Len(epTodo) /\ EpDone' = Len(EpTurn(EpPort)) - Len(epTodo')
    BY <1>7 DEF EpDone
  <2>3. epTodo' = <<>> <=> Len(epTodo') = 0
    BY <1>3, EmptyFacts
  <2> QED BY <1>3, <1>6, <2>1, <2>2, <2>3
<1>9. epTodo[1] = EpTurn(EpPort)[EpDone + 1]
  BY <1>1, <1>3 DEF EpOnItsWay
<1>10. \A j \in 1..Len(epTodo') : epTodo'[j] = EpTurn(EpPort)[EpDone' + j]
  <2> SUFFICES ASSUME NEW j \in 1..Len(epTodo') PROVE epTodo'[j] = EpTurn(EpPort)[EpDone' + j]
    OBVIOUS
  <2>1. j + 1 \in 1..Len(epTodo) /\ EpDone' + j = EpDone + (j + 1)
    BY <1>3, <1>8
  <2> QED BY <1>1, <1>3, <2>1 DEF EpOnItsWay
<1>11. EpOnItsWay'
  BY <1>1, <1>4, <1>7, <1>8, <1>10 DEF EpOnItsWay
<1> QED BY <1>1, <1>3, <1>4, <1>5, <1>6, <1>7, <1>8, <1>9, <1>11

(* What the events hand to the handler, and the store they leave. *)
LEMMA EventStep ==
    ASSUME EpInv, EndpointEvent
    PROVE  /\ EpInv' /\ EpIdle /\ UNCHANGED <<db0, epFaults>>
           /\ epTodo' = <<>>
           /\ ~EpIdle' => EpPast' = 0 /\ epPorts' = epEvent'.object.ports
<1> USE EpBoundsAssumption
<1>1. ASSUME NEW name \in {"add", "update", "delete"}, NEW e \in Endpoints, EpDeliver(name, e)
      PROVE  /\ EpIdle /\ UNCHANGED <<db0, epFaults>> /\ epTodo' = <<>>
             /\ epEvent' = [name |-> name, object |-> e]
             /\ epPorts' \in Seq(UNION {EpPorts(f) : f \in Endpoints})
             /\ ~EpIdle' => EpOnItsWay' /\ EpPast' = 0 /\ epPorts' = e.ports
  <2>1. /\ EpIdle /\ UNCHANGED <<db0, epFaults>> /\ epTodo' = <<>>
        /\ epEvent' = [name |-> name, object |-> e]
    BY <1>1 DEF EpDeliver, EpIdle
  <2>2. epPorts' \in Seq(UNION {EpPorts(f) : f \in Endpoints})
    BY <1>1, PortsType DEF EpDeliver
  <2>3. CASE IncludeNamespace(e.ns)
    <3>1. epPorts' = e.ports
      BY <1>1, <2>3 DEF EpDeliver
    <3>2. EpPast' = 0
      BY <2>1, <3>1, PortsType DEF EpPast
    <3>3. Len(e.ports) \in Nat /\ \A j \in 1..Len(epPorts') : epPorts'[j] = e.ports[EpPast' + j]
      BY <3>1, <3>2, PortsType
    <3>4. EpPast' \in 0..Len(e.ports)
      BY <3>2, <3>3
    <3>5. EpOnItsWay'
      BY <2>1, <2>3, <3>3, <3>4 DEF EpOnItsWay
    <3> QED BY <2>1, <2>2, <3>1, <3>2, <3>5
  <2>4. CASE ~IncludeNamespace(e.ns)
    <3>1. epPorts' = <<>>
      BY <1>1, <2>4 DEF EpDeliver
    <3>2. EpIdle'
      BY <2>1, <3>1 DEF EpIdle
    <3> QED BY <2>1, <2>2, <3>2 DEF EpIdle
  <2> QED BY <2>1, <2>2, <2>3, <2>4
<1>2. ASSUME NEW e \in Endpoints, AddEndpoints(e) \/ UpdateEndpoints(e)
      PROVE  /\ EpInv' /\ EpIdle /\ UNCHANGED <<db0, epFaults>> /\ epTodo' = <<>>
             /\ ~EpIdle' => EpPast' = 0 /\ epPorts' = epEvent'.object.ports
  <2>1. PICK name \in {"add", "update"} : EpDeliver(name, e)
    BY <1>2 DEF AddEndpoints, UpdateEndpoints
  <2>2. epStore' = [epStore EXCEPT ![EpId(e)] = e] /\ UNCHANGED epMissed
    BY <1>2 DEF AddEndpoints, UpdateEndpoints
  <2>3. \A n \in EpIds : epStore'[n] # NoEndpoints => EpId(epStore'[n]) = n
    BY <2>2 DEF EpInv, EpTypeOK
  <2>4. /\ EpIdle /\ UNCHANGED <<db0, epFaults>> /\ epTodo' = <<>>
        /\ epEvent' = [name |-> name, object |-> e]
        /\ epPorts' \in Seq(UNION {EpPorts(f) : f \in Endpoints})
        /\ ~EpIdle' => EpOnItsWay' /\ EpPast' = 0 /\ epPorts' = e.ports
    BY <1>1, <2>1
  <2>5. epStore' \in [EpIds -> Endpoints \cup {NoEndpoints}]
    BY <2>2 DEF EpInv, EpTypeOK
  <2>6. EpTypeOK'
    BY <2>2, <2>4, <2>5 DEF EpInv, EpTypeOK
  <2> QED BY <2>3, <2>4, <2>6 DEF EpInv
<1>3. ASSUME NEW n \in EpIds, DeleteEndpoints(n)
      PROVE  /\ EpInv' /\ EpIdle /\ UNCHANGED <<db0, epFaults>> /\ epTodo' = <<>>
             /\ ~EpIdle' => EpPast' = 0 /\ epPorts' = epEvent'.object.ports
  <2>1. EpDeliver("delete", epStore[n]) /\ epStore[n] \in Endpoints
    BY <1>3 DEF DeleteEndpoints, EpInv, EpTypeOK
  <2>2. epStore' = [epStore EXCEPT ![n] = NoEndpoints] /\ UNCHANGED epMissed
    BY <1>3 DEF DeleteEndpoints
  <2>3. \A m \in EpIds : epStore'[m] # NoEndpoints => EpId(epStore'[m]) = m
    BY <2>2 DEF EpInv, EpTypeOK
  <2>4. /\ EpIdle /\ UNCHANGED <<db0, epFaults>> /\ epTodo' = <<>>
        /\ epEvent' = [name |-> "delete", object |-> epStore[n]]
        /\ epPorts' \in Seq(UNION {EpPorts(f) : f \in Endpoints})
        /\ ~EpIdle' => EpOnItsWay' /\ EpPast' = 0 /\ epPorts' = epStore[n].ports
    BY <1>1, <2>1
  <2>5. EpTypeOK'
    BY <2>1, <2>2, <2>4 DEF EpInv, EpTypeOK
  <2> QED BY <2>3, <2>4, <2>5 DEF EpInv
<1>4. ASSUME NEW n \in EpIds, DeleteEndpointsMissed(n)
      PROVE  /\ EpInv' /\ EpIdle /\ UNCHANGED <<db0, epFaults>> /\ epTodo' = <<>> /\ EpIdle'
  BY <1>4 DEF DeleteEndpointsMissed, EpIdle, EpInv, EpTypeOK
<1> QED BY <1>2, <1>3, <1>4 DEF EndpointEvent

(* The callback stays on its way through every step. *)
LEMMA EpInvInductive ==
    /\ EpInit => EpInv
    /\ EpInv /\ [EpNext]_endpointVars => EpInv'
<1> USE EpBoundsAssumption
<1>1. EpInit => EpInv
  BY DEF EpInit, EpInv, EpTypeOK, EpIdle
<1>2. ASSUME EpInv, [EpNext]_endpointVars
      PROVE  EpInv'
  <2>1. CASE EndpointEvent
    BY <1>2, <2>1, EventStep
  <2>2. CASE NextPort
    BY <1>2, <2>2, NextPortStep
  <2>3. CASE EpExec
    <3>1. EpOnItsWay' /\ epTodo' \in Seq(EpCommands) /\ Head(epTodo) \in EpCommands
      BY <1>2, <2>3, CommandStep DEF EpExec
    <3>2. db0' \in [DB0Keys -> SUBSET IPPorts]
      BY <1>2, <2>3, <3>1, ApplyType DEF EpExec, EpInv, EpTypeOK
    <3> QED BY <1>2, <2>3, <3>1, <3>2 DEF EpExec, EpInv, EpTypeOK, EpCommands
  <2>4. CASE EpFail
    <3>1. EpOnItsWay' /\ epTodo' \in Seq(EpCommands)
      BY <1>2, <2>4, CommandStep DEF EpFail
    <3> QED BY <1>2, <2>4, <3>1 DEF EpFail, EpInv, EpTypeOK, EpCommands
  <2>5. CASE EpRestart
    BY <1>2, <2>5 DEF EpRestart, FlushAll, EpInv, EpTypeOK, EpIdle
  <2>6. CASE UNCHANGED endpointVars
    <3>1. EpTypeOK' /\ epStore' = epStore /\ EpIdle' = EpIdle
      BY <1>2, <2>6 DEF endpointVars, EpInv, EpTypeOK, EpIdle
    <3>2. EpOnItsWay' = EpOnItsWay
      BY <2>6 DEF endpointVars, EpOnItsWay, EpPast, EpDone, EpPort, EpTurn
    <3> QED BY <1>2, <3>1, <3>2 DEF EpInv
  <2> QED BY <1>2, <2>1, <2>2, <2>3, <2>4, <2>5, <2>6 DEF EpNext, EpStep
<1> QED BY <1>1, <1>2

(* Every variable keeps its type, whatever fails, is missed, and whenever  *)
(* the container restarts: the handler never writes about anything but the *)
(* ports of its objects and their copies.                                  *)
THEOREM EpTypeCorrect == EpSpec => []EpTypeOK
<1>1. EpInv => EpTypeOK
  BY DEF EpInv
<1> QED BY <1>1, EpInvInductive, PTL DEF EpSpec

-----------------------------------------------------------------------------
(* No copy outlives the turn that makes it. *)

(* A copy is of the port that update is at, whose turn ends with its DEL.  *)
EpCopies ==
    epFaults = 0 =>
        \A k \in SvcKeys : db0[EpTempKey(k)] # {} =>
            epEvent.name = "update" /\ epTodo # <<>> /\ k = EpKeyNow

(* What one command of each callback does. *)
LEMMA ExecStep ==
    ASSUME EpInv, EpExec
    PROVE  /\ EpKeyNow \in SvcKeys /\ Len(EpPort.addrs) \in Nat
           /\ epEvent.name = "add" =>
                EpDone + 1 \in 1..Len(EpPort.addrs) /\ db0' = Apply(db0, SADD(EpKeyNow, EpMemberNow))
           /\ epEvent.name = "delete" =>
                epTodo' = <<>> /\ db0' = Apply(db0, DEL(EpKeyNow))
           /\ epEvent.name = "update" =>
                \/ /\ EpDone + 1 \in 1..Len(EpPort.addrs) /\ epTodo' # <<>>
                   /\ db0' = Apply(db0, SADD(EpTempKey(EpKeyNow), EpMemberNow))
                \/ /\ EpDone = Len(EpPort.addrs) /\ epTodo' # <<>>
                   /\ db0' = Apply(db0, SUNIONSTORE(EpKeyNow, EpTempKey(EpKeyNow)))
                \/ /\ EpDone = Len(EpPort.addrs) + 1 /\ epTodo' = <<>>
                   /\ db0' = Apply(db0, DEL(EpTempKey(EpKeyNow)))
<1> DEFINE e == epEvent.object
           n == Len(EpPort.addrs)
<1>1. /\ EpOnItsWay /\ EpPort \in EpPorts(e) /\ EpDone \in Nat
      /\ EpDone' = EpDone + 1
      /\ EpDone + 1 \in 1..Len(EpTurn(EpPort))
      /\ Head(epTodo) = EpTurn(EpPort)[EpDone + 1]
      /\ epTodo' = <<>> <=> EpDone' = Len(EpTurn(EpPort))
  BY CommandStep DEF EpExec
<1>2. e \in Endpoints
  BY <1>1 DEF EpOnItsWay
<1>3. EpKeyNow \in SvcKeys /\ n \in Nat
  BY <1>1, <1>2, PortType DEF EpKeyNow
<1>4. db0' = Apply(db0, EpTurn(EpPort)[EpDone + 1])
  BY <1>1 DEF EpExec
<1>5. CASE epEvent.name = "add"
  <2>1. EpTurn(EpPort) = EpAdd(e, EpPort)
    BY <1>5 DEF EpTurn
  <2>2. EpDone + 1 \in 1..n
    BY <1>1, <1>2, <2>1, AddTurn
  <2>3. EpAdd(e, EpPort)[EpDone + 1] = SADD(EpKeyNow, EpMemberNow)
    BY <1>1, <1>2, <2>2, AddTurn DEF EpKeyNow, EpMemberNow
  <2> QED BY <1>3, <1>4, <1>5, <2>1, <2>2, <2>3
<1>6. CASE epEvent.name = "update"
  <2>1. EpTurn(EpPort) = EpUpdate(e, EpPort)
    BY <1>6 DEF EpTurn
  <2>2. /\ Len(EpUpdate(e, EpPort)) = n + 2
        /\ \A i \in 1..n : EpUpdate(e, EpPort)[i] = SADD(EpTempKey(EpKeyNow), EpMember(EpPort, EpPort.addrs[i]))
        /\ EpUpdate(e, EpPort)[n + 1] = SUNIONSTORE(EpKeyNow, EpTempKey(EpKeyNow))
        /\ EpUpdate(e, EpPort)[n + 2] = DEL(EpTempKey(EpKeyNow))
    BY <1>1, <1>2, UpdateTurn DEF EpKeyNow
  <2>3. EpDone + 1 \in 1..n \/ EpDone = n \/ EpDone = n + 1
    BY <1>1, <1>3, <2>1, <2>2
  <2>4. epTodo' = <<>> <=> EpDone = n + 1
    BY <1>1, <1>3, <2>1, <2>2
  <2>5. CASE EpDone + 1 \in 1..n
    BY <1>1, <1>3, <1>4, <1>6, <2>1, <2>2, <2>4, <2>5 DEF EpMemberNow
  <2>6. CASE EpDone = n
    BY <1>3, <1>4, <1>6, <2>1, <2>2, <2>4, <2>6
  <2>7. CASE EpDone = n + 1
    <3>1. EpDone + 1 = n + 2
      BY <1>3, <2>7
    <3> QED BY <1>3, <1>4, <1>6, <2>1, <2>2, <2>4, <2>7, <3>1
  <2> QED BY <2>3, <2>5, <2>6, <2>7
<1>7. CASE epEvent.name = "delete"
  <2>1. EpTurn(EpPort) = EpDelete(e, EpPort)
    BY <1>7 DEF EpTurn
  <2>2. Len(EpDelete(e, EpPort)) = 1 /\ EpDelete(e, EpPort)[1] = DEL(EpKeyNow)
    BY <1>1, <1>2, DeleteTurn DEF EpKeyNow
  <2>3. EpDone + 1 = 1 /\ epTodo' = <<>>
    BY <1>1, <2>1, <2>2
  <2> QED BY <1>3, <1>4, <1>7, <2>1, <2>2, <2>3
<1>8. epEvent.name \in {"add", "update", "delete"}
  BY <1>1 DEF EpOnItsWay
<1> QED BY <1>3, <1>5, <1>6, <1>7, <1>8

(* The copies stay within the turns of update. *)
LEMMA EpCopiesInductive ==
    /\ EpInit => EpCopies
    /\ EpInv /\ EpCopies /\ [EpNext]_endpointVars => EpCopies'
<1>1. EpInit => EpCopies
  BY DEF EpInit, EpCopies, DB0Keys
<1>2. ASSUME EpInv, EpCopies, [EpNext]_endpointVars
      PROVE  EpCopies'
  <2>1. CASE EndpointEvent \/ NextPort
    <3>1. epTodo = <<>> /\ UNCHANGED <<db0, epFaults>>
      BY <1>2, <2>1, EventStep DEF NextPort, EpIdle
    <3> QED BY <1>2, <3>1 DEF EpCopies
  <2>2. CASE EpExec
    <3>1. UNCHANGED <<epEvent, epFaults>> /\ EpKeyNow' = EpKeyNow /\ epTodo # <<>> /\ EpOnItsWay
      BY <1>2, <2>2, CommandStep DEF EpExec, EpKeyNow
    <3>2. EpKeyNow \in SvcKeys
      BY <1>2, <2>2, ExecStep
    <3>3. db0 \in [DB0Keys -> SUBSET IPPorts]
      BY <1>2 DEF EpInv, EpTypeOK
    <3>4. EpKeyNow \in DB0Keys /\ EpTempKey(EpKeyNow) \in DB0Keys
      BY <3>2, EpKeysApart
    <3>5. \A l \in SvcKeys : /\ EpTempKey(l) \in DB0Keys /\ EpTempKey(l) # EpKeyNow
                             /\ l # EpKeyNow => EpTempKey(l) # EpTempKey(EpKeyNow)
      BY <3>2, EpKeysApart
    <3>6. CASE epEvent.name \in {"add", "delete"}
      <4>1. db0' = Apply(db0, SADD(EpKeyNow, EpMemberNow)) \/ db0' = Apply(db0, DEL(EpKeyNow))
        BY <1>2, <2>2, <3>6, ExecStep
      <4>2. \A l \in SvcKeys : db0'[EpTempKey(l)] = db0[EpTempKey(l)]
        BY <3>3, <3>4, <3>5, <4>1, ApplySADD, ApplySUNIONSTORE, ApplyDEL
      <4> QED BY <1>2, <3>1, <3>6, <4>2 DEF EpCopies
    <3>7. CASE epEvent.name = "update"
      <4>1. \/ db0' = Apply(db0, SADD(EpTempKey(EpKeyNow), EpMemberNow)) /\ epTodo' # <<>>
            \/ db0' = Apply(db0, SUNIONSTORE(EpKeyNow, EpTempKey(EpKeyNow))) /\ epTodo' # <<>>
            \/ db0' = Apply(db0, DEL(EpTempKey(EpKeyNow)))
        BY <1>2, <2>2, <3>7, ExecStep
      <4>2. /\ \A l \in SvcKeys : l # EpKeyNow => db0'[EpTempKey(l)] = db0[EpTempKey(l)]
            /\ epTodo' = <<>> => db0'[EpTempKey(EpKeyNow)] = {}
        <5>1. CASE db0' = Apply(db0, SADD(EpTempKey(EpKeyNow), EpMemberNow)) /\ epTodo' # <<>>
          BY <3>3, <3>4, <3>5, <5>1, ApplySADD, ApplySUNIONSTORE, ApplyDEL
        <5>2. CASE db0' = Apply(db0, SUNIONSTORE(EpKeyNow, EpTempKey(EpKeyNow))) /\ epTodo' # <<>>
          BY <3>3, <3>4, <3>5, <5>2, ApplySADD, ApplySUNIONSTORE, ApplyDEL
        <5>3. CASE db0' = Apply(db0, DEL(EpTempKey(EpKeyNow)))
          BY <3>3, <3>4, <3>5, <5>3, ApplySADD, ApplySUNIONSTORE, ApplyDEL
        <5> QED BY <4>1, <5>1, <5>2, <5>3
      <4> QED BY <1>2, <3>1, <3>7, <4>2 DEF EpCopies
    <3> QED BY <3>1, <3>6, <3>7 DEF EpOnItsWay
  <2>3. CASE EpFail
    <3>1. epFaults' # 0
      BY <1>2, <2>3 DEF EpFail, EpInv, EpTypeOK
    <3> QED BY <3>1 DEF EpCopies
  <2>4. CASE EpRestart
    <3>1. \A k \in SvcKeys : db0'[EpTempKey(k)] = {}
      BY <1>2, <2>4, EpKeysApart DEF EpRestart, FlushAll, EpInv, EpTypeOK
    <3> QED BY <3>1 DEF EpCopies
  <2>5. CASE UNCHANGED endpointVars
    BY <1>2, <2>5 DEF endpointVars, EpCopies, EpKeyNow, EpPort, EpPast
  <2> QED BY <1>2, <2>1, <2>2, <2>3, <2>4, <2>5 DEF EpNext, EpStep
<1> QED BY <1>1, <1>2

(* As long as no command fails, no copy of a service port outlives the     *)
(* turn of update that made it, for every set of Endpoints objects, so     *)
(* nothing old comes back at the next update (handlerEndpoint.go:97-100).  *)
THEOREM EpCopiesGo == EpSpec => []EpNoLeftoverTemp
<1>1. EpCopies => EpNoLeftoverTemp
  BY DEF EpCopies, EpNoLeftoverTemp, EpIdle
<1> QED BY <1>1, EpInvInductive, EpCopiesInductive, PTL DEF EpSpec

-----------------------------------------------------------------------------
(* What the declared objects list, by the object a service port belongs to. *)

EpOwner(k) == <<k[2][1], k[2][2]>>

(* What an object, or none, asks for under a key. *)
EpOwed(e, k) ==
    IF e = NoEndpoints THEN {} ELSE IF IncludeNamespace(e.ns) THEN EpListed(e, k) ELSE {}

(* What the informer's store may be. *)
EpStores == {st \in [EpIds -> Endpoints \cup {NoEndpoints}] :
                \A n \in EpIds : st[n] # NoEndpoints => EpId(st[n]) = n}

(* EpWanted of a store. *)
EpWantedBy(st) ==
    LET listed == {e \in {st[n] : n \in EpIds} \ {NoEndpoints} : IncludeNamespace(e.ns)}
    IN  [k \in SvcKeys |-> UNION {EpListed(e, k) : e \in listed}]

(* The service ports of an object. *)
EpKeysOf(e) == {EpKey(e, p) : p \in EpPorts(e)}

(* They belong to it. *)
LEMMA KeyFacts ==
    ASSUME NEW e \in Endpoints
    PROVE  \A k \in EpKeysOf(e) : k \in SvcKeys /\ EpOwner(k) = EpId(e)
BY DEF EpKeysOf, SvcKeys, EpOwner, EpKey, SvcPort, EpId

(* Every service port belongs to a name in the store. *)
LEMMA OwnerType == ASSUME NEW k \in SvcKeys PROVE EpOwner(k) \in EpIds
BY KeyFacts DEF SvcKeys, EpKeysOf, EpIds

(* Only the object a service port belongs to lists addresses for it. *)
LEMMA WantedIsOwed ==
    ASSUME NEW st \in EpStores, NEW k \in SvcKeys
    PROVE  EpWantedBy(st)[k] = EpOwed(st[EpOwner(k)], k)
<1> DEFINE listed == {e \in {st[n] : n \in EpIds} \ {NoEndpoints} : IncludeNamespace(e.ns)}
           own    == st[EpOwner(k)]
<1>1. EpWantedBy(st)[k] = UNION {EpListed(e, k) : e \in listed}
  BY DEF EpWantedBy
<1>2. EpOwner(k) \in EpIds
  BY OwnerType
<1>3. ASSUME NEW e \in listed, e # own
      PROVE  EpListed(e, k) = {}
  <2>1. PICK n \in EpIds : e = st[n] /\ n # EpOwner(k) /\ e \in Endpoints /\ EpId(e) = n
    BY <1>3 DEF EpStores
  <2>2. \A p \in EpPorts(e) : EpKey(e, p) # k
    BY <2>1, KeyFacts DEF EpKeysOf
  <2> QED BY <2>2 DEF EpListed
<1>4. own \in listed <=> own # NoEndpoints /\ IncludeNamespace(own.ns)
  BY <1>2
<1> HIDE DEF listed, own
<1>5. CASE own \in listed
  <2>1. UNION {EpListed(e, k) : e \in listed} = EpListed(own, k)
    BY <1>3, <1>5
  <2> QED BY <1>1, <1>4, <1>5, <2>1 DEF EpOwed, own
<1>6. CASE own \notin listed
  <2>1. UNION {EpListed(e, k) : e \in listed} = {}
    BY <1>3, <1>6
  <2> QED BY <1>1, <1>4, <1>6, <2>1 DEF EpOwed, own
<1> QED BY <1>5, <1>6

(* An orderly object lists under the key of a port the addresses of that   *)
(* port, and its versions have the same keys.                              *)
LEMMA OrderlyFacts ==
    ASSUME EpOrderly(Endpoints), NEW e \in Endpoints, IncludeNamespace(e.ns)
    PROVE  /\ \A i, j \in 1..Len(e.ports) : EpKey(e, e.ports[i]) = EpKey(e, e.ports[j]) => i = j
           /\ \A i \in 1..Len(e.ports) : EpListed(e, EpKey(e, e.ports[i])) = EpMembers(e.ports[i])
           /\ \A f \in Endpoints : EpId(f) = EpId(e) =>
                    \A k \in SvcKeys : k \notin EpKeysOf(e) => EpOwed(f, k) = {}
<1>1. DOMAIN e.ports = 1..Len(e.ports) /\ Len(e.ports) \in Nat
  BY PortsType
<1>2. \A i, j \in 1..Len(e.ports) : EpKey(e, e.ports[i]) = EpKey(e, e.ports[j]) => i = j
  BY <1>1 DEF EpOrderly, EpKey, SvcPort
<1>3. ASSUME NEW i \in 1..Len(e.ports)
      PROVE  EpListed(e, EpKey(e, e.ports[i])) = EpMembers(e.ports[i])
  <2>1. {p \in EpPorts(e) : EpKey(e, p) = EpKey(e, e.ports[i])} = {e.ports[i]}
    BY <1>1, <1>2 DEF EpPorts
  <2> QED BY <2>1 DEF EpListed
<1>4. ASSUME NEW f \in Endpoints, EpId(f) = EpId(e), NEW k \in SvcKeys, k \notin EpKeysOf(e)
      PROVE  EpOwed(f, k) = {}
  <2>1. f.ns = e.ns /\ f.name = e.name
    BY <1>4 DEF EpId
  <2>2. \A p \in EpPorts(f) : EpKey(f, p) \in EpKeysOf(e)
    BY <1>4, <2>1 DEF EpOrderly, EpKeysOf, EpKey, SvcPort
  <2>3. {p \in EpPorts(f) : EpKey(f, p) = k} = {}
    BY <1>4, <2>2
  <2> QED BY <2>3 DEF EpOwed, EpListed
<1> QED BY <1>2, <1>3, <1>4

(* What a change of one object changes of what is wanted. *)
LEMMA StoreChange ==
    ASSUME EpOrderly(Endpoints), NEW st \in EpStores, NEW next \in EpStores,
           NEW e \in Endpoints, next[EpId(e)] \in {e, NoEndpoints},
           \A n \in EpIds : n # EpId(e) => next[n] = st[n]
    PROVE  /\ IncludeNamespace(e.ns) =>
                /\ \A k \in SvcKeys \ EpKeysOf(e) : EpWantedBy(next)[k] = EpWantedBy(st)[k]
                /\ st[EpId(e)] = NoEndpoints => \A k \in EpKeysOf(e) : EpWantedBy(st)[k] = {}
           /\ ~IncludeNamespace(e.ns) => EpWantedBy(next) = EpWantedBy(st)
<1>1. EpId(e) \in EpIds
  BY DEF EpIds
<1>3. \A f \in {st[EpId(e)], next[EpId(e)]} : f # NoEndpoints => f \in Endpoints /\ EpId(f) = EpId(e)
  BY <1>1 DEF EpStores
<1>4. ASSUME IncludeNamespace(e.ns), NEW k \in SvcKeys \ EpKeysOf(e)
      PROVE  EpWantedBy(next)[k] = EpWantedBy(st)[k]
  <2>1. \A f \in {st[EpId(e)], next[EpId(e)]} : EpOwed(f, k) = {}
    BY <1>3, <1>4, OrderlyFacts DEF EpOwed
  <2>2. EpOwed(next[EpOwner(k)], k) = EpOwed(st[EpOwner(k)], k)
    BY <2>1, OwnerType
  <2> QED BY <2>2, WantedIsOwed
<1>5. ASSUME IncludeNamespace(e.ns), st[EpId(e)] = NoEndpoints, NEW k \in EpKeysOf(e)
      PROVE  EpWantedBy(st)[k] = {}
  BY <1>5, KeyFacts, WantedIsOwed DEF EpOwed
<1>6. ASSUME ~IncludeNamespace(e.ns)
      PROVE  EpWantedBy(next) = EpWantedBy(st)
  <2>1. ASSUME NEW k \in SvcKeys
        PROVE  EpWantedBy(next)[k] = EpWantedBy(st)[k]
    <3>1. \A f \in {st[EpId(e)], next[EpId(e)]} : EpOwed(f, k) = {}
      BY <1>3, <1>6 DEF EpOwed, EpId
    <3>2. EpOwed(next[EpOwner(k)], k) = EpOwed(st[EpOwner(k)], k)
      BY <3>1, OwnerType
    <3> QED BY <3>2, WantedIsOwed
  <2> QED BY <2>1 DEF EpWantedBy
<1> QED BY <1>4, <1>5, <1>6

-----------------------------------------------------------------------------
(* The table follows the objects, port by port. *)

(* The service ports the loop has not reached. *)
EpLate(k) == \E j \in 1..Len(epPorts) : k = EpKey(epEvent.object, epPorts[j])

(* The first n addresses of a port. *)
EpFirst(p, n) == {EpMember(p, p.addrs[i]) : i \in 1..n}

(* The callback has done the ports behind it, has made some of the copy of *)
(* the port it is at, or some of that port itself, and has not touched the *)
(* ports before it.                                                        *)
EpHalfway ==
    /\ epStore[EpId(epEvent.object)] = IF epEvent.name = "delete" THEN NoEndpoints ELSE epEvent.object
    /\ \A k \in SvcKeys :
        /\ ~EpLate(k) /\ (epTodo = <<>> \/ k # EpKeyNow) => db0[k] = EpWanted[k]
        /\ EpLate(k) /\ epEvent.name = "add" => db0[k] = {}
    /\ epTodo # <<>> /\ epEvent.name = "add" => db0[EpKeyNow] = EpFirst(EpPort, EpDone)
    /\ epTodo # <<>> /\ epEvent.name = "update" =>
        IF EpDone <= Len(EpPort.addrs)
        THEN db0[EpTempKey(EpKeyNow)] = EpFirst(EpPort, EpDone)
        ELSE db0[EpKeyNow] = EpMembers(EpPort)

(* As long as nothing is lost, the table is what is wanted or on its way   *)
(* there.                                                                  *)
EpFollows ==
    epFaults + epMissed = 0 => IF EpIdle THEN EpTable = EpWanted ELSE EpHalfway

(* The addresses of a port, one by one. *)
LEMMA FirstFacts ==
    ASSUME NEW e \in Endpoints, NEW p \in EpPorts(e)
    PROVE  /\ EpFirst(p, 0) = {}
           /\ \A n \in Nat : EpFirst(p, n + 1) = EpFirst(p, n) \cup {EpMember(p, p.addrs[n + 1])}
           /\ EpFirst(p, Len(p.addrs)) = EpMembers(p)
<1>1. EpFirst(p, 0) = {}
  BY DEF EpFirst
<1>2. ASSUME NEW n \in Nat
      PROVE  EpFirst(p, n + 1) = EpFirst(p, n) \cup {EpMember(p, p.addrs[n + 1])}
  <2>1. 1..(n + 1) = 1..n \cup {n + 1}
    OBVIOUS
  <2> QED BY <2>1 DEF EpFirst
<1>3. EpFirst(p, Len(p.addrs)) = EpMembers(p)
  BY PortType DEF EpFirst, EpMembers
<1> QED BY <1>1, <1>2, <1>3

(* The variable as a store. *)
LEMMA StoreIsOne ==
    ASSUME EpInv
    PROVE  epStore \in EpStores
BY DEF EpInv, EpTypeOK, EpStores

(* What is wanted of the port a callback is at, or has yet to reach. *)
LEMMA WantedOfPort ==
    ASSUME EpOrderly(Endpoints), EpInv, EpOnItsWay, NEW i \in 1..Len(epEvent.object.ports),
           epStore[EpId(epEvent.object)] = IF epEvent.name = "delete" THEN NoEndpoints ELSE epEvent.object
    PROVE  EpWanted[EpKey(epEvent.object, epEvent.object.ports[i])]
             = IF epEvent.name = "delete" THEN {} ELSE EpMembers(epEvent.object.ports[i])
<1> DEFINE e == epEvent.object
           k == EpKey(e, e.ports[i])
<1>1. e \in Endpoints /\ IncludeNamespace(e.ns)
  BY DEF EpOnItsWay
<1>2. k \in SvcKeys /\ EpOwner(k) = EpId(e)
  BY <1>1, PortsType, KeyFacts DEF EpKeysOf
<1>3. EpWanted = EpWantedBy(epStore)
  BY DEF EpWanted, EpWantedBy
<1>4. EpWanted[k] = EpOwed(epStore[EpId(e)], k)
  BY <1>2, <1>3, StoreIsOne, WantedIsOwed
<1>5. EpListed(e, k) = EpMembers(e.ports[i])
  BY <1>1, OrderlyFacts
<1>6. e # NoEndpoints
  BY <1>1, NoEndpointsAssumption
<1> QED BY <1>1, <1>4, <1>5, <1>6 DEF EpOwed

(* An event: the callback begins with everything before it. *)
LEMMA FollowsEvent ==
    ASSUME EpOrderly(Endpoints), EpInv, EpFollows, EndpointEvent, epFaults' + epMissed' = 0
    PROVE  EpFollows' /\ EpTable = EpWanted /\ EpTable' = EpTable
<1>1. /\ EpInv' /\ EpIdle /\ UNCHANGED <<db0, epFaults>>
      /\ epTodo' = <<>>
      /\ ~EpIdle' => EpPast' = 0 /\ epPorts' = epEvent'.object.ports
  BY EventStep
<1>2. /\ epMissed' = epMissed
      /\ \E e \in Endpoints, x \in Endpoints \cup {NoEndpoints} :
            /\ epEvent'.object = e
            /\ epStore' = [epStore EXCEPT ![EpId(e)] = x]
            /\ x = IF epEvent'.name = "delete" THEN NoEndpoints ELSE e
            /\ epEvent'.name = "add" => epStore[EpId(e)] = NoEndpoints
            /\ epPorts' = IF IncludeNamespace(e.ns) THEN e.ports ELSE <<>>
  <2>1. CASE \E e \in Endpoints : AddEndpoints(e) \/ UpdateEndpoints(e)
    BY <2>1 DEF AddEndpoints, UpdateEndpoints, EpDeliver
  <2>2. CASE \E n \in EpIds : DeleteEndpoints(n)
    <3>1. PICK n \in EpIds : DeleteEndpoints(n)
      BY <2>2
    <3>2. epStore[n] \in Endpoints /\ EpId(epStore[n]) = n
      BY <3>1 DEF DeleteEndpoints, EpInv, EpTypeOK
    <3>3. /\ epMissed' = epMissed
          /\ epEvent'.object = epStore[n] /\ epEvent'.name = "delete"
          /\ epStore' = [epStore EXCEPT ![EpId(epStore[n])] = NoEndpoints]
          /\ epPorts' = IF IncludeNamespace(epStore[n].ns) THEN epStore[n].ports ELSE <<>>
      BY <3>1, <3>2 DEF DeleteEndpoints, EpDeliver
    <3>4. NoEndpoints = IF epEvent'.name = "delete" THEN NoEndpoints ELSE epStore[n]
      BY <3>3
    <3>5. epEvent'.name = "add" => epStore[EpId(epStore[n])] = NoEndpoints
      BY <3>3
    <3>6. NoEndpoints \in Endpoints \cup {NoEndpoints}
      OBVIOUS
    <3> QED BY <3>2, <3>3, <3>4, <3>5, <3>6
  <2>3. CASE \E n \in EpIds : DeleteEndpointsMissed(n)
    <3>1. epMissed' = epMissed + 1 /\ epMissed \in Nat /\ epFaults' = epFaults /\ epFaults \in Nat
      BY <2>3, EpBoundsAssumption DEF DeleteEndpointsMissed, EpInv, EpTypeOK
    <3>2. epFaults' + epMissed' # 0
      BY <3>1
    <3> QED BY <3>2
  <2> QED BY <2>1, <2>2, <2>3 DEF EndpointEvent
<1>3. PICK e \in Endpoints, x \in Endpoints \cup {NoEndpoints} :
        /\ epEvent'.object = e
        /\ epStore' = [epStore EXCEPT ![EpId(e)] = x]
        /\ x = IF epEvent'.name = "delete" THEN NoEndpoints ELSE e
        /\ epEvent'.name = "add" => epStore[EpId(e)] = NoEndpoints
        /\ epPorts' = IF IncludeNamespace(e.ns) THEN e.ports ELSE <<>>
  BY <1>2
<1>4. EpTable = EpWanted /\ EpTable' = EpTable
  BY <1>1, <1>2 DEF EpFollows, EpTable
<1>5. EpWanted = EpWantedBy(epStore) /\ EpWanted' = EpWantedBy(epStore')
  BY DEF EpWanted, EpWantedBy
<1>6. \A k \in SvcKeys : db0'[k] = EpWantedBy(epStore)[k]
  BY <1>1, <1>4, <1>5 DEF EpTable
<1>7. /\ IncludeNamespace(e.ns) =>
            /\ \A k \in SvcKeys \ EpKeysOf(e) : EpWanted'[k] = EpWantedBy(epStore)[k]
            /\ epStore[EpId(e)] = NoEndpoints => \A k \in EpKeysOf(e) : EpWantedBy(epStore)[k] = {}
      /\ ~IncludeNamespace(e.ns) => EpWanted' = EpWantedBy(epStore)
  <2>1. epStore \in EpStores /\ epStore' \in EpStores
    BY <1>1, StoreIsOne DEF EpInv, EpTypeOK, EpStores
  <2>2. epStore'[EpId(e)] \in {e, NoEndpoints} /\ \A n \in EpIds : n # EpId(e) => epStore'[n] = epStore[n]
    BY <1>3 DEF EpInv, EpTypeOK, EpIds
  <2> QED BY <1>5, <2>1, <2>2, StoreChange
<1>8. EpId(e) \in EpIds /\ epStore'[EpId(e)] = x
  BY <1>3 DEF EpInv, EpTypeOK, EpIds
<1>9. CASE EpIdle'
  <2>1. EpTable' = EpWanted'
    <3>1. CASE IncludeNamespace(e.ns)
      <4>1. EpKeysOf(e) = {}
        BY <1>3, <1>9, <3>1 DEF EpIdle, EpKeysOf, EpPorts
      <4> QED BY <1>6, <1>7, <3>1, <4>1 DEF EpTable, EpWanted
    <3>2. CASE ~IncludeNamespace(e.ns)
      BY <1>4, <1>5, <1>7, <3>2
    <3> QED BY <3>1, <3>2
  <2> QED BY <1>4, <1>9, <2>1 DEF EpFollows
<1>10. CASE ~EpIdle'
  <2>1. IncludeNamespace(e.ns) /\ epPorts' = e.ports
    BY <1>1, <1>3, <1>10 DEF EpIdle
  <2>2. \A k : EpLate(k)' <=> k \in EpKeysOf(e)
    BY <1>3, <2>1, PortsType DEF EpLate, EpKeysOf, EpPorts
  <2>3. EpHalfway'
    BY <1>1, <1>3, <1>6, <1>7, <1>8, <2>1, <2>2 DEF EpHalfway
  <2> QED BY <1>4, <1>10, <2>3 DEF EpFollows
<1> QED BY <1>9, <1>10

(* The loop reaches the next port. *)
LEMMA FollowsNextPort ==
    ASSUME EpOrderly(Endpoints), EpInv, EpCopies, EpFollows, NextPort, epFaults + epMissed = 0
    PROVE  EpFollows'
<1> DEFINE e == epEvent.object
           p == epPorts[1]
           q == EpKey(e, p)
<1>1. /\ EpInv' /\ EpOnItsWay /\ EpOnItsWay'
      /\ EpPast' \in 1..Len(e.ports)
      /\ EpPort' = p /\ p \in EpPorts(e) /\ p = e.ports[EpPast']
      /\ epTodo' = EpTurn(p) /\ EpDone' = 0
  BY NextPortStep
<1>2. /\ epTodo = <<>> /\ epPorts # <<>> /\ EpHalfway
      /\ epPorts' = Tail(epPorts) /\ UNCHANGED <<db0, epStore, epEvent, epFaults, epMissed>>
  BY DEF NextPort, EpFollows, EpIdle
<1>3. e \in Endpoints /\ IncludeNamespace(e.ns) /\ q \in SvcKeys
  BY <1>1, PortType DEF EpOnItsWay
<1>4. /\ Len(epPorts) \in Nat /\ Len(epPorts) >= 1
      /\ Len(epPorts') = Len(epPorts) - 1
      /\ \A j \in 1..Len(epPorts') : epPorts'[j] = epPorts[j + 1]
  BY <1>2, TailFacts DEF EpInv, EpTypeOK
<1>5. ASSUME NEW k
      PROVE  EpLate(k) <=> EpLate(k)' \/ k = q
  <2>1. EpLate(k)' => EpLate(k)
    BY <1>2, <1>4 DEF EpLate
  <2>2. EpLate(q)
    BY <1>4 DEF EpLate
  <2>3. ASSUME NEW j \in 1..Len(epPorts), k = EpKey(e, epPorts[j]), j # 1
        PROVE  EpLate(k)'
    <3>1. j - 1 \in 1..Len(epPorts') /\ epPorts'[j - 1] = epPorts[j]
      BY <1>4, <2>3
    <3> QED BY <1>2, <2>3, <3>1 DEF EpLate
  <2> QED BY <2>1, <2>2, <2>3 DEF EpLate
<1>6. \A k : EpLate(k)' => k # q
  <2>1. ASSUME NEW j \in 1..Len(epPorts')
        PROVE  EpKey(e, epPorts'[j]) # q
    <3>1. epPorts'[j] = e.ports[EpPast' + j]
      BY <1>1, <1>2 DEF EpOnItsWay
    <3>2. EpPast' + j \in 1..Len(e.ports) /\ EpPast' + j # EpPast'
      <4>1. EpPast' = Len(e.ports) - Len(epPorts') /\ Len(epPorts') \in Nat /\ Len(e.ports) \in Nat
        BY <1>2, <1>3, <1>4, PortsType DEF EpPast
      <4> QED BY <1>1, <4>1
    <3> QED BY <1>1, <1>3, <3>1, <3>2, OrderlyFacts
  <2> QED BY <1>2, <2>1 DEF EpLate
<1>7. EpKeyNow' = q /\ EpWanted' = EpWanted
  BY <1>1, <1>2 DEF EpKeyNow, EpWanted
<1>8. epEvent.name = "add" => db0[q] = {}
  BY <1>2, <1>3, <1>5 DEF EpHalfway
<1>9. epTodo' = <<>> => db0[q] = EpWanted[q]
  <2> SUFFICES ASSUME epTodo' = <<>> PROVE db0[q] = EpWanted[q]
    OBVIOUS
  <2>1. Len(EpTurn(p)) = 0
    BY <1>1
  <2>2. Len(p.addrs) \in Nat
    BY <1>1, <1>3, PortType
  <2>3. epEvent.name # "update"
    BY <1>1, <1>3, <2>1, <2>2, UpdateTurn DEF EpTurn
  <2>4. epEvent.name # "delete"
    BY <1>1, <1>3, <2>1, DeleteTurn DEF EpTurn
  <2>5. epEvent.name = "add"
    BY <1>1, <2>3, <2>4 DEF EpOnItsWay
  <2>6. Len(p.addrs) = 0
    BY <1>1, <1>3, <2>1, <2>5, AddTurn DEF EpTurn
  <2>7. EpMembers(p) = {}
    BY <1>1, <1>3, <2>6, FirstFacts
  <2>8. EpWanted[q] = EpMembers(p)
    BY <1>1, <1>2, <2>5, WantedOfPort DEF EpHalfway
  <2> QED BY <1>8, <2>5, <2>7, <2>8
<1>10. epEvent.name = "update" => db0[EpTempKey(q)] = {}
  <2>1. epFaults = 0
    BY EpBoundsAssumption DEF EpInv, EpTypeOK
  <2> QED BY <1>2, <1>3, <2>1 DEF EpCopies
<1>11. EpFirst(p, 0) = {} /\ 0 <= Len(p.addrs)
  BY <1>1, <1>3, FirstFacts, PortType
<1>12. ASSUME NEW k \in SvcKeys
       PROVE  /\ ~EpLate(k)' /\ (epTodo' = <<>> \/ k # q) => db0[k] = EpWanted[k]
              /\ EpLate(k)' /\ epEvent.name = "add" => db0[k] = {}
  BY <1>2, <1>5, <1>9 DEF EpHalfway
<1>13. EpHalfway'
  <2> HIDE DEF e, p, q
  <2> QED BY <1>1, <1>2, <1>7, <1>8, <1>10, <1>11, <1>12 DEF EpHalfway, e
<1>14. EpIdle' => EpTable' = EpWanted'
  <2> SUFFICES ASSUME EpIdle' PROVE EpTable' = EpWanted'
    OBVIOUS
  <2>1. \A k : ~EpLate(k)'
    BY DEF EpIdle, EpLate
  <2>2. \A k \in SvcKeys : db0[k] = EpWanted[k]
    BY <1>12, <2>1 DEF EpIdle
  <2> QED BY <1>2, <1>7, <2>2 DEF EpTable, EpWanted
<1> QED BY <1>13, <1>14 DEF EpFollows

(* A command: it changes one service port at most, and that towards what   *)
(* is wanted.                                                              *)
LEMMA FollowsExec ==
    ASSUME EpOrderly(Endpoints), EpInv, EpFollows, EpExec, epFaults + epMissed = 0
    PROVE  /\ EpFollows'
           /\ EpKeyNow \in SvcKeys
           /\ \A k \in SvcKeys : k # EpKeyNow => db0'[k] = db0[k]
           /\ \/ db0'[EpKeyNow] = db0[EpKeyNow]
              \/ db0'[EpKeyNow] = EpWanted[EpKeyNow]
              \/ \E m \in EpWanted[EpKeyNow] : db0'[EpKeyNow] = db0[EpKeyNow] \cup {m}
<1> DEFINE e == epEvent.object
           p == EpPort
           q == EpKeyNow
           n == Len(p.addrs)
           Moves == /\ \A k \in SvcKeys : k # q => db0'[k] = db0[k]
                    /\ \/ db0'[q] = db0[q]
                       \/ db0'[q] = EpWanted[q]
                       \/ \E m \in EpWanted[q] : db0'[q] = db0[q] \cup {m}
                    /\ epTodo' = <<>> => db0'[q] = EpWanted[q]
                    /\ epTodo' # <<>> /\ epEvent.name = "add" => db0'[q] = EpFirst(p, EpDone + 1)
                    /\ epTodo' # <<>> /\ epEvent.name = "update" =>
                          IF EpDone + 1 <= n THEN db0'[EpTempKey(q)] = EpFirst(p, EpDone + 1)
                                             ELSE db0'[q] = EpMembers(p)
<1>1. /\ EpOnItsWay /\ EpOnItsWay'
      /\ EpPast \in 1..Len(e.ports) /\ EpPort' = p /\ p \in EpPorts(e)
      /\ EpTurn(p)' = EpTurn(p)
      /\ EpDone' = EpDone + 1 /\ EpDone \in Nat
      /\ EpDone + 1 \in 1..Len(EpTurn(p))
      /\ epTodo' = <<>> <=> EpDone' = Len(EpTurn(p))
  BY CommandStep DEF EpExec
<1>2. /\ epTodo # <<>> /\ EpHalfway
      /\ UNCHANGED <<epStore, epEvent, epPorts, epFaults, epMissed>>
  BY DEF EpExec, EpFollows, EpIdle
<1>3. e \in Endpoints /\ IncludeNamespace(e.ns) /\ q \in SvcKeys /\ n \in Nat
  BY <1>1, ExecStep DEF EpOnItsWay
<1>4. EpKeyNow' = q /\ EpWanted' = EpWanted /\ \A k : EpLate(k)' <=> EpLate(k)
  BY <1>1, <1>2 DEF EpKeyNow, EpWanted, EpLate
<1>5. EpWanted[q] = IF epEvent.name = "delete" THEN {} ELSE EpMembers(p)
  BY <1>1, <1>2, WantedOfPort DEF EpHalfway, EpKeyNow, EpPort
<1>6. ~EpLate(q)
  <2>1. ASSUME NEW j \in 1..Len(epPorts)
        PROVE  EpKey(e, epPorts[j]) # q
    <3>1. epPorts[j] = e.ports[EpPast + j]
      BY <1>1 DEF EpOnItsWay
    <3>2. EpPast + j \in 1..Len(e.ports) /\ EpPast + j # EpPast
      <4>1. EpPast = Len(e.ports) - Len(epPorts) /\ Len(epPorts) \in Nat /\ Len(e.ports) \in Nat
        BY <1>3, PortsType DEF EpPast, EpInv, EpTypeOK
      <4> QED BY <1>1, <4>1
    <3> QED BY <1>1, <1>3, <3>1, <3>2, OrderlyFacts DEF EpKeyNow, EpPort
  <2> QED BY <2>1 DEF EpLate
<1>7. db0 \in [DB0Keys -> SUBSET IPPorts]
  BY DEF EpInv, EpTypeOK
<1>8. q \in DB0Keys /\ EpTempKey(q) \in DB0Keys /\ EpTempKey(q) # q
      /\ \A k \in SvcKeys : k \in DB0Keys /\ k # EpTempKey(q)
  BY <1>3, EpKeysApart
<1>9. /\ EpFirst(p, EpDone + 1) = EpFirst(p, EpDone) \cup {EpMemberNow}
      /\ EpFirst(p, n) = EpMembers(p)
  BY <1>1, <1>3, FirstFacts DEF EpMemberNow
<1>10. ASSUME epEvent.name = "add" PROVE Moves
  <2>1. db0' = Apply(db0, SADD(q, EpMemberNow)) /\ EpDone + 1 \in 1..n
    BY <1>10, ExecStep
  <2>2. /\ \A k \in SvcKeys : k # q => db0'[k] = db0[k]
        /\ db0'[q] = db0[q] \cup {EpMemberNow}
    BY <1>7, <1>8, <2>1, ApplySADD
  <2>3. db0'[q] = EpFirst(p, EpDone + 1)
    BY <1>1, <1>2, <1>9, <1>10, <2>2 DEF EpHalfway
  <2>4. EpMemberNow \in EpWanted[q]
    <3>1. EpMemberNow \in EpMembers(p)
      BY <1>1, <1>3, <2>1, PortType DEF EpMemberNow
    <3> QED BY <1>5, <1>10, <3>1
  <2>5. epTodo' = <<>> => db0'[q] = EpWanted[q]
    <3>1. Len(EpTurn(p)) = n
      BY <1>1, <1>3, <1>10, AddTurn DEF EpTurn
    <3> QED BY <1>1, <1>5, <1>9, <1>10, <2>3, <3>1
  <2> QED BY <1>1, <1>2, <1>10, <2>2, <2>3, <2>4, <2>5
<1>11. ASSUME epEvent.name = "update" PROVE Moves
  <2>1. CASE EpDone + 1 \in 1..n /\ epTodo' # <<>> /\ db0' = Apply(db0, SADD(EpTempKey(q), EpMemberNow))
    <3>1. /\ \A k \in SvcKeys : k # EpTempKey(q) => db0'[k] = db0[k]
          /\ db0'[EpTempKey(q)] = db0[EpTempKey(q)] \cup {EpMemberNow}
      BY <1>7, <1>8, <2>1, ApplySADD
    <3>2. db0'[EpTempKey(q)] = EpFirst(p, EpDone + 1) /\ EpDone + 1 <= n
      BY <1>1, <1>2, <1>3, <1>9, <1>11, <2>1, <3>1 DEF EpHalfway
    <3> QED BY <1>1, <1>2, <1>3, <1>8, <1>11, <2>1, <3>1, <3>2
  <2>2. CASE EpDone = n /\ epTodo' # <<>> /\ db0' = Apply(db0, SUNIONSTORE(q, EpTempKey(q)))
    <3>1. /\ \A k \in SvcKeys : k # q => db0'[k] = db0[k]
          /\ db0'[q] = db0[EpTempKey(q)]
      BY <1>7, <1>8, <2>2, ApplySUNIONSTORE
    <3>2. db0'[q] = EpMembers(p)
      BY <1>2, <1>3, <1>9, <1>11, <2>2, <3>1 DEF EpHalfway
    <3>3. ~(EpDone + 1 <= n)
      BY <1>1, <1>3, <2>2
    <3> QED BY <1>1, <1>2, <1>5, <1>8, <1>11, <2>2, <3>1, <3>2, <3>3
  <2>3. CASE EpDone = n + 1 /\ epTodo' = <<>> /\ db0' = Apply(db0, DEL(EpTempKey(q)))
    <3>1. \A k \in SvcKeys : k # EpTempKey(q) => db0'[k] = db0[k]
      BY <1>7, <1>8, <2>3, ApplyDEL
    <3>2. db0[q] = EpMembers(p)
      BY <1>2, <1>3, <1>11, <2>3 DEF EpHalfway
    <3> QED BY <1>1, <1>2, <1>3, <1>5, <1>8, <1>11, <2>3, <3>1, <3>2
  <2> QED BY <1>11, <2>1, <2>2, <2>3, ExecStep
<1>12. ASSUME epEvent.name = "delete" PROVE Moves
  <2>1. db0' = Apply(db0, DEL(q)) /\ epTodo' = <<>>
    BY <1>12, ExecStep
  <2>2. /\ \A k \in SvcKeys : k # q => db0'[k] = db0[k]
        /\ db0'[q] = {}
    BY <1>7, <1>8, <2>1, ApplyDEL
  <2> QED BY <1>1, <1>2, <1>5, <1>12, <2>1, <2>2
<1>13. Moves
  BY <1>1, <1>10, <1>11, <1>12 DEF EpOnItsWay
<1>14. EpHalfway'
  <2>1. ASSUME NEW k \in SvcKeys
        PROVE  /\ ~EpLate(k)' /\ (epTodo' = <<>> \/ k # q) => db0'[k] = EpWanted[k]
               /\ EpLate(k)' /\ epEvent.name = "add" => db0'[k] = {}
    BY <1>2, <1>4, <1>6, <1>13 DEF EpHalfway
  <2>2. /\ epTodo' # <<>> /\ epEvent.name = "add" => db0'[q] = EpFirst(p, EpDone')
        /\ epTodo' # <<>> /\ epEvent.name = "update" =>
              IF EpDone' <= n THEN db0'[EpTempKey(q)] = EpFirst(p, EpDone')
                              ELSE db0'[q] = EpMembers(p)
    BY <1>1, <1>13
  <2>3. epStore'[EpId(e)] = IF epEvent.name = "delete" THEN NoEndpoints ELSE e
    BY <1>2 DEF EpHalfway
  <2> HIDE DEF Moves
  <2> QED BY <1>1, <1>2, <1>4, <2>1, <2>2, <2>3 DEF EpHalfway
<1>15. EpIdle' => EpTable' = EpWanted'
  <2> SUFFICES ASSUME EpIdle' PROVE EpTable' = EpWanted'
    OBVIOUS
  <2>1. \A k : ~EpLate(k)
    BY <1>2 DEF EpIdle, EpLate
  <2>2. \A k \in SvcKeys : db0'[k] = EpWanted[k]
    BY <1>2, <1>13, <2>1 DEF EpIdle, EpHalfway
  <2> QED BY <1>4, <2>2 DEF EpTable, EpWanted
<1> QED BY <1>3, <1>13, <1>14, <1>15 DEF EpFollows

(* The inductive invariant of the table. *)
EpFaithful == EpInv /\ EpCopies /\ EpFollows

(* The table stays on its way through every step. *)
LEMMA FaithfulInductive ==
    ASSUME EpOrderly(Endpoints)
    PROVE  /\ EpInit => EpFaithful
           /\ EpFaithful /\ [EpNext]_endpointVars => EpFaithful'
<1>1. ASSUME EpInit
      PROVE  EpFollows
  <2>1. EpTable = [k \in SvcKeys |-> {}]
    BY <1>1 DEF EpInit, EpTable, DB0Keys
  <2>2. EpWanted = [k \in SvcKeys |-> {}]
    BY <1>1 DEF EpInit, EpWanted
  <2> QED BY <1>1, <2>1, <2>2 DEF EpFollows, EpInit, EpIdle
<1>2. ASSUME EpFaithful, [EpNext]_endpointVars
      PROVE  EpFollows'
  <2> SUFFICES ASSUME epFaults' + epMissed' = 0 PROVE EpFollows'
    BY DEF EpFollows
  <2> USE <1>2 DEF EpFaithful
  <2>1. epFaults \in Nat /\ epMissed \in Nat /\ epFaults' \in Nat /\ epMissed' \in Nat
    BY EpInvInductive, EpBoundsAssumption DEF EpInv, EpTypeOK
  <2>2. CASE EndpointEvent
    BY <2>2, FollowsEvent
  <2>3. CASE NextPort
    <3>1. epFaults + epMissed = 0
      BY <2>3 DEF NextPort
    <3> QED BY <2>3, <3>1, FollowsNextPort
  <2>4. CASE EpExec
    <3>1. epFaults + epMissed = 0
      BY <2>4 DEF EpExec
    <3> QED BY <2>4, <3>1, FollowsExec
  <2>5. CASE EpFail
    <3>1. epFaults' # 0
      BY <2>1, <2>5 DEF EpFail
    <3> QED BY <2>1, <3>1, Sums
  <2>6. CASE EpRestart
    <3>1. \A k \in SvcKeys : db0'[k] = {}
      BY <2>6 DEF EpRestart, FlushAll, EpInv, EpTypeOK, DB0Keys
    <3>2. EpWanted' = [k \in SvcKeys |-> {}]
      BY <2>6 DEF EpRestart, EpWanted
    <3> QED BY <2>6, <3>1, <3>2 DEF EpFollows, EpRestart, EpIdle, EpTable
  <2>7. CASE UNCHANGED endpointVars
    <3>1. /\ EpTable' = EpTable /\ EpWanted' = EpWanted /\ EpIdle' = EpIdle
          /\ UNCHANGED <<epFaults, epMissed>>
      BY <2>7 DEF endpointVars, EpTable, EpWanted, EpIdle
    <3>2. EpHalfway' = EpHalfway
      BY <2>7, <3>1 DEF endpointVars, EpHalfway, EpLate, EpKeyNow, EpPort, EpDone, EpPast, EpTurn
    <3> QED BY <3>1, <3>2 DEF EpFollows
  <2> QED BY <2>2, <2>3, <2>4, <2>5, <2>6, <2>7 DEF EpNext, EpStep
<1> QED BY <1>1, <1>2, EpInvInductive, EpCopiesInductive DEF EpFaithful

(* Between callbacks the addresses of every service port are those its     *)
(* Endpoints object lists, for all objects that keep their ports           *)
(* (handlerEndpoint.go:50-104): the update and the delete that only look   *)
(* at the object they are given then need nothing else.                    *)
THEOREM EpSettles ==
    ASSUME EpOrderly(Endpoints)
    PROVE  EpSpec => []EpSettled
<1>1. EpFaithful => EpSettled
  BY DEF EpFaithful, EpFollows, EpSettled
<1> QED BY <1>1, FaithfulInductive, PTL DEF EpSpec

-----------------------------------------------------------------------------
(* The table and what is wanted are tables. *)
LEMMA EpTablesType ==
    /\ EpInv => EpTable \in EpPromise!Tables /\ EpWanted \in EpPromise!Tables
    /\ EpInv' => EpTable' \in EpPromise!Tables /\ EpWanted' \in EpPromise!Tables
<1>1. EpInv => EpTable \in EpPromise!Tables
  BY DEF EpInv, EpTypeOK, EpTable, DB0Keys, EpPromise!Tables
<1>2. EpInv' => EpTable' \in EpPromise!Tables
  BY DEF EpInv, EpTypeOK, EpTable, DB0Keys, EpPromise!Tables
<1>3. ASSUME NEW st \in EpStores
      PROVE  EpWantedBy(st) \in EpPromise!Tables
  <2>1. ASSUME NEW k \in SvcKeys
        PROVE  EpWantedBy(st)[k] \subseteq IPPorts
    BY DEF EpWantedBy, EpStores, EpListed, IPPorts
  <2> QED BY <2>1 DEF EpWantedBy, EpPromise!Tables
<1>4. EpWanted = EpWantedBy(epStore) /\ EpWanted' = EpWantedBy(epStore')
  BY DEF EpWanted, EpWantedBy
<1>5. (EpInv => epStore \in EpStores) /\ (EpInv' => epStore' \in EpStores)
  BY DEF EpInv, EpTypeOK, EpStores
<1> QED BY <1>1, <1>2, <1>3, <1>4, <1>5

(* Every step of the handler and of its informer is one that LookupTable   *)
(* allows, or none.                                                        *)
LEMMA EpStepIsPromised ==
    ASSUME EpOrderly(Endpoints), EpFaithful, EpFaithful', [EpNext]_endpointVars
    PROVE  [EpPromise!Next]_(EpPromise!lookupVars)
<1> USE EpBoundsAssumption DEF EpFaithful
<1> DEFINE Lost == epFaults + epMissed > 0
<1>1. epFaults \in Nat /\ epMissed \in Nat /\ epFaults' \in Nat /\ epMissed' \in Nat
  BY DEF EpInv, EpTypeOK
<1>2. /\ EpTable \in EpPromise!Tables /\ EpWanted \in EpPromise!Tables
      /\ EpTable' \in EpPromise!Tables /\ EpWanted' \in EpPromise!Tables
  BY EpTablesType
<1>3. Lost' => EpPromise!Next
  BY <1>2 DEF EpPromise!Next, EpPromise!Lose
<1>4. Lost => Lost'
  <2>1. epFaults <= epFaults' /\ epMissed <= epMissed'
    <3>1. CASE EndpointEvent
      BY <1>1, <3>1, EventStep DEF EndpointEvent, AddEndpoints, UpdateEndpoints, DeleteEndpoints, DeleteEndpointsMissed
    <3>2. CASE EpStep \/ EpRestart
      BY <1>1, <3>2 DEF EpStep, NextPort, EpExec, EpFail, EpRestart
    <3>3. CASE UNCHANGED endpointVars
      BY <1>1, <3>3 DEF endpointVars
    <3> QED BY <3>1, <3>2, <3>3 DEF EpNext
  <2>2. epFaults # 0 \/ epMissed # 0 => epFaults' # 0 \/ epMissed' # 0
    BY <1>1, <2>1
  <2> QED BY <1>1, <2>2, Sums
<1>5. CASE Lost'
  BY <1>3, <1>5
<1>6. CASE ~Lost'
  <2>1. epFaults + epMissed = 0 /\ epFaults' + epMissed' = 0 /\ Lost' = Lost
    BY <1>1, <1>4, <1>6, Sums
  <2>2. CASE EndpointEvent
    <3>1. EpTable = EpWanted /\ EpTable' = EpTable
      BY <2>1, <2>2, FollowsEvent
    <3> QED BY <1>2, <2>1, <3>1 DEF EpPromise!Next, EpPromise!Declare
  <2>3. CASE NextPort
    BY <2>1, <2>3 DEF NextPort, EpTable, EpWanted, EpPromise!lookupVars
  <2>4. CASE EpExec
    <3> DEFINE q == EpKeyNow
    <3>1. /\ q \in SvcKeys
          /\ \A k \in SvcKeys : k # q => db0'[k] = db0[k]
          /\ \/ db0'[q] = db0[q]
             \/ db0'[q] = EpWanted[q]
             \/ \E m \in EpWanted[q] : db0'[q] = db0[q] \cup {m}
      BY <2>1, <2>4, FollowsExec
    <3>2. EpWanted' = EpWanted
      BY <2>4 DEF EpExec, EpWanted
    <3> DEFINE gone == EpTable[q] \ EpTable'[q]
               come == EpTable'[q] \ EpTable[q]
    <3>3. EpTable[q] = db0[q] /\ EpTable'[q] = db0'[q]
      BY <3>1 DEF EpTable
    <3>4. gone \in SUBSET (EpTable[q] \ EpWanted[q]) /\ come \in SUBSET (EpWanted[q] \ EpTable[q])
      BY <3>1, <3>3
    <3>5. EpTable' = [EpTable EXCEPT ![q] = (@ \ gone) \cup come]
      <4>1. EpTable'[q] = (EpTable[q] \ gone) \cup come
        OBVIOUS
      <4>2. \A k \in SvcKeys : k # q => EpTable'[k] = EpTable[k]
        BY <3>1 DEF EpTable
      <4>3. EpTable \in [SvcKeys -> SUBSET IPPorts] /\ EpTable' \in [SvcKeys -> SUBSET IPPorts]
        BY <1>2 DEF EpPromise!Tables
      <4> HIDE DEF gone, come, q
      <4> QED BY <3>1, <4>1, <4>2, <4>3
    <3> HIDE DEF gone, come, q
    <3> QED BY <2>1, <3>1, <3>2, <3>4, <3>5 DEF EpPromise!Next, EpPromise!Publish
  <2>5. CASE EpFail
    <3>1. epFaults' # 0
      BY <1>1, <2>5 DEF EpFail
    <3> QED BY <1>1, <2>1, <3>1, Sums
  <2>6. CASE EpRestart
    <3>1. EpTable' = [k \in SvcKeys |-> {}] /\ EpWanted' = [k \in SvcKeys |-> {}]
      <4>1. \A k \in SvcKeys : db0'[k] = {}
        BY <2>6 DEF EpRestart, FlushAll, EpInv, EpTypeOK, DB0Keys
      <4> QED BY <2>6, <4>1 DEF EpRestart, EpTable, EpWanted
    <3> QED BY <2>1, <3>1 DEF EpPromise!Next, EpPromise!Reset
  <2>7. CASE UNCHANGED endpointVars
    BY <2>1, <2>7 DEF endpointVars, EpTable, EpWanted, EpPromise!lookupVars
  <2> QED BY <2>2, <2>3, <2>4, <2>5, <2>6, <2>7 DEF EpNext, EpStep
<1> QED BY <1>5, <1>6

(* The handler implements the safety part of LookupTable for all objects   *)
(* that keep their ports: one command changes one service port, and a      *)
(* request never misses an address that an update keeps, nor finds one     *)
(* that neither version lists.                                             *)
THEOREM EpImplementsTable ==
    ASSUME EpOrderly(Endpoints)
    PROVE  EpSpec => EpPromise!SafeSpec
<1>1. EpInit => EpPromise!Init
  BY DEF EpInit, EpPromise!Init, EpTable, EpWanted, DB0Keys
<1>2. EpFaithful /\ EpFaithful' /\ [EpNext]_endpointVars => [EpPromise!Next]_(EpPromise!lookupVars)
  BY EpStepIsPromised
<1> QED BY <1>1, <1>2, FaithfulInductive, PTL DEF EpSpec, EpPromise!SafeSpec
=============================================================================
