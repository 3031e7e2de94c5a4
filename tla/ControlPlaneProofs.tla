------------------------- MODULE ControlPlaneProofs -------------------------
(***************************************************************************)
(* Proofs about ControlPlane: what a request meets while both handlers     *)
(* run, whatever the order of their steps and its own, for all ingresses   *)
(* and endpoints and every url.                                            *)
(*                                                                         *)
(* The composition keeps what is proved of each handler on its own: a step *)
(* of it is a step of either handler or leaves it alone.                   *)
(***************************************************************************)
EXTENDS ControlPlane, IngressTableProofs, EndpointProofs

(* What is proved of the hook. *)
Hook == INSTANCE RequestProofs

(* Every behaviour of the composition is one of each handler. *)
LEMMA BothHandlers == CSpec => Spec /\ EpSpec
<1>1. CInit => Init /\ EpInit
  BY DEF CInit
<1>2. [CNext]_allVars => [Next]_ingressVars /\ [EpNext]_endpointVars
  <2> SUFFICES ASSUME [CNext]_allVars PROVE [Next]_ingressVars /\ [EpNext]_endpointVars
    OBVIOUS
  <2>1. CASE IngressStep \/ EndpointStep \/ HookStep
    BY <2>1 DEF IngressStep, EndpointStep, HookStep, Next, EpNext
  <2>2. CASE Receive
    BY <2>2 DEF Receive
  <2>3. CASE CRestart
    BY <2>3 DEF CRestart, Next, EpNext
  <2>4. CASE UNCHANGED allVars
    BY <2>4 DEF allVars, ingressVars, endpointVars
  <2> QED BY <2>1, <2>2, <2>3, <2>4 DEF CNext, Overtaken
<1> QED BY <1>1, <1>2, PTL DEF CSpec, Spec, EpSpec

-----------------------------------------------------------------------------
(* The databases a request reads. *)

(* No key ever holds infinitely many members. *)
FiniteKeys == \A k \in DBOneKeys : IsFiniteSet(db1[k])

(* What is known of DB One whatever ingresses there are. *)
PlainRoutes == TypeOK /\ StoreIds /\ RoutesPlain /\ FiniteKeys

(* Of each command. *)
LEMMA FiniteStep ==
    ASSUME TypeOK, FiniteKeys, Exec
    PROVE  FiniteKeys'
<1> DEFINE c == Head(todo)
<1>1. c \in Commands /\ DOMAIN db1 = DBOneKeys
  BY TailFacts DEF TypeOK, Exec, Idle
<1> HIDE DEF c
<1>2. CASE UNCHANGED db1
  BY <1>2 DEF FiniteKeys
<1>3. CASE db1' = Apply(db1, c)
  <2> SUFFICES ASSUME NEW k \in DBOneKeys PROVE IsFiniteSet(db1'[k])
    BY DEF FiniteKeys
  <2>1. IsFiniteSet(db1[k])
    BY DEF FiniteKeys
  <2>2. db1'[k] = db1[k] \/ db1'[k] = db1[k] \cup {c.arg} \/ db1'[k] = db1[k] \ {c.arg}
            \/ (c.arg \in DBOneKeys /\ db1'[k] = db1[c.arg]) \/ db1'[k] = {}
    BY <1>1, <1>3 DEF Apply, Commands, Command
  <2>3. IsFiniteSet(db1[k] \cup {c.arg}) /\ IsFiniteSet(db1[k] \ {c.arg}) /\ IsFiniteSet({})
    BY <2>1, FS_AddElement, FS_RemoveElement, FS_EmptySet
  <2> QED BY <2>1, <2>2, <2>3 DEF FiniteKeys
<1> QED BY <1>2, <1>3 DEF Exec, Succeeds, Fails, c

(* Always. *)
LEMMA PlainAlways == Spec => []PlainRoutes
<1>1. Init => FiniteKeys
  BY FS_EmptySet DEF Init, FiniteKeys
<1>2. TypeOK /\ FiniteKeys /\ [Next]_ingressVars => FiniteKeys'
  <2> SUFFICES ASSUME TypeOK, FiniteKeys, [Next]_ingressVars PROVE FiniteKeys'
    OBVIOUS
  <2>1. CASE IngressEvent
    BY <2>1, EventType DEF FiniteKeys
  <2>2. CASE Exec
    BY <2>2, FiniteStep
  <2>3. CASE Panic \/ Restart
    <3>1. \A k \in DBOneKeys : db1'[k] = {}
      BY <2>3 DEF Panic, Restart, FlushAll, TypeOK
    <3> QED BY <3>1, FS_EmptySet DEF FiniteKeys
  <2>4. CASE UNCHANGED ingressVars
    BY <2>4 DEF ingressVars, FiniteKeys
  <2> QED BY <2>1, <2>2, <2>3, <2>4 DEF Next
<1> QED
  BY <1>1, <1>2, TypeCorrect, StoreIdsInductive, RoutesPlainInductive, PTL DEF Spec, PlainRoutes

(* A key the plugin asks DB One for is there when it is one of a hostPath  *)
(* the ingresses have, and holds what a request finds at it.               *)
LEMMA RouteFound ==
    ASSUME PlainRoutes, NEW hp
    PROVE  /\ hp \in HostPaths => /\ Plugin!SMembers(db1, <<"route", hp>>) = Table[hp]
                                  /\ Table[hp] \subseteq RouteMembers /\ IsFiniteSet(Table[hp])
           /\ hp \notin HostPaths => Plugin!SMembers(db1, <<"route", hp>>) = {}
<1>1. DOMAIN db1 = DBOneKeys
  BY DEF PlainRoutes, TypeOK
<1>2. <<"route", hp>> \in DBOneKeys <=> hp \in HostPaths
  <2>1. \A k \in ScriptKeys : k[1] = "$"
    BY DEF ScriptKeys, ScriptKey
  <2>2. <<"route", hp>>[1] = "route"
    OBVIOUS
  <2>3. \A other : TempKey(other) # <<"route", hp>> /\ (RouteKey(other) = <<"route", hp>> <=> other = hp)
    BY DEF TempKey, RouteKey
  <2> QED BY <2>1, <2>2, <2>3 DEF DBOneKeys
<1>3. ASSUME hp \in HostPaths
      PROVE  /\ Plugin!SMembers(db1, <<"route", hp>>) = Table[hp]
             /\ Table[hp] \subseteq RouteMembers /\ IsFiniteSet(Table[hp])
  <2>1. Table[hp] = db1[<<"route", hp>>] /\ RouteKey(hp) = <<"route", hp>>
    BY <1>3 DEF Table, RouteKey
  <2> QED BY <1>1, <1>2, <1>3, <2>1 DEF Plugin!SMembers, PlainRoutes, RoutesPlain, FiniteKeys
<1>4. ASSUME hp \notin HostPaths
      PROVE  Plugin!SMembers(db1, <<"route", hp>>) = {}
  BY <1>1, <1>2, <1>4 DEF Plugin!SMembers
<1> QED BY <1>3, <1>4

(* A member is a service or the name of a script. *)
LEMMA MemberKinds ==
    ASSUME NEW m \in RouteMembers
    PROVE  /\ Plugin!IsScript(m) => m \in ScriptKeys
           /\ ~Plugin!IsScript(m) => m \in Services
<1>1. \A k \in ScriptKeys : k[1] = "$"
  BY DEF ScriptKeys, ScriptKey
<1>2. \A k \in Services : k[1] = "svc"
  BY DEF Services
<1> QED BY <1>1, <1>2 DEF RouteMembers, Plugin!IsScript

-----------------------------------------------------------------------------
(* The steps of the hook, said by what they leave of the request. *)

Phases   == {"ping", "lookup", "route", "script", "done"}
Outcomes == {"none", "no redis", "no route", "no endpoint", "no script", "script failed",
             "completed"}

Positions == Nat \ {0}
Finding   == Seq(HostPaths)
Members   == Seq(RouteMembers)
Targets   == IPPorts \cup {NoTarget}
Ran       == SUBSET (RouteMembers \cup Scripts)

Requests ==
    [phase : Phases, url : Urls, at : Positions, found : Finding, svcs : Members,
     target : Targets, ran : Ran, outcome : Outcomes]

IsRequest == req \in Requests

(* A request that has just come or has been taken back holds nothing. *)
Empty(r) ==
    r.at = 1 /\ r.target = NoTarget /\ r.found = <<>> /\ r.svcs = <<>> /\ r.outcome = "none"

(* It goes on ... *)
Goes(phase, at, target) ==
    /\ req'.phase = phase /\ req'.at = at /\ req'.target = target
    /\ req'.url = req.url /\ req'.found = req.found
    /\ req'.svcs = req.svcs /\ req'.outcome = req.outcome

(* ... or ends. *)
Ends(outcome) ==
    /\ req'.phase = "done" /\ req'.outcome = outcome /\ req'.target = req.target
    /\ req'.url = req.url /\ req'.found = req.found /\ req'.svcs = req.svcs

(* The hostPath it asks for. *)
Asked == Plugin!LookupOrder(req.url)[req.at]

Finds ==
    /\ req.phase = "lookup"
    /\ Asked \in HostPaths
    /\ Table[Asked] # {}
    /\ req'.phase = "route" /\ req'.at = 1 /\ req'.target = req.target
    /\ req'.url = req.url /\ req'.found = <<Asked>> /\ req'.outcome = req.outcome
    /\ {req'.svcs[i] : i \in 1..Len(req'.svcs)} = Table[Asked]

FindsNothing ==
    /\ req.phase = "lookup"
    /\ Asked \in HostPaths => Table[Asked] = {}
    /\ \/ req.at < Len(Plugin!LookupOrder(req.url)) /\ Goes("lookup", req.at + 1, req.target)
       \/ req.at = Len(Plugin!LookupOrder(req.url)) /\ Ends("no route")

(* The member it is at. *)
Now == req.svcs[req.at]

RoutesMember ==
    /\ req.phase = "route"
    /\ req.at \in 1..Len(req.svcs)
    /\ \/ Now \in ScriptKeys /\ Goes("route", req.at + 1, req.target)
       \/ /\ Now \in Services
          /\ \E ipport \in Plugin!SMembers(db0, Now) : Goes("route", req.at + 1, ipport)
       \/ /\ Now \in Services
          /\ Plugin!SMembers(db0, Now) = {}
          /\ Ends("no endpoint")

RunsMember ==
    /\ req.phase = "script"
    /\ req.at \in 1..Len(req.svcs)
    /\ \/ Goes("script", req.at + 1, req.target)
       \/ /\ Now \in ScriptKeys
          /\ Plugin!SMembers(db1, Now) = {}
          /\ Ends("no script")
       \/ Ends("script failed")

LoopEnds ==
    /\ req.phase \in {"route", "script"}
    /\ req.at > Len(req.svcs)
    /\ \/ req.phase = "route" /\ Goes("script", 1, req.target)
       \/ Ends("completed")

(* The type of the request, field by field. *)
LEMMA RequestFields ==
    ASSUME IsRequest
    PROVE  /\ req.at \in Nat \ {0} /\ req.svcs \in Seq(RouteMembers) /\ Len(req.svcs) \in Nat
           /\ req.at <= Len(req.svcs) => req.at \in 1..Len(req.svcs) /\ Now \in RouteMembers
<1>1. req.at \in Nat \ {0} /\ req.svcs \in Seq(RouteMembers)
  BY DEF IsRequest, Requests, Positions, Members
<1> QED BY <1>1 DEF Now

(* A request that goes on or ends is one. *)
LEMMA RequestGoes ==
    ASSUME IsRequest
    PROVE  /\ \A phase \in Phases : req' = [req EXCEPT !.phase = phase] =>
                    IsRequest' /\ Goes(phase, req.at, req.target)
           /\ req' = [req EXCEPT !.at = @ + 1] => IsRequest' /\ Goes(req.phase, req.at + 1, req.target)
           /\ \A phase \in Phases : req' = [req EXCEPT !.phase = phase, !.at = 1] =>
                    IsRequest' /\ Goes(phase, 1, req.target)
           /\ \A target \in IPPorts : req' = [req EXCEPT !.at = @ + 1, !.target = target] =>
                    IsRequest' /\ Goes(req.phase, req.at + 1, target)
           /\ \A script \in RouteMembers \cup Scripts :
                    req' = [req EXCEPT !.at = @ + 1, !.ran = @ \cup {script}] =>
                        IsRequest' /\ Goes(req.phase, req.at + 1, req.target)
           /\ \A outcome \in Outcomes : Plugin!Return(outcome) => IsRequest' /\ Ends(outcome)
<1> USE DEF IsRequest, Requests, Goes
<1>1. \A phase \in Phases : req' = [req EXCEPT !.phase = phase] =>
            IsRequest' /\ Goes(phase, req.at, req.target)
  OBVIOUS
<1>2. req.at \in Positions => 1 \in Positions /\ req.at + 1 \in Positions
  BY DEF Positions
<1>3. req' = [req EXCEPT !.at = @ + 1] => IsRequest' /\ Goes(req.phase, req.at + 1, req.target)
  BY <1>2
<1>4. \A phase \in Phases : req' = [req EXCEPT !.phase = phase, !.at = 1] =>
            IsRequest' /\ Goes(phase, 1, req.target)
  BY <1>2
<1>5. \A target \in IPPorts : req' = [req EXCEPT !.at = @ + 1, !.target = target] =>
            IsRequest' /\ Goes(req.phase, req.at + 1, target)
  <2>1. \A target \in IPPorts : target \in Targets
    BY DEF Targets
  <2> QED BY <1>2, <2>1
<1>6. \A script \in RouteMembers \cup Scripts :
            req' = [req EXCEPT !.at = @ + 1, !.ran = @ \cup {script}] =>
                IsRequest' /\ Goes(req.phase, req.at + 1, req.target)
  <2>1. \A script \in RouteMembers \cup Scripts : req.ran \in Ran => req.ran \cup {script} \in Ran
    BY DEF Ran
  <2> QED BY <1>2, <2>1
<1>7. \A outcome \in Outcomes : Plugin!Return(outcome) => IsRequest' /\ Ends(outcome)
  <2>1. "done" \in Phases
    BY DEF Phases
  <2> QED BY <2>1 DEF Plugin!Return, Ends
<1> QED BY <1>1, <1>3, <1>4, <1>5, <1>6, <1>7

(* One that finds a route is one. *)
LEMMA RequestFinds ==
    ASSUME IsRequest, PlainRoutes, Plugin!Lookup, Asked \in HostPaths, Table[Asked] # {},
           NEW order \in SetToSeqs(Table[Asked]),
           req' = [req EXCEPT !.phase = "route", !.at = 1, !.found = <<Asked>>, !.svcs = order]
    PROVE  IsRequest' /\ Finds
<1>1. Table[Asked] \subseteq RouteMembers /\ IsFiniteSet(Table[Asked])
  BY RouteFound
<1>2. order \in Seq(Table[Asked]) /\ {order[i] : i \in 1..Len(order)} = Table[Asked]
  BY <1>1, OrderOfSet
<1>3. order \in Seq(RouteMembers)
  BY <1>1, <1>2
<1>4. <<Asked>> \in Seq(HostPaths)
  OBVIOUS
<1>5. "route" \in Phases /\ 1 \in Positions /\ <<Asked>> \in Finding /\ order \in Members
  BY <1>3, <1>4 DEF Phases, Positions, Finding, Members
<1>6. IsRequest' /\ req'.phase = "route" /\ req'.at = 1 /\ req'.target = req.target
      /\ req'.url = req.url /\ req'.found = <<Asked>> /\ req'.outcome = req.outcome
      /\ req'.svcs = order
  <2> DEFINE moved == [req EXCEPT !.phase = "route", !.at = 1]
             found == [moved EXCEPT !.found = <<Asked>>, !.svcs = order]
  <2>1. moved \in Requests /\ moved.phase = "route" /\ moved.at = 1 /\ moved.target = req.target
        /\ moved.url = req.url /\ moved.outcome = req.outcome
    BY <1>5 DEF IsRequest, Requests
  <2>2. req' = found
    OBVIOUS
  <2> HIDE DEF moved
  <2>3. found \in Requests /\ found.phase = moved.phase /\ found.at = moved.at /\ found.target = moved.target
        /\ found.url = moved.url /\ found.outcome = moved.outcome
        /\ found.found = <<Asked>> /\ found.svcs = order
    BY <1>5, <2>1 DEF Requests
  <2> HIDE DEF found
  <2> QED BY <2>1, <2>2, <2>3 DEF IsRequest
<1>7. req.phase = "lookup"
  BY DEF Plugin!Lookup
<1> QED BY <1>2, <1>5, <1>6, <1>7 DEF Finds

(* The hook does one of these. *)
LEMMA HookFacts ==
    ASSUME PlainRoutes, EpTypeOK, IsRequest, Plugin!HookStep
    PROVE  /\ IsRequest'
           /\ \/ req.phase = "ping" /\ Goes("lookup", req.at, req.target)
              \/ req.phase = "ping" /\ RedisMayFail /\ Ends("no redis")
              \/ Finds \/ FindsNothing \/ RoutesMember \/ RunsMember \/ LoopEnds
<1> USE DEF Phases, Outcomes
<1>1. CASE Plugin!Ping
  BY <1>1, RequestGoes DEF Plugin!Ping
<1>2. CASE Plugin!Lookup
  <2> DEFINE svcs == Plugin!SMembers(db1, <<"route", Asked>>)
  <2>1. Plugin!SetToSeqs(svcs) = SetToSeqs(svcs)
    <3>1. Plugin!Cardinality(svcs) = Cardinality(svcs)
      BY DEF Plugin!Cardinality, Cardinality
    <3> QED BY <3>1 DEF Plugin!SetToSeqs, SetToSeqs
  <2>2. /\ req.phase = "lookup"
        /\ \/ svcs # {} /\ \E order \in SetToSeqs(svcs) :
                 req' = [req EXCEPT !.phase = "route", !.at = 1, !.found = <<Asked>>, !.svcs = order]
           \/ svcs = {} /\ req.at < Len(Plugin!LookupOrder(req.url)) /\ req' = [req EXCEPT !.at = @ + 1]
           \/ svcs = {} /\ req.at = Len(Plugin!LookupOrder(req.url)) /\ Plugin!Return("no route")
    BY <1>2, <2>1 DEF Plugin!Lookup, Asked
  <2>3. svcs # {} => Asked \in HostPaths
    BY RouteFound
  <2>4. Asked \in HostPaths => svcs = Table[Asked]
    BY RouteFound
  <2> HIDE DEF svcs
  <2>5. CASE svcs = {}
    <3>1. CASE req.at < Len(Plugin!LookupOrder(req.url)) /\ req' = [req EXCEPT !.at = @ + 1]
      <4>1. IsRequest' /\ Goes("lookup", req.at + 1, req.target)
        BY <2>2, <3>1, RequestGoes
      <4> QED BY <2>2, <2>4, <2>5, <3>1, <4>1 DEF FindsNothing
    <3>2. CASE req.at = Len(Plugin!LookupOrder(req.url)) /\ Plugin!Return("no route")
      <4>1. IsRequest' /\ Ends("no route")
        BY <3>2, RequestGoes
      <4> QED BY <2>2, <2>4, <2>5, <3>2, <4>1 DEF FindsNothing
    <3> QED BY <2>2, <2>5, <3>1, <3>2
  <2>6. CASE svcs # {}
    <3>1. PICK order \in SetToSeqs(svcs) :
                 req' = [req EXCEPT !.phase = "route", !.at = 1, !.found = <<Asked>>, !.svcs = order]
      BY <2>2, <2>6
    <3> QED BY <1>2, <2>3, <2>4, <2>6, <3>1, RequestFinds
  <2> QED BY <2>5, <2>6
<1>3. CASE Plugin!Route
  <2>1. req.phase = "route" /\ req.at <= Len(req.svcs)
    BY <1>3 DEF Plugin!Route
  <2>2. req.at \in 1..Len(req.svcs) /\ Now \in RouteMembers
    BY <2>1, RequestFields
  <2>3. /\ Plugin!IsScript(Now) => Now \in ScriptKeys
        /\ ~Plugin!IsScript(Now) => Now \in Services
    BY <2>2, MemberKinds
  <2>4. \/ Plugin!IsScript(Now) /\ req' = [req EXCEPT !.at = @ + 1]
        \/ /\ ~Plugin!IsScript(Now)
           /\ \E ipport \in Plugin!SMembers(db0, Now) :
                    req' = [req EXCEPT !.at = @ + 1, !.target = ipport]
        \/ ~Plugin!IsScript(Now) /\ Plugin!SMembers(db0, Now) = {} /\ Plugin!Return("no endpoint")
    BY <1>3 DEF Plugin!Route, Now
  <2>5. CASE Plugin!IsScript(Now) /\ req' = [req EXCEPT !.at = @ + 1]
    <3>1. IsRequest' /\ Goes("route", req.at + 1, req.target)
      BY <2>1, <2>5, RequestGoes
    <3> QED BY <2>1, <2>2, <2>3, <2>5, <3>1 DEF RoutesMember
  <2>6. ASSUME ~Plugin!IsScript(Now), NEW ipport \in Plugin!SMembers(db0, Now),
               req' = [req EXCEPT !.at = @ + 1, !.target = ipport]
        PROVE  IsRequest' /\ RoutesMember
    <3>1. ipport \in IPPorts
      BY DEF Plugin!SMembers, EpTypeOK
    <3>2. IsRequest' /\ Goes("route", req.at + 1, ipport)
      BY <2>1, <2>6, <3>1, RequestGoes
    <3> QED BY <2>1, <2>2, <2>3, <2>6, <3>2 DEF RoutesMember
  <2>7. CASE ~Plugin!IsScript(Now) /\ Plugin!SMembers(db0, Now) = {} /\ Plugin!Return("no endpoint")
    <3>1. IsRequest' /\ Ends("no endpoint")
      BY <2>7, RequestGoes
    <3> QED BY <2>1, <2>2, <2>3, <2>7, <3>1 DEF RoutesMember
  <2> QED BY <2>4, <2>5, <2>6, <2>7
<1>4. CASE Plugin!RunScript
  <2>1. req.phase = "script" /\ req.at <= Len(req.svcs)
    BY <1>4 DEF Plugin!RunScript
  <2>2. req.at \in 1..Len(req.svcs) /\ Now \in RouteMembers
    BY <2>1, RequestFields
  <2>3. \/ req' = [req EXCEPT !.at = @ + 1]
        \/ \E snippet \in Plugin!SMembers(db1, Now) :
                    req' = [req EXCEPT !.at = @ + 1, !.ran = @ \cup {snippet}]
        \/ Plugin!IsScript(Now) /\ Plugin!SMembers(db1, Now) = {} /\ Plugin!Return("no script")
        \/ Plugin!Return("script failed")
    BY <1>4 DEF Plugin!RunScript, Now
  <2>4. CASE req' = [req EXCEPT !.at = @ + 1]
    <3>1. IsRequest' /\ Goes("script", req.at + 1, req.target)
      BY <2>1, <2>4, RequestGoes
    <3> QED BY <2>1, <2>2, <3>1 DEF RunsMember
  <2>5. ASSUME NEW snippet \in Plugin!SMembers(db1, Now),
               req' = [req EXCEPT !.at = @ + 1, !.ran = @ \cup {snippet}]
        PROVE  IsRequest' /\ RunsMember
    <3>1. snippet \in RouteMembers \cup Scripts
      BY DEF Plugin!SMembers, PlainRoutes, TypeOK
    <3>2. IsRequest' /\ Goes("script", req.at + 1, req.target)
      BY <2>1, <2>5, <3>1, RequestGoes
    <3> QED BY <2>1, <2>2, <3>2 DEF RunsMember
  <2>6. CASE Plugin!IsScript(Now) /\ Plugin!SMembers(db1, Now) = {} /\ Plugin!Return("no script")
    <3>1. IsRequest' /\ Ends("no script")
      BY <2>6, RequestGoes
    <3>2. Now \in ScriptKeys
      BY <2>2, <2>6, MemberKinds
    <3> QED BY <2>1, <2>2, <2>6, <3>1, <3>2 DEF RunsMember
  <2>7. CASE Plugin!Return("script failed")
    <3>1. IsRequest' /\ Ends("script failed")
      BY <2>7, RequestGoes
    <3> QED BY <2>1, <2>2, <3>1 DEF RunsMember
  <2> QED BY <2>3, <2>4, <2>5, <2>6, <2>7
<1>5. CASE Plugin!EndOfLoop
  <2>1. /\ req.phase \in {"route", "script"}
        /\ req.at > Len(req.svcs)
        /\ \/ req.phase = "route" /\ req' = [req EXCEPT !.phase = "script", !.at = 1]
           \/ Plugin!Return("completed")
    BY <1>5 DEF Plugin!EndOfLoop
  <2> QED BY <2>1, RequestGoes DEF LoopEnds
<1> QED BY <1>1, <1>2, <1>3, <1>4, <1>5 DEF Plugin!HookStep

(* A request that comes, or is taken back. *)
LEMMA FreshFacts ==
    ASSUME NEW url \in Urls
    PROVE  /\ Plugin!NewRequest(url) \in Requests /\ Empty(Plugin!NewRequest(url))
           /\ Plugin!NewRequest(url).url = url /\ Plugin!NewRequest(url).phase = "ping"
           /\ Plugin!NoRequest(url) \in Requests /\ Empty(Plugin!NoRequest(url))
           /\ Plugin!NoRequest(url).url = url /\ Plugin!NoRequest(url).phase = "done"
<1> DEFINE new == [phase |-> "ping", url |-> url, at |-> 1, found |-> <<>>, svcs |-> <<>>,
                   target |-> NoTarget, ran |-> {}, outcome |-> "none"]
<1>1. "ping" \in Phases /\ "done" \in Phases /\ 1 \in Positions /\ <<>> \in Finding
      /\ <<>> \in Members /\ NoTarget \in Targets /\ {} \in Ran /\ "none" \in Outcomes
  BY DEF Phases, Positions, Finding, Members, Targets, Ran, Outcomes
<1>2. Plugin!NewRequest(url) = new /\ Plugin!NoRequest(url) = [new EXCEPT !.phase = "done"]
  BY DEF Plugin!NewRequest, Plugin!NoRequest
<1>3. new \in Requests
  BY <1>1 DEF Requests
<1>4. /\ new.url = url /\ new.at = 1 /\ new.target = NoTarget /\ new.phase = "ping"
      /\ new.found = <<>> /\ new.svcs = <<>> /\ new.outcome = "none"
  OBVIOUS
<1> HIDE DEF new
<1> DEFINE none == [new EXCEPT !.phase = "done"]
<1>5. none \in Requests
  BY <1>1, <1>3 DEF Requests
<1>6. /\ none.url = url /\ none.at = 1 /\ none.target = NoTarget /\ none.phase = "done"
      /\ none.found = <<>> /\ none.svcs = <<>> /\ none.outcome = "none"
  BY <1>3, <1>4 DEF Requests
<1> QED BY <1>2, <1>3, <1>4, <1>5, <1>6 DEF Empty

(* A step of one of the handlers leaves a request that is going on alone. *)
Waits ==
    /\ req'.url = req.url
    /\ IF req.phase = "done" THEN req'.phase = "done" /\ Empty(req') ELSE req' = req

(* What each step does to the request. *)
LEMMA RequestStep ==
    ASSUME PlainRoutes, EpTypeOK, IsRequest, [CNext]_allVars
    PROVE  /\ IsRequest'
           /\ \/ Overtaken /\ IngressStep /\ UNCHANGED endpointVars /\ Waits
              \/ Overtaken /\ EndpointStep /\ UNCHANGED ingressVars /\ Waits
              \/ /\ Overtaken /\ Plugin!HookStep /\ req.phase # "done"
                 /\ UNCHANGED <<ingressVars, endpointVars>>
              \/ Receive /\ req'.phase = "ping" /\ Empty(req')
              \/ CRestart /\ req'.phase = "done" /\ Empty(req')
              \/ UNCHANGED allVars
<1>1. req.url \in Urls
  BY DEF IsRequest, Requests
<1>2. Forgets => IsRequest' /\ Waits
  BY <1>1, FreshFacts DEF Forgets, IsRequest, Waits
<1>3. CASE Overtaken /\ IngressStep
  BY <1>2, <1>3 DEF IngressStep
<1>4. CASE Overtaken /\ EndpointStep
  BY <1>2, <1>4 DEF EndpointStep
<1>5. CASE Overtaken /\ HookStep
  <2>1. req.phase # "done"
    BY <1>5 DEF HookStep, Plugin!HookStep, Plugin!Ping, Plugin!Lookup, Plugin!Route, Plugin!RunScript,
                Plugin!EndOfLoop
  <2> QED BY <1>5, <2>1, HookFacts DEF HookStep
<1>6. CASE Receive
  BY <1>6, FreshFacts DEF Receive, Plugin!Receive, IsRequest
<1>7. CASE CRestart
  BY <1>1, <1>7, FreshFacts DEF CRestart, IsRequest
<1>8. CASE UNCHANGED allVars
  BY <1>8 DEF allVars, IsRequest
<1> QED BY <1>3, <1>4, <1>5, <1>6, <1>7, <1>8 DEF CNext, Overtaken

(* The request is one at every step. *)
LEMMA RequestsAlways == CSpec => [](PlainRoutes /\ EpTypeOK /\ IsRequest)
<1>1. CInit => IsRequest
  BY FreshFacts DEF CInit, IsRequest
<1>2. PlainRoutes /\ EpTypeOK /\ IsRequest /\ [CNext]_allVars => IsRequest'
  BY RequestStep
<1> QED BY <1>1, <1>2, BothHandlers, PlainAlways, EpTypeCorrect, PTL DEF CSpec

-----------------------------------------------------------------------------
(* What is lost stays lost. *)
LEMMA NothingLostBefore ==
    ASSUME PlainRoutes, EpTypeOK, [Next]_ingressVars, [EpNext]_endpointVars
    PROVE  /\ NothingLost => faults = 0 /\ missed = 0 /\ epFaults = 0 /\ epMissed = 0
           /\ NothingLost' => /\ NothingLost
                              /\ faults' = 0 /\ missed' = 0 /\ epFaults' = 0 /\ epMissed' = 0
<1>1. /\ faults \in Nat /\ missed \in Nat /\ faults' \in Nat /\ missed' \in Nat
      /\ faults' + missed' = 0 => faults + missed = 0
  BY LossesStay DEF PlainRoutes
<1>2. epFaults \in Nat /\ epMissed \in Nat
  BY EpBoundsAssumption DEF EpTypeOK
<1>3. epFaults' \in {epFaults, epFaults + 1} /\ epMissed' \in {epMissed, epMissed + 1}
  BY DEF EpNext, EndpointEvent, EpStep, AddEndpoints, UpdateEndpoints, DeleteEndpoints,
         DeleteEndpointsMissed, EpDeliver, NextPort, EpExec, EpFail, EpRestart, endpointVars
<1>4. NothingLost <=> faults = 0 /\ missed = 0 /\ epFaults = 0 /\ epMissed = 0
  BY <1>1, <1>2, Sums DEF NothingLost
<1>5. NothingLost' <=> faults' = 0 /\ missed' = 0 /\ epFaults' = 0 /\ epMissed' = 0
  <2>1. epFaults' \in Nat /\ epMissed' \in Nat
    BY <1>2, <1>3
  <2>2. faults' + missed' = 0 <=> faults' = 0 /\ missed' = 0
    BY <1>1, Sums
  <2>3. epFaults' + epMissed' = 0 <=> epFaults' = 0 /\ epMissed' = 0
    BY <2>1, Sums
  <2> QED BY <2>2, <2>3 DEF NothingLost
<1>6. epFaults' = 0 /\ epMissed' = 0 => epFaults = 0 /\ epMissed = 0
  BY <1>2, <1>3
<1>7. faults' = 0 /\ missed' = 0 => faults = 0 /\ missed = 0
  BY <1>1, Sums
<1> QED BY <1>4, <1>5, <1>6, <1>7

-----------------------------------------------------------------------------
(* Scripts are found. *)

(* The inductive invariant: the scripts the request is going to ask for    *)
(* are there.                                                              *)
ScriptsHeld ==
    NothingLost =>
        /\ req.outcome # "no script"
        /\ \A i \in 1..Len(req.svcs) : req.svcs[i] \in ScriptKeys => req.svcs[i] \in Present

(* A request that holds nothing asks for no script. *)
LEMMA EmptyHeld == (Empty(req) => ScriptsHeld) /\ (Empty(req') => ScriptsHeld')
<1>1. 1..Len(<<>>) = {}
  OBVIOUS
<1>2. Empty(req) => ScriptsHeld
  BY <1>1 DEF Empty, ScriptsHeld
<1>3. Empty(req') => ScriptsHeld'
  BY <1>1 DEF Empty, ScriptsHeld
<1> QED BY <1>2, <1>3

(* The hook finds names of scripts that are there. *)
LEMMA HookHeld ==
    ASSUME PlainRoutes, EpTypeOK, IsRequest, ScriptInv, NothingLost, faults = 0, ScriptsHeld,
           Plugin!HookStep, UNCHANGED ingressVars
    PROVE  ScriptsHeld'
<1>1. Present' = Present /\ DOMAIN db1 = DBOneKeys
  BY DEF ingressVars, Present, PlainRoutes, TypeOK
<1>2. CASE Finds
  <2>1. Table[Asked] \cap ScriptKeys \subseteq Present
    <3>1. RouteKey(Asked) \in DBOneKeys \ ScriptKeys
      BY <1>2, KeysApart DEF Finds
    <3> QED BY <1>2, <3>1 DEF Finds, Table, ScriptInv
  <2>2. \A i \in 1..Len(req'.svcs) : req'.svcs[i] \in Table[Asked]
    BY <1>2 DEF Finds
  <2>3. req'.outcome # "no script"
    BY <1>2 DEF Finds, ScriptsHeld
  <2> QED BY <1>1, <2>1, <2>2, <2>3 DEF ScriptsHeld
<1>3. ASSUME NEW phase, NEW at, NEW target, Goes(phase, at, target)
      PROVE  ScriptsHeld'
  BY <1>1, <1>3 DEF Goes, ScriptsHeld
<1>4. ASSUME NEW outcome, outcome # "no script", Ends(outcome)
      PROVE  ScriptsHeld'
  BY <1>1, <1>4 DEF Ends, ScriptsHeld
<1>5. CASE RunsMember
  <2>1. Now \in ScriptKeys => Plugin!SMembers(db1, Now) # {}
    <3>1. Now \in ScriptKeys => Now \in Present
      BY <1>5 DEF RunsMember, ScriptsHeld, Now
    <3> QED BY <1>1, <3>1 DEF Present, DBOneKeys, Plugin!SMembers
  <2> QED BY <1>3, <1>4, <1>5, <2>1 DEF RunsMember
<1> QED BY <1>2, <1>3, <1>4, <1>5, HookFacts DEF FindsNothing, RoutesMember, LoopEnds

(* Every step keeps them there. *)
LEMMA HeldInductive ==
    ASSUME PlainRoutes, EpTypeOK, IsRequest, ScriptInv, ScriptsHeld, [CNext]_allVars,
           [Next]_ingressVars, [EpNext]_endpointVars
    PROVE  ScriptsHeld'
<1> SUFFICES ASSUME NothingLost' PROVE ScriptsHeld'
  BY DEF ScriptsHeld
<1>1. NothingLost /\ faults = 0 /\ faults' = 0
  BY NothingLostBefore
<1>2. ASSUME Waits, Present \subseteq Present'
      PROVE  ScriptsHeld'
  <2>1. CASE req.phase = "done"
    BY <1>2, <2>1, EmptyHeld DEF Waits
  <2>2. CASE req.phase # "done"
    <3>1. req' = req
      BY <1>2, <2>2 DEF Waits
    <3> QED BY <1>1, <1>2, <3>1 DEF ScriptsHeld
  <2> QED BY <2>1, <2>2
<1>3. CASE IngressStep /\ Waits
  <2>1. CASE IngressEvent
    <3>1. db1' = db1
      BY <2>1, EventType DEF PlainRoutes
    <3> QED BY <1>2, <1>3, <3>1 DEF Present
  <2>2. CASE Exec
    BY <1>1, <1>2, <1>3, <2>2, ExecKeepsScripts
  <2> QED BY <1>3, <2>1, <2>2 DEF IngressStep
<1>4. CASE UNCHANGED ingressVars /\ Waits
  BY <1>2, <1>4 DEF ingressVars, Present
<1>5. CASE Plugin!HookStep /\ UNCHANGED ingressVars
  BY <1>1, <1>5, HookHeld
<1>6. CASE Empty(req')
  BY <1>6, EmptyHeld
<1>7. CASE UNCHANGED allVars
  <2>1. req' = req /\ Present' = Present
    BY <1>7 DEF allVars, ingressVars, Present
  <2> QED BY <1>1, <2>1 DEF ScriptsHeld
<1> QED BY <1>3, <1>4, <1>5, <1>6, <1>7, RequestStep

(* As long as nothing is lost, a script that a request finds named in its  *)
(* route is there when the request comes to run it, however many updates   *)
(* and deletions the handler got through since: for all ingresses, whether *)
(* they share hostPaths or not (handlerIngress.go:60-65, 254-257,          *)
(* connect_redis.lua:228-251).                                             *)
THEOREM ScriptsStayFound == CSpec => []ScriptsAreFound
<1>1. CInit => ScriptsHeld
  <2> SUFFICES ASSUME CInit PROVE Empty(req)
    BY EmptyHeld
  <2> QED BY FreshFacts DEF CInit
<1>2. PlainRoutes /\ EpTypeOK /\ IsRequest /\ ScriptInv /\ ScriptsHeld /\ [CNext]_allVars
        /\ [Next]_ingressVars /\ [EpNext]_endpointVars => ScriptsHeld'
  BY HeldInductive
<1>3. ScriptsHeld => ScriptsAreFound
  BY DEF ScriptsHeld, ScriptsAreFound
<1> QED
  BY <1>1, <1>2, <1>3, BothHandlers, RequestsAlways, ScriptInvAlways, PTL DEF CSpec, Spec, EpSpec

-----------------------------------------------------------------------------
(* Requests go where a pod is listed. *)

(* The inductive invariant: an address that can be chosen was listed since *)
(* the request came, and the one it was given could be chosen.             *)
ListedFirst ==
    NothingLost =>
        /\ req.phase # "done" => \A w \in Watched : w[2] \in EpTable[w[1]] => w \in listed
        /\ req.phase \in {"ping", "lookup"} => req.target = NoTarget
        /\ GoesWhereListed

Sent == \E i \in Visited : GivesTarget(i) /\ <<req.svcs[i], req.target>> \notin Watched \ listed

(* An address that comes into the table is wanted there. *)
LEMMA ComesListed ==
    ASSUME EpOrderly(Endpoints), EpFaithful, EpFaithful', [EpNext]_endpointVars,
           epFaults' = 0, epMissed' = 0, NEW k \in SvcKeys
    PROVE  EpTable'[k] \ EpTable[k] \subseteq EpWanted'[k]
<1>1. [EpPromise!Next]_(EpPromise!lookupVars)
  BY EpStepIsPromised
<1>2. DOMAIN EpTable = SvcKeys
  BY DEF EpTable
<1>3. CASE EpPromise!Declare
  BY <1>3 DEF EpPromise!Declare
<1>4. CASE EpPromise!Publish
  <2>1. EpWanted' = EpWanted
    BY <1>4 DEF EpPromise!Publish
  <2>2. PICK j \in SvcKeys : \E gone, come : /\ come \subseteq EpWanted[j] \ EpTable[j]
                                             /\ EpTable' = [EpTable EXCEPT ![j] = (@ \ gone) \cup come]
    BY <1>4 DEF EpPromise!Publish
  <2> QED BY <1>2, <2>1, <2>2
<1>5. CASE EpPromise!Reset
  BY <1>5 DEF EpPromise!Reset
<1>6. CASE EpPromise!Lose
  BY <1>6 DEF EpPromise!Lose
<1>7. CASE UNCHANGED EpPromise!lookupVars
  BY <1>7 DEF EpPromise!lookupVars
<1> QED BY <1>1, <1>3, <1>4, <1>5, <1>6, <1>7 DEF EpPromise!Next

(* A request that holds nothing has no target. *)
LEMMA EmptyListed ==
    /\ Empty(req) /\ req.phase = "done" => ListedFirst
    /\ Empty(req') /\ req'.phase = "done" => ListedFirst'
BY DEF Empty, ListedFirst, GoesWhereListed

(* The hook picks an address that can be chosen. *)
LEMMA HookListed ==
    ASSUME PlainRoutes, EpTypeOK, IsRequest, ListedFirst, NothingLost, req.phase # "done",
           Plugin!HookStep, UNCHANGED endpointVars, listed \subseteq listed'
    PROVE  ListedFirst'
<1>1. EpTable' = EpTable /\ DOMAIN db0 = DB0Keys
  BY DEF endpointVars, EpTable, EpTypeOK
<1>2. \A w \in Watched : w[2] \in EpTable'[w[1]] => w \in listed'
  BY <1>1 DEF ListedFirst
<1>3. ASSUME req'.phase # "done", req'.target # NoTarget
      PROVE  Sent'
  <2>1. CASE req.phase \in {"ping", "lookup"}
    <3>1. req.target = NoTarget
      BY <2>1 DEF ListedFirst
    <3> QED BY <1>3, <2>1, <3>1, HookFacts DEF Goes, Ends, Finds, FindsNothing, RoutesMember, RunsMember,
                                               LoopEnds
  <2>2. ASSUME req.target # NoTarget
        PROVE  Sent
    BY <2>2 DEF ListedFirst, GoesWhereListed, Sent
  <2>3. ASSUME NEW at, req.phase \in {"route", "script"}, Goes("script", at, req.target),
               req.phase = "route" => req.at > Len(req.svcs)
        PROVE  Sent'
    <3>1. PICK i \in Visited : GivesTarget(i) /\ <<req.svcs[i], req.target>> \notin Watched \ listed
      BY <1>3, <2>2, <2>3 DEF Goes, Sent
    <3>2. req'.svcs = req.svcs /\ req'.target = req.target /\ req'.phase = "script"
      BY <2>3 DEF Goes
    <3>3. \A j \in DOMAIN req.svcs : req.phase = "route" => j < req.at
      BY <2>3, RequestFields
    <3>4. Visited' = Visited
      BY <2>3, <3>2, <3>3 DEF Visited
    <3> QED BY <3>1, <3>2, <3>4 DEF Sent, GivesTarget
  <2>4. ASSUME req.phase = "route", req.at \in 1..Len(req.svcs), NEW target, Goes("route", req.at + 1, target)
        PROVE  /\ req'.svcs = req.svcs /\ req'.target = target
               /\ req.at \in Visited' /\ \A j \in Visited' : ~(j > req.at)
               /\ Visited' = Visited \cup {req.at}
    BY <2>4, RequestFields DEF Goes, Visited
  <2>5. ASSUME req.phase = "route", req.at \in 1..Len(req.svcs), Now \in ScriptKeys,
               Goes("route", req.at + 1, req.target)
        PROVE  Sent'
    <3>1. PICK i \in Visited : GivesTarget(i) /\ <<req.svcs[i], req.target>> \notin Watched \ listed
      BY <1>3, <2>2, <2>5 DEF Goes, Sent
    <3>2. Plugin!IsScript(Now)
      BY <2>5 DEF ScriptKeys, ScriptKey, Plugin!IsScript
    <3> QED BY <2>4, <2>5, <3>1, <3>2 DEF Sent, GivesTarget, Now
  <2>6. ASSUME req.phase = "route", req.at \in 1..Len(req.svcs), Now \in Services,
               NEW ipport \in Plugin!SMembers(db0, Now), Goes("route", req.at + 1, ipport)
        PROVE  Sent'
    <3>1. req'.svcs = req.svcs /\ req'.target = ipport
          /\ req.at \in Visited' /\ \A j \in Visited' : ~(j > req.at)
      BY <2>4, <2>6
    <3>2. ~Plugin!IsScript(Now)
      BY <2>6 DEF Services, Plugin!IsScript
    <3>3. ASSUME <<Now, ipport>> \in Watched
          PROVE  <<Now, ipport>> \in listed
      <4>1. Now \in SvcKeys
        BY <3>3, WatchedAssumption
      <4>2. EpTable[Now] = db0[Now] /\ Now \in DOMAIN db0
        BY <1>1, <4>1 DEF EpTable, DB0Keys
      <4>3. ipport \in EpTable[Now]
        BY <2>6, <4>2 DEF Plugin!SMembers
      <4> QED BY <3>3, <4>3 DEF ListedFirst
    <3> QED BY <3>1, <3>2, <3>3 DEF Sent, GivesTarget, Now
  <2>7. ~Ends("no endpoint") /\ ~Ends("no script") /\ ~Ends("script failed") /\ ~Ends("completed")
    BY <1>3 DEF Ends
  <2>8. CASE req.phase \in {"route", "script"}
    <3>1. CASE RoutesMember
      BY <2>5, <2>6, <2>7, <3>1 DEF RoutesMember
    <3>2. CASE RunsMember
      <4>1. req.phase = "script" /\ Goes("script", req.at + 1, req.target)
        BY <2>7, <3>2 DEF RunsMember
      <4>2. req.phase \in {"route", "script"} /\ req.phase # "route"
        BY <4>1
      <4> QED BY <2>3, <4>1, <4>2
    <3>3. CASE LoopEnds
      <4>1. req.phase = "route" /\ req.at > Len(req.svcs) /\ Goes("script", 1, req.target)
        BY <2>7, <3>3 DEF LoopEnds
      <4> QED BY <2>3, <2>8, <4>1
    <3> QED BY <2>8, <3>1, <3>2, <3>3, HookFacts DEF Finds, FindsNothing
  <2> QED BY <2>1, <2>8 DEF IsRequest, Requests, Phases
<1>4. req'.phase \in {"ping", "lookup"} => req'.target = NoTarget
  BY HookFacts DEF Goes, Ends, Finds, FindsNothing, RoutesMember, RunsMember, LoopEnds, ListedFirst
<1> QED BY <1>2, <1>3, <1>4 DEF ListedFirst, GoesWhereListed, Sent

(* Every step keeps it so. *)
LEMMA ListedInductive ==
    ASSUME EpOrderly(Endpoints), PlainRoutes, EpTypeOK, IsRequest, EpFaithful, EpFaithful', ListedFirst,
           [CNext]_allVars, [Next]_ingressVars, [EpNext]_endpointVars
    PROVE  ListedFirst'
<1> SUFFICES ASSUME NothingLost' PROVE ListedFirst'
  BY DEF ListedFirst
<1>1. NothingLost /\ epFaults' = 0 /\ epMissed' = 0 /\ epFaults = 0 /\ epMissed = 0
  BY NothingLostBefore
<1>2. \A w \in Watched : w[1] \in SvcKeys
  BY WatchedAssumption
<1>3. ASSUME Overtaken, Waits, req.phase # "done"
      PROVE  ListedFirst'
  <2>1. req' = req /\ listed' = listed \cup {w \in Watched : w[2] \in EpWanted'[w[1]]}
    BY <1>3 DEF Waits, Overtaken
  <2>2. ASSUME NEW w \in Watched, w[2] \in EpTable'[w[1]]
        PROVE  w \in listed'
    <3>1. CASE w[2] \in EpTable[w[1]]
      BY <1>1, <1>3, <2>1, <3>1 DEF ListedFirst
    <3>2. CASE w[2] \notin EpTable[w[1]]
      <4>1. w[2] \in EpWanted'[w[1]]
        BY <1>1, <1>2, <2>2, <3>2, ComesListed
      <4> QED BY <2>1, <4>1
    <3> QED BY <3>1, <3>2
  <2> QED BY <1>1, <2>1, <2>2 DEF ListedFirst, GoesWhereListed, Visited, GivesTarget
<1>4. CASE Waits /\ req.phase = "done"
  BY <1>4, EmptyListed DEF Waits
<1>5. CASE Overtaken /\ Plugin!HookStep /\ req.phase # "done" /\ UNCHANGED endpointVars
  <2>1. listed \subseteq listed'
    BY <1>5 DEF Overtaken
  <2> QED BY <1>1, <1>5, <2>1, HookListed
<1>6. CASE Receive /\ req'.phase = "ping" /\ Empty(req')
  <2>1. EpIdle => EpTable = EpWanted
    BY <1>1 DEF EpFaithful, EpFollows
  <2>2. EpTable' = EpTable /\ EpWanted' = EpWanted /\ EpIdle' = EpIdle
    BY <1>6 DEF Receive, endpointVars, EpTable, EpWanted, EpIdle
  <2>3. \A w \in Watched : w[2] \in EpTable'[w[1]] => w \in listed'
    BY <1>6, <2>1, <2>2 DEF Receive, ListedNow
  <2>4. req'.target = NoTarget
    BY <1>6 DEF Empty
  <2> QED BY <2>3, <2>4 DEF ListedFirst, GoesWhereListed
<1>7. CASE CRestart /\ req'.phase = "done" /\ Empty(req')
  BY <1>7, EmptyListed
<1>8. CASE UNCHANGED allVars
  <2>1. req' = req /\ listed' = listed /\ EpTable' = EpTable
    BY <1>8 DEF allVars, endpointVars, EpTable
  <2> QED BY <1>1, <2>1 DEF ListedFirst, GoesWhereListed, Visited, GivesTarget
<1> QED BY <1>3, <1>4, <1>5, <1>6, <1>7, <1>8, RequestStep

(* As long as nothing is lost, a request is sent to an address that the    *)
(* service it was drawn from, the last one of its route so far, listed at  *)
(* some moment since the request came, whatever versions                   *)
(* of the routes and the endpoints it met on its way: for all Endpoints    *)
(* objects that keep their ports (handlerEndpoint.go:50-104,               *)
(* connect_redis.lua:190-226).                                             *)
THEOREM GoesWherePodsAre ==
    ASSUME EpOrderly(Endpoints)
    PROVE  CSpec => []GoesWhereListed
<1>1. CInit => ListedFirst
  <2> SUFFICES ASSUME CInit PROVE Empty(req) /\ req.phase = "done"
    BY EmptyListed
  <2> QED BY FreshFacts DEF CInit
<1>2. PlainRoutes /\ EpTypeOK /\ IsRequest /\ EpFaithful /\ EpFaithful' /\ ListedFirst
        /\ [CNext]_allVars /\ [Next]_ingressVars /\ [EpNext]_endpointVars => ListedFirst'
  BY ListedInductive
<1>3. ListedFirst => GoesWhereListed
  BY DEF ListedFirst, GoesWhereListed
<1>4. EpSpec => []EpFaithful
  BY FaithfulInductive, PTL DEF EpSpec
<1> QED
  BY <1>1, <1>2, <1>3, <1>4, BothHandlers, RequestsAlways, PTL DEF CSpec, Spec, EpSpec

-----------------------------------------------------------------------------
(* A request sees each ingress in one version. *)

(* What some objects, each ingress in one version, say of a hostPath. *)
SaidBy(objects, members, hp) ==
    \E versions \in SUBSET objects :
        /\ \A o, p \in versions : Id(o.spec) = Id(p.spec) => o = p
        /\ UNION {Asks(o, hp) : o \in versions} = members

(* The hostPaths a request counts on are those it can count on now. *)
CalmIsSteady == calm \subseteq Steady(req.url)

(* The inductive invariant: an update shows every hostPath as it was or as *)
(* it is wanted, and so a request that counts on one finds it so.          *)
Versioned ==
    /\ Declared \subseteq past
    /\ CalmIsSteady
    /\ NothingLost =>
        /\ Idle \/ event = "update" => \A hp \in HostPaths : SaidBy(past, Table[hp], hp)
        /\ calm # {} => OneVersion

(* More objects say as much. *)
LEMMA SaidByMore ==
    ASSUME NEW objects, NEW more, objects \subseteq more, NEW members, NEW hp
    PROVE  SaidBy(objects, members, hp) => SaidBy(more, members, hp)
BY DEF SaidBy

(* Nothing is said by no object. *)
LEMMA SaidByNone == ASSUME NEW hp PROVE SaidBy({}, {}, hp)
<1>1. {} \in SUBSET {} /\ UNION {Asks(o, hp) : o \in {}} = {}
  OBVIOUS
<1> QED BY <1>1 DEF SaidBy

(* What is wanted is said by the objects declared. *)
LEMMA WantedSaid ==
    ASSUME StoreIds, NEW hp \in HostPaths
    PROVE  SaidBy(Declared, Wanted[hp], hp)
<1>1. \A o, p \in Declared : Id(o.spec) = Id(p.spec) => o = p
  BY DEF Declared, StoreIds
<1>2. Wanted[hp] = UNION {Asks(o, hp) : o \in Declared}
  BY DEF Wanted
<1> QED BY <1>1, <1>2 DEF SaidBy

(* OneVersion, with what a request found. *)
LEMMA OneVersionSaid ==
    /\ OneVersion <=>
        (req.svcs # <<>> => SaidBy(past, {req.svcs[i] : i \in DOMAIN req.svcs}, req.found[1]))
    /\ OneVersion' <=>
        (req'.svcs # <<>> => SaidBy(past', {req'.svcs[i] : i \in DOMAIN req'.svcs}, req'.found[1]))
BY DEF OneVersion, SaidBy

(* Counting on a hostPath needs the ingress handler at rest or updating.   *)
LEMMA CalmHandler ==
    ASSUME CalmIsSteady, calm # {}
    PROVE  (Idle \/ event = "update") /\ (EpIdle \/ epEvent.name = "update")
BY DEF CalmIsSteady, Steady

(* Every step keeps what a request counts on up to date. *)
LEMMA CalmInductive ==
    ASSUME CalmIsSteady, [CNext]_allVars
    PROVE  /\ CalmIsSteady'
           /\ Overtaken => calm' \subseteq calm /\ (req.phase = "done" => calm' = {})
<1>1. CASE Overtaken
  BY <1>1 DEF Overtaken, CalmIsSteady
<1>2. CASE Receive
  <2>1. calm' = Served(req.url)'
    BY <1>2 DEF Receive
  <2>2. Served(req.url)' \subseteq Steady(req.url)'
    BY DEF Served
  <2> QED BY <1>1, <2>1, <2>2 DEF CalmIsSteady
<1>3. CASE CRestart
  BY <1>3 DEF CRestart, CalmIsSteady
<1>4. CASE UNCHANGED allVars
  <2>1. /\ Wanted' = Wanted /\ EpWanted' = EpWanted /\ Idle' = Idle /\ EpIdle' = EpIdle
        /\ event' = event /\ epEvent' = epEvent /\ req' = req /\ calm' = calm
    BY <1>4 DEF allVars, ingressVars, endpointVars, Wanted, Declared, Idle, EpIdle, EpWanted
  <2>2. Steady(req.url)' = Steady(req.url)
    BY <2>1 DEF Steady
  <2>3. ~Overtaken \/ (calm' \subseteq calm /\ (req.phase = "done" => calm' = {}))
    BY <1>1
  <2> QED BY <2>1, <2>2, <2>3 DEF CalmIsSteady
<1> QED BY <1>1, <1>2, <1>3, <1>4 DEF CNext

(* A step of the ingress handler shows what it should. *)
LEMMA ShownInductive ==
    ASSUME Orderly(Specs), Faithful, Faithful', Versioned, NothingLost,
           faults = 0, missed = 0, faults' = 0, missed' = 0,
           IngressStep, past' = past \cup Declared', Idle' \/ event' = "update", NEW hp \in HostPaths
    PROVE  SaidBy(past', Table'[hp], hp)
<1> USE DEF Faithful
<1>1. past \subseteq past' /\ Declared' \subseteq past'
  OBVIOUS
<1>2. SaidBy(past', Wanted'[hp], hp)
  <2>1. SaidBy(Declared', Wanted'[hp], hp)
    <3>1. \A o, p \in Declared' : Id(o.spec) = Id(p.spec) => o = p
      BY DEF Declared, StoreIds
    <3>2. Wanted'[hp] = UNION {Asks(o, hp) : o \in Declared'}
      BY DEF Wanted
    <3> QED BY <3>1, <3>2 DEF SaidBy
  <2> QED BY <1>1, <2>1, SaidByMore
<1>3. CASE IngressEvent
  <2>1. Idle /\ Table' = Table
    BY <1>3, EventType DEF Table
  <2>2. SaidBy(past, Table[hp], hp)
    BY <2>1 DEF Versioned
  <2> QED BY <1>1, <2>1, <2>2, SaidByMore
<1>4. CASE Exec
  <2>1. event' = event /\ Wanted' = Wanted
    BY <1>4 DEF Exec, Wanted, Declared
  <2>2. CASE event = "update"
    <3>1. Table'[hp] \in {Table[hp], Wanted[hp]}
      BY <1>4, <2>2, ExecCatches, Sums
    <3>2. SaidBy(past', Table[hp], hp)
      BY <1>1, <2>2, SaidByMore DEF Versioned
    <3> QED BY <1>2, <2>1, <3>1, <3>2
  <2>3. CASE event # "update"
    <3>1. todo' = <<>> /\ faults' + missed' = 0
      BY <2>1, <2>3 DEF Idle
    <3>2. Final(db1', todo', hp) = Wanted'[hp]
      BY <2>1, <2>3, <3>1 DEF Catching
    <3>3. Table'[hp] = Wanted'[hp]
      BY <3>1, <3>2, EmptyFinal DEF Table
    <3> QED BY <1>2, <3>3
  <2> QED BY <2>2, <2>3
<1> QED BY <1>3, <1>4 DEF IngressStep

(* What a request found stays what it was, and what it finds is shown. *)
LEMMA HookVersion ==
    ASSUME PlainRoutes, EpTypeOK, IsRequest, Versioned, NothingLost, Plugin!HookStep,
           calm # {}, past \subseteq past'
    PROVE  OneVersion'
<1>1. OneVersion /\ \A hp \in HostPaths : SaidBy(past, Table[hp], hp)
  BY CalmHandler DEF Versioned
<1>2. CASE UNCHANGED <<req.svcs, req.found>>
  <2>1. req.svcs # <<>> => SaidBy(past', {req.svcs[i] : i \in DOMAIN req.svcs}, req.found[1])
    BY <1>1, OneVersionSaid, SaidByMore
  <2> QED BY <1>2, <2>1, OneVersionSaid
<1>3. CASE Finds
  <2>1. IsRequest'
    BY HookFacts
  <2>2. DOMAIN req'.svcs = 1..Len(req'.svcs)
    BY <2>1 DEF IsRequest, Requests, Members
  <2>3. {req'.svcs[i] : i \in DOMAIN req'.svcs} = Table[Asked] /\ req'.found[1] = Asked
    BY <1>3, <2>2 DEF Finds
  <2>4. SaidBy(past', Table[Asked], Asked)
    BY <1>1, <1>3, SaidByMore DEF Finds
  <2> QED BY <2>3, <2>4, OneVersionSaid
<1> QED
  BY <1>2, <1>3, HookFacts DEF FindsNothing, RoutesMember, RunsMember, LoopEnds, Goes, Ends

(* Every step keeps it so. *)
LEMMA VersionedInductive ==
    ASSUME Orderly(Specs), PlainRoutes, EpTypeOK, IsRequest, Faithful, Faithful', Versioned,
           [CNext]_allVars, [Next]_ingressVars, [EpNext]_endpointVars
    PROVE  Versioned'
<1>1. CalmIsSteady' /\ (Overtaken => calm' \subseteq calm /\ (req.phase = "done" => calm' = {}))
  BY CalmInductive DEF Versioned
<1>2. Declared' \subseteq past'
  <2>1. CASE Overtaken
    BY <2>1 DEF Overtaken
  <2>2. CASE CRestart
    BY <2>2 DEF CRestart, Restart, Declared
  <2>3. CASE Receive \/ UNCHANGED allVars
    BY <2>3 DEF Receive, allVars, ingressVars, Declared, Versioned
  <2> QED BY <2>1, <2>2, <2>3 DEF CNext
<1> SUFFICES ASSUME NothingLost'
             PROVE  /\ Idle' \/ event' = "update" => \A hp \in HostPaths : SaidBy(past', Table'[hp], hp)
                    /\ calm' # {} => OneVersion'
  BY <1>1, <1>2 DEF Versioned
<1>3. NothingLost /\ faults = 0 /\ missed = 0 /\ faults' = 0 /\ missed' = 0
  BY NothingLostBefore
<1>4. ASSUME UNCHANGED ingressVars, past \subseteq past', Idle' \/ event' = "update", NEW hp \in HostPaths
      PROVE  SaidBy(past', Table'[hp], hp)
  <2>1. Table' = Table /\ (Idle \/ event = "update")
    BY <1>4 DEF ingressVars, Table, Idle
  <2>2. SaidBy(past, Table[hp], hp)
    BY <1>3, <2>1 DEF Versioned
  <2> QED BY <1>4, <2>1, <2>2, SaidByMore
<1>5. Empty(req') => OneVersion'
  BY DEF Empty, OneVersion
<1>6. ASSUME Overtaken, Waits, calm' # {}
      PROVE  OneVersion'
  <2>1. req.phase # "done" /\ calm # {}
    BY <1>1, <1>6
  <2>2. req' = req /\ OneVersion /\ past \subseteq past'
    BY <1>3, <1>6, <2>1 DEF Waits, Versioned, Overtaken
  <2>3. req.svcs # <<>> => SaidBy(past', {req.svcs[i] : i \in DOMAIN req.svcs}, req.found[1])
    BY <2>2, OneVersionSaid, SaidByMore
  <2> QED BY <2>2, <2>3, OneVersionSaid
<1>7. CASE Overtaken /\ IngressStep /\ Waits
  <2>1. past' = past \cup Declared'
    BY <1>7 DEF Overtaken
  <2> QED BY <1>3, <1>6, <1>7, <2>1, ShownInductive
<1>8. CASE Overtaken /\ UNCHANGED ingressVars /\ Waits
  <2>1. past \subseteq past'
    BY <1>8 DEF Overtaken
  <2> QED BY <1>4, <1>6, <1>8, <2>1
<1>9. CASE Overtaken /\ Plugin!HookStep /\ UNCHANGED ingressVars
  <2>1. past \subseteq past'
    BY <1>9 DEF Overtaken
  <2>2. calm' # {} => OneVersion'
    BY <1>1, <1>3, <1>9, <2>1, HookVersion
  <2> QED BY <1>4, <1>9, <2>1, <2>2
<1>10. CASE Receive /\ Empty(req')
  <2>1. UNCHANGED ingressVars /\ past' = past
    BY <1>10 DEF Receive
  <2> QED BY <1>4, <1>5, <1>10, <2>1
<1>11. CASE CRestart /\ Empty(req')
  <2>1. \A hp \in HostPaths : Table'[hp] = {}
    BY <1>11, HostKeysApart DEF CRestart, Restart, FlushAll, Table, PlainRoutes, TypeOK
  <2>2. past' = {}
    BY <1>11 DEF CRestart
  <2> QED BY <1>5, <1>11, <2>1, <2>2, SaidByNone
<1>12. CASE UNCHANGED allVars
  <2>1. UNCHANGED ingressVars /\ past' = past /\ req' = req /\ calm' = calm
    BY <1>12 DEF allVars
  <2>2. calm' # {} => OneVersion'
    BY <1>3, <2>1, OneVersionSaid DEF Versioned
  <2> QED BY <1>4, <2>1, <2>2
<1> QED BY <1>7, <1>8, <1>9, <1>10, <1>11, <1>12, RequestStep

(* Always. *)
LEMMA VersionedAlways ==
    ASSUME Orderly(Specs)
    PROVE  CSpec => []Versioned
<1>1. CInit => Versioned
  <2> SUFFICES ASSUME CInit PROVE Versioned
    OBVIOUS
  <2>1. Declared = {} /\ calm = {} /\ past = {}
    BY DEF CInit, Init, Declared
  <2>2. \A hp \in HostPaths : Table[hp] = {}
    BY HostKeysApart DEF CInit, Init, Table
  <2> QED BY <2>1, <2>2, SaidByNone DEF Versioned, CalmIsSteady
<1>2. PlainRoutes /\ EpTypeOK /\ IsRequest /\ Faithful /\ Faithful' /\ Versioned
        /\ [CNext]_allVars /\ [Next]_ingressVars /\ [EpNext]_endpointVars => Versioned'
  BY VersionedInductive
<1> QED
  BY <1>1, <1>2, FaithfulAlways, BothHandlers, RequestsAlways, PTL DEF CSpec, Spec, EpSpec

(* As long as nothing is lost, what a request that can count on a hostPath *)
(* finds is what some of the ingresses, each in one version, say of that   *)
(* hostPath, however many updates overtake it: the one SUNIONSTORE that    *)
(* ends an update (handlerIngress.go:329-332) never shows it the services  *)
(* of one version with the script of another.  For all ingresses that keep *)
(* to what the handler takes for granted.                                  *)
THEOREM VersionsStayWhole ==
    ASSUME Orderly(Specs)
    PROVE  CSpec => []SeesOneVersion
<1>1. Versioned => SeesOneVersion
  BY DEF Versioned, SeesOneVersion
<1> QED BY <1>1, VersionedAlways, PTL

-----------------------------------------------------------------------------
(* An update loses no request. *)

(* The inductive invariant: a hostPath the request counts on has a service *)
(* and every service an endpoint, so a hostPath it has not passed holds    *)
(* one, and it goes on until it has an endpoint.                           *)
Counted ==
    NothingLost /\ calm # {} =>
        /\ \A hp \in calm : Table[hp] \cap Services # {}
        /\ \A k \in SvcKeys : EpTable[k] # {}
        /\ req.phase \in {"ping", "lookup"} =>
                \A hp \in calm : \E j \in req.at..Len(Plugin!LookupOrder(req.url)) :
                    Plugin!LookupOrder(req.url)[j] = hp
        /\ req.phase = "route" =>
                req.target # NoTarget \/ \E i \in req.at..Len(req.svcs) : req.svcs[i] \in Services
        /\ req.phase = "script" => req.target # NoTarget
        /\ req.phase = "done" => req.outcome \in {"completed", "script failed"} /\ req.target # NoTarget

(* An element of a concatenation is one of either part. *)
LEMMA ConcatPart ==
    ASSUME NEW S, NEW a \in Seq(S), NEW b \in Seq(S), NEW i \in 1..Len(a \o b)
    PROVE  \/ i \in 1..Len(a) /\ (a \o b)[i] = a[i]
           \/ i - Len(a) \in 1..Len(b) /\ (a \o b)[i] = b[i - Len(a)]
BY ConcatFacts

(* A route of a spec is one of its backend or of its rules. *)
LEMMA RouteKinds ==
    ASSUME NEW s \in Specs, NEW i \in 1..Len(Routes(s))
    PROVE  \/ s.backend # NoBackend /\ \E j \in 1..2 : Routes(s)[i] = DefaultRoutes(s)[j]
           \/ \E j \in 1..Len(s.rules) : Routes(s)[i] = RuleRoutes(s)[j]
<1>1. Len(s.rules) \in Nat
  BY SpecsAssumption
<1> DEFINE R == {RuleRoutes(s)[j] : j \in 1..Len(s.rules)}
           D == {DefaultRoutes(s)[j] : j \in 1..2}
<1>2. RuleRoutes(s) \in Seq(R) /\ Len(RuleRoutes(s)) = Len(s.rules)
  <2>1. RuleRoutes(s) \in [1..Len(s.rules) -> R]
    BY DEF RuleRoutes
  <2> QED BY <1>1, <2>1, IsSequence
<1>3. /\ s.backend = NoBackend => DefaultRoutes(s) = <<>>
      /\ s.backend # NoBackend => DefaultRoutes(s) \in Seq(D) /\ Len(DefaultRoutes(s)) = 2
  <2>1. CASE s.backend # NoBackend
    <3>1. DefaultRoutes(s) \in [1..2 -> D]
      BY <2>1 DEF DefaultRoutes
    <3> QED BY <2>1, <3>1, IsSequence
  <2> QED BY <2>1 DEF DefaultRoutes
<1>4. CASE s.backend = NoBackend
  <2>1. Routes(s) = RuleRoutes(s)
    BY <1>2, <1>3, <1>4 DEF Routes
  <2> QED BY <1>2, <2>1
<1>5. CASE s.backend # NoBackend
  <2>1. DefaultRoutes(s) \in Seq(R \cup D) /\ RuleRoutes(s) \in Seq(R \cup D)
    BY <1>2, <1>3, <1>5
  <2> DEFINE a == DefaultRoutes(s)
             b == RuleRoutes(s)
             U == R \cup D
  <2>2. i \in 1..Len(a \o b) /\ Routes(s)[i] = (a \o b)[i]
    BY DEF Routes
  <2>3. Len(a) = 2 /\ Len(b) = Len(s.rules) /\ a \in Seq(U) /\ b \in Seq(U)
    BY <1>2, <1>3, <1>5, <2>1
  <2> HIDE DEF a, b, U
  <2>4. \/ i \in 1..Len(a) /\ (a \o b)[i] = a[i]
        \/ i - Len(a) \in 1..Len(b) /\ (a \o b)[i] = b[i - Len(a)]
    BY <2>2, <2>3, ConcatPart
  <2> QED BY <1>5, <2>2, <2>3, <2>4 DEF a, b
<1> QED BY <1>4, <1>5

(* RequestPlugin's assumption holds of the requests of this module. *)
LEMMA HookRequests == Hook!RequestsAssumption
BY UrlsAssumption DEF Hook!RequestsAssumption

(* "/" is a path. *)
LEMMA RootIsPath == Root # <<>> /\ \E T : Root \in Seq(T)
<1>1. Hook!Root = Root
  BY DEF Hook!Root, Root
<1>2. <<Hook!Nothing>> \in Seq({Hook!Nothing}) /\ <<Hook!Nothing>> # <<>>
  OBVIOUS
<1> QED BY <1>1, <1>2, HookRequests, Hook!RootIs

(* The parts of a hostPath: a path is never the empty string. *)
LEMMA HostPathParts ==
    ASSUME NEW hp \in HostPaths
    PROVE  /\ \E T : hp.path \in Seq(T)
           /\ hp.path # <<>> /\ hp.kind \in {"E+", "P+"}
           /\ hp = [kind |-> hp.kind, scheme |-> hp.scheme, host |-> hp.host, path |-> hp.path]
<1>1. ASSUME NEW scheme, NEW host, NEW type, NEW path, NEW S, path \in Seq(S),
             hp = HostPath(scheme, host, path, type)
      PROVE  /\ \E T : hp.path \in Seq(T)
             /\ hp.path # <<>> /\ hp.kind \in {"E+", "P+"}
             /\ hp = [kind |-> hp.kind, scheme |-> hp.scheme, host |-> hp.host, path |-> hp.path]
  <2>1. Root # <<>> /\ \E T : Root \in Seq(T)
    BY RootIsPath
  <2>2. hp.path = IF path = <<>> THEN Root ELSE path
    BY <1>1 DEF HostPath
  <2>3. \E T : hp.path \in Seq(T)
    BY <1>1, <2>1, <2>2
  <2> QED BY <1>1, <2>1, <2>2, <2>3 DEF HostPath
<1>2. PICK s \in Specs : hp \in HostPathsOf(s)
  BY DEF HostPaths
<1>3. PICK i \in 1..Len(Routes(s)) : hp = Routes(s)[i].hp
  BY <1>2, RoutesType DEF HostPathsOf
<1>4. CASE \E j \in 1..2 : s.backend # NoBackend /\ Routes(s)[i] = DefaultRoutes(s)[j]
  <2>1. PICK j \in 1..2 : s.backend # NoBackend /\ Routes(s)[i] = DefaultRoutes(s)[j]
    BY <1>4
  <2>2. hp = HostPath(<<"http", "https">>[j], AnyHost, Root, "Prefix")
    BY <1>3, <2>1 DEF DefaultRoutes
  <2> QED BY <1>1, <2>2, RootIsPath
<1>5. CASE \E j \in 1..Len(s.rules) : Routes(s)[i] = RuleRoutes(s)[j]
  <2>1. PICK j \in 1..Len(s.rules) : Routes(s)[i] = RuleRoutes(s)[j]
    BY <1>5
  <2> DEFINE r == s.rules[j]
             scheme == IF RuleHost(r) \in s.tls THEN "https" ELSE "http"
  <2>2. hp = HostPath(scheme, RuleHost(r), r.path, r.type)
    BY <1>3, <2>1 DEF RuleRoutes
  <2>3. r.path \in Seq({r.path[x] : x \in DOMAIN r.path})
    BY PathsAssumption
  <2> HIDE DEF scheme, r
  <2> QED BY <1>1, <2>2, <2>3
<1> QED BY <1>4, <1>5, RouteKinds

(* A request asks, sooner or later, for a hostPath it can count on. *)
LEMMA SteadyIsAsked ==
    ASSUME NEW url \in Urls, NEW hp \in Plugin!Matching(HostPaths, url)
    PROVE  \E j \in 1..Len(Plugin!LookupOrder(url)) : Plugin!LookupOrder(url)[j] = hp
<1>1. Hook!LookupOrder(url) = Plugin!LookupOrder(url)
  BY DEF Hook!LookupOrder, Hook!Unroll, Hook!HostPath, Hook!PathPrefixes, Hook!WildcardHosts,
         Hook!AnyHost, Hook!Root, Plugin!LookupOrder, Plugin!Unroll, Plugin!HostPath,
         Plugin!PathPrefixes, Plugin!WildcardHosts, Plugin!AnyHost, Plugin!Root
<1>2. Hook!Matching(HostPaths, url) = Plugin!Matching(HostPaths, url)
  BY DEF Hook!Matching, Hook!HostRank, Hook!PathMatches, Hook!IsPrefix, Hook!Last, Hook!Front,
         Hook!AnyHost, Plugin!Matching, Plugin!HostRank, Plugin!PathMatches, Plugin!IsPrefix,
         Plugin!Last, Plugin!Front, Plugin!AnyHost
<1>3. hp \in HostPaths
  BY DEF Plugin!Matching
<1>4. PICK T : Hook!HasParts(hp, T)
  BY <1>3, HostPathParts DEF Hook!HasParts
<1>5. /\ url.host \in Seq({url.host[i] : i \in DOMAIN url.host})
      /\ url.path \in Seq({url.path[i] : i \in DOMAIN url.path})
  BY UrlsAssumption
<1> DEFINE S == {url.host[i] : i \in DOMAIN url.host} \cup {url.path[i] : i \in DOMAIN url.path}
<1>6. url.host \in Seq(S) /\ url.path \in Seq(S)
  BY <1>5
<1> HIDE DEF S
<1>7. hp \in Hook!Matching(HostPaths, url)
  BY <1>2
<1>8. \E j \in 1..Len(Hook!LookupOrder(url)) : Hook!LookupOrder(url)[j] = hp
  <2>1. Hook!AllAsked(HostPaths)
    BY HookRequests, Hook!MatchesAreAsked
  <2> QED BY <1>4, <1>6, <1>7, <2>1 DEF Hook!AllAsked
<1> QED BY <1>1, <1>8

(* What a route that is not empty holds, while updates are all there is,   *)
(* has a service among it: a script never stands alone.                    *)
LEMMA SaidHasService ==
    ASSUME NEW objects, NEW members, NEW hp, SaidBy(objects, members, hp),
           members # {}, members \subseteq RouteMembers
    PROVE  members \cap Services # {}
<1>1. PICK versions \in SUBSET objects : UNION {Asks(o, hp) : o \in versions} = members
  BY DEF SaidBy
<1>2. PICK o \in versions : Asks(o, hp) # {}
  BY <1>1
<1> DEFINE there == {r \in {Routes(o.spec)[i] : i \in DOMAIN Routes(o.spec)} : r.hp = hp}
<1>3. Asks(o, hp) = {<<"svc", r.svc>> : r \in there}
                        \cup (IF there # {} /\ HasSnippet(o) THEN {ScriptKey(o)} ELSE {})
  BY DEF Asks
<1> HIDE DEF there
<1>4. there # {}
  BY <1>2, <1>3
<1>5. PICK r \in there : <<"svc", r.svc>> \in Asks(o, hp)
  BY <1>3, <1>4
<1>6. <<"svc", r.svc>> \in RouteMembers
  BY <1>1, <1>5
<1>7. <<"svc", r.svc>> \notin ScriptKeys
  <2>1. \A k \in ScriptKeys : k[1] = "$"
    BY DEF ScriptKeys, ScriptKey
  <2>2. <<"svc", r.svc>>[1] = "svc"
    OBVIOUS
  <2> QED BY <2>1, <2>2
<1> QED BY <1>1, <1>5, <1>6, <1>7 DEF RouteMembers

(* What a request counts on is served and wanted. *)
LEMMA CalmFacts ==
    ASSUME CalmIsSteady
    PROVE  /\ calm \subseteq Plugin!Matching(HostPaths, req.url) /\ calm \subseteq HostPaths
           /\ \A hp \in calm : Wanted[hp] \cap Services # {}
           /\ calm # {} => \A k \in SvcKeys : EpWanted[k] # {}
<1>1. Plugin!Matching(HostPaths, req.url) \subseteq HostPaths
  BY DEF Plugin!Matching
<1> QED BY <1>1 DEF CalmIsSteady, Steady

(* The same after a step. *)
LEMMA CalmFactsAfter ==
    ASSUME CalmIsSteady'
    PROVE  /\ calm' \subseteq Plugin!Matching(HostPaths, req'.url) /\ calm' \subseteq HostPaths
           /\ \A hp \in calm' : Wanted'[hp] \cap Services # {}
           /\ calm' # {} => \A k \in SvcKeys : EpWanted'[k] # {}
<1>1. Plugin!Matching(HostPaths, req'.url) \subseteq HostPaths
  BY DEF Plugin!Matching
<1>2. calm' \subseteq Steady(req.url)'
  BY DEF CalmIsSteady
<1>3. /\ Steady(req.url)' \subseteq Plugin!Matching(HostPaths, req'.url)
      /\ \A hp \in Steady(req.url)' : /\ Wanted'[hp] \cap Services # {}
                                       /\ \A k \in SvcKeys : EpWanted'[k] # {}
  BY DEF Steady
<1> QED BY <1>1, <1>2, <1>3

(* An update keeps a service under every hostPath a request counts on. *)
LEMMA ServiceStays ==
    ASSUME Faithful, CalmIsSteady, CalmIsSteady', IngressStep, calm' \subseteq calm,
           faults + missed = 0, NEW hp \in calm', Table[hp] \cap Services # {}
    PROVE  Table'[hp] \cap Services # {}
<1>1. hp \in HostPaths /\ Wanted'[hp] \cap Services # {}
  BY CalmFactsAfter
<1>2. CASE IngressEvent
  <2>1. Table' = Table
    BY <1>2, EventType DEF Table, Faithful
  <2> QED BY <2>1
<1>3. CASE Exec
  <2>1. event = "update"
    BY <1>3, CalmHandler DEF Exec
  <2>2. Table'[hp] \in {Table[hp], Wanted[hp]}
    BY <1>1, <1>3, <2>1, ExecCatches DEF Faithful
  <2>3. Wanted' = Wanted
    BY <1>3 DEF Exec, Wanted, Declared
  <2> QED BY <1>1, <2>2, <2>3
<1> QED BY <1>2, <1>3 DEF IngressStep

(* An update keeps an endpoint under every service. *)
LEMMA EndpointStays ==
    ASSUME EpOrderly(Endpoints), EpFaithful, EndpointStep, CalmIsSteady', calm' # {},
           epFaults' = 0, epFaults = 0, epMissed = 0, \A k \in SvcKeys : EpTable[k] # {}, NEW k \in SvcKeys
    PROVE  EpTable'[k] # {}
<1>1. EpWanted'[k] # {}
  BY CalmFactsAfter
<1>2. EpTable[k] = db0[k] /\ EpTable'[k] = db0'[k]
  BY DEF EpTable
<1>3. CASE EpExec
  <2>1. epFaults + epMissed = 0
    OBVIOUS
  <2>2. /\ EpKeyNow \in SvcKeys
        /\ k # EpKeyNow => db0'[k] = db0[k]
        /\ \/ db0'[EpKeyNow] = db0[EpKeyNow]
           \/ db0'[EpKeyNow] = EpWanted[EpKeyNow]
           \/ \E m \in EpWanted[EpKeyNow] : db0'[EpKeyNow] = db0[EpKeyNow] \cup {m}
    BY <1>3, <2>1, FollowsExec DEF EpFaithful
  <2>3. EpWanted' = EpWanted
    BY <1>3 DEF EpExec, EpWanted
  <2>4. db0[k] # {}
    BY <1>2
  <2> QED BY <1>1, <1>2, <2>2, <2>3, <2>4
<1>4. CASE EndpointEvent \/ NextPort
  <2>1. db0' = db0
    BY <1>4 DEF EndpointEvent, AddEndpoints, UpdateEndpoints, DeleteEndpoints, DeleteEndpointsMissed,
                EpDeliver, NextPort
  <2> QED BY <1>2, <2>1
<1>5. CASE EpFail
  BY <1>5 DEF EpFail
<1> QED BY <1>3, <1>4, <1>5 DEF EndpointStep, EpStep

(* The hook goes on until it has an endpoint. *)
LEMMA HookCounts ==
    ASSUME Services \subseteq SvcKeys, ~RedisMayFail,
           PlainRoutes, EpTypeOK, IsRequest, Versioned, NothingLost, NothingLost', ScriptsAreFound',
           Counted, calm # {}, calm' \subseteq calm, req.phase # "done", Plugin!HookStep,
           UNCHANGED <<ingressVars, endpointVars>>
    PROVE  Counted'
<1>1. /\ \A hp \in calm : Table[hp] \cap Services # {}
      /\ \A k \in SvcKeys : EpTable[k] # {}
      /\ req.phase \in {"ping", "lookup"} =>
                \A hp \in calm : \E j \in req.at..Len(Plugin!LookupOrder(req.url)) :
                    Plugin!LookupOrder(req.url)[j] = hp
      /\ req.phase = "route" =>
                req.target # NoTarget \/ \E i \in req.at..Len(req.svcs) : req.svcs[i] \in Services
      /\ req.phase = "script" => req.target # NoTarget
  BY DEF Counted
<1>2. Table' = Table /\ EpTable' = EpTable /\ DOMAIN db0 = DB0Keys
  BY DEF ingressVars, endpointVars, Table, EpTable, EpTypeOK
<1>3. /\ \A hp \in calm' : Table'[hp] \cap Services # {}
      /\ \A k \in SvcKeys : EpTable'[k] # {}
  BY <1>1, <1>2
<1>4. req.at \in Nat \ {0} /\ Len(req.svcs) \in Nat /\ calm \subseteq HostPaths
  BY RequestFields, CalmFacts DEF Versioned
<1> DEFINE order == Plugin!LookupOrder(req.url)
           Awaits(r) == \A hp \in calm' : \E j \in r.at..Len(Plugin!LookupOrder(r.url)) :
                            Plugin!LookupOrder(r.url)[j] = hp
           HasOne(r) == r.target # NoTarget \/ \E i \in r.at..Len(r.svcs) : r.svcs[i] \in Services
<1>5. SUFFICES /\ req'.phase \in {"ping", "lookup"} => Awaits(req')
               /\ req'.phase = "route" => HasOne(req')
               /\ req'.phase = "script" => req'.target # NoTarget
               /\ req'.phase = "done" => req'.outcome \in {"completed", "script failed"} /\ req'.target # NoTarget
  BY <1>3 DEF Counted
<1>6. CASE req.phase = "ping"
  <2>1. Goes("lookup", req.at, req.target)
    BY <1>6, HookFacts DEF Finds, FindsNothing, RoutesMember, RunsMember, LoopEnds
  <2>2. req'.phase = "lookup" /\ req'.at = req.at /\ req'.url = req.url
    BY <2>1 DEF Goes
  <2>3. Awaits(req')
    BY <1>1, <1>6, <2>2
  <2> QED BY <2>2, <2>3
<1>7. CASE FindsNothing
  <2>1. PICK hp \in calm : TRUE
    OBVIOUS
  <2>2. \A h \in calm : h # Asked
    BY <1>1, <1>4, <1>7 DEF FindsNothing
  <2>3. req.phase = "lookup" /\ \A h \in calm : \E j \in req.at..Len(order) : order[j] = h
    BY <1>1, <1>7 DEF FindsNothing
  <2>4. \A h \in calm : \E j \in req.at..Len(order) : order[j] = h /\ j # req.at
    BY <2>2, <2>3 DEF Asked
  <2>5. req.at # Len(order)
    <3>1. PICK j \in req.at..Len(order) : j # req.at
      BY <2>1, <2>4
    <3> QED BY <1>4, <3>1
  <2>6. Goes("lookup", req.at + 1, req.target)
    BY <1>7, <2>5 DEF FindsNothing
  <2>7. req'.phase = "lookup" /\ req'.at = req.at + 1 /\ req'.url = req.url
    BY <2>6 DEF Goes
  <2>8. \A j \in req.at..Len(order) : j # req.at => j \in (req.at + 1)..Len(order)
    BY <1>4
  <2>9. \A h \in calm : \E j \in (req.at + 1)..Len(order) : order[j] = h
    BY <2>4, <2>8
  <2> QED BY <2>7, <2>9
<1>8. CASE Finds
  <2>1. /\ Asked \in HostPaths /\ Table[Asked] # {} /\ Table[Asked] \subseteq RouteMembers
        /\ req'.phase = "route" /\ req'.at = 1
        /\ {req'.svcs[i] : i \in 1..Len(req'.svcs)} = Table[Asked]
    BY <1>8, RouteFound DEF Finds
  <2>2. SaidBy(past, Table[Asked], Asked)
    BY <2>1, CalmHandler DEF Versioned
  <2>3. Table[Asked] \cap Services # {}
    BY <2>1, <2>2, SaidHasService
  <2>4. HasOne(req')
    BY <2>1, <2>3
  <2> QED BY <2>1, <2>4
<1>9. CASE RoutesMember
  <2>1. /\ req.phase = "route" /\ req.at \in 1..Len(req.svcs)
        /\ \/ Now \in ScriptKeys /\ Goes("route", req.at + 1, req.target)
           \/ Now \in Services /\ \E ipport \in Plugin!SMembers(db0, Now) : Goes("route", req.at + 1, ipport)
           \/ Now \in Services /\ Plugin!SMembers(db0, Now) = {}
    BY <1>9 DEF RoutesMember
  <2>2. HasOne(req)
    BY <1>1, <2>1
  <2>3. CASE Now \in ScriptKeys /\ Goes("route", req.at + 1, req.target)
    <3>1. Now \notin Services
      <4>1. \A k \in ScriptKeys : k[1] = "$"
        BY DEF ScriptKeys, ScriptKey
      <4>2. \A k \in Services : k[1] = "svc"
        BY DEF Services
      <4> QED BY <2>3, <4>1, <4>2
    <3>2. req'.phase = "route" /\ req'.at = req.at + 1 /\ req'.target = req.target /\ req'.svcs = req.svcs
      BY <2>3 DEF Goes
    <3>3. ASSUME NEW i \in req.at..Len(req.svcs), req.svcs[i] \in Services
          PROVE  i \in (req.at + 1)..Len(req.svcs)
      BY <1>4, <3>1, <3>3 DEF Now
    <3>4. HasOne(req')
      BY <2>2, <3>2, <3>3
    <3> QED BY <3>2, <3>4
  <2>4. ASSUME NEW ipport \in Plugin!SMembers(db0, Now), Goes("route", req.at + 1, ipport)
        PROVE  req'.phase = "route" /\ HasOne(req')
    <3>1. ipport \in IPPorts
      BY DEF Plugin!SMembers, EpTypeOK
    <3>2. ipport # NoTarget
      BY <3>1, NoTargetAssumption
    <3> QED BY <2>4, <3>2 DEF Goes
  <2>5. Now \in Services => Plugin!SMembers(db0, Now) # {}
    <3>1. \A k \in SvcKeys : k \in DOMAIN db0 /\ EpTable[k] = db0[k]
      BY <1>2 DEF DB0Keys, EpTable
    <3> QED BY <1>1, <3>1 DEF Plugin!SMembers
  <2> QED BY <2>1, <2>3, <2>4, <2>5
<1>10. CASE RunsMember
  <2>1. /\ req.phase = "script"
        /\ Goes("script", req.at + 1, req.target) \/ Ends("no script") \/ Ends("script failed")
    BY <1>10 DEF RunsMember
  <2>2. ~Ends("no script")
    BY DEF Ends, ScriptsAreFound
  <2> QED BY <1>1, <2>1, <2>2 DEF Goes, Ends
<1>11. CASE LoopEnds
  <2>1. /\ req.phase \in {"route", "script"} /\ req.at > Len(req.svcs)
        /\ (req.phase = "route" /\ Goes("script", 1, req.target)) \/ Ends("completed")
    BY <1>11 DEF LoopEnds
  <2>2. req.target # NoTarget
    <3>1. ~\E i \in req.at..Len(req.svcs) : req.svcs[i] \in Services
      BY <1>4, <2>1
    <3> QED BY <1>1, <2>1, <3>1
  <2> QED BY <2>1, <2>2 DEF Goes, Ends
<1> QED BY <1>6, <1>7, <1>8, <1>9, <1>10, <1>11, HookFacts

(* A request that counts on nothing loses nothing. *)
LEMMA CountsOnNothing == calm' = {} => Counted'
BY DEF Counted

(* Every step keeps it so. *)
LEMMA CountedInductive ==
    ASSUME Orderly(Specs), EpOrderly(Endpoints), Services \subseteq SvcKeys, ~RedisMayFail,
           PlainRoutes, EpTypeOK, IsRequest, Faithful, EpFaithful, Versioned, Versioned',
           ScriptsAreFound', Counted, [CNext]_allVars, [Next]_ingressVars, [EpNext]_endpointVars
    PROVE  Counted'
<1> SUFFICES ASSUME NothingLost', calm' # {} PROVE Counted'
  BY DEF Counted
<1>1. NothingLost /\ faults + missed = 0 /\ epFaults = 0 /\ epMissed = 0 /\ epFaults' = 0
  BY NothingLostBefore DEF NothingLost
<1>2. CalmIsSteady /\ CalmIsSteady'
  BY DEF Versioned
<1>3. Overtaken => calm' \subseteq calm /\ calm # {} /\ req.phase # "done"
  BY <1>2, CalmInductive
<1>4. ASSUME Waits, Overtaken, \A hp \in calm' : Table'[hp] \cap Services # {},
             \A k \in SvcKeys : EpTable'[k] # {}
      PROVE  Counted'
  <2>1. req' = req
    BY <1>3, <1>4 DEF Waits
  <2> QED BY <1>1, <1>3, <1>4, <2>1 DEF Counted
<1>5. Overtaken => /\ \A hp \in calm' : Table[hp] \cap Services # {}
                   /\ \A k \in SvcKeys : EpTable[k] # {}
  BY <1>1, <1>3 DEF Counted
<1>6. CASE Overtaken /\ IngressStep /\ UNCHANGED endpointVars /\ Waits
  <2>1. EpTable' = EpTable
    BY <1>6 DEF endpointVars, EpTable
  <2>2. \A hp \in calm' : Table'[hp] \cap Services # {}
    BY <1>1, <1>2, <1>3, <1>5, <1>6, ServiceStays
  <2> QED BY <1>4, <1>5, <1>6, <2>1, <2>2
<1>7. CASE Overtaken /\ EndpointStep /\ UNCHANGED ingressVars /\ Waits
  <2>1. Table' = Table
    BY <1>7 DEF ingressVars, Table
  <2>2. \A k \in SvcKeys : EpTable'[k] # {}
    BY <1>1, <1>2, <1>5, <1>7, EndpointStays
  <2> QED BY <1>4, <1>5, <1>7, <2>1, <2>2
<1>8. CASE Overtaken /\ Plugin!HookStep /\ req.phase # "done" /\ UNCHANGED <<ingressVars, endpointVars>>
  BY <1>1, <1>3, <1>8, HookCounts
<1>9. CASE Receive /\ req'.phase = "ping" /\ Empty(req')
  <2>1. calm' = Served(req.url)'
    BY <1>9 DEF Receive
  <2>2. /\ \A hp \in calm' : Table'[hp] \cap Services # {}
        /\ \A k \in SvcKeys : EpTable'[k] # {}
    BY <2>1 DEF Served
  <2>3. req'.url \in Urls
    BY RequestStep DEF IsRequest, Requests
  <2>4. req'.at = 1
    BY <1>9 DEF Empty
  <2>5. \A hp \in calm' : \E j \in 1..Len(Plugin!LookupOrder(req'.url)) : Plugin!LookupOrder(req'.url)[j] = hp
    BY <1>2, <2>3, CalmFactsAfter, SteadyIsAsked
  <2> QED BY <1>9, <2>2, <2>4, <2>5 DEF Counted
<1>10. CASE CRestart
  BY <1>10 DEF CRestart
<1>11. CASE UNCHANGED allVars
  <2>1. req' = req /\ calm' = calm /\ Table' = Table /\ EpTable' = EpTable
    BY <1>11 DEF allVars, ingressVars, endpointVars, Table, EpTable
  <2> QED BY <1>1, <2>1 DEF Counted
<1> QED BY <1>6, <1>7, <1>8, <1>9, <1>10, <1>11, RequestStep

(* An update loses no request: one that could count on a hostPath from its *)
(* first call to its last is sent to an endpoint, however the callbacks of *)
(* both handlers and its own calls follow each other.  For all ingresses   *)
(* and endpoints that keep to what the handlers take for granted, and name *)
(* no service without an Endpoints object (handlerIngress.go:230-333,      *)
(* handlerEndpoint.go:66-104, connect_redis.lua:144-259).                  *)
THEOREM UpdatesKeepServing ==
    ASSUME Orderly(Specs), EpOrderly(Endpoints), Services \subseteq SvcKeys, ~RedisMayFail
    PROVE  CSpec => []UpdatesLoseNoRequest
<1>1. CInit => Counted
  BY DEF CInit, Counted
<1>2. PlainRoutes /\ EpTypeOK /\ IsRequest /\ Faithful /\ EpFaithful /\ Versioned /\ Versioned'
        /\ ScriptsAreFound' /\ Counted
        /\ [CNext]_allVars /\ [Next]_ingressVars /\ [EpNext]_endpointVars => Counted'
  BY CountedInductive
<1>3. Counted => UpdatesLoseNoRequest
  BY DEF Counted, UpdatesLoseNoRequest
<1>4. EpSpec => []EpFaithful
  BY FaithfulInductive, PTL DEF EpSpec
<1> QED
  BY <1>1, <1>2, <1>3, <1>4, FaithfulAlways, VersionedAlways, ScriptsStayFound, BothHandlers,
     RequestsAlways, PTL DEF CSpec, Spec, EpSpec
=============================================================================
