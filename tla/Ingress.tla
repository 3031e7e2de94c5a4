------------------------------ MODULE Ingress ------------------------------
(***************************************************************************)
(* What the ingress handler asks of Redis for one event                    *)
(* (watcher/handlerIngress.go).  The handler never reads DB One: add,      *)
(* update and delete each issue a sequence of commands that the objects of *)
(* the event determine, here the sequences AddProgram, UpdateProgram and   *)
(* DeleteProgram.                                                          *)
(*                                                                         *)
(* An object is [spec, version].  spec holds the fields the handler reads: *)
(* ns, name, class, snippet (or NoSnippet), backend (or NoBackend), tls    *)
(* (the set of TLS hosts) and rules, the sequence of all paths of all      *)
(* rules, each [host, path, type, service, port].  A spec is broken when a *)
(* rule has no http block or a backend is not a service; its backend and   *)
(* rules are then those before the broken one.                             *)
(*                                                                         *)
(* DB One is keyed by <<"route", hostPath>> (the hostPath string itself),  *)
(* <<"temp_", hostPath>> and <<"$", nameversion>>; a route's members are   *)
(* <<"svc", svcport>> and the "$" keys, a "$" key's members the scripts.   *)
(***************************************************************************)
EXTENDS Redis, Filter, Keys

CONSTANTS NoSnippet, NoBackend

Included(o) ==
    IncludeNamespace(o.spec.ns) /\ IncludeIngressClass(o.spec.class)

(* The callback dereferences nil where the object is broken. *)
Panics(o) == Included(o) /\ o.spec.broken

HasSnippet(o) == o.spec.snippet # NoSnippet

ScriptKey(o) == <<"$", NameVersion(o.spec.ns, o.spec.name, o.version)>>

RouteKey(hp) == <<"route", hp>>
TempKey(hp)  == <<"temp_", hp>>

-----------------------------------------------------------------------------
(* The routes of a spec: pairs of a hostPath and a svcport, in the order   *)
(* the handlers visit them.                                                *)

(* The default backend answers any host, on both schemes. *)
DefaultRoutes(s) ==
    IF s.backend = NoBackend THEN <<>>
    ELSE [i \in 1..2 |->
            [hp  |-> HostPath(<<"http", "https">>[i], AnyHost, Root, "Prefix"),
             svc |-> SvcPort(s.ns, s.backend.service, s.backend.port)]]

RuleHost(r) == IF r.host = <<>> THEN AnyHost ELSE r.host

(* A host listed under tls is served on https and on nothing else. *)
RuleRoutes(s) ==
    [i \in 1..Len(s.rules) |->
        LET r      == s.rules[i]
            scheme == IF RuleHost(r) \in s.tls THEN "https" ELSE "http"
        IN  [hp  |-> HostPath(scheme, RuleHost(r), r.path, r.type),
             svc |-> SvcPort(s.ns, r.service, r.port)]]

Routes(s) == DefaultRoutes(s) \o RuleRoutes(s)

HostPathsOf(s) == {Routes(s)[i].hp : i \in DOMAIN Routes(s)}

-----------------------------------------------------------------------------
(* What a route of o contributes to its hostPath, in the order written. *)
Entries(o, r) ==
    IF HasSnippet(o) THEN <<<<"svc", r.svc>>, ScriptKey(o)>>
                     ELSE <<<<"svc", r.svc>>>>

Width(o) == IF HasSnippet(o) THEN 2 ELSE 1

Script(o) ==
    IF HasSnippet(o) THEN <<SADD(ScriptKey(o), <<"lua", o.spec.snippet>>)>>
                     ELSE <<>>

(* The loop that adds each route under the key tag \o hostPath ... *)
Adds(o, tag) ==
    Unroll([i \in DOMAIN Routes(o.spec) |->
                LET r == Routes(o.spec)[i] IN
                [j \in 1..Width(o) |-> SADD(<<tag, r.hp>>, Entries(o, r)[j])]],
           Width(o))

(* Wrong: deleting takes the whole hostPath away. *)
DeletesHostPaths(o) ==
    [i \in DOMAIN Routes(o.spec) |-> DEL(RouteKey(Routes(o.spec)[i].hp))]

(* ... the one that removes each from it ... *)
Removes(o) ==
    Unroll([i \in DOMAIN Routes(o.spec) |->
                LET r == Routes(o.spec)[i] IN
                [j \in 1..Width(o) |-> SREM(RouteKey(r.hp), Entries(o, r)[j])]],
           Width(o))

(* Wrong: the copy starts from nothing. *)
CopiesNothing(o) ==
    [i \in DOMAIN Routes(o.spec) |-> DEL(TempKey(Routes(o.spec)[i].hp))]

(* Wrong: the copy keeps the name of the old script. *)
CopiesWithScript(o) ==
    Unroll([i \in DOMAIN Routes(o.spec) |->
                LET r == Routes(o.spec)[i] IN
                <<SUNIONSTORE(TempKey(r.hp), RouteKey(r.hp)), SREM(TempKey(r.hp), <<"svc", r.svc>>)>>],
           2)

(* ... and the one that first copies the hostPath aside and removes each   *)
(* from the copy.                                                          *)
CopiesWithout(o) ==
    Unroll([i \in DOMAIN Routes(o.spec) |->
                LET r == Routes(o.spec)[i] IN
                [j \in 1..(1 + Width(o)) |->
                    IF j = 1 THEN SUNIONSTORE(TempKey(r.hp), RouteKey(r.hp))
                    ELSE SREM(TempKey(r.hp), Entries(o, r)[j - 1])]],
           1 + Width(o))

(* The hostPaths update leaves in its map m. *)
Touched(old, new) ==
    (IF Included(old) THEN HostPathsOf(old.spec) ELSE {})
        \cup (IF Included(new) THEN HostPathsOf(new.spec) ELSE {})

(* Wrong: the copies stay. *)
SwapKeepsCopies(order) ==
    [i \in DOMAIN order |-> SUNIONSTORE(RouteKey(order[i]), TempKey(order[i]))]

(* Wrong: the copies are dropped and not put in place. *)
SwapDropsCopies(order) == [i \in DOMAIN order |-> DEL(TempKey(order[i]))]

(* Wrong: the hostPath is cleared before it is written. *)
SwapClearsFirst(order) ==
    Unroll([i \in DOMAIN order |-> <<DEL(RouteKey(order[i])),
                                     SUNIONSTORE(RouteKey(order[i]), TempKey(order[i])),
                                     DEL(TempKey(order[i]))>>],
           3)

(* Wrong: the last loop spells the prefix of the copies another way. *)
SwapOtherPrefix(order) ==
    Unroll([i \in DOMAIN order |-> <<SUNIONSTORE(RouteKey(order[i]), <<"tmp_", order[i]>>),
                                     DEL(<<"tmp_", order[i]>>)>>],
           2)

(* The last loop of update, over m in an order the Go runtime picks. *)
Swap(order) ==
    Unroll([i \in DOMAIN order |-> <<SUNIONSTORE(RouteKey(order[i]), TempKey(order[i])),
                                     DEL(TempKey(order[i]))>>],
           2)

-----------------------------------------------------------------------------
(* Wrong: the routes first. *)
AddsRoutesFirst(o) ==
    IF Included(o) THEN Adds(o, "route") \o Script(o) ELSE <<>>

AddProgram(o) ==
    IF Included(o) THEN Script(o) \o Adds(o, "route") ELSE <<>>

(* A broken new object ends update before the last loop. *)
UpdateProgram(old, new, order) ==
    (IF Included(old) THEN CopiesWithout(old) ELSE <<>>)
        \o (IF Included(new) THEN Script(new) \o Adds(new, "temp_") ELSE <<>>)
        \o (IF Panics(new) THEN <<>> ELSE Swap(order))

(* Wrong: the script goes with the ingress. *)
DeletesScriptToo(o) ==
    IF Included(o)
    THEN Removes(o) \o (IF HasSnippet(o) THEN <<DEL(ScriptKey(o))>> ELSE <<>>)
    ELSE <<>>

DeleteProgram(o) == IF Included(o) THEN Removes(o) ELSE <<>>
=============================================================================
