---------------------------- MODULE RequestPlugin ----------------------------
(***************************************************************************)
(* The Lua hook that routes a request (pluginats/connect_redis.lua,        *)
(* do_global_read_request), one blocking Redis call per step.  Hooks only  *)
(* read the databases, so requests do not affect one another and one at a  *)
(* time is enough.                                                         *)
(***************************************************************************)
EXTENDS PathLookup, SequencesExt

CONSTANTS
    Urls,            \* requests: [scheme, host, path]
    NoTarget,        \* the request has not been given an endpoint
    SnippetEnabled,  \* the SNIPPET environment variable
    RedisMayFail,    \* whether the ping before the lookup may go unanswered
    ScriptsMayFail   \* whether a script may not load, or end in an error

VARIABLES
    db0,   \* service ports to endpoints
    db1,   \* hostPaths to service ports and scripts
    req    \* the request

requestVars == <<db0, db1, req>>

(* Hosts and paths are sequences, and a path begins with a "/". *)
ASSUME RequestsAssumption ==
    \A url \in Urls : /\ url.host \in Seq({url.host[i] : i \in DOMAIN url.host})
                      /\ url.path \in Seq({url.path[i] : i \in DOMAIN url.path})
                      /\ url.path # <<>>

(* SMEMBERS of a key, empty when the key is absent. *)
SMembers(db, key) == IF key \in DOMAIN db THEN db[key] ELSE {}

IsScript(member) == member[1] = "$"

(* phase: the part the hook is in,  "done" once it has returned;            *)
(* at: its index there;  found: the hostPath whose members it holds;       *)
(* svcs: those members;  target: where it sent the request;                *)
(* ran: the scripts it ran;  outcome: how it ended.                        *)
NewRequest(url) ==
    [phase |-> "ping", url |-> url, at |-> 1, found |-> <<>>, svcs |-> <<>>,
     target |-> NoTarget, ran |-> {}, outcome |-> "none"]

NoRequest(url) == [NewRequest(url) EXCEPT !.phase = "done"]

Return(outcome) == req' = [req EXCEPT !.phase = "done", !.outcome = outcome]

Receive(url) ==
    /\ req.phase = "done"
    /\ req' = NewRequest(url)

Ping ==
    /\ req.phase = "ping"
    /\ \/ req' = [req EXCEPT !.phase = "lookup"]
       \/ RedisMayFail /\ Return("no redis")

(* The next hostPath; Redis returns the members of a set in any order. *)
Lookup ==
    /\ req.phase = "lookup"
    /\ LET hp    == LookupOrder(req.url)[req.at]
           svcs  == SMembers(db1, <<"route", hp>>)
       IN  \/ /\ svcs # {}
              /\ \E order \in SetToSeqs(svcs) :
                    req' = [req EXCEPT !.phase = "route", !.at = 1,
                                       !.found = <<hp>>, !.svcs = order]
           \/ /\ svcs = {}
              /\ req.at < Len(LookupOrder(req.url))
              /\ req' = [req EXCEPT !.at = @ + 1]
           \/ /\ svcs = {}
              /\ req.at = Len(LookupOrder(req.url))
              /\ Return("no route")

(* Wrong: a service without an endpoint is passed over. *)
RouteSkipsService ==
    /\ req.phase = "route"
    /\ req.at <= Len(req.svcs)
    /\ LET svc == req.svcs[req.at] IN
           \/ /\ SMembers(db0, svc) = {}
              /\ req' = [req EXCEPT !.at = @ + 1]
           \/ \E ipport \in SMembers(db0, svc) :
                    req' = [req EXCEPT !.at = @ + 1, !.target = ipport]

(* The first loop over the members: a random endpoint for every service,   *)
(* of which the last stands.  A service without one ends the hook.         *)
Route ==
    /\ req.phase = "route"
    /\ req.at <= Len(req.svcs)
    /\ LET svc == req.svcs[req.at] IN
           \/ IsScript(svc) /\ req' = [req EXCEPT !.at = @ + 1]
           \/ /\ ~IsScript(svc)
              /\ \E ipport \in SMembers(db0, svc) :
                    req' = [req EXCEPT !.at = @ + 1, !.target = ipport]
           \/ /\ ~IsScript(svc)
              /\ SMembers(db0, svc) = {}
              /\ Return("no endpoint")

(* The second loop: the first script stored under each "$" member.  The    *)
(* hook ends with a script that fails.                                     *)
RunScript ==
    /\ req.phase = "script"
    /\ req.at <= Len(req.svcs)
    /\ LET svc == req.svcs[req.at] IN
           \/ ~IsScript(svc) /\ req' = [req EXCEPT !.at = @ + 1]
           \/ /\ IsScript(svc)
              /\ \E snippet \in SMembers(db1, svc) :
                    req' = [req EXCEPT !.at = @ + 1, !.ran = @ \cup {snippet}]
           \/ /\ IsScript(svc)
              /\ SMembers(db1, svc) = {}
              /\ Return("no script")
           \/ /\ IsScript(svc)
              /\ ScriptsMayFail /\ SMembers(db1, svc) # {}
              /\ Return("script failed")

(* Wrong: the second loop counts from zero. *)
SecondLoopFromZero ==
    /\ req.phase \in {"route", "script"}
    /\ req.at > Len(req.svcs)
    /\ IF req.phase = "route" /\ SnippetEnabled
       THEN req' = [req EXCEPT !.phase = "script", !.at = 0]
       ELSE Return("completed")

(* Wrong: the second loop starts over. *)
SecondLoopAgain ==
    /\ req.phase \in {"route", "script"}
    /\ req.at > Len(req.svcs)
    /\ IF SnippetEnabled
       THEN req' = [req EXCEPT !.phase = "script", !.at = 1]
       ELSE Return("completed")

EndOfLoop ==
    /\ req.phase \in {"route", "script"}
    /\ req.at > Len(req.svcs)
    /\ IF req.phase = "route" /\ SnippetEnabled
       THEN req' = [req EXCEPT !.phase = "script", !.at = 1]
       ELSE Return("completed")

HookStep == Ping \/ Lookup \/ Route \/ RunScript \/ EndOfLoop

RequestInit == req \in {NoRequest(url) : url \in Urls}

RequestNext == HookStep \/ \E url \in Urls : Receive(url)

(* Databases that hold still, and in them sets of members under whole keys. *)
StillNext == RequestNext /\ UNCHANGED <<db0, db1>>

StillSpec == RequestInit /\ [][StillNext]_requestVars

IsHostPath(hp) ==
    /\ hp = [kind |-> hp.kind, scheme |-> hp.scheme, host |-> hp.host, path |-> hp.path]
    /\ hp.kind \in {"E+", "P+"}
    /\ hp.path \in Seq({hp.path[i] : i \in DOMAIN hp.path})
    /\ hp.path # <<>>

IsTable(db) ==
    \A key \in DOMAIN db :
        /\ IsFiniteSet(db[key])
        /\ key[1] = "route" => key = <<"route", key[2]>> /\ IsHostPath(key[2])

-----------------------------------------------------------------------------
(* The rule a request should be routed by, said without an order of        *)
(* lookups: among the hostPaths that match, the most specific host, an     *)
(* exact path before a prefix, the longest prefix.  A prefix matches where *)
(* it ends, in the request's path, at a "/" or at the end.                 *)
HostRank(h, host) ==
    IF h = host THEN 3
    ELSE IF h = <<"*">> \o Tail(host) /\ Len(host) > 1 THEN 2
    ELSE IF h = AnyHost THEN 1 ELSE 0

PathMatches(hp, path) ==
    \/ hp.path = path
    \/ /\ hp.kind = "P+"
       /\ Len(hp.path) <= Len(path)
       /\ \/ IsPrefix(hp.path, path)
          \/ Last(hp.path) = "" /\ IsPrefix(Front(hp.path), path)

Matching(hps, url) ==
    {hp \in hps : /\ hp.scheme = url.scheme
                  /\ HostRank(hp.host, url.host) > 0
                  /\ PathMatches(hp, url.path)}

(* The length of a path as a string, as far as prefixes of one path go. *)
PathRank(path) == 2 * Len(path) - (IF Last(path) = "" THEN 1 ELSE 0)

MoreSpecific(a, b, url) ==
    \/ HostRank(a.host, url.host) > HostRank(b.host, url.host)
    \/ /\ HostRank(a.host, url.host) = HostRank(b.host, url.host)
       /\ \/ a.kind = "E+" /\ b.kind = "P+"
          \/ a.kind = b.kind /\ PathRank(a.path) > PathRank(b.path)

(* A route answers at most one kind of outcome; the request holds values   *)
(* of their kinds.                                                         *)
RequestTypeOK ==
    /\ req.phase \in {"ping", "lookup", "route", "script", "done"}
    /\ req.url \in Urls
    /\ req.at \in 1..(Len(LookupOrder(req.url)) + Len(req.svcs) + 1)
    /\ req.outcome \in {"none", "no redis", "no route", "no endpoint", "no script", "script failed",
                        "completed"}

(* On a table that holds still the hook answers with the most specific of  *)
(* the hostPaths that match, and fails to find a route only when none does *)
(* (connect_redis.lua:157-188).                                            *)
FindsMostSpecific ==
    LET there == {hp \in {k[2] : k \in {k \in DOMAIN db1 : k[1] = "route"}} :
                    db1[<<"route", hp>>] # {}}
        matching == Matching(there, req.url)
    IN  /\ req.outcome = "no route" => matching = {}
        /\ req.found # <<>> =>
                /\ req.found[1] \in matching
                /\ \A hp \in matching \ {req.found[1]} :
                        MoreSpecific(req.found[1], hp, req.url)

(* On databases that hold still a request that gets past the first loop    *)
(* was sent to an endpoint of one of its services, all of which have one,  *)
(* and one that completes, with snippets on, ran every script of its       *)
(* route.  One stopped by a service without endpoints ran none, although   *)
(* an earlier service may have sent it on; only a script without a text or *)
(* one that fails, with snippets on, stops it later                        *)
(* (connect_redis.lua:190-251).                                            *)
ServesWholeRoute ==
    LET members  == {req.svcs[i] : i \in DOMAIN req.svcs}
        scripts  == {m \in members : IsScript(m)}
        services == members \ scripts
        routed   == \E svc \in services : req.target \in SMembers(db0, svc)
    IN  /\ req.outcome \in {"completed", "no script", "script failed"} =>
                (\A svc \in services : SMembers(db0, svc) # {}) /\ (services # {} => routed)
        /\ req.outcome = "completed" /\ SnippetEnabled =>
                \A m \in scripts : SMembers(db1, m) \cap req.ran # {}
        /\ req.outcome = "no endpoint" =>
                /\ \E svc \in services : SMembers(db0, svc) = {}
                /\ req.target # NoTarget => routed
                /\ req.ran = {}
        /\ req.outcome = "no script" => \E m \in scripts : SMembers(db1, m) = {}
        /\ req.outcome \in {"no script", "script failed"} => SnippetEnabled

(* The hook returns, whatever it finds: its loops end. *)
HookReturns == req.phase = "ping" ~> req.phase = "done"
=============================================================================
