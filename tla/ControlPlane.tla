---------------------------- MODULE ControlPlane ----------------------------
(***************************************************************************)
(* The two handlers and a request together: the handlers write the         *)
(* databases the request reads between its calls.  The informers of        *)
(* ingresses and endpoints call back on goroutines of their own            *)
(* (watcher/watcher.go), so every interleaving is possible.                *)
(***************************************************************************)
EXTENDS IngressHandler, EndpointHandler

CONSTANTS
    Urls, NoTarget, SnippetEnabled, RedisMayFail, ScriptsMayFail,
    Watched   \* pairs of a service port and an address, to watch over

ASSUME WatchedAssumption == Watched \subseteq SvcKeys \X IPPorts

(* Hosts and paths are sequences, a path begins with a "/", and no address *)
(* is the absent one.                                                      *)
ASSUME UrlsAssumption ==
    \A url \in Urls : /\ url.host \in Seq({url.host[i] : i \in DOMAIN url.host})
                      /\ url.path \in Seq({url.path[i] : i \in DOMAIN url.path})
                      /\ url.path # <<>>
ASSUME NoTargetAssumption == NoTarget \notin IPPorts

VARIABLES
    req,    \* the request
    past,   \* history: the ingress objects included since the restart
    calm,   \* history: the hostPaths the request could count on so far
    listed  \* history: the watched addresses listed since the request came

Plugin == INSTANCE RequestPlugin

allVars == <<ingressVars, endpointVars, req, past, calm, listed>>

(* A request can count on a hostPath that matches it while the hostPath    *)
(* has a service, changes only by updates, and every service has an        *)
(* endpoint and changes only by updates as well.                           *)
Steady(url) ==
    {hp \in Plugin!Matching(HostPaths, url) :
        /\ Wanted[hp] \cap Services # {}
        /\ Idle \/ event = "update"
        /\ EpIdle \/ epEvent.name = "update"
        /\ \A k \in SvcKeys : EpWanted[k] # {} }

(* Those among them that have both when the request comes. *)
Served(url) ==
    {hp \in Steady(url) :
        /\ Table[hp] \cap Services # {}
        /\ \A k \in SvcKeys : EpTable[k] # {} }

(* The watched addresses listed now; while the endpoints handler is at     *)
(* work, also those it is about to replace.                                *)
ListedNow ==
    {w \in Watched : w[2] \in EpWanted[w[1]] \cup (IF EpIdle THEN {} ELSE EpTable[w[1]])}

CInit ==
    /\ Init
    /\ EpInit
    /\ req \in {Plugin!NoRequest(url) : url \in Urls}
    /\ past = {}
    /\ calm = {}
    /\ listed = {}

(* A request that has returned leaves nothing behind. *)
Forgets == req' = IF req.phase = "done" THEN Plugin!NoRequest(req.url) ELSE req

IngressStep  == (IngressEvent \/ Exec) /\ Forgets /\ UNCHANGED endpointVars
EndpointStep == (EndpointEvent \/ EpStep) /\ Forgets /\ UNCHANGED ingressVars
HookStep     == Plugin!HookStep /\ UNCHANGED <<ingressVars, endpointVars>>

(* The history variables follow a request until it has returned. *)
Overtaken ==
    /\ IngressStep \/ EndpointStep \/ HookStep
    /\ past' = past \cup Declared'
    /\ IF req.phase = "done"
       THEN calm' = {} /\ listed' = {}
       ELSE /\ calm' = calm \cap Steady(req.url)'
            /\ listed' = listed \cup {w \in Watched : w[2] \in EpWanted'[w[1]]}

Receive ==
    /\ \E url \in Urls : Plugin!Receive(url)
    /\ UNCHANGED <<ingressVars, endpointVars, past>>
    /\ calm' = Served(req.url)'
    /\ listed' = ListedNow'

(* One container runs the controller, Redis and Traffic Server, and the    *)
(* controller's exit ends it (bin/entry.sh): the request ends with it.     *)
CRestart ==
    /\ Restart
    /\ EpRestart
    /\ req' = Plugin!NoRequest(req.url)
    /\ past' = {}
    /\ calm' = {}
    /\ listed' = {}

CNext == Overtaken \/ Receive \/ CRestart

CSpec == CInit /\ [][CNext]_allVars

-----------------------------------------------------------------------------
(* No command has failed and no deletion been missed. *)
NothingLost == faults + missed = 0 /\ epFaults + epMissed = 0

(* An update loses no request: one that could count on a hostPath from its *)
(* first call to its last is sent to an endpoint, whatever the ingress and *)
(* endpoints handlers did in between, and nothing but an error in a script *)
(* keeps it from its end.                                                  *)
UpdatesLoseNoRequest ==
    req.phase = "done" /\ calm # {} /\ NothingLost =>
        req.outcome \in {"completed", "script failed"} /\ req.target # NoTarget

(* The members the first loop has passed, and the place of the last        *)
(* service among them: the one whose endpoint the request was given.       *)
Visited == {i \in DOMAIN req.svcs : req.phase = "route" => i < req.at}

GivesTarget(i) ==
    /\ i \in Visited
    /\ ~Plugin!IsScript(req.svcs[i])
    /\ \A j \in Visited : j > i => Plugin!IsScript(req.svcs[j])

(* A request is sent to an address that the service it was drawn from      *)
(* listed at some moment since the request came: never to a pod that was   *)
(* gone before, whatever version of the route and of the endpoints it met. *)
GoesWhereListed ==
    req.phase # "done" /\ req.target # NoTarget /\ NothingLost =>
        \E i \in Visited : GivesTarget(i) /\ <<req.svcs[i], req.target>> \notin Watched \ listed

(* The script a request's route names is there when the request asks for   *)
(* it, however far the handler got since: scripts come before their routes *)
(* and are never removed.                                                  *)
ScriptsAreFound == NothingLost => req.outcome # "no script"

(* What a request found is what some ingresses, each in one version, say   *)
(* of the hostPath: never a service of one version with the script of      *)
(* another, or with none.                                                  *)
OneVersion ==
    req.svcs # <<>> =>
        \E versions \in SUBSET past :
            /\ \A o, p \in versions : Id(o.spec) = Id(p.spec) => o = p
            /\ UNION {Asks(o, req.found[1]) : o \in versions} = {req.svcs[i] : i \in DOMAIN req.svcs}

SeesOneVersion == calm # {} /\ NothingLost => OneVersion

(* "ATS will execute [the script] for requests matching the routing rules  *)
(* defined in the ingress object" (docs/TUTORIAL.md:47): a request sent to *)
(* an endpoint through a route that only ever belonged to ingresses with a *)
(* script ran one.                                                         *)
ScriptIsExecuted ==
    req.outcome = "completed" /\ req.target # NoTarget =>
        \/ req.ran # {}
        \/ \E o \in past : Asks(o, req.found[1]) # {} /\ ~HasSnippet(o)
=============================================================================
