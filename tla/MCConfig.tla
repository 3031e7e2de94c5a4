------------------------------ MODULE MCConfig ------------------------------
(***************************************************************************)
(* Instances for TLC of the modules that can be checked apart: Endpoint-   *)
(* Handler, those about Traffic Server's own configuration (SniHandler,    *)
(* CacheHandler, ConfigMapHandler) and Watcher.                            *)
(*                                                                         *)
(* Each of them includes what the others can do to it, so they are         *)
(* checked side by side: one of them, the subject, is chosen at the start  *)
(* and takes all the steps.                                                *)
(***************************************************************************)
EXTENDS MCEndpoints, SniHandler, CacheHandler, ConfigMapHandler, Watcher, TLC

CONSTANTS Subjects   \* those to choose from

VARIABLES subject

allVars == <<subject, endpointVars, sniVars, cacheVars, cmVars, watcherVars>>

(* All watches run by the time the handlers are called. *)
Watching ==
    /\ listable = Resources
    /\ at = Len(WatchOrder) + 1
    /\ running = Resources
    /\ synced = Resources
    /\ crashes = 0

ConfigInit ==
    /\ subject \in Subjects
    /\ EpInit /\ SniInit /\ CacheInit /\ CmInit
    /\ IF subject = "watcher" THEN WatcherInit ELSE Watching

ConfigNext ==
    /\ UNCHANGED subject
    /\ \/ /\ subject = "endpoints" /\ EpNext
          /\ UNCHANGED <<sniVars, cacheVars, cmVars, watcherVars>>
       \/ /\ subject = "sni" /\ SniNextState
          /\ UNCHANGED <<endpointVars, cacheVars, cmVars, watcherVars>>
       \/ /\ subject = "cache" /\ CacheNext
          /\ UNCHANGED <<endpointVars, sniVars, cmVars, watcherVars>>
       \/ /\ subject = "configmap" /\ CmNext
          /\ UNCHANGED <<endpointVars, sniVars, cacheVars, watcherVars>>
       \/ /\ subject = "watcher" /\ WatcherNext
          /\ UNCHANGED <<endpointVars, sniVars, cacheVars, cmVars>>

ConfigSpec ==
    /\ ConfigInit
    /\ [][ConfigNext]_allVars
    /\ EpFairness /\ SniFairness /\ CacheFairness /\ CmFairness /\ WatcherFairness
    /\ EpResyncs /\ SniResyncs /\ CacheResyncs /\ CmResyncs

-----------------------------------------------------------------------------
Entry(fqdn, setting) == [fqdn |-> fqdn, setting |-> setting]

SniPolicy(name, sni) == [name |-> name, sni |-> sni]

(* The image's sni.yaml has an entry no policy names. *)
OwnEntry == <<Entry("own", "s1")>>

(* Policies that share no fqdn and keep theirs; one names an fqdn twice,   *)
(* one never names any.                                                    *)
SniKept == {
    SniPolicy("p", <<Entry("a", "s1"), Entry("b", "s1")>>),
    SniPolicy("p", <<Entry("b", "s2"), Entry("a", "s2"), Entry("a", "s3")>>),
    SniPolicy("q", <<Entry("c", "s1")>>),
    SniPolicy("r", NoSni),
    SniPolicy("r", <<>>),
    SniPolicy("r", <<Entry(NoFqdn, "s1")>>) }

(* A policy that drops an fqdn. *)
SniDropping == {
    SniPolicy("p", <<Entry("a", "s1"), Entry("b", "s1")>>),
    SniPolicy("p", <<Entry("a", "s1"), Entry("c", "s1")>>) }

(* Two policies name one fqdn.  SniSettled fails with it: deleting one     *)
(* takes the entry of the other.                                           *)
SniSharing == {
    SniPolicy("p", <<Entry("a", "s1")>>),
    SniPolicy("q", <<Entry("a", "s1"), Entry("b", "s1")>>) }

Rule(type, pattern, ttl) == [type |-> type, pattern |-> pattern, ttl |-> ttl, action |-> "cache"]

NeverCache(type, pattern) == [Rule(type, pattern, NoTtl) EXCEPT !.action = "never-cache"]

CachePolicy(name, rules) == [name |-> name, rules |-> rules]

(* The comment the image's cache.config starts with. *)
Comment == <<[type |-> "#", pattern |-> <<"cache.config">>, ttl |-> NoTtl]>>

(* Policies with one rule of a type, whose patterns stay and none of which *)
(* is the beginning of another.                                            *)
CacheKept == {
    CachePolicy("p", <<Rule("url_regex", <<"app1">>, "10s"), Rule("dest_host", <<"foo">>, "10s")>>),
    CachePolicy("p", <<Rule("dest_host", <<"foo">>, "20s"), NeverCache("dest_ip", <<"ip">>),
                       Rule("url_regex", <<"app1">>, "20s")>>),
    CachePolicy("q", <<Rule("url_regex", <<"app2">>, "10s")>>),
    CachePolicy("q", <<Rule("url_regex", <<"app2">>, "20s")>>),
    CachePolicy("r", NoRules) }

(* A pattern that is the beginning of another policy's. *)
CacheBeginning == {
    CachePolicy("p", <<Rule("url_regex", <<"app1">>, "10s")>>),
    CachePolicy("q", <<Rule("url_regex", <<"app1", "images">>, "10s")>>) }

(* A policy with two rules of one type.  CacheSettled fails with it:       *)
(* deleting the policy leaves the first.                                   *)
CacheTwoOfAType == {
    CachePolicy("p", <<Rule("url_regex", <<"app1">>, "10s"), Rule("url_regex", <<"app2">>, "10s")>>) }

(* A policy that gains a rule.  CacheSettled fails with it: the update     *)
(* finds no line of the rule to replace.                                   *)
CacheGaining == {
    CachePolicy("p", <<Rule("url_regex", <<"app1">>, "10s")>>),
    CachePolicy("p", <<Rule("url_regex", <<"app1">>, "10s"), Rule("dest_host", <<"foo">>, "10s")>>) }

CM(name, marked, data) == [name |-> name, marked |-> marked, data |-> data]

Defaults == [r \in {"logs", "limit", "dns"} |-> "v0"]

(* Marked ConfigMaps that share no record, and unmarked ones that do. *)
CmDisjoint == {
    CM("m", TRUE, "logs" :> "v1" @@ "limit" :> "v1"),
    CM("m", TRUE, "logs" :> "v2"),
    CM("m", FALSE, "logs" :> "v1"),
    CM("n", TRUE, "dns" :> "v1"),
    CM("u", FALSE, "logs" :> "v2" @@ "dns" :> "v2") }

(* Two marked ConfigMaps name one record.  CmKeepsPromise fails with it:   *)
(* the record has the value of the one called back last.                   *)
CmSharing == {
    CM("m", TRUE, "logs" :> "v1"),
    CM("n", TRUE, "logs" :> "v2" @@ "dns" :> "v1") }

ASSUME KeptIsOrderly ==
    SniOrderly(SniKept) /\ ~SniOrderly(SniDropping) /\ ~SniOrderly(SniSharing)
ASSUME CacheKeptIsOrderly ==
    /\ CacheOrderly(CacheKept)
    /\ \A policies \in {CacheBeginning, CacheTwoOfAType, CacheGaining} : ~CacheOrderly(policies)
ASSUME DisjointIsOrderly == CmOrderly(CmDisjoint) /\ ~CmOrderly(CmSharing)
=============================================================================
