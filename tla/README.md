# The Traffic Server ingress controller in TLA+

This directory specifies the control plane of the Apache Traffic Server (ATS)
ingress controller: how Kubernetes objects become keys in Redis, and how the
Lua plugin inside Traffic Server routes requests by those keys. The modules are
translated from the Go and Lua sources, checked with TLC on small instances
and proved with TLAPS for every instance: every safety property the passing runs
check is a theorem, and what they check of liveness is left to TLC. The handlers that keep
Traffic Server's own configuration (SNI policies, caching policies, ConfigMaps)
and the order in which the watches start have modules of their own.

Paths below are relative to the repository (`src/` in `PROJECT.json`).

## 1. The system

One container (`bin/entry.sh`) runs three processes: Redis, Traffic Server with
the Lua plugin, and the controller.

    Kubernetes API --watch--> informer --Add/Update/Delete--> handler
                                                                |  Redis commands
                                                                v
                                     DB 0: svcport  -> ip#port#protocol
                                     DB 1: hostPath -> svcports, $scripts
                                           $script  -> Lua text
                                                                ^
                                                                |  SMEMBERS, SRANDMEMBER
    client ------------------- request ---------------> Lua hook in Traffic Server

    Kubernetes API --watch--> policy and ConfigMap handlers
                                |  sni.yaml, cache.config      |  traffic_ctl config set
                                v                              v
                              traffic_ctl config reload --> Traffic Server

| Part | State it keeps | Operations | Correct when |
|---|---|---|---|
| Redis client (`redis/redis.go`) | two databases of sets | SADD, SREM, SUNIONSTORE, DEL, FLUSHALL; a failing command is logged and dropped | each command is atomic; nothing survives a restart of the controller |
| Keys (`util/util.go`) | none | build hostPath, svcport, ip#port#protocol, `$ns/name/version` | two things get one key only when they are one thing |
| Filter (`namespace/`, `proxy/ats.go`) | flags | IncludeNamespace, IncludeIngressClass | old and new object are each judged on their own |
| Ingress handler (`watcher/handlerIngress.go`) | none of its own; DB 1 | add, update, delete | between callbacks DB 1 is what the declared ingresses ask for; during update no hostPath is half made; a named script is there |
| Endpoints handler (`watcher/handlerEndpoint.go`) | none of its own; DB 0 | add, update, delete | between callbacks DB 0 holds exactly the ready addresses; an address that stays is there throughout |
| Lua plugin (`pluginats/connect_redis.lua`) | one blocking Redis connection | the global read-request hook | it answers with the most specific route, serves all of it or fails, and returns |
| ConfigMap handler (`watcher/handlerConfigmap.go`) | Traffic Server's records | Add, Update (Delete does nothing) | a record a marked ConfigMap names has the value it gives |
| Caching policy handler (`watcher/handlerCache.go`) | lines of `cache.config` | Add, Update, Delete, reload | the file holds the rules of the declared policies and the lines it had of its own |
| SNI policy handler (`watcher/handlerSni.go`) | `sni.yaml` | Add, Update, Delete, reload | the same, per fqdn; one entry per fqdn; a reload never meets half a file |
| Watcher (`watcher/watcher.go`) | informers and their stores | Watch: one resource after another | every resource that can be watched is watched |
| ATS manager (`proxy/ats.go`) | none | `traffic_ctl config set`, `config reload` | a reload follows every change of a file |
| Main, entry script | none | flags, flush, exit | a restart starts from nothing |

**Who runs concurrently.** Each informer calls its handler's callbacks one
after the other on a goroutine of its own, so ingress and endpoints callbacks
interleave with each other, command by command, and with the hook, call by
call. Nothing locks a database; the protection is that SUNIONSTORE replaces a
set in one command.

**What is hard.**

- *Interleaving*: a request reads a hostPath in DB 1, later the endpoints in
  DB 0, later the scripts in DB 1 again.
- *Memoryless handlers*: neither handler reads what is in Redis. Each undoes
  what it believes earlier events wrote, from the old object alone. Several
  ingresses share a hostPath, and a set member has no owner and no count.
- *Partial failure*: a failed command is skipped and the callback goes on.
- *Missed deletions* arrive as `DeletedFinalStateUnknown`, which no handler casts.
- *Late and partial news*: a watch that broke lists again, so the handler is not
  told of every version, and after a restart everything is new to it.
- *Panics*: a rule without an `http` block or a default backend that is not a service
  stops the controller, and is listed again by the next one.
- *Restarts* at any point between two commands.
- *Files*: read-modify-write of `cache.config` and `sni.yaml` by substring or
  key, while the other policy handler may reload Traffic Server at any moment.
- *Startup*: one resource after another, each waited for without a limit.

`PROJECT.json` lists the hazards at their lines, with the properties that cover
each or the reason none does.

## 2. The modules

| Module | Models | Of |
|---|---|---|
| `Redis` | a database as a function from keys to sets; `Apply` of one command | `redis/redis.go` |
| `Filter` | the two filters | `namespace/namespace.go`, `proxy/ats.go` |
| `Keys` | the key constructors; `Unroll`, a loop's commands as one sequence | `util/util.go` |
| `Ingress` | `AddProgram`, `UpdateProgram`, `DeleteProgram`: the commands each callback issues | `watcher/handlerIngress.go` |
| `IngressHandler` | informer, callbacks and DB 1, one command per step | the same, `watcher/watcher.go` |
| `EndpointHandler` | informer, callbacks and DB 0, one command or loop turn per step | `watcher/handlerEndpoint.go` |
| `LookupTable` | **abstract**: a table that follows what is declared, key by key | the promise of the ingress, endpoints and ConfigMap handlers |
| `Snapshot` | **abstract**: a configuration that follows what is declared as a whole | the promise of the SNI policy handler |
| `Relay` | the API server, its watch and the ingress handler; stops of the controller | `watcher/watcher.go`, `main/main.go` |
| `PathLookup` | the order in which hostPaths are asked for | `pluginats/connect_redis.lua` |
| `RequestPlugin` | the hook, one Redis call per step; the routing rule it should follow | the same |
| `ControlPlane` | both handlers and a request on the same databases | all of the above |
| `SniHandler` | `sni.yaml` as a sequence of entries; load, write, rename and reload as steps | `watcher/handlerSni.go` |
| `CacheHandler` | `cache.config` as a sequence of lines; one file operation per step | `watcher/handlerCache.go` |
| `ConfigMapHandler` | Traffic Server's records; one `config set` per step | `watcher/handlerConfigmap.go` |
| `Watcher` | five informers started and waited for in turn | `watcher/watcher.go`, `main/main.go` |
| `RedisProofs` | lemmas about programs and commands, for both handlers of routes | |
| `IngressProofs`, `IngressTableProofs` | theorems about `IngressHandler` | |
| `EndpointProofs` | theorems about `EndpointHandler` | |
| `RequestProofs` | theorems about `PathLookup` and `RequestPlugin` | |
| `ControlPlaneProofs` | theorems about `ControlPlane`, from those of its parts | |
| `ConfigurationProofs` | theorems about `ConfigMapHandler`, `SniHandler` and `CacheHandler` | |
| `WatcherProofs` | theorems about `Watcher` and `Relay` | |
| `MC*` | instances for TLC | |

`Ingress` EXTENDS `Redis`, `Filter` and `Keys`; `IngressHandler` EXTENDS
`Ingress`, and `Relay` EXTENDS `IngressHandler`; `ControlPlane` EXTENDS both handlers
and takes the plugin with INSTANCE, its `db0` and `db1` being the handlers'. The proof modules
are stacked the same way: `ControlPlaneProofs` EXTENDS `IngressTableProofs` (on `IngressProofs`)
and `EndpointProofs`, both on `RedisProofs`, and takes `RequestProofs` with INSTANCE;
`WatcherProofs` EXTENDS `IngressTableProofs`, `Relay` and `Watcher`. `ConfigurationProofs` stands alone,
because its three handlers share how they are reasoned about, not state.
Operators whose comment says "Wrong:" are plausible bugs, each next to the
definition it spoils; they are used only to see the properties fail.

### From code to model

- **Callbacks as programs.** The ingress callbacks branch only on the objects
  of the event, never on Redis, so a callback is the sequence `todo` of commands
  the event determines, computed at delivery and issued one per step (`Exec`),
  which succeeds or fails (`Succeeds`, `Fails`). The order of update's last loop,
  over a Go map, is chosen at delivery among all orders. The endpoints callbacks keep their
  loop over ports (`NextPort`) because add, update and delete share it.
- **The informer.** `store` is the set of objects last handed to the handler.
  client-go queues events in between; no callback looks at that queue, so an
  event is delivered when the handler is idle and the queue is left out. The
  initial list is a run of adds. A resync is an update from the stored object
  to itself. Old and new object of an update may be equal, differ in anything,
  or be different incarnations of one name. `Delete` delivers the object, or, when
  the watch missed the deletion, something the handler cannot cast and ignores.
- **Broken ingresses.** A spec is `broken` when a rule has no `http` block or the
  default backend is no service, and its `rules` are those before it: add and update
  dereference nil after the commands they got to. Their programs end there (update's without the last
  loop, `Swap`), the handler is then `Dying`, and `Panic` ends the controller.
- **The API server.** In `Relay` users write (`Write`) what the API server has
  (`api`), and the watch reports a name it is `behind` with: how the object stands by
  now, so versions in between are never heard of. A stop or a panic empties
  the handler's store and puts every existing name behind again (`ListsAgain`).
  `orphans` is a history variable: the objects whose deletion the watch missed since
  the controller last started.
- **Strings.** A host is its labels, a path its segments, keys are records of
  the parts they concatenate. A DB 1 key is tagged `"route"`, `"temp_"` or
  `"$"`; in Redis the first characters (`P+`/`E+`, `temp_`, `$`) play that part.
  The rules of a spec are flattened: `rules` lists all paths of all rules in
  order, each with its rule's host.
- **Versions.** A resource version only ever tells one version of an object from
  another, so `rv` counts from 1 and starts again after a restart, when nothing
  remembers a version.
- **The request.** Hooks only read the databases, so one at a time suffices. The
  order of SMEMBERS and the choice of SRANDMEMBER are arbitrary. Headers, cache
  keys and debug output are left out. The ping may go unanswered
  (`RedisMayFail`); an error in a later call is not modelled: Redis is in the
  same container, and the client library would abort the hook. A script may not load
  or end in an error, which ends the hook (`ScriptsMayFail`). The branch for an
  endpoint in the wrong format (`connect_redis.lua:207-210`) is never taken: the
  handlers write what `ConstructIPPortString` returns, which has its three parts.
- **Policies.** An SNI entry is its fqdn and one value for all its other
  settings. A line of `cache.config` is the rule it was written from, and
  "contains `type=pattern`" becomes "has that type and a pattern that begins with
  that pattern"; patterns are sequences of parts so that one may begin another.
  `sni.yaml.tmp` is not a variable: nothing reads it, and a rename publishes what
  the callback wrote. `cache.config` is truncated and written in two steps,
  because `os.WriteFile` does it in place.
- **Reloads.** `traffic_ctl config reload` makes Traffic Server read every file
  that changed, so each policy handler sees the other one only as a reload that
  may come at any time (`CacheHandlerReloads`, `SniHandlerReloads`). That a reload
  loads files is external; the handlers only run the command.
- **Missed deletions of policies.** Their handlers cast without asking, so a
  `DeletedFinalStateUnknown` panics and the container restarts: `SniRestart` and
  `CacheRestart` stand for it.
- **Restart.** `entry.sh` ends with the controller, so the container goes
  with it. `redis.Init` flushes both databases before any watch starts,
  and the files and records are those of the image again.

## 3. The runs

| Run | Shows |
|---|---|
| `ingress_kept` | two ingresses share a hostPath, which both keep; updates over paths, kinds, schemes, TLS, services, scripts, default backends and class, with resyncs and restarts: the table is exact between callbacks (`Settled`), no copy stays (`NoLeftoverTemp`), update publishes each hostPath in one command (`UpdateIsAtomic`), scripts precede routes, and `LookupTable` is implemented (`KeepsPromise`) |
| `relay` | the API server, the watch and the handler: whatever users wrote, in whatever order and completeness the watch reported it, after a failed command, a missed deletion, the fault of `ingress_crossing`, a broken ingress that was mended or deleted, and stops anywhere, what the API server has is relayed for good once users stop writing, and unless a command failed nothing else stays than what the missed deletions of this run of the controller left (`RelaysUnbroken`); and when the watch has nothing to report and the table is what the handler was given last, every hostPath has exactly the services and the texts of scripts that users asked for (`RelayedAtRest`) |
| `ingress_broken` | **violation** of `Relays`, see section 5 |
| `ingress_crossing` | **violation** of `Settled`, see section 5 |
| `endpoints_scaled` | **violation** of `EpSettled`, see section 5 |
| `request` | every request of five on every table of two out of twenty-five hostPaths: most specific match (`FindsMostSpecific` against a rule stated without an order of lookups), all of the route served, or a service or script in the table that is the reason why not (`ServesWholeRoute`), loops end (`HookReturns`) |
| `rolling` | rolling updates of an ingress and of a service's pods under requests: a request that can count on a hostPath throughout is sent to an endpoint and stopped by nothing but an error in a script (`UpdatesLoseNoRequest`), sees one version of the ingress (`SeesOneVersion`), finds its script (`ScriptsAreFound`), and is sent to an address that the service it was drawn from listed at some moment since the request came (`GoesWhereListed`) |
| `rolling_script` | **violation** of `ScriptIsExecuted`, see section 5 |
| `config` | services that keep their ports: `LookupTable` implemented (`EpKeepsPromise`) and no copy left (`EpNoLeftoverTemp`) until a command or a deletion is lost; with resyncs every listed address comes back after that (`EpHeals`) |
| | SNI policies that keep their fqdns (entries without one, one named twice, no `spec.sni`): until something fails Traffic Server ends with exactly what is declared (`SniSettled`) and goes there in one step although the other handler may reload it at any moment, so that `Snapshot` is implemented (`SniKeepsPromise`); always one entry per fqdn (`OneEntryPerFqdn`); with resyncs nothing declared is lost for good (`SniHeals`) |
| | caching policies whose rules keep their patterns: exactly the declared lines and the image's, each once (`CacheSettled`), although reloads meet a truncated file; with resyncs Traffic Server catches up with the file (`CacheCatchesUp`) |
| | marked ConfigMaps in effect record by record, whatever unmarked and former ones say: `LookupTable` implemented (`CmKeepsPromise`), and all of it in effect again after a failure (`CmHeals`) |
| | Watch returns with everything listed (`ReturnsServingAll`), and it does return once everything may be listed (`WatchCompletes`) |
| `sni_dropping` | **violation** of `SniSettled`, see section 5 |
| `cache_beginning` | **violation** of `CacheSettled`, see section 5 |
| `watcher_stuck` | **violation** of `WatchReturns`, see section 5 |

The handlers of Traffic Server's own configuration meet only in the reload, which
each module includes as something another may do at any time; the watcher
meets them only in starting them; the endpoints handler meets the others in the
request, which is the business of `rolling`. `MCConfig` therefore checks five
modules side by side: a behaviour chooses one of them, its `subject`, and lets the
others rest.

**Two promises.** `LookupTable` allows a table to move towards what is wanted key
by key and in parts, and says that a key loses nothing both declarations want.
`Snapshot` allows one step. Redis and the records are read key by key, so the first
is what their readers may rely on; `sni.yaml` is read as a whole, and the
handler's comment that it is written atomically (`handlerSni.go:252`) is the second.
`cache.config` keeps neither: it is emptied and written in place, a reload in
between loads nothing, and only the callback's own reload makes up for it. It is
checked at rest (`CacheSettled`) instead. What the ConfigMap handler wants of a
record no marked ConfigMap names is the value it has: nothing sets one back.

`calm` is a history variable of `ControlPlane`: the hostPaths a request can count on.
They match it, had a service with endpoints in the tables when it came (`Served`), and since
then were wanted with a service, every service being wanted with an endpoint, and touched by
nothing but updates (`Steady`). `UpdatesLoseNoRequest` and `SeesOneVersion` are about
requests with such a hostPath. Without that condition they are false:
a request that has already asked for `/x` and then for `/` misses a route that
moves from `/` to `/x` in between, and adds and deletes are not atomic. All four
properties of requests speak of the time until a command or a deletion is lost
(`NothingLost`).

`listed`, the other one, holds the pairs of `Watched` (a service port and an
address) that were listed at some moment since the request came; those the
endpoints handler is about to replace when it comes count as listed, since the
request may well be answered before they are. `GoesWhereListed` needs no condition
of calm: adds and deletes are included. It speaks of the service that the endpoint
was drawn from, the last of the route's services the first loop has passed (`Visited`,
`GivesTarget`); scripts among the members give no endpoint. `rolling` watches
the first pod, which the update replaces; the theorem holds for any pairs.

`ServesWholeRoute` speaks of every way the hook can end once it has found a route. A service
without endpoints ends it after an earlier service may have rewritten the request, so
the request goes to an endpoint of that service and runs no script
(`connect_redis.lua:200`): the property says that this is so, and that it takes a
service without endpoints. Half of the tables of `request` have one, and in some the script has
no text.

### Bounds

- `MaxVersion` (3): an add and two updates, or versions of two ingresses.
  The handlers look at two objects at a time and every program is determined by
  them, so a third version shows what a second leaves behind. Restarts, resyncs
  and deletions are unbounded. In `Relay` it bounds nothing (`RelayAssumption`):
  the bounds there are `MaxWrites` 4 (create both, move one onto the other or break
  it, mend or delete it) and `MaxStops` 2, the second of which may come
  while the first is being recovered from. `MaxVersion` is 4 and `MaxWrites` 2 in
  `ingress_broken`: one write is enough for the violation, and the second lets the ingress of
  somebody else be there, which is in order.
- `MaxFaults`, `MaxMissed`: 1 in `relay` (any command may be the one, any deletion
  the other, and both may happen), 0 where exactness is claimed, which a lost command
  breaks by definition. The
  others (`MaxEpFaults`, `MaxEpMissed`, `MaxSniFaults`, `MaxCacheFaults`,
  `MaxCmFaults`) are 1, and exactness is claimed as long as nothing has failed:
  `LookupTable` and `Snapshot` have a flag `lost` after which they promise nothing.
  `config` was also checked with two of each, with the same result and ten times the states.
- Two namespaces, plus an ignored one for the endpoints, two or three specs per
  ingress, two rules per spec: enough for a hostPath to be kept, gained, lost, shared and doubled.
- In `rolling`, one ingress with two specs, which differ in the port of the service
  and in the script, one service with two ports and two pods one after the
  other, one URL: every interleaving of single commands of both handlers and the hook.
- `MaxCrashes` 2: a restart forgets everything, so a third adds nothing. In the
  other modules restarts are unbounded.
- The image's `sni.yaml` has an entry of its own in the instances, which the
  shipped one has not, so that losing it would be seen. Policies of two or three
  names, two or three variants each: a change of value, of order, of the set of
  fqdns, and no specification at all.
- No symmetry is used: the specs are not interchangeable.

### Fairness

- `WF(Exec)`, `WF(NextPort)`, `WF(EpExec)`: a callback's goroutine runs on, and a
  command returns or fails. Failures are bounded, so a command is lost now and then
  but not every time. `WF(Panic)`: a nil dereference ends the process.
- `RFairness` adds that each name's report comes when it keeps being possible between
  callbacks, `SF(Report)`: what the watch has to say waits in a first-in
  first-out queue that resyncs join at its end, so they cannot keep it waiting
  for ever. Nothing is assumed of how soon.
- The last conjunct of `RSpec`, and `EpResyncs`: an object that stays in the store is
  resynced again and again. It is client-go's resync timer and holds only when
  `-resyncPeriod` is set; **it is 0 by default** (`main/main.go`, `entry.sh`), and
  then nothing lost comes back before the object changes or the controller
  restarts.
- `SniFairness`, `CacheFairness`, `CmFairness` and `SniResyncs`, `CacheResyncs`,
  `CmResyncs` are the same for the policy and ConfigMap handlers.
- `WatcherFairness`: Watch runs on, and an informer lists its resource if that
  stays possible; client-go tries again without end.
- Hook steps are weakly fair in `request`. No fairness is assumed of users,
  requests, faults or restarts.

## 4. The proofs

Each theorem holds for every value of the constants: any objects, namespaces, classes,
requests and bounds on failures, with every failure, missed deletion, resync, panic and
restart the specification allows.

| Theorem | States | For |
|---|---|---|
| `TypeCorrect` | `TypeOK` of the ingress handler | all ingresses |
| `ScriptsFirst` | `ScriptBeforeRoute` | all ingresses |
| `NoCopyStays` | `NoLeftoverTemp` | all ingresses |
| `TableSettles` | `Settled` | orderly ingresses |
| `UpdatesInPlace` | `UpdateIsAtomic` | orderly ingresses |
| `HandlerImplementsTable` | the ingress handler implements `LookupTable!SafeSpec` | orderly ingresses |
| `EpTypeCorrect` | `EpTypeOK` | all Endpoints objects |
| `EpCopiesGo` | `EpNoLeftoverTemp` | all Endpoints objects |
| `EpSettles` | `EpSettled` | orderly Endpoints objects |
| `EpImplementsTable` | the endpoints handler implements `LookupTable!SafeSpec` | orderly Endpoints objects |
| `RequestTypeCorrect` | `RequestTypeOK` | all requests, on a table that holds still |
| `MostSpecificIsFound` | `FindsMostSpecific` | the same |
| `ServesWhatItFinds` | `ServesWholeRoute`, for every outcome | the same |
| `ScriptsStayFound` | `ScriptsAreFound` | all ingresses and Endpoints objects |
| `GoesWherePodsAre` | `GoesWhereListed` | orderly Endpoints objects |
| `VersionsStayWhole` | `SeesOneVersion` | orderly ingresses |
| `UpdatesKeepServing` | `UpdatesLoseNoRequest` | both orderly, every service listed, Redis up |
| `CmTypeCorrect` | `CmTypeOK` | all ConfigMaps |
| `CmImplementsTable` | the ConfigMap handler implements `LookupTable!SafeSpec` | orderly ConfigMaps |
| `SniTypeCorrect` | `SniTypeOK` | all SNI policies |
| `SniEntriesOnce` | `OneEntryPerFqdn` | all SNI policies, if the image's `sni.yaml` has one entry per fqdn |
| `SniSettles` | `SniSettled` | orderly SNI policies |
| `SniImplementsSnapshot` | the SNI handler implements `Snapshot!SafeSpec` | orderly SNI policies |
| `CacheTypeCorrect` | `CacheTypeOK` | all caching policies |
| `CacheSettles` | `CacheSettled` | orderly caching policies |
| `WatcherTypeCorrect` | `WatcherTypeOK` | all resources that may never be listed |
| `ReturnsServing` | `ReturnsServingAll` | the same |
| `NewsIsRelayed` | `RelayedAtRest` | all ingresses, all that users, the watch and stops may do |
| `AllIsRelayed` | `RedisHasAll` whenever the watch has nothing to report, the handler is at rest and nothing was lost | orderly ingresses, the same |

### What the hypotheses say

Section 5 shows that the handlers go wrong for some objects. The hypotheses name what
the code takes for granted, and each is met by the instance of a run that passes and
missed by the instances that fail, which the MC modules assert for TLC to evaluate
(`KeptIsOrderly`, `OthersAreNot`, `SteadyIsOrderly`, `OthersAreNotOrderly`,
`RollingIsOrderly`, `DisjointIsOrderly`, `CacheKeptIsOrderly`, `TablesAreTables`, each in the MC module of its component).

- `Orderly(Specs)`: a hostPath comes once in an ingress; an ingress that shares a
  hostPath with another has it in all its versions; and at a shared hostPath the two have
  different services. The first is broken by `Twice`, the second by `Crossing`, the third by
  `Twins`. Only objects the filters include count.
- `EpOrderly(Endpoints)`: a port comes once in an object, and in every version of it. Broken
  by `Overlapping` and `Scaled`.
- `CmOrderly(ConfigMaps)`: no two marked ConfigMaps name one record. Broken by `CmSharing`.
- `SniOrderly(Policies)`: the entries of the image with an fqdn differ in it; no policy names an fqdn of
  the image or of another policy; and all versions of a policy name the same fqdns. Broken by `SniDropping` and
  `SniSharing`.
- `CacheOrderly(CachePolicies)`: the image's lines differ; a policy has one rule to cache of a
  type; no such rule is contained in a line of the image or of another policy; and the
  rules with a ttl of one version of a policy have their type and pattern in every other. Broken by
  `CacheBeginning`, `CacheTwoOfAType` and `CacheGaining`.
- `Services \subseteq SvcKeys`: the service of every route is one that some Endpoints object
  lists. Broken by `MappedPort`. `~RedisMayFail`: the hook's ping is answered; it is a
  constant of the environment, and without it any request may end there.
- `StillSpec /\ IsTable(db1)` in `RequestProofs`: nothing writes while the hook runs, and
  the table's keys are whole hostPaths with finite sets. The three properties are about
  the hook alone; what it meets while the handlers write is `ControlPlaneProofs`' matter,
  which does not use them but the lemma that every match is asked for.

### The arguments

*Scripts* (`IngressProofs`). `ScriptBeforeRoute` is not inductive: whether a step keeps it
depends on the commands still to come. `ScriptInv` adds that the rest of the program is
*covered*: each command that puts the name of a script anywhere finds the script
present or added by an earlier command of the rest (`Covered`, `AddedBefore`,
`Present`). Lemmas show each program covered from any state, through the commands each loop
contributes (`AddsType`, `RemovesType`, `CopiesType`, `SwapType`) and the
concatenation lemma `ScriptFirstCovered`; `ExecKeepsScripts` is the step. A
command that fails makes the claim void. A broken object's program is a shorter one of the
same parts, so its lemma covers it. `Unroll` is a function, not a recursion, so that its
elements can be reasoned about (`UnrollElements`).

*Copies* (`IngressTableProofs`). No copy is there at rest because every copy that is there, or is
yet to be written, has its DEL still to come after its last write (`Dropped`, `Copies`).

*The table*. `Settled` speaks of the end of a callback only. `Final(db, cs, hp)` is what
hostPath `hp` will hold once the commands `cs` are issued on `db`; for each of the three programs
it is computed from the set of commands left (`AddFinal`, `UpdateFinal`, `DeleteFinal`). The
inductive invariant `Catching` says that it is what is wanted, as long as nothing is lost:
events establish it (`EventCatches`), where `Orderly` is needed to know that what other
ingresses want is neither removed nor overwritten (`OrderlyOthers`, `WantedChange`), and commands
keep it (`ExecCatches`). That this takes no more than one step per hostPath in an update
(`UpdateStep`) needs the order of update's program, in stages: copy aside, remove and add in the copy,
swap, drop the copy (`Sorted`, `UpdateSorted`). From these the step simulation of `LookupTable`
follows (`StepIsPromised`): an event is `Declare`, a command `Publish` or a stutter, a restart `Reset`,
and a loss `Lose`.

*Endpoints* (`EndpointProofs`). Here the callback is a loop, so the invariant follows it:
`EpOnItsWay` says which port it is at and which part of that port's turn is left,
`EpHalfway` what the key or its copy holds there and that every service port the loop has
passed, or that is another object's, has what is wanted. Between callbacks the table is what is
wanted (`EpFollows`). `EpOrderly` is needed because update and delete visit the ports of one
version only.

*The lookup* (`RequestProofs`). `LookupOrderIs` computes which hostPath comes at which place of the
order, by host and then by cut of the path. From it, two facts about all hosts and
paths of any length: every hostPath that matches is asked for (`MatchIsAsked`), and what is asked
for earlier is more specific (`FirstIsMostSpecific`, from `HostOrder` between hosts and
`TurnOrder` within one). The invariant `Serving` says of each phase what has been looked up
in vain (`SearchedIn`) and which members have been served and scripts run (`ServedIn`), and of
each outcome the member that is its reason (`Unserved`, `SentOn`, `Textless`).

*Requests under updates* (`ControlPlaneProofs`). The composition inherits the invariants of both
handlers (`BothHandlers`). Each property has an inductive invariant of its own on top:
`ScriptsHeld` (the scripts a request is going to ask for are present), `ListedFirst` (an
address that can be chosen was listed since the request came, and so was the one chosen for the last
service passed, `Sent`), `Versioned` (while only updates
run, each hostPath holds what some ingresses, each in one version, say) and `Counted` (every
hostPath counted on holds a service and has not been passed by, and every service has an
endpoint). All of them are about the time until something is lost, and the first needs no orderliness.

*ConfigMaps* (`ConfigurationProofs`). `CmPlanned`: what is left to set is what the stored ConfigMaps
give; `CmFollows`: a record that one of them names has its value or is still to be set.

*Loops* (`ConfigurationProofs`). The two policy handlers rewrite files in loops over sequences: `SniAdd`, `SniDelete`,
`Keep` and `ReplaceEach` are recursive functions of the pass. What they compute for every file and
every policy takes induction. The library's induction theorems are about a predicate, which
the provers cannot instantiate; but `WFMin`, that a well-founded relation has a least
element in every set that is not empty, is about a set, and `NatLessThanWellFounded` gives the relation.
From the two come `Least`, `SetInduction` and `LoopInduction` (a set that has 0 and, with the
number of a pass, the next, has the number of the last), and `LoopExists`: the function a
loop defines exists and has the values of its passes. The set is then, for each loop, the
passes after which what is wanted of the file holds: `SniAddFacts`, `SniDeleteFacts`, `KeepFacts`,
`ReplaceEachFacts`. `SniUpdateFacts` needs no induction.

*SNI policies*. `SniTyped`: files hold known entries, policies are filed under their names. `SniOnce`: the file
and what is about to be written have one entry per fqdn; an update would break it if its
order, chosen by the runtime, named an fqdn the file has, or one twice. `SniFollows`: what `sni.yaml` will be once the callback is
through (`SniComing`: what is about to be written until the rename, the file after) has what is asked for,
and Traffic Server has the file except between the rename and the reload. `SniOrderly` is needed where
an event takes one policy's entries out and puts another's in (`SniStoredTakes`): they are all that
changes. For `Snapshot` a reload of either handler is the one step to what is wanted when it finds the
new file, and a stutter when it finds the old one (`SniStepIsPromised`).

*Caching policies*. The file is not what is wanted while the callback runs, and loses everything in
between. The invariant is about where the operations left lead: `Leads(cacheFile, cacheTodo, ls)`, lines to
append or a file to write, and that `ls` has what the policies in the store ask for, each line once (`Holds`). Each
operation keeps it (`CacheFollows`); a reload of the other handler changes only what Traffic
Server has, about which the invariant says nothing until the callback is through. `AddHolds`, `UpdateHolds` and
`DeleteHolds` say what the three callbacks make of a file that holds what was asked for.

*Watcher* (`WatcherProofs`). `Passed`: all watches before the one Watch is at have synced.

*Relay* (`WatcherProofs`). Whatever users and the watch do, the handler of `Relay` takes steps of
`IngressHandler` (`RelaySteps`), so its theorems hold (`RelayIsIngressHandler`). `Told`: of every name the
watch has nothing to report of, the handler was last given what the API server has. `OwnScripts`: no version that is
not given yet has a script, and the script of a version in the store is that object's own, as are those about to be
written; this is why a version counted afresh after a restart finds no old text under its name. `Told`,
`OwnScripts` and `ScriptBeforeRoute` make up `RelayedAtRest`, for any ingresses, since it speaks of a
table that is what is wanted (`ServicesRelayed`, `ScriptsRelayed`). That the table is wanted at rest is
`Settled`, which takes orderly ingresses: with it `AllIsRelayed` follows.

### Assumptions on the constants

`SpecsAssumption` and `PathsAssumption` (rules and paths are sequences), `BoundsAssumption`,
`NoObjectAssumption`; `EndpointsAssumption` (ports and addresses are sequences),
`EpBoundsAssumption`, `NoEndpointsAssumption`; `RequestsAssumption` and `UrlsAssumption` (hosts and
paths are sequences, and a path begins with a slash, as HTTP has it), `NoTargetAssumption`,
`WatchedAssumption`; `PoliciesAssumption`, `SniFaultsAssumption`, `CachePoliciesAssumption`, `CacheFaultsAssumption` (what a
policy or the image has are sequences, patterns too, and no policy is the absent one); `RelayAssumption`; `ConfigMapsAssumption`, `RecordsAssumption`, `CmFaultsAssumption` (records are a function,
and a ConfigMap names finitely many of them); `CrashesAssumption`. Nothing is assumed of Redis
beyond `Apply`. TLC evaluates all of them.

### Only model-checked

Liveness: `RelaysUnbroken`, `EpHeals`, `SniHeals`, `CacheCatchesUp`, `CmHeals`, `HookReturns`,
`WatchCompletes`, and the part of the refinements that says a promise is caught up with
(`CatchesUp`, why `KeepsPromise`, `EpKeepsPromise`, `CmKeepsPromise` and `SniKeepsPromise` are proved only as far
as `SafeSpec`). It takes fairness and ENABLED, which are out of the prover's reach. Everything else a passing run
checks is a theorem. That `CacheOrderly`, `SniOrderly`, `Orderly` and their like are needed is shown by the instances
that miss them, for which TLC finds counterexamples (section 5).

## 5. What the violation runs show

- `ingress_crossing`: ingress A is updated and moves onto a hostPath only B had.
  update copies aside only the hostPaths of the *old* object, so the new one is
  built in an empty copy which then overwrites B's service
  (`handlerIngress.go:318`, `330`).
- `ingress_broken`: an ingress that Kubernetes accepts, with a rule without `http`,
  stops the controller (`handlerIngress.go:113`; `74` and `118` for a default backend that
  is no service). The next controller lists it again and
  stops again, and while it stays the ingress of somebody else, which is in
  order, is in Redis for moments only: it is not relayed as
  `docs/ARCHITECTURE.md:25` says.
- `endpoints_scaled`: the last pod of a service goes, the Endpoints object loses
  its subsets, update visits none (`handlerEndpoint.go:89`), and the old address
  stays. The tests are of two minds: `handlerEndpoint_test.go:153-172` expects an address
  that is no longer listed to go, `75-95` expects those of a port that is no longer listed to stay.
- `rolling_script`: a request between the SADD of a service and the SADD of the
  script's name (`handlerIngress.go:122`) reaches the service without the
  script, which `docs/TUTORIAL.md:47` says is executed.
- `sni_dropping`: a policy is updated and names one fqdn less. Update never looks
  at the old object (`handlerSni.go:148`, `182`), so the entry stays in effect;
  the test's comment (`handlerSni_test.go:95`) says old ones are removed, but it
  looks for a name it never added.
- `cache_beginning`: `url_regex=app1` is contained in `url_regex=app1/images`, so
  deleting the policy with the first deletes the other policy's rule
  (`handlerCache.go:188`), and updating it overwrites that rule (`131`); the tests
  (`handlerCache_test.go:83-84`, `119-120`) speak of the matching rule only.
- `watcher_stuck`: the caching policy's definition is not installed, its
  informer lists in vain, `WaitForCacheSync` has no timeout although the error the other
  watches return there speaks of one (`watcher.go:130`; its own, `197`, of a failure to sync), and
  SNI policies are never watched.

Eight more cases break a property and have no run of their own; their
instances are in the MC modules, to be put in the place of the one in the cfg:

- `Specs <- Twice` in `MCIngressCrossing.cfg`: an ingress with two paths at one
  hostPath is updated. The second SUNIONSTORE into the copy brings back what was
  removed after the first (`handlerIngress.go:226`), and the first service stays.
- `Specs <- Twins` there: two ingresses send one hostPath to one service; deleting one
  removes the member both relied on (`handlerIngress.go:418`).
- `Endpoints <- Overlapping` in `MCEndpointsScaled.cfg` (`EpSettled`): two subsets have one
  port. add unites their addresses, update and every resync keep those of the last
  (`handlerEndpoint.go:99`).
- `CachePolicies <- CacheTwoOfAType` in `MCConfigBeginning.cfg`: `patternsToDelete`
  maps a type to one pattern (`handlerCache.go:180`), so of two `url_regex` rules
  only the last is deleted.
- `CachePolicies <- CacheGaining` there: update only overwrites lines it finds
  (`handlerCache.go:130`), so a rule a policy gains is not applied.
- `Policies <- SniSharing` in `MCConfigDropping.cfg`: two policies name one fqdn, and
  deleting one takes the entry of the other (`handlerSni.go:225`).
- `ConfigMaps <- CmSharing` in `MCConfig.cfg` (`CmKeepsPromise`): two marked ConfigMaps name
  one record, which goes to and fro (`handlerConfigmap.go:53`).
- `Endpoints <- MappedPort` with `Watched = {}` in `MCRolling.cfg` (`UpdatesLoseNoRequest`): a
  Service maps its port to another one of its pods. The ingress names the
  Service's (`handlerIngress.go:117`), the Endpoints object the pods', so the keys
  of the two databases never meet.

## 6. Plan

Done, in this order: `Redis`, `Filter`, `Keys`, `Ingress`, `IngressHandler` with
`LookupTable`, its proofs, `EndpointHandler`, `PathLookup`, `RequestPlugin`,
`ControlPlane`, `SniHandler`, `CacheHandler`, `ConfigMapHandler`, `Watcher`; then broken
ingresses, `Relay`, `Snapshot` and the refinements by the SNI and ConfigMap
handlers, the addresses a request is sent to, and the instances of section 5.

Then the proofs of section 4, component by component: the ingress handler, the lookup, the endpoints
handler, the requests that meet both handlers, ConfigMaps and the watcher, the SNI and the
caching policies, and what is relayed from the API server.

What is left is liveness. Short of a prover for it, the step that would bring it closer is a variant
for each handler, a measure that every step of a callback lowers and no other step raises, proved as an
action property.

Five hazards have no property, for the reasons `PROJECT.json` gives: scripts are kept
for ever, a route that moves from one key to another may be missed by a request
on its way, neither a `cache.config` lost half way nor the entries the image had in an
unreadable `sni.yaml` are restored before a restart, and
the ConfigMap handler does nothing on deletion. All five are steps of the models;
in each the code promises nothing that a property could hold it to.

Not modelled, and why:

- flag parsing, client construction and the signal handler: configuration; that a
  signal stops the controller at any point is `Stop` and the `Restart` actions.
- `bin/tls-config.sh`, `bin/records-config.sh`: they run once and write Traffic
  Server's configuration before any of the components runs. `bin/tls-reload.sh` is
  not started (`entry.sh` has it commented out).
- `proxy/fakeATS.go` and the test helpers of `util` and `redis`: used by tests only.
- the layout of YAML and of a `cache.config` line beyond what the handlers search
  in it; headers and cache keys in the hook.
- manifests, charts and example applications: data.
- Traffic Server's own behaviour beyond the hook, and client-go beyond the delivery
  of events: external.
