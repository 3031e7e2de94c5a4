---------------------------- MODULE CacheHandler ----------------------------
(***************************************************************************)
(* The caching policy handler (watcher/handlerCache.go), its informer,     *)
(* cache.config and what Traffic Server has loaded of it.  The file is     *)
(* written in place, one operation per step.                               *)
(*                                                                         *)
(* A line is [type, pattern, ttl]; lines of other kinds differ from those  *)
(* of rules in their type.  A pattern is a sequence of parts.  A rule is a *)
(* line with an action; a policy is [name, rules], where rules is a        *)
(* sequence or NoRules when spec.rules is not there.  A rule without a ttl *)
(* has NoTtl.                                                              *)
(***************************************************************************)
EXTENDS Integers, FiniteSets, SequencesExt

CONSTANTS
    CachePolicies,   \* the policies users may declare
    NoCachePolicy,   \* no policy of that name
    NoRules,         \* no spec.rules
    NoTtl,           \* no ttl in a rule
    ImageLines,      \* the lines of the container image's cache.config
    MaxCacheFaults   \* bound on the reads, appends and reloads that fail

RangeOf(seq) == {seq[i] : i \in DOMAIN seq}

ASSUME CacheFaultsAssumption == MaxCacheFaults \in Nat
ASSUME CachePoliciesAssumption ==
    /\ NoCachePolicy \notin CachePolicies
    /\ ImageLines \in Seq(RangeOf(ImageLines))
    /\ \A p \in CachePolicies : p.rules # NoRules =>
            /\ p.rules \in Seq(RangeOf(p.rules))
            /\ \A r \in RangeOf(p.rules) : r.pattern \in Seq(RangeOf(r.pattern))

CacheNames == {p.name : p \in CachePolicies}

VARIABLES
    cacheFile,    \* the lines of cache.config
    atsCache,     \* the lines Traffic Server has loaded
    cacheStore,   \* the informer's store: the policy of each name
    cacheTodo,    \* the operations the callback has left
    cacheFaults   \* how many operations failed

cacheVars == <<cacheFile, atsCache, cacheStore, cacheTodo, cacheFaults>>

CacheIdle == cacheTodo = <<>>

CacheInit ==
    /\ cacheFile = ImageLines
    /\ atsCache = ImageLines
    /\ cacheStore = [n \in CacheNames |-> NoCachePolicy]
    /\ cacheTodo = <<>>
    /\ cacheFaults = 0

-----------------------------------------------------------------------------
(* The operations of a callback. *)
AppendLine(line) == [op |-> "append", lines |-> <<line>>]
Truncate         == [op |-> "truncate", lines |-> <<>>]
WriteLines(ls)   == [op |-> "write", lines |-> ls]
Reload           == [op |-> "reload", lines |-> <<>>]

Line(r) == [type |-> r.type, pattern |-> r.pattern, ttl |-> r.ttl]

(* strings.Contains(line, "type=pattern"): no type of rule ends in another *)
(* and a pattern may go on in the line.                                    *)
LineContains(line, r) == line.type = r.type /\ IsPrefix(r.pattern, line.pattern)

(* The rules add and update look at; delete asks for no ttl. *)
Complete(r) == r.action = "cache" /\ r.ttl # NoTtl

(* The elements of a sequence that are in S, in their order. *)
Keep(seq, S) ==
    LET kept[i \in 0..Len(seq)] ==
            IF i = 0 THEN <<>>
            ELSE IF seq[i] \in S THEN Append(kept[i - 1], seq[i]) ELSE kept[i - 1]
    IN  kept[Len(seq)]

CompleteRules(rules) == Keep(rules, {r \in RangeOf(rules) : Complete(r)})

(* Wrong: rules that are not to be cached are written too. *)
AddsEveryRule(rules) ==
    [i \in DOMAIN rules |-> AppendLine(rules[i])] \o <<Reload>>

CacheAdd(rules) ==
    LET complete == CompleteRules(rules)
    IN  [i \in DOMAIN complete |-> AppendLine(Line(complete[i]))] \o <<Reload>>

(* A rule takes the place of the first line that contains it, if any. *)
ReplaceFirst(lines, r) ==
    LET i == SelectInSeq(lines, LAMBDA line : LineContains(line, r))
    IN  IF i = 0 THEN lines ELSE [lines EXCEPT ![i] = Line(r)]

ReplaceEach(file, rules) ==
    LET lines[i \in 0..Len(rules)] ==
            IF i = 0 THEN file ELSE ReplaceFirst(lines[i - 1], rules[i])
    IN  lines[Len(rules)]

(* Wrong: Traffic Server reloads before the file is written. *)
ReloadsFirst(lines) == <<Reload, Truncate, WriteLines(lines)>>

Rewrite(lines) == <<Truncate, WriteLines(lines), Reload>>

CacheUpdate(rules) == Rewrite(ReplaceEach(cacheFile, CompleteRules(rules)))

(* Wrong: a line goes only when its ttl is the rule's as well. *)
DeletesExactLines(rules) ==
    {[r EXCEPT !.pattern = r.pattern \o <<r.ttl>>] : r \in {rules[i] : i \in DOMAIN rules}}

(* The map patternsToDelete: of the rules of one type the last. *)
ToDelete(rules) ==
    {rules[i] : i \in {i \in DOMAIN rules :
        /\ rules[i].action = "cache"
        /\ \A j \in (i + 1)..Len(rules) :
                rules[j].action = "cache" => rules[j].type # rules[i].type}}

CacheDelete(rules) ==
    Rewrite(Keep(cacheFile, {line \in RangeOf(cacheFile) :
                                \A r \in ToDelete(rules) : ~LineContains(line, r)}))

-----------------------------------------------------------------------------
(* The informer calls back; without spec.rules the callback returns, and   *)
(* so does one that cannot open or read the file.                          *)
CacheDeliver(rules, program) ==
    /\ CacheIdle
    /\ \/ rules = NoRules /\ UNCHANGED <<cacheTodo, cacheFaults>>
       \/ rules # NoRules /\ cacheTodo' = program /\ UNCHANGED cacheFaults
       \/ /\ rules # NoRules
          /\ cacheFaults < MaxCacheFaults
          /\ cacheFaults' = cacheFaults + 1
          /\ UNCHANGED cacheTodo
    /\ UNCHANGED <<cacheFile, atsCache>>

AddCachePolicy(p) ==
    /\ cacheStore[p.name] = NoCachePolicy
    /\ cacheStore' = [cacheStore EXCEPT ![p.name] = p]
    /\ CacheDeliver(p.rules, CacheAdd(p.rules))

(* A change of the policy, or its resync: update looks at the new object   *)
(* only.                                                                   *)
UpdateCachePolicy(p) ==
    /\ cacheStore[p.name] # NoCachePolicy
    /\ cacheStore' = [cacheStore EXCEPT ![p.name] = p]
    /\ CacheDeliver(p.rules, CacheUpdate(p.rules))

DeleteCachePolicy(n) ==
    /\ cacheStore[n] # NoCachePolicy
    /\ cacheStore' = [cacheStore EXCEPT ![n] = NoCachePolicy]
    /\ CacheDeliver(cacheStore[n].rules, CacheDelete(cacheStore[n].rules))

(* The next operation of the callback. *)
CacheExec ==
    /\ ~CacheIdle
    /\ LET next == Head(cacheTodo) IN
       /\ cacheFile' = CASE next.op = "append"   -> cacheFile \o next.lines
                         [] next.op = "truncate" -> <<>>
                         [] next.op = "write"    -> next.lines
                         [] next.op = "reload"   -> cacheFile
       /\ atsCache' = IF next.op = "reload" THEN cacheFile ELSE atsCache
    /\ cacheTodo' = Tail(cacheTodo)
    /\ UNCHANGED <<cacheStore, cacheFaults>>

(* An append or a reload fails: the handler logs it and goes on.  A write  *)
(* fails before it empties the file or after it, and then reloads.         *)
CacheFail ==
    /\ ~CacheIdle
    /\ cacheFaults < MaxCacheFaults
    /\ cacheFaults' = cacheFaults + 1
    /\ cacheTodo' = IF Head(cacheTodo).op \in {"truncate", "write"}
                    THEN <<Reload>> ELSE Tail(cacheTodo)
    /\ UNCHANGED <<cacheFile, atsCache, cacheStore>>

(* The SNI handler reloads Traffic Server whenever it likes, in the middle *)
(* of a callback too.                                                      *)
SniHandlerReloads ==
    /\ atsCache' = cacheFile
    /\ UNCHANGED <<cacheFile, cacheStore, cacheTodo, cacheFaults>>

(* The container starts again from its image; a missed deletion, whose     *)
(* cast panics, comes to this as well.                                     *)
CacheRestart ==
    /\ cacheFile' = ImageLines
    /\ atsCache' = ImageLines
    /\ cacheStore' = [n \in CacheNames |-> NoCachePolicy]
    /\ cacheTodo' = <<>>
    /\ UNCHANGED cacheFaults

CacheEvent ==
    \/ \E p \in CachePolicies : AddCachePolicy(p) \/ UpdateCachePolicy(p)
    \/ \E n \in CacheNames : DeleteCachePolicy(n)

CacheOther == CacheFail \/ SniHandlerReloads \/ CacheRestart

CacheNext == CacheEvent \/ CacheExec \/ CacheOther

CacheSpec == CacheInit /\ [][CacheNext]_cacheVars

(* The callback's goroutine keeps running. *)
CacheFairness == WF_cacheVars(CacheExec)

(* With -resyncPeriod a policy that stays in the store is delivered again  *)
(* and again; one without spec.rules is not looked at.                     *)
CacheHasWork(n) == cacheStore[n] # NoCachePolicy /\ cacheStore[n].rules # NoRules

CacheResync(n) == CacheHasWork(n) /\ UpdateCachePolicy(cacheStore[n])

CacheResyncs ==
    \A n \in CacheNames : <>[]CacheHasWork(n) => []<><<CacheResync(n)>>_cacheVars

CacheResyncSpec == CacheSpec /\ CacheFairness /\ CacheResyncs

-----------------------------------------------------------------------------
(* The lines the declared policies ask for. *)
AskedLines ==
    LET declared == {cacheStore[n] : n \in {n \in CacheNames : CacheHasWork(n)}}
    IN  UNION {{Line(r) : r \in RangeOf(CompleteRules(p.rules))} : p \in declared}

CacheLines ==
    LET rules == UNION {RangeOf(p.rules) : p \in {p \in CachePolicies : p.rules # NoRules}}
    IN  RangeOf(ImageLines) \cup {Line(r) : r \in rules}

(* Every variable holds a value of its kind. *)
CacheTypeOK ==
    /\ {cacheFile, atsCache} \subseteq Seq(CacheLines)
    /\ cacheStore \in [CacheNames -> CachePolicies \cup {NoCachePolicy}]
    /\ cacheTodo \in Seq([op : {"append", "truncate", "write", "reload"}, lines : Seq(CacheLines)])
    /\ cacheFaults \in 0..MaxCacheFaults

(* Policies with one rule to cache of a type, which keep their types and   *)
(* patterns, and none of which begins another's or is in the image.        *)
CachedOf(p) == IF p.rules = NoRules THEN {} ELSE {r \in RangeOf(p.rules) : r.action = "cache"}

CompleteOf(p) == {r \in CachedOf(p) : Complete(r)}

CacheOrderly(policies) ==
    /\ \A i, j \in DOMAIN ImageLines : i # j => ImageLines[i] # ImageLines[j]
    /\ \A p \in policies : p.rules # NoRules =>
            \A i, j \in DOMAIN p.rules :
                i # j /\ {p.rules[i], p.rules[j]} \subseteq CachedOf(p) =>
                    p.rules[i].type # p.rules[j].type
    /\ \A p \in policies : \A r \in CachedOf(p) :
            /\ \A line \in RangeOf(ImageLines) : ~LineContains(line, r)
            /\ \A q \in policies : \A s \in CompleteOf(q) :
                    p.name # q.name => ~LineContains(Line(s), r)
    /\ \A p, q \in policies : p.name = q.name =>
            \A r \in CompleteOf(p) :
                \E s \in CompleteOf(q) : s.type = r.type /\ s.pattern = r.pattern

(* Between callbacks Traffic Server runs with the lines the image had and  *)
(* those the policies ask for, each once, and with nothing else: a         *)
(* deletion "removes the matching caching rule [...] but keeps unrelated   *)
(* lines intact" (handlerCache_test.go:120).  No operation has failed.     *)
CacheSettled ==
    CacheIdle /\ cacheFaults = 0 =>
        /\ RangeOf(atsCache) = AskedLines \cup RangeOf(ImageLines)
        /\ Len(atsCache) = Cardinality(RangeOf(atsCache))

(* With resyncs a reload that failed is made up for: while a policy stays, *)
(* again and again Traffic Server runs with what the file says.            *)
CacheCatchesUp ==
    (\E n \in CacheNames : <>[]CacheHasWork(n)) => []<>(CacheIdle /\ atsCache = cacheFile)
=============================================================================
