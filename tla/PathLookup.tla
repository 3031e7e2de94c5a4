----------------------------- MODULE PathLookup -----------------------------
(***************************************************************************)
(* The hostPaths the plugin asks DB One for, in order, until one is there  *)
(* (pluginats/connect_redis.lua).                                          *)
(***************************************************************************)
EXTENDS Keys

(* "foo.bar.com" falls back to "*.bar.com"; a host without a dot does not. *)
WildcardHosts(host) ==
    IF Len(host) > 1 THEN <<<<"*">> \o Tail(host)>> ELSE <<>>

(* Wrong: from the first "/" to the last. *)
PathPrefixesUpwards(path) ==
    [j \in 1..(2 * Len(path)) |->
        LET i == 2 * Len(path) + 1 - j IN
        SubSeq(path, 1, Len(path) - (i \div 2)) \o (IF i % 2 = 0 THEN Root ELSE <<>>)]

(* The path itself, then for each "/" from the last to the first the path  *)
(* up to it and, but for the first, the path before it.                    *)
PathPrefixes(path) ==
    [j \in 1..(2 * Len(path)) |->
        SubSeq(path, 1, Len(path) - (j \div 2)) \o (IF j % 2 = 0 THEN Root ELSE <<>>)]

(* For each host, the most specific first: the exact path, then prefixes. *)
LookupOrder(url) ==
    LET hosts == <<url.host>> \o WildcardHosts(url.host) \o <<AnyHost>>
        ForHost(h) ==
            <<HostPath(url.scheme, h, url.path, "Exact")>>
                \o [j \in DOMAIN PathPrefixes(url.path) |->
                        HostPath(url.scheme, h, PathPrefixes(url.path)[j], "Prefix")]
    IN  Unroll([i \in DOMAIN hosts |-> ForHost(hosts[i])], 1 + 2 * Len(url.path))
=============================================================================
