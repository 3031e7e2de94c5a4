------------------------------ MODULE MCRequest ------------------------------
(***************************************************************************)
(* The plugin alone: every request below on every table of a few of the    *)
(* hostPaths below, databases that hold still.                             *)
(***************************************************************************)
EXTENDS RequestPlugin

Url(host, path) == [scheme |-> "http", host |-> host, path |-> path]

MCUrls == {
    Url(<<"foo", "com">>, <<"a", "b">>),
    Url(<<"foo", "com">>, <<"a", "">>),
    Url(<<"foo", "com">>, <<"">>),
    Url(<<"bar", "com">>, <<"a">>),
    Url(<<"localhost">>, <<"a", "b">>) }

MCHostPaths ==
    {HostPath("http", h, p, t) : h \in {<<"foo", "com">>, <<"*", "com">>, AnyHost},
                                 p \in {<<"a", "b">>, <<"a">>, <<"a", "">>, <<"">>},
                                 t \in {"Prefix", "Exact"}}
        \cup {HostPath("https", <<"foo", "com">>, <<"a">>, "Prefix")}

Svc1   == <<"svc", SvcPort("a", "s1", 80)>>
Svc2   == <<"svc", SvcPort("a", "s2", 80)>>
Script == <<"$", NameVersion("a", "ing", 1)>>

(* Two of the hostPaths are there; one has two services and a script, the  *)
(* text of which may be missing when it stands alone.                      *)
Tables(pairs, texts) ==
    {[k \in {<<"route", hp>> : hp \in MCHostPaths} \cup {Script} |->
        CASE k = <<"route", two[1]>> -> {Svc1, Svc2, Script}
          [] k = <<"route", two[2]>> -> {Svc1}
          [] k = Script -> texts
          [] OTHER -> {}] : two \in pairs}

MCTables ==
    Tables(MCHostPaths \X MCHostPaths, {<<"lua", "lua1">>})
        \cup Tables({<<hp, hp>> : hp \in MCHostPaths}, {})

(* The first service has two endpoints, the second one or none. *)
MCEndpoints ==
    {[k \in {Svc1, Svc2} |-> IF k = Svc1 THEN {"ip1", "ip2"} ELSE ips] : ips \in {{}, {"ip3"}}}

ASSUME TablesAreTables == \A db \in MCTables : IsTable(db)

(* StillSpec on those tables, with a hook that runs on. *)
MCInit ==
    /\ db0 \in MCEndpoints
    /\ db1 \in MCTables
    /\ RequestInit

MCSpec ==
    /\ MCInit
    /\ [][StillNext]_requestVars
    /\ WF_requestVars(StillNext /\ HookStep)
=============================================================================
