------------------------------ MODULE MCIngress ------------------------------
(***************************************************************************)
(* Instances of IngressHandler for TLC: sets of specs.                     *)
(***************************************************************************)
EXTENDS IngressHandler

Host  == <<"foo", "com">>
Wild  == <<"*", "com">>

Rule(host, path, type, service) ==
    [host |-> host, path |-> path, type |-> type, service |-> service, port |-> 80]

Backend(service) == [service |-> service, port |-> 80]

Ing(ns, snippet, backend, tls, rules) ==
    [ns |-> ns, name |-> "ing", class |-> "ats", snippet |-> snippet,
     backend |-> backend, tls |-> tls, rules |-> rules, broken |-> FALSE]

Shared(ns, snippet, rules) == Ing(ns, snippet, NoBackend, {}, rules)

(* The first two ingresses share a hostPath, which both keep.  The updates *)
(* of the first move its other routes between paths, kinds, schemes and    *)
(* services, give it a script and a default backend, and break it; those   *)
(* of the third take it out of the controller's class.                     *)
Common == Rule(Wild, <<"x">>, "Prefix", "s1")

Kept == {
    Shared("a", NoSnippet, <<Common, Rule(Host, <<"x">>, "Prefix", "s1")>>),
    Ing("a", "lua1", NoBackend, {Host},
        <<[Common EXCEPT !.service = "s2"], Rule(Host, <<>>, "Exact", "s1")>>),
    Ing("a", "lua2", Backend("s1"), {}, <<Common>>),
    Shared("b", "lua1", <<Common>>),
    [Shared("b", NoSnippet, <<Rule(Host, <<"y">>, "Prefix", "s1")>>) EXCEPT !.name = "other"],
    [Shared("b", NoSnippet, <<Rule(Host, <<"y">>, "Prefix", "s1")>>)
        EXCEPT !.name = "other", !.class = "other"],
    [Shared("a", "lua1", <<Common>>) EXCEPT !.broken = TRUE] }

(* An ingress that moves onto a hostPath another one has. *)
Crossing == {
    Shared("a", "lua1", <<Rule(Host, <<"x">>, "Prefix", "s1")>>),
    Shared("a", NoSnippet, <<Rule(Host, <<"y">>, "Prefix", "s1")>>),
    Shared("b", NoSnippet, <<Rule(Host, <<"x">>, "Prefix", "s1")>>) }

(* One ingress with two services at one hostPath.  Settled fails with it:   *)
(* the first of the two stays after the update.                            *)
Twice == {
    Shared("a", NoSnippet, <<Rule(Host, <<"x">>, "Prefix", "s1"), Rule(Host, <<"x">>, "Prefix", "s2")>>),
    Shared("a", NoSnippet, <<Rule(Host, <<"x">>, "Prefix", "s3")>>) }

(* Two ingresses of one namespace with the same service at one hostPath.   *)
(* Settled fails with it: deleting one removes the route of both.          *)
Twins == {
    Shared("a", NoSnippet, <<Rule(Host, <<"x">>, "Prefix", "s1")>>),
    [Shared("a", NoSnippet, <<Rule(Host, <<"x">>, "Prefix", "s1")>>) EXCEPT !.name = "twin"] }

(* The hypothesis of the theorems about the table holds of the ingresses   *)
(* the runs check, and of none of those that break it.                     *)
ASSUME KeptIsOrderly == Orderly(Kept)
ASSUME OthersAreNot == ~Orderly(Crossing) /\ ~Orderly(Twice) /\ ~Orderly(Twins)
=============================================================================
