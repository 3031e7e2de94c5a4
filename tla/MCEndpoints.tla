----------------------------- MODULE MCEndpoints -----------------------------
(***************************************************************************)
(* Instances of EndpointHandler for TLC.                                   *)
(***************************************************************************)
EXTENDS EndpointHandler

Port(number, name, addrs) == [port |-> number, name |-> name, addrs |-> addrs]

Eps(ns, name, ports) == [ns |-> ns, name |-> name, ports |-> ports]

(* Services that keep their ports: the first goes from two addresses to    *)
(* others and to a port with none ready; the second is in another included *)
(* namespace and has two ports; the third is in an ignored namespace.      *)
Steady == {
    Eps("a", "s1", <<Port(80, "main", <<"ip1", "ip2">>)>>),
    Eps("a", "s1", <<Port(80, "main", <<"ip2", "ip3">>)>>),
    Eps("a", "s1", <<Port(80, "main", <<>>)>>),
    Eps("b", "s1", <<Port(80, "main", <<"ip1">>), Port(443, "https", <<"ip1">>)>>),
    Eps("b", "s1", <<Port(80, "main", <<"ip2">>), Port(443, "https", <<"ip2">>)>>),
    Eps("kube-system", "s1", <<Port(80, "main", <<"ip1">>)>>) }

(* A service whose pods all go away: Kubernetes then lists no subset.      *)
Scaled == {
    Eps("a", "s1", <<Port(80, "main", <<"ip1", "ip2">>)>>),
    Eps("a", "s1", <<Port(80, "main", <<"ip1">>)>>),
    Eps("a", "s1", <<>>) }

(* Two subsets with one port.  EpSettled fails with it: add unites their   *)
(* addresses, the update, or a resync, keeps those of the last.            *)
Overlapping == {
    Eps("a", "s1", <<Port(80, "main", <<"ip1">>), Port(80, "main", <<"ip2">>)>>) }

(* The hypothesis of the theorems about the table holds of the services    *)
(* the runs check, and of none of those that break it.                     *)
ASSUME SteadyIsOrderly == EpOrderly(Steady)
ASSUME OthersAreNotOrderly == ~EpOrderly(Scaled) /\ ~EpOrderly(Overlapping)
=============================================================================
