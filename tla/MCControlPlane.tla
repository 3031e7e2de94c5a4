--------------------------- MODULE MCControlPlane ---------------------------
(***************************************************************************)
(* Instances of ControlPlane for TLC.                                      *)
(***************************************************************************)
EXTENDS ControlPlane

Host == <<"foo", "com">>

Ing(snippet, port) ==
    [ns |-> "a", name |-> "ing", class |-> "ats", snippet |-> snippet,
     backend |-> NoBackend, tls |-> {}, broken |-> FALSE,
     rules |-> <<[host |-> Host, path |-> <<"x">>, type |-> "Prefix", service |-> "s", port |-> port]>>]

Eps(numbers, addr) ==
    [ns |-> "a", name |-> "s",
     ports |-> [i \in DOMAIN numbers |-> [port |-> numbers[i], name |-> "main", addrs |-> <<addr>>]]]

(* One ingress that moves between the ports of a service and between       *)
(* scripts.                                                                *)
Rolling == {Ing("lua1", 80), Ing("lua2", 81)}

(* The service rolls its pods. *)
RollingEndpoints == {Eps(<<80, 81>>, "ip1"), Eps(<<80, 81>>, "ip2")}

(* What the theorems of ControlPlaneProofs ask of them. *)
ASSUME RollingIsOrderly ==
    /\ Orderly(Rolling)
    /\ EpOrderly(RollingEndpoints)
    /\ Specs = Rolling /\ Endpoints = RollingEndpoints => Services \subseteq SvcKeys

FirstPod == {<<<<"svc", SvcPort("a", "s", 80)>>, IPPort("ip1", 80, "main")>>}

(* A Service that maps its port 80 to the pods' 8080: the Endpoints object *)
(* lists 8080, the ingress names 80.  UpdatesLoseNoRequest fails with it   *)
(* (and Watched empty): no request for port 80 finds an endpoint.          *)
MappedPort == {Eps(<<8080, 81>>, "ip1"), Eps(<<8080, 81>>, "ip2")}

OneUrl == {[scheme |-> "http", host |-> Host, path |-> <<"x">>]}
=============================================================================
