-------------------------------- MODULE Keys --------------------------------
(***************************************************************************)
(* The strings that key the two databases (util/util.go).  A host is its   *)
(* sequence of labels and a path the sequence of what follows each "/", so *)
(* "/a/" is <<"a", "">>, "/" is <<"">> and the empty string <<>>.  Each    *)
(* string is a record of the parts it concatenates: no two tuples of parts *)
(* give one string, because namespaces, names and hosts are DNS names.     *)
(***************************************************************************)
EXTENDS Integers, Sequences

AnyHost == <<"*">>
Root    == <<"">>

HostPath(scheme, host, path, pathType) ==
    [kind   |-> IF pathType = "Prefix" THEN "P+" ELSE "E+",
     scheme |-> scheme,
     host   |-> host,
     path   |-> IF path = <<>> THEN Root ELSE path]

SvcPort(namespace, service, port) == <<namespace, service, port>>

(* The port's name stands for the protocol, and anything but "https" means *)
(* plain HTTP to the endpoint.                                             *)
IPPort(ip, port, protocol) ==
    <<ip, port, IF protocol # "https" THEN "http" ELSE protocol>>

NameVersion(namespace, name, version) == <<namespace, name, version>>

(* The concatenation of bodies of one length k: what a loop that appends   *)
(* a body per iteration has appended at its end.                           *)
Unroll(bodies, k) ==
    [j \in 1..(k * Len(bodies)) |-> bodies[1 + (j - 1) \div k][1 + ((j - 1) % k)]]
=============================================================================
