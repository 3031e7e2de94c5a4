------------------------------- MODULE MCRelay -------------------------------
(***************************************************************************)
(* Instances of Relay for TLC: the specs of MCIngress.                     *)
(***************************************************************************)
EXTENDS Relay, MCIngress

(* An ingress that moves onto another one's hostPath, or breaks. *)
Moving == Crossing \cup {[Shared("b", "lua1", <<>>) EXCEPT !.broken = TRUE]}

(* An ingress whose rule has no http block, and one that is in order. *)
Broken == {
    [Shared("a", "lua1", <<>>) EXCEPT !.broken = TRUE],
    Shared("b", NoSnippet, <<Rule(Host, <<"x">>, "Prefix", "s1")>>) }
=============================================================================
