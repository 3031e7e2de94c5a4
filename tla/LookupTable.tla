----------------------------- MODULE LookupTable -----------------------------
(***************************************************************************)
(* What the ingress and the endpoints handler each promise the request     *)
(* path, and the ConfigMap handler Traffic Server: a table that follows    *)
(* the declared objects one key at a time.  On its way from one            *)
(* declaration to the next a key never loses what both want of it and      *)
(* never shows what neither wants.                                         *)
(***************************************************************************)
CONSTANTS
    TableKeys, Contents,
    Initial   \* the table the container starts with

VARIABLES
    want,   \* what the declared objects ask of each key
    table,  \* what a request finds at each key
    lost    \* whether a command or an event was lost

lookupVars == <<want, table, lost>>

Tables == [TableKeys -> SUBSET Contents]

Init == want = Initial /\ table = Initial /\ ~lost

(* The objects change, once the table has caught up with the last change. *)
Declare ==
    /\ table = want
    /\ want' \in Tables
    /\ UNCHANGED <<table, lost>>

(* One key moves towards what is wanted. *)
Publish ==
    /\ \E k \in TableKeys :
        \E gone \in SUBSET (table[k] \ want[k]), come \in SUBSET (want[k] \ table[k]) :
            table' = [table EXCEPT ![k] = (@ \ gone) \cup come]
    /\ UNCHANGED <<want, lost>>

(* The container restarts with its table and lists again. *)
Reset == want' = Initial /\ table' = Initial /\ UNCHANGED lost

(* Nothing is promised once a command or an event is lost. *)
Lose == lost' /\ want' \in Tables /\ table' \in Tables

Next == Declare \/ Publish \/ Reset \/ Lose

CatchesUp == []<>(lost \/ table = want)

SafeSpec == Init /\ [][Next]_lookupVars

Spec == SafeSpec /\ CatchesUp
=============================================================================
