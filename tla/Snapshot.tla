------------------------------ MODULE Snapshot ------------------------------
(***************************************************************************)
(* What the SNI policy handler promises Traffic Server: a configuration    *)
(* that follows the declared objects as a whole.  Unlike with LookupTable  *)
(* there is nothing to see on the way from one declaration to the next.    *)
(***************************************************************************)
CONSTANTS
    Entries,
    Initial   \* the configuration the container starts with

VARIABLES
    want,     \* what the declared objects ask for
    loaded,   \* what is in effect
    lost      \* whether an operation failed

snapshotVars == <<want, loaded, lost>>

Init == want = Initial /\ loaded = Initial /\ ~lost

(* The objects change, once the last change is in effect. *)
Declare ==
    /\ loaded = want
    /\ want' \in SUBSET Entries
    /\ UNCHANGED <<loaded, lost>>

(* All of it takes effect. *)
Load == loaded' = want /\ UNCHANGED <<want, lost>>

(* The container restarts. *)
Reset == want' = Initial /\ loaded' = Initial /\ UNCHANGED lost

(* Nothing is promised once an operation failed. *)
Lose == lost' /\ want' \in SUBSET Entries /\ loaded' \in SUBSET Entries

Next == Declare \/ Load \/ Reset \/ Lose

CatchesUp == []<>(lost \/ loaded = want)

SafeSpec == Init /\ [][Next]_snapshotVars

Spec == SafeSpec /\ CatchesUp
=============================================================================
