----------------------------- MODULE RedisProofs -----------------------------
(***************************************************************************)
(* The lemmas that the proofs about both handlers of routes share: what is *)
(* left of a program after its first command, and what one command leaves  *)
(* of a database of sets.                                                  *)
(***************************************************************************)
EXTENDS Redis, Integers, Sequences, TLAPS

(* A function on 1..m is a sequence of length m. *)
LEMMA IsSequence ==
    ASSUME NEW S, NEW m \in Nat, NEW f \in [1..m -> S]
    PROVE  f \in Seq(S) /\ Len(f) = m
OBVIOUS

(* The empty sequence is the one of length 0. *)
LEMMA EmptyFacts == ASSUME NEW S, NEW s \in Seq(S) PROVE s = <<>> <=> Len(s) = 0
OBVIOUS

(* What is left of a sequence after its first element. *)
LEMMA TailFacts ==
    ASSUME NEW S, NEW s \in Seq(S), s # <<>>
    PROVE  /\ Len(s) \in Nat /\ Len(s) >= 1
           /\ Head(s) = s[1] /\ s[1] \in S
           /\ Tail(s) \in Seq(S)
           /\ Len(Tail(s)) = Len(s) - 1
           /\ \A j \in 1..Len(Tail(s)) : Tail(s)[j] = s[j + 1]
OBVIOUS

-----------------------------------------------------------------------------
(* What one command leaves of a database, command by command. *)

(* SADD. *)
LEMMA ApplySADD ==
    ASSUME NEW db, NEW k \in DOMAIN db, NEW m
    PROVE  /\ \A l \in DOMAIN db : l # k => Apply(db, SADD(k, m))[l] = db[l]
           /\ Apply(db, SADD(k, m))[k] = db[k] \cup {m}
BY DEF Apply, SADD

(* SREM. *)
LEMMA ApplySREM ==
    ASSUME NEW db, NEW k \in DOMAIN db, NEW m
    PROVE  /\ \A l \in DOMAIN db : l # k => Apply(db, SREM(k, m))[l] = db[l]
           /\ Apply(db, SREM(k, m))[k] = db[k] \ {m}
BY DEF Apply, SREM

(* SUNIONSTORE. *)
LEMMA ApplySUNIONSTORE ==
    ASSUME NEW db, NEW k \in DOMAIN db, NEW from
    PROVE  /\ \A l \in DOMAIN db : l # k => Apply(db, SUNIONSTORE(k, from))[l] = db[l]
           /\ Apply(db, SUNIONSTORE(k, from))[k] = db[from]
BY DEF Apply, SUNIONSTORE

(* DEL. *)
LEMMA ApplyDEL ==
    ASSUME NEW db, NEW k \in DOMAIN db
    PROVE  /\ \A l \in DOMAIN db : l # k => Apply(db, DEL(k))[l] = db[l]
           /\ Apply(db, DEL(k))[k] = {}
BY DEF Apply, DEL

(* A command over known keys and members keeps the database over them. *)
LEMMA ApplyType ==
    ASSUME NEW K, NEW M, NEW db \in [K -> SUBSET M], NEW c \in Command(K, M)
    PROVE  Apply(db, c) \in [K -> SUBSET M]
BY DEF Apply, Command

(* Two counters of what was lost. *)
LEMMA Sums ==
    ASSUME NEW a \in Nat, NEW b \in Nat
    PROVE  /\ a + b = 0 <=> a = 0 /\ b = 0
           /\ a + b > 0 <=> a # 0 \/ b # 0
OBVIOUS
=============================================================================
