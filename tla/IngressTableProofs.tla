-------------------------- MODULE IngressTableProofs --------------------------
(***************************************************************************)
(* Theorems of IngressHandler about the table, for every set of specs and  *)
(* every bound: that update leaves no copy behind, and, for ingresses that *)
(* keep apart what they write (Orderly), that the table settles, that an   *)
(* update puts a hostPath in place in one command, and that the handler    *)
(* implements LookupTable's safety part.                                   *)
(*                                                                         *)
(* The argument looks at the set of the commands a callback has left, and  *)
(* at what the table will be once they are issued (Final): no command      *)
(* changes that, and every event makes it what is wanted.                  *)
(***************************************************************************)
EXTENDS IngressProofs

-----------------------------------------------------------------------------
(* The commands of a program. *)

Coming(cs) == {cs[j] : j \in 1..Len(cs)}

(* Those of a hostPath in update: the copy, the swap and the copy away. *)
CopyOf(hp) == SUNIONSTORE(TempKey(hp), RouteKey(hp))
SwapOf(hp) == SUNIONSTORE(RouteKey(hp), TempKey(hp))
DropOf(hp) == DEL(TempKey(hp))

(* The first command and the others. *)
LEMMA ComingFirst ==
    ASSUME NEW S, NEW cs \in Seq(S), cs # <<>>
    PROVE  Coming(cs) = {Head(cs)} \cup Coming(Tail(cs))
<1>1. /\ Len(cs) \in Nat /\ Len(cs) >= 1
      /\ Head(cs) = cs[1]
      /\ Len(Tail(cs)) = Len(cs) - 1
      /\ \A j \in 1..Len(Tail(cs)) : Tail(cs)[j] = cs[j + 1]
  BY TailFacts
<1>2. ASSUME NEW j \in 1..Len(cs), j # 1
      PROVE  cs[j] \in Coming(Tail(cs))
  <2>1. j - 1 \in 1..Len(Tail(cs)) /\ cs[j] = Tail(cs)[j - 1]
    BY <1>1, <1>2
  <2> QED BY <2>1 DEF Coming
<1>3. ASSUME NEW j \in 1..Len(Tail(cs))
      PROVE  Tail(cs)[j] \in Coming(cs)
  <2>1. j + 1 \in 1..Len(cs) /\ Tail(cs)[j] = cs[j + 1]
    BY <1>1
  <2> QED BY <2>1 DEF Coming
<1>4. Head(cs) \in Coming(cs)
  BY <1>1 DEF Coming
<1>5. \A c \in Coming(cs) : c = Head(cs) \/ c \in Coming(Tail(cs))
  BY <1>1, <1>2 DEF Coming
<1>6. \A c \in Coming(Tail(cs)) : c \in Coming(cs)
  BY <1>3 DEF Coming
<1> QED BY <1>4, <1>5, <1>6

(* One program after another. *)
LEMMA ConcatFacts ==
    ASSUME NEW S, NEW a \in Seq(S), NEW b \in Seq(S)
    PROVE  /\ a \o b \in Seq(S) /\ Len(a) \in Nat /\ Len(b) \in Nat
           /\ Len(a \o b) = Len(a) + Len(b)
           /\ \A j \in 1..Len(a) : (a \o b)[j] = a[j]
           /\ \A j \in 1..Len(b) : (a \o b)[Len(a) + j] = b[j]
           /\ \A j \in 1..Len(a \o b) : j \in 1..Len(a) \/ (j > Len(a) /\ j - Len(a) \in 1..Len(b)
                                                              /\ (a \o b)[j] = b[j - Len(a)])
OBVIOUS

LEMMA ComingConcat ==
    ASSUME NEW S, NEW a \in Seq(S), NEW b \in Seq(S)
    PROVE  Coming(a \o b) = Coming(a) \cup Coming(b)
<1>1. \A j \in 1..Len(a) : j \in 1..Len(a \o b) /\ (a \o b)[j] = a[j]
  BY ConcatFacts
<1>2. \A j \in 1..Len(b) : Len(a) + j \in 1..Len(a \o b) /\ (a \o b)[Len(a) + j] = b[j]
  BY ConcatFacts
<1>3. \A j \in 1..Len(a \o b) : (a \o b)[j] \in Coming(a) \cup Coming(b)
  BY ConcatFacts DEF Coming
<1>4. \A c \in Coming(a) : c \in Coming(a \o b)
  BY <1>1 DEF Coming
<1>5. \A c \in Coming(b) : c \in Coming(a \o b)
  BY <1>2 DEF Coming
<1>6. \A c \in Coming(a \o b) : c \in Coming(a) \cup Coming(b)
  BY <1>3 DEF Coming
<1> QED BY <1>4, <1>5, <1>6

(* Where Unroll puts the commands of its bodies. *)
LEMMA UnrollPositions ==
    ASSUME NEW bodies, NEW k \in 1..3, Len(bodies) \in Nat
    PROVE  /\ Len(Unroll(bodies, k)) = k * Len(bodies)
           /\ \A j \in 1..(k * Len(bodies)) :
                \E b \in 1..Len(bodies), p \in 1..k :
                    j = k * (b - 1) + p /\ Unroll(bodies, k)[j] = bodies[b][p]
           /\ \A b \in 1..Len(bodies), p \in 1..k :
                k * (b - 1) + p \in 1..(k * Len(bodies))
                /\ Unroll(bodies, k)[k * (b - 1) + p] = bodies[b][p]
<1> DEFINE n == Len(bodies)
<1>1. ASSUME NEW j \in 1..(k * n)
      PROVE  /\ 1 + ((j - 1) \div k) \in 1..n /\ 1 + ((j - 1) % k) \in 1..k
             /\ j = k * ((j - 1) \div k) + (1 + ((j - 1) % k))
  <2>1. CASE k = 1
    BY <1>1, <2>1
  <2>2. CASE k = 2
    BY <1>1, <2>2
  <2>3. CASE k = 3
    BY <1>1, <2>3
  <2> QED BY <2>1, <2>2, <2>3
<1>2. ASSUME NEW b \in 1..n, NEW p \in 1..k
      PROVE  /\ k * (b - 1) + p \in 1..(k * n)
             /\ 1 + ((k * (b - 1) + p - 1) \div k) = b
             /\ 1 + ((k * (b - 1) + p - 1) % k) = p
  <2>1. CASE k = 1
    BY <1>2, <2>1
  <2>2. CASE k = 2
    BY <1>2, <2>2
  <2>3. CASE k = 3
    BY <1>2, <2>3
  <2> QED BY <2>1, <2>2, <2>3
<1>3. k * n \in Nat
  OBVIOUS
<1>4. Unroll(bodies, k) = [j \in 1..(k * n) |-> bodies[1 + ((j - 1) \div k)][1 + ((j - 1) % k)]]
  BY DEF Unroll
<1>5. Len(Unroll(bodies, k)) = k * n
  <2> DEFINE f == [j \in 1..(k * n) |-> bodies[1 + ((j - 1) \div k)][1 + ((j - 1) % k)]]
  <2>1. f \in [1..(k * n) -> {f[j] : j \in 1..(k * n)}]
    OBVIOUS
  <2> HIDE DEF n, f
  <2>2. Len(f) = k * n
    BY <1>3, <2>1, IsSequence
  <2> QED BY <1>4, <2>2 DEF n, f
<1>6. ASSUME NEW j \in 1..(k * n)
      PROVE  \E b \in 1..n, p \in 1..k : j = k * (b - 1) + p /\ Unroll(bodies, k)[j] = bodies[b][p]
  <2> DEFINE b == 1 + ((j - 1) \div k)
             p == 1 + ((j - 1) % k)
  <2>1. Unroll(bodies, k)[j] = bodies[b][p]
    BY <1>4
  <2>2. b \in 1..n /\ p \in 1..k /\ j = k * (b - 1) + p
    BY <1>1
  <2> HIDE DEF b, p
  <2> QED BY <2>1, <2>2
<1>7. ASSUME NEW b \in 1..n, NEW p \in 1..k
      PROVE  Unroll(bodies, k)[k * (b - 1) + p] = bodies[b][p]
  <2> DEFINE at == k * (b - 1) + p
  <2>1. at \in 1..(k * n) /\ 1 + ((at - 1) \div k) = b /\ 1 + ((at - 1) % k) = p
    BY <1>2
  <2> HIDE DEF n, at
  <2>2. Unroll(bodies, k)[at] = bodies[1 + ((at - 1) \div k)][1 + ((at - 1) % k)]
    BY <1>4, <2>1
  <2> QED BY <2>1, <2>2 DEF at
<1> QED BY <1>2, <1>5, <1>6, <1>7

(* The commands come body by body, each from its first to its last. *)
Follows(cs, bodies, n, k) ==
    \A i, j \in 1..Len(cs) : i < j =>
        \E b, d \in 1..n, p, q \in 1..k :
            cs[i] = bodies[b][p] /\ cs[j] = bodies[d][q] /\ (b = d => p < q)

(* What a loop issues, and in which order. *)
LEMMA LoopFacts ==
    ASSUME NEW bodies, NEW k \in 1..3, Len(bodies) \in Nat
    PROVE  /\ \A c : c \in Coming(Unroll(bodies, k)) <=>
                        \E b \in 1..Len(bodies), p \in 1..k : c = bodies[b][p]
           /\ Follows(Unroll(bodies, k), bodies, Len(bodies), k)
<1> DEFINE U == Unroll(bodies, k)
           n == Len(bodies)
<1>1. /\ Len(U) = k * n
      /\ \A j \in 1..(k * n) : \E b \in 1..n, p \in 1..k : j = k * (b - 1) + p /\ U[j] = bodies[b][p]
      /\ \A b \in 1..n, p \in 1..k : k * (b - 1) + p \in 1..(k * n) /\ U[k * (b - 1) + p] = bodies[b][p]
  BY UnrollPositions, Zenon
<1> HIDE DEF U, n
<1>2. ASSUME NEW c \in Coming(U)
      PROVE  \E b \in 1..n, p \in 1..k : c = bodies[b][p]
  <2>1. PICK j \in 1..Len(U) : c = U[j]
    BY DEF Coming
  <2>2. j \in 1..(k * n)
    BY <1>1
  <2>3. \E b \in 1..n, p \in 1..k : U[j] = bodies[b][p]
    BY <1>1, <2>2
  <2> QED BY <2>1, <2>3
<1>3. \A b \in 1..n, p \in 1..k : bodies[b][p] \in Coming(U)
  BY <1>1 DEF Coming
<1>4. ASSUME NEW i \in 1..Len(U), NEW j \in 1..Len(U), i < j
      PROVE  \E b, d \in 1..n, p, q \in 1..k : U[i] = bodies[b][p] /\ U[j] = bodies[d][q] /\ (b = d => p < q)
  <2>1. PICK b \in 1..n, p \in 1..k : i = k * (b - 1) + p /\ U[i] = bodies[b][p]
    BY <1>1
  <2>2. PICK d \in 1..n, q \in 1..k : j = k * (d - 1) + q /\ U[j] = bodies[d][q]
    BY <1>1
  <2>3. b = d => p < q
    <3> SUFFICES ASSUME b = d PROVE p < q
      OBVIOUS
    <3> DEFINE base == k * (b - 1)
    <3>1. base \in Int /\ i = base + p /\ j = base + q
      BY <2>1, <2>2 DEF n
    <3> HIDE DEF base
    <3> QED BY <1>4, <3>1
  <2> QED BY <2>1, <2>2, <2>3
<1>5. \A c : c \in Coming(U) <=> \E b \in 1..n, p \in 1..k : c = bodies[b][p]
  BY <1>2, <1>3
<1>6. Follows(U, bodies, n, k)
  BY <1>4 DEF Follows
<1> QED BY <1>5, <1>6 DEF U, n

-----------------------------------------------------------------------------
(* What the loops of the handler issue about a hostPath. *)

(* Asks, route by route and entry by entry. *)
LEMMA AsksEntries ==
    ASSUME NEW o \in Objects, NEW hp
    PROVE  /\ \A m : m \in Asks(o, hp) <=>
                \E i \in 1..Len(Routes(o.spec)), j \in 1..Width(o) :
                    Routes(o.spec)[i].hp = hp /\ m = Entries(o, Routes(o.spec)[i])[j]
           /\ Asks(o, hp) \subseteq RouteMembers
           /\ Asks(o, hp) # {} <=> hp \in HostPathsOf(o.spec)
<1> DEFINE R == Routes(o.spec)
           there == {r \in {R[i] : i \in DOMAIN R} : r.hp = hp}
<1>1. o.spec \in Specs
  BY DEF Objects
<1>2. DOMAIN R = 1..Len(R) /\ Len(R) \in Nat
  BY <1>1, RoutesType
<1> HIDE DEF R
<1>3. Asks(o, hp) = {<<"svc", r.svc>> : r \in there}
                        \cup (IF there # {} /\ HasSnippet(o) THEN {ScriptKey(o)} ELSE {})
  BY DEF Asks, R
<1>4. \A r : r \in there <=> \E i \in 1..Len(R) : r = R[i] /\ R[i].hp = hp
  BY <1>2
<1> HIDE DEF there
<1>5. ASSUME NEW m
      PROVE  m \in Asks(o, hp) <=> \E i \in 1..Len(R), j \in 1..Width(o) :
                                        R[i].hp = hp /\ m = Entries(o, R[i])[j]
  <2>1. CASE HasSnippet(o)
    <3>1. \A r : Entries(o, r)[1] = <<"svc", r.svc>> /\ Entries(o, r)[2] = ScriptKey(o)
      BY <2>1 DEF Entries
    <3>2. Width(o) = 2
      BY <2>1 DEF Width
    <3> DEFINE services == {<<"svc", r.svc>> : r \in there}
               scripts  == IF there # {} THEN {ScriptKey(o)} ELSE {}
    <3>a. Asks(o, hp) = services \cup scripts
      BY <1>3, <2>1
    <3>b. m \in services <=> \E r \in there : m = <<"svc", r.svc>>
      OBVIOUS
    <3>c. m \in scripts <=> \E r \in there : m = ScriptKey(o)
      OBVIOUS
    <3> HIDE DEF services, scripts
    <3>3. m \in Asks(o, hp) <=> \E r \in there : m = <<"svc", r.svc>> \/ m = ScriptKey(o)
      BY <3>a, <3>b, <3>c
    <3>4. m \in Asks(o, hp) <=> \E i \in 1..Len(R) : R[i].hp = hp /\ (m = Entries(o, R[i])[1] \/ m = Entries(o, R[i])[2])
      <4>1. (\E r \in there : m = <<"svc", r.svc>> \/ m = ScriptKey(o))
              <=> \E i \in 1..Len(R) : R[i].hp = hp /\ (m = <<"svc", R[i].svc>> \/ m = ScriptKey(o))
        BY <1>4
      <4>2. \A i : /\ Entries(o, R[i])[1] = <<"svc", R[i].svc>>
                   /\ Entries(o, R[i])[2] = ScriptKey(o)
        BY <3>1
      <4> QED BY <3>3, <4>1, <4>2
    <3>5. \A i : (\E j \in 1..2 : m = Entries(o, R[i])[j]) <=> m = Entries(o, R[i])[1] \/ m = Entries(o, R[i])[2]
      <4>1. \A j : j \in 1..2 <=> j = 1 \/ j = 2
        OBVIOUS
      <4> QED BY <4>1
    <3> QED BY <3>2, <3>4, <3>5
  <2>2. CASE ~HasSnippet(o)
    <3>1. \A r : Entries(o, r)[1] = <<"svc", r.svc>>
      BY <2>2 DEF Entries
    <3>2. Width(o) = 1
      BY <2>2 DEF Width
    <3> DEFINE services == {<<"svc", r.svc>> : r \in there}
    <3>a. Asks(o, hp) = services
      BY <1>3, <2>2
    <3>b. m \in services <=> \E r \in there : m = <<"svc", r.svc>>
      OBVIOUS
    <3> HIDE DEF services
    <3>3. m \in Asks(o, hp) <=> \E r \in there : m = <<"svc", r.svc>>
      BY <3>a, <3>b
    <3>4. m \in Asks(o, hp) <=> \E i \in 1..Len(R) : R[i].hp = hp /\ m = Entries(o, R[i])[1]
      <4>1. (\E r \in there : m = <<"svc", r.svc>>) <=> \E i \in 1..Len(R) : R[i].hp = hp /\ m = <<"svc", R[i].svc>>
        BY <1>4
      <4>2. \A i : Entries(o, R[i])[1] = <<"svc", R[i].svc>>
        BY <3>1
      <4> QED BY <3>3, <4>1, <4>2
    <3>5. \A j : j \in 1..1 <=> j = 1
      OBVIOUS
    <3> QED BY <3>2, <3>4, <3>5
  <2> QED BY <2>1, <2>2
<1>6. Asks(o, hp) \subseteq RouteMembers
  BY <1>5, EntriesType DEF R
<1>7. Asks(o, hp) # {} <=> hp \in HostPathsOf(o.spec)
  <2>1. Asks(o, hp) # {} <=> there # {}
    BY <1>3
  <2>2. hp \in HostPathsOf(o.spec) <=> \E i \in 1..Len(R) : R[i].hp = hp
    BY <1>2 DEF HostPathsOf, R
  <2> QED BY <1>4, <2>1, <2>2
<1> QED BY <1>5, <1>6, <1>7 DEF R

(* The loop that adds. *)
LEMMA AddsComing ==
    ASSUME NEW o \in Objects, NEW tag \in {"route", "temp_"}, NEW c
    PROVE  c \in Coming(Adds(o, tag)) <=>
                \E hp \in HostPathsOf(o.spec) : \E m \in Asks(o, hp) : c = SADD(<<tag, hp>>, m)
<1> DEFINE R == Routes(o.spec)
           bodies == [i \in DOMAIN R |-> [j \in 1..Width(o) |-> SADD(<<tag, R[i].hp>>, Entries(o, R[i])[j])]]
<1>1. DOMAIN R = 1..Len(R) /\ Len(R) \in Nat /\ HostPathsOf(o.spec) = {R[i].hp : i \in 1..Len(R)}
  BY RoutesType DEF Objects, HostPathsOf
<1>2. Width(o) \in 1..3 /\ Len(bodies) = Len(R)
  BY <1>1, WidthType
<1>3. Adds(o, tag) = Unroll(bodies, Width(o))
  BY DEF Adds
<1>4. \A i \in 1..Len(R), j \in 1..Width(o) : bodies[i][j] = SADD(<<tag, R[i].hp>>, Entries(o, R[i])[j])
  BY <1>1
<1> HIDE DEF bodies
<1>5. c \in Coming(Adds(o, tag)) <=> \E i \in 1..Len(R), j \in 1..Width(o) : c = bodies[i][j]
  BY <1>1, <1>2, <1>3, LoopFacts
<1>6. \A hp : \A m : m \in Asks(o, hp) <=>
            \E i \in 1..Len(R), j \in 1..Width(o) : R[i].hp = hp /\ m = Entries(o, R[i])[j]
  BY AsksEntries
<1> HIDE DEF R
<1> DEFINE key(hp) == <<tag, hp>>
<1>7. \A i \in 1..Len(R), j \in 1..Width(o) : bodies[i][j] = SADD(key(R[i].hp), Entries(o, R[i])[j])
  BY <1>4
<1> HIDE DEF key
<1>8. c \in Coming(Adds(o, tag)) <=> \E hp \in HostPathsOf(o.spec) : \E m \in Asks(o, hp) : c = SADD(key(hp), m)
  BY <1>1, <1>5, <1>6, <1>7
<1> QED BY <1>8 DEF key

(* The loop that removes. *)
LEMMA RemovesComing ==
    ASSUME NEW o \in Objects, NEW c
    PROVE  c \in Coming(Removes(o)) <=>
                \E hp \in HostPathsOf(o.spec) : \E m \in Asks(o, hp) : c = SREM(RouteKey(hp), m)
<1> DEFINE R == Routes(o.spec)
           bodies == [i \in DOMAIN R |-> [j \in 1..Width(o) |-> SREM(RouteKey(R[i].hp), Entries(o, R[i])[j])]]
<1>1. DOMAIN R = 1..Len(R) /\ Len(R) \in Nat /\ HostPathsOf(o.spec) = {R[i].hp : i \in 1..Len(R)}
  BY RoutesType DEF Objects, HostPathsOf
<1>2. Width(o) \in 1..3 /\ Len(bodies) = Len(R)
  BY <1>1, WidthType
<1>3. Removes(o) = Unroll(bodies, Width(o))
  BY DEF Removes
<1>4. \A i \in 1..Len(R), j \in 1..Width(o) : bodies[i][j] = SREM(RouteKey(R[i].hp), Entries(o, R[i])[j])
  BY <1>1
<1> HIDE DEF bodies
<1>5. c \in Coming(Removes(o)) <=> \E i \in 1..Len(R), j \in 1..Width(o) : c = bodies[i][j]
  BY <1>1, <1>2, <1>3, LoopFacts
<1>6. \A hp : \A m : m \in Asks(o, hp) <=>
            \E i \in 1..Len(R), j \in 1..Width(o) : R[i].hp = hp /\ m = Entries(o, R[i])[j]
  BY AsksEntries
<1> HIDE DEF R
<1> QED BY <1>1, <1>4, <1>5, <1>6

(* The loop that copies aside and removes from the copies. *)
LEMMA CopiesComing ==
    ASSUME NEW o \in Objects, NEW c
    PROVE  c \in Coming(CopiesWithout(o)) <=>
                \E hp \in HostPathsOf(o.spec) :
                    c = CopyOf(hp) \/ \E m \in Asks(o, hp) : c = SREM(TempKey(hp), m)
<1> DEFINE R == Routes(o.spec)
           body(r, j) == IF j = 1 THEN SUNIONSTORE(TempKey(r.hp), RouteKey(r.hp))
                         ELSE SREM(TempKey(r.hp), Entries(o, r)[j - 1])
           bodies == [i \in DOMAIN R |-> [j \in 1..(1 + Width(o)) |-> body(R[i], j)]]
<1>1. DOMAIN R = 1..Len(R) /\ Len(R) \in Nat /\ HostPathsOf(o.spec) = {R[i].hp : i \in 1..Len(R)}
  BY RoutesType DEF Objects, HostPathsOf
<1>2. 1 + Width(o) \in 1..3 /\ Len(bodies) = Len(R) /\ Width(o) \in 1..2
  BY <1>1, WidthType
<1>3. CopiesWithout(o) = Unroll(bodies, 1 + Width(o))
  BY DEF CopiesWithout
<1>4. /\ \A i \in 1..Len(R) : bodies[i][1] = CopyOf(R[i].hp)
      /\ \A i \in 1..Len(R), j \in 1..Width(o) : bodies[i][j + 1] = SREM(TempKey(R[i].hp), Entries(o, R[i])[j])
  <2>1. \A i \in 1..Len(R), j \in 1..(1 + Width(o)) : bodies[i][j] = body(R[i], j)
    BY <1>1
  <2>2. 1 \in 1..(1 + Width(o)) /\ \A j \in 1..Width(o) : j + 1 \in 1..(1 + Width(o)) /\ j + 1 # 1 /\ (j + 1) - 1 = j
    BY <1>2
  <2> HIDE DEF bodies, R
  <2> QED BY <2>1, <2>2 DEF CopyOf
<1> HIDE DEF bodies
<1>5. c \in Coming(CopiesWithout(o)) <=> \E i \in 1..Len(R), j \in 1..(1 + Width(o)) : c = bodies[i][j]
  BY <1>1, <1>2, <1>3, LoopFacts
<1>6. \A hp : \A m : m \in Asks(o, hp) <=>
            \E i \in 1..Len(R), j \in 1..Width(o) : R[i].hp = hp /\ m = Entries(o, R[i])[j]
  BY AsksEntries
<1> HIDE DEF R
<1>7. c \in Coming(CopiesWithout(o)) <=>
            \E i \in 1..Len(R) : c = bodies[i][1] \/ \E j \in 1..Width(o) : c = bodies[i][j + 1]
  <2>1. \A j \in 1..(1 + Width(o)) : j = 1 \/ (j - 1 \in 1..Width(o) /\ j = (j - 1) + 1)
    BY <1>2
  <2>2. 1 \in 1..(1 + Width(o)) /\ \A j \in 1..Width(o) : j + 1 \in 1..(1 + Width(o))
    BY <1>2
  <2> QED BY <1>5, <2>1, <2>2
<1> QED BY <1>1, <1>4, <1>6, <1>7

(* The loop that puts the copies in place. *)
LEMMA SwapComing ==
    ASSUME NEW S, NEW order \in Seq(S), NEW c
    PROVE  c \in Coming(Swap(order)) <=> \E hp \in Coming(order) : c \in {SwapOf(hp), DropOf(hp)}
<1> DEFINE bodies == [i \in DOMAIN order |-> <<SUNIONSTORE(RouteKey(order[i]), TempKey(order[i])),
                                               DEL(TempKey(order[i]))>>]
<1>1. DOMAIN order = 1..Len(order) /\ Len(order) \in Nat /\ Len(bodies) = Len(order)
  OBVIOUS
<1>2. Swap(order) = Unroll(bodies, 2)
  BY DEF Swap
<1>3. \A i \in 1..Len(order) : bodies[i][1] = SwapOf(order[i]) /\ bodies[i][2] = DropOf(order[i])
  BY <1>1 DEF SwapOf, DropOf
<1> HIDE DEF bodies
<1>4. c \in Coming(Swap(order)) <=> \E i \in 1..Len(order), j \in 1..2 : c = bodies[i][j]
  BY <1>1, <1>2, LoopFacts
<1>5. \A j : j \in 1..2 <=> j = 1 \/ j = 2
  OBVIOUS
<1> QED BY <1>3, <1>4, <1>5 DEF Coming

-----------------------------------------------------------------------------
(* The keys and the events. *)

(* The keys of hostPaths, of their copies and of scripts are apart.        *)
LEMMA HostKeysApart ==
    ASSUME NEW hp \in HostPaths, NEW other \in HostPaths
    PROVE  /\ RouteKey(hp) \in DBOneKeys /\ TempKey(hp) \in DBOneKeys
           /\ RouteKey(hp) \notin ScriptKeys /\ TempKey(hp) \notin ScriptKeys
           /\ RouteKey(hp) # TempKey(other)
           /\ RouteKey(hp) = RouteKey(other) => hp = other
           /\ TempKey(hp) = TempKey(other) => hp = other
<1>1. /\ RouteKey(hp) \in DBOneKeys /\ TempKey(hp) \in DBOneKeys
      /\ RouteKey(hp) \notin ScriptKeys /\ TempKey(hp) \notin ScriptKeys
  BY KeysApart
<1>2. RouteKey(hp) # TempKey(other)
  BY DEF RouteKey, TempKey
<1>3. RouteKey(hp) = RouteKey(other) => hp = other
  BY DEF RouteKey
<1>4. TempKey(hp) = TempKey(other) => hp = other
  BY DEF TempKey
<1> QED BY <1>1, <1>2, <1>3, <1>4

(* The objects of the informer's store have the names they are stored by.  *)
StoreIds == \A n \in Ids : store[n] # NoObject => Id(store[n].spec) = n

(* The handler is going to panic over a broken object. *)
Doomed == \E n \in Ids : store[n] # NoObject /\ Panics(store[n])

(* The kinds of events, by the object they are about. *)
Begins(name, n, x, program) ==
    /\ event' = name
    /\ store' = [store EXCEPT ![n] = x]
    /\ todo' = program

BeginsAdd(n, o) ==
    store[n] = NoObject /\ Begins("add", n, o, AddProgram(o)) /\ missed' = missed

BeginsUpdate(n, o) ==
    /\ store[n] \in Objects
    /\ \E order \in SetToSeqs(Touched(store[n], o)) :
            Begins("update", n, o, UpdateProgram(store[n], o, order))
    /\ missed' = missed

BeginsDelete(n) ==
    /\ store[n] \in Objects
    /\ Begins("delete", n, NoObject, DeleteProgram(store[n]))
    /\ missed' = missed

Misses(n) == Begins("delete", n, NoObject, <<>>) /\ missed' = missed + 1

LEMMA EventKinds ==
    ASSUME TypeOK, StoreIds, IngressEvent
    PROVE  /\ todo = <<>> /\ ~Doomed /\ UNCHANGED <<db1, faults>>
           /\ \E n \in Ids :
                \/ \E o \in {o \in Objects : Id(o.spec) = n} : BeginsAdd(n, o) \/ BeginsUpdate(n, o)
                \/ BeginsDelete(n)
                \/ Misses(n)
<1> DEFINE Kinds == \E n \in Ids :
                \/ \E o \in {o \in Objects : Id(o.spec) = n} : BeginsAdd(n, o) \/ BeginsUpdate(n, o)
                \/ BeginsDelete(n)
                \/ Misses(n)
<1>1. \A s \in Specs : rv < MaxVersion =>
            Version(s) \in {o \in Objects : Id(o.spec) = Id(s)} /\ Id(s) \in Ids
  BY BoundsAssumption DEF TypeOK, Version, Objects, Ids
<1>2. ASSUME NEW name, NEW program, Deliver(name, program)
      PROVE  todo = <<>> /\ ~Doomed /\ UNCHANGED <<db1, faults>>
  BY <1>2 DEF Deliver, AtRest, Idle, Dying, Doomed
<1>3. ASSUME NEW s \in Specs, Add(s)
      PROVE  Kinds /\ todo = <<>> /\ ~Doomed /\ UNCHANGED <<db1, faults>>
  <2>1. Version(s) \in {o \in Objects : Id(o.spec) = Id(s)} /\ Id(s) \in Ids
    BY <1>1, <1>3 DEF Add
  <2>2. BeginsAdd(Id(s), Version(s))
    BY <1>3 DEF Add, Deliver, BeginsAdd, Begins
  <2> QED BY <1>2, <1>3, <2>1, <2>2 DEF Add
<1>4. ASSUME NEW s \in Specs, Update(s)
      PROVE  Kinds /\ todo = <<>> /\ ~Doomed /\ UNCHANGED <<db1, faults>>
  <2>1. Version(s) \in {o \in Objects : Id(o.spec) = Id(s)} /\ Id(s) \in Ids
    BY <1>1, <1>4 DEF Update
  <2>2. store[Id(s)] \in Objects
    BY <1>4, <2>1 DEF Update, TypeOK
  <2>3. BeginsUpdate(Id(s), Version(s))
    BY <1>4, <2>2 DEF Update, Deliver, BeginsUpdate, Begins
  <2> QED BY <1>2, <1>4, <2>1, <2>3 DEF Update
<1>5. ASSUME NEW n \in Ids, Resync(n)
      PROVE  Kinds /\ todo = <<>> /\ ~Doomed /\ UNCHANGED <<db1, faults>>
  <2>1. store[n] \in {o \in Objects : Id(o.spec) = n}
    BY <1>5 DEF Resync, TypeOK, StoreIds
  <2>2. store' = [store EXCEPT ![n] = store[n]]
    BY <1>5 DEF Resync, TypeOK
  <2>3. BeginsUpdate(n, store[n])
    BY <1>5, <2>1, <2>2 DEF Resync, Deliver, BeginsUpdate, Begins
  <2> QED BY <1>2, <1>5, <2>1, <2>3 DEF Resync
<1>6. ASSUME NEW n \in Ids, Delete(n)
      PROVE  Kinds /\ todo = <<>> /\ ~Doomed /\ UNCHANGED <<db1, faults>>
  <2>1. store[n] \in Objects
    BY <1>6 DEF Delete, TypeOK
  <2>2. BeginsDelete(n) \/ Misses(n)
    BY <1>6, <2>1 DEF Delete, Deliver, BeginsDelete, Misses, Begins
  <2>3. todo = <<>> /\ ~Doomed /\ UNCHANGED <<db1, faults>>
    BY <1>2, <1>6 DEF Delete
  <2> QED BY <2>2, <2>3
<1> QED BY <1>3, <1>4, <1>5, <1>6 DEF IngressEvent

(* The names stay with their objects. *)
LEMMA StoreIdsInductive ==
    /\ Init => StoreIds
    /\ TypeOK /\ StoreIds /\ [Next]_ingressVars => StoreIds'
<1>1. Init => StoreIds
  BY DEF Init, StoreIds
<1>2. ASSUME TypeOK, StoreIds, [Next]_ingressVars
      PROVE  StoreIds'
  <2>1. CASE IngressEvent
    <3>1. PICK n \in Ids, x \in Objects \cup {NoObject} :
                store' = [store EXCEPT ![n] = x] /\ (x # NoObject => Id(x.spec) = n)
      BY <1>2, <2>1, EventKinds DEF BeginsAdd, BeginsUpdate, BeginsDelete, Misses, Begins
    <3> QED BY <1>2, <3>1 DEF StoreIds, TypeOK
  <2>2. CASE Exec
    BY <1>2, <2>2 DEF Exec, StoreIds
  <2>3. CASE Panic \/ Restart
    BY <2>3 DEF Panic, Restart, StoreIds
  <2>4. CASE UNCHANGED ingressVars
    BY <1>2, <2>4 DEF ingressVars, StoreIds
  <2> QED BY <1>2, <2>1, <2>2, <2>3, <2>4 DEF Next
<1> QED BY <1>1, <1>2

-----------------------------------------------------------------------------
(* No copy outlives update. *)

(* Whatever a program writes into a copy it takes away.                    *)
Dropped(cs) ==
    \A j \in 1..Len(cs), hp \in HostPaths :
        cs[j].key = TempKey(hp) => \E l \in j..Len(cs) : cs[l] = DropOf(hp)

(* The inductive invariant: a copy that is there, or will be, is about to  *)
(* go, unless update stops at the broken part of its object.               *)
Copies ==
    faults = 0 /\ ~Doomed =>
        /\ Dropped(todo)
        /\ \A hp \in HostPaths : db1[TempKey(hp)] # {} => DropOf(hp) \in Coming(todo)

(* A program that writes copies and then takes them away.                  *)
LEMMA DroppedByEnd ==
    ASSUME NEW S, NEW a \in Seq(S), NEW b \in Seq(S), Dropped(b),
           \A c \in Coming(a), hp \in HostPaths : c.key = TempKey(hp) => DropOf(hp) \in Coming(b)
    PROVE  Dropped(a \o b)
<1> SUFFICES ASSUME NEW j \in 1..Len(a \o b), NEW hp \in HostPaths, (a \o b)[j].key = TempKey(hp)
             PROVE  \E l \in j..Len(a \o b) : (a \o b)[l] = DropOf(hp)
  BY DEF Dropped
<1>1. /\ Len(a) \in Nat /\ Len(b) \in Nat /\ Len(a \o b) = Len(a) + Len(b)
      /\ \A l \in 1..Len(b) : (a \o b)[Len(a) + l] = b[l]
  BY ConcatFacts
<1>2. CASE j \in 1..Len(a)
  <2>1. a[j] \in Coming(a) /\ a[j].key = TempKey(hp)
    BY <1>2, ConcatFacts DEF Coming
  <2>2. PICK l \in 1..Len(b) : b[l] = DropOf(hp)
    BY <2>1 DEF Coming
  <2>3. Len(a) + l \in j..Len(a \o b)
    BY <1>1, <1>2
  <2> QED BY <1>1, <2>2, <2>3
<1>3. CASE j \notin 1..Len(a)
  <2>1. j > Len(a) /\ j - Len(a) \in 1..Len(b) /\ b[j - Len(a)].key = TempKey(hp)
    BY <1>3, ConcatFacts
  <2>2. PICK l \in (j - Len(a))..Len(b) : b[l] = DropOf(hp)
    BY <2>1 DEF Dropped
  <2>3. Len(a) + l \in j..Len(a \o b) /\ l \in 1..Len(b)
    BY <1>1, <2>1
  <2> QED BY <1>1, <2>2, <2>3
<1> QED BY <1>2, <1>3

(* A program that writes no copy.                                          *)
NoCopies(cs) == \A c \in Coming(cs), hp \in HostPaths : c.key # TempKey(hp)

LEMMA NoCopiesDropped ==
    ASSUME NEW cs, NoCopies(cs)
    PROVE  Dropped(cs)
BY DEF NoCopies, Dropped, Coming

LEMMA ScriptComing ==
    ASSUME NEW o \in Objects, NEW c \in Coming(Script(o))
    PROVE  c.op = "SADD" /\ c.key \in ScriptKeys
<1>1. CASE HasSnippet(o)
  <2>1. c = SADD(ScriptKey(o), <<"lua", o.spec.snippet>>)
    BY <1>1 DEF Script, Coming
  <2> QED BY <1>1, <2>1 DEF SADD, ScriptKeys
<1>2. CASE ~HasSnippet(o)
  BY <1>2 DEF Script, Coming
<1> QED BY <1>1, <1>2

(* add and delete write none. *)
LEMMA AddWritesNoCopy ==
    ASSUME NEW o \in Objects
    PROVE  NoCopies(AddProgram(o)) /\ NoCopies(DeleteProgram(o))
<1>1. \A hp : hp \in HostPathsOf(o.spec) => hp \in HostPaths
  BY DEF Objects, HostPaths
<1>2. ASSUME NEW c \in Coming(Script(o)), NEW hp \in HostPaths
      PROVE  c.key # TempKey(hp)
  BY <1>2, ScriptComing, HostKeysApart
<1>3. ASSUME NEW c \in Coming(Adds(o, "route")), NEW hp \in HostPaths
      PROVE  c.key # TempKey(hp)
  <2>1. PICK other \in HostPathsOf(o.spec) : \E m : c = SADD(<<"route", other>>, m)
    BY AddsComing
  <2> QED BY <2>1 DEF SADD, TempKey
<1>4. ASSUME NEW c \in Coming(Removes(o)), NEW hp \in HostPaths
      PROVE  c.key # TempKey(hp)
  <2>1. PICK other \in HostPathsOf(o.spec) : \E m : c = SREM(RouteKey(other), m)
    BY RemovesComing
  <2> QED BY <2>1 DEF SREM, RouteKey, TempKey
<1>5. Script(o) \in Seq(Commands) /\ Adds(o, "route") \in Seq(Commands)
  BY ScriptType, AddsType, HarmlessMonotonic
<1>6. Coming(Script(o) \o Adds(o, "route")) = Coming(Script(o)) \cup Coming(Adds(o, "route"))
  BY <1>5, ComingConcat
<1>7. Coming(<<>>) = {}
  BY DEF Coming
<1> QED BY <1>2, <1>3, <1>4, <1>6, <1>7 DEF NoCopies, AddProgram, DeleteProgram

(* The parts of update: what precedes the last loop, and the loop.         *)
Preparation(old, new) ==
    (IF Included(old) THEN CopiesWithout(old) ELSE <<>>)
        \o (IF Included(new) THEN Script(new) \o Adds(new, "temp_") ELSE <<>>)

LEMMA UpdateParts ==
    ASSUME NEW old \in Objects, NEW new \in Objects, NEW order \in SetToSeqs(Touched(old, new))
    PROVE  /\ Preparation(old, new) \in Seq(Commands)
           /\ Swap(order) \in Seq(Commands)
           /\ UpdateProgram(old, new, order)
                = IF Panics(new) THEN Preparation(old, new) ELSE Preparation(old, new) \o Swap(order)
           /\ \A c : c \in Coming(Preparation(old, new)) <=>
                \/ Included(old) /\ c \in Coming(CopiesWithout(old))
                \/ Included(new) /\ c \in Coming(Script(new))
                \/ Included(new) /\ c \in Coming(Adds(new, "temp_"))
           /\ \A c : c \in Coming(Swap(order)) <=>
                \E hp \in Touched(old, new) : c \in {SwapOf(hp), DropOf(hp)}
<1> DEFINE one == IF Included(old) THEN CopiesWithout(old) ELSE <<>>
           two == IF Included(new) THEN Script(new) \o Adds(new, "temp_") ELSE <<>>
<1>1. CopiesWithout(old) \in Seq(Commands) /\ <<>> \in Seq(Commands)
  BY CopiesType, HarmlessMonotonic
<1>2. Script(new) \in Seq(Commands) /\ Adds(new, "temp_") \in Seq(Commands)
  BY ScriptType, AddsType, HarmlessMonotonic
<1>3. Script(new) \o Adds(new, "temp_") \in Seq(Commands)
  BY <1>2
<1>4. one \in Seq(Commands) /\ two \in Seq(Commands)
  BY <1>1, <1>3
<1>5. Swap(order) \in Seq(Commands)
  BY OrderType, SwapType, HarmlessMonotonic
<1>6. Preparation(old, new) = one \o two
  BY DEF Preparation
<1>7. UpdateProgram(old, new, order) = one \o two \o (IF Panics(new) THEN <<>> ELSE Swap(order))
  BY DEF UpdateProgram
<1>8. Coming(<<>>) = {}
  BY DEF Coming
<1>9. Coming(Script(new) \o Adds(new, "temp_")) = Coming(Script(new)) \cup Coming(Adds(new, "temp_"))
  BY <1>2, ComingConcat
<1>10. /\ \A c : c \in Coming(one) <=> Included(old) /\ c \in Coming(CopiesWithout(old))
       /\ \A c : c \in Coming(two) <=> Included(new) /\ c \in Coming(Script(new)) \cup Coming(Adds(new, "temp_"))
  BY <1>8, <1>9
<1> HIDE DEF one, two
<1>11. one \o two \in Seq(Commands) /\ one \o two \o <<>> = one \o two
  BY <1>4
<1>12. Coming(one \o two) = Coming(one) \cup Coming(two)
  BY <1>4, ComingConcat
<1>13. \A c : c \in Coming(Swap(order)) <=> \E hp \in Touched(old, new) : c \in {SwapOf(hp), DropOf(hp)}
  <2>1. order \in Seq(HostPaths) /\ Coming(order) = Touched(old, new)
    BY OrderType DEF Coming
  <2> QED BY <2>1, SwapComing
<1>14. UpdateProgram(old, new, order)
         = IF Panics(new) THEN Preparation(old, new) ELSE Preparation(old, new) \o Swap(order)
  BY <1>6, <1>7, <1>11
<1> QED BY <1>5, <1>6, <1>10, <1>11, <1>12, <1>13, <1>14

(* update drops every copy that it makes. *)
LEMMA UpdateDropsCopies ==
    ASSUME NEW old \in Objects, NEW new \in Objects, NEW order \in SetToSeqs(Touched(old, new)),
           ~Panics(new)
    PROVE  Dropped(UpdateProgram(old, new, order))
<1>1. /\ Preparation(old, new) \in Seq(Commands)
      /\ Swap(order) \in Seq(Commands)
      /\ UpdateProgram(old, new, order) = Preparation(old, new) \o Swap(order)
      /\ \A c : c \in Coming(Swap(order)) <=> \E hp \in Touched(old, new) : c \in {SwapOf(hp), DropOf(hp)}
  BY UpdateParts
<1>2. Touched(old, new) \subseteq HostPaths
  BY TouchedType
<1>3. Dropped(Swap(order))
  <2> SUFFICES ASSUME NEW j \in 1..Len(Swap(order)), NEW hp \in HostPaths, Swap(order)[j].key = TempKey(hp)
               PROVE  \E l \in j..Len(Swap(order)) : Swap(order)[l] = DropOf(hp)
    BY DEF Dropped
  <2>1. PICK other \in Touched(old, new) : Swap(order)[j] \in {SwapOf(other), DropOf(other)}
    BY <1>1 DEF Coming
  <2>2. SwapOf(other).key = RouteKey(other) /\ DropOf(other).key = TempKey(other)
    BY DEF SwapOf, DropOf, SUNIONSTORE, DEL
  <2>3. Swap(order)[j] = DropOf(hp)
    BY <1>2, <2>1, <2>2, HostKeysApart
  <2>4. j \in j..Len(Swap(order))
    BY <1>1
  <2> QED BY <2>3, <2>4
<1>4. ASSUME NEW c \in Coming(Preparation(old, new)), NEW hp \in HostPaths, c.key = TempKey(hp)
      PROVE  DropOf(hp) \in Coming(Swap(order))
  <2>1. hp \in Touched(old, new)
    <3>1. CASE Included(old) /\ c \in Coming(CopiesWithout(old))
      <4>1. PICK other \in HostPathsOf(old.spec) : c = CopyOf(other) \/ \E m : c = SREM(TempKey(other), m)
        BY <3>1, CopiesComing
      <4>2. c.key = TempKey(other)
        BY <4>1 DEF CopyOf, SUNIONSTORE, SREM
      <4>3. other \in Touched(old, new)
        BY <3>1 DEF Touched
      <4> QED BY <1>2, <1>4, <4>2, <4>3, HostKeysApart
    <3>2. CASE Included(new) /\ c \in Coming(Script(new))
      BY <1>4, <3>2, ScriptComing, HostKeysApart
    <3>3. CASE Included(new) /\ c \in Coming(Adds(new, "temp_"))
      <4>1. PICK other \in HostPathsOf(new.spec) : \E m : c = SADD(<<"temp_", other>>, m)
        BY <3>3, AddsComing
      <4>2. c.key = TempKey(other)
        BY <4>1 DEF SADD, TempKey
      <4>3. other \in Touched(old, new)
        BY <3>3 DEF Touched
      <4> QED BY <1>2, <1>4, <4>2, <4>3, HostKeysApart
    <3> QED BY <1>4, <3>1, <3>2, <3>3, UpdateParts
  <2> QED BY <1>1, <2>1
<1> QED BY <1>1, <1>3, <1>4, DroppedByEnd

(* A command leaves its copy to the commands behind it. *)
LEMMA ExecKeepsCopies ==
    ASSUME TypeOK, Copies, Exec
    PROVE  Copies'
<1> SUFFICES ASSUME faults' = 0, ~Doomed' PROVE Copies'
  BY DEF Copies
<1> DEFINE c == Head(todo)
<1>1. faults = 0 /\ ~Doomed /\ db1' = Apply(db1, c) /\ todo' = Tail(todo) /\ todo # <<>>
  BY DEF Exec, Succeeds, Fails, Doomed, Idle, TypeOK
<1>2. todo \in Seq(Commands) /\ db1 \in [DBOneKeys -> SUBSET (RouteMembers \cup Scripts)]
  BY DEF TypeOK
<1>3. /\ Len(todo) \in Nat /\ Len(todo) >= 1
      /\ c = todo[1] /\ c \in Commands
      /\ Len(todo') = Len(todo) - 1
      /\ \A j \in 1..Len(todo') : todo'[j] = todo[j + 1]
  BY <1>1, <1>2, TailFacts
<1>4. /\ Dropped(todo)
      /\ \A hp \in HostPaths : db1[TempKey(hp)] # {} => DropOf(hp) \in Coming(todo)
  BY <1>1 DEF Copies
<1>5. Coming(todo) = {c} \cup Coming(todo')
  BY <1>1, <1>2, ComingFirst
<1> HIDE DEF c
<1>6. Dropped(todo')
  <2> SUFFICES ASSUME NEW j \in 1..Len(todo'), NEW hp \in HostPaths, todo'[j].key = TempKey(hp)
               PROVE  \E l \in j..Len(todo') : todo'[l] = DropOf(hp)
    BY DEF Dropped
  <2>1. j + 1 \in 1..Len(todo) /\ todo[j + 1].key = TempKey(hp)
    BY <1>3
  <2>2. PICK l \in (j + 1)..Len(todo) : todo[l] = DropOf(hp)
    BY <1>4, <2>1 DEF Dropped
  <2>3. l - 1 \in j..Len(todo') /\ l - 1 \in 1..Len(todo') /\ (l - 1) + 1 = l
    BY <1>3, <2>1
  <2> QED BY <1>3, <2>2, <2>3
<1>7. ASSUME NEW hp \in HostPaths, db1'[TempKey(hp)] # {}
      PROVE  DropOf(hp) \in Coming(todo')
  <2>1. TempKey(hp) \in DBOneKeys
    BY HostKeysApart
  <2>2. c # DropOf(hp)
    <3>1. Apply(db1, DEL(TempKey(hp)))[TempKey(hp)] = {}
      BY <1>2, <2>1, ApplyDEL
    <3> QED BY <1>1, <1>7, <3>1 DEF DropOf
  <2>3. DropOf(hp) \in Coming(todo)
    <3>1. CASE c.key = TempKey(hp)
      <4>1. 1 \in 1..Len(todo) /\ todo[1].key = TempKey(hp)
        BY <1>3, <3>1
      <4>2. PICK l \in 1..Len(todo) : todo[l] = DropOf(hp)
        BY <1>4, <4>1 DEF Dropped
      <4> QED BY <4>2 DEF Coming
    <3>2. CASE c.key # TempKey(hp)
      <4>1. db1'[TempKey(hp)] = db1[TempKey(hp)]
        BY <1>1, <1>2, <2>1, <3>2 DEF Apply
      <4> QED BY <1>4, <1>7, <4>1
    <3> QED BY <3>1, <3>2
  <2> QED BY <1>5, <2>2, <2>3
<1> QED BY <1>6, <1>7 DEF Copies

LEMMA CopiesInductive ==
    /\ Init => Copies
    /\ TypeOK /\ StoreIds /\ Copies /\ [Next]_ingressVars => Copies'
<1>1. ASSUME Init
      PROVE  Copies
  <2>1. todo = <<>> /\ \A hp \in HostPaths : db1[TempKey(hp)] = {}
    BY <1>1, HostKeysApart DEF Init
  <2> QED BY <2>1 DEF Copies, Dropped
<1>2. ASSUME TypeOK, StoreIds, Copies, [Next]_ingressVars
      PROVE  Copies'
  <2>1. CASE IngressEvent
    <3> SUFFICES ASSUME faults' = 0, ~Doomed' PROVE Dropped(todo') /\ \A hp \in HostPaths : db1'[TempKey(hp)] = {}
      BY DEF Copies
    <3>1. todo = <<>> /\ ~Doomed /\ UNCHANGED <<db1, faults>>
      BY <1>2, <2>1, EventKinds
    <3>2. \A hp \in HostPaths : db1'[TempKey(hp)] = {}
      BY <1>2, <3>1 DEF Copies, Coming
    <3>3. PICK n \in Ids :
                \/ \E o \in {o \in Objects : Id(o.spec) = n} : BeginsAdd(n, o) \/ BeginsUpdate(n, o)
                \/ BeginsDelete(n)
                \/ Misses(n)
      BY <1>2, <2>1, EventKinds
    <3>4. ASSUME NEW o \in Objects, BeginsAdd(n, o)
          PROVE  Dropped(todo')
      BY <3>4, AddWritesNoCopy, NoCopiesDropped DEF BeginsAdd, Begins
    <3>5. ASSUME NEW o \in Objects, BeginsUpdate(n, o)
          PROVE  Dropped(todo')
      <4>1. PICK order \in SetToSeqs(Touched(store[n], o)) : todo' = UpdateProgram(store[n], o, order)
        BY <3>5 DEF BeginsUpdate, Begins
      <4>2. store'[n] = o /\ o # NoObject
        BY <1>2, <3>5, NoObjectAssumption DEF BeginsUpdate, Begins, TypeOK, Objects
      <4>3. ~Panics(o)
        BY <4>2 DEF Doomed
      <4>4. store[n] \in Objects
        BY <3>5 DEF BeginsUpdate
      <4> QED BY <4>1, <4>3, <4>4, UpdateDropsCopies
    <3>6. ASSUME BeginsDelete(n)
          PROVE  Dropped(todo')
      BY <3>6, AddWritesNoCopy, NoCopiesDropped DEF BeginsDelete, Begins
    <3>7. ASSUME Misses(n)
          PROVE  Dropped(todo')
      BY <3>7 DEF Misses, Begins, Dropped
    <3> QED BY <3>2, <3>3, <3>4, <3>5, <3>6, <3>7
  <2>2. CASE Exec
    BY <1>2, <2>2, ExecKeepsCopies
  <2>3. CASE Panic \/ Restart
    <3>1. todo' = <<>> /\ \A k \in DBOneKeys : db1'[k] = {}
      BY <1>2, <2>3 DEF Panic, Restart, FlushAll, TypeOK
    <3>2. \A hp \in HostPaths : db1'[TempKey(hp)] = {}
      BY <3>1, HostKeysApart
    <3> QED BY <3>1, <3>2 DEF Copies, Dropped
  <2>4. CASE UNCHANGED ingressVars
    BY <1>2, <2>4 DEF ingressVars, Copies, Doomed
  <2> QED BY <1>2, <2>1, <2>2, <2>3, <2>4 DEF Next
<1> QED BY <1>1, <1>2

(* As long as no command fails, no copy of a hostPath is left when the     *)
(* handler can take the next event, for every set of ingresses: a later    *)
(* update merges nothing old into its routes (handlerIngress.go:329-332).  *)
(* A broken object leaves its copies, and the panic takes them away.       *)
THEOREM NoCopyStays == Spec => []NoLeftoverTemp
<1>1. TypeOK /\ Copies => NoLeftoverTemp
  BY DEF Copies, NoLeftoverTemp, AtRest, Dying, Doomed, Idle, Coming
<1> QED BY <1>1, TypeCorrect, StoreIdsInductive, CopiesInductive, PTL DEF Spec

-----------------------------------------------------------------------------
(* What the ingresses ask for, ingress by ingress. *)

(* What an object, or none, asks for at a hostPath. *)
Owed(o, hp) ==
    IF o = NoObject THEN {} ELSE IF Included(o) THEN Asks(o, hp) ELSE {}

(* What the informer's store may be. *)
Stores == {st \in [Ids -> Objects \cup {NoObject}] :
                \A n \in Ids : st[n] # NoObject => Id(st[n].spec) = n}

(* Wanted of a store. *)
WantedBy(st) ==
    LET declared == {o \in {st[n] : n \in Ids} \ {NoObject} : Included(o)}
    IN  [hp \in HostPaths |-> UNION {Asks(o, hp) : o \in declared}]

(* What the ingresses other than the one of a name ask for. *)
Others(st, n, hp) == UNION {Owed(st[m], hp) : m \in Ids \ {n}}

(* Wanted is what one ingress asks for and what the others do. *)
LEMMA WantedSplit ==
    ASSUME NEW st \in Stores, NEW n \in Ids, NEW hp \in HostPaths
    PROVE  WantedBy(st)[hp] = Owed(st[n], hp) \cup Others(st, n, hp)
<1> DEFINE declared == {o \in {st[m] : m \in Ids} \ {NoObject} : Included(o)}
<1>1. WantedBy(st)[hp] = UNION {Asks(o, hp) : o \in declared}
  BY DEF WantedBy
<1>2. ASSUME NEW x, x \in WantedBy(st)[hp]
      PROVE  x \in Owed(st[n], hp) \cup Others(st, n, hp)
  <2>1. PICK o \in declared : x \in Asks(o, hp)
    BY <1>1, <1>2
  <2>2. PICK m \in Ids : o = st[m]
    BY <2>1
  <2>3. x \in Owed(st[m], hp)
    BY <2>1, <2>2 DEF Owed
  <2> QED BY <2>3 DEF Others
<1>3. ASSUME NEW x, NEW m \in Ids, x \in Owed(st[m], hp)
      PROVE  x \in WantedBy(st)[hp]
  <2>1. st[m] \in declared /\ x \in Asks(st[m], hp)
    BY <1>3 DEF Owed
  <2> QED BY <1>1, <2>1
<1>4. Owed(st[n], hp) \subseteq WantedBy(st)[hp]
  BY <1>3
<1>5. Others(st, n, hp) \subseteq WantedBy(st)[hp]
  BY <1>3 DEF Others
<1>6. WantedBy(st)[hp] \subseteq Owed(st[n], hp) \cup Others(st, n, hp)
  BY <1>2
<1> QED BY <1>4, <1>5, <1>6

(* What a change of one ingress makes of it. *)
LEMMA WantedChange ==
    ASSUME NEW st \in Stores, NEW next \in Stores, NEW n \in Ids, NEW hp \in HostPaths,
           \A m \in Ids : m # n => next[m] = st[m]
    PROVE  WantedBy(next)[hp] = Owed(next[n], hp) \cup Others(st, n, hp)
<1>1. \A m \in Ids \ {n} : Owed(next[m], hp) = Owed(st[m], hp)
  OBVIOUS
<1>2. Others(next, n, hp) = Others(st, n, hp)
  BY <1>1 DEF Others
<1> QED BY <1>2, WantedSplit

(* An object asks at the hostPaths of its routes, if it is included.       *)
LEMMA OwedType ==
    ASSUME NEW o \in Objects, NEW hp
    PROVE  /\ o # NoObject /\ o.spec \in Specs
           /\ Owed(o, hp) \subseteq RouteMembers
           /\ Owed(o, hp) # {} <=> hp \in HostPathsUsed(o.spec)
           /\ HostPathsUsed(o.spec) = IF Included(o) THEN HostPathsOf(o.spec) ELSE {}
           /\ hp \in HostPathsUsed(o.spec) => hp \in HostPaths
<1>1. o # NoObject /\ o.spec \in Specs
  BY NoObjectAssumption DEF Objects
<1>2. HostPathsUsed(o.spec) = IF Included(o) THEN HostPathsOf(o.spec) ELSE {}
  BY DEF HostPathsUsed, Included
<1>3. HostPathsOf(o.spec) \subseteq HostPaths
  BY <1>1 DEF HostPaths
<1> QED BY <1>1, <1>2, <1>3, AsksEntries DEF Owed

(* What two orderly ingresses ask for at one hostPath has nothing in       *)
(* common, and neither of them has moved there from another one.           *)
LEMMA OrderlyPair ==
    ASSUME Orderly(Specs), NEW o \in Objects, NEW u \in Objects, Id(o.spec) # Id(u.spec), NEW hp
    PROVE  /\ Owed(o, hp) \cap Owed(u, hp) = {}
           /\ \A v \in Objects : Id(v.spec) = Id(o.spec) /\ Owed(o, hp) # {} /\ Owed(u, hp) # {}
                    => Owed(v, hp) # {}
<1> SUFFICES ASSUME Owed(o, hp) # {}, Owed(u, hp) # {}
             PROVE  /\ Owed(o, hp) \cap Owed(u, hp) = {}
                    /\ \A v \in Objects : Id(v.spec) = Id(o.spec) => Owed(v, hp) # {}
  OBVIOUS
<1> DEFINE s == o.spec
           r == u.spec
<1>1. /\ s \in Specs /\ r \in Specs
      /\ hp \in HostPathsUsed(s) /\ hp \in HostPathsUsed(r)
      /\ Owed(o, hp) = Asks(o, hp) /\ Owed(u, hp) = Asks(u, hp)
  BY OwedType DEF Owed
<1>2. /\ \A t \in {t \in Specs : Id(t) = Id(s)} : HostPathsUsed(s) \cap HostPathsUsed(r) \subseteq HostPathsUsed(t)
      /\ \A i \in DOMAIN Routes(s), j \in DOMAIN Routes(r) :
                    Routes(s)[i].hp = Routes(r)[j].hp => Routes(s)[i].svc # Routes(r)[j].svc
  BY <1>1 DEF Orderly
<1>3. ASSUME NEW v \in Objects, Id(v.spec) = Id(s)
      PROVE  Owed(v, hp) # {}
  <2>1. v.spec \in Specs
    BY OwedType
  <2>2. hp \in HostPathsUsed(v.spec)
    BY <1>1, <1>2, <1>3, <2>1
  <2> QED BY <2>2, OwedType
<1>4. ASSUME NEW m \in Asks(o, hp), m \in Asks(u, hp)
      PROVE  FALSE
  <2>1. /\ DOMAIN Routes(s) = 1..Len(Routes(s)) /\ DOMAIN Routes(r) = 1..Len(Routes(r))
    BY <1>1, RoutesType
  <2>2. PICK i \in DOMAIN Routes(s), a \in 1..Width(o) :
            Routes(s)[i].hp = hp /\ m = Entries(o, Routes(s)[i])[a]
    BY <2>1, AsksEntries
  <2>3. PICK j \in DOMAIN Routes(r), b \in 1..Width(u) :
            Routes(r)[j].hp = hp /\ m = Entries(u, Routes(r)[j])[b]
    BY <1>4, <2>1, AsksEntries
  <2>4. \A x \in Objects : \A q : \A d \in 1..Width(x) :
            Entries(x, q)[d] = <<"svc", q.svc>> \/ Entries(x, q)[d] = ScriptKey(x)
    BY DEF Entries, Width
  <2>5. m = <<"svc", Routes(s)[i].svc>> \/ m = ScriptKey(o)
    BY <2>2, <2>4
  <2>6. m = <<"svc", Routes(r)[j].svc>> \/ m = ScriptKey(u)
    BY <2>3, <2>4
  <2>7. Routes(s)[i].svc # Routes(r)[j].svc
    BY <1>2, <2>2, <2>3
  <2>8. ScriptKey(o) # ScriptKey(u)
    BY DEF ScriptKey, NameVersion, Id
  <2>9. \A x, y : <<"svc", x>> = <<"svc", y>> => x = y
    OBVIOUS
  <2>10. \A x : <<"svc", x>> # ScriptKey(o) /\ <<"svc", x>> # ScriptKey(u)
    BY DEF ScriptKey
  <2> QED BY <2>5, <2>6, <2>7, <2>8, <2>9, <2>10
<1> QED BY <1>1, <1>3, <1>4

(* So it is apart from what the others ask for, and an ingress that moves  *)
(* to a hostPath finds nobody there.                                       *)
LEMMA OrderlyOthers ==
    ASSUME Orderly(Specs), NEW st \in Stores, NEW n \in Ids, NEW hp,
           NEW o \in Objects, Id(o.spec) = n
    PROVE  /\ Owed(o, hp) \cap Others(st, n, hp) = {}
           /\ \A v \in Objects : Id(v.spec) = n /\ Owed(o, hp) # {} /\ Owed(v, hp) = {}
                    => Others(st, n, hp) = {}
<1>1. ASSUME NEW m \in Ids \ {n}
      PROVE  /\ Owed(o, hp) \cap Owed(st[m], hp) = {}
             /\ \A v \in Objects : Id(v.spec) = n /\ Owed(o, hp) # {} /\ Owed(v, hp) = {}
                    => Owed(st[m], hp) = {}
  <2>1. CASE st[m] = NoObject
    BY <2>1 DEF Owed
  <2>2. CASE st[m] # NoObject
    <3>1. st[m] \in Objects /\ Id(st[m].spec) = m
      BY <2>2 DEF Stores
    <3> QED BY <3>1, OrderlyPair
  <2> QED BY <2>1, <2>2
<1> QED BY <1>1 DEF Others

-----------------------------------------------------------------------------
(* What the table will be once a program has run. *)

(* What a program adds to a key, and what it removes from it. *)
Added(cs, k)   == {c.arg : c \in {c \in Coming(cs) : c.op = "SADD" /\ c.key = k}}
Removed(cs, k) == {c.arg : c \in {c \in Coming(cs) : c.op = "SREM" /\ c.key = k}}

(* A hostPath that is put in place becomes its copy, after what is yet to  *)
(* be removed from the copy and added to it.                               *)
Final(db, cs, hp) ==
    IF SwapOf(hp) \in Coming(cs)
    THEN ((IF CopyOf(hp) \in Coming(cs) THEN db[RouteKey(hp)] ELSE db[TempKey(hp)])
             \ Removed(cs, TempKey(hp))) \cup Added(cs, TempKey(hp))
    ELSE (db[RouteKey(hp)] \ Removed(cs, RouteKey(hp))) \cup Added(cs, RouteKey(hp))

(* The fields of the commands. *)
LEMMA CommandFields ==
    ASSUME NEW hp \in HostPaths, NEW k, NEW m
    PROVE  /\ SADD(k, m).op = "SADD" /\ SADD(k, m).key = k /\ SADD(k, m).arg = m
           /\ SREM(k, m).op = "SREM" /\ SREM(k, m).key = k /\ SREM(k, m).arg = m
           /\ CopyOf(hp).op = "SUNIONSTORE" /\ CopyOf(hp).key = TempKey(hp) /\ CopyOf(hp).arg = RouteKey(hp)
           /\ SwapOf(hp).op = "SUNIONSTORE" /\ SwapOf(hp).key = RouteKey(hp) /\ SwapOf(hp).arg = TempKey(hp)
           /\ DropOf(hp).op = "DEL" /\ DropOf(hp).key = TempKey(hp)
BY DEF SADD, SREM, CopyOf, SwapOf, DropOf, SUNIONSTORE, DEL

(* The commands of add and of delete. *)
LEMMA AddComing ==
    ASSUME NEW o \in Objects
    PROVE  /\ \A c : c \in Coming(AddProgram(o)) <=>
                /\ Included(o)
                /\ \/ c \in Coming(Script(o))
                   \/ \E hp \in HostPathsOf(o.spec) : \E m \in Asks(o, hp) : c = SADD(RouteKey(hp), m)
           /\ \A c \in Coming(AddProgram(o)) : c.op = "SADD"
<1>1. Script(o) \in Seq(Commands) /\ Adds(o, "route") \in Seq(Commands)
  BY ScriptType, AddsType, HarmlessMonotonic
<1>2. Coming(Script(o) \o Adds(o, "route")) = Coming(Script(o)) \cup Coming(Adds(o, "route"))
  BY <1>1, ComingConcat
<1>3. \A c : c \in Coming(Adds(o, "route")) <=>
          \E hp \in HostPathsOf(o.spec) : \E m \in Asks(o, hp) : c = SADD(RouteKey(hp), m)
  BY AddsComing DEF RouteKey
<1>4. Coming(<<>>) = {}
  BY DEF Coming
<1>5. \A c : c \in Coming(AddProgram(o)) <=>
        /\ Included(o)
        /\ \/ c \in Coming(Script(o))
           \/ \E hp \in HostPathsOf(o.spec) : \E m \in Asks(o, hp) : c = SADD(RouteKey(hp), m)
  BY <1>2, <1>3, <1>4 DEF AddProgram
<1>6. \A c \in Coming(AddProgram(o)) : c.op = "SADD"
  BY <1>5, ScriptComing DEF SADD
<1> QED BY <1>5, <1>6

LEMMA DeleteComing ==
    ASSUME NEW o \in Objects
    PROVE  /\ \A c : c \in Coming(DeleteProgram(o)) <=>
                /\ Included(o)
                /\ \E hp \in HostPathsOf(o.spec) : \E m \in Asks(o, hp) : c = SREM(RouteKey(hp), m)
           /\ \A c \in Coming(DeleteProgram(o)) : c.op = "SREM"
<1>1. \A c : c \in Coming(Removes(o)) <=>
          \E hp \in HostPathsOf(o.spec) : \E m \in Asks(o, hp) : c = SREM(RouteKey(hp), m)
  BY RemovesComing
<1>2. Coming(<<>>) = {}
  BY DEF Coming
<1>3. \A c : c \in Coming(DeleteProgram(o)) <=>
        /\ Included(o)
        /\ \E hp \in HostPathsOf(o.spec) : \E m \in Asks(o, hp) : c = SREM(RouteKey(hp), m)
  BY <1>1, <1>2 DEF DeleteProgram
<1>4. \A c \in Coming(DeleteProgram(o)) : c.op = "SREM"
  BY <1>3 DEF SREM
<1> QED BY <1>3, <1>4

(* add: the script, and what the object asks for into the hostPaths.       *)
LEMMA AddFinal ==
    ASSUME NEW o \in Objects, NEW db, NEW hp \in HostPaths
    PROVE  Final(db, AddProgram(o), hp) = db[RouteKey(hp)] \cup Owed(o, hp)
<1> DEFINE cs == AddProgram(o)
<1>1. \A c : c \in Coming(cs) <=>
            /\ Included(o)
            /\ \/ c \in Coming(Script(o))
               \/ \E other \in HostPathsOf(o.spec) : \E m \in Asks(o, other) : c = SADD(RouteKey(other), m)
  BY AddComing
<1>2. HostPathsOf(o.spec) \subseteq HostPaths
  BY DEF Objects, HostPaths
<1> HIDE DEF cs
<1>3. \A c \in Coming(cs) : c.op = "SADD"
  BY AddComing DEF cs
<1>4. SwapOf(hp) \notin Coming(cs) /\ Removed(cs, RouteKey(hp)) = {}
  BY <1>3, CommandFields DEF Removed
<1>5. Added(cs, RouteKey(hp)) = Owed(o, hp)
  <2>1. ASSUME NEW c \in Coming(cs), c.key = RouteKey(hp)
        PROVE  c.arg \in Owed(o, hp)
    <3>1. Included(o) /\ c \notin Coming(Script(o))
      BY <1>1, <2>1, ScriptComing, HostKeysApart
    <3>2. PICK other \in HostPathsOf(o.spec) : \E m : m \in Asks(o, other) /\ c = SADD(RouteKey(other), m)
      BY <1>1, <3>1 DEF RouteKey
    <3>3. other = hp
      BY <1>2, <2>1, <3>2, CommandFields, HostKeysApart
    <3> QED BY <3>1, <3>2, <3>3, CommandFields, OwedType DEF Owed
  <2>2. ASSUME NEW m \in Owed(o, hp)
        PROVE  m \in Added(cs, RouteKey(hp))
    <3>1. Included(o) /\ hp \in HostPathsOf(o.spec) /\ m \in Asks(o, hp)
      BY <2>2, OwedType, AsksEntries DEF Owed
    <3>2. SADD(RouteKey(hp), m) \in Coming(cs)
      BY <1>1, <3>1
    <3> QED BY <3>2, CommandFields DEF Added
  <2>3. Added(cs, RouteKey(hp)) \subseteq Owed(o, hp)
    BY <2>1 DEF Added
  <2> QED BY <2>2, <2>3
<1>6. Final(db, cs, hp) = (db[RouteKey(hp)] \ {}) \cup Owed(o, hp)
  BY <1>4, <1>5 DEF Final
<1> QED BY <1>6 DEF cs

(* delete: what the object asks for out of the hostPaths.                  *)
LEMMA DeleteFinal ==
    ASSUME NEW o \in Objects, NEW db, NEW hp \in HostPaths
    PROVE  Final(db, DeleteProgram(o), hp) = db[RouteKey(hp)] \ Owed(o, hp)
<1> DEFINE cs == DeleteProgram(o)
<1>1. \A c : c \in Coming(cs) <=>
            /\ Included(o)
            /\ \E other \in HostPathsOf(o.spec) : \E m \in Asks(o, other) : c = SREM(RouteKey(other), m)
  BY DeleteComing
<1>2. HostPathsOf(o.spec) \subseteq HostPaths
  BY DEF Objects, HostPaths
<1> HIDE DEF cs
<1>3. \A c \in Coming(cs) : c.op = "SREM"
  BY DeleteComing DEF cs
<1>4. SwapOf(hp) \notin Coming(cs) /\ Added(cs, RouteKey(hp)) = {}
  BY <1>3, CommandFields DEF Added
<1>5. Removed(cs, RouteKey(hp)) = Owed(o, hp)
  <2>1. ASSUME NEW c \in Coming(cs), c.key = RouteKey(hp)
        PROVE  c.arg \in Owed(o, hp)
    <3>1. Included(o)
      BY <1>1, <2>1
    <3>2. PICK other \in HostPathsOf(o.spec) : \E m : m \in Asks(o, other) /\ c = SREM(RouteKey(other), m)
      BY <1>1, <3>1 DEF RouteKey
    <3>3. other = hp
      BY <1>2, <2>1, <3>2, CommandFields, HostKeysApart
    <3> QED BY <3>1, <3>2, <3>3, CommandFields, OwedType DEF Owed
  <2>2. ASSUME NEW m \in Owed(o, hp)
        PROVE  m \in Removed(cs, RouteKey(hp))
    <3>1. Included(o) /\ hp \in HostPathsOf(o.spec) /\ m \in Asks(o, hp)
      BY <2>2, OwedType, AsksEntries DEF Owed
    <3>2. SREM(RouteKey(hp), m) \in Coming(cs)
      BY <1>1, <3>1
    <3> QED BY <3>2, CommandFields DEF Removed
  <2>3. Removed(cs, RouteKey(hp)) \subseteq Owed(o, hp)
    BY <2>1 DEF Removed
  <2> QED BY <2>2, <2>3
<1>6. Final(db, cs, hp) = (db[RouteKey(hp)] \ Owed(o, hp)) \cup {}
  BY <1>4, <1>5 DEF Final
<1> QED BY <1>6 DEF cs

(* The commands of update before its last loop, and those of the loop.     *)
LEMMA PreparationComing ==
    ASSUME NEW old \in Objects, NEW new \in Objects, NEW order \in SetToSeqs(Touched(old, new)), NEW c
    PROVE  /\ c \in Coming(Preparation(old, new)) <=>
                \/ \E hp \in HostPaths : Owed(old, hp) # {} /\ c = CopyOf(hp)
                \/ \E hp \in HostPaths : \E m \in Owed(old, hp) : c = SREM(TempKey(hp), m)
                \/ Included(new) /\ c \in Coming(Script(new))
                \/ \E hp \in HostPaths : \E m \in Owed(new, hp) : c = SADD(TempKey(hp), m)
           /\ c \in Coming(Swap(order)) <=>
                \E hp \in HostPaths : Owed(old, hp) \cup Owed(new, hp) # {} /\ c \in {SwapOf(hp), DropOf(hp)}
<1>1. \A o \in Objects : \A hp : /\ hp \in HostPathsOf(o.spec) => hp \in HostPaths
                                 /\ Included(o) => Owed(o, hp) = Asks(o, hp)
                                 /\ ~Included(o) => Owed(o, hp) = {}
                                 /\ Asks(o, hp) # {} <=> hp \in HostPathsOf(o.spec)
  BY OwedType, AsksEntries DEF Owed, Objects, HostPaths
<1>2. Included(old) /\ c \in Coming(CopiesWithout(old)) <=>
            \/ \E hp \in HostPaths : Owed(old, hp) # {} /\ c = CopyOf(hp)
            \/ \E hp \in HostPaths : \E m \in Owed(old, hp) : c = SREM(TempKey(hp), m)
  BY <1>1, CopiesComing
<1>3. Included(new) /\ c \in Coming(Adds(new, "temp_")) <=>
            \E hp \in HostPaths : \E m \in Owed(new, hp) : c = SADD(TempKey(hp), m)
  <2>1. \A d : d \in Coming(Adds(new, "temp_")) <=>
            \E hp \in HostPathsOf(new.spec) : \E m \in Asks(new, hp) : d = SADD(TempKey(hp), m)
    BY AddsComing DEF TempKey
  <2> QED BY <1>1, <2>1
<1>4. \A hp : hp \in Touched(old, new) <=> hp \in HostPaths /\ Owed(old, hp) \cup Owed(new, hp) # {}
  BY <1>1 DEF Touched
<1>5. c \in Coming(Preparation(old, new)) <=>
            \/ Included(old) /\ c \in Coming(CopiesWithout(old))
            \/ Included(new) /\ c \in Coming(Script(new))
            \/ Included(new) /\ c \in Coming(Adds(new, "temp_"))
  BY UpdateParts
<1>6. c \in Coming(Swap(order)) <=> \E hp \in Touched(old, new) : c \in {SwapOf(hp), DropOf(hp)}
  BY UpdateParts
<1> QED BY <1>2, <1>3, <1>4, <1>5, <1>6

(* update: where the object was, what it asked for goes and what it asks   *)
(* for comes; where it was not, the copy has only what it asks for.        *)
LEMMA UpdateFinal ==
    ASSUME NEW old \in Objects, NEW new \in Objects, NEW order \in SetToSeqs(Touched(old, new)),
           ~Panics(new), NEW db, NEW hp \in HostPaths
    PROVE  Final(db, UpdateProgram(old, new, order), hp)
             = IF Owed(old, hp) = {} /\ Owed(new, hp) # {}
               THEN db[TempKey(hp)] \cup Owed(new, hp)
               ELSE (db[RouteKey(hp)] \ Owed(old, hp)) \cup Owed(new, hp)
<1> DEFINE cs == UpdateProgram(old, new, order)
<1>1. \A c : c \in Coming(cs) <=>
            \/ \E h \in HostPaths : Owed(old, h) # {} /\ c = CopyOf(h)
            \/ \E h \in HostPaths : \E m \in Owed(old, h) : c = SREM(TempKey(h), m)
            \/ Included(new) /\ c \in Coming(Script(new))
            \/ \E h \in HostPaths : \E m \in Owed(new, h) : c = SADD(TempKey(h), m)
            \/ \E h \in HostPaths : Owed(old, h) \cup Owed(new, h) # {} /\ c \in {SwapOf(h), DropOf(h)}
  <2>1. /\ Preparation(old, new) \in Seq(Commands) /\ Swap(order) \in Seq(Commands)
        /\ cs = Preparation(old, new) \o Swap(order)
    BY UpdateParts
  <2> HIDE DEF cs
  <2>2. Coming(cs) = Coming(Preparation(old, new)) \cup Coming(Swap(order))
    BY <2>1, ComingConcat
  <2> QED BY <2>2, PreparationComing
<1> HIDE DEF cs
<1>2. SwapOf(hp) \in Coming(cs) <=> Owed(old, hp) \cup Owed(new, hp) # {}
  <2>1. SwapOf(hp) \in Coming(cs) => Owed(old, hp) \cup Owed(new, hp) # {}
    <3> SUFFICES ASSUME SwapOf(hp) \in Coming(cs) PROVE Owed(old, hp) \cup Owed(new, hp) # {}
      OBVIOUS
    <3>1. SwapOf(hp) \notin Coming(Script(new))
      BY ScriptComing, CommandFields
    <3>2. PICK h \in HostPaths : Owed(old, h) \cup Owed(new, h) # {} /\ SwapOf(hp) \in {SwapOf(h), DropOf(h)}
      BY <1>1, <3>1, CommandFields, HostKeysApart
    <3>3. h = hp
      BY <3>2, CommandFields, HostKeysApart
    <3> QED BY <3>2, <3>3
  <2> QED BY <1>1, <2>1
<1>3. CopyOf(hp) \in Coming(cs) <=> Owed(old, hp) # {}
  <2>1. CopyOf(hp) \in Coming(cs) => Owed(old, hp) # {}
    <3> SUFFICES ASSUME CopyOf(hp) \in Coming(cs) PROVE Owed(old, hp) # {}
      OBVIOUS
    <3>1. CopyOf(hp) \notin Coming(Script(new))
      BY ScriptComing, CommandFields
    <3>2. PICK h \in HostPaths : Owed(old, h) # {} /\ CopyOf(hp) = CopyOf(h)
      BY <1>1, <3>1, CommandFields, HostKeysApart
    <3>3. h = hp
      BY <3>2, CommandFields, HostKeysApart
    <3> QED BY <3>2, <3>3
  <2> QED BY <1>1, <2>1
<1>4. ASSUME NEW c \in Coming(cs), c.op = "SREM"
      PROVE  \E h \in HostPaths : \E m \in Owed(old, h) : c = SREM(TempKey(h), m)
  BY <1>1, <1>4, ScriptComing, CommandFields
<1>5. ASSUME NEW c \in Coming(cs), c.op = "SADD", c.key \notin ScriptKeys
      PROVE  \E h \in HostPaths : \E m \in Owed(new, h) : c = SADD(TempKey(h), m)
  BY <1>1, <1>5, ScriptComing, CommandFields
<1>6. Removed(cs, TempKey(hp)) = Owed(old, hp)
  <2>1. ASSUME NEW c \in Coming(cs), c.op = "SREM", c.key = TempKey(hp)
        PROVE  c.arg \in Owed(old, hp)
    BY <1>4, <2>1, CommandFields, HostKeysApart
  <2>2. \A m \in Owed(old, hp) : SREM(TempKey(hp), m) \in Coming(cs)
    BY <1>1
  <2>3. \A m \in Owed(old, hp) : m \in Removed(cs, TempKey(hp))
    BY <2>2, CommandFields DEF Removed
  <2>4. Removed(cs, TempKey(hp)) \subseteq Owed(old, hp)
    BY <2>1 DEF Removed
  <2> QED BY <2>3, <2>4
<1>7. Added(cs, TempKey(hp)) = Owed(new, hp)
  <2>1. ASSUME NEW c \in Coming(cs), c.op = "SADD", c.key = TempKey(hp)
        PROVE  c.arg \in Owed(new, hp)
    BY <1>5, <2>1, CommandFields, HostKeysApart
  <2>2. \A m \in Owed(new, hp) : SADD(TempKey(hp), m) \in Coming(cs)
    BY <1>1
  <2>3. \A m \in Owed(new, hp) : m \in Added(cs, TempKey(hp))
    BY <2>2, CommandFields DEF Added
  <2>4. Added(cs, TempKey(hp)) \subseteq Owed(new, hp)
    BY <2>1 DEF Added
  <2> QED BY <2>3, <2>4
<1>8. Removed(cs, RouteKey(hp)) = {} /\ Added(cs, RouteKey(hp)) = {}
  <2>1. ASSUME NEW c \in Coming(cs), c.op \in {"SADD", "SREM"}
        PROVE  c.key # RouteKey(hp)
    BY <1>4, <1>5, <2>1, CommandFields, HostKeysApart
  <2> QED BY <2>1 DEF Removed, Added
<1> QED BY <1>2, <1>3, <1>6, <1>7, <1>8 DEF Final, cs

-----------------------------------------------------------------------------
(* The order in which update writes about a hostPath. *)

(* Copy, remove from the copy, add to it, put it in place, drop it.        *)
Stage(c) ==
    IF c.op = "SREM" THEN 2
    ELSE IF c.op = "SADD" THEN 3
    ELSE IF c.op = "DEL" THEN 5
    ELSE IF c.key[1] = "temp_" THEN 1 ELSE 4

About(c, hp) == c.key \in {RouteKey(hp), TempKey(hp)}

(* c may come before d. *)
InOrder(c, d) ==
    \A hp \in HostPaths : About(c, hp) /\ About(d, hp) =>
        Stage(c) < Stage(d) \/ (Stage(c) = Stage(d) /\ Stage(c) \in {2, 3})

Sorted(cs) == \A i, j \in 1..Len(cs) : i < j => InOrder(cs[i], cs[j])

LEMMA StageFacts ==
    ASSUME NEW hp \in HostPaths, NEW k, NEW m
    PROVE  /\ Stage(CopyOf(hp)) = 1
           /\ Stage(SREM(k, m)) = 2
           /\ Stage(SADD(k, m)) = 3
           /\ Stage(SwapOf(hp)) = 4
           /\ Stage(DropOf(hp)) = 5
BY DEF Stage, CopyOf, SwapOf, DropOf, SADD, SREM, SUNIONSTORE, DEL, TempKey, RouteKey

(* Which hostPath a command of update is about. *)
LEMMA AboutFacts ==
    ASSUME NEW hp \in HostPaths, NEW other \in HostPaths, NEW m
    PROVE  /\ About(CopyOf(hp), other) <=> hp = other
           /\ About(SREM(TempKey(hp), m), other) <=> hp = other
           /\ About(SADD(TempKey(hp), m), other) <=> hp = other
           /\ About(SwapOf(hp), other) <=> hp = other
           /\ About(DropOf(hp), other) <=> hp = other
<1>1. TempKey(hp) \in {RouteKey(other), TempKey(other)} <=> hp = other
  BY HostKeysApart
<1>2. RouteKey(hp) \in {RouteKey(other), TempKey(other)} <=> hp = other
  BY HostKeysApart
<1> QED BY <1>1, <1>2, CommandFields DEF About

(* One sorted program after another. *)
LEMMA SortedConcat ==
    ASSUME NEW S, NEW a \in Seq(S), NEW b \in Seq(S), Sorted(a), Sorted(b),
           \A c \in Coming(a), d \in Coming(b) : InOrder(c, d)
    PROVE  Sorted(a \o b)
<1> SUFFICES ASSUME NEW i \in 1..Len(a \o b), NEW j \in 1..Len(a \o b), i < j
             PROVE  InOrder((a \o b)[i], (a \o b)[j])
  BY DEF Sorted
<1>1. Len(a) \in Nat /\ Len(b) \in Nat /\ Len(a \o b) = Len(a) + Len(b)
  BY ConcatFacts
<1>2. \A l \in 1..Len(a \o b) :
            \/ l \in 1..Len(a) /\ (a \o b)[l] = a[l]
            \/ l - Len(a) \in 1..Len(b) /\ (a \o b)[l] = b[l - Len(a)]
  BY ConcatFacts
<1>3. CASE i \in 1..Len(a) /\ j \in 1..Len(a)
  <2>1. (a \o b)[i] = a[i] /\ (a \o b)[j] = a[j]
    BY <1>3, ConcatFacts
  <2> QED BY <1>3, <2>1 DEF Sorted
<1>4. CASE i \in 1..Len(a) /\ j \notin 1..Len(a)
  BY <1>2, <1>4, ConcatFacts DEF Coming
<1>5. CASE i \notin 1..Len(a)
  <2>1. j \notin 1..Len(a)
    BY <1>1, <1>5
  <2>2. /\ i - Len(a) \in 1..Len(b) /\ j - Len(a) \in 1..Len(b) /\ i - Len(a) < j - Len(a)
        /\ (a \o b)[i] = b[i - Len(a)] /\ (a \o b)[j] = b[j - Len(a)]
    BY <1>1, <1>2, <1>5, <2>1
  <2> QED BY <2>2 DEF Sorted
<1> QED BY <1>3, <1>4, <1>5

(* An orderly object has a hostPath in one of its routes. *)
LEMMA OrderlyRoutes ==
    ASSUME Orderly(Specs), NEW o \in Objects, Included(o)
    PROVE  \A i, j \in 1..Len(Routes(o.spec)) : Routes(o.spec)[i].hp = Routes(o.spec)[j].hp => i = j
<1>1. o.spec \in Specs /\ DOMAIN Routes(o.spec) = 1..Len(Routes(o.spec))
  BY RoutesType DEF Objects
<1>2. HostPathsUsed(o.spec) = HostPathsOf(o.spec)
  BY DEF HostPathsUsed, Included
<1>3. CASE HostPathsOf(o.spec) # {}
  BY <1>1, <1>2, <1>3 DEF Orderly
<1>4. CASE HostPathsOf(o.spec) = {}
  BY <1>1, <1>4 DEF HostPathsOf
<1> QED BY <1>3, <1>4

(* The copies of an orderly object, one route after another. *)
LEMMA CopiesSorted ==
    ASSUME Orderly(Specs), NEW o \in Objects, Included(o)
    PROVE  /\ Sorted(CopiesWithout(o))
           /\ \A c \in Coming(CopiesWithout(o)) : Stage(c) \in {1, 2}
<1> DEFINE R == Routes(o.spec)
           body(r, j) == IF j = 1 THEN SUNIONSTORE(TempKey(r.hp), RouteKey(r.hp))
                         ELSE SREM(TempKey(r.hp), Entries(o, r)[j - 1])
           w == 1 + Width(o)
           bodies == [i \in DOMAIN R |-> [j \in 1..w |-> body(R[i], j)]]
           cs == Unroll(bodies, w)
<1>1. DOMAIN R = 1..Len(R) /\ Len(R) \in Nat /\ \A i \in 1..Len(R) : R[i].hp \in HostPaths
  BY RoutesType DEF Objects
<1>2. w \in 1..3 /\ Len(bodies) = Len(R)
  BY <1>1, WidthType
<1>3. CopiesWithout(o) = cs
  BY DEF CopiesWithout
<1>4. \A i \in 1..Len(R), j \in 1..w :
            IF j = 1 THEN bodies[i][j] = CopyOf(R[i].hp)
                     ELSE \E m : bodies[i][j] = SREM(TempKey(R[i].hp), m)
  <2>1. \A i \in 1..Len(R), j \in 1..w : bodies[i][j] = body(R[i], j)
    BY <1>1
  <2>2. \A r : \A j : IF j = 1 THEN body(r, j) = CopyOf(r.hp) ELSE \E m : body(r, j) = SREM(TempKey(r.hp), m)
    BY DEF CopyOf
  <2> HIDE DEF bodies, body, R
  <2> QED BY <2>1, <2>2
<1>5. \A i, j \in 1..Len(R) : R[i].hp = R[j].hp => i = j
  BY OrderlyRoutes
<1> HIDE DEF bodies, R, w
<1>6. \A i \in 1..Len(R), j \in 1..w :
            /\ Stage(bodies[i][j]) = IF j = 1 THEN 1 ELSE 2
            /\ \A hp \in HostPaths : About(bodies[i][j], hp) => R[i].hp = hp
  <2> SUFFICES ASSUME NEW i \in 1..Len(R), NEW j \in 1..w
               PROVE  /\ Stage(bodies[i][j]) = IF j = 1 THEN 1 ELSE 2
                      /\ \A hp \in HostPaths : About(bodies[i][j], hp) => R[i].hp = hp
    OBVIOUS
  <2>1. R[i].hp \in HostPaths
    BY <1>1
  <2>2. CASE j = 1
    BY <1>4, <2>1, <2>2, StageFacts, AboutFacts
  <2>3. CASE j # 1
    <3>1. PICK m : bodies[i][j] = SREM(TempKey(R[i].hp), m)
      BY <1>4, <2>3
    <3> QED BY <2>1, <2>3, <3>1, StageFacts, AboutFacts
  <2> QED BY <2>2, <2>3
<1>7. Follows(cs, bodies, Len(R), w)
  BY <1>1, <1>2, LoopFacts
<1>10. \A c : c \in Coming(cs) <=> \E b \in 1..Len(R), p \in 1..w : c = bodies[b][p]
  BY <1>1, <1>2, LoopFacts
<1> HIDE DEF cs
<1>8. ASSUME NEW i \in 1..Len(cs), NEW j \in 1..Len(cs), i < j
      PROVE  InOrder(cs[i], cs[j])
  <2>1. PICK b \in 1..Len(R), d \in 1..Len(R), p \in 1..w, q \in 1..w :
            cs[i] = bodies[b][p] /\ cs[j] = bodies[d][q] /\ (b = d => p < q)
    BY <1>7, <1>8 DEF Follows
  <2> SUFFICES ASSUME NEW hp \in HostPaths, About(cs[i], hp), About(cs[j], hp)
               PROVE  Stage(cs[i]) < Stage(cs[j]) \/ (Stage(cs[i]) = Stage(cs[j]) /\ Stage(cs[i]) \in {2, 3})
    BY DEF InOrder
  <2>2. b = d
    BY <1>5, <1>6, <2>1
  <2>3. p < q /\ q # 1
    BY <1>2, <2>1, <2>2
  <2>4. Stage(cs[i]) \in {1, 2} /\ Stage(cs[j]) = 2
    BY <1>6, <2>1, <2>3
  <2> QED BY <2>4
<1>9. \A c \in Coming(cs) : Stage(c) \in {1, 2}
  BY <1>6, <1>10
<1> QED BY <1>3, <1>8, <1>9 DEF Sorted

(* The last loop, one hostPath after another. *)
LEMMA SwapSorted ==
    ASSUME NEW order \in Seq(HostPaths), \A i, j \in 1..Len(order) : order[i] = order[j] => i = j
    PROVE  Sorted(Swap(order))
<1> DEFINE bodies == [i \in DOMAIN order |-> <<SUNIONSTORE(RouteKey(order[i]), TempKey(order[i])),
                                               DEL(TempKey(order[i]))>>]
           cs == Unroll(bodies, 2)
<1>1. DOMAIN order = 1..Len(order) /\ Len(order) \in Nat /\ Len(bodies) = Len(order)
      /\ \A i \in 1..Len(order) : order[i] \in HostPaths
  OBVIOUS
<1>2. Swap(order) = cs
  BY DEF Swap
<1>3. \A i \in 1..Len(order) : bodies[i][1] = SwapOf(order[i]) /\ bodies[i][2] = DropOf(order[i])
  BY <1>1 DEF SwapOf, DropOf
<1> HIDE DEF bodies
<1>4. \A i \in 1..Len(order), j \in 1..2 :
            /\ Stage(bodies[i][j]) = IF j = 1 THEN 4 ELSE 5
            /\ \A hp \in HostPaths : About(bodies[i][j], hp) => order[i] = hp
  <2>1. \A j : j \in 1..2 <=> j = 1 \/ j = 2
    OBVIOUS
  <2> QED BY <1>1, <1>3, <2>1, StageFacts, AboutFacts
<1>5. Follows(cs, bodies, Len(order), 2)
  BY <1>1, LoopFacts
<1> HIDE DEF cs
<1>6. ASSUME NEW i \in 1..Len(cs), NEW j \in 1..Len(cs), i < j
      PROVE  InOrder(cs[i], cs[j])
  <2>1. PICK b \in 1..Len(order), d \in 1..Len(order), p \in 1..2, q \in 1..2 :
            cs[i] = bodies[b][p] /\ cs[j] = bodies[d][q] /\ (b = d => p < q)
    BY <1>5, <1>6 DEF Follows
  <2> SUFFICES ASSUME NEW hp \in HostPaths, About(cs[i], hp), About(cs[j], hp)
               PROVE  Stage(cs[i]) < Stage(cs[j])
    BY DEF InOrder
  <2>2. b = d
    BY <1>4, <2>1
  <2>3. p = 1 /\ q = 2
    BY <2>1, <2>2
  <2> QED BY <1>4, <2>1, <2>3
<1> QED BY <1>2, <1>6 DEF Sorted

(* Commands of rising stages are in order, additions in any order. *)
LEMMA StagesInOrder ==
    ASSUME NEW c, NEW d, Stage(c) < Stage(d) \/ (Stage(c) = 3 /\ Stage(d) = 3)
    PROVE  InOrder(c, d)
BY DEF InOrder

(* update writes about each hostPath of an orderly object stage by stage. *)
LEMMA UpdateSorted ==
    ASSUME Orderly(Specs), NEW old \in Objects, NEW new \in Objects,
           NEW order \in SetToSeqs(Touched(old, new))
    PROVE  Sorted(UpdateProgram(old, new, order))
<1> DEFINE one == IF Included(old) THEN CopiesWithout(old) ELSE <<>>
           two == IF Included(new) THEN Script(new) \o Adds(new, "temp_") ELSE <<>>
<1>1. /\ Script(new) \in Seq(Commands) /\ Adds(new, "temp_") \in Seq(Commands)
      /\ CopiesWithout(old) \in Seq(Commands) /\ <<>> \in Seq(Commands)
      /\ Swap(order) \in Seq(Commands)
  BY ScriptType, AddsType, CopiesType, HarmlessMonotonic, UpdateParts
<1>2. one \in Seq(Commands) /\ two \in Seq(Commands)
  BY <1>1
<1>3. Coming(<<>>) = {} /\ Sorted(<<>>)
  BY DEF Coming, Sorted
<1>4. Sorted(one) /\ \A c \in Coming(one) : Stage(c) \in {1, 2}
  BY <1>3, CopiesSorted
<1>5. \A c \in Coming(two) : Stage(c) = 3
  <2>1. Coming(Script(new) \o Adds(new, "temp_")) = Coming(Script(new)) \cup Coming(Adds(new, "temp_"))
    BY <1>1, ComingConcat
  <2>2. \A c \in Coming(Script(new)) : Stage(c) = 3
    BY ScriptComing DEF Stage
  <2>3. \A c \in Coming(Adds(new, "temp_")) : Stage(c) = 3
    <3> SUFFICES ASSUME NEW c \in Coming(Adds(new, "temp_")) PROVE Stage(c) = 3
      OBVIOUS
    <3>1. \E hp \in HostPathsOf(new.spec) : \E m \in Asks(new, hp) : c = SADD(<<"temp_", hp>>, m)
      BY AddsComing
    <3> QED BY <3>1 DEF Stage, SADD
  <2> DEFINE added == Script(new) \o Adds(new, "temp_")
  <2>4. \A c \in Coming(added) : Stage(c) = 3
    BY <2>1, <2>2, <2>3
  <2>5. two = added \/ two = <<>>
    OBVIOUS
  <2> HIDE DEF two, added
  <2> QED BY <1>3, <2>4, <2>5
<1>6. Sorted(two)
  BY <1>5, StagesInOrder DEF Sorted, Coming
<1>7. Sorted(Swap(order)) /\ \A c \in Coming(Swap(order)) : Stage(c) \in {4, 5}
  <2>1. \A c \in Coming(Swap(order)) : \E hp \in HostPaths : c \in {SwapOf(hp), DropOf(hp)}
    BY PreparationComing
  <2>2. Sorted(Swap(order))
    BY OrderType, SwapSorted
  <2>3. \A c \in Coming(Swap(order)) : Stage(c) \in {4, 5}
    BY <2>1, StageFacts
  <2> QED BY <2>2, <2>3
<1> HIDE DEF one, two
<1>8. one \o two \in Seq(Commands) /\ Coming(one \o two) = Coming(one) \cup Coming(two)
  BY <1>2, ComingConcat
<1>9. Sorted(one \o two)
  <2>1. \A c \in Coming(one), d \in Coming(two) : InOrder(c, d)
    BY <1>4, <1>5, StagesInOrder
  <2> QED BY <1>2, <1>4, <1>6, <2>1, SortedConcat
<1>10. Sorted((one \o two) \o Swap(order))
  <2>1. \A c \in Coming(one \o two), d \in Coming(Swap(order)) : InOrder(c, d)
    BY <1>4, <1>5, <1>7, <1>8, StagesInOrder
  <2> QED BY <1>1, <1>7, <1>8, <1>9, <2>1, SortedConcat
<1>11. Preparation(old, new) = one \o two
  BY DEF Preparation, one, two
<1> QED BY <1>9, <1>10, <1>11, UpdateParts

-----------------------------------------------------------------------------
(* No command changes what the table will be. *)

(* The commands of update. *)
UpdateForm(c) ==
    \/ c.op = "SADD" /\ c.key \in ScriptKeys
    \/ \E hp \in HostPaths :
        \/ c \in {CopyOf(hp), SwapOf(hp), DropOf(hp)}
        \/ \E m : c = SREM(TempKey(hp), m) \/ c = SADD(TempKey(hp), m)

LEMMA UpdateForms ==
    ASSUME NEW old \in Objects, NEW new \in Objects, NEW order \in SetToSeqs(Touched(old, new))
    PROVE  /\ \A c \in Coming(UpdateProgram(old, new, order)) : UpdateForm(c)
           /\ Panics(new) => \A c \in Coming(UpdateProgram(old, new, order)), hp \in HostPaths :
                                c.key # RouteKey(hp)
<1>1. ASSUME NEW c \in Coming(Preparation(old, new))
      PROVE  UpdateForm(c) /\ \A hp \in HostPaths : c.key # RouteKey(hp)
  <2>1. \/ \E hp \in HostPaths : Owed(old, hp) # {} /\ c = CopyOf(hp)
        \/ \E hp \in HostPaths : \E m \in Owed(old, hp) : c = SREM(TempKey(hp), m)
        \/ Included(new) /\ c \in Coming(Script(new))
        \/ \E hp \in HostPaths : \E m \in Owed(new, hp) : c = SADD(TempKey(hp), m)
    BY PreparationComing
  <2>2. CASE Included(new) /\ c \in Coming(Script(new))
    BY <2>2, ScriptComing, HostKeysApart DEF UpdateForm
  <2>3. CASE \E hp \in HostPaths : Owed(old, hp) # {} /\ c = CopyOf(hp)
    BY <2>3, CommandFields, HostKeysApart DEF UpdateForm
  <2>4. CASE \E hp \in HostPaths : \E m \in Owed(old, hp) : c = SREM(TempKey(hp), m)
    BY <2>4, CommandFields, HostKeysApart DEF UpdateForm
  <2>5. CASE \E hp \in HostPaths : \E m \in Owed(new, hp) : c = SADD(TempKey(hp), m)
    BY <2>5, CommandFields, HostKeysApart DEF UpdateForm
  <2> QED BY <2>1, <2>2, <2>3, <2>4, <2>5
<1>2. ASSUME NEW c \in Coming(Swap(order))
      PROVE  UpdateForm(c)
  BY <1>2, PreparationComing DEF UpdateForm
<1>3. /\ Preparation(old, new) \in Seq(Commands) /\ Swap(order) \in Seq(Commands)
      /\ UpdateProgram(old, new, order)
           = IF Panics(new) THEN Preparation(old, new) ELSE Preparation(old, new) \o Swap(order)
  BY UpdateParts
<1>4. Coming(Preparation(old, new) \o Swap(order)) = Coming(Preparation(old, new)) \cup Coming(Swap(order))
  BY <1>3, ComingConcat
<1> QED BY <1>1, <1>2, <1>3, <1>4

(* What is left of a sorted program is sorted, and comes behind its head. *)
LEMMA SortedFirst ==
    ASSUME NEW S, NEW cs \in Seq(S), cs # <<>>, Sorted(cs)
    PROVE  Sorted(Tail(cs)) /\ \A d \in Coming(Tail(cs)) : InOrder(Head(cs), d)
<1>1. /\ Len(cs) \in Nat /\ Len(cs) >= 1
      /\ Head(cs) = cs[1]
      /\ Len(Tail(cs)) = Len(cs) - 1
      /\ \A j \in 1..Len(Tail(cs)) : Tail(cs)[j] = cs[j + 1]
  BY TailFacts
<1>2. ASSUME NEW i \in 1..Len(Tail(cs)), NEW j \in 1..Len(Tail(cs)), i < j
      PROVE  InOrder(Tail(cs)[i], Tail(cs)[j])
  <2>1. i + 1 \in 1..Len(cs) /\ j + 1 \in 1..Len(cs) /\ i + 1 < j + 1
    BY <1>1, <1>2
  <2>2. InOrder(cs[i + 1], cs[j + 1])
    BY <2>1 DEF Sorted
  <2> QED BY <1>1, <2>2
<1>3. ASSUME NEW j \in 1..Len(Tail(cs))
      PROVE  InOrder(Head(cs), Tail(cs)[j])
  <2>1. j + 1 \in 1..Len(cs) /\ 1 \in 1..Len(cs) /\ 1 < j + 1
    BY <1>1
  <2>2. InOrder(cs[1], cs[j + 1])
    BY <2>1 DEF Sorted
  <2> QED BY <1>1, <2>2
<1> QED BY <1>2, <1>3 DEF Sorted, Coming

(* add and delete: a command makes one hostPath what it will be sooner.    *)
LEMMA AddStep ==
    ASSUME NEW S, NEW cs \in Seq(S), cs # <<>>, \A c \in Coming(cs) : c.op = "SADD",
           NEW db, DOMAIN db = DBOneKeys, NEW hp \in HostPaths
    PROVE  /\ Final(Apply(db, Head(cs)), Tail(cs), hp) = Final(db, cs, hp)
           /\ Apply(db, Head(cs))[RouteKey(hp)] \in {db[RouteKey(hp)], db[RouteKey(hp)] \cup {Head(cs).arg}}
           /\ Apply(db, Head(cs))[RouteKey(hp)] \subseteq Final(db, cs, hp)
           /\ db[RouteKey(hp)] \subseteq Apply(db, Head(cs))[RouteKey(hp)]
<1> DEFINE c == Head(cs)
           rest == Tail(cs)
           r == RouteKey(hp)
<1>1. Coming(cs) = {c} \cup Coming(rest)
  BY ComingFirst
<1>2. r \in DOMAIN db
  BY HostKeysApart
<1>3. /\ SwapOf(hp) \notin Coming(cs) /\ SwapOf(hp) \notin Coming(rest)
      /\ Removed(cs, r) = {} /\ Removed(rest, r) = {}
  BY <1>1, CommandFields DEF Removed
<1>4. Added(cs, r) = Added(rest, r) \cup (IF c.key = r THEN {c.arg} ELSE {})
  BY <1>1 DEF Added
<1>5. Apply(db, c)[r] = db[r] \cup (IF c.key = r THEN {c.arg} ELSE {})
  BY <1>1, <1>2 DEF Apply
<1> HIDE DEF c, rest, r
<1>6. /\ Final(Apply(db, c), rest, hp) = (Apply(db, c)[r] \ {}) \cup Added(rest, r)
      /\ Final(db, cs, hp) = (db[r] \ {}) \cup Added(cs, r)
  BY <1>3 DEF Final, r
<1> QED BY <1>4, <1>5, <1>6 DEF c, rest, r

LEMMA DeleteStep ==
    ASSUME NEW S, NEW cs \in Seq(S), cs # <<>>, \A c \in Coming(cs) : c.op = "SREM",
           NEW db, DOMAIN db = DBOneKeys, NEW hp \in HostPaths
    PROVE  /\ Final(Apply(db, Head(cs)), Tail(cs), hp) = Final(db, cs, hp)
           /\ Apply(db, Head(cs))[RouteKey(hp)] \in {db[RouteKey(hp)], db[RouteKey(hp)] \ {Head(cs).arg}}
           /\ Final(db, cs, hp) \subseteq Apply(db, Head(cs))[RouteKey(hp)]
           /\ Apply(db, Head(cs))[RouteKey(hp)] \subseteq db[RouteKey(hp)]
<1> DEFINE c == Head(cs)
           rest == Tail(cs)
           r == RouteKey(hp)
<1>1. Coming(cs) = {c} \cup Coming(rest)
  BY ComingFirst
<1>2. r \in DOMAIN db
  BY HostKeysApart
<1>3. /\ SwapOf(hp) \notin Coming(cs) /\ SwapOf(hp) \notin Coming(rest)
      /\ Added(cs, r) = {} /\ Added(rest, r) = {}
  BY <1>1, CommandFields DEF Added
<1>4. Removed(cs, r) = Removed(rest, r) \cup (IF c.key = r THEN {c.arg} ELSE {})
  BY <1>1 DEF Removed
<1>5. Apply(db, c)[r] = db[r] \ (IF c.key = r THEN {c.arg} ELSE {})
  BY <1>1, <1>2 DEF Apply
<1> HIDE DEF c, rest, r
<1>6. /\ Final(Apply(db, c), rest, hp) = (Apply(db, c)[r] \ Removed(rest, r)) \cup {}
      /\ Final(db, cs, hp) = (db[r] \ Removed(cs, r)) \cup {}
  BY <1>3 DEF Final, r
<1> QED BY <1>4, <1>5, <1>6 DEF c, rest, r

(* update: a command on a hostPath puts it in place, and no other changes it. *)
LEMMA UpdateStep ==
    ASSUME NEW S, NEW cs \in Seq(S), cs # <<>>, \A c \in Coming(cs) : UpdateForm(c), Sorted(cs),
           NEW db, DOMAIN db = DBOneKeys, NEW hp \in HostPaths
    PROVE  /\ Final(Apply(db, Head(cs)), Tail(cs), hp) = Final(db, cs, hp)
           /\ Apply(db, Head(cs))[RouteKey(hp)] \in {db[RouteKey(hp)], Final(db, cs, hp)}
           /\ Head(cs).key # RouteKey(hp) => Apply(db, Head(cs))[RouteKey(hp)] = db[RouteKey(hp)]
<1> DEFINE c == Head(cs)
           rest == Tail(cs)
           r == RouteKey(hp)
           t == TempKey(hp)
           next == Apply(db, c)
<1>1. Coming(cs) = {c} \cup Coming(rest)
  BY ComingFirst
<1>2. \A d \in Coming(rest) : About(c, hp) /\ About(d, hp) =>
            Stage(c) < Stage(d) \/ (Stage(c) = Stage(d) /\ Stage(c) \in {2, 3})
  BY SortedFirst DEF InOrder
<1>3. r \in DOMAIN db /\ t \in DOMAIN db /\ r # t /\ r \notin ScriptKeys /\ t \notin ScriptKeys
  BY HostKeysApart
<1>4. /\ CopyOf(hp).op = "SUNIONSTORE" /\ CopyOf(hp).key = t /\ CopyOf(hp).arg = r /\ Stage(CopyOf(hp)) = 1
      /\ SwapOf(hp).op = "SUNIONSTORE" /\ SwapOf(hp).key = r /\ SwapOf(hp).arg = t /\ Stage(SwapOf(hp)) = 4
      /\ DropOf(hp).op = "DEL" /\ DropOf(hp).key = t /\ Stage(DropOf(hp)) = 5
  BY CommandFields, StageFacts
<1>5. \A d : UpdateForm(d) /\ d.op \in {"SADD", "SREM"} => d.key # r
  <2> SUFFICES ASSUME NEW d, UpdateForm(d), d.op \in {"SADD", "SREM"}, d.key = r PROVE FALSE
    OBVIOUS
  <2>1. CASE d.op = "SADD" /\ d.key \in ScriptKeys
    BY <1>3, <2>1
  <2>2. CASE \E h \in HostPaths : d \in {CopyOf(h), SwapOf(h), DropOf(h)}
    BY <2>2, CommandFields
  <2>3. CASE \E h \in HostPaths : \E m : d = SREM(TempKey(h), m) \/ d = SADD(TempKey(h), m)
    BY <2>3, CommandFields, HostKeysApart
  <2> QED BY <2>1, <2>2, <2>3 DEF UpdateForm
<1>6. Removed(cs, r) = {} /\ Added(cs, r) = {} /\ Removed(rest, r) = {} /\ Added(rest, r) = {}
  BY <1>1, <1>5 DEF Removed, Added
<1>7. \/ ~About(c, hp)
      \/ c \in {CopyOf(hp), SwapOf(hp), DropOf(hp)}
      \/ \E m : c = SREM(t, m)
      \/ \E m : c = SADD(t, m)
  <2> SUFFICES ASSUME About(c, hp), UpdateForm(c)
               PROVE  \/ c \in {CopyOf(hp), SwapOf(hp), DropOf(hp)}
                      \/ \E m : c = SREM(t, m)
                      \/ \E m : c = SADD(t, m)
    BY <1>1
  <2>1. CASE c.op = "SADD" /\ c.key \in ScriptKeys
    BY <1>3, <2>1 DEF About
  <2>2. CASE \E h \in HostPaths : \/ c \in {CopyOf(h), SwapOf(h), DropOf(h)}
                                  \/ \E m : c = SREM(TempKey(h), m) \/ c = SADD(TempKey(h), m)
    BY <2>2, AboutFacts
  <2> QED BY <2>1, <2>2 DEF UpdateForm
<1> HIDE DEF c, rest, r, t, next
<1>9. /\ Final(next, rest, hp) =
            IF SwapOf(hp) \in Coming(rest)
            THEN ((IF CopyOf(hp) \in Coming(rest) THEN next[r] ELSE next[t]) \ Removed(rest, t)) \cup Added(rest, t)
            ELSE next[r]
      /\ Final(db, cs, hp) =
            IF SwapOf(hp) \in Coming(cs)
            THEN ((IF CopyOf(hp) \in Coming(cs) THEN db[r] ELSE db[t]) \ Removed(cs, t)) \cup Added(cs, t)
            ELSE db[r]
  BY <1>6 DEF Final, r, t
<1>10. CASE ~About(c, hp)
  <2>1. c.key # r /\ c.key # t
    BY <1>10 DEF About, r, t
  <2>2. next[r] = db[r] /\ next[t] = db[t]
    BY <1>3, <2>1 DEF next, Apply
  <2>3. Removed(cs, t) = Removed(rest, t) /\ Added(cs, t) = Added(rest, t)
    BY <1>1, <2>1 DEF Removed, Added
  <2>4. c # SwapOf(hp) /\ c # CopyOf(hp)
    BY <1>4, <2>1
  <2> QED BY <1>1, <1>9, <2>2, <2>3, <2>4 DEF c, rest, r, next
<1>11. CASE c = CopyOf(hp)
  <2>1. next[t] = db[r] /\ next[r] = db[r]
    BY <1>3, <1>11, ApplySUNIONSTORE DEF next, CopyOf, r, t
  <2>2. CopyOf(hp) \notin Coming(rest)
    BY <1>2, <1>4, <1>11 DEF About, r, t
  <2>3. c.op = "SUNIONSTORE" /\ c # SwapOf(hp)
    BY <1>3, <1>4, <1>11
  <2>4. Removed(cs, t) = Removed(rest, t) /\ Added(cs, t) = Added(rest, t)
    BY <1>1, <2>3 DEF Removed, Added
  <2> QED BY <1>1, <1>9, <1>11, <2>1, <2>2, <2>3, <2>4 DEF c, rest, r, next
<1>12. CASE \E m : c = SREM(t, m)
  <2>1. PICK m : c = SREM(t, m)
    BY <1>12
  <2>2. c.op = "SREM" /\ c.key = t /\ c.arg = m /\ Stage(c) = 2
    BY <2>1, CommandFields, StageFacts
  <2>3. next[t] = db[t] \ {m} /\ next[r] = db[r]
    BY <1>3, <2>1, ApplySREM DEF next
  <2>4. CopyOf(hp) \notin Coming(rest) /\ c # CopyOf(hp) /\ c # SwapOf(hp)
    BY <1>2, <1>4, <2>2 DEF About, r, t
  <2>5. Removed(cs, t) = {m} \cup Removed(rest, t) /\ Added(cs, t) = Added(rest, t)
    BY <1>1, <2>2 DEF Removed, Added
  <2> QED BY <1>1, <1>9, <2>3, <2>4, <2>5 DEF c, rest, r, next
<1>13. CASE \E m : c = SADD(t, m)
  <2>1. PICK m : c = SADD(t, m)
    BY <1>13
  <2>2. c.op = "SADD" /\ c.key = t /\ c.arg = m /\ Stage(c) = 3
    BY <2>1, CommandFields, StageFacts
  <2>3. next[t] = db[t] \cup {m} /\ next[r] = db[r]
    BY <1>3, <2>1, ApplySADD DEF next
  <2>4. CopyOf(hp) \notin Coming(rest) /\ c # CopyOf(hp) /\ c # SwapOf(hp)
    BY <1>2, <1>4, <2>2 DEF About, r, t
  <2>5. Removed(rest, t) = {}
    BY <1>2, <2>2 DEF Removed, About, Stage, r, t
  <2>6. Removed(cs, t) = {} /\ Added(cs, t) = {m} \cup Added(rest, t)
    BY <1>1, <2>2, <2>5 DEF Removed, Added
  <2> QED BY <1>1, <1>9, <2>3, <2>4, <2>5, <2>6 DEF c, rest, r, next
<1>14. CASE c = SwapOf(hp)
  <2>1. next[r] = db[t]
    BY <1>3, <1>14, ApplySUNIONSTORE DEF next, SwapOf, r, t
  <2>2. SwapOf(hp) \notin Coming(rest) /\ CopyOf(hp) \notin Coming(rest) /\ c # CopyOf(hp)
    BY <1>2, <1>3, <1>4, <1>14 DEF About, r, t
  <2>3. \A d \in Coming(cs) : d.op \in {"SADD", "SREM"} => d.key # t
    BY <1>1, <1>2, <1>4, <1>14 DEF Stage, About, r, t
  <2>4. Removed(cs, t) = {} /\ Added(cs, t) = {}
    BY <2>3 DEF Removed, Added
  <2> QED BY <1>1, <1>4, <1>9, <1>14, <2>1, <2>2, <2>4 DEF c, rest, r, next
<1>15. CASE c = DropOf(hp)
  <2>1. next[r] = db[r]
    BY <1>3, <1>15, ApplyDEL DEF next, DropOf, r, t
  <2>2. SwapOf(hp) \notin Coming(rest) /\ c # SwapOf(hp)
    BY <1>2, <1>4, <1>15 DEF About, r, t
  <2> QED BY <1>1, <1>9, <2>1, <2>2 DEF c, rest, r, next
<1> QED BY <1>7, <1>10, <1>11, <1>12, <1>13, <1>14, <1>15

-----------------------------------------------------------------------------
(* A route and a copy of one hold services and names of scripts, and no    *)
(* script itself.                                                          *)

PlainForm(c) ==
    \/ c.op = "SADD" /\ c.key \in ScriptKeys
    \/ c.op \in {"SADD", "SREM"} /\ c.arg \in RouteMembers
    \/ \E hp \in HostPaths : c \in {CopyOf(hp), SwapOf(hp), DropOf(hp)}

RoutesPlain ==
    /\ \A hp \in HostPaths : db1[RouteKey(hp)] \subseteq RouteMembers /\ db1[TempKey(hp)] \subseteq RouteMembers
    /\ \A c \in Coming(todo) : PlainForm(c)

(* The programs of the callbacks. *)
LEMMA ProgramsPlain ==
    ASSUME NEW old \in Objects, NEW new \in Objects
    PROVE  /\ \A c \in Coming(AddProgram(new)) : PlainForm(c)
           /\ \A c \in Coming(DeleteProgram(old)) : PlainForm(c)
           /\ \A order \in SetToSeqs(Touched(old, new)) :
                \A c \in Coming(UpdateProgram(old, new, order)) : PlainForm(c)
<1>1. \A k : \A m \in RouteMembers : PlainForm(SADD(k, m)) /\ PlainForm(SREM(k, m))
  BY DEF PlainForm, SADD, SREM
<1>2. \A o \in Objects : \A hp : Asks(o, hp) \subseteq RouteMembers /\ Owed(o, hp) \subseteq RouteMembers
  BY AsksEntries, OwedType
<1>3. \A c \in Coming(Script(new)) : PlainForm(c)
  BY ScriptComing DEF PlainForm
<1>4. \A c \in Coming(AddProgram(new)) : PlainForm(c)
  BY <1>1, <1>2, <1>3, AddComing
<1>5. \A c \in Coming(DeleteProgram(old)) : PlainForm(c)
  BY <1>1, <1>2, DeleteComing
<1>6. ASSUME NEW order \in SetToSeqs(Touched(old, new)), NEW c \in Coming(UpdateProgram(old, new, order))
      PROVE  PlainForm(c)
  <2>1. c \in Coming(Preparation(old, new)) \/ c \in Coming(Swap(order))
    <3>1. /\ Preparation(old, new) \in Seq(Commands) /\ Swap(order) \in Seq(Commands)
          /\ UpdateProgram(old, new, order)
               = IF Panics(new) THEN Preparation(old, new) ELSE Preparation(old, new) \o Swap(order)
      BY UpdateParts
    <3>2. Coming(Preparation(old, new) \o Swap(order)) = Coming(Preparation(old, new)) \cup Coming(Swap(order))
      BY <3>1, ComingConcat
    <3> QED BY <1>6, <3>1, <3>2
  <2>2. CASE c \in Coming(Preparation(old, new))
    <3>1. \/ \E hp \in HostPaths : Owed(old, hp) # {} /\ c = CopyOf(hp)
          \/ \E hp \in HostPaths : \E m \in Owed(old, hp) : c = SREM(TempKey(hp), m)
          \/ Included(new) /\ c \in Coming(Script(new))
          \/ \E hp \in HostPaths : \E m \in Owed(new, hp) : c = SADD(TempKey(hp), m)
      BY <2>2, PreparationComing
    <3>2. CASE \E hp \in HostPaths : Owed(old, hp) # {} /\ c = CopyOf(hp)
      BY <3>2 DEF PlainForm
    <3> QED BY <1>1, <1>2, <1>3, <3>1, <3>2
  <2>3. CASE c \in Coming(Swap(order))
    BY <2>3, PreparationComing DEF PlainForm
  <2> QED BY <2>1, <2>2, <2>3
<1> QED BY <1>4, <1>5, <1>6

(* One command. *)
LEMMA PlainStep ==
    ASSUME NEW db, DOMAIN db = DBOneKeys, NEW c, PlainForm(c),
           \A hp \in HostPaths : db[RouteKey(hp)] \subseteq RouteMembers /\ db[TempKey(hp)] \subseteq RouteMembers
    PROVE  \A hp \in HostPaths : /\ Apply(db, c)[RouteKey(hp)] \subseteq RouteMembers
                                 /\ Apply(db, c)[TempKey(hp)] \subseteq RouteMembers
<1> SUFFICES ASSUME NEW hp \in HostPaths, NEW k \in {RouteKey(hp), TempKey(hp)}
             PROVE  Apply(db, c)[k] \subseteq RouteMembers
  OBVIOUS
<1>1. k \in DOMAIN db /\ k \notin ScriptKeys /\ db[k] \subseteq RouteMembers
  BY HostKeysApart
<1>2. CASE c.key # k
  BY <1>1, <1>2 DEF Apply
<1>3. CASE c.key = k /\ c.op \in {"SADD", "SREM"} /\ c.arg \in RouteMembers
  BY <1>1, <1>3 DEF Apply
<1>4. CASE c.key = k /\ \E h \in HostPaths : c \in {CopyOf(h), SwapOf(h), DropOf(h)}
  <2>1. PICK h \in HostPaths : c \in {CopyOf(h), SwapOf(h), DropOf(h)}
    BY <1>4
  <2>2. \/ c.op = "DEL"
        \/ c.op = "SUNIONSTORE" /\ c.arg \in {RouteKey(h), TempKey(h)}
    BY <2>1, CommandFields
  <2> QED BY <1>1, <1>4, <2>2 DEF Apply
<1> QED BY <1>1, <1>2, <1>3, <1>4 DEF PlainForm

LEMMA RoutesPlainInductive ==
    /\ Init => RoutesPlain
    /\ TypeOK /\ StoreIds /\ RoutesPlain /\ [Next]_ingressVars => RoutesPlain'
<1>1. Coming(<<>>) = {}
  BY DEF Coming
<1>2. ASSUME Init PROVE RoutesPlain
  <2>1. \A hp \in HostPaths : db1[RouteKey(hp)] = {} /\ db1[TempKey(hp)] = {}
    BY <1>2, HostKeysApart DEF Init
  <2> QED BY <1>1, <1>2, <2>1 DEF Init, RoutesPlain
<1>3. ASSUME TypeOK, StoreIds, RoutesPlain, [Next]_ingressVars
      PROVE  RoutesPlain'
  <2>1. CASE IngressEvent
    <3>1. PICK n \in Ids :
                \/ \E o \in {o \in Objects : Id(o.spec) = n} : BeginsAdd(n, o) \/ BeginsUpdate(n, o)
                \/ BeginsDelete(n)
                \/ Misses(n)
      BY <1>3, <2>1, EventKinds
    <3>2. \A c \in Coming(todo') : PlainForm(c)
      <4>1. ASSUME NEW o \in Objects, BeginsAdd(n, o)
            PROVE  \A c \in Coming(todo') : PlainForm(c)
        BY <4>1, ProgramsPlain DEF BeginsAdd, Begins
      <4>2. ASSUME NEW o \in Objects, BeginsUpdate(n, o)
            PROVE  \A c \in Coming(todo') : PlainForm(c)
        <5>1. PICK order \in SetToSeqs(Touched(store[n], o)) : todo' = UpdateProgram(store[n], o, order)
          BY <4>2 DEF BeginsUpdate, Begins
        <5>2. store[n] \in Objects
          BY <4>2 DEF BeginsUpdate
        <5> QED BY <5>1, <5>2, ProgramsPlain
      <4>3. ASSUME BeginsDelete(n)
            PROVE  \A c \in Coming(todo') : PlainForm(c)
        BY <4>3, ProgramsPlain DEF BeginsDelete, Begins
      <4>4. ASSUME Misses(n)
            PROVE  \A c \in Coming(todo') : PlainForm(c)
        BY <1>1, <4>4 DEF Misses, Begins
      <4> QED BY <3>1, <4>1, <4>2, <4>3, <4>4
    <3>3. db1' = db1
      BY <1>3, <2>1, EventKinds
    <3> QED BY <1>3, <3>2, <3>3 DEF RoutesPlain
  <2>2. CASE Exec
    <3>1. todo \in Seq(Commands) /\ todo # <<>> /\ DOMAIN db1 = DBOneKeys
      BY <1>3, <2>2 DEF Exec, Idle, TypeOK
    <3>2. Coming(todo) = {Head(todo)} \cup Coming(Tail(todo))
      BY <3>1, ComingFirst
    <3>3. (db1' = Apply(db1, Head(todo)) \/ db1' = db1) /\ todo' = Tail(todo)
      BY <2>2 DEF Exec, Succeeds, Fails
    <3>4. \A hp \in HostPaths : /\ Apply(db1, Head(todo))[RouteKey(hp)] \subseteq RouteMembers
                                /\ Apply(db1, Head(todo))[TempKey(hp)] \subseteq RouteMembers
      BY <1>3, <3>1, <3>2, PlainStep DEF RoutesPlain
    <3> QED BY <1>3, <3>2, <3>3, <3>4 DEF RoutesPlain
  <2>3. CASE Panic \/ Restart
    <3>1. todo' = <<>> /\ \A k \in DBOneKeys : db1'[k] = {}
      BY <1>3, <2>3 DEF Panic, Restart, FlushAll, TypeOK
    <3>2. \A hp \in HostPaths : db1'[RouteKey(hp)] = {} /\ db1'[TempKey(hp)] = {}
      BY <3>1, HostKeysApart
    <3> QED BY <1>1, <3>1, <3>2 DEF RoutesPlain
  <2>4. CASE UNCHANGED ingressVars
    BY <1>3, <2>4 DEF ingressVars, RoutesPlain
  <2> QED BY <1>3, <2>1, <2>2, <2>3, <2>4 DEF Next
<1> QED BY <1>2, <1>3

-----------------------------------------------------------------------------
(* The table follows. *)

(* The inductive invariant: the commands left are of the kind of the       *)
(* event, and with them the table becomes what is wanted.  An update that  *)
(* is going to stop at the broken part of its object does not touch it.    *)
Catching ==
    faults + missed = 0 =>
        /\ event = "none" => todo = <<>>
        /\ event = "add" => \A c \in Coming(todo) : c.op = "SADD"
        /\ event = "delete" => \A c \in Coming(todo) : c.op = "SREM"
        /\ event = "update" => Sorted(todo) /\ \A c \in Coming(todo) : UpdateForm(c)
        /\ IF event = "update" /\ Doomed
           THEN \A c \in Coming(todo), hp \in HostPaths : c.key # RouteKey(hp)
           ELSE \A hp \in HostPaths : Final(db1, todo, hp) = Wanted[hp]

(* With nothing left to issue it is the table. *)
LEMMA EmptyFinal ==
    ASSUME NEW db, NEW hp
    PROVE  Final(db, <<>>, hp) = db[RouteKey(hp)] /\ Coming(<<>>) = {}
BY DEF Final, Coming, Added, Removed

(* What the informer's store holds, now and after a step. *)
LEMMA StoreFacts ==
    /\ TypeOK /\ StoreIds => store \in Stores
    /\ TypeOK' /\ StoreIds' => store' \in Stores
    /\ Wanted = WantedBy(store) /\ Wanted' = WantedBy(store')
<1>1. TypeOK /\ StoreIds => store \in Stores
  BY DEF TypeOK, StoreIds, Stores
<1>2. TypeOK' /\ StoreIds' => store' \in Stores
  BY DEF TypeOK, StoreIds, Stores
<1>3. Wanted = WantedBy(store) /\ Wanted' = WantedBy(store')
  BY DEF Wanted, WantedBy, Declared
<1> QED BY <1>1, <1>2, <1>3

(* The counters only go up. *)
LEMMA LossesStay ==
    ASSUME TypeOK, StoreIds, [Next]_ingressVars
    PROVE  /\ faults \in Nat /\ missed \in Nat /\ faults' \in Nat /\ missed' \in Nat
           /\ faults' + missed' = 0 => faults + missed = 0
<1>1. faults \in Nat /\ missed \in Nat
  BY BoundsAssumption DEF TypeOK
<1>2. /\ faults' = faults \/ faults' = faults + 1
      /\ missed' = missed \/ missed' = missed + 1
  <2>1. CASE IngressEvent
    BY <2>1, EventKinds DEF BeginsAdd, BeginsUpdate, BeginsDelete, Misses
  <2>2. CASE Exec
    BY <2>2 DEF Exec, Succeeds, Fails
  <2>3. CASE Panic \/ Restart
    BY <2>3 DEF Panic, Restart
  <2>4. CASE UNCHANGED ingressVars
    BY <2>4 DEF ingressVars
  <2> QED BY <2>1, <2>2, <2>3, <2>4 DEF Next
<1> QED BY <1>1, <1>2

(* Every event finds the table as it is wanted, and brings the commands    *)
(* that make it what is wanted next.                                       *)
LEMMA EventCatches ==
    ASSUME Orderly(Specs), TypeOK, TypeOK', StoreIds, StoreIds', Copies, Catching,
           IngressEvent, faults' + missed' = 0
    PROVE  Catching' /\ Table = Wanted /\ Table' = Table
<1>1. /\ todo = <<>> /\ ~Doomed /\ db1' = db1 /\ faults' = faults
      /\ faults + missed = 0 /\ faults = 0 /\ missed = 0 /\ missed' = 0
  <2>1. todo = <<>> /\ ~Doomed /\ db1' = db1 /\ faults' = faults
    BY EventKinds
  <2>2. [Next]_ingressVars
    BY DEF Next
  <2> QED BY <2>1, <2>2, LossesStay, Sums
<1>2. PICK n \in Ids :
            \/ \E o \in {o \in Objects : Id(o.spec) = n} : BeginsAdd(n, o) \/ BeginsUpdate(n, o)
            \/ BeginsDelete(n)
            \/ Misses(n)
  BY EventKinds
<1>3. store \in Stores /\ store' \in Stores /\ Wanted = WantedBy(store) /\ Wanted' = WantedBy(store')
  BY StoreFacts
<1>4. \A hp \in HostPaths : db1[RouteKey(hp)] = Wanted[hp] /\ db1[TempKey(hp)] = {}
  <2>1. \A hp \in HostPaths : db1[RouteKey(hp)] = Wanted[hp]
    BY <1>1, EmptyFinal DEF Catching
  <2>2. \A hp \in HostPaths : db1[TempKey(hp)] = {}
    BY <1>1, EmptyFinal DEF Copies
  <2> QED BY <2>1, <2>2
<1>5. Table = Wanted /\ Table' = Table
  BY <1>1, <1>4 DEF Table, Wanted
<1>6. \A m \in Ids : m # n => store'[m] = store[m]
  BY <1>2 DEF BeginsAdd, BeginsUpdate, BeginsDelete, Misses, Begins, TypeOK
<1>7. \A hp \in HostPaths :
            /\ db1[RouteKey(hp)] = Owed(store[n], hp) \cup Others(store, n, hp)
            /\ Wanted'[hp] = Owed(store'[n], hp) \cup Others(store, n, hp)
  BY <1>3, <1>4, <1>6, WantedSplit, WantedChange
<1>8. ASSUME NEW o \in Objects, Id(o.spec) = n, BeginsAdd(n, o)
      PROVE  Catching'
  <2>1. store[n] = NoObject /\ store'[n] = o /\ event' = "add" /\ todo' = AddProgram(o)
    BY <1>8 DEF BeginsAdd, Begins, TypeOK
  <2>2. \A hp : Owed(store[n], hp) = {}
    BY <2>1 DEF Owed
  <2>3. ASSUME NEW hp \in HostPaths
        PROVE  Final(db1, AddProgram(o), hp) = Wanted'[hp]
    <3>1. Final(db1, AddProgram(o), hp) = db1[RouteKey(hp)] \cup Owed(o, hp)
      BY AddFinal
    <3> QED BY <1>7, <2>1, <2>2, <3>1
  <2>4. \A c \in Coming(AddProgram(o)) : c.op = "SADD"
    BY AddComing
  <2> QED BY <1>1, <2>1, <2>3, <2>4 DEF Catching
<1>9. ASSUME BeginsDelete(n)
      PROVE  Catching'
  <2>1. /\ store[n] \in Objects /\ Id(store[n].spec) = n /\ store'[n] = NoObject
        /\ event' = "delete" /\ todo' = DeleteProgram(store[n])
    BY <1>9, OwedType DEF BeginsDelete, Begins, TypeOK, StoreIds
  <2>2. \A hp : Owed(store'[n], hp) = {}
    BY <2>1 DEF Owed
  <2>3. \A hp : Owed(store[n], hp) \cap Others(store, n, hp) = {}
    BY <1>3, <2>1, OrderlyOthers
  <2>4. ASSUME NEW hp \in HostPaths
        PROVE  Final(db1, DeleteProgram(store[n]), hp) = Wanted'[hp]
    <3>1. Final(db1, DeleteProgram(store[n]), hp) = db1[RouteKey(hp)] \ Owed(store[n], hp)
      BY <2>1, DeleteFinal
    <3> QED BY <1>7, <2>2, <2>3, <3>1
  <2>5. \A c \in Coming(DeleteProgram(store[n])) : c.op = "SREM"
    BY <2>1, DeleteComing
  <2> QED BY <1>1, <2>1, <2>4, <2>5 DEF Catching
<1>10. ASSUME NEW o \in Objects, Id(o.spec) = n, BeginsUpdate(n, o)
       PROVE  Catching'
  <2> DEFINE old == store[n]
  <2>1. /\ old \in Objects /\ Id(old.spec) = n /\ old # NoObject /\ o # NoObject
        /\ store'[n] = o /\ event' = "update"
    BY <1>10, OwedType DEF BeginsUpdate, Begins, TypeOK, StoreIds
  <2>2. PICK order \in SetToSeqs(Touched(old, o)) : todo' = UpdateProgram(old, o, order)
    BY <1>10 DEF BeginsUpdate, Begins
  <2>3. Doomed' <=> Panics(o)
    BY <1>1, <1>6, <2>1 DEF Doomed
  <2>4. Sorted(todo') /\ \A c \in Coming(todo') : UpdateForm(c)
    BY <2>1, <2>2, UpdateSorted, UpdateForms
  <2> HIDE DEF old
  <2>5. ASSUME Panics(o)
        PROVE  \A c \in Coming(todo'), hp \in HostPaths : c.key # RouteKey(hp)
    BY <2>1, <2>2, <2>5, UpdateForms
  <2>6. ASSUME ~Panics(o), NEW hp \in HostPaths
        PROVE  Final(db1, todo', hp) = Wanted'[hp]
    <3>1. Final(db1, todo', hp)
            = IF Owed(old, hp) = {} /\ Owed(o, hp) # {}
              THEN db1[TempKey(hp)] \cup Owed(o, hp)
              ELSE (db1[RouteKey(hp)] \ Owed(old, hp)) \cup Owed(o, hp)
      <4>1. Final(db1, UpdateProgram(old, o, order), hp)
              = IF Owed(old, hp) = {} /\ Owed(o, hp) # {}
                THEN db1[TempKey(hp)] \cup Owed(o, hp)
                ELSE (db1[RouteKey(hp)] \ Owed(old, hp)) \cup Owed(o, hp)
        BY <2>1, <2>2, <2>6, UpdateFinal
      <4> QED BY <2>2, <4>1
    <3>2. CASE Owed(old, hp) = {} /\ Owed(o, hp) # {}
      <4>1. Others(store, n, hp) = {}
        BY <1>3, <1>10, <2>1, <3>2, OrderlyOthers DEF old
      <4> QED BY <1>4, <1>7, <2>1, <3>1, <3>2, <4>1 DEF old
    <3>3. CASE ~(Owed(old, hp) = {} /\ Owed(o, hp) # {})
      <4>1. Owed(old, hp) \cap Others(store, n, hp) = {}
        BY <1>3, <2>1, OrderlyOthers DEF old
      <4> QED BY <1>7, <2>1, <3>1, <3>3, <4>1 DEF old
    <3> QED BY <3>2, <3>3
  <2> QED BY <1>1, <2>1, <2>3, <2>4, <2>5, <2>6 DEF Catching
<1>11. ~Misses(n)
  BY <1>1 DEF Misses
<1> QED BY <1>2, <1>5, <1>8, <1>9, <1>10, <1>11

(* A command that succeeds changes what a request finds at a hostPath only *)
(* towards what is wanted, and update puts it in place.                    *)
LEMMA ExecCatches ==
    ASSUME TypeOK, Catching, Exec, faults + missed = 0
    PROVE  /\ faults' = 0 => Catching'
           /\ event = "update" => \A hp \in HostPaths : Table'[hp] \in {Table[hp], Wanted[hp]}
           /\ \A hp \in HostPaths :
                /\ Table'[hp] \ Table[hp] \subseteq Wanted[hp]
                /\ (Table[hp] \ Table'[hp]) \cap Wanted[hp] = {}
           /\ \A hp \in HostPaths : Head(todo).key # RouteKey(hp) => Table'[hp] = Table[hp]
<1> DEFINE c == Head(todo)
<1>1. todo \in Seq(Commands) /\ todo # <<>> /\ DOMAIN db1 = DBOneKeys /\ todo' = Tail(todo)
  BY DEF Exec, Idle, TypeOK
<1>2. Coming(todo) = {c} \cup Coming(todo')
  BY <1>1, ComingFirst
<1>3. /\ event' = event /\ missed' = missed /\ store' = store
      /\ Wanted' = Wanted /\ Doomed' = Doomed
      /\ event \in {"none", "add", "update", "delete"}
  BY DEF Exec, Wanted, Declared, Doomed, TypeOK
<1>4. \A hp \in HostPaths : Table[hp] = db1[RouteKey(hp)] /\ Table'[hp] = db1'[RouteKey(hp)]
  BY DEF Table
<1>5. CASE Fails
  <2>1. faults' # 0
    BY <1>5, BoundsAssumption DEF Fails, TypeOK
  <2> QED BY <1>4, <1>5, <2>1 DEF Fails
<1>6. CASE Succeeds
  <2> DEFINE next == Apply(db1, c)
  <2>1. db1' = next /\ faults' = faults
    BY <1>6 DEF Succeeds
  <2>2. event # "none"
    BY <1>1 DEF Catching
  <2>3. CASE event = "add" \/ event = "delete"
    <3>1. \A hp \in HostPaths : Final(db1, todo, hp) = Wanted[hp]
      BY <2>3 DEF Catching
    <3>2. ASSUME NEW hp \in HostPaths
          PROVE  /\ Final(next, todo', hp) = Final(db1, todo, hp)
                 /\ next[RouteKey(hp)] \ db1[RouteKey(hp)] \subseteq Final(db1, todo, hp)
                 /\ (db1[RouteKey(hp)] \ next[RouteKey(hp)]) \cap Final(db1, todo, hp) = {}
      <4>1. CASE event = "add"
        <5>1. \A d \in Coming(todo) : d.op = "SADD"
          BY <4>1 DEF Catching
        <5> QED BY <1>1, <5>1, AddStep
      <4>2. CASE event = "delete"
        <5>1. \A d \in Coming(todo) : d.op = "SREM"
          BY <4>2 DEF Catching
        <5> QED BY <1>1, <5>1, DeleteStep
      <4> QED BY <2>3, <4>1, <4>2
    <3>3. \A hp \in HostPaths : c.key # RouteKey(hp) => next[RouteKey(hp)] = db1[RouteKey(hp)]
      BY <1>1, HostKeysApart DEF Apply
    <3>4. Catching'
      BY <1>2, <1>3, <2>1, <2>3, <3>1, <3>2 DEF Catching
    <3> QED BY <1>4, <2>1, <2>3, <3>1, <3>2, <3>3, <3>4
  <2>4. CASE event = "update"
    <3>1. Sorted(todo) /\ \A d \in Coming(todo) : UpdateForm(d)
      BY <2>4 DEF Catching
    <3>2. ASSUME NEW hp \in HostPaths
          PROVE  /\ Final(next, todo', hp) = Final(db1, todo, hp)
                 /\ next[RouteKey(hp)] \in {db1[RouteKey(hp)], Final(db1, todo, hp)}
                 /\ c.key # RouteKey(hp) => next[RouteKey(hp)] = db1[RouteKey(hp)]
      BY <1>1, <3>1, UpdateStep
    <3>3. Sorted(todo') /\ \A d \in Coming(todo') : UpdateForm(d)
      BY <1>1, <1>2, <3>1, SortedFirst
    <3>4. CASE Doomed
      <4>1. \A d \in Coming(todo), hp \in HostPaths : d.key # RouteKey(hp)
        BY <2>4, <3>4 DEF Catching
      <4>2. Catching'
        BY <1>2, <1>3, <2>4, <3>3, <3>4, <4>1 DEF Catching
      <4> QED BY <1>2, <1>4, <2>1, <3>2, <4>1, <4>2
    <3>5. CASE ~Doomed
      <4>1. \A hp \in HostPaths : Final(db1, todo, hp) = Wanted[hp]
        BY <2>4, <3>5 DEF Catching
      <4>2. Catching'
        BY <1>3, <2>1, <2>4, <3>2, <3>3, <3>5, <4>1 DEF Catching
      <4>3. \A hp \in HostPaths : Table'[hp] \in {Table[hp], Wanted[hp]}
        BY <1>4, <2>1, <3>2, <4>1
      <4> QED BY <1>4, <2>1, <3>2, <4>2, <4>3
    <3> QED BY <3>4, <3>5
  <2> QED BY <1>3, <2>2, <2>3, <2>4
<1> QED BY <1>5, <1>6 DEF Exec

(* The inductive invariant of the table. *)
Faithful == TypeOK /\ StoreIds /\ Copies /\ RoutesPlain /\ Catching

LEMMA CatchingInductive ==
    ASSUME Orderly(Specs)
    PROVE  /\ Init => Catching
           /\ TypeOK /\ TypeOK' /\ StoreIds /\ Copies /\ Catching /\ [Next]_ingressVars => Catching'
<1>1. ASSUME Init
      PROVE  Catching
  <2>1. \A hp \in HostPaths : db1[RouteKey(hp)] = {}
    BY <1>1, HostKeysApart DEF Init
  <2>2. \A hp \in HostPaths : Wanted[hp] = {}
    BY <1>1 DEF Init, Wanted, Declared
  <2> QED BY <1>1, <2>1, <2>2, EmptyFinal DEF Init, Catching
<1>2. ASSUME TypeOK, TypeOK', StoreIds, Copies, Catching, [Next]_ingressVars
      PROVE  Catching'
  <2> SUFFICES ASSUME faults' + missed' = 0 PROVE Catching'
    BY DEF Catching
  <2>1. faults + missed = 0 /\ faults' = 0
    BY <1>2, LossesStay, Sums
  <2>2. StoreIds'
    BY <1>2, StoreIdsInductive
  <2>3. CASE IngressEvent
    BY <1>2, <2>2, <2>3, EventCatches
  <2>4. CASE Exec
    BY <1>2, <2>1, <2>4, ExecCatches
  <2>5. CASE Panic \/ Restart
    <3>1. /\ \A k \in DBOneKeys : db1'[k] = {}
          /\ event' = "none" /\ todo' = <<>> /\ store' = [n \in Ids |-> NoObject]
      BY <1>2, <2>5 DEF Panic, Restart, FlushAll, TypeOK
    <3>2. \A hp \in HostPaths : db1'[RouteKey(hp)] = {}
      BY <3>1, HostKeysApart
    <3>3. \A hp \in HostPaths : Wanted'[hp] = {}
      BY <3>1 DEF Wanted, Declared
    <3> QED BY <3>1, <3>2, <3>3, EmptyFinal DEF Catching
  <2>6. CASE UNCHANGED ingressVars
    BY <1>2, <2>6 DEF ingressVars, Catching, Doomed, Wanted, Declared
  <2> QED BY <1>2, <2>3, <2>4, <2>5, <2>6 DEF Next
<1> QED BY <1>1, <1>2

LEMMA FaithfulAlways ==
    ASSUME Orderly(Specs)
    PROVE  Spec => []Faithful
BY TypeCorrect, StoreIdsInductive, CopiesInductive, RoutesPlainInductive, CatchingInductive, PTL
   DEF Spec, Faithful

(* Between callbacks the table is what the declared ingresses ask for, for *)
(* every set of ingresses that keep apart what they write                  *)
(* (handlerIngress.go:44-71, 217-334): the members an update or a delete   *)
(* takes away are never ones that another ingress needs.                   *)
THEOREM TableSettles ==
    ASSUME Orderly(Specs)
    PROVE  Spec => []Settled
<1>1. Faithful => Settled
  <2> SUFFICES ASSUME Faithful, AtRest, faults + missed = 0 PROVE Table = Wanted
    BY DEF Settled
  <2>1. todo = <<>> /\ ~Doomed
    BY DEF AtRest, Idle, Dying, Doomed
  <2>2. \A hp \in HostPaths : db1[RouteKey(hp)] = Wanted[hp]
    BY <2>1, EmptyFinal DEF Faithful, Catching
  <2> QED BY <2>2 DEF Table, Wanted
<1> QED BY <1>1, FaithfulAlways, PTL

(* update puts a hostPath in place with one command                        *)
(* (handlerIngress.go:329-332): a request finds at each hostPath what was  *)
(* there before or what is wanted, and nothing in between.                 *)
THEOREM UpdatesInPlace ==
    ASSUME Orderly(Specs)
    PROVE  Spec => UpdateIsAtomic
<1>1. Faithful /\ [Next]_ingressVars =>
        [Exec /\ event = "update" /\ faults + missed = 0 =>
            \A hp \in HostPaths : Table'[hp] \in {Table[hp], Wanted[hp]}]_ingressVars
  BY ExecCatches DEF Faithful
<1> QED BY <1>1, FaithfulAlways, PTL DEF Spec, UpdateIsAtomic

-----------------------------------------------------------------------------
(* The handler and LookupTable. *)

(* The table and what is wanted are tables. *)
LEMMA TablesType ==
    /\ Faithful => Table \in Promise!Tables /\ Wanted \in Promise!Tables
    /\ Faithful' => Table' \in Promise!Tables /\ Wanted' \in Promise!Tables
<1>1. Faithful => Table \in Promise!Tables
  BY DEF Faithful, RoutesPlain, Table, Promise!Tables
<1>2. Faithful' => Table' \in Promise!Tables
  BY DEF Faithful, RoutesPlain, Table, Promise!Tables
<1>3. ASSUME NEW st \in Stores
      PROVE  WantedBy(st) \in Promise!Tables
  <2>1. ASSUME NEW hp \in HostPaths
        PROVE  WantedBy(st)[hp] \subseteq RouteMembers
    <3>1. \A o \in Objects : Asks(o, hp) \subseteq RouteMembers
      BY AsksEntries
    <3> QED BY <3>1 DEF WantedBy, Stores
  <2> QED BY <2>1 DEF WantedBy, Promise!Tables
<1> QED BY <1>1, <1>2, <1>3, StoreFacts DEF Faithful

(* Every step of the handler and of its informer is one that LookupTable   *)
(* allows, or none.                                                        *)
LEMMA StepIsPromised ==
    ASSUME Orderly(Specs), Faithful, Faithful', [Next]_ingressVars
    PROVE  [Promise!Next]_(Promise!lookupVars)
<1> USE DEF Faithful
<1> DEFINE Lost == faults + missed > 0
<1>1. /\ faults \in Nat /\ missed \in Nat /\ faults' \in Nat /\ missed' \in Nat
      /\ faults' + missed' = 0 => faults + missed = 0
  BY LossesStay
<1>2. /\ Table \in Promise!Tables /\ Wanted \in Promise!Tables
      /\ Table' \in Promise!Tables /\ Wanted' \in Promise!Tables
  BY TablesType
<1>3. CASE Lost'
  BY <1>2, <1>3 DEF Promise!Next, Promise!Lose
<1>4. CASE ~Lost'
  <2>1. faults + missed = 0 /\ faults' + missed' = 0 /\ faults' = 0 /\ Lost' = Lost
    BY <1>1, <1>4, Sums
  <2>2. CASE IngressEvent
    <3>1. Table = Wanted /\ Table' = Table
      BY <2>1, <2>2, EventCatches
    <3> QED BY <1>2, <2>1, <3>1 DEF Promise!Next, Promise!Declare
  <2>3. CASE Exec
    <3>1. /\ \A hp \in HostPaths :
                /\ Table'[hp] \ Table[hp] \subseteq Wanted[hp]
                /\ (Table[hp] \ Table'[hp]) \cap Wanted[hp] = {}
          /\ \A hp \in HostPaths : Head(todo).key # RouteKey(hp) => Table'[hp] = Table[hp]
      BY <2>1, <2>3, ExecCatches
    <3>2. Wanted' = Wanted
      BY <2>3 DEF Exec, Wanted, Declared
    <3>3. Table \in [HostPaths -> SUBSET RouteMembers] /\ Table' \in [HostPaths -> SUBSET RouteMembers]
      BY <1>2 DEF Promise!Tables
    <3>4. CASE \E hp \in HostPaths : Head(todo).key = RouteKey(hp)
      <4>1. PICK hp \in HostPaths : Head(todo).key = RouteKey(hp)
        BY <3>4
      <4> DEFINE gone == Table[hp] \ Table'[hp]
                 come == Table'[hp] \ Table[hp]
      <4>2. gone \in SUBSET (Table[hp] \ Wanted[hp]) /\ come \in SUBSET (Wanted[hp] \ Table[hp])
        BY <3>1
      <4>3. Table'[hp] = (Table[hp] \ gone) \cup come
        OBVIOUS
      <4>4. \A other \in HostPaths : other # hp => Table'[other] = Table[other]
        BY <3>1, <4>1, HostKeysApart
      <4> HIDE DEF gone, come
      <4>5. Table' = [Table EXCEPT ![hp] = (@ \ gone) \cup come]
        BY <3>3, <4>3, <4>4
      <4> QED BY <2>1, <3>2, <4>2, <4>5 DEF Promise!Next, Promise!Publish
    <3>5. CASE \A hp \in HostPaths : Head(todo).key # RouteKey(hp)
      <4>1. Table' = Table
        BY <3>1, <3>3, <3>5
      <4> QED BY <2>1, <3>2, <4>1 DEF Promise!lookupVars
    <3> QED BY <3>4, <3>5
  <2>4. CASE Panic \/ Restart
    <3>1. /\ \A k \in DBOneKeys : db1'[k] = {}
          /\ store' = [n \in Ids |-> NoObject]
      BY <2>4 DEF Panic, Restart, FlushAll, TypeOK
    <3>2. \A hp \in HostPaths : db1'[RouteKey(hp)] = {}
      BY <3>1, HostKeysApart
    <3>3. Table' = [hp \in HostPaths |-> {}]
      BY <3>2 DEF Table
    <3>4. Wanted' = [hp \in HostPaths |-> {}]
      BY <3>1 DEF Wanted, Declared
    <3> QED BY <2>1, <3>3, <3>4 DEF Promise!Next, Promise!Reset
  <2>5. CASE UNCHANGED ingressVars
    BY <2>1, <2>5 DEF ingressVars, Table, Wanted, Declared, Promise!lookupVars
  <2> QED BY <2>2, <2>3, <2>4, <2>5 DEF Next
<1> QED BY <1>3, <1>4

(* The handler implements the safety part of LookupTable for all ingresses *)
(* that keep apart what they write: one command changes one hostPath, and  *)
(* on the way from one declaration to the next a request never misses what *)
(* both ask for, nor finds what neither does.                              *)
THEOREM HandlerImplementsTable ==
    ASSUME Orderly(Specs)
    PROVE  Spec => Promise!SafeSpec
<1>1. Init => Promise!Init
  <2> SUFFICES ASSUME Init PROVE Promise!Init
    OBVIOUS
  <2>1. \A hp \in HostPaths : db1[RouteKey(hp)] = {}
    BY HostKeysApart DEF Init
  <2>2. Table = [hp \in HostPaths |-> {}]
    BY <2>1 DEF Table
  <2>3. Wanted = [hp \in HostPaths |-> {}]
    BY DEF Init, Wanted, Declared
  <2> QED BY <2>2, <2>3 DEF Init, Promise!Init
<1>2. Faithful /\ Faithful' /\ [Next]_ingressVars => [Promise!Next]_(Promise!lookupVars)
  BY StepIsPromised
<1> QED BY <1>1, <1>2, FaithfulAlways, PTL DEF Spec, Promise!SafeSpec
=============================================================================
