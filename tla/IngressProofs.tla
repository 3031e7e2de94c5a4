---------------------------- MODULE IngressProofs ----------------------------
(***************************************************************************)
(* Theorems of IngressHandler, for every set of specs and every bound:     *)
(* type correctness, and that no route names a script that is not there.   *)
(***************************************************************************)
EXTENDS IngressHandler, RedisProofs, FiniteSetTheorems

-----------------------------------------------------------------------------
(* What Unroll returns is made of what the bodies are made of. *)
LEMMA UnrollElements ==
    ASSUME NEW S, NEW bodies, NEW k \in 1..3, Len(bodies) \in Nat,
           \A i \in 1..Len(bodies) : \A j \in 1..k : bodies[i][j] \in S
    PROVE  Unroll(bodies, k) \in Seq(S)
<1> DEFINE n == Len(bodies)
<1>1. ASSUME NEW j \in 1..(k * n)
      PROVE  1 + ((j - 1) \div k) \in 1..n /\ 1 + ((j - 1) % k) \in 1..k
  <2>1. CASE k = 1
    BY <1>1, <2>1
  <2>2. CASE k = 2
    BY <1>1, <2>2
  <2>3. CASE k = 3
    BY <1>1, <2>3
  <2> QED BY <2>1, <2>2, <2>3
<1>2. k * n \in Nat
  OBVIOUS
<1>3. [j \in 1..(k * n) |-> bodies[1 + ((j - 1) \div k)][1 + ((j - 1) % k)]] \in [1..(k * n) -> S]
  BY <1>1
<1>4. Unroll(bodies, k) \in [1..(k * n) -> S]
  BY <1>3 DEF Unroll
<1> HIDE DEF n
<1> QED BY <1>2, <1>4, IsSequence

-----------------------------------------------------------------------------
(* The commands of the callbacks. *)

(* A command that leaves the scripts alone and adds no name of a script    *)
(* other than ks.                                                          *)
Harmless(ks) ==
    {c \in Commands : /\ c.key \notin ScriptKeys
                      /\ c.op = "SADD" => c.arg \notin ScriptKeys \ ks
                      /\ c.op = "SUNIONSTORE" => c.arg \notin ScriptKeys}

ScriptAdds == {c \in Commands : c.op = "SADD" /\ c.key \in ScriptKeys}

(* The scripts a program has added before its j-th command. *)
AddedBefore(cs, j) == {cs[i].key : i \in {i \in 1..(j - 1) : cs[i] \in ScriptAdds}}

(* A program that names no script but ks and the ones it added before. *)
Covered(cs, ks) ==
    \A j \in 1..Len(cs) : cs[j] \in ScriptAdds \cup Harmless(ks \cup AddedBefore(cs, j))

(* The scripts an object names. *)
Names(o) == IF HasSnippet(o) THEN {ScriptKey(o)} ELSE {}

(* The routes of a spec are a sequence over the host paths and services.   *)
LEMMA RoutesType ==
    ASSUME NEW s \in Specs
    PROVE  /\ Len(Routes(s)) \in Nat
           /\ DOMAIN Routes(s) = 1..Len(Routes(s))
           /\ \A i \in 1..Len(Routes(s)) : /\ Routes(s)[i].hp \in HostPathsOf(s)
                                          /\ Routes(s)[i].hp \in HostPaths
                                          /\ <<"svc", Routes(s)[i].svc>> \in Services
<1>1. RuleRoutes(s) \in Seq({RuleRoutes(s)[i] : i \in 1..Len(s.rules)})
  <2>1. Len(s.rules) \in Nat
    BY SpecsAssumption
  <2>2. RuleRoutes(s) \in [1..Len(s.rules) -> {RuleRoutes(s)[i] : i \in 1..Len(s.rules)}]
    BY DEF RuleRoutes
  <2> QED BY <2>1, <2>2, IsSequence
<1>2. DefaultRoutes(s) \in Seq({DefaultRoutes(s)[i] : i \in 1..2})
  <2>1. CASE s.backend = NoBackend
    BY <2>1 DEF DefaultRoutes
  <2>2. CASE s.backend # NoBackend
    <3>1. DefaultRoutes(s) \in [1..2 -> {DefaultRoutes(s)[i] : i \in 1..2}]
      BY <2>2 DEF DefaultRoutes
    <3> QED BY <3>1, IsSequence
  <2> QED BY <2>1, <2>2
<1>3. Len(Routes(s)) \in Nat /\ DOMAIN Routes(s) = 1..Len(Routes(s))
  BY <1>1, <1>2 DEF Routes
<1>4. ASSUME NEW i \in 1..Len(Routes(s))
      PROVE  /\ Routes(s)[i].hp \in HostPathsOf(s)
             /\ Routes(s)[i].hp \in HostPaths
             /\ <<"svc", Routes(s)[i].svc>> \in Services
  <2>1. Routes(s)[i].hp \in HostPathsOf(s)
    BY <1>3 DEF HostPathsOf
  <2>2. <<"svc", Routes(s)[i].svc>> \in {<<"svc", Routes(s)[l].svc>> : l \in DOMAIN Routes(s)}
    BY <1>3
  <2> QED BY <2>1, <2>2 DEF HostPaths, Services
<1> QED BY <1>3, <1>4

(* The keys of routes, of their copies and of scripts are apart. *)
LEMMA KeysApart ==
    ASSUME NEW hp \in HostPaths
    PROVE  /\ RouteKey(hp) \in DBOneKeys \ ScriptKeys
           /\ TempKey(hp) \in DBOneKeys \ ScriptKeys
<1>1. \A k \in ScriptKeys : k[1] = "$"
  BY DEF ScriptKeys, ScriptKey
<1>2. RouteKey(hp)[1] = "route" /\ TempKey(hp)[1] = "temp_"
  BY DEF RouteKey, TempKey
<1>3. RouteKey(hp) \in DBOneKeys /\ TempKey(hp) \in DBOneKeys
  BY DEF DBOneKeys
<1> QED BY <1>1, <1>2, <1>3

(* A service or a script is not the name of a script. *)
LEMMA MembersApart ==
    /\ \A m \in Services : m \notin ScriptKeys
    /\ \A m \in Scripts : m \notin ScriptKeys
<1>1. \A k \in ScriptKeys : k[1] = "$"
  BY DEF ScriptKeys, ScriptKey
<1>2. \A m \in Services : m[1] = "svc"
  BY DEF Services
<1>3. \A m \in Scripts : m[1] = "lua"
  BY DEF Scripts
<1> QED BY <1>1, <1>2, <1>3

(* What an object writes into a hostPath. *)
LEMMA EntriesType ==
    ASSUME NEW o \in Objects, NEW i \in 1..Len(Routes(o.spec)), NEW j \in 1..Width(o)
    PROVE  /\ Entries(o, Routes(o.spec)[i])[j] \in RouteMembers
           /\ Entries(o, Routes(o.spec)[i])[j] \notin ScriptKeys \ Names(o)
<1>1. o.spec \in Specs
  BY DEF Objects
<1>2. <<"svc", Routes(o.spec)[i].svc>> \in Services
  BY <1>1, RoutesType
<1>3. <<"svc", Routes(o.spec)[i].svc>> \in RouteMembers \ ScriptKeys
  BY <1>2, MembersApart DEF RouteMembers
<1>4. HasSnippet(o) => ScriptKey(o) \in ScriptKeys
  BY DEF ScriptKeys
<1>5. CASE HasSnippet(o)
  BY <1>3, <1>4, <1>5 DEF Entries, Width, Names, RouteMembers
<1>6. CASE ~HasSnippet(o)
  BY <1>3, <1>6 DEF Entries, Width
<1> QED BY <1>5, <1>6

(* A route is one or two members: its service, and the name of its script. *)
LEMMA WidthType == ASSUME NEW o PROVE Width(o) \in 1..2
BY DEF Width

(* What stores the script is a command over a "$" key. *)
LEMMA ScriptType == ASSUME NEW o \in Objects PROVE Script(o) \in Seq(Commands)
<1>1. CASE HasSnippet(o)
  <2>1. ScriptKey(o) \in DBOneKeys
    BY <1>1 DEF ScriptKeys, DBOneKeys
  <2>2. <<"lua", o.spec.snippet>> \in Scripts
    BY DEF Scripts, Objects
  <2>3. SADD(ScriptKey(o), <<"lua", o.spec.snippet>>) \in Commands
    BY <2>1, <2>2 DEF SADD, Commands, Command
  <2> QED BY <1>1, <2>3 DEF Script
<1>2. CASE ~HasSnippet(o)
  BY <1>2 DEF Script
<1> QED BY <1>1, <1>2

(* Adding the routes of an object names no script but its own. *)
LEMMA AddsType ==
    ASSUME NEW o \in Objects, NEW tag \in {"route", "temp_"}
    PROVE  Adds(o, tag) \in Seq(Harmless(Names(o)))
<1> DEFINE routes == Routes(o.spec)
           bodies == [i \in DOMAIN routes |->
                        [j \in 1..Width(o) |-> SADD(<<tag, routes[i].hp>>, Entries(o, routes[i])[j])]]
<1>1. o.spec \in Specs
  BY DEF Objects
<1>2. Len(bodies) = Len(routes) /\ Len(routes) \in Nat
  BY <1>1, RoutesType
<1>3. ASSUME NEW i \in 1..Len(routes), NEW j \in 1..Width(o)
      PROVE  SADD(<<tag, routes[i].hp>>, Entries(o, routes[i])[j]) \in Harmless(Names(o))
  <2>1. <<tag, routes[i].hp>> \in DBOneKeys \ ScriptKeys
    <3>1. routes[i].hp \in HostPaths
      BY <1>1, RoutesType
    <3> QED BY <3>1, KeysApart DEF RouteKey, TempKey
  <2>2. /\ Entries(o, routes[i])[j] \in RouteMembers
        /\ Entries(o, routes[i])[j] \notin ScriptKeys \ Names(o)
    BY EntriesType
  <2> HIDE DEF routes
  <2> QED BY <2>1, <2>2 DEF Harmless, SADD, Commands, Command
<1>4. \A i \in 1..Len(bodies) : \A j \in 1..Width(o) : bodies[i][j] \in Harmless(Names(o))
  BY <1>1, <1>2, <1>3, RoutesType
<1>5. Unroll(bodies, Width(o)) \in Seq(Harmless(Names(o)))
  <2> HIDE DEF bodies
  <2> QED BY <1>2, <1>4, WidthType, UnrollElements
<1> QED BY <1>5 DEF Adds

(* Removing them names none. *)
LEMMA RemovesType ==
    ASSUME NEW o \in Objects
    PROVE  Removes(o) \in Seq(Harmless({}))
<1> DEFINE routes == Routes(o.spec)
           bodies == [i \in DOMAIN routes |->
                        [j \in 1..Width(o) |-> SREM(RouteKey(routes[i].hp), Entries(o, routes[i])[j])]]
<1>1. o.spec \in Specs
  BY DEF Objects
<1>2. Len(bodies) = Len(routes) /\ Len(routes) \in Nat
  BY <1>1, RoutesType
<1>3. ASSUME NEW i \in 1..Len(routes), NEW j \in 1..Width(o)
      PROVE  SREM(RouteKey(routes[i].hp), Entries(o, routes[i])[j]) \in Harmless({})
  <2>1. RouteKey(routes[i].hp) \in DBOneKeys \ ScriptKeys
    BY <1>1, RoutesType, KeysApart
  <2>2. Entries(o, routes[i])[j] \in RouteMembers
    BY EntriesType
  <2> HIDE DEF routes
  <2> QED BY <2>1, <2>2 DEF Harmless, SREM, Commands, Command
<1>4. \A i \in 1..Len(bodies) : \A j \in 1..Width(o) : bodies[i][j] \in Harmless({})
  BY <1>1, <1>2, <1>3, RoutesType
<1>5. Unroll(bodies, Width(o)) \in Seq(Harmless({}))
  <2> HIDE DEF bodies
  <2> QED BY <1>2, <1>4, WidthType, UnrollElements
<1> QED BY <1>5 DEF Removes

(* Nor does copying hostPaths aside and removing them from the copies. *)
LEMMA CopiesType ==
    ASSUME NEW o \in Objects
    PROVE  CopiesWithout(o) \in Seq(Harmless({}))
<1> DEFINE routes == Routes(o.spec)
           body(r, j) == IF j = 1 THEN SUNIONSTORE(TempKey(r.hp), RouteKey(r.hp))
                         ELSE SREM(TempKey(r.hp), Entries(o, r)[j - 1])
           bodies == [i \in DOMAIN routes |-> [j \in 1..(1 + Width(o)) |-> body(routes[i], j)]]
<1>1. o.spec \in Specs
  BY DEF Objects
<1>2. Len(bodies) = Len(routes) /\ Len(routes) \in Nat
  BY <1>1, RoutesType
<1>3. ASSUME NEW i \in 1..Len(routes), NEW j \in 1..(1 + Width(o))
      PROVE  body(routes[i], j) \in Harmless({})
  <2>1. /\ RouteKey(routes[i].hp) \in DBOneKeys \ ScriptKeys
        /\ TempKey(routes[i].hp) \in DBOneKeys \ ScriptKeys
    BY <1>1, RoutesType, KeysApart
  <2>2. CASE j = 1
    <3> HIDE DEF routes
    <3> QED BY <2>1, <2>2 DEF Harmless, SUNIONSTORE, Commands, Command
  <2>3. CASE j # 1
    <3>1. j - 1 \in 1..Width(o)
      BY <2>3, WidthType
    <3>2. Entries(o, routes[i])[j - 1] \in RouteMembers
      BY <3>1, EntriesType
    <3> HIDE DEF routes
    <3> QED BY <2>1, <2>3, <3>2 DEF Harmless, SREM, Commands, Command
  <2> QED BY <2>2, <2>3
<1>4. \A i \in 1..Len(bodies) : \A j \in 1..(1 + Width(o)) : bodies[i][j] \in Harmless({})
  <2> HIDE DEF body
  <2> QED BY <1>1, <1>2, <1>3, RoutesType
<1>5. Unroll(bodies, 1 + Width(o)) \in Seq(Harmless({}))
  <2>1. 1 + Width(o) \in 1..3
    BY WidthType
  <2> HIDE DEF bodies
  <2> QED BY <1>2, <1>4, <2>1, UnrollElements
<1> QED BY <1>5 DEF CopiesWithout

(* Nor does putting the copies in place. *)
LEMMA SwapType ==
    ASSUME NEW order \in Seq(HostPaths)
    PROVE  Swap(order) \in Seq(Harmless({}))
<1> DEFINE bodies == [i \in DOMAIN order |-> <<SUNIONSTORE(RouteKey(order[i]), TempKey(order[i])),
                                               DEL(TempKey(order[i]))>>]
<1>1. Len(bodies) = Len(order) /\ Len(order) \in Nat
  OBVIOUS
<1>2. ASSUME NEW i \in 1..Len(order), NEW j \in 1..2
      PROVE  bodies[i][j] \in Harmless({})
  <2>1. /\ RouteKey(order[i]) \in DBOneKeys \ ScriptKeys
        /\ TempKey(order[i]) \in DBOneKeys \ ScriptKeys
    BY KeysApart
  <2>2. SUNIONSTORE(RouteKey(order[i]), TempKey(order[i])) \in Harmless({})
    BY <2>1 DEF Harmless, SUNIONSTORE, Commands, Command
  <2>3. DEL(TempKey(order[i])) \in Harmless({})
    BY <2>1 DEF Harmless, DEL, Commands, Command
  <2> QED BY <2>2, <2>3
<1>3. Unroll(bodies, 2) \in Seq(Harmless({}))
  <2> HIDE DEF bodies
  <2> QED BY <1>1, <1>2, UnrollElements
<1> QED BY <1>3 DEF Swap

(* The last loop of update visits finitely many hostPaths ...              *)
LEMMA TouchedType ==
    ASSUME NEW old \in Objects, NEW new \in Objects
    PROVE  Touched(old, new) \subseteq HostPaths /\ IsFiniteSet(Touched(old, new))
<1>1. ASSUME NEW o \in Objects
      PROVE  HostPathsOf(o.spec) \subseteq HostPaths /\ IsFiniteSet(HostPathsOf(o.spec))
  <2>1. o.spec \in Specs
    BY DEF Objects
  <2>2. DOMAIN Routes(o.spec) = 1..Len(Routes(o.spec)) /\ Len(Routes(o.spec)) \in Nat
    BY <2>1, RoutesType
  <2>3. IsFiniteSet(1..Len(Routes(o.spec)))
    BY <2>2, FS_Interval
  <2>4. IsFiniteSet({Routes(o.spec)[i].hp : i \in 1..Len(Routes(o.spec))})
    <3> DEFINE f == [i \in 1..Len(Routes(o.spec)) |-> Routes(o.spec)[i].hp]
               T == {Routes(o.spec)[i].hp : i \in 1..Len(Routes(o.spec))}
    <3>1. f \in Surjection(1..Len(Routes(o.spec)), T)
      BY DEF Surjection
    <3> HIDE DEF f, T
    <3>2. IsFiniteSet(T)
      BY <2>3, <3>1, FS_Surjection DEF ExistsSurjection
    <3> QED BY <3>2 DEF T
  <2>5. HostPathsOf(o.spec) \subseteq HostPaths
    BY <2>1 DEF HostPaths
  <2> QED BY <2>2, <2>4, <2>5 DEF HostPathsOf
<1> QED BY <1>1, FS_Union, FS_EmptySet DEF Touched

(* An order of a finite set has all of it, each once. *)
LEMMA OrderOfSet ==
    ASSUME NEW T, IsFiniteSet(T), NEW order \in SetToSeqs(T)
    PROVE  /\ order \in Seq(T)
           /\ \A i, j \in 1..Len(order) : order[i] = order[j] => i = j
           /\ {order[i] : i \in 1..Len(order)} = T
<1> DEFINE n == Cardinality(T)
<1>1. n \in Nat
  BY FS_CardinalityType
<1>2. order \in [1..n -> T] /\ \A i, j \in 1..n : i # j => order[i] # order[j]
  BY DEF SetToSeqs
<1>3. IsFiniteSet(1..n) /\ Cardinality(1..n) = n
  BY <1>1, FS_Interval
<1> HIDE DEF n
<1>4. order \in Seq(T) /\ Len(order) = n
  BY <1>1, <1>2, IsSequence
<1>5. order \in Injection(1..n, T)
  BY <1>2 DEF Injection, IsInjective
<1>6. order \in Surjection(1..n, T)
  BY <1>3, <1>5, FS_Injection DEF n
<1>7. {order[i] : i \in 1..n} = T
  BY <1>2, <1>6 DEF Surjection
<1> QED BY <1>2, <1>4, <1>7

(* A set put in an order names each of its members once. *)
LEMMA OrderType ==
    ASSUME NEW old \in Objects, NEW new \in Objects, NEW order \in SetToSeqs(Touched(old, new))
    PROVE  /\ order \in Seq(HostPaths)
           /\ \A i, j \in 1..Len(order) : order[i] = order[j] => i = j
           /\ {order[i] : i \in 1..Len(order)} = Touched(old, new)
<1>1. Touched(old, new) \subseteq HostPaths /\ IsFiniteSet(Touched(old, new))
  BY TouchedType
<1> QED BY <1>1, OrderOfSet

(* Harmless commands stay so when more scripts are there. *)
LEMMA HarmlessMonotonic ==
    ASSUME NEW ks, NEW more, ks \subseteq more
    PROVE  Harmless(ks) \subseteq Harmless(more) /\ Harmless(ks) \subseteq Commands
BY DEF Harmless

(* A program of harmless commands is covered. *)
LEMMA HarmlessCovered ==
    ASSUME NEW ks, NEW cs \in Seq(Harmless({}))
    PROVE  cs \in Seq(Commands) /\ Covered(cs, ks)
<1>1. Harmless({}) \subseteq Commands
  BY DEF Harmless
<1>2. ASSUME NEW j \in 1..Len(cs)
      PROVE  cs[j] \in Harmless(ks \cup AddedBefore(cs, j))
  BY HarmlessMonotonic
<1> QED BY <1>1, <1>2 DEF Covered

(* So is one that adds a script and then names it, in between harmless     *)
(* commands: the shape of add and update.                                  *)
LEMMA ScriptFirstCovered ==
    ASSUME NEW ks, NEW o \in Objects,
           NEW before \in Seq(Harmless({})),
           NEW naming \in Seq(Harmless(Names(o))),
           NEW after \in Seq(Harmless({}))
    PROVE  /\ before \o (Script(o) \o naming) \o after \in Seq(Commands)
           /\ Covered(before \o (Script(o) \o naming) \o after, ks)
<1>1. Harmless({}) \subseteq Commands /\ Harmless(Names(o)) \subseteq Commands
  BY DEF Harmless
<1>2. CASE HasSnippet(o)
  <2> DEFINE c == SADD(ScriptKey(o), <<"lua", o.spec.snippet>>)
             cs == before \o (<<c>> \o naming) \o after
             at == Len(before) + 1
  <2>1. c \in ScriptAdds /\ c \in Commands /\ c.key = ScriptKey(o)
    <3>1. ScriptKey(o) \in ScriptKeys /\ ScriptKey(o) \in DBOneKeys
      BY <1>2 DEF ScriptKeys, DBOneKeys
    <3>2. <<"lua", o.spec.snippet>> \in Scripts
      BY DEF Scripts, Objects
    <3> QED BY <3>1, <3>2 DEF ScriptAdds, SADD, Commands, Command
  <2>2. Script(o) = <<c>> /\ Names(o) = {ScriptKey(o)}
    BY <1>2 DEF Script, Names
  <2> HIDE DEF c
  <2>3. /\ cs \in Seq(Commands)
        /\ at \in Nat
        /\ cs[at] = c
        /\ \A j \in 1..Len(cs) :
                \/ j < at /\ cs[j] \in Harmless({})
                \/ j = at
                \/ j > at /\ cs[j] \in Harmless({}) \cup Harmless(Names(o))
    <3>1. before \in Seq(Commands) /\ naming \in Seq(Commands) /\ after \in Seq(Commands)
      BY <1>1
    <3>2. cs \in Seq(Commands) /\ Len(cs) = Len(before) + 1 + Len(naming) + Len(after)
      BY <2>1, <3>1
    <3>3. at \in Nat /\ cs[at] = c
      BY <2>1, <3>1
    <3>4. ASSUME NEW j \in 1..Len(cs), j < at
          PROVE  cs[j] \in Harmless({})
      <4>1. cs[j] = before[j] /\ j \in 1..Len(before)
        BY <2>1, <3>1, <3>2, <3>4
      <4> QED BY <4>1
    <3>5. ASSUME NEW j \in 1..Len(cs), j > at
          PROVE  cs[j] \in Harmless({}) \cup Harmless(Names(o))
      <4>1. CASE j <= at + Len(naming)
        <5>1. cs[j] = naming[j - at] /\ j - at \in 1..Len(naming)
          BY <2>1, <3>1, <3>2, <3>5, <4>1
        <5> QED BY <5>1
      <4>2. CASE j > at + Len(naming)
        <5>1. /\ cs[j] = after[j - at - Len(naming)]
              /\ j - at - Len(naming) \in 1..Len(after)
          BY <2>1, <3>1, <3>2, <3>5, <4>2
        <5> QED BY <5>1
      <4>3. at + Len(naming) \in Int /\ j \in Int
        BY <3>1, <3>3
      <4> QED BY <4>1, <4>2, <4>3
    <3>6. \A j \in 1..Len(cs) : j < at \/ j = at \/ j > at
      BY <3>3
    <3> QED BY <3>2, <3>3, <3>4, <3>5, <3>6
  <2> HIDE DEF cs, at
  <2>4. ASSUME NEW j \in 1..Len(cs)
        PROVE  cs[j] \in ScriptAdds \cup Harmless(ks \cup AddedBefore(cs, j))
    <3>1. CASE j < at
      BY <2>3, <3>1, HarmlessMonotonic
    <3>2. CASE j = at
      BY <2>1, <2>3, <3>2
    <3>3. CASE j > at
      <4>1. at \in 1..(j - 1)
        <5>1. at >= 1
          BY DEF at
        <5> QED BY <2>3, <3>3, <5>1
      <4>2. ScriptKey(o) \in AddedBefore(cs, j)
        BY <2>1, <2>3, <4>1 DEF AddedBefore
      <4>3. Names(o) \subseteq ks \cup AddedBefore(cs, j)
        BY <2>2, <4>2
      <4>4. /\ Harmless({}) \subseteq Harmless(ks \cup AddedBefore(cs, j))
            /\ Harmless(Names(o)) \subseteq Harmless(ks \cup AddedBefore(cs, j))
        BY <4>3, HarmlessMonotonic
      <4>5. cs[j] \in Harmless({}) \cup Harmless(Names(o))
        <5>1. j \in Int /\ ~(j < at) /\ j # at
          BY <2>3, <3>3
        <5> QED BY <2>3, <5>1
      <4> QED BY <4>4, <4>5
    <3> QED BY <2>3, <3>1, <3>2, <3>3
  <2> QED BY <2>2, <2>3, <2>4 DEF Covered, cs
<1>3. CASE ~HasSnippet(o)
  <2>1. Script(o) = <<>> /\ Names(o) = {}
    BY <1>3 DEF Script, Names
  <2>2. before \o (<<>> \o naming) \o after \in Seq(Harmless({}))
    BY <2>1
  <2> QED BY <2>1, <2>2, HarmlessCovered
<1> QED BY <1>2, <1>3

(* add: the script first, then the routes that name it. *)
LEMMA AddProgramCovered ==
    ASSUME NEW ks, NEW o \in Objects
    PROVE  AddProgram(o) \in Seq(Commands) /\ Covered(AddProgram(o), ks)
<1>1. CASE Included(o)
  <2>1. Adds(o, "route") \in Seq(Harmless(Names(o)))
    BY AddsType
  <2>2. <<>> \in Seq(Harmless({})) /\ Script(o) \in Seq(Commands)
    BY <2>1, ScriptFirstCovered, ScriptType
  <2>3. AddProgram(o) = <<>> \o (Script(o) \o Adds(o, "route")) \o <<>>
    <3>1. Script(o) \o Adds(o, "route") \in Seq(Commands)
      BY <2>1, <2>2, HarmlessMonotonic
    <3> QED BY <1>1, <3>1 DEF AddProgram
  <2> QED BY <2>1, <2>2, <2>3, ScriptFirstCovered
<1>2. CASE ~Included(o)
  <2>1. AddProgram(o) = <<>> /\ <<>> \in Seq(Harmless({}))
    BY <1>2 DEF AddProgram
  <2> QED BY <2>1, HarmlessCovered
<1> QED BY <1>1, <1>2

(* update: copies, the script, the names into the copies, the swap. *)
LEMMA UpdateProgramCovered ==
    ASSUME NEW ks, NEW old \in Objects, NEW new \in Objects,
           NEW order \in SetToSeqs(Touched(old, new))
    PROVE  /\ UpdateProgram(old, new, order) \in Seq(Commands)
           /\ Covered(UpdateProgram(old, new, order), ks)
<1> DEFINE before == IF Included(old) THEN CopiesWithout(old) ELSE <<>>
<1>1. before \in Seq(Harmless({}))
  BY CopiesType
<1>2. Swap(order) \in Seq(Harmless({}))
  BY OrderType, SwapType
<1>3. CASE Included(new)
  <2> DEFINE after == IF Panics(new) THEN <<>> ELSE Swap(order)
  <2>1. Adds(new, "temp_") \in Seq(Harmless(Names(new)))
    BY AddsType
  <2>2. after \in Seq(Harmless({}))
    BY <1>2
  <2>3. UpdateProgram(old, new, order) = before \o (Script(new) \o Adds(new, "temp_")) \o after
    BY <1>3 DEF UpdateProgram
  <2> HIDE DEF before, after
  <2> QED BY <1>1, <2>1, <2>2, <2>3, ScriptFirstCovered
<1>4. CASE ~Included(new)
  <2>1. UpdateProgram(old, new, order) = before \o <<>> \o Swap(order)
    BY <1>4 DEF UpdateProgram, Panics
  <2> HIDE DEF before
  <2>2. before \o <<>> \o Swap(order) \in Seq(Harmless({}))
    BY <1>1, <1>2
  <2> QED BY <2>1, <2>2, HarmlessCovered
<1> QED BY <1>3, <1>4

(* delete: removals only; the script stays. *)
LEMMA DeleteProgramCovered ==
    ASSUME NEW ks, NEW o \in Objects
    PROVE  DeleteProgram(o) \in Seq(Commands) /\ Covered(DeleteProgram(o), ks)
<1>1. DeleteProgram(o) \in Seq(Harmless({}))
  BY RemovesType DEF DeleteProgram
<1> QED BY <1>1, HarmlessCovered

-----------------------------------------------------------------------------
(* What each event hands to the handler, and the store it leaves. *)
LEMMA EventType ==
    ASSUME TypeOK, IngressEvent
    PROVE  /\ Idle /\ UNCHANGED <<db1, faults>>
           /\ store' \in [Ids -> Objects \cup {NoObject}]
           /\ event' \in {"add", "update", "delete"}
           /\ todo' \in Seq(Commands)
           /\ \A ks : Covered(todo', ks)
           /\ rv' \in 0..MaxVersion
           /\ missed' \in 0..MaxMissed
<1> USE BoundsAssumption
<1>1. ASSUME NEW s \in Specs, rv < MaxVersion
      PROVE  Version(s) \in Objects /\ Id(s) \in Ids /\ rv + 1 \in 0..MaxVersion
  BY <1>1 DEF TypeOK, Version, Objects, Ids
<1>2. ASSUME NEW s \in Specs, Add(s)
      PROVE  /\ Idle /\ UNCHANGED <<db1, faults>>
             /\ store' \in [Ids -> Objects \cup {NoObject}]
             /\ event' \in {"add", "update", "delete"}
             /\ todo' \in Seq(Commands)
             /\ \A ks : Covered(todo', ks)
             /\ rv' \in 0..MaxVersion
             /\ missed' \in 0..MaxMissed
  <2>1. Version(s) \in Objects /\ rv + 1 \in 0..MaxVersion
    BY <1>1, <1>2 DEF Add
  <2>2. todo' = AddProgram(Version(s))
    BY <1>2 DEF Add, Deliver
  <2>3. todo' \in Seq(Commands) /\ \A ks : Covered(todo', ks)
    BY <2>1, <2>2, AddProgramCovered
  <2> QED BY <1>2, <2>1, <2>3 DEF Add, Deliver, AtRest, TypeOK
<1>3. ASSUME NEW s \in Specs, Update(s)
      PROVE  /\ Idle /\ UNCHANGED <<db1, faults>>
             /\ store' \in [Ids -> Objects \cup {NoObject}]
             /\ event' \in {"add", "update", "delete"}
             /\ todo' \in Seq(Commands)
             /\ \A ks : Covered(todo', ks)
             /\ rv' \in 0..MaxVersion
             /\ missed' \in 0..MaxMissed
  <2>1. Version(s) \in Objects /\ rv + 1 \in 0..MaxVersion
    BY <1>1, <1>3 DEF Update
  <2>2. store[Id(s)] \in Objects
    BY <1>1, <1>3 DEF Update, TypeOK
  <2>3. PICK order \in SetToSeqs(Touched(store[Id(s)], Version(s))) :
            Deliver("update", UpdateProgram(store[Id(s)], Version(s), order))
    BY <1>3 DEF Update
  <2>4. todo' \in Seq(Commands) /\ \A ks : Covered(todo', ks)
    BY <2>1, <2>2, <2>3, UpdateProgramCovered DEF Deliver
  <2> QED BY <1>3, <2>1, <2>3, <2>4 DEF Update, Deliver, AtRest, TypeOK
<1>4. ASSUME NEW n \in Ids, Resync(n)
      PROVE  /\ Idle /\ UNCHANGED <<db1, faults>>
             /\ store' \in [Ids -> Objects \cup {NoObject}]
             /\ event' \in {"add", "update", "delete"}
             /\ todo' \in Seq(Commands)
             /\ \A ks : Covered(todo', ks)
             /\ rv' \in 0..MaxVersion
             /\ missed' \in 0..MaxMissed
  <2>1. store[n] \in Objects
    BY <1>4 DEF Resync, TypeOK
  <2>2. PICK order \in SetToSeqs(Touched(store[n], store[n])) :
            Deliver("update", UpdateProgram(store[n], store[n], order))
    BY <1>4 DEF Resync
  <2>3. todo' \in Seq(Commands) /\ \A ks : Covered(todo', ks)
    BY <2>1, <2>2, UpdateProgramCovered DEF Deliver
  <2> QED BY <1>4, <2>2, <2>3 DEF Resync, Deliver, AtRest, TypeOK
<1>5. ASSUME NEW n \in Ids, Delete(n)
      PROVE  /\ Idle /\ UNCHANGED <<db1, faults>>
             /\ store' \in [Ids -> Objects \cup {NoObject}]
             /\ event' \in {"add", "update", "delete"}
             /\ todo' \in Seq(Commands)
             /\ \A ks : Covered(todo', ks)
             /\ rv' \in 0..MaxVersion
             /\ missed' \in 0..MaxMissed
  <2>1. store[n] \in Objects
    BY <1>5 DEF Delete, TypeOK
  <2>2. todo' = DeleteProgram(store[n]) \/ todo' = <<>>
    BY <1>5 DEF Delete, Deliver
  <2>3. CASE todo' = DeleteProgram(store[n])
    BY <1>5, <2>1, <2>3, DeleteProgramCovered DEF Delete, Deliver, AtRest, TypeOK
  <2>4. CASE todo' = <<>>
    BY <1>5, <2>4 DEF Delete, Deliver, AtRest, Covered, TypeOK
  <2> QED BY <2>2, <2>3, <2>4
<1> QED BY <1>2, <1>3, <1>4, <1>5 DEF IngressEvent

(* A step keeps the types. *)
LEMMA TypeStep ==
    ASSUME TypeOK, [Next]_ingressVars
    PROVE  TypeOK'
<1> USE BoundsAssumption
<1>1. CASE IngressEvent
  BY <1>1, EventType DEF TypeOK
<1>2. CASE Exec
  <2>1. Head(todo) \in Commands /\ Tail(todo) \in Seq(Commands)
    BY <1>2 DEF Exec, Idle, TypeOK
  <2>2. CASE Succeeds
    <3>1. db1' \in [DBOneKeys -> SUBSET (RouteMembers \cup Scripts)]
      BY <2>1, <2>2, ApplyType DEF Succeeds, TypeOK, Commands
    <3> QED BY <1>2, <2>1, <2>2, <3>1 DEF Exec, Succeeds, TypeOK
  <2>3. CASE Fails
    BY <1>2, <2>1, <2>3 DEF Exec, Fails, TypeOK
  <2> QED BY <1>2, <2>2, <2>3 DEF Exec
<1>3. CASE Panic \/ Restart
  <2>1. Restart
    BY <1>3 DEF Panic
  <2> QED BY <2>1 DEF Restart, FlushAll, TypeOK
<1>4. CASE UNCHANGED ingressVars
  BY <1>4 DEF ingressVars, TypeOK
<1> QED BY <1>1, <1>2, <1>3, <1>4 DEF Next

(* Every variable keeps its type, whatever fails and whenever the          *)
(* controller restarts; in particular the handler never sends a command    *)
(* over a key that is not a hostPath, its copy or a script.                *)
THEOREM TypeCorrect == Spec => []TypeOK
<1>1. Init => TypeOK
  BY BoundsAssumption DEF Init, TypeOK
<1>2. TypeOK /\ [Next]_ingressVars => TypeOK'
  BY TypeStep
<1> QED BY <1>1, <1>2, PTL DEF Spec

-----------------------------------------------------------------------------
(* Scripts before routes. *)

Present == {k \in ScriptKeys : db1[k] # {}}

(* The inductive invariant: the routes and their copies name scripts that  *)
(* are there, and so does what the callback has yet to do, which adds a    *)
(* script before it names it.                                              *)
ScriptInv ==
    /\ TypeOK
    /\ faults = 0 =>
        /\ \A k \in DBOneKeys \ ScriptKeys : db1[k] \cap ScriptKeys \subseteq Present
        /\ Covered(todo, Present)

(* The step that matters: a command that puts a name somewhere finds its   *)
(* script there, and no command takes a script away.                       *)
LEMMA ExecKeepsScripts ==
    ASSUME ScriptInv, Exec, faults' = 0
    PROVE  /\ \A k \in DBOneKeys \ ScriptKeys : db1'[k] \cap ScriptKeys \subseteq Present'
           /\ Covered(todo', Present')
           /\ Present \subseteq Present'
<1> DEFINE c == Head(todo)
<1>1. /\ todo \in Seq(Commands) /\ todo # <<>>
      /\ c = todo[1] /\ c \in Commands
      /\ todo' = Tail(todo) /\ todo' \in Seq(Commands)
      /\ Len(todo) \in Nat /\ Len(todo') = Len(todo) - 1
      /\ \A j \in 1..Len(todo') : todo'[j] = todo[j + 1]
      /\ db1' = Apply(db1, c) /\ faults = 0
      /\ db1 \in [DBOneKeys -> SUBSET (RouteMembers \cup Scripts)]
  BY DEF ScriptInv, TypeOK, Exec, Succeeds, Fails, Idle
<1> HIDE DEF c
<1>2. c \in ScriptAdds \cup Harmless(Present)
  <2>1. AddedBefore(todo, 1) = {}
    BY DEF AddedBefore
  <2>2. c \in ScriptAdds \cup Harmless(Present \cup AddedBefore(todo, 1))
    BY <1>1 DEF ScriptInv, Covered
  <2> QED BY <2>1, <2>2
<1>3. Present' = Present \cup (IF c \in ScriptAdds THEN {c.key} ELSE {})
  <2>1. CASE c \in ScriptAdds
    <3>1. c.op = "SADD" /\ c.key \in ScriptKeys
      BY <2>1 DEF ScriptAdds
    <3>2. c.key \in DBOneKeys
      BY <3>1 DEF DBOneKeys
    <3>3. db1'[c.key] = db1[c.key] \cup {c.arg}
      BY <1>1, <3>1, <3>2 DEF Apply
    <3>4. \A k \in ScriptKeys : k # c.key => db1'[k] = db1[k]
      BY <1>1 DEF Apply, DBOneKeys
    <3> QED BY <2>1, <3>1, <3>3, <3>4 DEF Present
  <2>2. CASE c \notin ScriptAdds
    <3>1. c.key \notin ScriptKeys
      BY <1>2, <2>2 DEF Harmless
    <3>2. \A k \in ScriptKeys : db1'[k] = db1[k]
      BY <1>1, <3>1 DEF Apply, DBOneKeys
    <3> QED BY <2>2, <3>2 DEF Present
  <2> QED BY <2>1, <2>2
<1>4. ASSUME NEW k \in DBOneKeys \ ScriptKeys
      PROVE  db1'[k] \cap ScriptKeys \subseteq Present'
  <2>1. db1[k] \cap ScriptKeys \subseteq Present
    BY <1>1 DEF ScriptInv
  <2>2. CASE c.key # k
    BY <1>1, <1>3, <2>1, <2>2 DEF Apply
  <2>3. CASE c.key = k
    <3>1. c \in Harmless(Present)
      BY <1>2, <2>3 DEF ScriptAdds
    <3>2. CASE c.op = "SADD"
      <4>1. db1'[k] = db1[k] \cup {c.arg}
        BY <1>1, <2>3, <3>2 DEF Apply
      <4>2. c.arg \notin ScriptKeys \ Present
        BY <3>1, <3>2 DEF Harmless
      <4> QED BY <1>3, <2>1, <4>1, <4>2
    <3>3. CASE c.op = "SREM"
      BY <1>1, <1>3, <2>1, <2>3, <3>3 DEF Apply
    <3>4. CASE c.op = "SUNIONSTORE"
      <4>1. db1'[k] = db1[c.arg]
        BY <1>1, <2>3, <3>4 DEF Apply
      <4>2. c.arg \in DBOneKeys \ ScriptKeys
        BY <3>1, <3>4 DEF Harmless, Commands, Command
      <4> QED BY <1>1, <1>3, <4>1, <4>2 DEF ScriptInv
    <3>5. CASE c.op = "DEL"
      BY <1>1, <2>3, <3>5 DEF Apply
    <3> QED BY <1>1, <3>2, <3>3, <3>4, <3>5 DEF Commands, Command
  <2> QED BY <2>2, <2>3
<1>5. ASSUME NEW j \in 1..Len(todo')
      PROVE  todo'[j] \in ScriptAdds \cup Harmless(Present' \cup AddedBefore(todo', j))
  <2>1. j + 1 \in 1..Len(todo) /\ todo'[j] = todo[j + 1]
    BY <1>1
  <2>2. todo[j + 1] \in ScriptAdds \cup Harmless(Present \cup AddedBefore(todo, j + 1))
    BY <1>1, <2>1 DEF ScriptInv, Covered
  <2>3. Present \cup AddedBefore(todo, j + 1) \subseteq Present' \cup AddedBefore(todo', j)
    <3>1. ASSUME NEW i \in 1..((j + 1) - 1), todo[i] \in ScriptAdds
          PROVE  todo[i].key \in Present' \cup AddedBefore(todo', j)
      <4>1. CASE i = 1
        BY <1>1, <1>3, <3>1, <4>1
      <4>2. CASE i # 1
        <5>1. i - 1 \in 1..(j - 1) /\ todo'[i - 1] = todo[i]
          BY <1>1, <4>2
        <5> QED BY <3>1, <5>1 DEF AddedBefore
      <4> QED BY <4>1, <4>2
    <3> QED BY <1>3, <3>1 DEF AddedBefore
  <2>4. Harmless(Present \cup AddedBefore(todo, j + 1)) \subseteq Harmless(Present' \cup AddedBefore(todo', j))
    BY <2>3, HarmlessMonotonic
  <2> QED BY <2>1, <2>2, <2>4
<1> QED BY <1>3, <1>4, <1>5 DEF Covered

(* The inductive invariant holds at every step. *)
LEMMA ScriptInvAlways == Spec => []ScriptInv
<1>1. Init => ScriptInv
  <2> SUFFICES ASSUME Init PROVE ScriptInv
    OBVIOUS
  <2>1. TypeOK
    BY BoundsAssumption DEF Init, TypeOK
  <2>2. todo = <<>> /\ \A k \in DBOneKeys : db1[k] = {}
    BY DEF Init
  <2> QED BY <2>1, <2>2 DEF ScriptInv, Covered
<1>2. TypeOK' /\ ScriptInv /\ [Next]_ingressVars => ScriptInv'
  <2> SUFFICES ASSUME TypeOK', ScriptInv, [Next]_ingressVars PROVE ScriptInv'
    OBVIOUS
  <2>1. CASE IngressEvent
    <3>1. UNCHANGED <<db1, faults>> /\ \A ks : Covered(todo', ks)
      BY <2>1, EventType DEF ScriptInv
    <3>2. Present' = Present
      BY <3>1 DEF Present
    <3>3. Covered(todo', Present')
      BY <3>1
    <3> QED BY <3>1, <3>2, <3>3 DEF ScriptInv
  <2>2. CASE Exec
    <3>1. faults' = 0 =>
            /\ \A k \in DBOneKeys \ ScriptKeys : db1'[k] \cap ScriptKeys \subseteq Present'
            /\ Covered(todo', Present')
      BY <2>2, ExecKeepsScripts
    <3> QED BY <3>1 DEF ScriptInv
  <2>3. CASE Panic \/ Restart
    <3>1. Restart
      BY <2>3 DEF Panic
    <3>2. todo' = <<>> /\ \A k \in DBOneKeys : db1'[k] = {}
      BY <3>1 DEF Restart, FlushAll, ScriptInv, TypeOK
    <3> QED BY <3>2 DEF ScriptInv, Covered
  <2>4. CASE UNCHANGED ingressVars
    <3>1. db1' = db1 /\ todo' = todo /\ faults' = faults
      BY <2>4 DEF ingressVars
    <3> QED BY <3>1 DEF ScriptInv, Present
  <2> QED BY <2>1, <2>2, <2>3, <2>4 DEF Next
<1> QED BY <1>1, <1>2, TypeCorrect, PTL DEF Spec

(* As long as Redis fails no command, a name of a script that a request    *)
(* can find in a route, or update in a copy of one, is the key of a script *)
(* that is there: at every step of every callback, for every set of        *)
(* ingresses, whatever hostPaths they share.                               *)
THEOREM ScriptsFirst == Spec => []ScriptBeforeRoute
<1>1. ScriptInv => ScriptBeforeRoute
  BY DEF ScriptInv, ScriptBeforeRoute, Present
<1> QED BY <1>1, ScriptInvAlways, PTL
=============================================================================
